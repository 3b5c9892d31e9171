----------------------------- MODULE CodecRecovery -----------------------------
(***************************************************************************)
(* The Android decoder and its recovery from codec errors                  *)
(* (MediaCodecDecoderRenderer.java).  Three threads use one MediaCodec:    *)
(* the input thread, which submits frames, the renderer thread, which      *)
(* fetches output buffers, and, with balanced frame pacing, the            *)
(* Choreographer thread, which shows them.  A thread that gets an error    *)
(* raises the recovery type; every thread visits the recovery after each   *)
(* use of the codec, and the last one to arrive stops, reconfigures,       *)
(* resets or recreates the codec while the others wait.  A change of the   *)
(* HDR metadata asks for a restart in the same way, and the application    *)
(* may stop the decoder at any time.                                       *)
(*                                                                         *)
(* The type is an atomic integer that is tested and set outside of the     *)
(* monitor, so every test and every assignment of it is a step.  The codec *)
(* and the depacketizer are external: a call of the codec returns or       *)
(* throws, and a frame that follows a request for an IDR frame is one.     *)
(* Nothing in the code asks for a flush, so that type does not occur.      *)
(***************************************************************************)
EXTENDS Integers, Sequences

CONSTANTS
  Pacings,        \* which settings of balanced frame pacing to consider
  MaxTries,       \* recoveries after which errors are reported instead (10 in the code)
  QueueLimit,     \* OUTPUT_BUFFER_QUEUE_LIMIT
  Budgets         \* bound, by setting: errors of the codec and changes of the HDR metadata

ASSUME CodecAssumption ==
  /\ Pacings \subseteq BOOLEAN /\ Pacings # {}
  /\ MaxTries \in Nat /\ QueueLimit \in Nat \ {0}
  /\ Budgets \in [BOOLEAN -> SUBSET [errors : Nat, changes : Nat]]

Threads == {"input", "render", "choreo"}
Nobody  == "nobody"

VARIABLES
  balanced,      \* balanced frame pacing: there is a Choreographer thread
  type,          \* codecRecoveryType
  flags,         \* codecRecoveryThreadQuiescedFlags
  attempts,      \* codecRecoveryAttempts
  owner,         \* the thread that holds the monitor while it recovers the codec
  pc,            \* where each thread is
  call,          \* what the input thread is doing: fetch, queue or prefetch a buffer
  error,         \* per thread: what its last use of the codec ended with
  inBuf,         \* nextInputBuffer: none, fresh, or stale (of the codec before its restart)
  outQ,          \* outputBufferQueue
  hand,          \* the buffer that the renderer or the Choreographer took from it
  frame, asked,  \* the frame in hand, I or P; an IDR frame was asked for
  primed,        \* the codec got an IDR frame since it was configured
  hdr, usedHdr,  \* currentHdrMetadata, and what the codec was configured with
  hdrCall,       \* setHdrMode between its assignments and its request
  stopping, interrupted,   \* the flag, and the interrupt of the renderer thread
  app,           \* how much of the stop the application has done
  reported,      \* initialException is set
  crashed,       \* an exception left a thread
  budget,        \* errors and changes of the metadata still to come
  overtaken      \* history: a recovery was raised while a thread waited, or during a stop

recoveryVars == <<type, flags, attempts, owner, overtaken>>
bufferVars   == <<inBuf, outQ, hand>>
frameVars    == <<frame, asked, primed>>
hdrVars      == <<hdr, usedHdr, hdrCall>>
stopVars     == <<stopping, interrupted, app>>
errorVars    == <<error, reported, crashed, budget>>
vars == <<balanced, recoveryVars, pc, call, bufferVars, frameVars, hdrVars, stopVars, errorVars>>

Init ==
  /\ balanced \in Pacings
  /\ type = "NONE" /\ flags = {} /\ attempts = 0 /\ owner = Nobody
  /\ pc = [t \in Threads |-> CASE t = "input" -> "idle" [] t = "render" -> "dequeue"
                               [] OTHER -> IF balanced THEN "idle" ELSE "gone"]
  /\ call = "fetch" /\ error = [t \in Threads |-> "none"]
  /\ inBuf = "none" /\ outQ = <<>> /\ hand = [t \in Threads |-> "none"]
  /\ frame = "I" /\ asked = TRUE /\ primed = FALSE
  /\ hdr = FALSE /\ usedHdr = FALSE /\ hdrCall = FALSE
  /\ stopping = FALSE /\ interrupted = FALSE /\ app = 0
  /\ reported = FALSE /\ crashed = FALSE /\ budget \in Budgets[balanced] /\ overtaken = FALSE

At(t, where)  == ~crashed /\ pc[t] = where
Goto(t, where) == pc' = [pc EXCEPT ![t] = where]

-----------------------------------------------------------------------------
\* Raising the recovery type, by any thread and by setHdrMode.

Waiting(t)  == pc[t] = "waiting"
RaiseTo(x)  ==
  /\ type' = x
  /\ overtaken' = (overtaken \/ (type = "NONE" /\ (stopping \/ \E t \in Threads : Waiting(t))))

(* A call of the codec ends with an error, which handleDecoderException    *)
(* eats during a stop and lets go when it is transient.  Only the input    *)
(* thread does something else after a transient error: it keeps its buffer *)
(* and asks for an IDR frame.                                              *)
Errors(t) == IF t = "input" THEN {"transient", "recoverable", "fatal"} ELSE {"recoverable", "fatal"}
Throw(t) ==
  /\ budget.errors > 0 /\ budget' = [budget EXCEPT !.errors = @ - 1]
  /\ \E e \in Errors(t) :
       /\ error' = [error EXCEPT ![t] = e]
       /\ Goto(t, IF stopping \/ e = "transient" THEN "check" ELSE "handle")
       /\ inBuf' = IF t = "input" /\ call = "queue" /\ stopping THEN "none" ELSE inBuf
  /\ UNCHANGED <<reported, crashed>>

Wanted(t) == IF error[t] = "recoverable" THEN "RESTART" ELSE "RESET"

(* A buffer that could not be queued is leaked. *)
DropFailedBuffer(t) == inBuf' = IF t = "input" /\ call = "queue" THEN "none" ELSE inBuf

(* handleDecoderException: the first compareAndSet, from NONE. *)
RaiseFromNone(t) ==
  /\ At(t, "handle") /\ attempts < MaxTries
  /\ IF type = "NONE" THEN RaiseTo(Wanted(t)) /\ Goto(t, "check") /\ DropFailedBuffer(t)
     ELSE /\ Goto(t, IF error[t] = "fatal" THEN "promote" ELSE "get")
          /\ UNCHANGED <<type, overtaken, inBuf>>
  /\ UNCHANGED <<balanced, flags, attempts, owner, call, outQ, hand, frameVars, hdrVars, stopVars, errorVars>>

(* An error that needs a reset promotes a restart. *)
Promote(t) ==
  /\ At(t, "promote")
  /\ IF type = "RESTART" THEN RaiseTo("RESET") /\ Goto(t, "check") /\ DropFailedBuffer(t)
     ELSE Goto(t, "get") /\ UNCHANGED <<type, overtaken, inBuf>>
  /\ UNCHANGED <<balanced, flags, attempts, owner, call, outQ, hand, frameVars, hdrVars, stopVars, errorVars>>

(* When none of them succeeds a recovery must be pending already; each    *)
(* comparison of the last test reads the type again.                       *)
FirstGet(t) ==
  /\ At(t, "get")
  /\ IF type = "RESET" THEN Goto(t, "check") /\ DropFailedBuffer(t) /\ UNCHANGED crashed
     ELSE IF error[t] = "fatal" THEN crashed' = TRUE /\ UNCHANGED <<pc, inBuf>>
     ELSE Goto(t, "get again") /\ UNCHANGED <<crashed, inBuf>>
  /\ UNCHANGED <<balanced, recoveryVars, call, outQ, hand, frameVars, hdrVars, stopVars,
                 error, reported, budget>>

SecondGet(t) ==
  /\ At(t, "get again")
  /\ IF type = "RESTART" THEN Goto(t, "check") /\ DropFailedBuffer(t) /\ UNCHANGED crashed
     ELSE crashed' = TRUE /\ UNCHANGED <<pc, inBuf>>
  /\ UNCHANGED <<balanced, recoveryVars, call, outQ, hand, frameVars, hdrVars, stopVars,
                 error, reported, budget>>

(* After too many recoveries the first error is remembered, and thrown    *)
(* when errors still come three seconds later.                             *)
Report(t) ==
  /\ At(t, "handle") /\ attempts >= MaxTries
  /\ IF type = "NONE"
     THEN /\ reported' = TRUE
          /\ \/ reported /\ crashed' = TRUE /\ UNCHANGED <<pc, inBuf>>
             \/ crashed' = FALSE /\ Goto(t, "check") /\ DropFailedBuffer(t)
     ELSE Goto(t, "check") /\ DropFailedBuffer(t) /\ UNCHANGED <<reported, crashed>>
  /\ UNCHANGED <<balanced, recoveryVars, call, outQ, hand, frameVars, hdrVars, stopVars,
                 error, budget>>

(* setHdrMode: the metadata and the counter of attempts are assigned, then *)
(* a restart is requested unless a recovery is pending.                    *)
SetHdr ==
  /\ ~crashed /\ ~hdrCall /\ budget.changes > 0 /\ app = 0
  /\ hdr' = ~hdr /\ attempts' = 0 /\ hdrCall' = TRUE /\ budget' = [budget EXCEPT !.changes = @ - 1]
  /\ UNCHANGED <<balanced, type, flags, owner, overtaken, pc, call, bufferVars, frameVars,
                 usedHdr, stopVars, error, reported, crashed>>

RequestRestart ==
  /\ ~crashed /\ hdrCall
  /\ hdrCall' = FALSE
  /\ IF type = "NONE" THEN RaiseTo("RESTART") ELSE UNCHANGED <<type, overtaken>>
  /\ UNCHANGED <<balanced, flags, attempts, owner, pc, call, bufferVars, frameVars,
                 hdr, usedHdr, stopVars, errorVars>>

-----------------------------------------------------------------------------
\* doCodecRecoveryIfRequired, with faulty variants for the mutants.

QuiescedWithoutRenderer(t) == flags \cup {t, "render"} \cup (IF balanced THEN {} ELSE {"choreo"})
Quiesced(t) == flags \cup {t} \cup (IF balanced THEN {} ELSE {"choreo"})

(* What the thread does after its visit; `recovered' is what it returns.   *)
NeverToldRecovered(recovered) == FALSE
ToldRecovered(recovered) == recovered

Needs(recovered) ==
  \/ ToldRecovered(recovered) \/ error["input"] # "none" \/ (call # "queue" /\ inBuf' = "none")

After(c) == CASE c = "fetch" -> "queue" [] c = "queue" -> "prefetch" [] c = "prefetch" -> "idle"

(* The renderer tests `stopping' in its loop, the Choreographer at its     *)
(* next frame; the input thread goes on with the buffer it got, asks for   *)
(* an IDR frame, or is done with the frame.                                *)
Return(t, recovered) ==
  /\ error' = [error EXCEPT ![t] = "none"]
  /\ IF t = "render" THEN Goto(t, IF stopping THEN "gone" ELSE "dequeue") /\ UNCHANGED <<call, frame, asked>>
     ELSE IF t = "choreo" THEN Goto(t, "idle") /\ UNCHANGED <<call, frame, asked>>
     ELSE /\ asked' = (asked \/ Needs(recovered))
          /\ LET next == IF Needs(recovered) THEN "idle" ELSE After(call)
             IN  /\ Goto(t, next)
                 /\ call'  = IF next = "idle" THEN "fetch" ELSE next
                 /\ frame' = IF next = "idle" THEN "I" ELSE frame

(* The visit after a use of the codec that ended well. *)
Visit(t) ==
  /\ IF type = "NONE" THEN Return(t, FALSE) ELSE Goto(t, "enter") /\ UNCHANGED <<error, call, frame, asked>>
  /\ UNCHANGED <<reported, crashed, budget>>

(* The visit after an error. *)
VisitAfterError(t) ==
  /\ At(t, "check") /\ Visit(t)
  /\ UNCHANGED <<balanced, recoveryVars, bufferVars, primed, hdrVars, stopVars>>

ForgetsOutputOnly == inBuf' = inBuf /\ outQ' = <<>>
ForgetsBuffers    == inBuf' = "none" /\ outQ' = <<>>

(* The last thread to arrive takes the monitor for the recovery; its       *)
(* stages follow.  The others wait in the monitor.                         *)
Enter(t) ==
  /\ At(t, "enter") /\ owner = Nobody
  /\ flags' = Quiesced(t)
  /\ IF flags' = Threads
     THEN /\ owner' = t /\ Goto(t, "recover")
          /\ attempts' = IF type # "NONE" THEN attempts + 1 ELSE attempts
          /\ ForgetsBuffers
     ELSE Goto(t, "waiting") /\ UNCHANGED <<owner, attempts, inBuf, outQ>>
  /\ UNCHANGED <<balanced, type, overtaken, call, hand, frameVars, hdrVars, stopVars, errorVars>>

Stale(b) == IF b = "none" THEN b ELSE "stale"

(* configureAndStartDecoder: the codec takes the metadata of now, and what *)
(* anyone holds of its buffers is no longer its own.                       *)
Configure ==
  /\ usedHdr' = hdr /\ primed' = FALSE
  /\ inBuf' = Stale(inBuf)
  /\ outQ' = [i \in DOMAIN outQ |-> Stale(outQ[i])]
  /\ hand' = [t \in Threads |-> Stale(hand[t])]

SurfaceIsGone(t) ==
  /\ stopping' = TRUE /\ Goto(t, "configured")
  /\ UNCHANGED <<usedHdr, primed, bufferVars, crashed>>

Configured(t) == Configure /\ Goto(t, "configured") /\ UNCHANGED <<stopping, crashed>>

(* stop() and start() with the same format, then reset(), then a new codec. *)
Restart(t) ==
  /\ At(t, "recover") /\ type = "RESTART"
  /\ \/ Configured(t) /\ UNCHANGED type
     \/ SurfaceIsGone(t) /\ UNCHANGED type
     \/ type' = "RESET" /\ UNCHANGED <<pc, usedHdr, primed, bufferVars, stopping, crashed>>
  /\ UNCHANGED <<balanced, flags, attempts, owner, overtaken, call, frame, asked, hdr, hdrCall,
                 interrupted, app, error, reported, budget>>

Reset(t) ==
  /\ At(t, "recover") /\ type = "RESET"
  /\ \/ Configured(t)
     \/ SurfaceIsGone(t)
     \/ Goto(t, "recreate") /\ UNCHANGED <<usedHdr, primed, bufferVars, stopping, crashed>>
  /\ UNCHANGED <<balanced, recoveryVars, call, frame, asked, hdr, hdrCall,
                 interrupted, app, error, reported, budget>>

Recreate(t) ==
  /\ At(t, "recreate")
  /\ \/ Configured(t)
     \/ SurfaceIsGone(t)
     \/ crashed' = TRUE /\ UNCHANGED <<pc, usedHdr, primed, bufferVars, stopping>>
  /\ UNCHANGED <<balanced, recoveryVars, call, frame, asked, hdr, hdrCall,
                 interrupted, app, error, reported, budget>>

RecoveryDone(t) ==
  /\ At(t, "configured")
  /\ type' = "NONE" /\ Goto(t, "finish")
  /\ UNCHANGED <<balanced, flags, attempts, owner, overtaken, call, bufferVars, frameVars,
                 hdrVars, stopVars, errorVars>>

(* All quiesced threads are woken.  When a stop cleared the type before    *)
(* the last thread took the monitor there was nothing to do.               *)
Finish(t) ==
  /\ At(t, "finish") \/ (At(t, "recover") /\ type = "NONE")
  /\ flags' = {} /\ owner' = Nobody
  /\ UNCHANGED <<balanced, type, attempts, overtaken, bufferVars, primed, hdrVars, stopVars,
                 reported, crashed, budget>>
  /\ Return(t, TRUE)

(* A waiting thread tests the type whenever it has the monitor (notified,  *)
(* or after a second); an interrupt ends the wait of the renderer.         *)
LeaveWait(t) ==
  /\ At(t, "waiting") /\ owner = Nobody
  /\ type = "NONE" \/ (t = "render" /\ interrupted)
  /\ UNCHANGED <<balanced, recoveryVars, bufferVars, primed, hdrVars, stopVars,
                 reported, crashed, budget>>
  /\ Return(t, TRUE)

-----------------------------------------------------------------------------
\* The input thread: submitDecodeUnit.  A configured codec wants an IDR frame first.

Submit ==
  /\ At("input", "idle") /\ ~stopping
  /\ \E k \in IF asked THEN {"I"} ELSE {"I", "P"} : frame' = k
  /\ asked' = FALSE
  /\ call' = (IF inBuf = "none" THEN "fetch" ELSE "queue") /\ Goto("input", call')
  /\ UNCHANGED <<balanced, recoveryVars, bufferVars, primed, hdrVars, stopVars, errorVars>>

ThrowInCall(t) == Throw(t) /\ UNCHANGED <<call, frame, asked>>

(* dequeueInputBuffer is repeated until it gives a buffer or the decoder stops. *)
Fetch ==
  /\ ~crashed /\ pc["input"] \in {"fetch", "prefetch"}
  /\ \/ inBuf' = "fresh" /\ Visit("input")
     \/ stopping /\ inBuf' = "none" /\ Visit("input")
     \/ ThrowInCall("input")
  /\ UNCHANGED <<balanced, recoveryVars, outQ, hand, primed, hdrVars, stopVars>>

Queue ==
  /\ At("input", "queue")
  /\ \/ inBuf' = "none" /\ primed' = (primed \/ frame = "I") /\ Visit("input")
     \/ ThrowInCall("input") /\ UNCHANGED primed
  /\ UNCHANGED <<balanced, recoveryVars, outQ, hand, hdrVars, stopVars>>

-----------------------------------------------------------------------------
\* The renderer thread.

(* dequeueOutputBuffer, and what is done with a buffer: it is released at  *)
(* once, or, when frames are paced, added to the queue, unless that is full. *)
Dequeue ==
  /\ At("render", "dequeue")
  /\ \/ Visit("render") /\ UNCHANGED bufferVars
     \/ /\ balanced /\ Len(outQ) < QueueLimit
        /\ outQ' = Append(outQ, "fresh") /\ Visit("render")
        /\ UNCHANGED <<inBuf, hand>>
     \/ /\ balanced /\ Len(outQ) = QueueLimit
        /\ hand' = [hand EXCEPT !["render"] = "fresh"] /\ Goto("render", "take")
        /\ UNCHANGED <<inBuf, outQ, call, frame, asked, errorVars>>
     \/ ThrowInCall("render") /\ UNCHANGED <<outQ, hand>>
  /\ UNCHANGED <<balanced, recoveryVars, primed, hdrVars, stopVars>>

(* The oldest buffer is taken, though the Choreographer may have taken     *)
(* them all meanwhile; an interrupt ends the call, and is used up by that. *)
Take ==
  /\ At("render", "take")
  /\ \/ /\ ~interrupted /\ outQ # <<>>
        /\ outQ' = Tail(outQ) /\ Goto("render", "discard")
        /\ UNCHANGED <<hand, call, frame, asked, interrupted, errorVars>>
     \/ /\ interrupted /\ interrupted' = FALSE
        /\ hand' = [hand EXCEPT !["render"] = "none"] /\ Visit("render")
        /\ UNCHANGED outQ
  /\ UNCHANGED <<balanced, recoveryVars, inBuf, primed, hdrVars, stopping, app>>

(* It is released, and the new one is added. *)
Discard ==
  /\ At("render", "discard")
  /\ hand' = [hand EXCEPT !["render"] = "none"]
  /\ \/ outQ' = Append(outQ, hand["render"]) /\ Visit("render") /\ UNCHANGED inBuf
     \/ ThrowInCall("render") /\ UNCHANGED outQ
  /\ UNCHANGED <<balanced, recoveryVars, primed, hdrVars, stopVars>>

-----------------------------------------------------------------------------
\* The Choreographer thread: doFrame at every V-sync.

DoFrame ==
  /\ At("choreo", "idle")
  /\ \/ /\ stopping /\ Goto("choreo", "gone")
        /\ UNCHANGED <<outQ, hand, call, frame, asked, errorVars>>
     \/ /\ ~stopping /\ outQ # <<>>
        /\ outQ' = Tail(outQ) /\ hand' = [hand EXCEPT !["choreo"] = Head(outQ)]
        /\ Goto("choreo", "release") /\ UNCHANGED <<call, frame, asked, errorVars>>
     \/ ~stopping /\ Visit("choreo") /\ UNCHANGED <<outQ, hand>>   \* no frame is due, or there is none
  /\ UNCHANGED <<balanced, recoveryVars, inBuf, primed, hdrVars, stopVars>>

(* releaseOutputBuffer; when it fails it is tried once more without rendering. *)
Release ==
  /\ At("choreo", "release")
  /\ hand' = [hand EXCEPT !["choreo"] = "none"]
  /\ ThrowInCall("choreo") \/ (Visit("choreo") /\ UNCHANGED inBuf)
  /\ UNCHANGED <<balanced, recoveryVars, outQ, primed, hdrVars, stopVars>>

-----------------------------------------------------------------------------
\* prepareForStop, which the activity calls, then stop() calls it again (the flag is set
\* by then) and joins the threads, and its caller joins the thread that calls
\* submitDecodeUnit.

StopScript == <<"stopping", "interrupt", "clear", "interrupt", "clear", "join">>
Stopped    == app = Len(StopScript)

LeavesType == UNCHANGED type
ClearsType == type' = "NONE"

StopStep ==
  /\ ~crashed /\ ~Stopped
  /\ app' = app + 1
  /\ LET do == StopScript[app + 1] IN
     /\ stopping'    = (stopping \/ do = "stopping")
     /\ interrupted' = (interrupted \/ do = "interrupt")
     /\ IF do = "clear" THEN owner = Nobody /\ ClearsType ELSE UNCHANGED type
     /\ do = "join" => pc["choreo"] = "gone" /\ pc["render"] = "gone" /\ pc["input"] = "idle"
  /\ UNCHANGED <<balanced, flags, attempts, owner, overtaken, pc, call, bufferVars, frameVars,
                 hdrVars, errorVars>>

-----------------------------------------------------------------------------
ErrorStep(t) ==
  \/ RaiseFromNone(t) \/ Promote(t) \/ FirstGet(t) \/ SecondGet(t) \/ Report(t)
RecoveryStep(t) ==
  \/ VisitAfterError(t) \/ Enter(t) \/ LeaveWait(t)
  \/ Restart(t) \/ Reset(t) \/ Recreate(t) \/ RecoveryDone(t) \/ Finish(t)
ThreadStep(t) ==
  \/ ErrorStep(t) \/ RecoveryStep(t)
  \/ t = "input" /\ (Submit \/ Fetch \/ Queue)
  \/ t = "render" /\ (Dequeue \/ Take \/ Discard)
  \/ t = "choreo" /\ (DoFrame \/ Release)

Next == (\E t \in Threads : ThreadStep(t)) \/ SetHdr \/ RequestRestart \/ StopStep

Spec == Init /\ [][Next]_vars

(* Every thread is scheduled, calls of the codec return, frames and        *)
(* V-syncs keep coming, and a stop that was begun goes on.                 *)
FairSpec ==
  /\ Spec
  /\ \A t \in Threads : WF_vars(ThreadStep(t))
  /\ WF_vars(RequestRestart)
  /\ WF_vars(app > 0 /\ StopStep)
-----------------------------------------------------------------------------
\* Properties.

Positions == {"idle", "fetch", "prefetch", "queue", "dequeue", "take", "discard", "release",
              "handle", "promote", "get", "get again", "check", "enter", "waiting",
              "recover", "recreate", "configured", "finish", "gone"}
Buffers == {"none", "fresh", "stale"}

TypeOK ==
  /\ balanced \in BOOLEAN /\ stopping \in BOOLEAN /\ interrupted \in BOOLEAN
  /\ type \in {"NONE", "RESTART", "RESET"} /\ flags \subseteq Threads
  /\ attempts \in Nat /\ owner \in Threads \cup {Nobody}
  /\ pc \in [Threads -> Positions] /\ call \in {"fetch", "queue", "prefetch"}
  /\ error \in [Threads -> {"none", "transient", "recoverable", "fatal"}]
  /\ inBuf \in Buffers /\ outQ \in Seq(Buffers) /\ hand \in [Threads -> Buffers]
  /\ frame \in {"I", "P"} /\ asked \in BOOLEAN /\ primed \in BOOLEAN
  /\ hdr \in BOOLEAN /\ usedHdr \in BOOLEAN /\ hdrCall \in BOOLEAN 
  /\ app \in 0 .. Len(StopScript) /\ budget \in [errors : Nat, changes : Nat]
  /\ reported \in BOOLEAN /\ crashed \in BOOLEAN /\ overtaken \in BOOLEAN

(* While a thread recovers the codec no other thread is in a call of it or *)
(* about to make one with a buffer it holds: the flags say who is quiet,    *)
(* and the waits, the stop and the interrupt keep them true.                *)
UsesCodec(t) == pc[t] \in {"fetch", "prefetch", "queue", "dequeue", "take", "discard", "release"}
RecoveryIsExclusive == \A t \in Threads : owner # Nobody /\ t # owner => ~UsesCodec(t)

(* No buffer of the codec from before its restart is given back to it      *)
(* afterwards, in either direction.                                        *)
BuffersAreTheCodecs ==
  /\ pc["input"] = "queue" => inBuf = "fresh"
  /\ \A t \in Threads : hand[t] # "stale"

(* A codec that was configured is fed an IDR frame first: the input thread  *)
(* reports each recovery to the depacketizer, wherever in submitDecodeUnit  *)
(* it took place.                                                          *)
FirstFrameIsIdr == pc["input"] = "queue" /\ frame = "P" => primed

(* A recovery that was raised is carried out, and a stop returns, unless   *)
(* the recovery was raised while a thread was still in the wait of the last *)
(* one or after the stop began, or the renderer waits for a buffer that the *)
(* Choreographer took.                                                     *)
RendererIsStuck == pc["render"] = "take" /\ outQ = <<>>
Excused == crashed \/ overtaken \/ RendererIsStuck
RecoveriesAndStopsEnd ==
  /\ (type # "NONE") ~> (type = "NONE" \/ Excused)
  /\ (app > 0) ~> (Stopped \/ Excused)

(* "Wake all quiesced threads and allow them to begin work again": every    *)
(* thread that waits for a recovery leaves the wait, or the program ends,   *)
(* or the decoder is being stopped.  The code does not satisfy this.       *)
QuiescedThreadsWake ==
  \A t \in Threads : Waiting(t) ~> (~Waiting(t) \/ crashed \/ stopping)

(* "Unexpected codec recovery type": the exception says that it cannot     *)
(* happen.  The code does not satisfy this.                                *)
TypeIsExpected == crashed => ~\E t \in Threads : pc[t] \in {"get", "get again"}

(* New HDR metadata reaches the codec.  The code does not satisfy this: a   *)
(* change after the codec was configured and before the type is cleared is *)
(* not picked up.                                                          *)
HdrIsPickedUp == type = "NONE" /\ ~hdrCall /\ ~stopping /\ ~crashed => usedHdr = hdr
=============================================================================
