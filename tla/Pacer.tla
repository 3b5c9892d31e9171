---------------------------------- MODULE Pacer ----------------------------------
(***************************************************************************)
(* The frame pacer of the desktop client (pacer.cpp).  The decoder thread  *)
(* submits frames; with a V-sync source they wait in the pacing queue and  *)
(* a thread of the pacer moves one to the render queue per V-sync; they    *)
(* are rendered by a thread of the pacer, or by the main thread when an    *)
(* event tells it.  Frames are dropped on the way when there are too many. *)
(* The main thread destroys the pacer when the decoder thread has ended.   *)
(*                                                                         *)
(* One lock guards both queues; what happens under it is one step, except  *)
(* that a thread about to sleep holds it for a step of its own: m_Stopping *)
(* is set, and the conditions are signalled, without the lock.  A wait of  *)
(* Qt ends when it is signalled or at its timeout, never by itself; a      *)
(* signal nobody waits for is lost.  The V-sync source is external: its    *)
(* wait always ends.  A dequeue from an empty queue is undefined           *)
(* behaviour: the client has crashed and nothing happens any more.         *)
(***************************************************************************)
EXTENDS Integers, Sequences

CONSTANTS
  Modes,            \* what initialize finds, see PacerInit
  MaxFrames,        \* bound: frames submitted
  MaxQueuedFrames,  \* MAX_QUEUED_FRAMES
  PacingWindow,     \* m_DisplayFps / 2
  RenderWindow      \* m_MaxVideoFps / 2

ASSUME PacerAssumption ==
  /\ MaxFrames \in Nat /\ MaxQueuedFrames \in Nat \ {0}
  /\ PacingWindow \in Nat \ {0} /\ RenderWindow \in Nat \ {0}
  /\ Modes \subseteq [paced : BOOLEAN, lenient : BOOLEAN, thread : BOOLEAN, unbuffered : BOOLEAN]

VARIABLES
  mode,             \* a V-sync source, as many frames as V-syncs or more, a render
                    \* thread, RENDERER_ATTRIBUTE_NO_BUFFERING
  pacing, render,   \* m_PacingQueue, m_RenderQueue
  pacingFew,        \* m_PacingQueueHistory: whether an entry is 1 at most
  renderFew,        \* m_RenderQueueHistory: whether an entry is 0
  events,           \* SDL_CODE_FRAME_READY events the main thread has still to handle
  decoder, submitted,    \* where the decoder thread is, and the frames it submitted
  vsync, vframe, target, \* where the V-sync thread is, the frame in its hand, its drop target
  renderer, rframe, rtarget,  \* the same of the thread that renders
  main, stopping,   \* where the destructor is, and m_Stopping
  crashed,
  rendered, freed,  \* history: the frames rendered, and how often each was freed
  missed            \* history: the render thread slept past the last wakeAll

queueVars    == <<pacing, render, pacingFew, renderFew, events>>
decoderVars  == <<decoder, submitted>>
vsyncVars    == <<vsync, vframe, target>>
rendererVars == <<renderer, rframe, rtarget>>
mainVars     == <<main, stopping, missed>>
historyVars  == <<rendered, freed>>
pacerVars == <<mode, queueVars, decoderVars, vsyncVars, rendererVars, mainVars, crashed, historyVars>>

Frames   == 1 .. MaxFrames
NoFrame  == 0

(* A thread that is not created has exited; the main thread is idle between *)
(* two events.                                                              *)
PacerInit ==
  /\ mode \in Modes
  /\ pacing = <<>> /\ render = <<>> /\ pacingFew = <<>> /\ renderFew = <<>> /\ events = 0
  /\ decoder = "idle" /\ submitted = 0
  /\ vsync = (IF mode.paced THEN "wait" ELSE "exited") /\ vframe = NoFrame /\ target = 0
  /\ renderer = (IF mode.thread THEN "loop" ELSE "idle") /\ rframe = NoFrame /\ rtarget = 0
  /\ main = "running" /\ stopping = FALSE /\ crashed = FALSE
  /\ rendered = <<>> /\ freed = [f \in Frames |-> 0] /\ missed = FALSE

-----------------------------------------------------------------------------
\* Queues and conditions.

LockIsFree == renderer # "sleepy"

(* The oldest frame gives way in a full queue. *)
IsFull(queue)   == Len(queue) = MaxQueuedFrames
Enqueued(queue, f) == Append(IF IsFull(queue) THEN Tail(queue) ELSE queue, f)

Free(f) == [freed EXCEPT ![f] = @ + 1]
FreedByEnqueue(queue) == IF IsFull(queue) THEN Free(Head(queue)) ELSE freed

(* A rolling window of what the length of a queue was. *)
Rolled(history, window, entry) ==
  Append(IF Len(history) = window THEN Tail(history) ELSE history, entry)
Holds(history) == \E i \in 1 .. Len(history) : history[i]

(* wakeOne and wakeAll are the same: each condition has one waiter. *)
Woken(pc) == IF pc = "sleep" THEN "woken" ELSE pc

AnnounceFirst ==
  /\ renderer' = (IF mode.thread THEN Woken(renderer) ELSE renderer)
  /\ events'   = (IF mode.thread \/ events > 0 THEN events ELSE 1)

(* After a frame was queued for rendering: the thread is woken, or an event *)
(* is pushed for the main thread.                                           *)
Announce ==
  /\ renderer' = (IF mode.thread THEN Woken(renderer) ELSE renderer)
  /\ events'   = (IF mode.thread THEN events ELSE events + 1)

-----------------------------------------------------------------------------
\* submitFrame, called by the decoder thread.

Submit ==
  /\ decoder = "idle" /\ main = "running" /\ submitted < MaxFrames /\ LockIsFree
  /\ submitted' = submitted + 1 /\ decoder' = "announce"
  /\ IF mode.paced
     THEN pacing' = Enqueued(pacing, submitted') /\ freed' = FreedByEnqueue(pacing) /\ UNCHANGED render
     ELSE render' = Enqueued(render, submitted') /\ freed' = FreedByEnqueue(render) /\ UNCHANGED pacing
  /\ UNCHANGED <<mode, pacingFew, renderFew, events, vsyncVars, rendererVars, mainVars, crashed, rendered>>

(* The lock is released by now. *)
AnnounceSubmitted ==
  /\ decoder = "announce" /\ decoder' = "idle"
  /\ IF mode.paced THEN vsync' = Woken(vsync) /\ UNCHANGED <<renderer, events>>
                   ELSE Announce /\ UNCHANGED vsync
  /\ UNCHANGED <<mode, pacing, render, pacingFew, renderFew, submitted, vframe, target, rframe, rtarget,
                 mainVars, crashed, historyVars>>

-----------------------------------------------------------------------------
\* vsyncThread and handleVsync.

VsyncReturns ==
  /\ vsync = "wait"
  /\ vsync' = IF stopping THEN "exited" ELSE "handle"
  /\ UNCHANGED <<mode, queueVars, decoderVars, vframe, target, rendererVars, mainVars, crashed, historyVars>>

(* The first frame goes to the render queue. *)
MoveFirst ==
  /\ render' = Enqueued(render, Head(pacing)) /\ pacing' = Tail(pacing)
  /\ vsync' = "announce"

(* Excess frames are taken one by one, each freed without the lock; then   *)
(* the first goes to the render queue, or is waited for.                   *)
CatchUpPacing(limit, freedNow) ==
  IF Len(pacing) > limit
  THEN /\ vframe' = Head(pacing) /\ pacing' = Tail(pacing) /\ vsync' = "drop"
       /\ freed' = freedNow /\ UNCHANGED render
  ELSE /\ vframe' = NoFrame
       /\ IF pacing = <<>> THEN vsync' = "sleep" /\ freed' = freedNow /\ UNCHANGED <<pacing, render>>
          ELSE MoveFirst /\ freed' = (IF IsFull(render) THEN [freedNow EXCEPT ![Head(render)] = @ + 1]
                                      ELSE freedNow)

HandleVsync ==
  /\ vsync = "handle" /\ LockIsFree
  /\ target' = IF mode.lenient /\ Holds(pacingFew) THEN 3 ELSE 1
  /\ pacingFew' = IF mode.lenient THEN Rolled(pacingFew, PacingWindow, Len(pacing) <= 1) ELSE pacingFew
  /\ CatchUpPacing(target', freed)
  /\ UNCHANGED <<mode, renderFew, events, decoderVars, rendererVars, mainVars, crashed, rendered>>

DropPaced ==
  /\ vsync = "drop" /\ LockIsFree
  /\ CatchUpPacing(target, Free(vframe))
  /\ UNCHANGED <<mode, pacingFew, renderFew, events, decoderVars, target, rendererVars, mainVars, crashed, rendered>>

VsyncTimeout ==
  /\ vsync = "sleep" /\ LockIsFree /\ vsync' = "wait"
  /\ UNCHANGED <<mode, queueVars, decoderVars, vframe, target, rendererVars, mainVars, crashed, historyVars>>

(* Woken: whether there is a frame is not tested again. *)
FrameArrived ==
  /\ vsync = "woken" /\ LockIsFree
  /\ IF stopping THEN vsync' = "wait" /\ UNCHANGED <<pacing, render, freed, crashed>>
     ELSE IF pacing = <<>> THEN crashed' = TRUE /\ UNCHANGED <<vsync, pacing, render, freed>>
     ELSE MoveFirst /\ freed' = FreedByEnqueue(render) /\ UNCHANGED crashed
  /\ UNCHANGED <<mode, pacingFew, renderFew, events, decoderVars, vframe, target, rendererVars, mainVars, rendered>>

AnnouncePaced ==
  /\ vsync = "announce" /\ vsync' = "wait" /\ Announce
  /\ UNCHANGED <<mode, pacing, render, pacingFew, renderFew, decoderVars, vframe, target, rframe, rtarget,
                 mainVars, crashed, historyVars>>

-----------------------------------------------------------------------------
\* renderThread, renderOnMainThread and renderFrame.

TakeFirst ==
  /\ rframe' = Head(render) /\ render' = Tail(render) /\ renderer' = "render"

RenderLoop ==
  /\ renderer \in {"loop", "woken"}
  /\ IF stopping THEN renderer' = "exited" /\ UNCHANGED <<rframe, render>>
     ELSE IF render = <<>> THEN renderer' = "sleepy" /\ UNCHANGED <<rframe, render>>
     ELSE TakeFirst
  /\ UNCHANGED <<mode, pacing, pacingFew, renderFew, events, decoderVars, vsyncVars, rtarget, mainVars,
                 crashed, historyVars>>

(* The wait has no timeout: what was signalled before is missed. *)
Sleep ==
  /\ renderer = "sleepy" /\ renderer' = "sleep"
  /\ UNCHANGED <<mode, queueVars, decoderVars, vsyncVars, rframe, rtarget, mainVars, crashed, historyVars>>

FrameReady ==
  /\ ~mode.thread /\ renderer = "idle" /\ main = "running" /\ events > 0
  /\ events' = events - 1
  /\ IF render = <<>> THEN UNCHANGED <<rframe, render, renderer>> ELSE TakeFirst
  /\ UNCHANGED <<mode, pacing, pacingFew, renderFew, decoderVars, vsyncVars, rtarget, mainVars, crashed, historyVars>>

Rest == IF mode.thread THEN "loop" ELSE "idle"

CatchUpRendering(limit) ==
  IF Len(render) > limit
  THEN rframe' = Head(render) /\ render' = Tail(render) /\ renderer' = "drop"
  ELSE rframe' = NoFrame /\ renderer' = Rest /\ UNCHANGED render

AlwaysStrict == 0
(* How many frames may stay queued while one is rendered. *)
RenderTarget == IF mode.unbuffered THEN 1 ELSE IF Holds(renderFew) THEN 2 ELSE 0

RenderFrame ==
  /\ renderer = "render" /\ LockIsFree
  /\ rendered' = Append(rendered, rframe) /\ freed' = Free(rframe)
  /\ rtarget' = RenderTarget
  /\ renderFew' = IF mode.unbuffered THEN renderFew ELSE Rolled(renderFew, RenderWindow, render = <<>>)
  /\ CatchUpRendering(rtarget')
  /\ UNCHANGED <<mode, pacing, pacingFew, events, decoderVars, vsyncVars, mainVars, crashed>>

DropRendering ==
  /\ renderer = "drop"
  /\ freed' = Free(rframe)
  /\ CatchUpRendering(rtarget)
  /\ UNCHANGED <<mode, pacing, pacingFew, renderFew, events, decoderVars, vsyncVars, rtarget, mainVars,
                 crashed, rendered>>

-----------------------------------------------------------------------------
\* ~Pacer: the decoder thread was joined, and the main thread renders nothing.

Stop ==
  /\ main = "running" /\ decoder = "idle" /\ (mode.thread \/ renderer = "idle")
  /\ stopping' = TRUE /\ main' = "wake vsync"
  /\ UNCHANGED <<mode, queueVars, decoderVars, vsyncVars, rendererVars, missed, crashed, historyVars>>

WakeVsync ==
  /\ main = "wake vsync" /\ main' = "join vsync"
  /\ vsync' = Woken(vsync)
  /\ UNCHANGED <<mode, queueVars, decoderVars, vframe, target, rendererVars, stopping, missed, crashed, historyVars>>

LeavesAsleep(pc)  == pc
WakesRenderer(pc) == Woken(pc)

JoinVsync ==
  /\ main = "join vsync" /\ vsync = "exited" /\ main' = "join renderer"
  /\ renderer' = (IF mode.thread THEN WakesRenderer(renderer) ELSE renderer)
  /\ missed' = (renderer = "sleepy")
  /\ UNCHANGED <<mode, queueVars, decoderVars, vsyncVars, rframe, rtarget, stopping, crashed, historyVars>>

Elements(queue) == {queue[i] : i \in 1 .. Len(queue)}
RenderQueueOnly == Elements(render)

(* What was not consumed is freed. *)
Leftover == Elements(render) \cup Elements(pacing)

JoinRenderer ==
  /\ main = "join renderer" /\ renderer \in {"exited", "idle"} /\ main' = "done"
  /\ render' = <<>> /\ pacing' = <<>>
  /\ freed' = [f \in Frames |-> IF f \in Leftover THEN freed[f] + 1 ELSE freed[f]]
  /\ UNCHANGED <<mode, pacingFew, renderFew, events, decoderVars, vsyncVars, rendererVars, stopping, missed,
                 crashed, rendered>>

-----------------------------------------------------------------------------
Decoding  == Submit \/ AnnounceSubmitted
Pacing    == VsyncReturns \/ HandleVsync \/ DropPaced \/ VsyncTimeout \/ FrameArrived \/ AnnouncePaced
Rendering == RenderLoop \/ Sleep \/ FrameReady \/ RenderFrame \/ DropRendering
Stopping  == Stop \/ WakeVsync \/ JoinVsync \/ JoinRenderer

PacerNext == ~crashed /\ (Decoding \/ Pacing \/ Rendering \/ Stopping)

PacerSpec == PacerInit /\ [][PacerNext]_pacerVars

(* Every thread runs; frames come and the pacer is destroyed when others   *)
(* want.                                                                   *)
FairPacerSpec ==
  /\ PacerSpec
  /\ WF_pacerVars(~crashed /\ AnnounceSubmitted)
  /\ WF_pacerVars(~crashed /\ Pacing)
  /\ WF_pacerVars(~crashed /\ Rendering)
  /\ WF_pacerVars(~crashed /\ (WakeVsync \/ JoinVsync \/ JoinRenderer))

-----------------------------------------------------------------------------
PacerTypeOK ==
  /\ mode \in Modes
  /\ pacing \in Seq(Frames) /\ render \in Seq(Frames) /\ pacingFew \in Seq(BOOLEAN) /\ renderFew \in Seq(BOOLEAN)
  /\ events \in Nat
  /\ decoder \in {"idle", "announce"} /\ submitted \in 0 .. MaxFrames
  /\ vsync \in {"wait", "handle", "drop", "sleep", "woken", "announce", "exited"}
  /\ vframe \in Frames \cup {NoFrame} /\ target \in {0, 1, 3}
  /\ renderer \in {"loop", "woken", "idle", "sleepy", "sleep", "render", "drop", "exited"}
  /\ rframe \in Frames \cup {NoFrame} /\ rtarget \in {0, 1, 2}
  /\ main \in {"running", "wake vsync", "join vsync", "join renderer", "done"}
  /\ stopping \in BOOLEAN /\ crashed \in BOOLEAN /\ missed \in BOOLEAN
  /\ rendered \in Seq(Frames) /\ freed \in [Frames -> Nat]

(* Where a frame is, from the ones rendered to the ones submitted last. *)
Stages == << Elements(rendered), {rframe} \ {NoFrame}, Elements(render), {vframe} \ {NoFrame}, Elements(pacing) >>
Held   == UNION {Stages[i] : i \in 2 .. 5}

Increasing(queue) == \A i, j \in 1 .. Len(queue) : i < j => queue[i] < queue[j]
Precede(S, T)     == \A x \in S, y \in T : x < y

InOrder ==
  /\ Increasing(rendered) /\ Increasing(render) /\ Increasing(pacing)
  /\ \A i, j \in 1 .. 5 : i < j => Precede(Stages[i], Stages[j])

(* Frames are rendered, and wait, in the order of submission, so that each *)
(* is in one place; one that was submitted is held or was freed, and once: *)
(* none is lost, freed twice or used after it was freed, whichever thread  *)
(* drops it (the frames freed without the lock, pacer.cpp:234 and 380),    *)
(* and none is left by the destructor (pacer.cpp:70).                      *)
FramesConserved ==
  /\ InOrder
  /\ \A f \in Frames : freed[f] = IF f <= submitted /\ f \notin Held THEN 1 ELSE 0
  /\ main = "done" => Held = {}

(* The main thread renders one frame per event: there is an event, or one  *)
(* about to be pushed, for every frame that is queued (pacer.cpp:189).     *)
EventForEveryFrame ==
  mode.thread \/ Len(render) <= events + (IF vsync = "announce" THEN 1 ELSE 0)
                                       + (IF ~mode.paced /\ decoder = "announce" THEN 1 ELSE 0)

(* A frame that no other follows leaves the pacer without being stopped,   *)
(* and if the renderer buffers none it is rendered: of several frames the  *)
(* newest is never the one to drop.  A renderer that buffers may drop it,  *)
(* see NewestIsRendered.                                                   *)
NewestIsShown ==
  \A f \in Frames :
    submitted = f ~> \/ submitted > f \/ stopping \/ crashed
                     \/ IF mode.unbuffered THEN \E i \in 1 .. Len(rendered) : rendered[i] = f
                        ELSE freed[f] = 1

(* The destructor returns: every wait of the two threads ends, unless the  *)
(* one without a timeout began after the last signal (see StopReturns).    *)
StopEnds == stopping ~> main = "done" \/ missed \/ crashed

(* What the code does not keep.  A wait for a frame ends with a frame      *)
(* (pacer.cpp:242): the signal for a frame that was already taken wakes    *)
(* the V-sync thread too.                                                  *)
WokenForAFrame == ~crashed

(* The destructor returns (pacer.cpp:59): a render thread that has tested  *)
(* m_Stopping but does not wait yet misses the signal.                     *)
StopReturns == stopping ~> main = "done" \/ crashed

(* "Drop frames if we have too many queued up for a while"                 *)
(* (pacer.cpp:347): with no history, or only of longer queues, a single    *)
(* frame that is queued while one is rendered is dropped, with none after. *)
NewestIsRendered ==
  \A f \in Frames :
    submitted = f ~> \/ submitted > f \/ stopping \/ crashed
                     \/ \E i \in 1 .. Len(rendered) : rendered[i] = f

=============================================================================
