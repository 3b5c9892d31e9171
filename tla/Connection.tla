------------------------------- MODULE Connection ------------------------------
(***************************************************************************)
(* The life of a connection (Connection.c, with what the streams of        *)
(* ControlStream.c, VideoStream.c, AudioStream.c and InputStream.c do when *)
(* they are initialized, started, stopped and destroyed): the application  *)
(* starts and stops it, twelve threads come and go, any of them may find   *)
(* that the connection is gone, and every step of the start may fail and   *)
(* is then undone.                                                         *)
(*                                                                         *)
(* What the application's thread has still to do is a script, a sequence   *)
(* of instructions <<operation, subject>>; each is one step, between which *)
(* the other threads run.  A thread is its place in its life and what it   *)
(* waits for: it polls, and notices that it was interrupted, or it waits   *)
(* on a queue of LbqOps, or on the event of the IDR thread, which no       *)
(* interrupt ends.  The model is of servers of generation 5 on (control    *)
(* and input share the ENet peer).                                         *)
(***************************************************************************)
EXTENDS LbqOps

CONSTANTS
  Setups,       \* the capabilities that the callbacks of a session may have
  MaxSessions,  \* how often the application starts the connection
  MaxEvents     \* how often in a session something is queued, a thread meets an error,
                \* or the application or a thread asks for something

Capabilities == {"rfi", "directVideo", "directAudio"}

ASSUME BoundsAssumption ==
  Setups \subseteq SUBSET Capabilities /\ MaxSessions \in Nat /\ MaxEvents \in Nat

Threads == {"AudioPing", "ControlRecv", "LossStats", "ReqIdr", "AsyncCb", "InvRef",
            "VideoRecv", "VideoDec", "VideoPing", "AudioRecv", "AudioDec", "InputSend"}

Queues == {"async", "rfi", "video", "audio", "input"}

VARIABLES
  setup,        \* the capabilities of the session
  script,       \* what the application's thread has to do
  phase,        \* "idle", "starting", "started", or "stopping" (also a failed start)
  sessions,     \* how many were started
  stage,        \* STAGE_NONE (0) to STAGE_INPUT_STREAM_START (11)
  alreadyTerminated, ConnectionInterrupted, stopping, initialized,
  idrFrameRequiredEvent,
  peer,         \* the ENet peer exists
  queue, live,  \* the queues, and those of them that are initialized
  thread,       \* "none", "run", "clear" and "check" (steps of the IDR thread),
                \* "notify" (in ClInternalConnectionTerminated) or "exited"
  cancelled,    \* the threads that were interrupted
  established,  \* history: connectionStarted was called in this session
  events,       \* history: how many events this session had
  senderFailed, \* history: the input thread met an error in this session
  asyncTerm     \* threads that are about to call the application's connectionTerminated

sessionVars == <<setup, sessions, established>>
streamVars  == <<stage, initialized, peer, live>>
flagVars    == <<alreadyTerminated, ConnectionInterrupted, stopping>>
signalVars  == <<idrFrameRequiredEvent, queue>>
threadVars  == <<thread, cancelled>>
historyVars == <<events, senderFailed, asyncTerm>>
vars == <<sessionVars, script, phase, streamVars, flagVars, signalVars, threadVars, historyVars>>

Init ==
  /\ setup \in Setups
  /\ script = <<>> /\ phase = "idle" /\ sessions = 0 /\ stage = 0
  /\ alreadyTerminated = FALSE /\ ConnectionInterrupted = FALSE /\ stopping = FALSE
  /\ initialized = FALSE /\ idrFrameRequiredEvent = FALSE /\ peer = FALSE
  /\ queue = [q \in Queues |-> NewQueue] /\ live = {}
  /\ thread = [t \in Threads |-> "none"] /\ cancelled = {}
  /\ events = 0 /\ senderFailed = FALSE /\ established = FALSE /\ asyncTerm = 0

-------------------------------------------------------------------------------
(* Faulty variants of the definitions below. *)

UndoAsyncThreadSilently ==
  << <<"stopping", TRUE>>, <<"ConnectionInterrupted", TRUE>> >>

StopInputUnjoined == << <<"initialized", FALSE>>, <<"drain", "input">> >>

StopVideoReceiverUnjoined ==
  << <<"shutdown", "video">>, <<"interrupt", "VideoPing">>, <<"interrupt", "VideoRecv">>,
     <<"interrupt", "VideoDec">>, <<"join", "VideoPing">>, <<"join", "VideoDec">> >>

-------------------------------------------------------------------------------
rfiEnabled == "rfi" \in setup
directVideo == "directVideo" \in setup
directAudio == "directAudio" \in setup

(* The scripts.  Joining a thread waits until it has exited. *)

When(c, s) == IF c THEN s ELSE <<>>
Interrupt(t) == << <<"interrupt", t>> >>
Join(t) == << <<"join", t>> >>
Stops(t) == Interrupt(t) \o Join(t)
Stage(n) == << <<"stage", n>> >>

StartControlStream ==
  << <<"try", "enet">>, <<"peer", TRUE>>, <<"create", "ControlRecv">>, <<"try", "StartA">>,
     <<"try", "StartB">>, <<"create", "LossStats">>, <<"create", "ReqIdr">>,
     <<"create", "AsyncCb">> >>
  \o When(rfiEnabled, << <<"create", "InvRef">> >>)

StartVideoStream ==
  << <<"try", "video">>, <<"create", "VideoRecv">> >>
  \o When(~directVideo, << <<"create", "VideoDec">> >>)
  \o << <<"create", "VideoPing">> >>

StartAudioStream ==
  << <<"try", "audio">>, <<"create", "AudioRecv">> >>
  \o When(~directAudio, << <<"create", "AudioDec">> >>)

StartInputStream == << <<"create", "InputSend">>, <<"initialized", TRUE>> >>

InitializeControlStream ==
  << <<"stopping", FALSE>>, <<"event", FALSE>>, <<"initialize", "rfi">>, <<"initialize", "async">> >>

(* LiStartConnection, from the initialization of the platform on. *)
StartScript ==
  << <<"try", "platform">> >> \o Stage(1) \o << <<"try", "name">> >> \o Stage(2)
  \o << <<"initialize", "audio">> >> \o Stage(3)
  \o << <<"attempt", "AudioPing">>, <<"try", "RTSP">> >> \o Stage(4)
  \o InitializeControlStream \o Stage(5)
  \o << <<"initialize", "video">> >> \o Stage(6)
  \o << <<"initialize", "input">> >> \o Stage(7)
  \o StartControlStream \o Stage(8) \o StartVideoStream \o Stage(9)
  \o StartAudioStream \o Stage(10) \o StartInputStream \o Stage(11)

StopInputStream ==
  << <<"initialized", FALSE>>, <<"drain", "input">>, <<"join", "InputSend">> >>

StopAudioStream ==
  Interrupt("AudioRecv")
  \o When(~directAudio, << <<"shutdown", "audio">> >> \o Interrupt("AudioDec"))
  \o Join("AudioRecv")
  \o When(~directAudio, Join("AudioDec"))

StopVideoStream ==
  << <<"shutdown", "video">> >> \o Interrupt("VideoPing") \o Interrupt("VideoRecv")
  \o When(~directVideo, Interrupt("VideoDec"))
  \o Join("VideoPing") \o Join("VideoRecv")
  \o When(~directVideo, Join("VideoDec"))

(* stopControlStream wakes every thread that an interrupt does not wake ... *)
StopShared ==
  << <<"stopping", TRUE>>, <<"shutdown", "rfi">>, <<"drain", "async">>, <<"event", TRUE>> >>

StopControlStream ==
  StopShared
  \o Interrupt("LossStats") \o Interrupt("ReqIdr") \o Interrupt("ControlRecv")
  \o Interrupt("AsyncCb")
  \o Join("LossStats") \o Join("ReqIdr") \o Join("ControlRecv") \o Join("AsyncCb")
  \o When(rfiEnabled, Stops("InvRef"))
  \o << <<"peer", FALSE>> >>

(* ... and so does each failure of startControlStream, for the threads it has. *)
UndoSilently == << <<"stopping", TRUE>>, <<"ConnectionInterrupted", TRUE>> >>

UndoAsyncThread ==
  << <<"stopping", TRUE>>, <<"event", TRUE>>, <<"ConnectionInterrupted", TRUE>> >>

UndoInvalidationThread ==
  << <<"stopping", TRUE>>, <<"event", TRUE>>, <<"shutdown", "async">>,
     <<"ConnectionInterrupted", TRUE>> >>

NoPeer == << <<"peer", FALSE>> >>

(* What is undone where step x of the start fails. *)
Undo(x) ==
  CASE x \in {"enet", "ControlRecv"} -> << <<"stopping", TRUE>> >> \o NoPeer
    [] x \in {"StartA", "StartB", "LossStats"} -> UndoSilently \o Stops("ControlRecv") \o NoPeer
    [] x = "ReqIdr" -> UndoSilently \o Stops("LossStats") \o Stops("ControlRecv") \o NoPeer
    [] x = "AsyncCb" -> UndoAsyncThread \o Stops("LossStats") \o Stops("ControlRecv")
                          \o Stops("ReqIdr") \o NoPeer
    [] x = "InvRef" -> UndoInvalidationThread \o Stops("LossStats") \o Stops("ControlRecv")
                          \o Stops("ReqIdr") \o Stops("AsyncCb") \o NoPeer
    [] x = "VideoDec" -> Stops("VideoRecv")
    [] x = "VideoPing" ->
         << <<"shutdown", "video">> >> \o Interrupt("VideoRecv")
         \o When(~directVideo, Interrupt("VideoDec")) \o Join("VideoRecv")
         \o When(~directVideo, Join("VideoDec"))
    [] x = "AudioDec" -> Stops("AudioRecv")
    [] OTHER -> <<>>

DestroyControlStream == << <<"destroy", "rfi">>, <<"destroy", "async">> >>

DestroyAudioStream ==
  When(thread["AudioPing"] # "none", Stops("AudioPing")) \o << <<"destroy", "audio">> >>

(* LiStopConnection: the stages up to n are undone, the last one first. *)
StopScript(n) ==
  LET undo(k, s) == When(k <= n, s \o Stage(k - 1)) IN
  << <<"alreadyTerminated", TRUE>>, <<"ConnectionInterrupted", TRUE>> >>
  \o undo(11, StopInputStream) \o undo(10, StopAudioStream) \o undo(9, StopVideoStream)
  \o undo(8, StopControlStream) \o undo(7, << <<"destroy", "input">> >>)
  \o undo(6, << <<"destroy", "video">> >>) \o undo(5, DestroyControlStream)
  \o undo(4, <<>>) \o undo(3, DestroyAudioStream) \o undo(2, <<>>) \o undo(1, <<>>)

-------------------------------------------------------------------------------
(* The application. *)

LiStartConnection ==
  /\ phase = "idle" /\ sessions < MaxSessions
  /\ sessions' = sessions + 1
  /\ phase' = "starting" /\ script' = StartScript
  /\ alreadyTerminated' = FALSE /\ ConnectionInterrupted' = FALSE
  /\ established' = FALSE /\ events' = 0 /\ senderFailed' = FALSE
  /\ UNCHANGED <<setup, streamVars, stopping, signalVars, threadVars, asyncTerm>>

LiStopConnection ==
  /\ phase = "started"
  /\ phase' = "stopping" /\ script' = StopScript(stage)
  /\ UNCHANGED <<sessionVars, streamVars, flagVars, signalVars, threadVars, historyVars>>

(* The start returns, after connectionStarted, or the stop does. *)
Returns ==
  /\ script = <<>>
  /\ \/ phase = "starting" /\ phase' = "started" /\ established' = TRUE
     \/ phase = "stopping" /\ phase' = "idle" /\ UNCHANGED established
  /\ UNCHANGED <<setup, sessions, script, streamVars, flagVars, signalVars, threadVars,
                 historyVars>>

Event == events < MaxEvents /\ events' = events + 1

(* From another thread than the one that starts the connection. *)
LiInterruptConnection ==
  /\ phase = "starting" /\ ~ConnectionInterrupted /\ Event
  /\ ConnectionInterrupted' = TRUE
  /\ UNCHANGED <<sessionVars, script, phase, streamVars, alreadyTerminated, stopping,
                 signalVars, threadVars, senderFailed, asyncTerm>>

(* LiSendMouseMoveEvent and the like, from any thread of the application. *)
SendInput ==
  /\ initialized /\ phase # "stopping" /\ Event
  /\ queue' = [queue EXCEPT !["input"] = Offered(@, MaxEvents, "input")]
  /\ UNCHANGED <<sessionVars, script, phase, streamVars, flagVars, idrFrameRequiredEvent,
                 threadVars, senderFailed, asyncTerm>>

-------------------------------------------------------------------------------
(* The thread that starts or stops the connection takes the next instruction. *)

NextIs(op, subject) == script # <<>> /\ Head(script) = <<op, subject>>

Now(op, subject) ==
  /\ NextIs(op, subject)
  /\ script' = Tail(script)
  /\ UNCHANGED <<sessionVars, phase, historyVars>>

(* The step fails: what it began is undone, and then the stages before it. *)
Fails(x) ==
  /\ phase' = "stopping" /\ script' = Undo(x) \o StopScript(stage)
  /\ UNCHANGED <<sessionVars, streamVars, flagVars, signalVars, threadVars, historyVars>>

Try(x) ==
  \/ NextIs("try", x) /\ Fails(x)
  \/ Now("try", x) /\ UNCHANGED <<streamVars, flagVars, signalVars, threadVars>>

PltCreateThread(t) ==
  \/ NextIs("create", t) /\ Fails(t)
  \/ /\ Now("create", t) \/ Now("attempt", t)
     /\ thread' = [thread EXCEPT ![t] = "run"]
     /\ cancelled' = cancelled \ {t}
     /\ UNCHANGED <<streamVars, flagVars, signalVars>>
  \/ (* the result of notifyAudioPortNegotiationComplete is not used *)
     Now("attempt", t) /\ UNCHANGED <<streamVars, flagVars, signalVars, threadVars>>

PltInterruptThread(t) ==
  /\ Now("interrupt", t)
  /\ cancelled' = cancelled \cup {t}
  /\ UNCHANGED <<streamVars, flagVars, signalVars, thread>>

(* The next PltCreateThread clears the mark; nothing reads it before. *)
PltJoinThread(t) ==
  /\ Now("join", t) /\ thread[t] = "exited"
  /\ thread' = [thread EXCEPT ![t] = "none"]
  /\ cancelled' = cancelled \ {t}
  /\ UNCHANGED <<streamVars, flagVars, signalVars>>

(* What a destroyed queue held was freed. *)
SetQueue(q) ==
  /\ \/ Now("initialize", q) /\ queue' = [queue EXCEPT ![q] = NewQueue] /\ live' = live \cup {q}
     \/ Now("shutdown", q) /\ queue' = [queue EXCEPT ![q] = ShutDown(@)] /\ UNCHANGED live
     \/ Now("drain", q) /\ queue' = [queue EXCEPT ![q] = Drained(@)] /\ UNCHANGED live
     \/ Now("destroy", q) /\ queue' = [queue EXCEPT ![q] = NewQueue] /\ live' = live \ {q}
  /\ UNCHANGED <<stage, initialized, peer, flagVars, idrFrameRequiredEvent, threadVars>>

SetFlag(b) ==
  /\ \/ /\ Now("alreadyTerminated", b) /\ alreadyTerminated' = b
        /\ UNCHANGED <<ConnectionInterrupted, stopping, initialized, peer>>
     \/ /\ Now("ConnectionInterrupted", b) /\ ConnectionInterrupted' = b
        /\ UNCHANGED <<alreadyTerminated, stopping, initialized, peer>>
     \/ /\ Now("stopping", b) /\ stopping' = b
        /\ UNCHANGED <<alreadyTerminated, ConnectionInterrupted, initialized, peer>>
     \/ Now("initialized", b) /\ initialized' = b /\ UNCHANGED <<flagVars, peer>>
     \/ Now("peer", b) /\ peer' = b /\ UNCHANGED <<flagVars, initialized>>
  /\ UNCHANGED <<stage, live, signalVars, threadVars>>

SetEvent(b) ==
  /\ Now("event", b)
  /\ idrFrameRequiredEvent' = b
  /\ UNCHANGED <<streamVars, flagVars, queue, threadVars>>

SetStage(n) ==
  /\ Now("stage", n)
  /\ stage' = n
  /\ UNCHANGED <<initialized, peer, live, flagVars, signalVars, threadVars>>

Instruction(x) ==
  \/ Try(x)
  \/ PltCreateThread(x) \/ PltInterruptThread(x) \/ PltJoinThread(x)
  \/ SetQueue(x) \/ SetFlag(x) \/ SetEvent(x) \/ SetStage(x)

MainThread ==
  \/ script # <<>> /\ Instruction(Head(script)[2])
  \/ Returns

-------------------------------------------------------------------------------
(* The other threads. *)

Moves(t, from, to) ==
  /\ thread[t] = from
  /\ thread' = [thread EXCEPT ![t] = to]
  /\ UNCHANGED <<sessionVars, script, phase, streamVars, ConnectionInterrupted, stopping,
                 cancelled>>

Pollers == {"AudioPing", "ControlRecv", "LossStats", "VideoRecv", "VideoPing", "AudioRecv"}

(* A thread that polls or sleeps notices that it was interrupted. *)
SeesInterrupt(t) == t \in cancelled

Poll(t) ==
  /\ SeesInterrupt(t)
  /\ Moves(t, "run", "exited")
  /\ UNCHANGED <<alreadyTerminated, signalVars, historyVars>>

Consumers == {"AsyncCb", "InvRef", "VideoDec", "AudioDec", "InputSend"}

WaitsFor(t) ==
  CASE t = "AsyncCb" -> "async" [] t = "InvRef" -> "rfi" [] t = "VideoDec" -> "video"
    [] t = "AudioDec" -> "audio" [] t = "InputSend" -> "input"

(* Between two elements some threads look whether they were interrupted; the   *)
(* callbacks of the application are called until the queue is drained.         *)
StopsEarly(t) == t # "AsyncCb" /\ t \in cancelled

(* The wait ends without an element. *)
StopWaiting(t) ==
  /\ ~WaitBlocks(queue[WaitsFor(t)]) /\ WaitStatus(queue[WaitsFor(t)]) # LBQ_SUCCESS
  /\ Moves(t, "run", "exited")
  /\ UNCHANGED <<alreadyTerminated, signalVars, historyVars>>

Consume(t) ==
  /\ ~WaitBlocks(queue[WaitsFor(t)]) /\ WaitStatus(queue[WaitsFor(t)]) = LBQ_SUCCESS
  /\ queue' = [queue EXCEPT ![WaitsFor(t)] = Waited(@)]
  /\ Moves(t, "run", IF StopsEarly(t) THEN "exited" ELSE "run")
  /\ UNCHANGED <<alreadyTerminated, idrFrameRequiredEvent, historyVars>>

(* What the receive threads queue. *)
Feeds(t, q) ==
  \/ t = "ControlRecv" /\ q = "async"
  \/ t = "VideoRecv" /\ q = "rfi" /\ rfiEnabled
  \/ t = "VideoRecv" /\ q = "video" /\ ~directVideo
  \/ t = "AudioRecv" /\ q = "audio" /\ ~directAudio

Produce(t, q) ==
  /\ Feeds(t, q) /\ Event
  /\ OfferStatus(queue[q], MaxEvents) = LBQ_SUCCESS
  /\ queue' = [queue EXCEPT ![q] = Offered(@, MaxEvents, t)]
  /\ Moves(t, "run", "run")
  /\ UNCHANGED <<alreadyTerminated, idrFrameRequiredEvent, senderFailed, asyncTerm>>

(* LiRequestIdrFrame by the video receive thread. *)
RequestIdrFrame ==
  /\ ~idrFrameRequiredEvent /\ Event
  /\ idrFrameRequiredEvent' = TRUE
  /\ queue' = [queue EXCEPT !["rfi"] = Flushed(@)]
  /\ Moves("VideoRecv", "run", "run")
  /\ UNCHANGED <<alreadyTerminated, senderFailed, asyncTerm>>

(* requestIdrFrameFunc: wait for the event, ... *)
AwaitEvent ==
  /\ idrFrameRequiredEvent
  /\ Moves("ReqIdr", "run", "clear")
  /\ UNCHANGED <<alreadyTerminated, signalVars, historyVars>>

(* ... clear it, ... *)
ClearEvent ==
  /\ idrFrameRequiredEvent' = FALSE
  /\ Moves("ReqIdr", "clear", "check")
  /\ UNCHANGED <<alreadyTerminated, queue, historyVars>>

(* ... and exit, or send the request and wait again unless interrupted. *)
CheckStopping ==
  /\ Moves("ReqIdr", "check", IF stopping \/ "ReqIdr" \in cancelled THEN "exited" ELSE "run")
  /\ queue' = IF stopping THEN queue ELSE [queue EXCEPT !["rfi"] = Flushed(@)]
  /\ UNCHANGED <<alreadyTerminated, idrFrameRequiredEvent, historyVars>>

IdrThread == AwaitEvent \/ ClearEvent \/ CheckStopping

(* A thread, with the element it took if it waits for one, calls               *)
(* ListenerCallbacks.connectionTerminated.  Then it exits, except for the two  *)
(* that send requests to the host: they go on.                                 *)
Failing == {"ControlRecv", "LossStats", "ReqIdr", "InvRef", "VideoRecv", "AudioRecv", "InputSend"}

AfterError(t) ==
  IF t \in {"ReqIdr", "InvRef"} /\ t \notin cancelled THEN "run" ELSE "exited"

MayNotify == ~alreadyTerminated /\ ~ConnectionInterrupted

MeetError(t) ==
  /\ Event
  /\ \/ t \notin Consumers \cup {"ReqIdr"} /\ UNCHANGED queue
     \/ /\ t \in Consumers
        /\ ~WaitBlocks(queue[WaitsFor(t)]) /\ WaitStatus(queue[WaitsFor(t)]) = LBQ_SUCCESS
        /\ queue' = [queue EXCEPT ![WaitsFor(t)] = Waited(@)]
     \/ /\ t = "ReqIdr" /\ ~stopping
        /\ queue' = [queue EXCEPT !["rfi"] = Flushed(@)]
  /\ Moves(t, IF t = "ReqIdr" THEN "check" ELSE "run",
              IF MayNotify THEN "notify" ELSE AfterError(t))
  /\ senderFailed' = (senderFailed \/ t = "InputSend")
  /\ UNCHANGED <<alreadyTerminated, idrFrameRequiredEvent, asyncTerm>>

ClInternalConnectionTerminated(t) ==
  /\ Moves(t, "notify", AfterError(t))
  /\ alreadyTerminated' = TRUE
  /\ asyncTerm' = asyncTerm + 1
  /\ UNCHANGED <<signalVars, events, senderFailed>>

(* terminationCallbackThreadFunc calls the application. *)
CallConnectionTerminated ==
  /\ asyncTerm > 0
  /\ asyncTerm' = asyncTerm - 1
  /\ UNCHANGED <<sessionVars, script, phase, streamVars, flagVars, signalVars, threadVars,
                 events, senderFailed>>

Alive(t) == thread[t] \notin {"none", "exited"}

Thread(t) ==
  /\ Alive(t)
  /\ \/ t \in Pollers /\ Poll(t)
     \/ t \in Consumers /\ (StopWaiting(t) \/ Consume(t))
     \/ t = "ReqIdr" /\ IdrThread
     \/ ClInternalConnectionTerminated(t)

Environment ==
  \/ \E t \in Failing : MeetError(t)
  \/ \E t \in Pollers, q \in Queues : Produce(t, q)
  \/ RequestIdrFrame \/ CallConnectionTerminated

Application == LiStartConnection \/ LiInterruptConnection \/ LiStopConnection \/ SendInput

Next ==
  \/ Application \/ MainThread \/ Environment
  \/ \E t \in Threads : Thread(t)

Spec == Init /\ [][Next]_vars

(* The operating system runs every thread on that can run. *)
FairSpec == Spec /\ WF_vars(MainThread) /\ \A t \in Threads : WF_vars(Thread(t))

-------------------------------------------------------------------------------
TypeOK ==
  /\ phase \in {"idle", "starting", "started", "stopping"} /\ stage \in 0 .. 11
  /\ thread \in [Threads -> {"none", "run", "clear", "check", "notify", "exited"}]
  /\ cancelled \subseteq Threads /\ live \subseteq Queues
  /\ queue \in [Queues -> QueueOf({"input"} \cup Threads)]

(* LiStopConnection, and LiStartConnection when it fails: every thread that    *)
(* was created was joined, once, and every queue that was initialized was      *)
(* destroyed, whichever step failed and whatever the threads met meanwhile.    *)
NothingIsLeft ==
  /\ phase = "idle" =>
       /\ \A t \in Threads : thread[t] = "none"
       /\ live = {} /\ ~peer /\ stage = 0
  /\ \A t \in Threads : NextIs("join", t) => thread[t] # "none"

(* The stops and the failed starts go in an order in which no thread outlives  *)
(* what it uses: its queue, the queues it feeds, and the ENet peer.            *)
UsesPeer == {"ControlRecv", "LossStats", "ReqIdr", "InvRef", "InputSend"}

NothingIsUsedAfterwards ==
  \A t \in Threads : Alive(t) =>
    /\ t \in Consumers => WaitsFor(t) \in live
    /\ \A q \in Queues : Feeds(t, q) => q \in live
    /\ t \in {"VideoRecv", "VideoDec"} => "rfi" \in live    \* LiRequestIdrFrame
    /\ t \in UsesPeer => peer

(* "Signal the input send thread to drain all pending input packets before     *)
(* shutting down": a queue that is drained is empty when it is destroyed,      *)
(* unless the thread that empties it met an error.  The same holds of the      *)
(* callbacks of the control stream.                                            *)
DrainedBeforeDestroyed ==
  [][ \A q \in live \ live' :
        queue[q].draining /\ (q = "input" => ~senderFailed) => IsEmpty(queue[q]) ]_vars

(* A start returns or fails, and a stop returns: no join waits for ever. *)
StartsAndStopsReturn == phase \in {"starting", "stopping"} ~> phase \in {"idle", "started"}

(* The comment on ConnListenerConnectionTerminated: the application is told of *)
(* the termination of a connection that was established before.                *)
ToldWhenEstablished == [][ asyncTerm' < asyncTerm => established ]_vars
===============================================================================
