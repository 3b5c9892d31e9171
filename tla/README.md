# Space Connect clients: a TLA+ verification project

The clients under `src/desktop` (Qt/C++) and `src/android` (Java) stream a rented Windows desktop. Both
sit on the same C library, moonlight-common-c (`CC` below stands for
`src/desktop/moonlight-common-c/moonlight-common-c/src`). This directory holds TLA+ modules translated
from that code, TLC configurations that check them on small instances, and TLAPS proofs of the
properties that matter most for every value of the constants.

`PROJECT.json` is the machine-readable index: for each definition the source lines it translates, for each
run its properties, for each property a faulty variant of the code that violates it, and the list of
hazards with the properties that watch them.

Contents: [The system](#1-the-system), [Modules](#2-modules), [Runs](#3-runs),
[Fairness](#4-fairness), [Proofs](#5-proofs), [What disagrees with the code's own
documentation](#6-where-code-and-documentation-disagree), [What is left out](#7-what-is-not-modelled),
[Plan](#8-plan), [How to run](#9-how-to-run).

## 1. The system

### Streaming library (C, shared by all clients)

| component | state it keeps | operations | talks to |
|---|---|---|---|
| Linked blocking queue, `LinkedBlockingQueue.c` | list, bound, flags shutdown / draining / pendingUserWake, mutex, condition variable | offer, wait, poll, peek, flush, signal shutdown / drain / user wake | any producers, one consumer thread |
| RTP video queue, `RtpVideoQueue.c` | the FEC block being assembled (pending list), blocks of the frame already complete, sequence window, counts of received and missing packets, what was reported lost | `RtpvAddPacket` (one packet) | called by the video receive thread; calls the depacketizer: packets of a frame, `notifyFrameLost` |
| Video depacketizer, `VideoDepacketizer.c` | next expected frame, start of the next invalidation, three waits, consecutive drops, queue of decode units | process a packet, `notifyFrameLost`, wait/complete a frame, refresh of the decoder, stop | decoder thread through its queue; control stream through `LiRequestIdrFrame`, `connectionDetectedFrameLoss` |
| Control stream, `ControlStream.c` | event "IDR required", queue of invalidation ranges, queue of callbacks, stopping flag, ENet peer, six threads | start, stop, request threads, receive thread, statistics | host over ENet; application callbacks |
| RTP audio queue, `RtpAudioQueue.c` | list of FEC blocks, next and oldest sequence number, out-of-sequence memory, synchronizing flag | `RtpaAddPacket`, `RtpaGetQueuedPacket` | the audio receive thread, which plays or queues what comes out |
| Video, audio and input streams | sockets, threads, packet queues; batching of mouse, pen and gamepad input | initialize, start, stop, destroy, send | platform layer, decoder and renderer callbacks, ENet peer |
| Connection, `Connection.c` | stage, alreadyTerminated, ConnectionInterrupted | `LiStartConnection`, `LiStopConnection`, `LiInterruptConnection`, termination callback | starts and stops all streams in stages and undoes a failed start |
| RTSP, SDP, STUN, connection test | none across calls | one exchange at a time | sockets |

### Desktop application (Qt)

| component | state it keeps | operations | talks to |
|---|---|---|---|
| Session startup, `sessionorchestrator.cpp` | the attempt (active, what it asked for, last status, its computer), a poll timer, a deadline, the stream | start, cancel, drive; slots for replies, results of workers and the end of a stream | `LauncherApi`, `ComputerManager`, `Session`; all on the thread of the user interface |
| Launcher API, `launcherapi.cpp` | tokens, account generation, a "busy" flag and the requests in flight, the deliveries of a PIN | status, join / leave the queue, connection, PIN, login, logout, refresh | the launcher's server over HTTP |
| Frame pacer, `pacer.cpp` | pacing queue, render queue, a history of the length of each, lock, two conditions | submit a frame, V-sync, render, destroy | decoder thread, V-sync thread, render thread or main thread |
| Streaming session, `session.cpp` | the connection, the decoder, a semaphore between sessions | start, exec, reconfigure, cancel, deferred cleanup | the C library, the decoder |
| Computer manager, host API | known hosts, a polling thread per host, delayed saving | poll, add, remove, pair | hosts over HTTP |

`StreamGuestController`, `MicForwarder`, input capture and presentation make up the rest.

### Android application (Java)

| component | state it keeps | operations | talks to |
|---|---|---|---|
| Session startup, `session/SessionOrchestrator.java` | the stage, a lock, cancellation tokens, the clean-up in progress | start, cancel, attach the stream; a worker per attempt | the launcher's server, the host, the activity that streams |
| Decoder, `MediaCodecDecoderRenderer.java` | the codec, recovery type, flags of quiesced threads, input buffer, queue of output buffers | submit, render, show, recover, set HDR metadata, stop | input thread, renderer thread, Choreographer thread |
| Account, connection, computer manager | tokens; one semaphore; known hosts | refresh, requests, polling | server, C library, hosts |

### What is hard about it

* **Threads without a common lock.** The receive thread and the decoder thread share the depacketizer's
  waits with no mutex; requests pass through an event and a queue that one thread fills, one empties and one flushes.
* **Unreliable network.** Packets are lost, repeated and late. The RTP queues decide when to stop waiting
  from 16-bit numbers that wrap, and the decoder must never get a frame whose reference is missing.
* **Recovery is a protocol.** A loss is predicted, noticed at a gap or noticed at the last packet; it is
  answered by an invalidation or by an IDR frame; the answer may be lost too.
* **Lifecycle.** Twelve threads and five queues are created in stages, any of which can fail, while any
  thread may discover that the connection is gone. Interrupts do not end every kind of wait.
* **Input that is merged while it is queued.** Producers add to motion that a queued packet stands for while the send
  thread takes it; what is merged must neither overtake a button nor be forgotten when the queue is full or stops.
* **One codec, three threads.** An error in any thread, a change of HDR metadata or a stop makes all of them
  meet, and the last one to arrive restarts the codec; an atomic integer is tested outside of the monitor.
* **Frames dropped at four places by three threads**, two of them with the lock released, and waits that a
  flag set without the lock can miss.
* **Cancelled requests with lasting effects.** A cancelled startup may have left an entry in the server's
  queue; the cleanup runs on another thread and must not remove what a later attempt put there.

What makes each component correct, in one sentence: the queue loses and repeats nothing, and never strands
its consumer; the RTP queues hand over whole frames and packets in order, and report every loss;
the depacketizer never lets a frame through whose reference is missing and comes back after a loss; a connection
leaves nothing behind however it ends; a session attempt neither steals nor leaks a place in the queue, leaves nothing running, and ends;
input that was accepted reaches the host with every change and in order; the codec is restarted by one thread
alone, and nothing of it is used afterwards; the pacer shows frames in order and frees each once.

## 2. Modules

`A -> B` reads "A extends B", `A => B` "A is shown to implement B".

```
LbqOps                        the queue as a value: what each critical section computes
  LinkedBlockingQueue -> LbqOps                     => BoundedFifo
  VideoDepacketizer   -> LbqOps
    VideoRecovery -> VideoDepacketizer              => VideoDepacketizer
      (its RTP queue is INSTANCE FrameDelivery)
      VideoRecoveryProofs -> VideoRecovery             also of the depacketizer alone
  Connection          -> LbqOps
    ConnectionProofs -> Connection, LinkedBlockingQueue   also of the queue alone
  InputStream         -> LbqOps
    InputStreamProofs -> InputStream
RtpVideoQueue                                       => FrameDelivery
  RtpVideoQueueProofs -> RtpVideoQueue
RtpAudioQueue
  RtpAudioQueueProofs -> RtpAudioQueue
Pacer                                                  desktop
CodecRecovery                                          Android
  CodecRecoveryProofs -> CodecRecovery
SessionOrchestrator                                    Android
  SessionOrchestratorProofs -> SessionOrchestrator
DesktopStartup                                         desktop
  DesktopProofs -> DesktopStartup, Pacer
MC*                           TLC instances of the above
```

So the chain packets - frames - recovery is closed in two halves. `RtpVideoQueue` is shown packet by packet to
implement `FrameDelivery`, which speaks of frames; `VideoRecovery` composes `FrameDelivery` with the
depacketizer, the decoder, the control threads, a network and a host. The assumption that
`VideoDepacketizer` makes of its caller (`MayBeLost`) is discharged in `VideoRecovery`, whose steps are shown
to be steps of `VideoDepacketizer` (`DepacketizerSpec`). Both halves are checked by TLC on small instances and proved for
every value of the constants (`Delivers`, `Implements`, section 5), and so a theorem about the depacketizer alone holds of the
composition.

### LbqOps, LinkedBlockingQueue, BoundedFifo (`CC/LinkedBlockingQueue.c`)

A queue is a record of its list and flags; `LbqOps` has one operator per function (`Offered`, `Polled`,
`Waited`, `Flushed`, `ShutDown`, `Drained`, `UserWoken`, with the status each returns). Every function is one critical
section, hence one action, except that `PltSignalConditionVariable` runs after the unlock and only
when the queue was empty: `SignalCond` is an action of its own and anything may happen before it. The
consumer is outside of the wait, asleep or woken, by a signal or for no reason (`SpuriousWakeup`), and
tests again when it is woken. `accepted`, `removed`, `delivered`
are history variables. `BoundedFifo` is the promise: in order, once, bounded, nothing in after a drain and
nothing out after a shutdown; the refinement maps what entered to `accepted` and the count of what left to the
length of `removed`.

### VideoDepacketizer (`CC/VideoDepacketizer.c`)

A frame is a number and a kind: I (IDR), P, or R (a P-frame after an invalidation, or an intra-refresh
frame). The RTP queue submits all packets of a frame in one call, so a frame is three steps of the receive
thread: its first packet (`StartFrame`, with the gap test and what a header ends), its last
packet (`FinishWhileWaiting`, `FinishDropPending`, `FinishFrame`) and its reassembly (`QueueFrame`, or
`SubmitDirect` when the decoder is the receive thread). When the queue refuses the frame there are two steps more, `QueueOverflow` and `FlushOverflow`:
the decoder may take a frame before the queue is flushed. `CorruptFrame` is a failure at any packet.
The count of drops is a static that `initializeVideoDepacketizer` does not reset, so `Init` starts with any count below the limit.
The decoder thread waits, completes, or asks for a refresh, whose four assignments are four steps, since
nothing excludes the receive thread between them. The settings (invalidation or not, direct submit or not, typed headers
or not) are variables that never change, so that one run covers all eight.

### RtpVideoQueue, FrameDelivery (`CC/RtpVideoQueue.c`)

The state is the `RTP_VIDEO_QUEUE` of the code. One action is one packet: `RtpvAddPacket` with the
purge, gap and block tests, `queuePacket`, the prediction of a loss, `reconstructFrame`, the staging of a
complete block and the submission of a frame. `Stream` is what the host sent; the network delivers packets of
it that are at most `MaxLate` behind, repeats them, and skips at most `MaxOutage`. A recovered packet may fail its
sanity checks (`RecoveryMayFail`), half of the block having been queued by then.

### VideoRecovery (`CC/ControlStream.c`, with the two components above)

Adds the IDR thread (`IdrWait`, `IdrClear`, `IdrFlush`, `IdrSend`) and the invalidation thread (`RfiWait`,
`RfiMore`, `RfiSend`) as the steps of their loops, the reliable channel `toHost`, and a host that
is not in the repository: it answers an IDR request with an IDR frame and an invalidation with a frame that refers to
one before the range, or with an IDR frame when the last IDR frame was invalidated.

### Connection (`CC/Connection.c` and the start/stop code of the four streams)

What the application's thread has still to do is a script of instructions such as
`<<"create", "VideoRecv">>`, `<<"shutdown", "rfi">>`, `<<"join", "ReqIdr">>`; each is one step and a
failing step replaces the rest by what the code does to undo it. A thread polls (and notices an interrupt), waits on
a queue, or waits on the event of the IDR thread. Any thread that talks to the host may meet an error and call
`ClInternalConnectionTerminated`, whose test and assignment are separate steps.

### RtpAudioQueue (`CC/RtpAudioQueue.c`, receive loop of `CC/AudioStream.c`)

Blocks of `DataShards` data and `FecShards` parity packets. An action is a packet with everything `RtpaAddPacket`
does (resynchronization, out-of-sequence memory, a block inserted into the sorted list, the fast path, the
recovery, giving up missing blocks), then `GetQueuedPacket` until the queue has nothing ready. Blocks
have the contents `got`; sequence numbers wrap at `DataShards * Blocks`, and the host goes on for ever. The network delivers what it likes of it,
as long as the newest block is at most `MaxAhead` blocks ahead of the oldest one the queue awaits (`InReach`).

### SessionOrchestrator (`src/android/app/src/main/java/com/limelight/session/`)

Every method of `SessionOrchestrator`, the worker of each attempt with its polls and its cancellable waits, and the
cleanup of `SessionBackend` (one DELETE, or up to four when the POST may still be on its way). The server is external: one
queue entry per machine; a POST enters the queue when the machine is idle; a DELETE removes the entry
whoever made it; requests that were cancelled or timed out may be served all the same.

### InputStream (`CC/InputStream.c`)

A caller is in a call from `Begin` (the tests, and what an event changes outside of the lock) over `TakeHolder` (a
holder from the free list or from the heap) and `Overwrite` (under `batchedInputMutex`) to `Offer`. The send thread
takes a packet, looks whether the next ones merge with it (`Batch`), turns the pending motion, position or sensor
values into packets (`Motion`, `SendMotion`, `Latest`; the mutex is released while it sends), splits a text, and sends. `StopStep`
is `stopInputStream`. An event is a device and a key, the key being what must not be lost: the history counts events
per device, so that "sent", "sure" and "given" can be compared.

### CodecRecovery (`src/android/app/src/main/java/com/limelight/binding/video/MediaCodecDecoderRenderer.java`)

Each thread is at a point of its loop, of `handleDecoderException` or of `doCodecRecoveryIfRequired`. Every read and every
write of `codecRecoveryType` outside of the monitor is a step; the monitor's holder is `owner`. The loops of restart, reset and
recreation, which try again when the configuration throws, are `Restart`, `Reset`, `Recreate`. A buffer is "fresh" or
"stale", which it becomes when the codec is stopped, reset or released. `setHdrMode` and the stop are threads of
the application with their own steps. MediaCodec and the depacketizer are external: a call returns or throws, and after a
request for an IDR frame one comes. `prepareForStop` is called twice and interrupts the renderer thread each time; `take()` uses an interrupt up.

### Pacer (`src/desktop/app/streaming/video/ffmpeg-renderers/pacer/pacer.cpp`)

The decoder thread, the V-sync thread, the thread that renders (its own or the main thread) and the destructor. What happens
under the lock is one step, except that the step into a wait is separate, because `m_Stopping` is set and the
conditions are signalled without it. Dropped frames are freed after the lock was released, each in a step of its own.
What `initialize` finds (a V-sync source, frame rates, a render thread, a renderer that buffers) is `mode`.

### DesktopStartup (`src/desktop/app/backend/sessionorchestrator.cpp`, `launcherapi.cpp`)

Both classes live on one thread, so an action is one event of its loop: a click, a timer, a reply, the result of a worker, the end
of a stream. What an event calls, directly or through signals, are functions from the client's record to its next one:
`Cancel`, for instance, decides whether a DELETE is due, stops the timers, raises the attempt, gives up connection requests,
cancels the stream and drives, as the code does in that order. Only `drive` after `busyChanged` is an event of its own
(`singleShot(0)`). Account generations drop stale replies as in `request()`. The server is external: it may serve a request
whose answer is lost, or serve it after the client gave up.

`m_Busy` is one flag, the requests in flight are a set, and nothing but the code keeps the two in step. Most requests are sent only while the flag is
down; an upload, the start of an emulator and the deletion of a machine take it without looking (`OtherRequest`, `Upload`), and every reply
clears it, whatever else is in flight. An upload needs no account, so its reply is heard after a change of account too.
`overlapped` is a history variable: the attempts during which a request that should have been alone had company, or was in flight with the flag down (`Overlaps`).

## 3. Runs

All runs finish exhaustively. `v` marks a run that is expected to find a violation (section 6).

| run | question | instance and why it is enough |
|---|---|---|
| `queue` | Can a wake-up, an item or an order be lost between the unlock and the signal? | 2 threads, 3 items, bound 2, 2 user wakes. Two threads suffice for a signal overtaken by another thread's operations; three items fill, empty and refill the queue. |
| `video` | Can a frame reach the decoder that it cannot decode? | frames 1..4 in any order of arrival and loss, both queues of 2, drop limit 2. All eight settings. Both queues overflow, the drop limit is reached more than once, a refresh overlaps each receive step. |
| `rtp_queue` | Are frames submitted whole, whatever is lost, late or repeated? | 6 frames of one and two blocks, with no, one or two parity packets, 19 packets over a wrap at 16; late by up to 3, outages of up to 3: a whole block, and a whole frame with parts of its neighbours, can be lost; a recovery can fail after its first packet was queued, and the packets that come then meet it. |
| `recovery` | Do the components together keep the decoder's references and recover? | 9 frames, the first 4 of which may be lost, at most 3 losses, host up to 3 ahead, drop limit 3. Losses of an answer to an earlier loss occur; the drop limit is reached; five frames after the last loss leave room for the limit and an answer. |
| `connection` | Does every start and stop return, in an order in which nothing is used after its destruction? | one session with the most or the fewest threads; two events (errors, interrupts, input, callbacks, frame losses) at any time; every step of the start may fail. Two events are one to begin a stop and one to race with it. |
| `session` | Can a cancelled attempt take away or leave behind a queue entry, or an attempt hang? | two attempts, two surprises (failed or lost requests, vanished entries or machines); idle limit 2. One attempt to be cancelled, one to be hurt. |
| `rtp_audio` | Does the decoder get each packet once, in order, and is only what never came skipped? | 2 data and 2 parity shards; an endless stream whose numbers wrap every 14 blocks, starting at block 12; a packet late by a block, a newest block up to three ahead of the oldest one awaited (two whole blocks lost in a row), a block waited for over two blocks. |
| `codec` | Is the codec ever used while it is restarted, or a buffer of it afterwards; does a recovery or a stop hang? | one recovery counted before errors are reported, a queue of 1. With the Choreographer thread one error or one change of the metadata, without it three errors or one of each: errors in two threads at once, one during a recovery, and one in the retries of a recovery occur. A stop at any time. |
| `codec_stuck` (v) | Do all threads leave the wait for a recovery? | the same without the Choreographer |
| `input` | Is input that was accepted sent, unreordered, with all its changes? | two producers with up to four events between them, chosen per device (the scenarios of `MCInputStream`), a queue of 2, sums that do not fit from 2 on, scroll steps of 2; the connection may be lost, a stop at any time. Full queues, refused motion, merges of all kinds and splits occur. |
| `pacer` | Are frames shown in order and freed once; does the destructor return? | 5 frames, queues of 4, windows of 2, every combination of settings: five frames overflow each queue and fill a window more than once. |
| `desktop` | Does an attempt leave an entry, a stream, a timer or a request behind, take another's entry, or hang? | 2 accounts, 2 attempts, logins and logouts of two accounts in a row, and one surprise (a failure, a repeated login, a refresh, an upload or another request) at any time: one attempt to be cancelled by each kind of event, one to be hurt, an account to change in between. The two invariants and the action property are proved for any number of each (section 5). |

What the properties of the passing runs say:

* `queue`. `NoLostWakeup`: a sleeping consumer for which there is something is about to be
  signalled. `StopReleasesConsumer`, `AcceptedIsServed`: liveness. `ImplementsFifo`: refinement of `BoundedFifo`.
* `video`. `NoReferenceGap`, `DecoderSeesNoGap`, `IdrDecodedBeforeP`: what may be queued and
  decoded. `DecoderSeesNoGap` and the decoder half of `IdrDecodedBeforeP` are claimed while the decoder has
  asked for no refresh, because the refresh race breaks them afterwards.
* `rtp_queue`. `MissingIsExact`: the asserted count of missing packets. `FramesSubmittedWhole`: what the
  depacketizer is told. `DeliversFrames`: refinement of `FrameDelivery`.
* `recovery`. `DepacketizerSpec`: refinement; `ReferencesAreDecoded`: a frame is decoded only if the one it
  refers to was; `VideoRecovers`: once losses end, the waits end and the last frame is decoded.
* `connection`. `NothingIsLeft`, `NothingIsUsedAfterwards`, `StartsAndStopsReturn`.
* `session`. `RemovesOnlyItsOwn`, `NothingLeftQueued`, `OneStream`, `EveryAttemptIsDecided`.
* `rtp_audio`. `PlayedInOrder`: once, in order, block by block; `SkipsOnlyTheUnseen`: what is given up never came.
* `codec`. `RecoveryIsExclusive`: nobody else is in a call of the codec, or about to make one with a buffer it
  holds, while a thread recovers it. `BuffersAreTheCodecs`: no buffer from before a restart is given back after it. `FirstFrameIsIdr`:
  a configured codec is fed an IDR frame first. `RecoveriesAndStopsEnd`: liveness, with the three excuses of section 6.
* `input`. `AcceptedIsSent`: when nothing is left to do, no pending motion is without a packet. `ButtonsFollowMotion`: a button is
  sent after all motion accepted before it. `RestIsSure`: a sensor put to rest is so reliably. `MotionIsConserved`: the sum sent is
  the sum given. `MergingKeepsChanges`: merged pad and pen events are alike. `InputIsDelivered`: liveness.
* `pacer`. `FramesConserved`: order, one place per frame, freed once, none left. `EventForEveryFrame`: the main thread is told
  of every frame. `NewestIsShown`: a frame that none follows gets through. `StopEnds`: the destructor returns, but for the
  missed wake-up of section 6.
* `desktop`. `NoEntryIsLeft`, `CleanupTakesItsOwn`: about the queue. Both excuse the entries of attempts one of whose requests had no answer (`unsure`), or during
  which the flag did not keep the requests apart (`overlapped`): such an entry is left by the code (`NoJoinIsForgotten`, section 6). `NothingOutlivesItsAttempt`: streams, PINs, connection
  requests and timers. `StartupsEnd`: infinitely often nothing is pending, so no attempt with a machine that is ready, no cleanup
  and no cancelled stream hangs; an attempt may wait in the queue for ever, and for an upload, which has no time limit.

Some properties are defined beside those and have no run: `PeekStable`, `FifoConservation`, `DrainLosesNothing`, `FramesInOrder`,
`SuccessWaitIsAWait`, `InvalidationsInOrder`, `QueueIsConsistent` are proved (section 5); `GivenUpForGood`, `ReportsMoveForward`, `PredictionsFailOnlyLate`,
`DrainedBeforeDestroyed` hold on the instances above when their configurations name them (so does `QueueIsConsistent`); those of section 6 fail.

Deadlock is checked where the system cannot stop (`rtp_audio`). It is off where it can: queues that were shut
down, streams whose frames are used up, sessions and attempts that are used up, decoders and pacers that were stopped.

### Bounds named in the modules

`MaxWakes`, `MaxSessions`, `MaxEvents`, `MaxAttempts`, `MaxStarts`, `MaxSurprises`, `Budgets`, `Scenarios`, `MaxFrames`, `MaxFrame`, `MaxLossy`,
`MaxLosses`, `Lead` bound a run; `MaxLate`, `MaxOutage`, `MaxReorder`, `MaxAhead`, `FrameNumbers` bound the network and
the host. In the code `MaxAhead` can be 8000 of the 16384 blocks, more than two minutes of audio: with
every second packet that it keeps the queue moves on by a block of its list, so the newest block runs away only where, for minutes, fewer than two of the six packets of a block arrive. `SizeBound`, `QueueBound`, `RfiBound`, `DropLimit`, `SeqModulus`, `Blocks`, `DataShards`,
`FecShards`, `LastBlock`, `IdlePollLimit`, `MaxWait`, `MaxTries`, `QueueLimit`, `DeltaMax`, `WheelDelta`, `MaxQueuedFrames`,
`PacingWindow`, `RenderWindow` are constants of the code, made small. `MaxWait` stands
for time: a missing audio block is waited for until that many blocks later at most, where the code measures
milliseconds.

## 4. Fairness

* `queue`: weak fairness of each thread's `SignalCond` (a thread between unlock and signal goes on) and of the
  consumer's `WaitSleep` and `WaitReturn` (its loop comes back to the wait). Offers, flushes, stops, polls and
  spurious wake-ups are never forced.
* `recovery`: weak fairness of the receive thread, the decoder, the two request threads and the host: each is a loop in a thread
  of its own, and blocked only where its action is disabled. After the losses end, frames arrive one at a
  time and are encoded when all requests have arrived (`Settled`): the time between two frames (16 ms) against
  a request's way to the host. Before that no order is assumed.
* `connection`: weak fairness of the application's thread within a start or stop, and of each thread, as the operating
  system schedules every runnable thread. Nothing forces the application to stop, or an event to happen.
* `session`: weak fairness of each worker, of each cleanup, of the server's answer to a POST, and of the machine's
  allocation. Requests have timeouts, so a request ends; the allocation is the server's promise, without
  which an attempt may rightly wait in the queue for ever.
* `codec`: weak fairness of each thread's step, of the request that ends a `setHdrMode`, and of a stop that was begun. Calls of the codec
  have timeouts or return; frames and V-syncs keep coming while the stream runs. Errors, changes and the stop itself are not forced.
* `input`: weak fairness of the send thread, of a caller inside a call, and of a stop that was begun. No event is ever forced.
* `pacer`: weak fairness of a decoder inside `submitFrame`, of the V-sync thread, of the rendering thread and of a destructor that was begun,
  all only while nothing has crashed. Submissions are not forced.
* `desktop`: weak fairness of the two timers, of each request's reply (all have a transfer timeout, except uploads, of which nothing is assumed) and of the end of a stream
  that was cancelled. Nothing is assumed of the user, of the machine, of workers, or of a stream: that
  an attempt ends all the same is the deadline's doing.

## 5. Proofs

Checked by TLAPS for every value of the constants, under the named `ASSUME`s of the modules: bounds are
positive naturals (`SizeBoundAssumption`, `BoundsAssumption`, `PacerAssumption`, `CodecAssumption`, `InputAssumption`; the drop limit is at least 2), `NoItem` is not an item,
frame numbers are positive naturals, flags are Booleans, there is an attempt (`AttemptsAssumption`), the account "nobody" is no user's
(`StartupAssumption`), and the network's bounds are naturals (`RecoveryAssumption`). Of the packets of a stream: a frame has at most four blocks
(`StreamAssumption`), which is what two bits of the header can say; the packets of a block are numbered in a row and a block is at most half as large as
the range of the numbers (`BlocksAssumption`), where the code's two size fields have ten bits and the numbers sixteen. The sets of threads, items and frames may be infinite.
TLC evaluates each assumption in the runs.

`ConnectionProofs`, first part: the queue alone. The inductive invariant is
`LbqInv == LbqTypeOK /\ NoLostWakeup /\ FifoConservation /\ PeekStable /\ DoneIsSettled`. `NoLostWakeup` is
inductive only because a signal is sent on exactly the transitions that make the wait's condition true
while the consumer may sleep. `DoneIsSettled` strengthens `DrainLosesNothing`: a queue that is stopped accepts nothing, so
what was true when the consumer left stays true. From it follow `QueueTyped`, `WakeupsAreKept`,
`ItemsLeaveInOrder`, `PeeksAreStable` and `DrainIsComplete`; `ShutdownStops` is an action property (nothing is accepted or
handed out after a shutdown); `QueueImplementsFifo` is the refinement: initial states map to initial
states and each step to a step of `BoundedFifo` or to a stutter.

Second part: the connection. Its invariant `ConnectionInv` relates what is there (threads, queues, peer, stage) to the script that is still to do.
While the connection starts (`Starting`) the script is the rest of one plan, in ascending places: every thread, queue and stage is there exactly if its
instruction is not to come. While it stops, or undoes a failed start (`Stopping`), the script still joins every thread that is there, once and before anything the
thread needs is released, releases every resource that is there, and sets stage 0 last. `Held` says that a thread that is there has what it needs, more than the threads are seen to use.
Most of the proof is about the scripts. A start is put together of pieces, each in its own places (`Piece`), and `StartPiece` says that the whole is the plan. A stop is put together of parts that
each join the threads and release the resources of one stage (`Clears`); parts in a row are compatible as long as none releases what a later one's threads need (`ClearsConcat`), which holds because the stages
are undone the last one first (`NeedsComeFirst`). Thus `StopUndoes`, for the stop of any stage, and `FailureUndoes`, for each of the nineteen steps that may fail: what it undoes of its own stage and the stop of the stages
before are together exactly what is there (`WhereItFails`). `StopsLeaveNothing` and `NothingOutlivesWhatItUses` are read off the invariant, for every set of capabilities and any number of sessions and events.

`VideoRecoveryProofs`, first part: the depacketizer alone. The invariant is built in layers, each needing the ones before:
`TypeInv` (`TypeCorrect`); `SuccessWaitIsAWait`, inductive given the types (`SuccessWaitCorrect`);
`OrderInv` and `QueueOrder`, which relate the start of the window, the next frame number, the frame in hand
and the queue (`OrderCorrect`); `ChainInv`, which says that while there is no wait the receive thread expects the
frame that follows the last one queued, also between the first packet of a P-frame and its queueing
(`GapsAreClosed`); `RangeInv`, which puts every queued invalidation range before the next frame number and in order, and
says that a wait for an invalidation leaves frames to invalidate, so that no range is empty (`InvalidationsCorrect`).
`IdrInv` says that before the decoder was given an IDR frame the first frame on the way to it is one (`IdrComesFirst`); `LineInv`, that the
decoder's last frame, the queue and the frame to come form a line in which each P-frame follows the frame before it, as long as the decoder asked for no refresh or is the
receive thread (`DecoderIsInLine`). `RefreshesDirectly` is `RefreshIsHonoured`, which the code does not satisfy in general (section 6), for a decoder that is
the receive thread and frames that are not corrupt.

Second part: the composition. `RecoveryInv` is the types and the order of the depacketizer with the host's frames (`Encoded`), how far the depacketizer may be in comparison with the
RTP video queue (`Near`), and that the calls that remain to be made are in order and about frames it may be told of (`CallsInv`). With it each step of the
composition is a step of `VideoDepacketizer` or a stutter, and `MayBeLost` holds where it was assumed (`Implements`).
`ReferenceInv` adds what `RefersToDecoded` needs: every frame there is is one of the host's (`HostsFrames`), the decoder asks for no refresh (`Calm`), the frame before the first one of every
request, on whatever part of its way it is, is kept for the decoder, unless an IDR frame after it is, or is awaited (`StartsKept`, by way of `Asks` and `Kept`), the host refers to the frame before or to the one before a
request (`Refers`), and what a queued frame refers to is with the decoder or before it in the queue (`InReach`). Where the proof needs the first or the last of a set of frames it takes
it from the well-foundedness of the naturals.

`RtpVideoQueueProofs`. `Shape` says that the record is a queue and at a block the stream can have; each operation on the queue has a lemma that says what it keeps. A packet that is accepted
leaves the queue in one of four ways (`Leaves`): pending, pending with a loss foretold, a block complete, or a frame complete. These are the outcomes of `FrameDelivery`, and so
`Delivers` is the refinement, packet by packet. `Past` relates the history to the current frame: frames submitted are before it, losses reported are not after it, and a report of the
current frame itself was foretold. `SubmitsOnce`, `ReportsInOrder` and `GivesUpForGood` follow. `Exact` is the invariant of the counts: the highest packet
received is one of the block (`Heard`), every other is at a distance from the block's first number that is its index, and the missing ones and the distances seen add up to the highest index plus one.
The sequence numbers wrap, so this rests on lemmas about remainders (`CloseNumbers`, `SameDistance`, `BlockNumbers`): within one block numbers compare as the packets do.
`CountsMissing` is the assertion of `RtpvAddPacket`; `MisjudgesOnlyLate` that of `reconstructFrame`, that a prediction fails only when data was out of sequence.

`InputStreamProofs`. The inductive invariant `IInv` says of packets that do not batch that they are numbered without a gap from the last one taken (`NoGap`), of a batched state that it has one packet exactly
if it is dirty, and else was sent or is being sent as it is (`DirtyHasPacket`), that who changes it holds the mutex until that packet is queued (`MutexIsHeld`), that merged packets have the keys that were given
(`KeysAreGiven`), that the motion a button waits for is sent or ahead of it (`MotionIsAhead`), and that a sensor's values are the last ones accepted while they are dirty (`SensorIsLatest`). `SendsAccepted`,
`PressesLate`, `RestsSurely` and `ConservesMotion` are read off it, and the action property `MergesSafely`: all that one packet of a pad or the pen stands for had the same buttons.

`CodecRecoveryProofs`. `IInv` says where each thread may be (`Places`), that it holds a buffer exactly where it is about to use it (`Holdings`), that the thread that recovers has the monitor and all flags are
set (`MonitorIsHeld`), that a flag without a recovery is one of a stop (`ClearedByStop`), that every buffer is the present codec's (`BuffersAreFresh`), and that the input thread queues a P-frame only for a codec that
had an IDR frame (`IdrIsNext`). `RecoversAlone`, `KeepsNoBuffer` and `StartsWithIdr` are read off it. The proof covers the codec that stays as it is (`codec_stuck`, section 6) too: that is a matter of liveness.

`RtpAudioQueueProofs`. The numbers of packets are cyclic and several blocks are in use at once, so `isBefore16` is an order only as long as they are within half of the modulus. `ShardsAssumption` says so of the blocks in use at
one time: those a packet may be late by (`MaxReorder`), those the newest block may be ahead of the oldest one awaited (`MaxAhead`), and three to spare. The stream may be of any length and its numbers wrap any number
of times; how often packets are repeated and how many are lost does not matter either. That the newest block stays within reach of the oldest is assumed of the network (`InReach`): while the head of the list is waited for the host goes on, and if it went on for ever
the numbers behind it would come back. The theorems have one more hypothesis, `~WrapsEarly`: while the queue synchronizes, block 0 does not come unless it is too late (section 6). `rtp_audio` satisfies both, and so do the constants of the code.
Every number is given its position (`Pos`), the distance from the oldest that can be in use while a given block is the oldest one awaited. Of two numbers in use one is before the other exactly if its position is lower (`Before`), a step of the numbers is one of the
positions (`Further`), and bases of blocks are a block apart (`Apart`); these rest on lemmas about remainders that the library does not have (`Division`, `RemainderOf`). The invariant `QueueInv` is then about positions: the list is
sorted and not beyond the newest block (`Listed`), the next packet is in the oldest block, which is the head of the list once it was begun (`Numbered`), and what was played last is directly before it, or ends an earlier
block (`Preceded`). A step is considered with the positions as they were before it; when the oldest block has moved on the positions are taken anew, and the order of what is in use stays (`OrderMoves`). `AudioTyped`, `QueueConsistent`, and the action properties `PlaysOnceInOrder` and `SkipsNothingSeen` follow. That the walk along the list finds a
packet's place (`Place`) rests on the well-foundedness of the naturals, since the prover has no minimum of a set (`WalkStops`).

`SessionOrchestratorProofs`. `IInv` says, per attempt, who may still be alive (`Lives`), what it has noted before it asks for a place in the queue (`Joins`), whose place the entry is and who is bound to remove it
(`Entries`), and that an attempt that got past its wait for the previous cleanup has none beside it (`Cleanups`). `StreamsOne` and `LeavesNothing` are read off it; `RemovesOwn`, which is about what
has been removed so far, is inductive given `IInv`.

`DesktopProofs`, first part: the pacer. `FramesAreFreedOnce` rests on `Conserved`: the frames on their way, from the renderer back to the pacing queue, are in order, and each is there, or was freed, once; `EveryFrameHasItsEvent` is
inductive given the types (`PacerTyped`). `QueuesKeepTheirBound` is the assertion of the code on its queues.

Second part: the startup. The client is one record and most actions apply a few of its operations in a row, so the invariant is a predicate of the record, the owners of the entries and what is no longer known (`Good`),
with one lemma per operation. Its heart is `Entries`: the entry of an attempt is one the attempt in progress still waits in (`Owns`), one a cleanup is bound to remove (`Removes`), or excused (`Excused`): one no answer told of, or of an attempt whose requests overlapped (`Marked`). It rests on whom each request
speaks for (`Requests`), on which POST is that of the attempt in progress (`Joins`), on that a request of an attempt that is not excused is alone and the flag is set (`Apart`), on that an attempt does not find the entry of the web site (`Sites`), and on that every part of an attempt ends with it or knows its number (`Streams`, `Pending`, `Parts`, `Workers`).
`LeavesNoEntry` and `EndsWithItsAttempt` are its invariants, `TakesOnlyItsOwn` the action property.

Model-checked only:

* liveness under fairness and `ENABLED`, which the prover does not do: `StopReleasesConsumer`, `AcceptedIsServed`,
  `VideoRecovers`, `StartsAndStopsReturn`, `EveryAttemptIsDecided`, `RecoveriesAndStopsEnd`, `InputIsDelivered`, `NewestIsShown`,
  `StopEnds`, `StartupsEnd`;
* the contents of a submitted frame (`FramesSubmittedWhole`; its order is `SubmitsOnce`): they are sorted sequences, and that a finite set has one is an induction over data.

## 6. Where code and documentation disagree

One has a run of its own, `codec_stuck`, and quotes the comment in `PROJECT.json`: `QuiescedThreadsWake`,
`MediaCodecDecoderRenderer.java:763`. The flags of all threads are cleared when a recovery is done, but a woken thread
looks at `codecRecoveryType` only when it has the monitor again; when a new recovery was requested by then it goes on waiting
without its flag, the flags are never complete, and the codec stays as it is until the stream is stopped.

The following properties are defined and fail; TLC shows the counterexample when a configuration of the module names them
(a bound is given where the smallest instance that shows it differs from the run's):

| property | code | what happens |
|---|---|---|
| `RefreshIsHonoured` (3 frames) | `CC/VideoDepacketizer.c:714` | A frame that passed the test of `dropStatePending` before a refresh is queued after the refresh emptied the queue; the decoder gets a P-frame next, not the announced IDR frame. A decoder that is the receive thread is safe from this, without corrupt frames (`RefreshesDirectly`). |
| `LossIsReported` (`FirstHasTwo`: 3 frames) | `CC/RtpVideoQueue.c:679` | After a lost block `reportedLostFrame` stays set while the current frame moves on; the loss of the whole next frame is taken for reported. |
| `NothingDecodedIsInvalidated` (8 frames, 6 of which may be lost, 2 losses) | `CC/ControlStream.c:1503` | Ranges that are not adjacent are merged, and a frame received and decoded between them is invalidated. |
| `ToldWhenEstablished` | `CC/Connection.c:163` | An error during the start makes the termination callback run, though `Limelight.h` promises it only after establishment. |
| `ConcealsOnlyTheLost` | `CC/RtpAudioQueue.c:590` | A packet handed over at once returns before the recovery is tried, even when it was the shard the recovery lacked; its block is given up and concealed. |
| `OnlyRefusedWhenFull` | `CC/InputStream.c:688` | The assertion that an offer fails only on a full queue: a stop may begin between the test and the offer, and then the queue refuses because it was drained. |
| `PenStateIsSure` | `CC/InputStream.c:551` | The comment at line 1374 says that a pen event that changes something is not dropped. The send thread replaces it by the next one when types and buttons agree, and that one was flagged unreliable because nothing changes from it. |
| `TypeIsExpected` | `MediaCodecDecoderRenderer.java:816` | A recovery ends between two failed `compareAndSet` and the `get`: "Unexpected codec recovery type" is thrown though nothing unexpected happened. |
| `HdrIsPickedUp` | `MediaCodecDecoderRenderer.java:690` | Metadata that changes between the configuration and `set(NONE)` finds a restart requested already, the one under way, and asks for none: the codec stays with the old metadata. |
| `StopReturns` | `pacer.cpp:154` | `m_Stopping` is set and signalled without the lock; a thread between the test and the wait without a timeout misses it and the destructor hangs. |
| `WokenForAFrame` | `pacer.cpp:256` | The comment at line 242 says that a frame arrived; the wait may also return without one, and the queue is not tested again before the `dequeue`. |
| `NewestIsRendered` | `pacer.cpp:347` | The comment says "too many queued up for a while", but with a history not yet filled the queue is cut at once, and the newest frame can be one nobody shows. |
| `LostJoinIsUndone` | `sessionorchestrator.cpp:310` | The test at `session_orchestrator_test.cpp:122` says that even a lost response can follow an insertion. `setBusy(false)` precedes the failure, so that `m_CancelQueued` is false then and the entry stays. |
| `NoJoinIsForgotten` | `sessionorchestrator.cpp:310` | `launcherapi.cpp:664` says "Logout clears the UI's busy flag, not the server-side POST. Wait for that specific reply". That holds of a cancelled attempt only when `cancel()` knows of the POST, and it asks `busy()`, which the reply to an upload, an emulator or a deletion cleared (lines 1183, 1606, 2061): status idle, not busy, no DELETE, and the entry stays. |
| `BusyEnds` | `launcherapi.cpp:159` | A refresh of tokens that logs in makes the reply of a login under way stale; it is dropped without `setBusy(false)`, and the launcher is busy with nothing in flight, until the logout or another reply. |
| `StreamsGoOn` (1 attempt, no logout, 2 surprises) | `sessionorchestrator.cpp:78` | Any failed request for the machine ends the attempt: the status after a token refresh (`launcherapi.cpp:1035`), or the last retry of a PIN after the pairing succeeded (`launcherapi.cpp:930`), cancels a stream that runs. |

Seen while modelling, without a property:

* `CC/VideoDepacketizer.c:229-230`: the assertion on the first decoded frame can fail after a refresh, by the race above.
* `CC/VideoDepacketizer.c:779-781`: an IDR frame ends the wait for one with its first packet; when a later packet of it is
  corrupt the client waits for an invalidation instead, and a decoder that asked for a refresh (also one that is the
  receive thread) is given the frame that answers it. With `CorruptFrames = TRUE` TLC violates `RefreshIsHonoured` so.
* `CC/RtpVideoQueue.c:650-653`: when the first blocks of a later frame are missing, the loss that is reported is that of
  the current frame, not of the frame of the packet, which is skipped as well.
* `CC/Connection.c:163`: two threads may both pass the test of `alreadyTerminated` and the application is told twice.
* `CC/LinkedBlockingQueue.c:5` asserts that a queue is stopped before it is destroyed; starts that fail after a
  stream was used do not do so (`CC/AudioStream.c:457`).
* `CC/AudioStream.c:461`: a failed start closes `rtpSocket` and leaves it set while the ping thread uses it.
* `CC/RtpAudioQueue.c:284`: zero is both "not synchronized" and a sequence number. With `WrapsEarly = TRUE`
  TLC violates `NextIsInFirstBlockOrBefore` and `PlayedInOrder`: block 0 that comes while the queue synchronizes becomes the head of the list and, when blocks before it are
  skipped, the oldest block, which starts the synchronization again. The same happens when block 0 is the first of the stream and a late packet from before it came first.
* `SessionOrchestrator.java:137`: a DELETE given up at its deadline can be served after the next attempt joined. The
  model has it (`ServeLateDelete`); `RemovesOnlyItsOwn` is claimed of the DELETEs the cleanup waits for.
  `SessionBackend.java:60`: a single DELETE that fails is not repeated (`leaks`).
* `CC/InputStream.c`: motion accepted after a button can be merged into a packet that was queued before it, which moves
  motion forward over a button but never back; motion whose packet was refused is delivered with a later one.
* `MediaCodecDecoderRenderer.java`: no call requests a flush, the branches for it are unused. An exception after the clear in `prepareForStop`
  can raise a recovery that the stop then waits for, and the renderer may block in `take()` when the Choreographer took the last
  buffers: `RecoveriesAndStopsEnd` excuses these (`overtaken`), as it excuses the threads left behind above.
* `launcherapi.cpp`, `sessionorchestrator.cpp`: an entry that vanishes at the server leaves the attempt polling an idle machine until the
  user cancels: unlike the Android client it has no limit of idle answers and joins only once.

## 7. What is not modelled

Within the modelled components:

* bitstream parsing in the depacketizer (start codes, NAL units, header sizes): it decides the kind of a frame, and whether a frame is
  corrupt, both free in the model; pull-mode renderers; wrap of 32-bit frame numbers;
* packets that contradict their stream, hosts before generation 5, failed allocations, the FEC status
  messages and the validation modes of debug builds in the RTP queues;
* sockets, and queues that only bound a pool, in `Connection`;
* messages about progress and failure, several machines, and the split of connecting and pairing in
  `SessionOrchestrator`; another client has its entry before the first attempt or not at all;
* contents, encryption and allocation of packets in `InputStream`;
* the choice and configuration of a codec, statistics, and the exception that reports a hanging decoder in `CodecRecovery`;
* statistics of time, and an event queue of SDL that refuses an event, in `Pacer`;
* two-factor codes, the end of the application, phases and texts, and pairing of friends in `DesktopStartup`: other requests of the
  launcher occur as `OtherRequest` and `Upload`, with what they do to the busy flag; each account has one machine, and only the machine of the attempt moves.

Other components are listed in `PROJECT.json` with the reason: vendored code (ENet, Reed-Solomon, the Vulkan, FFmpeg and SDL headers that are
most of the repository's lines), text protocols (RTSP, SDP), pure I/O, presentation, build files. Those marked "planned" there are in section 8.

## 8. Plan

Order so far: the queue (everything rests on it), the depacketizer and its recovery (the most delicate
protocol), the RTP video queue under it, the connection's lifecycle, the Android session startup, the RTP audio queue, input batching,
the frame pacer, the recovery of the Android codec, the desktop session startup.

Next, by importance:

1. Audio packet queue overflow (`CC/AudioStream.c`) and batching of callbacks (`CC/ControlStream.c`), on `LbqOps`.
2. Desktop `Session` cleanup (semaphore between sessions, deferred destruction).
3. One abstract specification of a startup shared by `SessionOrchestrator` and `DesktopStartup`: an attempt owns at most one entry and ends.
4. `ComputerManager` (polling, delayed save, removal) and the token refresh of the Android client (`AccountManager`).

Theorems next:

* `RtpVideoQueue`: that what is pending and completed are packets of the current frame, each once (the contents of a frame but for their order).

## 9. How to run

```
tlc -config MCVideoDepacketizer.cfg MCVideoDepacketizer      # any MC module with its configuration
tlapm ConnectionProofs.tla                                   # also of the linked blocking queue
tlapm VideoRecoveryProofs.tla
tlapm RtpVideoQueueProofs.tla
tlapm InputStreamProofs.tla
tlapm CodecRecoveryProofs.tla
tlapm SessionOrchestratorProofs.tla
tlapm RtpAudioQueueProofs.tla
tlapm DesktopProofs.tla                                      # the pacer and the startup
```

Each run takes between a second and three and a half minutes with two workers; the proofs take a few minutes each.
