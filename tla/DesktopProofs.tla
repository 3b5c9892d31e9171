----------------------------- MODULE DesktopProofs -----------------------------
(***************************************************************************)
(* Proofs about the two components of the desktop client.                  *)
(*                                                                         *)
(* The first part is about Pacer: what the pacer guarantees for any number *)
(* of frames, any bound of its queues and any windows: its types, that its *)
(* queues keep their bound, that the main thread has an event for every    *)
(* frame, and that frames are in order, in one place, and freed once.      *)
(*                                                                         *)
(* The second part is about DesktopStartup, for any accounts, any number   *)
(* of starts and of surprises.  The client is one record, and most actions *)
(* apply a few of its operations in a row; so the inductive invariant is a *)
(* predicate of the record, of the owners of the queue entries and of what *)
(* is no longer known (Good), with one lemma for each operation.           *)
(*                                                                         *)
(* Its heart is Entries: the entry of an attempt is one the attempt in     *)
(* progress still waits in (Owns), one a cleanup is bound to remove        *)
(* (Removes), or excused: a request of its attempt was not answered, or    *)
(* m_Busy did not keep the requests of its attempt apart (Excused).  For   *)
(* that it must be known whom each request speaks for (Requests), that a   *)
(* join goes on after its attempt only while a cleanup waits for it        *)
(* (Joins), that the request of an attempt that has joined has none beside *)
(* it (Apart), that such an attempt does not find the entry of the web     *)
(* site (Sites), and that every part of an attempt ends with it or knows   *)
(* its number (Streams, Pending, Parts, Workers).                          *)
(***************************************************************************)
EXTENDS DesktopStartup, Pacer, SequenceTheorems, FiniteSetTheorems, TLAPS

-----------------------------------------------------------------------------
(* Queues of frames. *)

(* The frames of a queue are numbers. *)
LEMMA FramesAreNumbers ==
  ASSUME NEW q \in Seq(Frames)
  PROVE  /\ \A i \in 1 .. Len(q) : q[i] \in Frames /\ q[i] \in Nat
         /\ Elements(q) \subseteq Frames
         /\ q = <<>> => Elements(q) = {}
<1>1. \A i \in 1 .. Len(q) : q[i] \in Frames
  BY ElementOfSeq
<1>2. Frames \subseteq Nat
  BY PacerAssumption DEF Frames
<1>3. q = <<>> => 1 .. Len(q) = {}
  BY EmptySeq
<1> QED
  BY <1>1, <1>2, <1>3 DEF Elements

(* The empty queue is in order. *)
LEMMA EmptyQueue == Increasing(<<>>) /\ Elements(<<>>) = {}
<1>1. Len(<<>>) = 0 /\ <<>> \in Seq(Frames)
  BY EmptySeq
<1>2. 1 .. 0 = {}
  OBVIOUS
<1> QED
  BY <1>1, <1>2 DEF Increasing, Elements

(* What is left of a queue without its first frame. *)
LEMMA TailProperties ==
  ASSUME NEW q \in Seq(Frames), q # <<>>
  PROVE  /\ Head(q) \in Frames /\ Head(q) \in Elements(q)
         /\ Tail(q) \in Seq(Frames) /\ Len(Tail(q)) = Len(q) - 1
         /\ Increasing(q) => /\ Increasing(Tail(q))
                             /\ Elements(Tail(q)) = Elements(q) \ {Head(q)}
                             /\ \A x \in Elements(q) \ {Head(q)} : Head(q) < x
<1>1. /\ Head(q) = q[1] /\ Tail(q) \in Seq(Frames) /\ Len(Tail(q)) = Len(q) - 1
      /\ \A i \in 1 .. Len(Tail(q)) : Tail(q)[i] = q[i + 1]
      /\ Len(q) \in Nat \ {0}
  BY HeadTailProperties, EmptySeq, LenProperties
<1>2. \A i \in 1 .. Len(q) : q[i] \in Nat
  BY FramesAreNumbers
<1>3. Head(q) \in Frames /\ Head(q) \in Elements(q)
  BY <1>1, ElementOfSeq DEF Elements
<1>4. ASSUME Increasing(q) PROVE Increasing(Tail(q))
  BY <1>1, <1>2, <1>4 DEF Increasing
<1>5. ASSUME Increasing(q) PROVE \A x \in Elements(q) \ {Head(q)} : Head(q) < x
  BY <1>1, <1>2, <1>5 DEF Increasing, Elements
<1>6. ASSUME Increasing(q) PROVE Elements(Tail(q)) = Elements(q) \ {Head(q)}
  <2>1. ASSUME NEW x \in Elements(Tail(q)) PROVE x \in Elements(q) \ {Head(q)}
    <3>1. PICK i \in 1 .. Len(Tail(q)) : x = Tail(q)[i]
      BY DEF Elements
    <3>2. x = q[i + 1] /\ i + 1 \in 1 .. Len(q) /\ 1 \in 1 .. Len(q) /\ 1 < i + 1
      BY <1>1, <3>1
    <3>3. q[1] < q[i + 1]
      BY <1>6, <3>2 DEF Increasing
    <3> QED
      BY <1>1, <1>2, <3>2, <3>3 DEF Elements
  <2>2. ASSUME NEW x \in Elements(q) \ {Head(q)} PROVE x \in Elements(Tail(q))
    <3>1. PICK i \in 1 .. Len(q) : x = q[i]
      BY DEF Elements
    <3>2. i # 1
      BY <1>1, <3>1
    <3>3. i - 1 \in 1 .. Len(Tail(q)) /\ Tail(q)[i - 1] = q[i]
      BY <1>1, <3>2
    <3> QED
      BY <3>1, <3>3 DEF Elements
  <2> QED
    BY <2>1, <2>2
<1> QED
  BY <1>1, <1>3, <1>4, <1>5, <1>6

(* A frame behind the others. *)
LEMMA AppendedProperties ==
  ASSUME NEW q \in Seq(Frames), NEW f \in Frames
  PROVE  /\ Append(q, f) \in Seq(Frames) /\ Len(Append(q, f)) = Len(q) + 1
         /\ Elements(Append(q, f)) = Elements(q) \cup {f}
         /\ Increasing(q) /\ (\A x \in Elements(q) : x < f) => Increasing(Append(q, f))
<1>1. /\ Append(q, f) \in Seq(Frames) /\ Len(Append(q, f)) = Len(q) + 1
      /\ \A i \in 1 .. Len(q) : Append(q, f)[i] = q[i]
      /\ Append(q, f)[Len(q) + 1] = f
      /\ Len(q) \in Nat
  BY AppendProperties, LenProperties
<1>2. \A i \in 1 .. Len(q) : q[i] \in Nat
  BY FramesAreNumbers
<1>3. Elements(Append(q, f)) = Elements(q) \cup {f}
  <2>1. 1 .. Len(Append(q, f)) = (1 .. Len(q)) \cup {Len(q) + 1}
    BY <1>1
  <2> QED
    BY <1>1, <2>1 DEF Elements
<1>4. ASSUME Increasing(q), \A x \in Elements(q) : x < f PROVE Increasing(Append(q, f))
  <2>1. \A i \in 1 .. Len(q) : q[i] < f
    BY <1>4 DEF Elements
  <2>2. \A i \in 1 .. Len(Append(q, f)) : i \in 1 .. Len(q) \/ i = Len(q) + 1
    BY <1>1
  <2> QED
    BY <1>1, <1>4, <2>1, <2>2 DEF Increasing
<1> QED
  BY <1>1, <1>3, <1>4

(* Without the first frame of a full queue, with one more. *)
LEMMA EnqueuedProperties ==
  ASSUME NEW q \in Seq(Frames), NEW f \in Frames
  PROVE  /\ IsFull(q) => q # <<>> /\ Head(q) \in Frames /\ Head(q) \in Elements(q)
         /\ Enqueued(q, f) \in Seq(Frames) /\ Len(Enqueued(q, f)) <= Len(q) + 1
         /\ Len(q) <= MaxQueuedFrames => Len(Enqueued(q, f)) <= MaxQueuedFrames
         /\ Increasing(q) /\ (\A x \in Elements(q) : x < f) =>
              /\ Increasing(Enqueued(q, f))
              /\ Elements(Enqueued(q, f)) = (IF IsFull(q) THEN Elements(q) \ {Head(q)} ELSE Elements(q)) \cup {f}
<1>1. CASE ~IsFull(q)
  BY <1>1, AppendedProperties, LenProperties, PacerAssumption DEF Enqueued, IsFull
<1>2. CASE IsFull(q)
  <2>1. q # <<>>
    BY <1>2, EmptySeq, PacerAssumption DEF IsFull
  <2>2. Len(q) \in Nat /\ Len(Tail(q)) \in Nat
    BY <2>1, TailProperties, LenProperties
  <2>3. Tail(q) \in Seq(Frames) /\ Enqueued(q, f) = Append(Tail(q), f)
    BY <1>2, <2>1, TailProperties DEF Enqueued
  <2>4. /\ Enqueued(q, f) \in Seq(Frames)
        /\ Len(Enqueued(q, f)) = Len(Tail(q)) + 1
        /\ Elements(Enqueued(q, f)) = Elements(Tail(q)) \cup {f}
    BY <2>3, AppendedProperties
  <2>5. Len(Tail(q)) = Len(q) - 1 /\ Len(q) = MaxQueuedFrames
    BY <1>2, <2>1, TailProperties DEF IsFull
  <2>6. ASSUME Increasing(q), \A x \in Elements(q) : x < f
        PROVE  Increasing(Enqueued(q, f)) /\ Elements(Tail(q)) = Elements(q) \ {Head(q)}
    <3>1. Increasing(Tail(q)) /\ Elements(Tail(q)) = Elements(q) \ {Head(q)}
      BY <2>1, <2>6, TailProperties
    <3> QED
      BY <2>3, <2>6, <3>1, AppendedProperties
  <2>7. Head(q) \in Frames /\ Head(q) \in Elements(q)
    BY <2>1, TailProperties
  <2>8. Len(Enqueued(q, f)) <= Len(q) + 1 /\ Len(Enqueued(q, f)) <= MaxQueuedFrames
    BY <2>2, <2>4, <2>5, PacerAssumption
  <2> QED
    BY <1>2, <2>1, <2>4, <2>6, <2>7, <2>8
<1> QED
  BY <1>1, <1>2

-----------------------------------------------------------------------------
(* The shape of a state: its types, the bound of its queues, and which     *)
(* thread has a frame in its hand.                                         *)
FlagsOK  == mode \in Modes /\ stopping \in BOOLEAN /\ crashed \in BOOLEAN /\ missed \in BOOLEAN

QueuesOK ==
  /\ pacing \in Seq(Frames) /\ render \in Seq(Frames)
  /\ Len(pacing) <= MaxQueuedFrames /\ Len(render) <= MaxQueuedFrames

WindowsOK == pacingFew \in Seq(BOOLEAN) /\ renderFew \in Seq(BOOLEAN)

CountsOK ==
  /\ events \in Nat /\ submitted \in 0 .. MaxFrames
  /\ target \in {0, 1, 3} /\ rtarget \in {0, 1, 2}

FreedOK == freed \in [Frames -> Nat]

HandsOK ==
  /\ decoder \in {"idle", "announce"}
  /\ vsync \in {"wait", "handle", "drop", "sleep", "woken", "announce", "exited"}
  /\ renderer \in {"loop", "woken", "idle", "sleepy", "sleep", "render", "drop", "exited"}
  /\ main \in {"running", "wake vsync", "join vsync", "join renderer", "done"}
  /\ vframe \in Frames \cup {NoFrame} /\ rframe \in Frames \cup {NoFrame}
  /\ vframe # NoFrame <=> vsync = "drop"
  /\ rframe # NoFrame <=> renderer \in {"render", "drop"}

RolesOK ==
  /\ ~mode.paced => pacing = <<>> /\ vsync = "exited"
  /\ ~mode.thread => renderer \in {"idle", "render", "drop"}
  /\ main \in {"join renderer", "done"} => vsync = "exited"
  /\ main = "done" => renderer \in {"exited", "idle"} /\ render = <<>> /\ pacing = <<>>

Shape == FlagsOK /\ QueuesOK /\ WindowsOK /\ CountsOK /\ FreedOK /\ HandsOK /\ RolesOK
         /\ rendered \in Seq(Frames)

(* The shape of the state holds at the start. *)
LEMMA ShapeInit == PacerInit => Shape
<1> SUFFICES ASSUME PacerInit PROVE Shape
  OBVIOUS
<1>1. <<>> \in Seq(Frames) /\ <<>> \in Seq(BOOLEAN) /\ Len(<<>>) = 0
  BY EmptySeq
<1>2. FlagsOK
  BY Zenon DEF PacerInit, FlagsOK
<1>3. QueuesOK /\ rendered \in Seq(Frames)
  BY <1>1, PacerAssumption DEF PacerInit, QueuesOK
<1>4. WindowsOK
  BY <1>1, Zenon DEF PacerInit, WindowsOK
<1>5. CountsOK /\ FreedOK
  BY PacerAssumption DEF PacerInit, CountsOK, FreedOK
<1>6. HandsOK
  BY DEF PacerInit, HandsOK
<1>7. RolesOK
  BY DEF PacerInit, RolesOK
<1> QED
  BY <1>2, <1>3, <1>4, <1>5, <1>6, <1>7 DEF Shape

(* The windows of lengths keep their type. *)
LEMMA RolledType ==
  ASSUME NEW h \in Seq(BOOLEAN), NEW w \in Nat \ {0}, NEW e \in BOOLEAN
  PROVE  Rolled(h, w, e) \in Seq(BOOLEAN)
<1>1. CASE Len(h) = w
  <2>1. h # <<>>
    BY <1>1, EmptySeq
  <2>2. Tail(h) \in Seq(BOOLEAN)
    BY <2>1, HeadTailProperties
  <2> QED
    BY <1>1, <2>2, AppendProperties DEF Rolled
<1>2. CASE Len(h) # w
  BY <1>2, AppendProperties DEF Rolled
<1> QED
  BY <1>1, <1>2

(* Freeing a frame keeps the type of what was freed. *)
LEMMA FreedType ==
  \A fr \in [Frames -> Nat] : \A x : [fr EXCEPT ![x] = @ + 1] \in [Frames -> Nat]
<1> SUFFICES ASSUME NEW fr \in [Frames -> Nat], NEW x
             PROVE  [fr EXCEPT ![x] = @ + 1] \in [Frames -> Nat]
  OBVIOUS
<1>1. CASE x \in Frames
  BY <1>1
<1>2. CASE x \notin Frames
  <2>1. [fr EXCEPT ![x] = @ + 1] = fr
    BY <1>2
  <2> QED
    BY <2>1
<1> QED
  BY <1>1, <1>2

(* What the two queues give. *)
LEMMA QueueFacts ==
  ASSUME QueuesOK
  PROVE  /\ Len(pacing) \in Nat /\ Len(render) \in Nat
         /\ pacing = <<>> <=> Len(pacing) = 0
         /\ render = <<>> <=> Len(render) = 0
         /\ pacing # <<>> => /\ Head(pacing) \in Frames /\ Tail(pacing) \in Seq(Frames)
                             /\ Len(Tail(pacing)) = Len(pacing) - 1
         /\ render # <<>> => /\ Head(render) \in Frames /\ Tail(render) \in Seq(Frames)
                             /\ Len(Tail(render)) = Len(render) - 1
         /\ \A f \in Frames :
              /\ Enqueued(pacing, f) \in Seq(Frames) /\ Len(Enqueued(pacing, f)) <= MaxQueuedFrames
              /\ Enqueued(render, f) \in Seq(Frames) /\ Len(Enqueued(render, f)) <= MaxQueuedFrames
         /\ \A n \in Nat : (Len(pacing) > n => pacing # <<>>) /\ (Len(render) > n => render # <<>>)
         /\ NoFrame \notin Frames
<1>1. /\ Len(pacing) \in Nat /\ Len(render) \in Nat
      /\ pacing = <<>> <=> Len(pacing) = 0
      /\ render = <<>> <=> Len(render) = 0
  BY EmptySeq, LenProperties DEF QueuesOK
<1>2. /\ pacing # <<>> => /\ Head(pacing) \in Frames /\ Tail(pacing) \in Seq(Frames)
                          /\ Len(Tail(pacing)) = Len(pacing) - 1
      /\ render # <<>> => /\ Head(render) \in Frames /\ Tail(render) \in Seq(Frames)
                          /\ Len(Tail(render)) = Len(render) - 1
  BY TailProperties DEF QueuesOK
<1>3. \A f \in Frames :
        /\ Enqueued(pacing, f) \in Seq(Frames) /\ Len(Enqueued(pacing, f)) <= MaxQueuedFrames
        /\ Enqueued(render, f) \in Seq(Frames) /\ Len(Enqueued(render, f)) <= MaxQueuedFrames
  BY EnqueuedProperties DEF QueuesOK
<1>4. NoFrame \notin Frames
  BY PacerAssumption DEF Frames, NoFrame
<1>5. \A n \in Nat : (Len(pacing) > n => pacing # <<>>) /\ (Len(render) > n => render # <<>>)
  BY <1>1 DEF QueuesOK
<1> QED
  BY <1>1, <1>2, <1>3, <1>4, <1>5

(* Every step keeps the shape, part by part. *)

(* The settings and the flags. *)
LEMMA FlagsNext ==
  ASSUME FlagsOK, [PacerNext]_pacerVars
  PROVE  FlagsOK'
<1> USE DEF FlagsOK,
            pacerVars, queueVars, decoderVars, vsyncVars, rendererVars, mainVars, historyVars
<1>1. CASE Stop
  BY Zenon, <1>1 DEF Stop
<1>2. CASE FrameArrived
  BY Zenon, <1>2 DEF FrameArrived
<1>3. CASE JoinVsync
  BY Zenon, <1>3 DEF JoinVsync
<1>4. CASE Submit \/ AnnounceSubmitted \/ VsyncReturns \/ HandleVsync \/ DropPaced \/ VsyncTimeout \/
           AnnouncePaced \/ RenderLoop \/ Sleep \/ FrameReady \/ RenderFrame \/ DropRendering \/ WakeVsync
           \/ JoinRenderer
  BY <1>4 DEF Submit, AnnounceSubmitted, VsyncReturns, HandleVsync, DropPaced, VsyncTimeout,
     AnnouncePaced, RenderLoop, Sleep, FrameReady, RenderFrame, DropRendering, WakeVsync,
     JoinRenderer
<1>5. CASE UNCHANGED pacerVars
  BY <1>5
<1> QED
  BY <1>1, <1>2, <1>3, <1>4, <1>5 DEF PacerNext, Decoding, Pacing, Rendering, Stopping

(* The histories of lengths. *)
LEMMA WindowsNext ==
  ASSUME WindowsOK, [PacerNext]_pacerVars
  PROVE  WindowsOK'
<1> USE DEF WindowsOK,
            pacerVars, queueVars, decoderVars, vsyncVars, rendererVars, mainVars, historyVars
<1>1. (Len(pacing) <= 1) \in BOOLEAN /\ (render = <<>>) \in BOOLEAN
  OBVIOUS
<1>2. /\ Rolled(pacingFew, PacingWindow, Len(pacing) <= 1) \in Seq(BOOLEAN)
      /\ Rolled(renderFew, RenderWindow, render = <<>>) \in Seq(BOOLEAN)
  BY <1>1, RolledType, PacerAssumption
<1>3. CASE HandleVsync
  BY <1>2, <1>3 DEF HandleVsync
<1>4. CASE RenderFrame
  BY <1>2, <1>4 DEF RenderFrame
<1>5. CASE Submit \/ AnnounceSubmitted \/ VsyncReturns \/ DropPaced \/ VsyncTimeout \/ FrameArrived \/
           AnnouncePaced \/ RenderLoop \/ Sleep \/ FrameReady \/ DropRendering \/ Stop \/ WakeVsync \/
           JoinVsync \/ JoinRenderer
  BY <1>5 DEF Submit, AnnounceSubmitted, VsyncReturns, DropPaced, VsyncTimeout, FrameArrived,
     AnnouncePaced, RenderLoop, Sleep, FrameReady, DropRendering, Stop, WakeVsync, JoinVsync,
     JoinRenderer
<1>6. CASE UNCHANGED pacerVars
  BY <1>6
<1> QED
  BY <1>3, <1>4, <1>5, <1>6 DEF PacerNext, Decoding, Pacing, Rendering, Stopping

(* The two queues. *)
LEMMA QueuesNext ==
  ASSUME QueuesOK, CountsOK, [PacerNext]_pacerVars
  PROVE  QueuesOK'
<1> USE DEF QueuesOK,
            pacerVars, queueVars, decoderVars, vsyncVars, rendererVars, mainVars, historyVars
<1>1. /\ pacing # <<>> => Head(pacing) \in Frames /\ Tail(pacing) \in Seq(Frames) /\ Len(Tail(pacing)) <= MaxQueuedFrames
      /\ render # <<>> => Tail(render) \in Seq(Frames) /\ Len(Tail(render)) <= MaxQueuedFrames
  BY QueueFacts, PacerAssumption
<1>2. \A f \in Frames : /\ Enqueued(pacing, f) \in Seq(Frames) /\ Len(Enqueued(pacing, f)) <= MaxQueuedFrames
                       /\ Enqueued(render, f) \in Seq(Frames) /\ Len(Enqueued(render, f)) <= MaxQueuedFrames
  BY QueueFacts
<1>3. \A n \in Nat : Len(pacing) > n => pacing # <<>>
  BY QueueFacts
<1>4. \A n \in Nat : Len(render) > n => render # <<>>
  BY QueueFacts
<1>5. <<>> \in Seq(Frames) /\ Len(<<>>) <= MaxQueuedFrames
  BY EmptySeq, PacerAssumption
<1>6. CASE Submit
  BY <1>2, PacerAssumption, <1>6 DEF Frames, CountsOK, Submit
<1>7. CASE HandleVsync
  BY <1>1, <1>2, <1>3, <1>7 DEF CatchUpPacing, MoveFirst, HandleVsync
<1>8. CASE DropPaced
  BY <1>1, <1>2, <1>3, <1>8 DEF CatchUpPacing, MoveFirst, CountsOK, DropPaced
<1>9. CASE FrameArrived
  BY <1>1, <1>2, <1>9 DEF MoveFirst, FrameArrived
<1>10. CASE RenderLoop \/ FrameReady
  BY <1>1, <1>10 DEF TakeFirst, RenderLoop, FrameReady
<1>11. CASE RenderFrame
  BY <1>1, <1>4, <1>11 DEF CatchUpRendering, RenderTarget, RenderFrame
<1>12. CASE DropRendering
  BY <1>1, <1>4, <1>12 DEF CatchUpRendering, CountsOK, DropRendering
<1>13. CASE JoinRenderer
  BY <1>5, <1>13 DEF JoinRenderer
<1>14. CASE AnnounceSubmitted \/ VsyncReturns \/ VsyncTimeout \/ AnnouncePaced \/ Sleep \/ Stop \/ WakeVsync
           \/ JoinVsync
  BY <1>14 DEF AnnounceSubmitted, VsyncReturns, VsyncTimeout, AnnouncePaced, Sleep, Stop,
     WakeVsync, JoinVsync
<1>15. CASE UNCHANGED pacerVars
  BY <1>15
<1> QED
  BY <1>6, <1>7, <1>8, <1>9, <1>10, <1>11, <1>12, <1>13, <1>14, <1>15 DEF PacerNext, Decoding, Pacing,
     Rendering, Stopping

(* What is counted. *)
LEMMA CountsNext ==
  ASSUME CountsOK, [PacerNext]_pacerVars
  PROVE  CountsOK'
<1> USE DEF CountsOK,
            pacerVars, queueVars, decoderVars, vsyncVars, rendererVars, mainVars, historyVars
<1>1. CASE Submit
  BY PacerAssumption, <1>1 DEF Submit
<1>2. CASE AnnounceSubmitted \/ AnnouncePaced
  BY <1>2 DEF Announce, AnnounceSubmitted, AnnouncePaced
<1>3. CASE HandleVsync
  BY <1>3 DEF HandleVsync
<1>4. CASE FrameReady
  BY <1>4 DEF FrameReady
<1>5. CASE RenderFrame
  BY <1>5 DEF RenderTarget, RenderFrame
<1>6. CASE VsyncReturns \/ DropPaced \/ VsyncTimeout \/ FrameArrived \/ RenderLoop \/ Sleep \/
           DropRendering \/ Stop \/ WakeVsync \/ JoinVsync \/ JoinRenderer
  BY <1>6 DEF VsyncReturns, DropPaced, VsyncTimeout, FrameArrived, RenderLoop, Sleep,
     DropRendering, Stop, WakeVsync, JoinVsync, JoinRenderer
<1>7. CASE UNCHANGED pacerVars
  BY <1>7
<1> QED
  BY <1>1, <1>2, <1>3, <1>4, <1>5, <1>6, <1>7 DEF PacerNext, Decoding, Pacing, Rendering, Stopping

(* How often frames were freed. *)
LEMMA FreedNext ==
  ASSUME FreedOK, [PacerNext]_pacerVars
  PROVE  FreedOK'
<1> USE DEF FreedOK,
            pacerVars, queueVars, decoderVars, vsyncVars, rendererVars, mainVars, historyVars
<1>1. FreedByEnqueue(pacing) \in [Frames -> Nat] /\ FreedByEnqueue(render) \in [Frames -> Nat]
  BY FreedType DEF FreedByEnqueue, Free
<1>2. \A f : Free(f) \in [Frames -> Nat]
  BY FreedType DEF Free
<1>3. \A limit : \A fr \in [Frames -> Nat] : CatchUpPacing(limit, fr) => freed' \in [Frames -> Nat]
  <2> SUFFICES ASSUME NEW limit, NEW fr \in [Frames -> Nat], CatchUpPacing(limit, fr)
               PROVE  freed' \in [Frames -> Nat]
    OBVIOUS
  <2>1. freed' = fr \/ freed' = [fr EXCEPT ![Head(render)] = @ + 1]
    BY DEF CatchUpPacing, MoveFirst
  <2> QED
    BY <2>1, FreedType
<1>4. CASE Submit
  BY <1>1, <1>4 DEF Submit
<1>5. CASE HandleVsync
  BY <1>3, <1>5 DEF HandleVsync
<1>6. CASE DropPaced
  BY <1>2, <1>3, <1>6 DEF DropPaced
<1>7. CASE FrameArrived
  BY <1>1, <1>7 DEF FrameArrived
<1>8. CASE RenderFrame \/ DropRendering
  BY <1>2, <1>8 DEF RenderFrame, DropRendering
<1>9. CASE JoinRenderer
  <2>1. \A f \in Frames : (IF f \in Leftover THEN freed[f] + 1 ELSE freed[f]) \in Nat
    OBVIOUS
  <2> QED
    BY <1>9, <2>1 DEF JoinRenderer
<1>10. CASE AnnounceSubmitted \/ VsyncReturns \/ VsyncTimeout \/ AnnouncePaced \/ RenderLoop \/ Sleep \/
           FrameReady \/ Stop \/ WakeVsync \/ JoinVsync
  BY <1>10 DEF AnnounceSubmitted, VsyncReturns, VsyncTimeout, AnnouncePaced, RenderLoop, Sleep,
     FrameReady, Stop, WakeVsync, JoinVsync
<1>11. CASE UNCHANGED pacerVars
  BY <1>11
<1> QED
  BY <1>4, <1>5, <1>6, <1>7, <1>8, <1>9, <1>10, <1>11 DEF PacerNext, Decoding, Pacing, Rendering,
     Stopping

(* Where the threads are, and the frames in their hands. *)
LEMMA HandsNext ==
  ASSUME HandsOK, QueuesOK, CountsOK, [PacerNext]_pacerVars
  PROVE  HandsOK'
<1> USE DEF HandsOK,
            pacerVars, queueVars, decoderVars, vsyncVars, rendererVars, mainVars, historyVars
<1>1. /\ pacing # <<>> => Head(pacing) \in Frames
      /\ render # <<>> => Head(render) \in Frames
      /\ NoFrame \notin Frames
  BY QueueFacts
<1>2. \A n \in Nat : Len(pacing) > n => pacing # <<>>
  BY QueueFacts
<1>3. \A n \in Nat : Len(render) > n => render # <<>>
  BY QueueFacts
<1>4. CASE Submit
  BY <1>4 DEF Submit
<1>5. CASE AnnounceSubmitted \/ AnnouncePaced
  BY <1>5 DEF Announce, Woken, AnnounceSubmitted, AnnouncePaced
<1>6. CASE HandleVsync
  BY <1>1, <1>2, <1>6 DEF CatchUpPacing, MoveFirst, HandleVsync
<1>7. CASE DropPaced
  BY <1>1, <1>2, <1>7 DEF CatchUpPacing, MoveFirst, CountsOK, DropPaced
<1>8. CASE FrameArrived
  BY <1>8 DEF MoveFirst, FrameArrived
<1>9. CASE RenderLoop \/ FrameReady
  BY <1>1, <1>9 DEF TakeFirst, RenderLoop, FrameReady
<1>10. CASE RenderFrame
  BY <1>1, <1>3, <1>10 DEF CatchUpRendering, RenderTarget, Rest, RenderFrame
<1>11. CASE DropRendering
  BY <1>1, <1>3, <1>11 DEF CatchUpRendering, Rest, CountsOK, DropRendering
<1>12. CASE WakeVsync \/ JoinVsync
  BY <1>12 DEF Woken, WakesRenderer, WakeVsync, JoinVsync
<1>13. CASE VsyncReturns \/ VsyncTimeout \/ Sleep \/ Stop \/ JoinRenderer
  BY <1>13 DEF VsyncReturns, VsyncTimeout, Sleep, Stop, JoinRenderer
<1>14. CASE UNCHANGED pacerVars
  BY <1>14
<1> QED
  BY <1>4, <1>5, <1>6, <1>7, <1>8, <1>9, <1>10, <1>11, <1>12, <1>13, <1>14 DEF PacerNext, Decoding,
     Pacing, Rendering, Stopping

(* What each kind of pacer does without. *)
LEMMA RolesNext ==
  ASSUME RolesOK, HandsOK, QueuesOK, CountsOK, [PacerNext]_pacerVars
  PROVE  RolesOK'
<1> USE DEF RolesOK,
            pacerVars, queueVars, decoderVars, vsyncVars, rendererVars, mainVars, historyVars
<1>1. CASE Submit
  BY <1>1 DEF HandsOK, Submit
<1>2. CASE AnnounceSubmitted \/ AnnouncePaced
  BY <1>2 DEF Announce, Woken, HandsOK, AnnounceSubmitted, AnnouncePaced
<1>3. CASE HandleVsync
  BY <1>3 DEF CatchUpPacing, MoveFirst, HandleVsync
<1>4. CASE DropPaced
  BY <1>4 DEF CatchUpPacing, MoveFirst, DropPaced
<1>5. CASE FrameArrived
  BY <1>5 DEF MoveFirst, FrameArrived
<1>6. CASE RenderLoop \/ FrameReady
  BY <1>6 DEF TakeFirst, RenderLoop, FrameReady
<1>7. CASE RenderFrame
  BY QueueFacts, <1>7 DEF CatchUpRendering, Rest, RenderTarget, RenderFrame
<1>8. CASE DropRendering
  BY QueueFacts, <1>8 DEF CatchUpRendering, Rest, CountsOK, DropRendering
<1>9. CASE WakeVsync \/ JoinVsync
  BY <1>9 DEF Woken, WakesRenderer, WakeVsync, JoinVsync
<1>10. CASE VsyncReturns \/ VsyncTimeout \/ Sleep \/ Stop \/ JoinRenderer
  BY <1>10 DEF VsyncReturns, VsyncTimeout, Sleep, Stop, JoinRenderer
<1>11. CASE UNCHANGED pacerVars
  BY <1>11
<1> QED
  BY <1>1, <1>2, <1>3, <1>4, <1>5, <1>6, <1>7, <1>8, <1>9, <1>10, <1>11 DEF PacerNext, Decoding,
     Pacing, Rendering, Stopping

(* What was rendered. *)
LEMMA RenderedNext ==
  ASSUME rendered \in Seq(Frames), HandsOK, [PacerNext]_pacerVars
  PROVE  rendered' \in Seq(Frames)
<1> USE DEF NoFrame,
            pacerVars, queueVars, decoderVars, vsyncVars, rendererVars, mainVars, historyVars
<1>1. \A f \in Frames : Append(rendered, f) \in Seq(Frames)
  BY AppendedProperties
<1>2. CASE RenderFrame
  BY <1>1, <1>2 DEF HandsOK, RenderFrame
<1>3. CASE Submit \/ AnnounceSubmitted \/ VsyncReturns \/ HandleVsync \/ DropPaced \/ VsyncTimeout \/
           FrameArrived \/ AnnouncePaced \/ RenderLoop \/ Sleep \/ FrameReady \/ DropRendering \/ Stop \/
           WakeVsync \/ JoinVsync \/ JoinRenderer
  BY <1>3 DEF Submit, AnnounceSubmitted, VsyncReturns, HandleVsync, DropPaced, VsyncTimeout,
     FrameArrived, AnnouncePaced, RenderLoop, Sleep, FrameReady, DropRendering, Stop, WakeVsync,
     JoinVsync, JoinRenderer
<1>4. CASE UNCHANGED pacerVars
  BY <1>4
<1> QED
  BY <1>2, <1>3, <1>4 DEF PacerNext, Decoding, Pacing, Rendering, Stopping

(* Every step keeps it. *)
LEMMA ShapeNext == Shape /\ [PacerNext]_pacerVars => Shape'
BY FlagsNext, WindowsNext, QueuesNext, CountsNext, FreedNext, HandsNext, RolesNext, RenderedNext DEF Shape

(* So it holds throughout. *)
LEMMA ShapeAlways == PacerSpec => []Shape
<1>1. PacerInit => Shape
  BY ShapeInit
<1>2. Shape /\ [PacerNext]_pacerVars => Shape'
  BY ShapeNext
<1> QED
  BY <1>1, <1>2, PTL DEF PacerSpec

(* It has the types of the module. *)
LEMMA ShapeIsTyped == Shape => PacerTypeOK
<1> SUFFICES ASSUME Shape PROVE PacerTypeOK
  OBVIOUS
<1>1. FlagsOK /\ QueuesOK /\ WindowsOK /\ CountsOK /\ FreedOK /\ HandsOK /\ rendered \in Seq(Frames)
  BY DEF Shape
<1> QED
  BY <1>1, Zenon DEF PacerTypeOK, FlagsOK, QueuesOK, WindowsOK, CountsOK, FreedOK, HandsOK

(* Every variable keeps its type. *)
THEOREM PacerTyped == PacerSpec => []PacerTypeOK
BY ShapeAlways, ShapeIsTyped, PTL

(* "The sum of all queued frames between both pacing and rendering queues  *)
(* must not exceed the number buffer pool size" (pacer.cpp:18): neither    *)
(* queue is ever longer than its bound, which SDL_assert tests (392).      *)
THEOREM QueuesKeepTheirBound ==
  PacerSpec => [](Len(pacing) <= MaxQueuedFrames /\ Len(render) <= MaxQueuedFrames)
<1>1. Shape => Len(pacing) <= MaxQueuedFrames /\ Len(render) <= MaxQueuedFrames
  BY DEF Shape, QueuesOK
<1> QED
  BY <1>1, ShapeAlways, PTL

-----------------------------------------------------------------------------
(* Events for the main thread. *)

(* Whoever queues a frame for rendering announces it before anything else. *)
LEMMA EventsNext ==
  ASSUME Shape, EventForEveryFrame, [PacerNext]_pacerVars
  PROVE  EventForEveryFrame'
<1> USE DEF EventForEveryFrame,
            pacerVars, queueVars, decoderVars, vsyncVars, rendererVars, mainVars, historyVars
<1>1. /\ Len(render) \in Nat /\ events \in Nat
      /\ render # <<>> => Len(Tail(render)) = Len(render) - 1
  BY QueueFacts DEF Shape, CountsOK
<1>2. \A f \in Frames : Len(Enqueued(render, f)) \in Nat /\ Len(Enqueued(render, f)) <= Len(render) + 1
  BY EnqueuedProperties, LenProperties DEF Shape, QueuesOK
<1>3. /\ pacing # <<>> => Head(pacing) \in Frames
      /\ submitted < MaxFrames => submitted + 1 \in Frames
  BY QueueFacts, PacerAssumption DEF Shape, CountsOK, Frames
<1>4. ~mode.thread => renderer \in {"idle", "render", "drop"}
  BY DEF Shape, RolesOK
<1>5. Len(<<>>) = 0
  BY EmptySeq
<1>6. \A n \in Nat : Len(render) > n => render # <<>>
  BY QueueFacts DEF Shape
<1>7. target \in {0, 1, 3} /\ rtarget \in {0, 1, 2}
  BY DEF Shape, CountsOK
<1>8. CASE Submit
  BY <1>1, <1>2, <1>3, <1>8 DEF Submit
<1>9. CASE AnnounceSubmitted \/ AnnouncePaced
  BY <1>1, <1>9 DEF Announce, Woken, AnnounceSubmitted, AnnouncePaced
<1>10. CASE HandleVsync \/ DropPaced
  BY <1>1, <1>2, <1>3, <1>10 DEF CatchUpPacing, MoveFirst, HandleVsync, DropPaced
<1>11. CASE FrameArrived
  BY <1>1, <1>2, <1>3, <1>11 DEF MoveFirst, FrameArrived
<1>12. CASE RenderLoop
  BY <1>4, <1>12 DEF RenderLoop
<1>13. CASE FrameReady
  BY <1>1, <1>5, <1>13 DEF TakeFirst, FrameReady
<1>14. CASE RenderFrame \/ DropRendering
  BY <1>1, <1>6, <1>7, <1>14 DEF CatchUpRendering, RenderTarget, RenderFrame, DropRendering
<1>15. CASE WakeVsync \/ JoinVsync
  BY <1>15 DEF Woken, WakeVsync, JoinVsync
<1>16. CASE JoinRenderer
  <2>1. render' = <<>> /\ UNCHANGED <<mode, events, vsync, decoder>>
    BY <1>16 DEF JoinRenderer
  <2>2. Len(render') = 0
    BY <1>5, <2>1
  <2> QED
    BY <1>1, <2>1, <2>2
<1>17. CASE VsyncReturns \/ VsyncTimeout \/ Sleep \/ Stop
  BY <1>17 DEF VsyncReturns, VsyncTimeout, Sleep, Stop
<1>18. CASE UNCHANGED pacerVars
  BY <1>18
<1> QED
  BY <1>8, <1>9, <1>10, <1>11, <1>12, <1>13, <1>14, <1>15, <1>16, <1>17, <1>18 DEF PacerNext, Decoding,
     Pacing, Rendering, Stopping

(* The main thread always has an event for every frame that is queued, or  *)
(* is about to get it (pacer.cpp:189).                                     *)
THEOREM EveryFrameHasItsEvent == PacerSpec => []EventForEveryFrame
<1>1. PacerInit => EventForEveryFrame
  <2>1. Len(<<>>) = 0
    BY EmptySeq
  <2> QED
    BY <2>1 DEF PacerInit, EventForEveryFrame
<1>2. Shape /\ EventForEveryFrame /\ [PacerNext]_pacerVars => EventForEveryFrame'
  BY EventsNext
<1> QED
  BY <1>1, <1>2, ShapeAlways, PTL DEF PacerSpec

-----------------------------------------------------------------------------
(* Order.  A, Q, B and P are what is held, from the hand of the renderer   *)
(* to the pacing queue, and R what was rendered.                           *)
Chain(R, A, Q, B, P) ==
  /\ Precede(R, A) /\ Precede(R, Q) /\ Precede(R, B) /\ Precede(R, P)
  /\ Precede(A, Q) /\ Precede(A, B) /\ Precede(A, P)
  /\ Precede(Q, B) /\ Precede(Q, P) /\ Precede(B, P)

Hand(f) == {f} \ {NoFrame}

(* Taking the first of a set that is in place. *)
Least(h, S) == h \in S /\ \A x \in S \ {h} : h < x

(* A frame that goes from one stage to the next, or a new one, keeps the *)
(* chain.                                                                *)
LEMMA ChainMoves ==
  ASSUME NEW R \in SUBSET Nat, NEW A \in SUBSET Nat, NEW Q \in SUBSET Nat,
         NEW B \in SUBSET Nat, NEW P \in SUBSET Nat, Chain(R, A, Q, B, P)
  PROVE  /\ Chain(R \cup A, {}, Q, B, P)
         /\ \A h \in Q : Least(h, Q) /\ A = {} => Chain(R, {h}, Q \ {h}, B, P)
         /\ \A h \in P : Least(h, P) /\ B = {} => Chain(R, A, Q, {h}, P \ {h})
         /\ \A h \in P : Least(h, P) /\ B = {} => Chain(R, A, Q \cup {h}, {}, P \ {h})
         /\ \A x \in Nat : (\A y \in R \cup A \cup Q \cup B \cup P : y < x) => Chain(R, A, Q, B, P \cup {x})
         /\ \A x \in Nat : (\A y \in R \cup A \cup Q \cup B \cup P : y < x) /\ B = {} /\ P = {}
              => Chain(R, A, Q \cup {x}, B, P)
<1> USE DEF Chain, Precede, Least
<1>1. Chain(R \cup A, {}, Q, B, P)
  OBVIOUS
<1>2. \A h \in Q : Least(h, Q) /\ A = {} => Chain(R, {h}, Q \ {h}, B, P)
  OBVIOUS
<1>3. \A h \in P : Least(h, P) /\ B = {} => Chain(R, A, Q, {h}, P \ {h})
  OBVIOUS
<1>4. \A h \in P : Least(h, P) /\ B = {} => Chain(R, A, Q \cup {h}, {}, P \ {h})
  OBVIOUS
<1>5. \A x \in Nat : (\A y \in R \cup A \cup Q \cup B \cup P : y < x) => Chain(R, A, Q, B, P \cup {x})
  OBVIOUS
<1>6. \A x \in Nat : (\A y \in R \cup A \cup Q \cup B \cup P : y < x) /\ B = {} /\ P = {}
              => Chain(R, A, Q \cup {x}, B, P)
  OBVIOUS
<1> QED
  BY <1>1, <1>2, <1>3, <1>4, <1>5, <1>6

(* Frames that leave change nothing for the others. *)
LEMMA ChainSubsets ==
  ASSUME NEW R, NEW A, NEW Q, NEW B, NEW P, Chain(R, A, Q, B, P),
         NEW A2 \in SUBSET A, NEW Q2 \in SUBSET Q, NEW B2 \in SUBSET B, NEW P2 \in SUBSET P
  PROVE  Chain(R, A2, Q2, B2, P2)
BY DEF Chain, Precede

(* The stages of the module are the sets of the chain. *)
LEMMA StagesAreChained ==
  /\ Held = Hand(rframe) \cup Elements(render) \cup Hand(vframe) \cup Elements(pacing)
  /\ InOrder <=> /\ Increasing(rendered) /\ Increasing(render) /\ Increasing(pacing)
                 /\ Chain(Elements(rendered), Hand(rframe), Elements(render), Hand(vframe), Elements(pacing))
<1> DEFINE R == Elements(rendered)  A == Hand(rframe)  Q == Elements(render)  B == Hand(vframe)  P == Elements(pacing)
<1>1. /\ Stages[1] = R /\ Stages[2] = A /\ Stages[3] = Q /\ Stages[4] = B /\ Stages[5] = P
  BY DEF Stages, Hand
<1>2. 1 .. 5 = {1, 2, 3, 4, 5} /\ 2 .. 5 = {2, 3, 4, 5}
  OBVIOUS
<1>3. Held = A \cup Q \cup B \cup P
  BY <1>1, <1>2 DEF Held
<1>4. (\A i, j \in 1 .. 5 : i < j => Precede(Stages[i], Stages[j])) <=> Chain(R, A, Q, B, P)
  <2> HIDE DEF R, A, Q, B, P
  <2> QED
    BY <1>1, <1>2 DEF Chain
<1> QED
  BY <1>3, <1>4 DEF InOrder

-----------------------------------------------------------------------------
(* Where frames are, as sets: in their places, the submitted ones only, and *)
(* each freed once it is not held.                                          *)
Accounts(H, fr, n) == \A f \in Frames : fr[f] = IF f <= n /\ f \notin H THEN 1 ELSE 0

Placed(R, A, Q, B, P, fr, n) ==
  /\ Chain(R, A, Q, B, P)
  /\ \A x \in R \cup A \cup Q \cup B \cup P : x \in Frames /\ x <= n
  /\ Accounts(A \cup Q \cup B \cup P, fr, n)

(* Freeing a frame that is held, or taking a new one, keeps the accounts. *)
LEMMA AccountsChange ==
  ASSUME NEW H \in SUBSET Frames, NEW fr \in [Frames -> Nat], NEW n \in Nat, Accounts(H, fr, n)
  PROVE  /\ \A h \in H : h <= n => Accounts(H \ {h}, [fr EXCEPT ![h] = @ + 1], n)
         /\ Accounts(H \cup {n + 1}, fr, n + 1)
<1>1. Frames \subseteq Nat
  BY PacerAssumption DEF Frames
<1>2. ASSUME NEW h \in H, h <= n PROVE Accounts(H \ {h}, [fr EXCEPT ![h] = @ + 1], n)
  BY <1>2 DEF Accounts
<1>3. Accounts(H \cup {n + 1}, fr, n + 1)
  BY <1>1 DEF Accounts
<1> QED
  BY <1>2, <1>3

(* A frame that leaves is freed. *)
LEMMA PlacedDrops ==
  ASSUME NEW R, NEW A, NEW Q, NEW B, NEW P, NEW fr \in [Frames -> Nat], NEW n \in Nat,
         Placed(R, A, Q, B, P, fr, n)
  PROVE  /\ \A h \in A : A = {h} => /\ Placed(R, {}, Q, B, P, [fr EXCEPT ![h] = @ + 1], n)
                                    /\ Placed(R \cup {h}, {}, Q, B, P, [fr EXCEPT ![h] = @ + 1], n)
         /\ \A h \in Q : Placed(R, A, Q \ {h}, B, P, [fr EXCEPT ![h] = @ + 1], n)
         /\ \A h \in B : B = {h} => Placed(R, A, Q, {}, P, [fr EXCEPT ![h] = @ + 1], n)
         /\ \A h \in P : Placed(R, A, Q, B, P \ {h}, [fr EXCEPT ![h] = @ + 1], n)
<1> DEFINE H == A \cup Q \cup B \cup P
<1>1. Chain(R, A, Q, B, P) /\ (\A x \in R \cup H : x \in Frames /\ x <= n) /\ Accounts(H, fr, n)
  BY DEF Placed
<1>2. R \in SUBSET Nat /\ A \in SUBSET Nat /\ Q \in SUBSET Nat /\ B \in SUBSET Nat /\ P \in SUBSET Nat
  BY <1>1, PacerAssumption DEF Frames
<1>3. \A h \in H : Accounts(H \ {h}, [fr EXCEPT ![h] = @ + 1], n)
  BY <1>1, AccountsChange
<1>4. \A x, y \in Nat : x < y => x # y
  OBVIOUS
<1>5. /\ A \cap (Q \cup B \cup P) = {} /\ Q \cap (A \cup B \cup P) = {}
      /\ B \cap (A \cup Q \cup P) = {} /\ P \cap (A \cup Q \cup B) = {}
  BY <1>1, <1>2, <1>4 DEF Chain, Precede
<1>6. ASSUME NEW h \in A, A = {h}
      PROVE  /\ Placed(R, {}, Q, B, P, [fr EXCEPT ![h] = @ + 1], n)
             /\ Placed(R \cup {h}, {}, Q, B, P, [fr EXCEPT ![h] = @ + 1], n)
  <2>1. H \ {h} = {} \cup Q \cup B \cup P
    BY <1>5, <1>6
  <2>2. Chain(R, {}, Q, B, P) /\ Chain(R \cup A, {}, Q, B, P)
    BY <1>1, <1>2, ChainMoves, ChainSubsets
  <2> QED
    BY <1>1, <1>3, <1>6, <2>1, <2>2 DEF Placed
<1>7. ASSUME NEW h \in Q PROVE Placed(R, A, Q \ {h}, B, P, [fr EXCEPT ![h] = @ + 1], n)
  <2>1. H \ {h} = A \cup (Q \ {h}) \cup B \cup P
    BY <1>5
  <2>2. Chain(R, A, Q \ {h}, B, P)
    BY <1>1, ChainSubsets
  <2> QED
    BY <1>1, <1>3, <2>1, <2>2 DEF Placed
<1>8. ASSUME NEW h \in B, B = {h} PROVE Placed(R, A, Q, {}, P, [fr EXCEPT ![h] = @ + 1], n)
  <2>1. H \ {h} = A \cup Q \cup {} \cup P
    BY <1>5, <1>8
  <2>2. Chain(R, A, Q, {}, P)
    BY <1>1, ChainSubsets
  <2> QED
    BY <1>1, <1>3, <2>1, <2>2 DEF Placed
<1>9. ASSUME NEW h \in P PROVE Placed(R, A, Q, B, P \ {h}, [fr EXCEPT ![h] = @ + 1], n)
  <2>1. H \ {h} = A \cup Q \cup B \cup (P \ {h})
    BY <1>5
  <2>2. Chain(R, A, Q, B, P \ {h})
    BY <1>1, ChainSubsets
  <2> QED
    BY <1>1, <1>3, <2>1, <2>2 DEF Placed
<1> QED
  BY <1>6, <1>7, <1>8, <1>9

(* A frame that moves on stays held; a frame that comes is the last. *)
LEMMA PlacedMoves ==
  ASSUME NEW R, NEW A, NEW Q, NEW B, NEW P, NEW fr \in [Frames -> Nat], NEW n \in Nat,
         Placed(R, A, Q, B, P, fr, n)
  PROVE  /\ \A h \in Q : Least(h, Q) /\ A = {} => Placed(R, {h}, Q \ {h}, B, P, fr, n)
         /\ \A h \in P : Least(h, P) /\ B = {} => /\ Placed(R, A, Q, {h}, P \ {h}, fr, n)
                                               /\ Placed(R, A, Q \cup {h}, {}, P \ {h}, fr, n)
         /\ n < MaxFrames => Placed(R, A, Q, B, P \cup {n + 1}, fr, n + 1)
         /\ n < MaxFrames /\ B = {} /\ P = {} => Placed(R, A, Q \cup {n + 1}, B, P, fr, n + 1)
<1> DEFINE H == A \cup Q \cup B \cup P
<1>1. Chain(R, A, Q, B, P) /\ (\A x \in R \cup H : x \in Frames /\ x <= n) /\ Accounts(H, fr, n)
  BY DEF Placed
<1>2. R \in SUBSET Nat /\ A \in SUBSET Nat /\ Q \in SUBSET Nat /\ B \in SUBSET Nat /\ P \in SUBSET Nat
  BY <1>1, PacerAssumption DEF Frames
<1>3. /\ \A h \in Q : Least(h, Q) /\ A = {} => Chain(R, {h}, Q \ {h}, B, P)
      /\ \A h \in P : Least(h, P) /\ B = {} => Chain(R, A, Q, {h}, P \ {h})
      /\ \A h \in P : Least(h, P) /\ B = {} => Chain(R, A, Q \cup {h}, {}, P \ {h})
      /\ \A x \in Nat : (\A y \in R \cup H : y < x) => Chain(R, A, Q, B, P \cup {x})
      /\ \A x \in Nat : (\A y \in R \cup H : y < x) /\ B = {} /\ P = {} => Chain(R, A, Q \cup {x}, B, P)
  BY <1>1, <1>2, ChainMoves
<1>4. ASSUME NEW h \in Q, Least(h, Q), A = {} PROVE Placed(R, {h}, Q \ {h}, B, P, fr, n)
  <2>1. H = {h} \cup (Q \ {h}) \cup B \cup P
    BY <1>4
  <2> QED
    BY <1>1, <1>3, <1>4, <2>1 DEF Placed
<1>5. ASSUME NEW h \in P, Least(h, P), B = {}
      PROVE  Placed(R, A, Q, {h}, P \ {h}, fr, n) /\ Placed(R, A, Q \cup {h}, {}, P \ {h}, fr, n)
  <2>1. H = A \cup Q \cup {h} \cup (P \ {h}) /\ H = A \cup (Q \cup {h}) \cup {} \cup (P \ {h})
    BY <1>5
  <2> QED
    BY <1>1, <1>3, <1>5, <2>1 DEF Placed
<1>6. \A y \in R \cup H : y < n + 1 /\ y <= n + 1
  BY <1>1, <1>2
<1>7. n < MaxFrames => n + 1 \in Frames /\ n + 1 <= n + 1
  BY PacerAssumption DEF Frames
<1>8. Accounts(H \cup {n + 1}, fr, n + 1)
  BY <1>1, AccountsChange
<1>9. ASSUME n < MaxFrames PROVE Placed(R, A, Q, B, P \cup {n + 1}, fr, n + 1)
  <2>1. H \cup {n + 1} = A \cup Q \cup B \cup (P \cup {n + 1})
    OBVIOUS
  <2> QED
    BY <1>1, <1>3, <1>6, <1>7, <1>8, <1>9, <2>1 DEF Placed
<1>10. ASSUME n < MaxFrames, B = {}, P = {} PROVE Placed(R, A, Q \cup {n + 1}, B, P, fr, n + 1)
  <2>1. H \cup {n + 1} = A \cup (Q \cup {n + 1}) \cup B \cup P
    OBVIOUS
  <2>2. Chain(R, A, Q \cup {n + 1}, B, P)
    BY <1>3, <1>6, <1>10
  <2> QED
    BY <1>1, <1>6, <1>7, <1>8, <1>10, <2>1, <2>2, Zenon DEF Placed
<1> QED
  BY <1>4, <1>5, <1>9, <1>10

(* The same of the queues and hands themselves. *)
Arranged(rd, rf, q, vf, p, fr, n) ==
  /\ Increasing(rd) /\ Increasing(q) /\ Increasing(p)
  /\ Placed(Elements(rd), Hand(rf), Elements(q), Hand(vf), Elements(p), fr, n)

FreedFrom(queue, fr) == IF IsFull(queue) THEN [fr EXCEPT ![Head(queue)] = @ + 1] ELSE fr

(* A hand holds one frame, or none. *)
LEMMA Hands ==
  /\ Hand(NoFrame) = {}
  /\ \A f \in Frames : Hand(f) = {f} /\ f # NoFrame
BY PacerAssumption DEF Hand, NoFrame, Frames

(* The renderer takes a frame, renders it or drops it. *)
LEMMA RendererArranges ==
  ASSUME NEW rd \in Seq(Frames), NEW rf \in Frames \cup {NoFrame}, NEW q \in Seq(Frames),
         NEW vf \in Frames \cup {NoFrame}, NEW p \in Seq(Frames),
         NEW fr \in [Frames -> Nat], NEW n \in Nat, Arranged(rd, rf, q, vf, p, fr, n)
  PROVE  /\ q # <<>> /\ rf = NoFrame => Arranged(rd, Head(q), Tail(q), vf, p, fr, n)
         /\ rf # NoFrame => /\ Arranged(rd, NoFrame, q, vf, p, [fr EXCEPT ![rf] = @ + 1], n)
                           /\ Arranged(Append(rd, rf), NoFrame, q, vf, p, [fr EXCEPT ![rf] = @ + 1], n)
<1> DEFINE R == Elements(rd)  A == Hand(rf)  Q == Elements(q)  B == Hand(vf)  P == Elements(p)
<1>1. Increasing(rd) /\ Increasing(q) /\ Increasing(p) /\ Placed(R, A, Q, B, P, fr, n)
  BY DEF Arranged
<1>2. ASSUME q # <<>>, rf = NoFrame PROVE Arranged(rd, Head(q), Tail(q), vf, p, fr, n)
  <2>1. /\ Head(q) \in Frames /\ Head(q) \in Q /\ Increasing(Tail(q)) /\ Elements(Tail(q)) = Q \ {Head(q)}
        /\ Least(Head(q), Q)
    BY <1>1, <1>2, TailProperties DEF Least
  <2>2. A = {} /\ Hand(Head(q)) = {Head(q)}
    BY <1>2, <2>1, Hands
  <2>3. Placed(R, {Head(q)}, Q \ {Head(q)}, B, P, fr, n)
    BY <1>1, <2>1, <2>2, PlacedMoves
  <2> QED
    BY <1>1, <2>1, <2>2, <2>3 DEF Arranged
<1>3. ASSUME rf # NoFrame
      PROVE  /\ Arranged(rd, NoFrame, q, vf, p, [fr EXCEPT ![rf] = @ + 1], n)
             /\ Arranged(Append(rd, rf), NoFrame, q, vf, p, [fr EXCEPT ![rf] = @ + 1], n)
  <2>1. rf \in Frames /\ A = {rf} /\ Hand(NoFrame) = {}
    BY <1>3, Hands
  <2>2. /\ Placed(R, {}, Q, B, P, [fr EXCEPT ![rf] = @ + 1], n)
        /\ Placed(R \cup {rf}, {}, Q, B, P, [fr EXCEPT ![rf] = @ + 1], n)
    BY <1>1, <2>1, PlacedDrops
  <2>3. \A x \in R : x < rf
    BY <1>1, <2>1 DEF Placed, Chain, Precede
  <2>4. Increasing(Append(rd, rf)) /\ Elements(Append(rd, rf)) = R \cup {rf}
    BY <1>1, <2>1, <2>3, AppendedProperties
  <2> QED
    BY <1>1, <2>1, <2>2, <2>4 DEF Arranged
<1> QED
  BY <1>2, <1>3

(* The V-sync thread drops a frame, takes one, or moves one on. *)
LEMMA VsyncArranges ==
  ASSUME NEW rd \in Seq(Frames), NEW rf \in Frames \cup {NoFrame}, NEW q \in Seq(Frames),
         NEW vf \in Frames \cup {NoFrame}, NEW p \in Seq(Frames),
         NEW fr \in [Frames -> Nat], NEW n \in Nat, Arranged(rd, rf, q, vf, p, fr, n)
  PROVE  /\ vf # NoFrame => Arranged(rd, rf, q, NoFrame, p, [fr EXCEPT ![vf] = @ + 1], n)
         /\ p # <<>> /\ vf = NoFrame =>
              /\ Arranged(rd, rf, q, Head(p), Tail(p), fr, n)
              /\ Arranged(rd, rf, Enqueued(q, Head(p)), NoFrame, Tail(p), FreedFrom(q, fr), n)
<1> DEFINE R == Elements(rd)  A == Hand(rf)  Q == Elements(q)  B == Hand(vf)  P == Elements(p)
<1>1. Increasing(rd) /\ Increasing(q) /\ Increasing(p) /\ Placed(R, A, Q, B, P, fr, n)
  BY DEF Arranged
<1>2. ASSUME vf # NoFrame PROVE Arranged(rd, rf, q, NoFrame, p, [fr EXCEPT ![vf] = @ + 1], n)
  <2>1. vf \in Frames /\ B = {vf} /\ Hand(NoFrame) = {}
    BY <1>2, Hands
  <2>2. Placed(R, A, Q, {}, P, [fr EXCEPT ![vf] = @ + 1], n)
    BY <1>1, <2>1, PlacedDrops
  <2> QED
    BY <1>1, <2>1, <2>2 DEF Arranged
<1>3. ASSUME p # <<>>, vf = NoFrame
      PROVE  /\ Arranged(rd, rf, q, Head(p), Tail(p), fr, n)
             /\ Arranged(rd, rf, Enqueued(q, Head(p)), NoFrame, Tail(p), FreedFrom(q, fr), n)
  <2> DEFINE h == Head(p)  Q2 == IF IsFull(q) THEN Q \ {Head(q)} ELSE Q
  <2>1. /\ h \in Frames /\ h \in P /\ Increasing(Tail(p)) /\ Elements(Tail(p)) = P \ {h}
        /\ Least(h, P)
    BY <1>1, <1>3, TailProperties DEF Least
  <2>2. B = {} /\ Hand(h) = {h} /\ Hand(NoFrame) = {}
    BY <1>3, <2>1, Hands
  <2>3. Placed(R, A, Q, {h}, P \ {h}, fr, n)
    BY <1>1, <2>1, <2>2, PlacedMoves
  <2>4. \A x \in Q : x < h
    BY <1>1, <2>1 DEF Placed, Chain, Precede
  <2>5. /\ IsFull(q) => Head(q) \in Frames /\ Head(q) \in Q
        /\ Increasing(Enqueued(q, h)) /\ Elements(Enqueued(q, h)) = Q2 \cup {h}
    BY <1>1, <2>1, <2>4, EnqueuedProperties
  <2>6. Placed(R, A, Q2, B, P, FreedFrom(q, fr), n)
    BY <1>1, <2>5, PlacedDrops DEF FreedFrom
  <2>7. FreedFrom(q, fr) \in [Frames -> Nat]
    BY FreedType DEF FreedFrom
  <2>8. Placed(R, A, Q2 \cup {h}, {}, P \ {h}, FreedFrom(q, fr), n)
    <3> HIDE DEF Q2
    <3> QED
      BY <2>1, <2>2, <2>6, <2>7, PlacedMoves
  <2> QED
    BY <1>1, <2>1, <2>2, <2>3, <2>5, <2>8 DEF Arranged
<1> QED
  BY <1>2, <1>3

(* The decoder thread submits a frame. *)
LEMMA DecoderArranges ==
  ASSUME NEW rd \in Seq(Frames), NEW rf \in Frames \cup {NoFrame}, NEW q \in Seq(Frames),
         NEW vf \in Frames \cup {NoFrame}, NEW p \in Seq(Frames),
         NEW fr \in [Frames -> Nat], NEW n \in Nat, Arranged(rd, rf, q, vf, p, fr, n), n < MaxFrames
  PROVE  /\ Arranged(rd, rf, q, vf, Enqueued(p, n + 1), FreedFrom(p, fr), n + 1)
         /\ p = <<>> /\ vf = NoFrame =>
              Arranged(rd, rf, Enqueued(q, n + 1), vf, p, FreedFrom(q, fr), n + 1)
<1> DEFINE R == Elements(rd)  A == Hand(rf)  Q == Elements(q)  B == Hand(vf)  P == Elements(p)
<1>1. Increasing(rd) /\ Increasing(q) /\ Increasing(p) /\ Placed(R, A, Q, B, P, fr, n)
  BY DEF Arranged
<1>2. n + 1 \in Frames
  BY PacerAssumption DEF Frames
<1>3. (\A x \in P : x < n + 1) /\ (\A x \in Q : x < n + 1)
  BY <1>1, PacerAssumption DEF Placed, Frames
<1>4. FreedFrom(p, fr) \in [Frames -> Nat] /\ FreedFrom(q, fr) \in [Frames -> Nat]
  BY FreedType DEF FreedFrom
<1>5. Arranged(rd, rf, q, vf, Enqueued(p, n + 1), FreedFrom(p, fr), n + 1)
  <2> DEFINE P2 == IF IsFull(p) THEN P \ {Head(p)} ELSE P
  <2>1. /\ IsFull(p) => Head(p) \in P
        /\ Increasing(Enqueued(p, n + 1)) /\ Elements(Enqueued(p, n + 1)) = P2 \cup {n + 1}
    BY <1>1, <1>2, <1>3, EnqueuedProperties
  <2>2. Placed(R, A, Q, B, P2, FreedFrom(p, fr), n)
    BY <1>1, <2>1, PlacedDrops DEF FreedFrom
  <2>3. Placed(R, A, Q, B, P2 \cup {n + 1}, FreedFrom(p, fr), n + 1)
    <3> HIDE DEF P2
    <3> QED
      BY <1>4, <2>2, PlacedMoves
  <2> QED
    BY <1>1, <2>1, <2>3 DEF Arranged
<1>6. ASSUME p = <<>>, vf = NoFrame
      PROVE  Arranged(rd, rf, Enqueued(q, n + 1), vf, p, FreedFrom(q, fr), n + 1)
  <2> DEFINE Q2 == IF IsFull(q) THEN Q \ {Head(q)} ELSE Q
  <2>1. /\ IsFull(q) => Head(q) \in Q
        /\ Increasing(Enqueued(q, n + 1)) /\ Elements(Enqueued(q, n + 1)) = Q2 \cup {n + 1}
    BY <1>1, <1>2, <1>3, EnqueuedProperties
  <2>2. Placed(R, A, Q2, B, P, FreedFrom(q, fr), n)
    BY <1>1, <2>1, PlacedDrops DEF FreedFrom
  <2>3. B = {} /\ P = {}
    BY <1>6, Hands, FramesAreNumbers
  <2>4. Placed(R, A, Q2 \cup {n + 1}, B, P, FreedFrom(q, fr), n + 1)
    <3> HIDE DEF Q2
    <3> QED
      BY <1>4, <2>2, <2>3, PlacedMoves
  <2> QED
    BY <1>1, <2>1, <2>4 DEF Arranged
<1> QED
  BY <1>5, <1>6

(* The frames of a state are arranged; every step keeps them so. *)
Conserved == Arranged(rendered, rframe, render, vframe, pacing, freed, submitted)

(* What is needed of the types. *)
LEMMA StateIsTyped ==
  ASSUME Shape
  PROVE  /\ rendered \in Seq(Frames) /\ render \in Seq(Frames) /\ pacing \in Seq(Frames)
         /\ rframe \in Frames \cup {NoFrame} /\ vframe \in Frames \cup {NoFrame}
         /\ freed \in [Frames -> Nat] /\ submitted \in Nat /\ submitted \in 0 .. MaxFrames
         /\ (target \in Nat /\ rtarget \in Nat)
         /\ \A n \in Nat : (Len(pacing) > n => pacing # <<>>) /\ (Len(render) > n => render # <<>>)
         /\ vframe # NoFrame <=> vsync = "drop"
         /\ rframe # NoFrame <=> renderer \in {"render", "drop"}
<1>1. submitted \in Nat /\ submitted \in 0 .. MaxFrames /\ (target \in Nat /\ rtarget \in Nat)
  BY PacerAssumption DEF Shape, CountsOK
<1>2. \A n \in Nat : (Len(pacing) > n => pacing # <<>>) /\ (Len(render) > n => render # <<>>)
  BY QueueFacts DEF Shape
<1> QED
  BY <1>1, <1>2 DEF Shape, QueuesOK, FreedOK, HandsOK

(* Catching up on the pacing queue keeps the frames arranged. *)
LEMMA PacingArranges ==
  ASSUME Shape, NEW fr \in [Frames -> Nat], NEW limit \in Nat,
         Arranged(rendered, rframe, render, NoFrame, pacing, fr, submitted),
         CatchUpPacing(limit, fr), UNCHANGED <<rendered, rframe, submitted>>
  PROVE  Conserved'
<1>1. pacing # <<>> => /\ Arranged(rendered, rframe, render, Head(pacing), Tail(pacing), fr, submitted)
                       /\ Arranged(rendered, rframe, Enqueued(render, Head(pacing)), NoFrame, Tail(pacing),
                                   FreedFrom(render, fr), submitted)
  BY StateIsTyped, VsyncArranges
<1>2. Len(pacing) > limit => pacing # <<>>
  BY StateIsTyped
<1> QED
  BY <1>1, <1>2 DEF CatchUpPacing, MoveFirst, Conserved, FreedFrom

(* Catching up on the rendering queue keeps the frames arranged. *)
LEMMA RenderingArranges ==
  ASSUME Shape, NEW limit \in Nat, rendered' \in Seq(Frames), freed' \in [Frames -> Nat],
         Arranged(rendered', NoFrame, render, vframe, pacing, freed', submitted),
         CatchUpRendering(limit), UNCHANGED <<pacing, vframe, submitted>>
  PROVE  Conserved'
<1>1. render # <<>> => Arranged(rendered', Head(render), Tail(render), vframe, pacing, freed', submitted)
  BY StateIsTyped, RendererArranges
<1>2. Len(render) > limit => render # <<>>
  BY StateIsTyped
<1> QED
  BY <1>1, <1>2 DEF CatchUpRendering, Conserved

(* The destructor frees what waits when no thread holds a frame. *)
LEMMA DestructorArranges ==
  ASSUME Shape, Conserved, JoinRenderer, vsync = "exited"
  PROVE  Conserved'
<1>1. rframe = NoFrame /\ vframe = NoFrame
  BY StateIsTyped DEF JoinRenderer
<1>2. /\ render' = <<>> /\ pacing' = <<>>
      /\ freed' = [f \in Frames |-> IF f \in Leftover THEN freed[f] + 1 ELSE freed[f]]
      /\ UNCHANGED <<rendered, rframe, vframe, submitted>>
  BY DEF JoinRenderer, vsyncVars, rendererVars, decoderVars
<1> DEFINE R == Elements(rendered)  Q == Elements(render)  P == Elements(pacing)
<1>3. /\ Increasing(rendered) /\ Chain(R, {}, Q, {}, P) /\ Accounts({} \cup Q \cup {} \cup P, freed, submitted)
      /\ \A x \in R \cup {} \cup Q \cup {} \cup P : x \in Frames /\ x <= submitted
  BY <1>1, Hands DEF Conserved, Arranged, Placed
<1>4. Increasing(<<>>) /\ Elements(<<>>) = {}
  BY EmptyQueue
<1>5. Chain(R, {}, {}, {}, {})
  BY <1>3, ChainSubsets
<1>6. Accounts({}, freed', submitted)
  BY <1>2, <1>3, StateIsTyped DEF Accounts, Leftover
<1>7. Placed(R, {}, {}, {}, {}, freed', submitted)
  BY <1>3, <1>5, <1>6 DEF Placed
<1> QED
  BY <1>1, <1>2, <1>3, <1>4, <1>7, Hands DEF Conserved, Arranged

(* Every step keeps the frames arranged. *)
LEMMA ConservedNext ==
  ASSUME Shape, Conserved, [PacerNext]_pacerVars
  PROVE  Conserved'
<1> USE DEF pacerVars, queueVars, decoderVars, vsyncVars, rendererVars, mainVars, historyVars
<1>1. CASE Submit
  <2>1. submitted' = submitted + 1 /\ submitted < MaxFrames
        /\ UNCHANGED <<rendered, rframe, vframe>>
    BY <1>1 DEF Submit
  <2>2. CASE mode.paced
    <3>1. Arranged(rendered, rframe, render, vframe, Enqueued(pacing, submitted + 1),
                   FreedFrom(pacing, freed), submitted + 1)
      BY <2>1, StateIsTyped, DecoderArranges DEF Conserved
    <3> QED
      BY <1>1, <2>1, <2>2, <3>1 DEF Submit, Conserved, FreedFrom, FreedByEnqueue, Free
  <2>3. CASE ~mode.paced
    <3>1. pacing = <<>> /\ vframe = NoFrame
      BY <2>3, StateIsTyped DEF Shape, RolesOK
    <3>2. Arranged(rendered, rframe, Enqueued(render, submitted + 1), vframe, pacing,
                   FreedFrom(render, freed), submitted + 1)
      BY <2>1, <3>1, StateIsTyped, DecoderArranges DEF Conserved
    <3> QED
      BY <1>1, <2>1, <2>3, <3>2 DEF Submit, Conserved, FreedFrom, FreedByEnqueue, Free
  <2> QED
    BY <2>2, <2>3
<1>2. CASE HandleVsync
  <2>1. vframe = NoFrame /\ target' \in Nat /\ freed \in [Frames -> Nat]
    BY <1>2, StateIsTyped DEF HandleVsync
  <2>2. CatchUpPacing(target', freed) /\ UNCHANGED <<rendered, rframe, submitted>>
    BY <1>2 DEF HandleVsync
  <2> QED
    BY <2>1, <2>2, PacingArranges DEF Conserved
<1>3. CASE DropPaced
  <2>1. vframe # NoFrame
    BY <1>3, StateIsTyped DEF DropPaced
  <2>2. Arranged(rendered, rframe, render, NoFrame, pacing, Free(vframe), submitted)
    BY <2>1, StateIsTyped, VsyncArranges DEF Conserved, Free
  <2>3. CatchUpPacing(target, Free(vframe)) /\ UNCHANGED <<rendered, rframe, submitted>>
    BY <1>3 DEF DropPaced
  <2>4. target \in Nat /\ Free(vframe) \in [Frames -> Nat]
    BY StateIsTyped, FreedType DEF Free
  <2> QED
    BY <2>2, <2>3, <2>4, PacingArranges
<1>4. CASE FrameArrived
  <2>1. vframe = NoFrame
    BY <1>4, StateIsTyped DEF FrameArrived
  <2>2. pacing # <<>> => Arranged(rendered, rframe, Enqueued(render, Head(pacing)), NoFrame, Tail(pacing),
                                  FreedFrom(render, freed), submitted)
    BY <2>1, StateIsTyped, VsyncArranges DEF Conserved
  <2> QED
    BY <1>4, <2>1, <2>2 DEF FrameArrived, MoveFirst, Conserved, FreedFrom, FreedByEnqueue, Free
<1>5. CASE RenderLoop \/ FrameReady
  <2>1. rframe = NoFrame
    BY <1>5, StateIsTyped DEF RenderLoop, FrameReady
  <2>2. render # <<>> => Arranged(rendered, Head(render), Tail(render), vframe, pacing, freed, submitted)
    BY <2>1, StateIsTyped, RendererArranges DEF Conserved
  <2> QED
    BY <1>5, <2>2 DEF RenderLoop, FrameReady, TakeFirst, Conserved
<1>6. CASE RenderFrame
  <2>1. rframe \in Frames /\ rframe # NoFrame
    BY <1>6, StateIsTyped DEF RenderFrame
  <2>2. /\ rendered' = Append(rendered, rframe) /\ freed' = Free(rframe)
        /\ CatchUpRendering(rtarget') /\ UNCHANGED <<pacing, vframe, submitted>>
        /\ rtarget' \in Nat
    BY <1>6 DEF RenderFrame, RenderTarget
  <2>3. Arranged(Append(rendered, rframe), NoFrame, render, vframe, pacing, Free(rframe), submitted)
    BY <2>1, StateIsTyped, RendererArranges DEF Conserved, Free
  <2>4. rendered' \in Seq(Frames) /\ freed' \in [Frames -> Nat]
    BY <2>1, <2>2, StateIsTyped, AppendedProperties, FreedType DEF Free
  <2> QED
    BY <2>2, <2>3, <2>4, RenderingArranges
<1>7. CASE DropRendering
  <2>1. rframe # NoFrame
    BY <1>7, StateIsTyped DEF DropRendering
  <2>2. /\ rendered' = rendered /\ freed' = Free(rframe)
        /\ CatchUpRendering(rtarget) /\ UNCHANGED <<pacing, vframe, submitted>>
    BY <1>7 DEF DropRendering
  <2>3. Arranged(rendered, NoFrame, render, vframe, pacing, Free(rframe), submitted)
    BY <2>1, StateIsTyped, RendererArranges DEF Conserved, Free
  <2>4. rendered' \in Seq(Frames) /\ freed' \in [Frames -> Nat] /\ rtarget \in Nat
    BY <2>2, StateIsTyped, FreedType DEF Free
  <2> QED
    BY <2>2, <2>3, <2>4, RenderingArranges
<1>8. CASE JoinRenderer
  <2>1. main = "join renderer"
    BY <1>8 DEF JoinRenderer
  <2>2. vsync = "exited"
    BY <2>1 DEF Shape, RolesOK
  <2> QED
    BY <1>8, <2>2, DestructorArranges
<1>9. CASE AnnounceSubmitted \/ VsyncReturns \/ VsyncTimeout \/ AnnouncePaced \/ Sleep \/ Stop
           \/ WakeVsync \/ JoinVsync
  BY <1>9 DEF AnnounceSubmitted, VsyncReturns, VsyncTimeout, AnnouncePaced, Sleep, Stop, WakeVsync,
     JoinVsync, Conserved
<1>10. CASE UNCHANGED pacerVars
  BY <1>10 DEF Conserved
<1> QED
  BY <1>1, <1>2, <1>3, <1>4, <1>5, <1>6, <1>7, <1>8, <1>9, <1>10 DEF PacerNext, Decoding, Pacing,
     Rendering, Stopping

(* They are arranged at the start. *)
LEMMA ConservedInit == PacerInit => Conserved
<1> SUFFICES ASSUME PacerInit PROVE Conserved
  OBVIOUS
<1>2. Increasing(<<>>) /\ Elements(<<>>) = {}
  BY EmptyQueue
<1>3. Accounts({}, freed, 0)
  BY PacerAssumption DEF PacerInit, Accounts, Frames
<1>4. Placed({}, {}, {}, {}, {}, freed, 0)
  BY <1>3 DEF Placed, Chain, Precede
<1>5. /\ rendered = <<>> /\ render = <<>> /\ pacing = <<>>
      /\ rframe = NoFrame /\ vframe = NoFrame /\ submitted = 0
  BY DEF PacerInit
<1> QED
  BY <1>2, <1>4, <1>5, Hands DEF Conserved, Arranged

(* Frames are shown in the order of submission; each is held in one place  *)
(* or was freed, once; and the destructor leaves none (pacer.cpp:70, 234,  *)
(* 380).                                                                   *)
THEOREM FramesAreFreedOnce == PacerSpec => []FramesConserved
<1>1. Shape /\ Conserved => FramesConserved
  <2> SUFFICES ASSUME Shape, Conserved PROVE FramesConserved
    OBVIOUS
  <2>1. InOrder /\ Held = Hand(rframe) \cup Elements(render) \cup Hand(vframe) \cup Elements(pacing)
    BY StagesAreChained DEF Conserved, Arranged, Placed
  <2>2. \A f \in Frames : freed[f] = IF f <= submitted /\ f \notin Held THEN 1 ELSE 0
    BY <2>1 DEF Conserved, Arranged, Placed, Accounts
  <2>3. ASSUME main = "done" PROVE Held = {}
    <3>1. render = <<>> /\ pacing = <<>> /\ vsync = "exited" /\ renderer \in {"exited", "idle"}
      BY <2>3 DEF Shape, RolesOK
    <3>2. rframe = NoFrame /\ vframe = NoFrame
      BY <3>1, StateIsTyped
    <3>3. Elements(<<>>) = {}
      BY EmptySeq, FramesAreNumbers
    <3> QED
      BY <2>1, <3>1, <3>2, <3>3, Hands
  <2> QED
    BY <2>1, <2>2, <2>3 DEF FramesConserved
<1>2. Shape /\ Conserved /\ [PacerNext]_pacerVars => Conserved'
  BY ConservedNext
<1> QED
  BY <1>1, <1>2, ConservedInit, ShapeAlways, PTL DEF PacerSpec

-------------------------------------------------------------------------------
(* The values of the parts of the client. *)
Known    == MachineStates \cup {"none"}
Anybody  == Users \cup {Nobody}
Tasks    == [kind : {"add", "pair"}, attempt : Nat]
Sessions == [st : {"none", "open", "finished"}, attempt : Nat, host : Nat,
             cancelled : BOOLEAN]
Kinds    == {"status", "post", "connection", "login", "other", "upload"}
Asks     == [kind : Kinds, id : Nat, attempt : Nat, user : Anybody, account : Nat,
             answer : Known]
Cleanups == [st : {"done", "waiting", "sent", "served"}, attempt : Nat, user : Anybody,
             account : Nat]
Clients ==
  [active : BOOLEAN, attempt : Nat, joinRequested : BOOLEAN, connectionRequested : BOOLEAN,
   cancelQueued : BOOLEAN, status : Known, waitingForApps : BOOLEAN, computer : Nat,
   poll : BOOLEAN, deadline : BOOLEAN, drive : BOOLEAN, session : Sessions,
   tasks : SUBSET Tasks, loggedIn : BOOLEAN, user : Anybody, account : Nat,
   refreshing : BOOLEAN, busy : BOOLEAN, requests : SUBSET Asks, join : Nat, pin : Nat,
   cleanup : Cleanups]

(* A stream that is open and not cancelled is the one of the attempt in *)
(* progress.                                                            *)
Streams(c) ==
  c.session.st = "open" /\ ~c.session.cancelled
    => c.active /\ c.session.attempt = c.attempt

(* The pairing window and the request of the connection data are those of the *)
(* attempt in progress.                                                       *)
Pending(c) ==
  /\ c.pin # 0 \/ ConnectionBusy(c) => c.active /\ c.connectionRequested
  /\ c.pin \in {0, c.attempt}

(* The streaming session, the poll and the deadline of an attempt, and the *)
(* computer it was given.                                                  *)
Parts(c) ==
  LET s == c.session IN
  /\ s.st # "none" => s.host = s.attempt /\ ~c.poll /\ ~c.deadline
  /\ s.st # "none" /\ c.active => c.connectionRequested
  /\ c.poll \/ c.deadline => c.active
  /\ c.deadline => c.connectionRequested
  /\ c.computer <= c.attempt
  /\ c.active /\ c.waitingForApps => c.connectionRequested /\ c.computer = c.attempt

(* The tasks of other threads know the number of their attempt. *)
Workers(c) ==
  \A t \in c.tasks :
    /\ t.attempt \in 1 .. c.attempt
    /\ c.active /\ t.attempt = c.attempt =>
         c.connectionRequested /\ (t.kind = "pair" => c.computer = c.attempt)

(* Whom an attempt, a session of the launcher and a cleanup are for. *)
Roles(c) ==
  /\ c.active => ~c.cancelQueued /\ c.attempt > 0 /\ c.user # Nobody
  /\ c.loggedIn \/ c.refreshing => c.user # Nobody
  /\ c.cancelQueued <=> c.cleanup.st # "done"
  /\ c.cancelQueued =>
       c.cleanup.attempt \in 1 .. c.attempt /\ c.cleanup.user # Nobody

IsPost(r)   == r.kind = "post"
IsOwn(c, r) == IsPost(r) /\ c.active /\ r.attempt = c.attempt

(* Whom the requests on their way speak for: each attempt has one join, and *)
(* the last one is that of the attempt that has joined.                     *)
Requests(c) ==
  /\ IsFiniteSet(c.requests) /\ c.join <= c.attempt
  /\ \A r \in c.requests :
       /\ r.attempt <= c.attempt
       /\ r.kind \in {"status", "login"} => r.account = c.account /\ r.user # Nobody
       /\ r.kind = "status" => r.user = c.user
       /\ IsPost(r) => r.attempt > 0 /\ r.user # Nobody /\ r.answer # "idle"
       /\ IsOwn(c, r) => /\ r.user = c.user /\ r.account = c.account
                         /\ c.joinRequested /\ c.join = c.attempt
  /\ \A p, r \in c.requests : IsPost(p) /\ IsPost(r) /\ p.attempt = r.attempt => p = r

(* A join goes on after its attempt only while a cleanup waits for it, unless *)
(* its attempt is excused.                                                    *)
Waits(c, r) ==
  c.cleanup.st = "waiting" /\ r.attempt = c.cleanup.attempt /\ r.user = c.cleanup.user
    /\ c.join = r.attempt
Joins(c, x) ==
  \A r \in c.requests : IsPost(r) =>
    r.attempt \in x \/ Waits(c, r) \/ (IsOwn(c, r) /\ ~c.connectionRequested)

(* An attempt that waits for its entry, and is not excused, has one request  *)
(* on its way that the flag keeps others from, and no join but its own.      *)
Asking(c)   == c.active /\ c.joinRequested /\ ~c.connectionRequested
Alone(c, r) == c.busy /\ Exclusive(c) = {r} /\ (IsPost(r) => r.attempt = c.attempt)
Apart(c, x) == Asking(c) /\ c.attempt \notin x => \A r \in Exclusive(c) : Alone(c, r)

(* An attempt knows of its entry: it was told by a status, or by the answer *)
(* of the join that is not yet processed.                                   *)
Queued(c) ==
  IF \E r \in c.requests : IsOwn(c, r)
  THEN \E r \in c.requests : IsOwn(c, r) /\ r.answer = "queued"
  ELSE /\ c.status = "queued"
       /\ \A r \in c.requests : r.kind = "status" => r.answer \in {"none", "queued"}

(* The attempt in progress waits in entry a of account u. *)
Owns(c, a, u) == Asking(c) /\ a = c.attempt /\ u = c.user /\ Queued(c)

(* A cleanup is bound to remove it. *)
Removes(c, a, u) ==
  c.cancelQueued /\ a = c.cleanup.attempt /\ u = c.cleanup.user /\ c.cleanup.st # "served"

(* Every entry of an attempt has somebody to remove it, or its attempt is *)
(* excused.                                                               *)
Entries(c, o, x) ==
  \A u \in Users : o[u] > 0 => o[u] \in x \/ Owns(c, o[u], u) \/ Removes(c, o[u], u)

(* The entry of the web site is not the one an attempt finds or a cleanup *)
(* removes.                                                               *)
Sites(c, o) ==
  /\ c.active /\ (c.status = "idle" \/ c.joinRequested) => o[c.user] # Site
  /\ \A r \in c.requests : r.kind = "status" /\ r.answer = "idle" => o[r.user] # Site
  /\ c.cancelQueued => o[c.cleanup.user] # Site

(* The number of an attempt has its bound: a start leads to two attempts at *)
(* most.                                                                    *)
Bounded(c, n) == c.attempt + (IF c.active THEN 1 ELSE 0) <= n

(* The invariant of a client.  It is in parts: a cancellation restores those *)
(* of Good, and many events leave those of Coherent alone.                      *)
Coherent(c, o, x) ==
  Roles(c) /\ Requests(c) /\ Joins(c, x) /\ Apart(c, x) /\ Entries(c, o, x) /\ Sites(c, o)
Sound(c, o, x, n) ==
  c \in Clients /\ Bounded(c, n) /\ Parts(c) /\ Workers(c) /\ Coherent(c, o, x)
Good(c, o, x, n) == Sound(c, o, x, n) /\ Streams(c) /\ Pending(c)

(* What is excused, and what is when an event has brought requests together. *)
Excused      == unsure \cup overlapped
Marked(c, x) == IF Overlaps(c) THEN x \cup {c.attempt} ELSE x

(* The invariant of the system. *)
AttemptIsGood == Good(client, owner, Excused, 2 * starts)
Others ==
  /\ machine \in [Users -> MachineStates] /\ owner \in [Users -> Int]
  /\ starts \in 0 .. MaxStarts /\ surprises \in 0 .. MaxSurprises
Machines ==
  \A u \in Users :
    /\ owner[u] >= Site /\ owner[u] <= 2 * starts
    /\ machine[u] = "queued" <=> owner[u] # NoEntry
Lates ==
  \A r \in late : r.user \in Users /\ r.attempt \in unsure /\ r.attempt \in 1 .. 2 * starts
IInv == AttemptIsGood /\ Others /\ Machines /\ Lates

(* A request finds a number of its own: fewer are in use than there are to *)
(* choose from.                                                            *)
LEMMA FreshIdIsNumber ==
  ASSUME NEW c, IsFiniteSet(c.requests), NEW k
  PROVE  FreshId(c, k) \in Nat
<1> DEFINE S == c.requests  n == Cardinality(S)  I == 1 .. n + 1
           Takes(r, i) == r.kind = k /\ r.id = i
           f == [i \in I |-> CHOOSE r \in S : Takes(r, i)]
<1>1. n \in Nat /\ IsFiniteSet(I) /\ Cardinality(I) = n + 1
  <2>1. n \in Nat
    BY FS_CardinalityType
  <2> HIDE DEF n
  <2>2. 1 \in Int /\ n + 1 \in Int /\ ~(1 > n + 1) /\ (n + 1) - 1 + 1 = n + 1
    BY <2>1
  <2> QED
    BY <2>1, <2>2, FS_Interval
<1>2. \E i \in I : \A r \in S : ~Takes(r, i)
  <2> SUFFICES ASSUME \A i \in I : \E r \in S : Takes(r, i) PROVE FALSE
    OBVIOUS
  <2>1. \A i \in I : f[i] \in S /\ Takes(f[i], i)
    OBVIOUS
  <2>2. f \in [I -> S]
    BY <2>1
  <2> HIDE DEF f, I, n
  <2>3. \E i, j \in I : i # j /\ f[i] = f[j]
    BY <1>1, <2>2, FS_PigeonHole DEF n
  <2> QED
    BY <2>1, <2>3
<1>3. FreshId(c, k) = CHOOSE i \in I : \A r \in S : r.kind = k => r.id # i
  BY DEF FreshId
<1> QED
  BY <1>1, <1>2, <1>3

(* The requests that are sent. *)
LEMMA RequestsAreAsks ==
  ASSUME NEW c \in Clients, IsFiniteSet(c.requests), NEW k \in Kinds
  PROVE  LET r == Request(c, k)  j == Join(c)  f == File(c) IN
         /\ r \in Asks /\ r.kind = k /\ r.attempt = 0 /\ r.user = c.user
         /\ r.account = c.account /\ r.answer = "none"
         /\ j \in Asks /\ j.kind = "post" /\ j.attempt = c.attempt /\ j.user = c.user
         /\ j.account = c.account /\ j.answer = "none"
         /\ f \in Asks /\ f.kind = "upload" /\ f.attempt = 0 /\ f.answer = "none"
<1>1. /\ c.user \in Anybody /\ c.account \in Nat /\ c.attempt \in Nat /\ "none" \in Known
      /\ Nobody \in Anybody
  BY DEF Clients, Known, Anybody
<1>2. ASSUME NEW m \in Kinds PROVE Request(c, m) \in Asks /\ Request(c, m).kind = m
  BY <1>1, <1>2, FreshIdIsNumber DEF Request, Asks
<1>3. "post" \in Kinds /\ "upload" \in Kinds
  BY DEF Kinds
<1>4. \A m \in Kinds : /\ Request(c, m).attempt = 0 /\ Request(c, m).user = c.user
                       /\ Request(c, m).account = c.account /\ Request(c, m).answer = "none"
  BY DEF Request
<1>5. Request(c, "post") \in Asks /\ Request(c, "upload") \in Asks
  BY <1>2, <1>3
<1>6. Join(c) \in Asks /\ File(c) \in Asks
  BY <1>1, <1>5 DEF Join, File, Asks
<1>7. /\ Join(c).kind = "post" /\ Join(c).attempt = c.attempt /\ Join(c).user = c.user
      /\ Join(c).account = c.account /\ Join(c).answer = "none"
      /\ File(c).kind = "upload" /\ File(c).attempt = 0 /\ File(c).answer = "none"
  BY <1>2, <1>3, <1>4, <1>5 DEF Join, File, Asks
<1> QED
  BY <1>2, <1>4, <1>6, <1>7

(* A larger excuse excuses more. *)
LEMMA MoreIsExcused ==
  ASSUME NEW c, NEW o, NEW x, NEW y, x \subseteq y, Coherent(c, o, x)
  PROVE  Coherent(c, o, y)
BY DEF Coherent, Joins, Apart, Entries

(* To excuse what an event brought together keeps the invariant. *)
LEMMA MarkedIsGood ==
  ASSUME NEW c, NEW o, NEW x, NEW n, Good(c, o, x, n)
  PROVE  Good(c, o, Marked(c, x), n)
BY MoreIsExcused DEF Good, Sound, Marked

(* Events that leave the requests and the attempt alone. *)
Alike(c, d) ==
  /\ d.active = c.active /\ d.attempt = c.attempt /\ d.joinRequested = c.joinRequested
  /\ d.connectionRequested = c.connectionRequested /\ d.cancelQueued = c.cancelQueued
  /\ d.status = c.status /\ d.user = c.user /\ d.account = c.account /\ d.busy = c.busy
  /\ d.requests = c.requests /\ d.join = c.join /\ d.cleanup = c.cleanup
  /\ d.loggedIn \/ d.refreshing => d.user # Nobody

(* They keep what relates requests, entries and cleanups. *)
LEMMA AlikeIsCoherent ==
  ASSUME NEW c, NEW d, NEW o, NEW x, Coherent(c, o, x), Alike(c, d)
  PROVE  Coherent(d, o, x)
<1>1. Roles(d)
  BY DEF Coherent, Roles, Alike
<1>2. Requests(d) /\ Joins(d, x)
  BY DEF Coherent, Requests, Joins, IsOwn, IsPost, Waits, Alike
<1>3. Apart(d, x)
  BY DEF Coherent, Apart, Asking, Alone, Exclusive, Alike
<1>4. Entries(d, o, x)
  BY DEF Coherent, Entries, Owns, Asking, Queued, IsOwn, Removes, Alike
<1>5. Sites(d, o)
  BY DEF Coherent, Sites, Alike
<1> QED
  BY <1>1, <1>2, <1>3, <1>4, <1>5 DEF Coherent

(* They keep the invariant if they keep the parts of an attempt. *)
LEMMA AlikeIsGood ==
  ASSUME NEW c, NEW d \in Clients, NEW o, NEW x, NEW n, Good(c, o, x, n), Alike(c, d),
         Streams(d), Pending(d), Parts(d), Workers(d)
  PROVE  Good(d, o, x, n)
<1>1. Bounded(d, n)
  BY DEF Good, Sound, Bounded, Alike
<1> QED
  BY <1>1, AlikeIsCoherent DEF Good, Sound

(* Events that change what is on its way alone. *)
Beside(c, d) ==
  /\ d.active = c.active /\ d.attempt = c.attempt /\ d.joinRequested = c.joinRequested
  /\ d.connectionRequested = c.connectionRequested /\ d.cancelQueued = c.cancelQueued
  /\ d.status = c.status /\ d.user = c.user /\ d.account = c.account
  /\ d.join = c.join /\ d.cleanup = c.cleanup /\ d.loggedIn = c.loggedIn
  /\ d.refreshing = c.refreshing /\ d.waitingForApps = c.waitingForApps
  /\ d.computer = c.computer /\ d.poll = c.poll /\ d.deadline = c.deadline
  /\ d.session = c.session /\ d.tasks = c.tasks /\ d.pin = c.pin

(* A change of the requests alone keeps the parts of an attempt. *)
LEMMA BesideIsSound ==
  ASSUME NEW c, NEW d, NEW n, Parts(c), Workers(c), Bounded(c, n), Roles(c), Beside(c, d)
  PROVE  Parts(d) /\ Workers(d) /\ Bounded(d, n) /\ Roles(d) /\ (Streams(c) => Streams(d))
<1>1. Parts(d)
  BY DEF Beside, Parts
<1>2. Workers(d)
  BY DEF Beside, Workers
<1>3. Bounded(d, n) /\ Roles(d)
  BY DEF Beside, Bounded, Roles
<1>4. Streams(c) => Streams(d)
  BY DEF Beside, Streams
<1> QED
  BY <1>1, <1>2, <1>3, <1>4

(* setBusy changes the flag, and schedules a step, alone. *)
LEMMA SetsBusy ==
  ASSUME NEW e \in Clients, NEW b \in BOOLEAN
  PROVE  /\ SetBusy(e, b) \in Clients /\ Beside(e, SetBusy(e, b))
         /\ SetBusy(e, b).busy = b /\ SetBusy(e, b).requests = e.requests
<1>1. (e.drive \/ b # e.busy) \in BOOLEAN
  OBVIOUS
<1>2. SetBusy(e, b) \in Clients
  BY <1>1 DEF SetBusy, Clients
<1>3. /\ SetBusy(e, b).busy = b /\ SetBusy(e, b).requests = e.requests
      /\ Beside(e, SetBusy(e, b))
  BY DEF SetBusy, Clients, Beside
<1> QED
  BY <1>2, <1>3

(* Sending, a reply, and a reply that clears the flag change the requests and *)
(* the flag alone.                                                            *)
LEMMA SendsAndFrees ==
  ASSUME NEW c \in Clients, NEW r \in Asks
  PROVE  /\ Send(c, r) \in Clients /\ Beside(c, Send(c, r))
         /\ Send(c, r).busy = TRUE /\ Send(c, r).requests = c.requests \cup {r}
         /\ Replied(c, r) \in Clients /\ Beside(c, Replied(c, r))
         /\ Replied(c, r).busy = c.busy /\ Replied(c, r).requests = c.requests \ {r}
         /\ Freed(c, r) \in Clients /\ Beside(c, Freed(c, r))
         /\ Freed(c, r).busy = FALSE /\ Freed(c, r).requests = c.requests \ {r}
<1>1. c.requests \cup {r} \in SUBSET Asks /\ c.requests \ {r} \in SUBSET Asks
  BY DEF Clients
<1>2. ASSUME NEW e \in Clients, NEW b \in BOOLEAN
      PROVE  /\ SetBusy(e, b) \in Clients /\ Beside(e, SetBusy(e, b))
             /\ SetBusy(e, b).busy = b /\ SetBusy(e, b).requests = e.requests
  BY SetsBusy
<1>3. ASSUME NEW e \in Clients, NEW s \in SUBSET Asks
      PROVE  /\ [e EXCEPT !.requests = s] \in Clients /\ Beside(e, [e EXCEPT !.requests = s])
             /\ [e EXCEPT !.requests = s].busy = e.busy /\ [e EXCEPT !.requests = s].requests = s
  BY <1>3 DEF Clients, Beside
<1>4. ASSUME NEW e, NEW f, NEW g, Beside(e, f), Beside(f, g) PROVE Beside(e, g)
  BY <1>4 DEF Beside
<1>5. Send(c, r) = [SetBusy(c, TRUE) EXCEPT !.requests = c.requests \cup {r}]
  BY <1>2 DEF Send
<1>6. Replied(c, r) = [c EXCEPT !.requests = c.requests \ {r}]
  BY DEF Replied
<1>7. Freed(c, r) = SetBusy(Replied(c, r), FALSE)
  BY DEF Freed
<1> HIDE DEF SetBusy
<1>8. /\ Send(c, r) \in Clients /\ Beside(c, Send(c, r))
      /\ Send(c, r).busy = TRUE /\ Send(c, r).requests = c.requests \cup {r}
  <2>1. SetBusy(c, TRUE) \in Clients /\ Beside(c, SetBusy(c, TRUE)) /\ SetBusy(c, TRUE).busy = TRUE
    BY <1>2
  <2>2. DEFINE e == SetBusy(c, TRUE)  f == [e EXCEPT !.requests = c.requests \cup {r}]
  <2> HIDE DEF e
  <2>3. /\ f \in Clients /\ Beside(e, f) /\ f.busy = e.busy
        /\ f.requests = c.requests \cup {r}
    BY <1>1, <1>3, <2>1 DEF e
  <2> HIDE DEF f
  <2>4. Beside(c, f) /\ f.busy = TRUE
    BY <1>4, <2>1, <2>3 DEF e
  <2> QED
    BY <1>5, <2>3, <2>4 DEF e, f
<1>9. /\ Replied(c, r) \in Clients /\ Beside(c, Replied(c, r))
      /\ Replied(c, r).busy = c.busy /\ Replied(c, r).requests = c.requests \ {r}
  BY <1>1, <1>3, <1>6
<1>10. /\ Freed(c, r) \in Clients /\ Beside(c, Freed(c, r))
       /\ Freed(c, r).busy = FALSE /\ Freed(c, r).requests = c.requests \ {r}
  <2>1. /\ SetBusy(Replied(c, r), FALSE) \in Clients
        /\ Beside(Replied(c, r), SetBusy(Replied(c, r), FALSE))
        /\ SetBusy(Replied(c, r), FALSE).busy = FALSE
        /\ SetBusy(Replied(c, r), FALSE).requests = Replied(c, r).requests
    BY <1>2, <1>9
  <2> QED
    BY <1>4, <1>7, <1>9, <2>1
<1> QED
  BY <1>8, <1>9, <1>10

(* A request that is sent keeps the invariant, if it may be sent. *)
LEMMA Sends ==
  ASSUME NEW c, NEW o, NEW x, NEW n \in Nat, Good(c, o, x, n), NEW r \in Asks,
         ~IsPost(r), r.attempt = 0, r.answer = "none",
         r.kind \in {"status", "login"}
           => ~c.busy /\ r.account = c.account /\ r.user # Nobody,
         r.kind = "status" => r.user = c.user,
         r.kind = "connection" => c.active /\ c.connectionRequested
  PROVE  Good(Send(c, r), o, x, n)
<1> DEFINE d == Send(c, r)
<1>1. /\ c \in Clients /\ Streams(c) /\ Pending(c) /\ Parts(c) /\ Workers(c)
      /\ Bounded(c, n) /\ Roles(c) /\ Requests(c) /\ Joins(c, x) /\ Apart(c, x)
      /\ Entries(c, o, x) /\ Sites(c, o)
  BY DEF Good, Sound, Coherent
<1>2. /\ d \in Clients /\ Beside(c, d) /\ d.busy = TRUE /\ d.requests = c.requests \cup {r}
  BY <1>1, SendsAndFrees
<1> HIDE DEF d
<1>3. Parts(d) /\ Workers(d) /\ Bounded(d, n) /\ Roles(d) /\ Streams(d)
  BY <1>1, <1>2, BesideIsSound
<1>4. Pending(d)
  BY <1>1, <1>2 DEF Pending, ConnectionBusy, Beside
<1>5. Requests(d)
  <2>1. IsFiniteSet(d.requests)
    BY <1>1, <1>2, FS_AddElement DEF Requests
  <2>2. c.attempt \in Nat
    BY <1>1 DEF Clients
  <2> QED
    BY <1>1, <1>2, <2>1, <2>2 DEF Requests, IsOwn, IsPost, Beside
<1>6. Joins(d, x)
  BY <1>1, <1>2 DEF Joins, IsOwn, IsPost, Waits, Beside
<1>7. Apart(d, x)
  <2> SUFFICES ASSUME Asking(c), c.attempt \notin x PROVE \A a \in Exclusive(d) : Alone(d, a)
    BY <1>2 DEF Apart, Asking, Beside
  <2>1. CASE r.kind \in {"status", "login"}
    <3>1. Exclusive(c) = {}
      BY <1>1, <2>1 DEF Apart, Alone
    <3>2. Exclusive(d) = {r}
      BY <1>2, <2>1, <3>1 DEF Exclusive, Beside
    <3> QED
      BY <1>2, <3>2 DEF Alone
  <2>2. CASE r.kind \notin {"status", "login"}
    <3>1. Exclusive(d) = Exclusive(c)
      BY <1>2, <2>2 DEF Exclusive, Beside, Asking, IsPost
    <3> QED
      BY <1>1, <1>2, <3>1 DEF Apart, Alone, Beside
  <2> QED
    BY <2>1, <2>2
<1>8. Entries(d, o, x)
  BY <1>1, <1>2 DEF Entries, Owns, Asking, Queued, IsOwn, IsPost, Removes, Beside
<1>9. Sites(d, o)
  BY <1>1, <1>2 DEF Sites, Beside
<1> QED
  BY <1>2, <1>3, <1>4, <1>5, <1>6, <1>7, <1>8, <1>9 DEF Good, Sound, Coherent, d

(* The requests of the launcher that have no part in an attempt. *)
LEMMA OthersAreSent ==
  ASSUME NEW c, NEW o, NEW x, NEW n \in Nat, Good(c, o, x, n)
  PROVE  /\ Good(Send(c, Request(c, "other")), o, x, n)
         /\ Good(Send(c, File(c)), o, x, n)
         /\ ~c.busy => \A u \in Users :
              Good(Send(c, [Request(c, "login") EXCEPT !.user = u]), o, x, n)
<1>1. c \in Clients /\ IsFiniteSet(c.requests)
  BY DEF Good, Sound, Coherent, Requests
<1>2. /\ Request(c, "other") \in Asks /\ Request(c, "other").kind = "other"
      /\ Request(c, "other").attempt = 0 /\ Request(c, "other").answer = "none"
      /\ File(c) \in Asks /\ File(c).kind = "upload" /\ File(c).attempt = 0
      /\ File(c).answer = "none"
      /\ Request(c, "login") \in Asks /\ Request(c, "login").kind = "login"
      /\ Request(c, "login").attempt = 0 /\ Request(c, "login").account = c.account
      /\ Request(c, "login").answer = "none"
  BY <1>1, RequestsAreAsks DEF Kinds
<1>3. Good(Send(c, Request(c, "other")), o, x, n) /\ Good(Send(c, File(c)), o, x, n)
  BY <1>2, Sends DEF IsPost
<1>4. ASSUME ~c.busy, NEW u \in Users
      PROVE  Good(Send(c, [Request(c, "login") EXCEPT !.user = u]), o, x, n)
  <2> DEFINE r == [Request(c, "login") EXCEPT !.user = u]
  <2>1. /\ r \in Asks /\ r.kind = "login" /\ r.attempt = 0 /\ r.account = c.account
        /\ r.answer = "none" /\ r.user = u
    BY <1>2 DEF Asks, Anybody
  <2>2. u # Nobody
    BY StartupAssumption
  <2> HIDE DEF r
  <2>3. Good(Send(c, r), o, x, n)
    BY <1>4, <2>1, <2>2, Sends DEF IsPost
  <2> QED
    BY <2>3 DEF r
<1> QED
  BY <1>3, <1>4

(* refreshStatus keeps the invariant. *)
LEMMA RefreshesStatus ==
  ASSUME NEW c, NEW o, NEW x, NEW n \in Nat, Good(c, o, x, n)
  PROVE  Good(RefreshStatus(c), o, x, n)
<1>1. CASE IsFree(c)
  <2> DEFINE r == Request(c, "status")
  <2>1. /\ r \in Asks /\ r.kind = "status" /\ r.attempt = 0 /\ r.user = c.user
        /\ r.account = c.account /\ r.answer = "none"
    BY RequestsAreAsks DEF Good, Sound, Coherent, Requests, Kinds
  <2>2. c.user # Nobody /\ ~c.busy
    BY <1>1 DEF Good, Sound, Coherent, Roles, IsFree
  <2> HIDE DEF r
  <2>3. Good(Send(c, r), o, x, n)
    BY <2>1, <2>2, Sends DEF IsPost
  <2> QED
    BY <1>1, <2>3 DEF RefreshStatus, r
<1>2. CASE ~IsFree(c)
  BY <1>2 DEF RefreshStatus
<1> QED
  BY <1>1, <1>2

(* requestConnection keeps the invariant. *)
LEMMA RequestsConnection ==
  ASSUME NEW c, NEW o, NEW x, NEW n \in Nat, Good(c, o, x, n), c.active,
         c.connectionRequested
  PROVE  Good(RequestConnection(c), o, x, n)
<1> DEFINE r == Request(c, "connection")
<1>1. /\ r \in Asks /\ r.kind = "connection" /\ r.attempt = 0 /\ r.answer = "none"
  BY RequestsAreAsks DEF Good, Sound, Coherent, Requests, Kinds
<1> HIDE DEF r
<1>2. Good(Send(c, r), o, x, n)
  BY <1>1, Sends DEF IsPost
<1> QED
  BY <1>2 DEF RequestConnection, r

(* An attempt that may join does so while no entry is its own. *)
LEMMA JoinsQueue ==
  ASSUME NEW c, NEW o, NEW x, NEW n \in Nat, Good(c, o, x, n), MayDrive(c), MayJoin(c)
  PROVE  LET d == JoinQueue([c EXCEPT !.joinRequested = TRUE])
         IN Good(d, o, Marked(d, x), n)
<1> DEFINE a == [c EXCEPT !.joinRequested = TRUE]
           j == Join(a)
           d == [Send(a, j) EXCEPT !.join = a.attempt]
<1>1. /\ c \in Clients /\ Streams(c) /\ Pending(c) /\ Parts(c) /\ Workers(c)
      /\ Bounded(c, n) /\ Roles(c) /\ Requests(c) /\ Joins(c, x) /\ Apart(c, x)
      /\ Entries(c, o, x) /\ Sites(c, o)
  BY DEF Good, Sound, Coherent
<1>2. /\ a \in Clients /\ a.joinRequested /\ a.requests = c.requests /\ a.join = c.join
      /\ a.active = c.active /\ a.attempt = c.attempt /\ a.status = c.status
      /\ a.connectionRequested = c.connectionRequested /\ a.cancelQueued = c.cancelQueued
      /\ a.user = c.user /\ a.account = c.account /\ a.cleanup = c.cleanup
      /\ a.busy = c.busy /\ a.loggedIn = c.loggedIn /\ a.pin = c.pin
      /\ Streams(a) /\ Parts(a) /\ Workers(a) /\ Bounded(a, n) /\ Roles(a)
  <2>1. a \in Clients
    BY <1>1 DEF Clients
  <2>2. Streams(a) /\ Parts(a)
    BY <1>1 DEF Streams, Parts, Clients
  <2>3. Workers(a) /\ Bounded(a, n) /\ Roles(a)
    BY <1>1 DEF Workers, Bounded, Roles, Clients
  <2> QED
    BY <1>1, <2>1, <2>2, <2>3 DEF Clients
<1>3. /\ c.active /\ ~c.busy /\ ~c.connectionRequested /\ ~c.cancelQueued
      /\ ~c.joinRequested /\ c.status = "idle" /\ c.attempt > 0 /\ c.user # Nobody
      /\ c.cleanup.st = "done" /\ c.attempt \in Nat
  BY <1>1 DEF MayDrive, MayJoin, Roles, Clients
<1>4. \A r \in c.requests : IsPost(r) => r.attempt # c.attempt /\ r.attempt \in x
  BY <1>1, <1>3 DEF Joins, Waits, Requests, IsOwn
<1> HIDE DEF a
<1>5. ASSUME NEW e \in Clients, Beside(a, [e EXCEPT !.join = a.join]), e.join \in {a.join, a.attempt},
             e.requests \subseteq c.requests \cup {j},
             IsFiniteSet(e.requests), j \in e.requests => e.join = a.attempt,
             j \in Asks /\ j.kind = "post" /\ j.attempt = c.attempt
               /\ j.user = c.user /\ j.account = c.account /\ j.answer = "none",
             j \in e.requests \/ ~e.busy
      PROVE  Good(e, o, Marked(e, x), n)
  <2> HIDE DEF j
  <2>1. /\ e.active /\ e.attempt = c.attempt /\ e.joinRequested /\ ~e.connectionRequested
        /\ ~e.cancelQueued /\ e.status = "idle" /\ e.user = c.user /\ e.account = c.account
        /\ e.cleanup = c.cleanup /\ e.pin = c.pin /\ e.loggedIn = a.loggedIn
        /\ e.refreshing = a.refreshing
    <3> DEFINE g == [e EXCEPT !.join = a.join]
    <3>1. /\ g.active = e.active /\ g.attempt = e.attempt /\ g.joinRequested = e.joinRequested
          /\ g.connectionRequested = e.connectionRequested /\ g.cancelQueued = e.cancelQueued
          /\ g.status = e.status /\ g.user = e.user /\ g.account = e.account
          /\ g.cleanup = e.cleanup /\ g.pin = e.pin /\ g.loggedIn = e.loggedIn
          /\ g.refreshing = e.refreshing
      BY <1>5 DEF Clients
    <3> HIDE DEF g
    <3>2. Beside(a, g)
      BY <1>5 DEF g
    <3> QED
      BY <1>2, <1>3, <3>1, <3>2 DEF Beside
  <2>2. Streams(e) /\ Parts(e)
    BY <1>2, <1>5 DEF Beside, Streams, Parts, Clients
  <2>3. Workers(e) /\ Bounded(e, n) /\ Roles(e)
    BY <1>2, <1>5 DEF Beside, Workers, Bounded, Roles, Clients
  <2>4. Pending(e)
    BY <1>1, <1>3, <1>5, <2>1 DEF Pending, ConnectionBusy
  <2>5. Requests(e)
    <3>1. e.join <= e.attempt
      BY <1>1, <1>2, <1>5, <2>1 DEF Requests, Clients
    <3>2. \A r \in e.requests :
            /\ r.attempt <= e.attempt
            /\ r.kind \in {"status", "login"} => r.account = e.account /\ r.user # Nobody
            /\ r.kind = "status" => r.user = e.user
            /\ IsPost(r) => r.attempt > 0 /\ r.user # Nobody /\ r.answer # "idle"
            /\ IsOwn(e, r) => /\ r.user = e.user /\ r.account = e.account
                              /\ e.joinRequested /\ e.join = e.attempt
      <4> TAKE r \in e.requests
      <4>1. CASE r = j
        BY <1>2, <1>3, <1>5, <2>1, <4>1 DEF IsPost, IsOwn
      <4>2. CASE r # j
        BY <1>1, <1>4, <1>5, <2>1, <4>2 DEF Requests, IsPost, IsOwn
      <4> QED
        BY <4>1, <4>2
    <3>3. \A p, r \in e.requests : IsPost(p) /\ IsPost(r) /\ p.attempt = r.attempt => p = r
      BY <1>1, <1>4, <1>5 DEF Requests
    <3> QED
      BY <1>5, <3>1, <3>2, <3>3 DEF Requests
  <2>6. Joins(e, x)
    BY <1>4, <1>5, <2>1 DEF Joins, IsOwn, IsPost
  <2>7. Apart(e, Marked(e, x))
    <3> SUFFICES ASSUME ~Overlaps(e), NEW r \in Exclusive(e) PROVE Alone(e, r)
      BY DEF Apart, Marked
    <3>1. e.busy /\ Exclusive(e) = {r}
      BY <2>1 DEF Overlaps
    <3>2. j \in Exclusive(e)
      BY <1>5, <2>1, <3>1 DEF Exclusive
    <3>3. r = j
      BY <3>1, <3>2
    <3> QED
      BY <1>5, <2>1, <3>1, <3>3 DEF Alone
  <2>8. Entries(e, o, x)
    BY <1>1, <1>3 DEF Entries, Owns, Asking, Removes
  <2>9. Sites(e, o)
    BY <1>1, <1>3, <1>5, <2>1 DEF Sites
  <2>10. Joins(e, Marked(e, x)) /\ Entries(e, o, Marked(e, x))
    BY <2>6, <2>8 DEF Marked, Joins, Entries
  <2> QED
    BY <1>5, <2>2, <2>3, <2>4, <2>5, <2>7, <2>9, <2>10 DEF Good, Sound, Coherent
<1>6. /\ j \in Asks /\ j.kind = "post" /\ j.attempt = c.attempt
      /\ j.user = c.user /\ j.account = c.account /\ j.answer = "none"
  <2>1. IsFiniteSet(a.requests) /\ "post" \in Kinds
    BY <1>1, <1>2 DEF Requests, Kinds
  <2> QED
    BY <1>2, <2>1, RequestsAreAsks
<1> HIDE DEF j
<1>7. CASE IsFree(a)
  <2>1. /\ Send(a, j) \in Clients /\ Beside(a, Send(a, j))
        /\ Send(a, j).busy = TRUE /\ Send(a, j).requests = c.requests \cup {j}
    <3>1. /\ Send(a, j) \in Clients /\ Beside(a, Send(a, j))
          /\ Send(a, j).busy = TRUE /\ Send(a, j).requests = a.requests \cup {j}
      BY <1>2, <1>6, SendsAndFrees
    <3> QED
      BY <1>2, <3>1
  <2> HIDE DEF Send
  <2>2. /\ d \in Clients /\ d.busy = TRUE /\ d.requests = c.requests \cup {j}
        /\ d.join = a.attempt /\ Beside(a, [d EXCEPT !.join = a.join])
    <3>1. a.attempt \in Nat
      BY <1>2 DEF Clients
    <3>2. d \in Clients
      BY <2>1, <3>1 DEF Clients
    <3>3. [d EXCEPT !.join = a.join] = Send(a, j)
      BY <2>1 DEF Beside, Clients
    <3> QED
      BY <2>1, <3>2, <3>3 DEF Clients
  <2>3. IsFiniteSet(d.requests)
    BY <1>1, <2>2, FS_AddElement DEF Requests
  <2> HIDE DEF d
  <2>4. Good(d, o, Marked(d, x), n)
    BY <1>5, <1>6, <2>2, <2>3
  <2> QED
    BY <1>7, <2>4 DEF JoinQueue, d, j, a
<1>8. CASE ~IsFree(a)
  <2>1. [a EXCEPT !.join = a.join] = a /\ Beside(a, a)
    BY <1>2 DEF Clients, Beside
  <2>2. IsFiniteSet(a.requests) /\ ~a.busy /\ a.requests \subseteq c.requests \cup {j}
        /\ (j \in a.requests => FALSE)
    BY <1>1, <1>2, <1>3, <1>4, <1>6 DEF Requests, IsPost
  <2>3. Good(a, o, Marked(a, x), n)
    BY <1>2, <1>5, <1>6, <2>1, <2>2
  <2> QED
    BY <1>8, <2>3 DEF JoinQueue, a
<1> QED
  BY <1>7, <1>8

(* The step function of an attempt keeps the invariant, whichever way it *)
(* goes.                                                                 *)
LEMMA DriveGood ==
  ASSUME NEW c, NEW o, NEW x, NEW n \in Nat, Good(c, o, x, n)
  PROVE  Good(Drive(c), o, Marked(Drive(c), x), n)
<1>1. /\ c \in Clients /\ Streams(c) /\ Pending(c) /\ Parts(c) /\ Workers(c)
      /\ Bounded(c, n) /\ Roles(c) /\ Requests(c) /\ Joins(c, x) /\ Apart(c, x)
      /\ Entries(c, o, x) /\ Sites(c, o)
  BY DEF Good, Sound, Coherent
<1>2. CASE MayDrive(c) /\ IsReady(c)
  <2> DEFINE d == Connects(c)
  <2>1. /\ c.active /\ ~c.busy /\ ~c.connectionRequested /\ c.status = "ready"
    BY <1>2 DEF MayDrive, IsReady
  <2>2. /\ d \in Clients /\ d.active /\ d.connectionRequested /\ d.requests = c.requests
        /\ d.attempt = c.attempt /\ d.user = c.user /\ d.account = c.account
        /\ d.joinRequested = c.joinRequested /\ d.join = c.join /\ d.cleanup = c.cleanup
        /\ d.cancelQueued = c.cancelQueued /\ d.status = c.status
    BY <1>1, <2>1 DEF Connects, Clients
  <2>3. Streams(d) /\ Pending(d) /\ Parts(d) /\ Workers(d) /\ Bounded(d, n) /\ Roles(d)
    <3>1. Streams(d) /\ Pending(d) /\ Bounded(d, n) /\ Roles(d)
      BY <1>1, <2>1 DEF Streams, Pending, Bounded, Roles, Connects, ConnectionBusy, Clients
    <3>2. Parts(d) /\ Workers(d)
      BY <1>1, <2>1 DEF Parts, Workers, Connects, Clients
    <3> QED
      BY <3>1, <3>2
  <2> HIDE DEF d
  <2>4. \A r \in c.requests : IsOwn(c, r) => c.attempt \in x
    BY <1>1, <2>1 DEF Requests, IsOwn, IsPost, Apart, Asking, Exclusive, Alone
  <2>5. Requests(d)
    BY <1>1, <2>1, <2>2 DEF Requests, IsOwn, IsPost
  <2>6. Joins(d, x)
    BY <1>1, <2>2, <2>4 DEF Joins, IsOwn, IsPost, Waits
  <2>7. Apart(d, x)
    BY <2>2 DEF Apart, Asking
  <2>8. Entries(d, o, x)
    BY <1>1, <2>1, <2>2, <2>4 DEF Entries, Owns, Asking, Queued, Removes
  <2>9. Sites(d, o)
    BY <1>1, <2>1, <2>2 DEF Sites
  <2>10. Good(d, o, x, n)
    BY <2>2, <2>3, <2>5, <2>6, <2>7, <2>8, <2>9 DEF Good, Sound, Coherent
  <2>11. Good(RequestConnection(d), o, x, n)
    BY <2>2, <2>10, RequestsConnection
  <2>12. Drive(c) = RequestConnection(d)
    BY <1>2 DEF Drive, d
  <2> QED
    BY <2>11, <2>12, MarkedIsGood
<1>3. CASE MayDrive(c) /\ ~IsReady(c) /\ MayJoin(c)
  BY <1>3, JoinsQueue DEF Drive
<1>4. CASE ~MayDrive(c) \/ (~IsReady(c) /\ ~MayJoin(c))
  BY <1>4, MarkedIsGood DEF Drive
<1> QED
  BY <1>2, <1>3, <1>4

(* Cancelling the requests of a connection leaves nothing pending. *)
LEMMA CancelsConnection ==
  ASSUME NEW c, NEW o, NEW x, NEW n \in Nat, Sound(c, o, x, n), ~c.active
  PROVE  LET d == CancelConnectionRequests(c) IN
         /\ Sound(d, o, x, n) /\ Pending(d) /\ ~d.active
         /\ d.session = c.session /\ d.attempt = c.attempt /\ d.user = c.user
         /\ d.account = c.account /\ d.cancelQueued = c.cancelQueued
         /\ d.loggedIn = c.loggedIn /\ d.refreshing = c.refreshing
         /\ d.cleanup = c.cleanup /\ d.requests \subseteq c.requests
<1> DEFINE s == {r \in c.requests : r.kind # "connection"}
           e == [c EXCEPT !.pin = 0, !.requests = s]
           d == CancelConnectionRequests(c)
<1>1. /\ c \in Clients /\ Parts(c) /\ Workers(c)
      /\ Bounded(c, n) /\ Roles(c) /\ Requests(c) /\ Joins(c, x) /\ Apart(c, x)
      /\ Entries(c, o, x) /\ Sites(c, o)
  BY DEF Sound, Coherent
<1>2. s \in SUBSET Asks /\ IsFiniteSet(s) /\ s \subseteq c.requests
  <2>1. s \in SUBSET c.requests
    OBVIOUS
  <2> QED
    BY <1>1, <2>1, FS_Subset DEF Clients, Requests
<1> HIDE DEF s
<1>3. /\ e \in Clients /\ e.requests = s /\ e.pin = 0 /\ e.busy = c.busy
      /\ Beside(c, [e EXCEPT !.pin = c.pin])
  <2>1. e \in Clients
    BY <1>1, <1>2 DEF Clients
  <2> QED
    BY <1>1, <2>1 DEF Clients, Beside
<1>4. d = e \/ d = SetBusy(e, FALSE)
  BY DEF CancelConnectionRequests, s
<1>5. /\ d \in Clients /\ d.requests = s /\ d.pin = 0 /\ Beside(c, [d EXCEPT !.pin = c.pin])
  <2>1. CASE d = e
    BY <1>3, <2>1
  <2>2. CASE d = SetBusy(e, FALSE)
    <3> HIDE DEF e
    <3>2. /\ SetBusy(e, FALSE) \in Clients /\ SetBusy(e, FALSE).requests = s
          /\ Beside(e, SetBusy(e, FALSE))
      BY <1>3, SetsBusy
    <3>3. SetBusy(e, FALSE).pin = 0
      BY <1>3, <3>2 DEF Beside
    <3>4. Beside(c, [SetBusy(e, FALSE) EXCEPT !.pin = c.pin])
      BY <1>1, <1>3 DEF SetBusy, Clients, Beside
    <3> QED
      BY <2>2, <3>2, <3>3, <3>4
  <2> QED
    BY <1>4, <2>1, <2>2
<1>6. /\ d.active = c.active /\ d.attempt = c.attempt /\ d.joinRequested = c.joinRequested
      /\ d.connectionRequested = c.connectionRequested /\ d.cancelQueued = c.cancelQueued
      /\ d.status = c.status /\ d.user = c.user /\ d.account = c.account
      /\ d.join = c.join /\ d.cleanup = c.cleanup /\ d.loggedIn = c.loggedIn
      /\ d.refreshing = c.refreshing /\ d.waitingForApps = c.waitingForApps
      /\ d.computer = c.computer /\ d.poll = c.poll /\ d.deadline = c.deadline
      /\ d.session = c.session /\ d.tasks = c.tasks
  BY <1>1, <1>5 DEF Beside, Clients
<1>7. \A r \in d.requests : r \in c.requests /\ r.kind # "connection"
  BY <1>5 DEF s
<1> HIDE DEF d, e
<1>8. Parts(d) /\ Workers(d) /\ Bounded(d, n) /\ Roles(d) /\ Pending(d)
  <2>1. Parts(d) /\ Workers(d)
    BY <1>1, <1>6 DEF Parts, Workers
  <2>2. Bounded(d, n) /\ Roles(d) /\ Pending(d)
    BY <1>1, <1>5, <1>6, <1>7 DEF Bounded, Roles, Pending, ConnectionBusy
  <2> QED
    BY <2>1, <2>2
<1>9. Requests(d) /\ Joins(d, x) /\ Apart(d, x) /\ Sites(d, o)
  <2>1. Requests(d)
    BY <1>1, <1>2, <1>5, <1>6, <1>7 DEF Requests, IsOwn, IsPost
  <2>2. Joins(d, x) /\ Apart(d, x) /\ Sites(d, o)
    BY <1>1, <1>6, <1>7 DEF Joins, IsOwn, IsPost, Waits, Apart, Asking, Sites
  <2> QED
    BY <2>1, <2>2
<1>10. Entries(d, o, x)
  BY <1>1, <1>6 DEF Entries, Owns, Asking, Removes
<1>11. Sound(d, o, x, n)
  BY <1>5, <1>8, <1>9, <1>10 DEF Sound, Coherent
<1> QED
  BY <1>2, <1>5, <1>6, <1>8, <1>11 DEF d

(* Without an attempt it keeps the whole invariant. *)
LEMMA CancelsConnectionWell ==
  ASSUME NEW c, NEW o, NEW x, NEW n \in Nat, Good(c, o, x, n), ~c.active
  PROVE  LET d == CancelConnectionRequests(c) IN
         Good(d, o, x, n) /\ ~d.active /\ d.session = c.session /\ d.user = c.user
           /\ d.cancelQueued = c.cancelQueued
BY CancelsConnection DEF Good, Streams

(* A cancellation keeps the invariant, ends the attempt, and leaves the join *)
(* for the cleanup to wait for.                                              *)
LEMMA CancelGood ==
  ASSUME NEW c, NEW o, NEW x, NEW n \in Nat, Good(c, o, x, n)
  PROVE  /\ Good(Cancel(c), o, x, n) /\ ~Cancel(c).active
         /\ Cancel(c).user = c.user /\ Cancel(c).account = c.account
         /\ Cancel(c).requests \subseteq c.requests
<1>1. /\ c \in Clients /\ Streams(c) /\ Pending(c) /\ Parts(c) /\ Workers(c)
      /\ Bounded(c, n) /\ Roles(c) /\ Requests(c) /\ Joins(c, x) /\ Apart(c, x)
      /\ Entries(c, o, x) /\ Sites(c, o)
  BY DEF Good, Sound, Coherent
<1>2. CASE ~c.active
  BY <1>2 DEF Cancel
<1>3. CASE c.active
  <2> DEFINE q == [c EXCEPT !.active = FALSE, !.cancelQueued = MayBeQueued(c)]
             d == IF q.cancelQueued THEN CancelQueuedAttempt(q) ELSE q
             e == [StopPreparation(d) EXCEPT !.attempt = @ + 1]
             f == CancelConnectionRequests(e)
             g == [f EXCEPT !.session.cancelled = @ \/ f.session.st # "none"]
  <2>1. q \in Clients /\ q.cancelQueued = MayBeQueued(c) /\ MayBeQueued(c) \in BOOLEAN
    BY <1>1 DEF Clients, MayBeQueued
  <2>2. d \in Clients
    <3> DEFINE w == [st |-> CleanupStart(q), attempt |-> q.attempt, user |-> q.user,
                     account |-> q.account]
    <3>1. CleanupStart(q) \in {"done", "waiting", "sent", "served"}
      BY DEF CleanupStart
    <3>2. q.attempt \in Nat /\ q.user \in Anybody /\ q.account \in Nat
      BY <2>1 DEF Clients
    <3>3. w \in Cleanups
      BY <3>1, <3>2 DEF Cleanups
    <3>4. CancelQueuedAttempt(q) = [q EXCEPT !.cleanup = w]
      BY DEF CancelQueuedAttempt
    <3> HIDE DEF w, q
    <3> QED
      BY <2>1, <3>3, <3>4 DEF Clients
  <2>3. e \in Clients
    <3>1. StopPreparation(d) \in Clients
      BY <2>2 DEF StopPreparation, Clients
    <3>2. StopPreparation(d).attempt + 1 \in Nat
      BY <3>1 DEF Clients
    <3> QED
      BY <3>1, <3>2 DEF Clients
  <2>a. CleanupStart(q) = CleanupStart(c)
    BY <1>1 DEF CleanupStart, IsLatestJoin, Clients
  <2>4. /\ ~e.active /\ e.attempt = c.attempt + 1 /\ e.session = c.session
        /\ e.cancelQueued = MayBeQueued(c) /\ e.requests = c.requests /\ e.tasks = c.tasks
        /\ e.user = c.user /\ e.account = c.account /\ e.join = c.join
        /\ e.loggedIn = c.loggedIn /\ e.refreshing = c.refreshing
        /\ ~e.poll /\ ~e.deadline /\ e.computer = c.computer /\ c.attempt \in Nat
        /\ c.computer \in Nat /\ c.tasks \subseteq Tasks
        /\ e.cleanup = IF MayBeQueued(c)
                       THEN [st |-> CleanupStart(q), attempt |-> c.attempt, user |-> c.user,
                             account |-> c.account]
                       ELSE c.cleanup
        /\ CleanupStart(q) = CleanupStart(c)
    <3> HIDE DEF CleanupStart
    <3>1. CASE q.cancelQueued
      BY <1>1, <2>1, <2>2, <2>3, <2>a, <3>1 DEF StopPreparation, CancelQueuedAttempt, Clients
    <3>2. CASE ~q.cancelQueued
      BY <1>1, <2>1, <2>2, <2>3, <2>a, <3>2 DEF StopPreparation, Clients
    <3> QED
      BY <3>1, <3>2
  <2>5. CleanupStart(c) \in {"waiting", "sent"}
    BY DEF CleanupStart
  <2> HIDE DEF q, d, e
  <2>6. /\ e.cancelQueued => /\ e.cleanup.st = CleanupStart(c) /\ e.cleanup.attempt = c.attempt
                             /\ e.cleanup.user = c.user
        /\ ~e.cancelQueued => e.cleanup.st = "done"
    BY <1>1, <1>3, <2>4 DEF Roles
  <2>7. Parts(e) /\ Workers(e) /\ Bounded(e, n) /\ Roles(e)
    <3>1. Parts(e) /\ Bounded(e, n)
      BY <1>1, <1>3, <2>4 DEF Parts, Bounded
    <3>2. Workers(e)
      BY <1>1, <1>3, <2>4 DEF Workers, Tasks
    <3>3. Roles(e)
      BY <1>1, <1>3, <2>4, <2>5, <2>6 DEF Roles
    <3> QED
      BY <3>1, <3>2, <3>3
  <2>8. Requests(e)
    <3>1. \A r \in c.requests : r.attempt \in Nat
      BY <1>1 DEF Clients, Asks
    <3>2. c.join \in Nat
      BY <1>1 DEF Clients
    <3> QED
      BY <1>1, <2>4, <3>1, <3>2 DEF Requests, IsOwn
  <2>9. \A r \in c.requests : IsOwn(c, r) /\ r.attempt \notin x /\ ~c.connectionRequested
          => e.cancelQueued /\ e.cleanup.st = "waiting" /\ r.attempt = e.cleanup.attempt
               /\ r.user = e.cleanup.user /\ e.join = r.attempt
    <3> SUFFICES ASSUME NEW r \in c.requests, IsOwn(c, r), r.attempt \notin x, ~c.connectionRequested
                 PROVE  e.cancelQueued /\ e.cleanup.st = "waiting" /\ r.attempt = e.cleanup.attempt
                          /\ r.user = e.cleanup.user /\ e.join = r.attempt
      OBVIOUS
    <3>1. /\ c.attempt = r.attempt /\ r.user = c.user /\ r.account = c.account
          /\ c.joinRequested /\ c.join = c.attempt /\ IsPost(r)
      BY <1>1 DEF Requests, IsOwn
    <3>2. r \in Exclusive(c) /\ Asking(c)
      BY <1>3, <3>1 DEF Exclusive, Asking, IsPost
    <3>3. c.busy
      BY <1>1, <3>1, <3>2 DEF Apart, Alone
    <3>4. MayBeQueued(c) /\ CleanupStart(c) = "waiting"
      BY <3>1, <3>3 DEF MayBeQueued, CleanupStart, IsLatestJoin, IsPost
    <3> QED
      BY <2>4, <2>6, <3>1, <3>4
  <2>10. Joins(e, x) /\ Apart(e, x)
    <3>1. c.cleanup.st = "done"
      BY <1>1, <1>3 DEF Roles
    <3>2. Joins(e, x)
      BY <1>1, <2>4, <2>9, <3>1 DEF Joins, Waits
    <3> QED
      BY <2>4, <3>2 DEF Apart, Asking
  <2>11. Entries(e, o, x)
    <3> SUFFICES ASSUME NEW u \in Users, o[u] > 0, o[u] \notin x PROVE Removes(e, o[u], u)
      BY DEF Entries
    <3>1. Owns(c, o[u], u)
      BY <1>1, <1>3 DEF Entries, Removes, Roles
    <3>2. CASE \E r \in c.requests : IsOwn(c, r)
      BY <2>6, <2>9, <3>1, <3>2 DEF Owns, Asking, Removes, IsOwn
    <3>3. CASE ~ \E r \in c.requests : IsOwn(c, r)
      <4>1. MayBeQueued(c)
        BY <3>1, <3>3 DEF Owns, Asking, Queued, MayBeQueued
      <4> QED
        BY <2>4, <2>5, <2>6, <3>1, <4>1 DEF Owns, Removes
    <3> QED
      BY <3>2, <3>3
  <2>12. Sites(e, o)
    BY <1>1, <1>3, <2>4, <2>6 DEF Sites, MayBeQueued
  <2>13. Sound(e, o, x, n)
    BY <2>3, <2>7, <2>8, <2>10, <2>11, <2>12 DEF Sound, Coherent
  <2>14. /\ Sound(f, o, x, n) /\ Pending(f) /\ ~f.active /\ f.user = c.user
         /\ f.account = c.account /\ f.requests \subseteq c.requests
    BY <2>4, <2>13, CancelsConnection
  <2>15. /\ Good(g, o, x, n) /\ ~g.active /\ g.requests \subseteq c.requests
         /\ g.user = c.user /\ g.account = c.account
    <3>1. f \in Clients /\ f.session \in Sessions
      BY <2>14 DEF Sound, Clients
    <3> HIDE DEF f
    <3>2. g \in Clients /\ (f.session.st # "none" => g.session.cancelled)
      BY <3>1 DEF Clients, Sessions
    <3>3. g.session.st = f.session.st /\ g.session.host = f.session.host
          /\ g.session.attempt = f.session.attempt
      BY <3>1 DEF Clients, Sessions
    <3>4. /\ Alike(f, g) /\ g.tasks = f.tasks /\ g.pin = f.pin /\ g.poll = f.poll
          /\ g.deadline = f.deadline /\ g.computer = f.computer
          /\ g.waitingForApps = f.waitingForApps
      BY <2>14, <3>1 DEF Alike, Clients, Sound, Coherent, Roles
    <3> HIDE DEF g
    <3>5. Streams(g) /\ Pending(g) /\ Parts(g) /\ Workers(g) /\ Bounded(g, n)
      <4>1. Streams(g) /\ Pending(g) /\ Bounded(g, n)
        BY <2>14, <3>2, <3>3, <3>4 DEF Sound, Streams, Pending, ConnectionBusy, Bounded, Alike
      <4>2. Parts(g) /\ Workers(g)
        BY <2>14, <3>2, <3>3, <3>4 DEF Sound, Parts, Workers, Alike
      <4> QED
        BY <4>1, <4>2
    <3>6. Coherent(g, o, x)
      BY <2>14, <3>4, AlikeIsCoherent DEF Sound
    <3> QED
      BY <2>14, <3>2, <3>4, <3>5, <3>6 DEF Good, Sound, Alike
  <2>16. Cancel(c) = Drive(g)
    BY <1>3 DEF Cancel, q, d, e
  <2> HIDE DEF g
  <2>17. Drive(g) = g
    BY <2>15 DEF Drive, MayDrive
  <2> QED
    BY <2>15, <2>16, <2>17
<1> QED
  BY <1>2, <1>3

(* The status of a machine keeps the invariant if the client with it does. *)
LEMMA StatusIsKnown ==
  ASSUME NEW c, NEW o, NEW x, NEW n \in Nat, NEW s \in MachineStates,
         c.active /\ ~c.connectionRequested => Good([c EXCEPT !.status = s], o, x, n),
         ~c.active \/ c.connectionRequested => Good(c, o, x, n)
  PROVE  LET d == StatusReceived(c, s) IN Good(d, o, Marked(d, x), n)
<1> DEFINE d == [c EXCEPT !.status = s]
<1>1. s # "invalid"
  BY DEF MachineStates
<1>2. CASE ~c.active \/ c.connectionRequested
  BY <1>2, MarkedIsGood DEF StatusReceived
<1>3. CASE c.active /\ ~c.connectionRequested
  <2>1. StatusReceived(c, s) = IF s = "ending" THEN Cancel(d) ELSE Drive(d)
    BY <1>1, <1>3 DEF StatusReceived, ReportError
  <2>2. Good(d, o, x, n)
    BY <1>3
  <2> HIDE DEF d
  <2>3. Good(Cancel(d), o, Marked(Cancel(d), x), n) /\ Good(Drive(d), o, Marked(Drive(d), x), n)
    BY <2>2, CancelGood, DriveGood, MarkedIsGood
  <2> QED
    BY <2>1, <2>3
<1> QED
  BY <1>2, <1>3

(* A status that could not be read keeps the invariant. *)
LEMMA StatusIsLost ==
  ASSUME NEW c, NEW o, NEW x, NEW n \in Nat, Good(c, o, x, n)
  PROVE  Good(StatusReceived(c, "invalid"), o, x, n)
BY CancelGood DEF StatusReceived, ReportError

(* An answer becomes the status of the machine, unless it denies an entry. *)
LEMMA AnswerIsStatus ==
  ASSUME NEW c, NEW o, NEW x, NEW n \in Nat, Good(c, o, x, n), NEW s \in MachineStates,
         s = "idle" /\ c.active => o[c.user] # Site,
         \A u \in Users : o[u] > 0 => o[u] \in x \/ s = "queued" \/ ~Owns(c, o[u], u)
  PROVE  Good([c EXCEPT !.status = s], o, x, n)
<1> DEFINE d == [c EXCEPT !.status = s]
<1>1. /\ c \in Clients /\ Streams(c) /\ Pending(c) /\ Parts(c) /\ Workers(c)
      /\ Bounded(c, n) /\ Roles(c) /\ Requests(c) /\ Joins(c, x) /\ Apart(c, x)
      /\ Entries(c, o, x) /\ Sites(c, o)
  BY DEF Good, Sound, Coherent
<1>2. /\ d \in Clients /\ d.status = s /\ d.requests = c.requests /\ d.active = c.active
      /\ Beside(c, [d EXCEPT !.status = c.status]) /\ d.busy = c.busy
      /\ d.attempt = c.attempt /\ d.user = c.user /\ d.account = c.account
      /\ d.joinRequested = c.joinRequested /\ d.connectionRequested = c.connectionRequested
      /\ d.join = c.join /\ d.cleanup = c.cleanup /\ d.cancelQueued = c.cancelQueued
  <2>1. d \in Clients
    BY <1>1 DEF Clients, Known
  <2> QED
    BY <1>1, <2>1 DEF Clients, Beside
<1>3. Streams(d) /\ Pending(d) /\ Parts(d) /\ Workers(d) /\ Bounded(d, n) /\ Roles(d)
  <2>1. Streams(d) /\ Pending(d) /\ Parts(d)
    BY <1>1 DEF Streams, Pending, ConnectionBusy, Parts, Clients
  <2>2. Workers(d) /\ Bounded(d, n) /\ Roles(d)
    BY <1>1 DEF Workers, Bounded, Roles, Clients
  <2> QED
    BY <2>1, <2>2
<1> HIDE DEF d
<1>4. Requests(d) /\ Joins(d, x)
  BY <1>1, <1>2 DEF Requests, Joins, IsOwn, IsPost, Waits
<1>5. Apart(d, x)
  BY <1>1, <1>2 DEF Apart, Asking, Alone, Exclusive
<1>6. Entries(d, o, x)
  <2> SUFFICES ASSUME NEW u \in Users, o[u] > 0, o[u] \notin x, ~Removes(c, o[u], u)
               PROVE  Owns(d, o[u], u)
    BY <1>2 DEF Entries, Removes
  <2>1. Owns(c, o[u], u) /\ s = "queued"
    BY <1>1 DEF Entries
  <2> QED
    BY <1>2, <2>1 DEF Owns, Asking, Queued, IsOwn
<1>7. Sites(d, o)
  BY <1>1, <1>2 DEF Sites
<1> QED
  BY <1>2, <1>3, <1>4, <1>5, <1>6, <1>7 DEF Good, Sound, Coherent, d

(* The client that has the reply to one of its requests. *)
LEMMA FreedClient ==
  ASSUME NEW c \in Clients, NEW r \in c.requests
  PROVE  LET d == Freed(c, r) IN
         d \in Clients /\ Beside(c, d) /\ ~d.busy /\ d.requests = c.requests \ {r}
<1>1. r \in Asks
  BY DEF Clients
<1>2. Freed(c, r) \in Clients /\ Beside(c, Freed(c, r))
  BY <1>1, SendsAndFrees
<1>3. ~Freed(c, r).busy
  BY <1>1, SendsAndFrees
<1>4. Freed(c, r).requests = c.requests \ {r}
  BY <1>1, SendsAndFrees
<1> QED
  BY <1>2, <1>3, <1>4

(* The reply to a request that the flag kept others from. *)
LEMMA Frees ==
  ASSUME NEW c, NEW o, NEW x, NEW n \in Nat, Good(c, o, x, n), NEW r \in c.requests,
         r.kind \in {"status", "login", "connection"}
  PROVE  Good(Freed(c, r), o, x, n)
<1> DEFINE d == Freed(c, r)
<1>1. /\ c \in Clients /\ Streams(c) /\ Pending(c) /\ Parts(c) /\ Workers(c)
      /\ Bounded(c, n) /\ Roles(c) /\ Requests(c) /\ Joins(c, x) /\ Apart(c, x)
      /\ Entries(c, o, x) /\ Sites(c, o) /\ r \in Asks
  BY DEF Good, Sound, Coherent, Clients
<1>2. /\ d \in Clients /\ Beside(c, d) /\ ~d.busy /\ d.requests = c.requests \ {r}
  BY FreedClient DEF Good, Sound
<1> HIDE DEF d
<1>3. Parts(d) /\ Workers(d) /\ Bounded(d, n) /\ Roles(d) /\ Streams(d)
  BY <1>1, <1>2, BesideIsSound
<1>4. Pending(d)
  BY <1>1, <1>2 DEF Pending, ConnectionBusy, Beside
<1>5. Requests(d)
  <2>1. IsFiniteSet(d.requests)
    BY <1>1, <1>2, FS_RemoveElement DEF Requests
  <2> QED
    BY <1>1, <1>2, <2>1 DEF Requests, IsOwn, IsPost, Beside
<1>6. Joins(d, x)
  BY <1>1, <1>2 DEF Joins, IsOwn, IsPost, Waits, Beside
<1>7. Apart(d, x)
  <2> SUFFICES ASSUME Asking(c), c.attempt \notin x PROVE Exclusive(d) = {}
    BY <1>2 DEF Apart, Asking, Beside
  <2>1. r.kind # "connection"
    BY <1>1 DEF Pending, ConnectionBusy, Asking
  <2>2. r \in Exclusive(c)
    BY <1>1, <2>1 DEF Requests, Exclusive
  <2>3. Exclusive(c) = {r}
    BY <1>1, <2>2 DEF Apart, Alone
  <2> QED
    BY <1>2, <2>3 DEF Exclusive, Beside
<1>8. Entries(d, o, x)
  BY <1>1, <1>2 DEF Entries, Owns, Asking, Queued, IsOwn, IsPost, Removes, Beside
<1>9. Sites(d, o)
  BY <1>1, <1>2 DEF Sites, Beside
<1> QED
  BY <1>2, <1>3, <1>4, <1>5, <1>6, <1>7, <1>8, <1>9 DEF Good, Sound, Coherent, d

(* The reply to a request that took the flag without looking. *)
LEMMA Lets ==
  ASSUME NEW c, NEW o, NEW x, NEW n \in Nat, Good(c, o, x, n), NEW r \in c.requests,
         r.kind \in {"other", "upload"}
  PROVE  LET d == Freed(c, r) IN Good(d, o, Marked(d, x), n)
<1> DEFINE d == Freed(c, r)  y == Marked(d, x)
<1>1. /\ c \in Clients /\ Streams(c) /\ Pending(c) /\ Parts(c) /\ Workers(c)
      /\ Bounded(c, n) /\ Roles(c) /\ Requests(c) /\ Joins(c, x) /\ Apart(c, x)
      /\ Entries(c, o, x) /\ Sites(c, o) /\ r \in Asks
  BY DEF Good, Sound, Coherent, Clients
<1>2. /\ d \in Clients /\ Beside(c, d) /\ ~d.busy /\ d.requests = c.requests \ {r}
  BY FreedClient DEF Good, Sound
<1> HIDE DEF d
<1>3. Parts(d) /\ Workers(d) /\ Bounded(d, n) /\ Roles(d) /\ Streams(d)
  BY <1>1, <1>2, BesideIsSound
<1>4. Pending(d)
  BY <1>1, <1>2 DEF Pending, ConnectionBusy, Beside
<1>5. Requests(d)
  <2>1. IsFiniteSet(d.requests)
    BY <1>1, <1>2, FS_RemoveElement DEF Requests
  <2> QED
    BY <1>1, <1>2, <2>1 DEF Requests, IsOwn, IsPost, Beside
<1>6. Joins(d, x)
  BY <1>1, <1>2 DEF Joins, IsOwn, IsPost, Waits, Beside
<1>7. Apart(d, y)
  BY <1>2 DEF Apart, Marked, Overlaps, Asking
<1>8. Entries(d, o, x)
  BY <1>1, <1>2 DEF Entries, Owns, Asking, Queued, IsOwn, IsPost, Removes, Beside
<1>9. Sites(d, o)
  BY <1>1, <1>2 DEF Sites, Beside
<1>10. x \subseteq y
  BY DEF Marked
<1>11. Joins(d, y) /\ Entries(d, o, y)
  BY <1>6, <1>8, <1>10 DEF Joins, Entries
<1> QED
  BY <1>2, <1>3, <1>4, <1>5, <1>7, <1>9, <1>11 DEF Good, Sound, Coherent, d

(* The reply to a join, which tells its attempt nothing unless the attempt is *)
(* excused.                                                                   *)
LEMMA PostIsOver ==
  ASSUME NEW c, NEW o, NEW x, NEW n \in Nat, Good(c, o, x, n), NEW r \in c.requests,
         IsPost(r), NEW y, x \subseteq y, IsOwn(c, r) => c.attempt \in y
  PROVE  /\ r.account # c.account => Good(Replied(c, r), o, y, n)
         /\ r.account = c.account => Good(Freed(c, r), o, y, n)
<1>1. /\ c \in Clients /\ Streams(c) /\ Pending(c) /\ Parts(c) /\ Workers(c)
      /\ Bounded(c, n) /\ Roles(c) /\ Requests(c) /\ Joins(c, x) /\ Apart(c, x)
      /\ Entries(c, o, x) /\ Sites(c, o) /\ r \in Asks
  BY DEF Good, Sound, Coherent, Clients
<1>2. ASSUME NEW d \in Clients, Beside(c, d), d.requests = c.requests \ {r},
             r.account # c.account => d.busy = c.busy
      PROVE  Good(d, o, y, n)
  <2>1. Parts(d) /\ Workers(d) /\ Bounded(d, n) /\ Roles(d) /\ Streams(d)
    BY <1>1, <1>2, BesideIsSound
  <2>2. Pending(d)
    BY <1>1, <1>2 DEF Pending, ConnectionBusy, Beside
  <2>3. Requests(d)
    <3>1. IsFiniteSet(d.requests)
      BY <1>1, <1>2, FS_RemoveElement DEF Requests
    <3> QED
      BY <1>1, <1>2, <3>1 DEF Requests, IsOwn, IsPost, Beside
  <2>4. Joins(d, y)
    BY <1>1, <1>2 DEF Joins, IsOwn, IsPost, Waits, Beside
  <2>5. Apart(d, y)
    <3> SUFFICES ASSUME Asking(c), c.attempt \notin y PROVE \A a \in Exclusive(d) : Alone(d, a)
      BY <1>2 DEF Apart, Asking, Beside
    <3>1. ~IsOwn(c, r) /\ c.attempt \notin x
      OBVIOUS
    <3>2. r \notin Exclusive(c)
      BY <1>1, <3>1 DEF Apart, Alone, IsOwn, Asking
    <3>3. r.account # c.account
      BY <3>2 DEF Exclusive, IsPost
    <3>4. Exclusive(d) = Exclusive(c) /\ d.busy = c.busy
      BY <1>2, <3>2, <3>3 DEF Exclusive, Beside
    <3> QED
      BY <1>1, <1>2, <3>1, <3>4 DEF Apart, Alone, Beside
  <2>6. Entries(d, o, y)
    <3> SUFFICES ASSUME NEW u \in Users, o[u] > 0, o[u] \notin y, ~Removes(c, o[u], u)
                 PROVE  Owns(d, o[u], u)
      BY <1>2 DEF Entries, Removes, Beside
    <3>1. Owns(c, o[u], u)
      BY <1>1 DEF Entries
    <3>2. ~IsOwn(c, r)
      BY <3>1 DEF Owns
    <3> QED
      BY <1>2, <3>1, <3>2 DEF Owns, Asking, Queued, IsOwn, Beside
  <2>7. Sites(d, o)
    BY <1>1, <1>2 DEF Sites, Beside
  <2> QED
    BY <1>2, <2>1, <2>2, <2>3, <2>4, <2>5, <2>6, <2>7 DEF Good, Sound, Coherent
<1> QED
  BY <1>1, <1>2, SendsAndFrees

(* The answer of a join becomes the status of its attempt, and its entry is *)
(* known.                                                                   *)
LEMMA PostIsAnswered ==
  ASSUME NEW c, NEW o, NEW x, NEW n \in Nat, Good(c, o, x, n), NEW r \in c.requests,
         IsOwn(c, r), ~c.connectionRequested, r.answer \in MachineStates
  PROVE  Good([Freed(c, r) EXCEPT !.status = r.answer], o, x, n)
<1> DEFINE b == Freed(c, r)  d == [b EXCEPT !.status = r.answer]
<1>1. /\ c \in Clients /\ Streams(c) /\ Pending(c) /\ Parts(c) /\ Workers(c)
      /\ Bounded(c, n) /\ Roles(c) /\ Requests(c) /\ Joins(c, x) /\ Apart(c, x)
      /\ Entries(c, o, x) /\ Sites(c, o) /\ r \in Asks
  BY DEF Good, Sound, Coherent, Clients
<1>2. /\ b \in Clients /\ Beside(c, b) /\ b.busy = FALSE /\ b.requests = c.requests \ {r}
  BY <1>1, SendsAndFrees
<1>3. Parts(b) /\ Workers(b) /\ Bounded(b, n) /\ Roles(b) /\ Streams(b)
  BY <1>1, <1>2, BesideIsSound
<1>4. Pending(b)
  BY <1>1, <1>2 DEF Pending, ConnectionBusy, Beside
<1> HIDE DEF b
<1>5. /\ d \in Clients /\ d.status = r.answer /\ d.requests = c.requests \ {r}
      /\ d.active = c.active /\ d.busy = FALSE
      /\ d.attempt = c.attempt /\ d.user = c.user /\ d.account = c.account
      /\ d.joinRequested = c.joinRequested /\ d.connectionRequested = c.connectionRequested
      /\ d.join = c.join /\ d.cleanup = c.cleanup /\ d.cancelQueued = c.cancelQueued
  <2>1. d \in Clients
    BY <1>2 DEF Clients, Known
  <2> QED
    BY <1>2, <2>1 DEF Clients, Beside
<1>6. Streams(d) /\ Pending(d) /\ Parts(d) /\ Workers(d) /\ Bounded(d, n) /\ Roles(d)
  <2>1. Streams(d) /\ Pending(d) /\ Parts(d)
    BY <1>2, <1>3, <1>4 DEF Streams, Pending, ConnectionBusy, Parts, Clients
  <2>2. Workers(d) /\ Bounded(d, n) /\ Roles(d)
    BY <1>2, <1>3, <1>4 DEF Workers, Bounded, Roles, Clients
  <2> QED
    BY <2>1, <2>2
<1> HIDE DEF d
<1>7. /\ r.kind = "post" /\ c.active /\ r.attempt = c.attempt /\ r.user = c.user
      /\ r.account = c.account /\ c.joinRequested /\ r.answer # "idle"
  BY <1>1 DEF Requests, IsOwn, IsPost
<1>8. Requests(d)
  <2>1. IsFiniteSet(d.requests)
    BY <1>1, <1>5, FS_RemoveElement DEF Requests
  <2> QED
    BY <1>1, <1>5, <2>1 DEF Requests, IsOwn, IsPost
<1>9. Joins(d, x)
  BY <1>1, <1>5 DEF Joins, IsOwn, IsPost, Waits
<1>10. c.attempt \notin x => Exclusive(c) = {r}
  <2>1. r \in Exclusive(c) /\ Asking(c)
    BY <1>7 DEF Exclusive, Asking
  <2> QED
    BY <1>1, <2>1 DEF Apart, Alone
<1>11. Apart(d, x)
  BY <1>5, <1>10 DEF Apart, Asking, Exclusive
<1>12. Entries(d, o, x)
  <2> SUFFICES ASSUME NEW u \in Users, o[u] > 0, o[u] \notin x, ~Removes(c, o[u], u)
               PROVE  Owns(d, o[u], u)
    BY <1>5 DEF Entries, Removes
  <2>1. Owns(c, o[u], u)
    BY <1>1 DEF Entries
  <2>2. Exclusive(c) = {r}
    BY <1>10, <2>1 DEF Owns
  <2>3. r.answer = "queued"
    BY <1>1, <2>1 DEF Owns, Queued, Requests, IsOwn
  <2>4. \A p \in d.requests : ~IsOwn(d, p) /\ p.kind # "status"
    <3> SUFFICES ASSUME NEW p \in c.requests, p # r PROVE ~IsOwn(c, p) /\ p.kind # "status"
      BY <1>5 DEF IsOwn
    <3> QED
      BY <1>1, <1>7, <2>2 DEF Requests, Exclusive, IsOwn, IsPost
  <2> QED
    BY <1>5, <2>1, <2>3, <2>4 DEF Owns, Asking, Queued
<1>13. Sites(d, o)
  BY <1>1, <1>5, <1>7 DEF Sites
<1> QED
  BY <1>5, <1>6, <1>8, <1>9, <1>11, <1>12, <1>13 DEF Good, Sound, Coherent, d, b

(* A cleanup is sent after the join it waited for. *)
LEMMA CleanupIsSent ==
  ASSUME NEW c, NEW o, NEW x, NEW n \in Nat, Good(c, o, x, n), NEW r,
         c.active \/ \A p \in c.requests : IsPost(p) => p.attempt # r.attempt
  PROVE  Good(CleanupGoes(c, r), o, x, n)
<1> DEFINE d == CleanupGoes(c, r)
<1>1. /\ c \in Clients /\ Streams(c) /\ Pending(c) /\ Parts(c) /\ Workers(c)
      /\ Bounded(c, n) /\ Roles(c) /\ Requests(c) /\ Joins(c, x) /\ Apart(c, x)
      /\ Entries(c, o, x) /\ Sites(c, o)
  BY DEF Good, Sound, Coherent
<1>2. CASE c.cleanup.st = "waiting" /\ IsLatestJoin(c, r)
  <2>1. c.cleanup \in Cleanups
    BY <1>1 DEF Clients
  <2>2. d = [c EXCEPT !.cleanup.st = "sent"]
    BY <1>1, <1>2, <2>1 DEF CleanupGoes, Clients, Cleanups
  <2>3. /\ d \in Clients /\ d.cleanup.st = "sent" /\ d.cleanup.attempt = c.cleanup.attempt
        /\ d.cleanup.user = c.cleanup.user
    BY <1>1, <2>1, <2>2 DEF Clients, Cleanups
  <2>4. Beside(c, [d EXCEPT !.cleanup = c.cleanup]) /\ d.requests = c.requests /\ d.busy = c.busy
    BY <1>1, <2>2 DEF Beside, Clients
  <2>5. /\ d.active = c.active /\ d.attempt = c.attempt /\ d.joinRequested = c.joinRequested
        /\ d.connectionRequested = c.connectionRequested /\ d.cancelQueued = c.cancelQueued
        /\ d.status = c.status /\ d.user = c.user /\ d.account = c.account
        /\ d.join = c.join /\ d.loggedIn = c.loggedIn
        /\ d.refreshing = c.refreshing /\ d.waitingForApps = c.waitingForApps
        /\ d.computer = c.computer /\ d.poll = c.poll /\ d.deadline = c.deadline
        /\ d.session = c.session /\ d.tasks = c.tasks /\ d.pin = c.pin
    BY <1>1, <2>2 DEF Clients
  <2> HIDE DEF d
  <2>6. Streams(d) /\ Pending(d) /\ Parts(d) /\ Workers(d) /\ Bounded(d, n)
    <3>1. Streams(d) /\ Pending(d) /\ Parts(d)
      BY <1>1, <2>4, <2>5 DEF Streams, Pending, ConnectionBusy, Parts
    <3> QED
      BY <1>1, <2>5, <3>1 DEF Workers, Bounded
  <2>7. Roles(d)
    BY <1>1, <1>2, <2>3, <2>5 DEF Roles
  <2>8. ~c.active /\ c.join = r.attempt
    BY <1>1, <1>2 DEF Roles, IsLatestJoin
  <2>9. Requests(d) /\ Apart(d, x)
    BY <1>1, <2>4, <2>5 DEF Requests, IsOwn, IsPost, Apart, Asking, Alone, Exclusive
  <2>10. Joins(d, x)
    BY <1>1, <2>4, <2>5, <2>8 DEF Joins, Waits, IsOwn
  <2>11. Entries(d, o, x)
    BY <1>1, <1>2, <2>3, <2>5, <2>8 DEF Entries, Owns, Asking, Removes
  <2>12. Sites(d, o)
    BY <1>1, <2>3, <2>4, <2>5 DEF Sites
  <2> QED
    BY <2>3, <2>6, <2>7, <2>9, <2>10, <2>11, <2>12 DEF Good, Sound, Coherent, d
<1>3. CASE ~(c.cleanup.st = "waiting" /\ IsLatestJoin(c, r))
  <2>1. c.cleanup \in Cleanups
    BY <1>1 DEF Clients
  <2>2. d = c
    BY <1>1, <1>3, <2>1 DEF CleanupGoes, Clients, Cleanups
  <2> QED
    BY <2>2
<1> QED
  BY <1>2, <1>3

(* An attempt that goes on with the next step is still in progress. *)
LEMMA DriveStays ==
  ASSUME NEW c \in Clients
  PROVE  Drive(c).active = c.active
<1>1. ASSUME NEW a \in Clients, NEW r PROVE Send(a, r).active = a.active
  BY DEF Send, SetBusy, Clients
<1>2. ASSUME NEW a \in Clients
      PROVE  RequestConnection(a).active = a.active /\ JoinQueue(a).active = a.active
  <2>1. Send(a, Request(a, "connection")).active = a.active
    BY <1>1
  <2>2. Send(a, Join(a)).active = a.active
    BY <1>1
  <2>3. [Send(a, Join(a)) EXCEPT !.join = a.attempt].active = Send(a, Join(a)).active
    BY DEF Send, SetBusy, Clients
  <2> HIDE DEF Send
  <2> QED
    BY <2>1, <2>2, <2>3 DEF RequestConnection, JoinQueue
<1>3. Connects(c) \in Clients /\ Connects(c).active = c.active
  BY DEF Connects, Clients
<1>4. /\ [c EXCEPT !.joinRequested = TRUE] \in Clients
      /\ [c EXCEPT !.joinRequested = TRUE].active = c.active
  BY DEF Clients
<1> HIDE DEF Connects
<1> QED
  BY <1>2, <1>3, <1>4 DEF Drive

(* A status leaves the attempt in progress, or sends nothing. *)
LEMMA StatusSendsNothing ==
  ASSUME NEW c, NEW o, NEW x, NEW n \in Nat, NEW s \in MachineStates, c \in Clients,
         c.active /\ ~c.connectionRequested => Good([c EXCEPT !.status = s], o, x, n)
  PROVE  LET d == StatusReceived(c, s) IN d.active \/ d.requests \subseteq c.requests
<1> DEFINE d == [c EXCEPT !.status = s]
<1>1. s # "invalid"
  BY DEF MachineStates
<1>2. CASE ~c.active \/ c.connectionRequested
  BY <1>2 DEF StatusReceived
<1>3. CASE c.active /\ ~c.connectionRequested
  <2>1. StatusReceived(c, s) = IF s = "ending" THEN Cancel(d) ELSE Drive(d)
    BY <1>1, <1>3 DEF StatusReceived, ReportError
  <2>2. Good(d, o, x, n) /\ d \in Clients /\ d.active /\ d.requests = c.requests
    BY <1>3 DEF Good, Sound, Clients
  <2> HIDE DEF d
  <2>3. Cancel(d).requests \subseteq c.requests /\ Drive(d).active
    BY <2>2, CancelGood, DriveStays
  <2> QED
    BY <2>1, <2>3
<1> QED
  BY <1>2, <1>3

(* A change of the account ends the attempt, and what it asked for is not *)
(* answered.                                                              *)
LEMMA AccountIsLeft ==
  ASSUME NEW c, NEW o, NEW x, NEW n \in Nat, Good(c, o, x, n)
  PROVE  LET d == AccountChanges(c) IN
         /\ Good(d, o, x, n) /\ ~d.active /\ d.user = c.user
         /\ \A r \in d.requests : r.kind \notin {"status", "login", "connection"}
<1> DEFINE d == Cancel(c)
           s == {r \in d.requests : r.kind \in {"post", "connection", "upload"}}
           e == [d EXCEPT !.account = d.account + 1, !.requests = s]
<1>1. Good(d, o, x, n) /\ ~d.active /\ AccountChanges(c) = e /\ d.user = c.user
  BY CancelGood DEF AccountChanges
<1>2. \A r \in s : r \in d.requests /\ r.kind \in {"post", "connection", "upload"}
  OBVIOUS
<1> HIDE DEF d
<1>3. /\ d \in Clients /\ Streams(d) /\ Pending(d) /\ Parts(d) /\ Workers(d)
      /\ Bounded(d, n) /\ Roles(d) /\ Requests(d) /\ Joins(d, x) /\ Apart(d, x)
      /\ Entries(d, o, x) /\ Sites(d, o)
  BY <1>1 DEF Good, Sound, Coherent
<1>4. s \in SUBSET Asks /\ IsFiniteSet(s)
  <2>1. s \in SUBSET d.requests
    OBVIOUS
  <2> QED
    BY <1>3, <2>1, FS_Subset DEF Clients, Requests
<1> HIDE DEF s
<1>5. /\ e \in Clients /\ e.requests = s /\ ~e.active /\ e.user = d.user
      /\ e.attempt = d.attempt /\ e.joinRequested = d.joinRequested
      /\ e.connectionRequested = d.connectionRequested /\ e.cancelQueued = d.cancelQueued
      /\ e.join = d.join /\ e.cleanup = d.cleanup /\ e.loggedIn = d.loggedIn
      /\ e.refreshing = d.refreshing /\ e.pin = d.pin /\ e.session = d.session
  <2>1. d.account + 1 \in Nat
    BY <1>3 DEF Clients
  <2> QED
    BY <1>1, <1>3, <1>4, <2>1 DEF Clients
<1>6. Parts(e) /\ Workers(e) /\ Bounded(e, n)
  BY <1>3 DEF Parts, Workers, Bounded, Clients
<1> HIDE DEF e
<1>7. \A r \in e.requests : r \in d.requests /\ r.kind \in {"post", "upload"}
  BY <1>1, <1>2, <1>3, <1>5 DEF Pending, ConnectionBusy
<1>8. Streams(e) /\ Pending(e) /\ Roles(e)
  BY <1>1, <1>3, <1>5, <1>7 DEF Streams, Pending, ConnectionBusy, Roles
<1>9. Requests(e)
  BY <1>3, <1>4, <1>5, <1>7 DEF Requests, IsOwn, IsPost
<1>10. Joins(e, x)
  BY <1>1, <1>3, <1>5, <1>7 DEF Joins, IsOwn, IsPost, Waits
<1>11. Apart(e, x) /\ Entries(e, o, x)
  BY <1>1, <1>3, <1>5 DEF Apart, Asking, Entries, Owns, Removes
<1>12. Sites(e, o)
  BY <1>3, <1>5, <1>7 DEF Sites
<1> QED
  BY <1>1, <1>5, <1>6, <1>7, <1>8, <1>9, <1>10, <1>11, <1>12 DEF Good, Sound, Coherent

(* Without an attempt, and without a request that is its account's, any *)
(* account may be logged in, or none.                                   *)
LEMMA AccountIsSet ==
  ASSUME NEW c, NEW o, NEW x, NEW n \in Nat, Good(c, o, x, n), ~c.active,
         \A r \in c.requests : r.kind \notin {"status", "login", "connection"},
         NEW u \in Anybody, NEW l \in BOOLEAN, l => u # Nobody
  PROVE  Good([c EXCEPT !.refreshing = FALSE, !.user = u, !.loggedIn = l], o, x, n)
<1> DEFINE d == [c EXCEPT !.refreshing = FALSE, !.user = u, !.loggedIn = l]
<1>1. /\ c \in Clients /\ Streams(c) /\ Pending(c) /\ Parts(c) /\ Workers(c)
      /\ Bounded(c, n) /\ Roles(c) /\ Requests(c) /\ Joins(c, x) /\ Apart(c, x)
      /\ Entries(c, o, x) /\ Sites(c, o)
  BY DEF Good, Sound, Coherent
<1>2. /\ d \in Clients /\ ~d.active /\ d.requests = c.requests /\ d.attempt = c.attempt
      /\ d.cancelQueued = c.cancelQueued /\ d.join = c.join /\ d.cleanup = c.cleanup
      /\ ~d.refreshing /\ d.loggedIn = l /\ d.user = u /\ d.pin = c.pin
      /\ d.session = c.session
  BY <1>1 DEF Clients
<1>3. Parts(d) /\ Workers(d) /\ Bounded(d, n)
  BY <1>1 DEF Parts, Workers, Bounded, Clients
<1> HIDE DEF d
<1>4. Streams(d) /\ Pending(d) /\ Roles(d)
  BY <1>1, <1>2 DEF Streams, Pending, ConnectionBusy, Roles
<1>5. Requests(d) /\ Joins(d, x)
  BY <1>1, <1>2 DEF Requests, Joins, IsOwn, IsPost, Waits
<1>6. Apart(d, x) /\ Entries(d, o, x) /\ Sites(d, o)
  BY <1>1, <1>2 DEF Apart, Asking, Entries, Owns, Removes, Sites
<1> QED
  BY <1>2, <1>3, <1>4, <1>5, <1>6 DEF Good, Sound, Coherent, d

(* Without an attempt, the flag keeps nothing apart. *)
LEMMA FlagIsSet ==
  ASSUME NEW c, NEW o, NEW x, NEW n \in Nat, Good(c, o, x, n), ~c.active, NEW b \in BOOLEAN
  PROVE  Good(SetBusy(c, b), o, x, n)
<1> DEFINE d == SetBusy(c, b)
<1>1. /\ c \in Clients /\ Streams(c) /\ Pending(c) /\ Parts(c) /\ Workers(c)
      /\ Bounded(c, n) /\ Roles(c) /\ Requests(c) /\ Joins(c, x) /\ Apart(c, x)
      /\ Entries(c, o, x) /\ Sites(c, o)
  BY DEF Good, Sound, Coherent
<1>2. d \in Clients /\ Beside(c, d) /\ d.requests = c.requests
  BY <1>1, SetsBusy
<1> HIDE DEF d
<1>3. Parts(d) /\ Workers(d) /\ Bounded(d, n) /\ Roles(d) /\ Streams(d)
  BY <1>1, <1>2, BesideIsSound
<1>4. Pending(d)
  BY <1>1, <1>2 DEF Pending, ConnectionBusy, Beside
<1>5. Requests(d) /\ Joins(d, x)
  BY <1>1, <1>2 DEF Requests, Joins, IsOwn, IsPost, Waits, Beside
<1>6. Apart(d, x) /\ Entries(d, o, x) /\ Sites(d, o)
  BY <1>1, <1>2 DEF Apart, Asking, Entries, Owns, Removes, Sites, Beside
<1> QED
  BY <1>2, <1>3, <1>4, <1>5, <1>6 DEF Good, Sound, Coherent, Beside, d

(* logout keeps the invariant. *)
LEMMA LogsOut ==
  ASSUME NEW c, NEW o, NEW x, NEW n \in Nat, Good(c, o, x, n)
  PROVE  Good(Logout(c), o, x, n)
<1> DEFINE b == AccountChanges(c)
           d == [b EXCEPT !.refreshing = FALSE]
           e == CancelConnectionRequests(d)
           f == SetBusy(e, FALSE)
           g == [f EXCEPT !.user = Nobody, !.loggedIn = FALSE]
<1>1. Logout(c) = g
  BY DEF Logout
<1>2. /\ Good(b, o, x, n) /\ ~b.active
      /\ \A r \in b.requests : r.kind \notin {"status", "login", "connection"}
  BY AccountIsLeft
<1> HIDE DEF b
<1>3. b \in Clients /\ Roles(b)
  BY <1>2 DEF Good, Sound, Coherent
<1>4. d = [b EXCEPT !.refreshing = FALSE, !.user = b.user, !.loggedIn = b.loggedIn]
  BY <1>3 DEF Clients
<1>5. ~d.active /\ ~d.refreshing /\ d.requests = b.requests
  BY <1>2, <1>3 DEF Clients
<1>6. Good(d, o, x, n)
  <2>1. b.user \in Anybody /\ b.loggedIn \in BOOLEAN /\ (b.loggedIn => b.user # Nobody)
    BY <1>3 DEF Clients, Roles
  <2> HIDE DEF d
  <2> QED
    BY <1>2, <1>4, <2>1, AccountIsSet
<1> HIDE DEF d
<1>7. /\ Good(e, o, x, n) /\ ~e.active /\ ~e.refreshing
      /\ \A r \in e.requests : r.kind \notin {"status", "login", "connection"}
  <2>1. Good(e, o, x, n)
    BY <1>5, <1>6, CancelsConnectionWell
  <2>2. ~e.active /\ ~e.refreshing /\ e.requests \subseteq d.requests
    BY <1>5, <1>6, CancelsConnection DEF Good
  <2> QED
    BY <1>2, <1>5, <2>1, <2>2
<1> HIDE DEF e
<1>8. /\ Good(f, o, x, n) /\ ~f.active /\ ~f.refreshing /\ f.requests = e.requests
  <2>1. Good(f, o, x, n)
    BY <1>7, FlagIsSet
  <2>2. e \in Clients
    BY <1>7 DEF Good, Sound
  <2> QED
    BY <1>7, <2>1, <2>2 DEF SetBusy, Clients
<1> HIDE DEF f
<1>9. g = [f EXCEPT !.refreshing = FALSE, !.user = Nobody, !.loggedIn = FALSE]
  <2>1. f \in Clients
    BY <1>8 DEF Good, Sound
  <2> QED
    BY <1>8, <2>1 DEF Clients
<1> HIDE DEF g
<1>10. Good([f EXCEPT !.refreshing = FALSE, !.user = Nobody, !.loggedIn = FALSE], o, x, n)
  <2>1. Nobody \in Anybody /\ FALSE \in BOOLEAN
    BY DEF Anybody
  <2>2. \A r \in f.requests : r.kind \notin {"status", "login", "connection"}
    BY <1>7, <1>8
  <2> QED
    BY <1>8, <2>1, <2>2, AccountIsSet
<1> QED
  BY <1>1, <1>9, <1>10

(* An attempt begins when no cleanup and no session is left. *)
LEMMA AttemptBegins ==
  ASSUME NEW c, NEW o, NEW x, NEW n \in Nat, Good(c, o, x, n),
         ~c.active, ~c.cancelQueued, c.user # Nobody, c.session.st = "none"
  PROVE  Good([c EXCEPT !.attempt = @ + 1, !.active = TRUE, !.joinRequested = FALSE,
                   !.status = "none", !.connectionRequested = FALSE,
                   !.waitingForApps = FALSE, !.computer = 0, !.poll = TRUE], o, x, n + 2)
<1> DEFINE d == [c EXCEPT !.attempt = @ + 1, !.active = TRUE, !.joinRequested = FALSE,
                   !.status = "none", !.connectionRequested = FALSE,
                   !.waitingForApps = FALSE, !.computer = 0, !.poll = TRUE]
<1>1. /\ c \in Clients /\ Streams(c) /\ Pending(c) /\ Parts(c) /\ Workers(c)
      /\ Bounded(c, n) /\ Roles(c) /\ Requests(c) /\ Joins(c, x) /\ Apart(c, x)
      /\ Entries(c, o, x) /\ Sites(c, o)
  BY DEF Good, Sound, Coherent
<1>2. /\ c.attempt \in Nat /\ c.attempt + 1 \in Nat /\ "none" \in Known /\ ~c.deadline
      /\ c.pin = 0 /\ ~ConnectionBusy(c)
  BY <1>1 DEF Clients, Known, Parts, Pending
<1>3. /\ d \in Clients /\ d.active /\ d.attempt = c.attempt + 1 /\ ~d.joinRequested
      /\ d.status = "none" /\ ~d.connectionRequested /\ d.cancelQueued = c.cancelQueued
      /\ d.requests = c.requests /\ d.join = c.join /\ d.cleanup = c.cleanup
      /\ d.user = c.user /\ d.account = c.account /\ d.session = c.session /\ d.pin = 0
      /\ d.tasks = c.tasks /\ ~d.waitingForApps /\ d.computer = 0 /\ ~d.deadline
      /\ d.loggedIn = c.loggedIn /\ d.refreshing = c.refreshing
  <2>1. d \in Clients
    BY <1>1, <1>2 DEF Clients
  <2> QED
    BY <1>1, <1>2, <2>1 DEF Clients
<1> HIDE DEF d
<1>4. \A r \in c.requests : r.attempt \in Nat /\ r.attempt <= c.attempt /\ c.join <= c.attempt
                              /\ c.join \in Nat
  BY <1>1 DEF Requests, Clients, Asks
<1>5. Streams(d) /\ Pending(d) /\ Parts(d) /\ Bounded(d, n + 2) /\ Roles(d)
  <2>1. Streams(d) /\ Pending(d) /\ Roles(d)
    BY <1>1, <1>2, <1>3 DEF Streams, Pending, ConnectionBusy, Roles
  <2>2. Parts(d) /\ Bounded(d, n + 2)
    BY <1>1, <1>2, <1>3 DEF Parts, Bounded
  <2> QED
    BY <2>1, <2>2
<1>6. Workers(d)
  <2> SUFFICES ASSUME NEW t \in c.tasks PROVE t.attempt \in 1 .. d.attempt /\ t.attempt # d.attempt
    BY <1>3 DEF Workers
  <2>1. t.attempt \in 1 .. c.attempt
    BY <1>1 DEF Workers
  <2> QED
    BY <1>2, <1>3, <2>1
<1>7. \A r \in c.requests : ~IsOwn(d, r)
  BY <1>2, <1>3, <1>4 DEF IsOwn
<1>8. Requests(d)
  <2>1. c.join <= d.attempt /\ \A r \in c.requests : r.attempt <= d.attempt
    <3>1. c.join \in Nat /\ c.join <= c.attempt
      BY <1>1 DEF Requests, Clients
    <3> QED
      BY <1>2, <1>3, <1>4, <3>1
  <2> QED
    BY <1>1, <1>3, <1>7, <2>1 DEF Requests
<1>9. Joins(d, x)
  BY <1>1, <1>3 DEF Joins, IsOwn, Waits, Roles
<1>10. Apart(d, x) /\ Entries(d, o, x) /\ Sites(d, o)
  BY <1>1, <1>3 DEF Apart, Asking, Entries, Owns, Removes, Sites
<1> QED
  BY <1>3, <1>5, <1>6, <1>8, <1>9, <1>10 DEF Good, Sound, Coherent, d

(* The end of a stream keeps the invariant. *)
LEMMA Finishes ==
  ASSUME NEW c, NEW o, NEW x, NEW n \in Nat, Good(c, o, x, n), c.session.st = "open"
  PROVE  Good(Finish([c EXCEPT !.session.st = "finished"]), o, x, n)
<1> DEFINE d == [c EXCEPT !.session.st = "finished"]
           e == StopPreparation([d EXCEPT !.active = FALSE])
<1>1. /\ c \in Clients /\ Streams(c) /\ Pending(c) /\ Parts(c) /\ Workers(c)
      /\ Bounded(c, n) /\ Roles(c) /\ Requests(c) /\ Joins(c, x) /\ Apart(c, x)
      /\ Entries(c, o, x) /\ Sites(c, o)
  BY DEF Good, Sound, Coherent
<1>2. d \in Clients /\ d.session.st = "finished" /\ d.session.host = d.session.attempt
  BY <1>1 DEF Clients, Sessions, Parts
<1>3. e \in Clients /\ e.session.st = "finished"
  BY <1>2 DEF Clients, StopPreparation
<1>4. Parts(e) /\ Workers(e) /\ Bounded(e, n) /\ Roles(e)
  <2>1. Parts(e) /\ Bounded(e, n)
    BY <1>1, <1>2 DEF Parts, Bounded, Clients, StopPreparation
  <2>2. Workers(e) /\ Roles(e)
    BY <1>1, <1>2 DEF Workers, Roles, Tasks, Clients, StopPreparation
  <2> QED
    BY <2>1, <2>2
<1>5. /\ ~e.active /\ e.requests = c.requests /\ e.attempt = c.attempt /\ e.join = c.join
      /\ e.cleanup = c.cleanup /\ e.cancelQueued = c.cancelQueued /\ e.account = c.account
      /\ e.user = c.user
  BY <1>1 DEF Clients, StopPreparation
<1>6. c.active => c.connectionRequested
  BY <1>1 DEF Parts
<1>7. Finish(d) = CancelConnectionRequests(e)
  BY DEF Finish
<1> HIDE DEF d, e
<1>8. Requests(e) /\ Joins(e, x)
  BY <1>1, <1>5, <1>6 DEF Requests, Joins, IsOwn, IsPost, Waits
<1>9. Apart(e, x) /\ Entries(e, o, x) /\ Sites(e, o)
  BY <1>1, <1>5, <1>6 DEF Apart, Asking, Entries, Owns, Removes, Sites
<1>10. Sound(e, o, x, n)
  BY <1>3, <1>4, <1>8, <1>9 DEF Sound, Coherent
<1>11. Good(CancelConnectionRequests(e), o, x, n)
  BY <1>3, <1>5, <1>10, CancelsConnection DEF Good, Streams
<1> QED
  BY <1>7, <1>11 DEF d

(* A cleanup of which nothing but its state changes. *)
LEMMA CleanupIsSet ==
  ASSUME NEW c, NEW o, NEW x, NEW y, NEW n \in Nat, Good(c, o, x, n), ~c.active,
         x \subseteq y, NEW d \in Clients, c.cleanup.st # "waiting",
         Beside(c, [d EXCEPT !.cleanup = c.cleanup, !.cancelQueued = c.cancelQueued]),
         d.requests = c.requests, d.busy = c.busy,
         d.cancelQueued <=> d.cleanup.st # "done",
         d.cancelQueued => /\ c.cancelQueued /\ d.cleanup.attempt = c.cleanup.attempt
                           /\ d.cleanup.user = c.cleanup.user,
         \A u \in Users : o[u] > 0 /\ Removes(c, o[u], u) => o[u] \in y \/ Removes(d, o[u], u)
  PROVE  Good(d, o, y, n)
<1>1. /\ c \in Clients /\ Streams(c) /\ Pending(c) /\ Parts(c) /\ Workers(c)
      /\ Bounded(c, n) /\ Roles(c) /\ Requests(c) /\ Joins(c, x) /\ Apart(c, x)
      /\ Entries(c, o, x) /\ Sites(c, o)
  BY DEF Good, Sound, Coherent
<1>2. /\ d.active = c.active /\ d.attempt = c.attempt /\ d.joinRequested = c.joinRequested
      /\ d.connectionRequested = c.connectionRequested
      /\ d.status = c.status /\ d.user = c.user /\ d.account = c.account
      /\ d.join = c.join /\ d.loggedIn = c.loggedIn
      /\ d.refreshing = c.refreshing /\ d.waitingForApps = c.waitingForApps
      /\ d.computer = c.computer /\ d.poll = c.poll /\ d.deadline = c.deadline
      /\ d.session = c.session /\ d.tasks = c.tasks /\ d.pin = c.pin
  BY <1>1 DEF Clients, Beside
<1>3. Streams(d) /\ Pending(d) /\ Parts(d) /\ Workers(d) /\ Bounded(d, n)
  <2>1. Streams(d) /\ Pending(d) /\ Parts(d)
    BY <1>1, <1>2 DEF Streams, Pending, ConnectionBusy, Parts
  <2> QED
    BY <1>1, <1>2, <2>1 DEF Workers, Bounded
<1>4. Roles(d)
  BY <1>1, <1>2 DEF Roles
<1>5. Requests(d)
  BY <1>1, <1>2 DEF Requests, IsOwn, IsPost
<1>6. Joins(d, y)
  BY <1>1, <1>2 DEF Joins, Waits, IsOwn
<1>7. Apart(d, y) /\ Entries(d, o, y)
  BY <1>1, <1>2 DEF Apart, Asking, Entries, Owns
<1>8. Sites(d, o)
  BY <1>1, <1>2 DEF Sites
<1> QED
  BY <1>3, <1>4, <1>5, <1>6, <1>7, <1>8 DEF Good, Sound, Coherent

(* The server has removed the entry. *)
LEMMA CleanupIsServed ==
  ASSUME NEW c, NEW o, NEW x, NEW n \in Nat, Good(c, o, x, n),
         c.cleanup.st = "sent", ~(o[c.cleanup.user] > 0)
  PROVE  Good([c EXCEPT !.cleanup.st = "served"], o, x, n)
<1> DEFINE d == [c EXCEPT !.cleanup.st = "served"]
<1>1. c \in Clients /\ Roles(c) /\ c.cleanup \in Cleanups
  BY DEF Good, Sound, Coherent, Clients
<1>2. /\ d \in Clients /\ d.requests = c.requests /\ d.busy = c.busy
      /\ d.cleanup.st = "served" /\ d.cleanup.attempt = c.cleanup.attempt
      /\ d.cleanup.user = c.cleanup.user /\ d.cancelQueued = c.cancelQueued
      /\ Beside(c, [d EXCEPT !.cleanup = c.cleanup, !.cancelQueued = c.cancelQueued])
  <2>1. d \in Clients
    BY <1>1 DEF Clients, Cleanups
  <2> QED
    BY <1>1, <2>1 DEF Clients, Cleanups, Beside
<1> HIDE DEF d
<1>3. ~c.active /\ c.cancelQueued
  BY <1>1 DEF Roles
<1>4. \A u \in Users : o[u] > 0 => ~Removes(c, o[u], u)
  BY DEF Removes
<1>5. Good(d, o, x, n)
  BY <1>2, <1>3, <1>4, CleanupIsSet
<1> QED
  BY <1>5 DEF d

(* A cleanup ends: it was served, or no answer told so. *)
LEMMA CleanupIsOver ==
  ASSUME NEW c, NEW o, NEW x, NEW n \in Nat, Good(c, o, x, n),
         c.cleanup.st \in {"sent", "served"}, NEW y, x \subseteq y,
         c.cleanup.st = "served" \/ c.cleanup.attempt \in y
  PROVE  Good(CleanupEnds(c), o, y, n)
<1> DEFINE d == CleanupEnds(c)
<1>1. c \in Clients /\ Roles(c) /\ NoCleanup \in Cleanups /\ NoCleanup.st = "done"
  BY DEF Good, Sound, Coherent, NoCleanup, Cleanups, Anybody
<1>2. /\ d \in Clients /\ d.requests = c.requests /\ d.busy = c.busy
      /\ d.cleanup.st = "done" /\ ~d.cancelQueued
      /\ Beside(c, [d EXCEPT !.cleanup = c.cleanup, !.cancelQueued = c.cancelQueued])
  <2>1. d \in Clients
    BY <1>1 DEF Clients, CleanupEnds
  <2> QED
    BY <1>1, <2>1 DEF Clients, CleanupEnds, Beside
<1> HIDE DEF d
<1>3. ~c.active
  BY <1>1 DEF Roles
<1>4. \A u \in Users : Removes(c, o[u], u) => o[u] \in y
  BY DEF Removes
<1>5. Good(d, o, y, n)
  BY <1>2, <1>3, <1>4, CleanupIsSet
<1> QED
  BY <1>5 DEF d

(* So does the removal of entries, and an entry that is excused. *)
LEMMA OwnersChange ==
  ASSUME NEW c, NEW o, NEW x, NEW n \in Nat, Good(c, o, x, n), NEW r,
         \A u \in Users : r[u] = o[u] \/ r[u] = NoEntry \/ (r[u] > 0 /\ r[u] \in x)
  PROVE  Good(c, r, x, n)
<1>1. Roles(c) /\ Requests(c) /\ Entries(c, o, x) /\ Sites(c, o) /\ c \in Clients
  BY DEF Good, Sound, Coherent
<1>2. Entries(c, r, x)
  BY <1>1 DEF Entries, NoEntry
<1>3. \A u \in Users : o[u] # Site => r[u] # Site
  BY DEF NoEntry, Site
<1>4. c.user # Nobody => c.user \in Users
  BY <1>1 DEF Clients, Anybody
<1>5. c.cleanup.user # Nobody => c.cleanup.user \in Users
  BY <1>1 DEF Clients, Anybody, Cleanups
<1>6. \A a \in c.requests : a.user # Nobody => a.user \in Users
  BY <1>1 DEF Clients, Anybody, Asks
<1>7. Sites(c, r)
  BY <1>1, <1>3, <1>4, <1>5, <1>6 DEF Sites, Requests, Roles
<1> QED
  BY <1>2, <1>7 DEF Good, Sound, Coherent

(* The answer to a request that is written at the server. *)
LEMMA AnswersRequest ==
  ASSUME NEW c \in Clients, NEW r \in c.requests, NEW s \in MachineStates
  PROVE  LET d == Answered(c, r, s)  a == [r EXCEPT !.answer = s] IN
         /\ d \in Clients /\ Beside(c, d) /\ d.busy = c.busy
         /\ d.requests = (c.requests \ {r}) \cup {a} /\ a.answer = s
         /\ a.kind = r.kind /\ a.attempt = r.attempt /\ a.user = r.user
         /\ a.account = r.account
         /\ IsFiniteSet(c.requests) => IsFiniteSet(d.requests)
<1> DEFINE d == Answered(c, r, s)  a == [r EXCEPT !.answer = s]
<1>1. r \in Asks
  BY DEF Clients
<1>2. /\ a \in Asks /\ a.answer = s /\ a.kind = r.kind /\ a.attempt = r.attempt
      /\ a.user = r.user /\ a.account = r.account
  BY <1>1 DEF Asks, Known
<1> HIDE DEF a
<1>3. (c.requests \ {r}) \cup {a} \in SUBSET Asks
  BY <1>2 DEF Clients
<1>4. d = [c EXCEPT !.requests = (c.requests \ {r}) \cup {a}]
  BY DEF Answered, a
<1>5. /\ d \in Clients /\ Beside(c, d) /\ d.busy = c.busy
      /\ d.requests = (c.requests \ {r}) \cup {a}
  BY <1>3, <1>4 DEF Clients, Beside
<1>6. IsFiniteSet(c.requests) => IsFiniteSet((c.requests \ {r}) \cup {a})
  BY FS_RemoveElement, FS_AddElement
<1> HIDE DEF d
<1> QED
  BY <1>2, <1>5, <1>6 DEF a, d

(* The server answers the request of a status; an entry that is not reported *)
(* is not of an attempt.                                                     *)
LEMMA StatusIsRead ==
  ASSUME NEW c, NEW o, NEW x, NEW n \in Nat, Good(c, o, x, n), NEW r \in c.requests,
         r.kind = "status", NEW s \in MachineStates,
         s = "queued" \/ (~(o[r.user] > 0) /\ o[r.user] # Site)
  PROVE  Good(Answered(c, r, s), o, x, n)
<1> DEFINE d == Answered(c, r, s)  a == [r EXCEPT !.answer = s]
<1>1. /\ c \in Clients /\ Streams(c) /\ Pending(c) /\ Parts(c) /\ Workers(c)
      /\ Bounded(c, n) /\ Roles(c) /\ Requests(c) /\ Joins(c, x) /\ Apart(c, x)
      /\ Entries(c, o, x) /\ Sites(c, o)
  BY DEF Good, Sound, Coherent
<1>2. /\ d \in Clients /\ Beside(c, d) /\ d.busy = c.busy
      /\ d.requests = (c.requests \ {r}) \cup {a} /\ a.answer = s
      /\ a.kind = r.kind /\ a.attempt = r.attempt /\ a.user = r.user
      /\ a.account = r.account /\ IsFiniteSet(d.requests)
  BY <1>1, AnswersRequest DEF Requests
<1> HIDE DEF d, a
<1>3. Parts(d) /\ Workers(d) /\ Bounded(d, n) /\ Roles(d) /\ Streams(d)
  BY <1>1, <1>2, BesideIsSound
<1>4. Pending(d)
  BY <1>1, <1>2 DEF Pending, ConnectionBusy, Beside
<1>5. ~IsPost(a) /\ ~IsPost(r)
  BY <1>2 DEF IsPost
<1>6. Requests(d)
  BY <1>1, <1>2, <1>5 DEF Requests, IsOwn, IsPost, Beside
<1>7. Joins(d, x)
  BY <1>1, <1>2, <1>5 DEF Joins, IsOwn, IsPost, Waits, Beside
<1>8. Apart(d, x)
  <2> SUFFICES ASSUME Asking(c), c.attempt \notin x PROVE \A p \in Exclusive(d) : Alone(d, p)
    BY <1>2 DEF Apart, Asking, Beside
  <2>1. r \in Exclusive(c)
    BY <1>1 DEF Requests, Exclusive
  <2>2. Exclusive(c) = {r} /\ c.busy
    BY <1>1, <2>1 DEF Apart, Alone
  <2>3. Exclusive(d) = {a}
    BY <1>2, <2>1, <2>2 DEF Exclusive, Beside
  <2> QED
    BY <1>2, <1>5, <2>2, <2>3 DEF Alone
<1>9. Entries(d, o, x)
  <2> SUFFICES ASSUME NEW u \in Users, o[u] > 0, o[u] \notin x, ~Removes(c, o[u], u)
               PROVE  Owns(d, o[u], u)
    BY <1>2 DEF Entries, Removes, Beside
  <2>1. Owns(c, o[u], u)
    BY <1>1 DEF Entries
  <2>2. s = "queued"
    <3>1. u = c.user /\ r.user = c.user
      BY <1>1, <2>1 DEF Owns, Requests
    <3> QED
      BY <3>1
  <2> QED
    BY <1>2, <1>5, <2>1, <2>2 DEF Owns, Asking, Queued, IsOwn, Beside
<1>10. Sites(d, o)
  BY <1>1, <1>2 DEF Sites, Beside
<1> QED
  BY <1>2, <1>3, <1>4, <1>6, <1>7, <1>8, <1>9, <1>10 DEF Good, Sound, Coherent, d

(* The server takes the client into the queue: the entry belongs to the join *)
(* that asked.                                                               *)
LEMMA PostIsServed ==
  ASSUME NEW c, NEW o, NEW x, NEW n \in Nat, Good(c, o, x, n), NEW r \in c.requests,
         IsPost(r), r.answer = "none", NEW s \in MachineStates, s # "idle", NEW q,
         \A u \in Users : \/ q[u] = o[u]
                          \/ q[u] = r.attempt /\ u = r.user /\ s = "queued"
  PROVE  Good(Answered(c, r, s), q, x, n)
<1> DEFINE d == Answered(c, r, s)  a == [r EXCEPT !.answer = s]
<1>1. /\ c \in Clients /\ Streams(c) /\ Pending(c) /\ Parts(c) /\ Workers(c)
      /\ Bounded(c, n) /\ Roles(c) /\ Requests(c) /\ Joins(c, x) /\ Apart(c, x)
      /\ Entries(c, o, x) /\ Sites(c, o)
  BY DEF Good, Sound, Coherent
<1>2. /\ d \in Clients /\ Beside(c, d) /\ d.busy = c.busy
      /\ d.requests = (c.requests \ {r}) \cup {a} /\ a.answer = s
      /\ a.kind = r.kind /\ a.attempt = r.attempt /\ a.user = r.user
      /\ a.account = r.account /\ IsFiniteSet(d.requests)
  BY <1>1, AnswersRequest DEF Requests
<1> HIDE DEF d, a
<1>3. Parts(d) /\ Workers(d) /\ Bounded(d, n) /\ Roles(d) /\ Streams(d)
  BY <1>1, <1>2, BesideIsSound
<1>4. Pending(d)
  BY <1>1, <1>2 DEF Pending, ConnectionBusy, Beside, IsPost
<1>5. IsPost(a) /\ r.kind = "post" /\ r.attempt > 0
  BY <1>1, <1>2 DEF IsPost, Requests
<1>6. Requests(d)
  <2>1. \A p \in d.requests : \E b \in c.requests :
          /\ p.kind = b.kind /\ p.attempt = b.attempt /\ p.user = b.user
          /\ p.account = b.account /\ (p = b \/ (b = r /\ p = a))
    BY <1>2
  <2>2. \A p, b \in d.requests : IsPost(p) /\ IsPost(b) /\ p.attempt = b.attempt => p = b
    BY <1>1, <1>2 DEF Requests, IsPost
  <2> QED
    BY <1>1, <1>2, <1>5, <2>1, <2>2 DEF Requests, IsOwn, IsPost, Beside
<1>7. Joins(d, x)
  BY <1>1, <1>2, <1>5 DEF Joins, IsOwn, IsPost, Waits, Beside
<1>8. Apart(d, x)
  <2> SUFFICES ASSUME Asking(c), c.attempt \notin x PROVE \A p \in Exclusive(d) : Alone(d, p)
    BY <1>2 DEF Apart, Asking, Beside
  <2>1. CASE r \in Exclusive(c)
    <3>1. Exclusive(c) = {r} /\ c.busy /\ r.attempt = c.attempt
      BY <1>1, <2>1 DEF Apart, Alone
    <3>2. Exclusive(d) = {a}
      BY <1>2, <2>1, <3>1 DEF Exclusive, Beside
    <3> QED
      BY <1>2, <3>1, <3>2 DEF Alone, Beside
  <2>2. CASE r \notin Exclusive(c)
    <3>1. Exclusive(d) = Exclusive(c)
      BY <1>2, <2>2 DEF Exclusive, Beside
    <3> QED
      BY <1>1, <1>2, <3>1 DEF Apart, Alone, Beside
  <2> QED
    BY <2>1, <2>2
<1>9. Entries(d, q, x)
  <2>1. ASSUME NEW u \in Users, q[u] = o[u], o[u] > 0, o[u] \notin x, ~Removes(c, o[u], u)
        PROVE  Owns(d, o[u], u)
    <3>1. Owns(c, o[u], u)
      BY <1>1, <2>1 DEF Entries
    <3>2. ~IsOwn(c, r)
      BY <1>1, <3>1 DEF Owns, Queued, IsOwn, Requests
    <3>3. \A p \in c.requests : IsOwn(c, p) => p \in d.requests
      BY <1>2, <3>2
    <3>4. \A p \in d.requests : IsOwn(d, p) => p \in c.requests /\ IsOwn(c, p)
      BY <1>2, <3>2 DEF IsOwn, IsPost, Beside
    <3>5. \A p \in d.requests : p.kind = "status" => p \in c.requests
      BY <1>2, <1>5 DEF IsPost
    <3> QED
      BY <1>2, <3>1, <3>3, <3>4, <3>5 DEF Owns, Asking, Queued, IsOwn, Beside
  <2>2. ASSUME NEW u \in Users, q[u] = r.attempt, u = r.user, s = "queued"
        PROVE  q[u] \in x \/ Owns(d, q[u], u) \/ Removes(d, q[u], u)
    <3>1. CASE Waits(c, r)
      BY <1>1, <1>2, <2>2, <3>1 DEF Waits, Removes, Roles, Beside
    <3>2. CASE IsOwn(c, r) /\ ~c.connectionRequested
      <4>1. a \in d.requests /\ IsOwn(d, a) /\ a.answer = "queued"
        BY <1>2, <1>5, <2>2, <3>2 DEF IsOwn, Beside
      <4>2. Asking(d) /\ r.user = d.user /\ r.attempt = d.attempt
        BY <1>1, <1>2, <3>2 DEF Asking, Requests, IsOwn, Beside
      <4> QED
        BY <2>2, <4>1, <4>2 DEF Owns, Queued
    <3> QED
      BY <1>1, <2>2, <3>1, <3>2 DEF Joins
  <2> QED
    BY <1>2, <2>1, <2>2 DEF Entries, Removes, Beside
<1>10. Sites(d, q)
  <2>1. \A u \in Users : o[u] # Site => q[u] # Site
    BY <1>5 DEF Site
  <2>2. c.user # Nobody => c.user \in Users
    BY <1>1 DEF Clients, Anybody
  <2>3. c.cleanup.user # Nobody => c.cleanup.user \in Users
    BY <1>1 DEF Clients, Anybody, Cleanups
  <2>4. \A p \in c.requests : p.user # Nobody => p.user \in Users
    BY <1>1 DEF Clients, Anybody, Asks
  <2>5. \A p \in d.requests : p.kind = "status" => p \in c.requests
    BY <1>2, <1>5 DEF IsPost
  <2> QED
    BY <1>1, <1>2, <2>1, <2>2, <2>3, <2>4, <2>5 DEF Sites, Requests, Roles, Beside
<1> QED
  BY <1>2, <1>3, <1>4, <1>6, <1>7, <1>8, <1>9, <1>10 DEF Good, Sound, Coherent, d

(* The small changes of the client, one by one: the scheduled step of the *)
(* attempt is run.                                                        *)
LEMMA DriveIsRun ==
  ASSUME NEW c, NEW o, NEW x, NEW n \in Nat, Good(c, o, x, n)
  PROVE  Good([c EXCEPT !.drive = FALSE], o, x, n)
<1> DEFINE d == [c EXCEPT !.drive = FALSE]
<1>1. /\ c \in Clients /\ Streams(c) /\ Pending(c) /\ Parts(c) /\ Workers(c) /\ Roles(c)
  BY DEF Good, Sound, Coherent
<1>2. d \in Clients /\ Alike(c, d)
  BY <1>1 DEF Clients, Alike, Roles
<1>3. Streams(d) /\ Pending(d) /\ Parts(d)
  BY <1>1 DEF Streams, Pending, ConnectionBusy, Parts, Clients
<1>4. Workers(d)
  BY <1>1 DEF Workers, Clients
<1> HIDE DEF d
<1>5. Good(d, o, x, n)
  BY <1>2, <1>3, <1>4, AlikeIsGood
<1> QED
  BY <1>5 DEF d

(* The deadline passes. *)
LEMMA DeadlineIsOver ==
  ASSUME NEW c, NEW o, NEW x, NEW n \in Nat, Good(c, o, x, n)
  PROVE  Good([c EXCEPT !.deadline = FALSE], o, x, n)
<1> DEFINE d == [c EXCEPT !.deadline = FALSE]
<1>1. /\ c \in Clients /\ Streams(c) /\ Pending(c) /\ Parts(c) /\ Workers(c) /\ Roles(c)
  BY DEF Good, Sound, Coherent
<1>2. d \in Clients /\ Alike(c, d)
  BY <1>1 DEF Clients, Alike, Roles
<1>3. Streams(d) /\ Pending(d) /\ Parts(d)
  BY <1>1 DEF Streams, Pending, ConnectionBusy, Parts, Clients
<1>4. Workers(d)
  BY <1>1 DEF Workers, Clients
<1> HIDE DEF d
<1>5. Good(d, o, x, n)
  BY <1>2, <1>3, <1>4, AlikeIsGood
<1> QED
  BY <1>5 DEF d

(* A task of another thread ends. *)
LEMMA TaskIsOver ==
  ASSUME NEW c, NEW o, NEW x, NEW n \in Nat, Good(c, o, x, n), NEW t
  PROVE  Good([c EXCEPT !.tasks = @ \ {t}], o, x, n)
<1> DEFINE d == [c EXCEPT !.tasks = @ \ {t}]
<1>1. /\ c \in Clients /\ Streams(c) /\ Pending(c) /\ Parts(c) /\ Workers(c) /\ Roles(c)
  BY DEF Good, Sound, Coherent
<1>a. c.tasks \ {t} \in SUBSET Tasks
  BY <1>1 DEF Clients
<1>2. d \in Clients /\ Alike(c, d)
  BY <1>1, <1>a DEF Clients, Alike, Roles
<1>3. Streams(d) /\ Pending(d) /\ Parts(d)
  BY <1>1, <1>a DEF Streams, Pending, ConnectionBusy, Parts, Clients
<1>4. Workers(d)
  BY <1>1, <1>a DEF Workers, Clients
<1> HIDE DEF d
<1>5. Good(d, o, x, n)
  BY <1>2, <1>3, <1>4, AlikeIsGood
<1> QED
  BY <1>5 DEF d

(* A task is started to add the host. *)
LEMMA HostIsAdded ==
  ASSUME NEW c, NEW o, NEW x, NEW n \in Nat, Good(c, o, x, n),
         c.active, c.connectionRequested
  PROVE  Good([c EXCEPT !.tasks = @ \cup {[kind |-> "add", attempt |-> c.attempt]}], o, x, n)
<1> DEFINE d == [c EXCEPT !.tasks = @ \cup {[kind |-> "add", attempt |-> c.attempt]}]
<1>1. /\ c \in Clients /\ Streams(c) /\ Pending(c) /\ Parts(c) /\ Workers(c) /\ Roles(c)
  BY DEF Good, Sound, Coherent
<1>a. /\ c.attempt > 0 /\ c.attempt \in Nat
      /\ c.tasks \cup {[kind |-> "add", attempt |-> c.attempt]} \in SUBSET Tasks
  BY <1>1 DEF Roles, Clients, Tasks
<1>2. d \in Clients /\ Alike(c, d)
  BY <1>1, <1>a DEF Clients, Alike, Roles
<1>3. Streams(d) /\ Pending(d) /\ Parts(d)
  BY <1>1, <1>a DEF Streams, Pending, ConnectionBusy, Parts, Clients
<1>4. Workers(d)
  BY <1>1, <1>a DEF Workers, Clients
<1> HIDE DEF d
<1>5. Good(d, o, x, n)
  BY <1>2, <1>3, <1>4, AlikeIsGood
<1> QED
  BY <1>5 DEF d

(* The host of the attempt is known. *)
LEMMA HostIsKnown ==
  ASSUME NEW c, NEW o, NEW x, NEW n \in Nat, Good(c, o, x, n),
         c.active, c.connectionRequested
  PROVE  Good([c EXCEPT !.computer = c.attempt], o, x, n)
<1> DEFINE d == [c EXCEPT !.computer = c.attempt]
<1>1. /\ c \in Clients /\ Streams(c) /\ Pending(c) /\ Parts(c) /\ Workers(c) /\ Roles(c)
  BY DEF Good, Sound, Coherent
<1>2. d \in Clients /\ Alike(c, d)
  BY <1>1 DEF Clients, Alike, Roles
<1>3. Streams(d) /\ Pending(d) /\ Parts(d)
  BY <1>1 DEF Streams, Pending, ConnectionBusy, Parts, Clients
<1>4. Workers(d)
  BY <1>1 DEF Workers, Clients
<1> HIDE DEF d
<1>5. Good(d, o, x, n)
  BY <1>2, <1>3, <1>4, AlikeIsGood
<1> QED
  BY <1>5 DEF d

(* The list of its apps is awaited. *)
LEMMA AppsAreAwaited ==
  ASSUME NEW c, NEW o, NEW x, NEW n \in Nat, Good(c, o, x, n),
         c.active, c.connectionRequested, c.computer = c.attempt
  PROVE  Good([c EXCEPT !.waitingForApps = TRUE], o, x, n)
<1> DEFINE d == [c EXCEPT !.waitingForApps = TRUE]
<1>1. /\ c \in Clients /\ Streams(c) /\ Pending(c) /\ Parts(c) /\ Workers(c) /\ Roles(c)
  BY DEF Good, Sound, Coherent
<1>2. d \in Clients /\ Alike(c, d)
  BY <1>1 DEF Clients, Alike, Roles
<1>3. Streams(d) /\ Pending(d) /\ Parts(d)
  BY <1>1 DEF Streams, Pending, ConnectionBusy, Parts, Clients
<1>4. Workers(d)
  BY <1>1 DEF Workers, Clients
<1> HIDE DEF d
<1>5. Good(d, o, x, n)
  BY <1>2, <1>3, <1>4, AlikeIsGood
<1> QED
  BY <1>5 DEF d

(* A task is started to pair with it, and the PIN is shown. *)
LEMMA PairingBegins ==
  ASSUME NEW c, NEW o, NEW x, NEW n \in Nat, Good(c, o, x, n),
         c.active, c.connectionRequested, c.computer = c.attempt
  PROVE  Good([c EXCEPT !.tasks = @ \cup {[kind |-> "pair", attempt |-> c.attempt]},
                        !.pin = c.attempt], o, x, n)
<1> DEFINE d == [c EXCEPT !.tasks = @ \cup {[kind |-> "pair", attempt |-> c.attempt]},
                        !.pin = c.attempt]
<1>1. /\ c \in Clients /\ Streams(c) /\ Pending(c) /\ Parts(c) /\ Workers(c) /\ Roles(c)
  BY DEF Good, Sound, Coherent
<1>a. /\ c.attempt > 0 /\ c.attempt \in Nat
      /\ c.tasks \cup {[kind |-> "pair", attempt |-> c.attempt]} \in SUBSET Tasks
  BY <1>1 DEF Roles, Clients, Tasks
<1>2. d \in Clients /\ Alike(c, d)
  BY <1>1, <1>a DEF Clients, Alike, Roles
<1>3. Streams(d) /\ Pending(d) /\ Parts(d)
  BY <1>1, <1>a DEF Streams, Pending, ConnectionBusy, Parts, Clients
<1>4. Workers(d)
  BY <1>1, <1>a DEF Workers, Clients
<1> HIDE DEF d
<1>5. Good(d, o, x, n)
  BY <1>2, <1>3, <1>4, AlikeIsGood
<1> QED
  BY <1>5 DEF d

(* The delivery of the PIN ends. *)
LEMMA PinIsOver ==
  ASSUME NEW c, NEW o, NEW x, NEW n \in Nat, Good(c, o, x, n)
  PROVE  Good([c EXCEPT !.pin = 0], o, x, n)
<1> DEFINE d == [c EXCEPT !.pin = 0]
<1>1. /\ c \in Clients /\ Streams(c) /\ Pending(c) /\ Parts(c) /\ Workers(c) /\ Roles(c)
  BY DEF Good, Sound, Coherent
<1>2. d \in Clients /\ Alike(c, d)
  BY <1>1 DEF Clients, Alike, Roles
<1>3. Streams(d) /\ Pending(d) /\ Parts(d)
  BY <1>1 DEF Streams, Pending, ConnectionBusy, Parts, Clients
<1>4. Workers(d)
  BY <1>1 DEF Workers, Clients
<1> HIDE DEF d
<1>5. Good(d, o, x, n)
  BY <1>2, <1>3, <1>4, AlikeIsGood
<1> QED
  BY <1>5 DEF d

(* The session object is destroyed. *)
LEMMA SessionIsGone ==
  ASSUME NEW c, NEW o, NEW x, NEW n \in Nat, Good(c, o, x, n)
  PROVE  Good([c EXCEPT !.session = NoSession], o, x, n)
<1> DEFINE d == [c EXCEPT !.session = NoSession]
<1>1. /\ c \in Clients /\ Streams(c) /\ Pending(c) /\ Parts(c) /\ Workers(c) /\ Roles(c)
  BY DEF Good, Sound, Coherent
<1>a. NoSession \in Sessions /\ NoSession.st = "none"
  BY DEF NoSession, Sessions
<1>2. d \in Clients /\ Alike(c, d)
  BY <1>1, <1>a DEF Clients, Alike, Roles
<1>3. Streams(d) /\ Pending(d) /\ Parts(d)
  BY <1>1, <1>a DEF Streams, Pending, ConnectionBusy, Parts, Clients
<1>4. Workers(d)
  BY <1>1, <1>a DEF Workers, Clients
<1> HIDE DEF d
<1>5. Good(d, o, x, n)
  BY <1>2, <1>3, <1>4, AlikeIsGood
<1> QED
  BY <1>5 DEF d

(* A refresh of the tokens ends. *)
LEMMA RefreshIsOver ==
  ASSUME NEW c, NEW o, NEW x, NEW n \in Nat, Good(c, o, x, n)
  PROVE  Good([c EXCEPT !.refreshing = FALSE], o, x, n)
<1> DEFINE d == [c EXCEPT !.refreshing = FALSE]
<1>1. /\ c \in Clients /\ Streams(c) /\ Pending(c) /\ Parts(c) /\ Workers(c) /\ Roles(c)
  BY DEF Good, Sound, Coherent
<1>2. d \in Clients /\ Alike(c, d)
  BY <1>1 DEF Clients, Alike, Roles
<1>3. Streams(d) /\ Pending(d) /\ Parts(d)
  BY <1>1 DEF Streams, Pending, ConnectionBusy, Parts, Clients
<1>4. Workers(d)
  BY <1>1 DEF Workers, Clients
<1> HIDE DEF d
<1>5. Good(d, o, x, n)
  BY <1>2, <1>3, <1>4, AlikeIsGood
<1> QED
  BY <1>5 DEF d

(* The account is logged in again. *)
LEMMA SomebodyIsLoggedIn ==
  ASSUME NEW c, NEW o, NEW x, NEW n \in Nat, Good(c, o, x, n), c.user # Nobody
  PROVE  Good([c EXCEPT !.loggedIn = TRUE], o, x, n)
<1> DEFINE d == [c EXCEPT !.loggedIn = TRUE]
<1>1. /\ c \in Clients /\ Streams(c) /\ Pending(c) /\ Parts(c) /\ Workers(c) /\ Roles(c)
  BY DEF Good, Sound, Coherent
<1>2. d \in Clients /\ Alike(c, d)
  BY <1>1 DEF Clients, Alike, Roles
<1>3. Streams(d) /\ Pending(d) /\ Parts(d)
  BY <1>1 DEF Streams, Pending, ConnectionBusy, Parts, Clients
<1>4. Workers(d)
  BY <1>1 DEF Workers, Clients
<1> HIDE DEF d
<1>5. Good(d, o, x, n)
  BY <1>2, <1>3, <1>4, AlikeIsGood
<1> QED
  BY <1>5 DEF d

(* refreshTokens keeps the invariant. *)
LEMMA RefreshesTokens ==
  ASSUME NEW c, NEW o, NEW x, NEW n \in Nat, Good(c, o, x, n)
  PROVE  Good(RefreshTokens(c), o, x, n)
<1> DEFINE d == [c EXCEPT !.refreshing = TRUE]
<1>1. /\ c \in Clients /\ Streams(c) /\ Pending(c) /\ Parts(c) /\ Workers(c) /\ Roles(c)
  BY DEF Good, Sound, Coherent
<1>2. CASE c.user # Nobody
  <2>1. d \in Clients /\ Alike(c, d)
    BY <1>1, <1>2 DEF Clients, Alike
  <2>2. Streams(d) /\ Pending(d) /\ Parts(d) /\ Workers(d)
    BY <1>1 DEF Streams, Pending, ConnectionBusy, Parts, Workers, Clients
  <2> HIDE DEF d
  <2>3. Good(d, o, x, n)
    BY <2>1, <2>2, AlikeIsGood
  <2> QED
    BY <1>2, <2>3 DEF RefreshTokens, d
<1>3. CASE c.user = Nobody
  BY <1>3 DEF RefreshTokens
<1> QED
  BY <1>2, <1>3

(* The connection to a desktop, whatever its outcome, keeps the invariant. *)
LEMMA TriesDesktop ==
  ASSUME NEW c, NEW o, NEW x, NEW n \in Nat, Good(c, o, x, n), NEW outcome \in Outcomes
  PROVE  Good(TryDesktop(c, outcome), o, x, n)
<1> DEFINE s == [st |-> "open", attempt |-> c.attempt, host |-> c.computer,
                 cancelled |-> FALSE]
           d == [StopPreparation(c) EXCEPT !.waitingForApps = FALSE, !.session = s]
<1>1. /\ c \in Clients /\ Streams(c) /\ Pending(c) /\ Parts(c) /\ Workers(c) /\ Roles(c)
  BY DEF Good, Sound, Coherent
<1>2. CASE c.active /\ c.waitingForApps /\ outcome = "launch"
  <2>1. s \in Sessions
    BY <1>1 DEF Clients, Sessions
  <2>2. s.st = "open" /\ s.attempt = c.attempt /\ s.host = c.computer
    OBVIOUS
  <2> HIDE DEF s
  <2>3. d \in Clients /\ Alike(c, d)
    BY <1>1, <2>1 DEF Clients, StopPreparation, Alike, Roles
  <2>4. Streams(d) /\ Pending(d) /\ Parts(d) /\ Workers(d)
    BY <1>1, <1>2, <2>2
       DEF Streams, Pending, ConnectionBusy, Parts, Workers, Clients, StopPreparation
  <2>5. TryDesktop(c, outcome) = c \/ TryDesktop(c, outcome) = d
    BY <1>2 DEF TryDesktop, s
  <2> HIDE DEF d
  <2>6. Good(d, o, x, n)
    BY <2>3, <2>4, AlikeIsGood
  <2> QED
    BY <2>5, <2>6
<1>3. CASE ~(c.active /\ c.waitingForApps /\ outcome = "launch")
  BY <1>3, CancelGood DEF TryDesktop, ReportError, Outcomes
<1> QED
  BY <1>2, <1>3

(* The initial states satisfy the invariant. *)
LEMMA InitIInv ==
  ASSUME Init
  PROVE  IInv
<1>1. client \in Clients /\ client.requests = {}
  <2>1. /\ NoSession \in Sessions /\ NoCleanup \in Cleanups /\ {} \in SUBSET Tasks
        /\ {} \in SUBSET Asks
    BY DEF NoSession, Sessions, NoCleanup, Cleanups, Anybody
  <2> QED
    BY <2>1, StartupAssumption DEF Init, Clients, Anybody, Known
<1>2. /\ Streams(client) /\ Pending(client) /\ Parts(client) /\ Workers(client)
      /\ Bounded(client, 0)
  BY DEF Init, Streams, Pending, ConnectionBusy, Parts, Workers, Bounded, NoSession
<1>3. Roles(client)
  BY StartupAssumption DEF Init, Roles, NoCleanup, Nobody
<1>4. Requests(client) /\ Joins(client, Excused) /\ Apart(client, Excused)
  <2>1. IsFiniteSet(client.requests) /\ client.join <= client.attempt /\ ~client.active
    BY <1>1, FS_EmptySet DEF Init
  <2> QED
    BY <1>1, <2>1 DEF Requests, Joins, Apart, Asking
<1>5. \A u \in Users : owner[u] = IF machine[u] = "queued" THEN Site ELSE NoEntry
  BY DEF Init
<1>6. Entries(client, owner, Excused)
  BY <1>5 DEF Entries, Site, NoEntry
<1>7. Sites(client, owner)
  BY DEF Init, Sites
<1>8. Others /\ Machines /\ Lates
  BY <1>5, StartupAssumption DEF Init, Others, Machines, Lates, MachineStates, Site, NoEntry
<1>9. starts = 0
  BY DEF Init
<1> QED
  BY <1>1, <1>2, <1>3, <1>4, <1>6, <1>7, <1>8, <1>9 DEF IInv, AttemptIsGood, Good, Sound, Coherent

(* An event that leads to a good client, and leaves the rest alone. *)
LEMMA EventIsGood ==
  ASSUME NEW c, Becomes(c), UNCHANGED <<owner, starts, unsure>>,
         \/ Good(c, owner, Marked(c, Excused), 2 * starts)
         \/ Good(c, owner, Excused, 2 * starts)
  PROVE  AttemptIsGood'
<1>1. Good(c, owner, Marked(c, Excused), 2 * starts)
  BY MarkedIsGood
<1>2. Excused' = Marked(c, Excused)
  BY DEF Becomes, Excused, Marked
<1> QED
  BY <1>1, <1>2 DEF AttemptIsGood, Becomes

(* The steps of the attempt itself keep it. *)
LEMMA AttemptsNext ==
  ASSUME AttemptIsGood, Others, Attempt
  PROVE  AttemptIsGood'
<1> DEFINE n == 2 * starts  Kept(c) == Good(c, owner, Excused, n)
           Well(c) == Good(c, owner, Marked(c, Excused), n)
<1>1. n \in Nat /\ 2 * (starts + 1) = n + 2
  BY DEF Others
<1>2. ASSUME NEW c, Kept(c) \/ Well(c), Becomes(c), Untouched PROVE AttemptIsGood'
  BY <1>2, EventIsGood DEF Untouched, server
<1>3. Kept(client)
  BY DEF AttemptIsGood
<1>4. CASE StartDesktopSession
  <2> DEFINE c == CancelConnectionRequests(client)
             d == [c EXCEPT !.attempt = @ + 1, !.active = TRUE, !.joinRequested = FALSE,
                    !.status = "none", !.connectionRequested = FALSE,
                    !.waitingForApps = FALSE, !.computer = 0, !.poll = TRUE]
  <2>1. /\ ~client.active /\ ~client.cancelQueued /\ client.session.st = "none"
        /\ client.loggedIn
    BY <1>4 DEF StartDesktopSession, Busy, IsFree
  <2>2. /\ Kept(c) /\ ~c.active /\ ~c.cancelQueued /\ c.session.st = "none"
        /\ c.user # Nobody
    <3>1. client.user # Nobody
      BY <1>3, <2>1 DEF Good, Sound, Coherent, Roles
    <3> QED
      BY <1>1, <1>3, <2>1, <3>1, CancelsConnectionWell
  <2>3. Good(d, owner, Excused, n + 2)
    BY <1>1, <2>2, AttemptBegins
  <2>4. Good(RefreshStatus(d), owner, Excused, n + 2)
    BY <1>1, <2>3, RefreshesStatus
  <2>5. /\ Becomes(RefreshStatus(d)) /\ starts' = starts + 1
        /\ UNCHANGED <<owner, unsure>>
    BY <1>4 DEF StartDesktopSession, server
  <2> HIDE DEF d
  <2>6. Good(RefreshStatus(d), owner, Marked(RefreshStatus(d), Excused), n + 2)
    BY <2>4, MarkedIsGood
  <2>7. Excused' = Marked(RefreshStatus(d), Excused) /\ client' = RefreshStatus(d)
    BY <2>5 DEF Becomes, Excused, Marked
  <2> QED
    BY <1>1, <2>5, <2>6, <2>7 DEF AttemptIsGood
<1>5. CASE UserCancels
  BY <1>1, <1>2, <1>3, <1>5, CancelGood DEF UserCancels
<1>6. CASE RunDrive
  <2>1. Kept([client EXCEPT !.drive = FALSE])
    BY <1>1, <1>3, DriveIsRun
  <2>2. Well(Drive([client EXCEPT !.drive = FALSE]))
    BY <1>1, <2>1, DriveGood
  <2> QED
    BY <1>2, <1>6, <2>2 DEF RunDrive
<1>7. CASE Poll
  <2>1. Kept(RefreshStatus(client))
    BY <1>1, <1>3, RefreshesStatus
  <2>2. Well(Drive(client)) /\ Well(Drive(RefreshStatus(client)))
    BY <1>1, <1>3, <2>1, DriveGood
  <2> QED
    BY <1>2, <1>7, <2>2 DEF Poll
<1>8. CASE DeadlinePasses
  <2>1. Kept(Cancel([client EXCEPT !.deadline = FALSE]))
    BY <1>1, <1>3, DeadlineIsOver, CancelGood
  <2> QED
    BY <1>2, <1>8, <2>1 DEF DeadlinePasses, ReportError
<1> QED
  BY <1>4, <1>5, <1>6, <1>7, <1>8 DEF Attempt

(* So do the replies to requests for a status. *)
LEMMA StatusesNext ==
  ASSUME AttemptIsGood, Others, StatusReply
  PROVE  AttemptIsGood'
<1> DEFINE n == 2 * starts  Kept(c) == Good(c, owner, Excused, n)
           Well(c) == Good(c, owner, Marked(c, Excused), n)
<1>1. n \in Nat
  BY DEF Others
<1>2. ASSUME NEW c, Kept(c) \/ Well(c), Becomes(c), Untouched PROVE AttemptIsGood'
  BY <1>2, EventIsGood DEF Untouched, server
<1>3. /\ Kept(client) /\ client \in Clients /\ Requests(client) /\ Roles(client)
      /\ Apart(client, Excused) /\ Entries(client, owner, Excused) /\ Sites(client, owner)
  BY DEF AttemptIsGood, Good, Sound, Coherent
<1>4. PICK r \in client.requests : r.kind = "status" /\ StatusReply!(r)
  BY DEF StatusReply, Awaits
<1> DEFINE c == Freed(client, r)  s == r.answer
<1>5. Kept(c)
  BY <1>1, <1>3, <1>4, Frees
<1>6. /\ Beside(client, c) /\ c.requests = client.requests \ {r}
  BY <1>3, FreedClient
<1>7. r.account = client.account /\ r.user = client.user /\ s \in Known
  BY <1>3, <1>4 DEF Requests, Clients, Asks
<1> HIDE DEF c, s
<1>8. ASSUME s # "none" PROVE Well(StatusReceived(c, s))
  <2>1. s \in MachineStates
    BY <1>7, <1>8 DEF Known
  <2>2. s = "idle" /\ c.active => owner[c.user] # Site
    BY <1>3, <1>4, <1>6, <1>7 DEF Sites, Beside, s
  <2>3. ASSUME NEW u \in Users, owner[u] > 0, owner[u] \notin Excused,
               Owns(c, owner[u], u)
        PROVE  s = "queued"
    <3>1. Asking(client) /\ client.attempt = owner[u] /\ u = client.user
      BY <1>6, <2>3 DEF Owns, Asking, Beside
    <3>2. Owns(client, owner[u], u)
      BY <1>3, <2>3, <3>1 DEF Entries, Removes, Roles, Asking
    <3>3. r \in Exclusive(client)
      BY <1>4, <1>7 DEF Exclusive
    <3>4. Exclusive(client) = {r}
      BY <1>3, <2>3, <3>1, <3>3 DEF Apart, Alone
    <3>5. \A p \in client.requests : ~IsOwn(client, p)
      BY <1>3, <1>4, <3>4 DEF Requests, IsOwn, IsPost, Exclusive
    <3> QED
      BY <1>4, <1>8, <3>2, <3>5 DEF Owns, Queued, s
  <2>4. Kept([c EXCEPT !.status = s])
    BY <1>1, <1>5, <2>1, <2>2, <2>3, AnswerIsStatus
  <2> QED
    BY <1>1, <1>5, <2>1, <2>4, StatusIsKnown
<1>9. Kept(StatusReceived(c, "invalid")) /\ Kept(ReportError(c)) /\ Kept(RefreshTokens(c))
  BY <1>1, <1>5, StatusIsLost, CancelGood, RefreshesTokens DEF ReportError
<1>10. /\ \/ s # "none" /\ Becomes(StatusReceived(c, s))
          \/ Becomes(StatusReceived(c, "invalid")) \/ Becomes(ReportError(c))
          \/ Becomes(RefreshTokens(c))
       /\ Untouched
  BY <1>4 DEF c, s
<1> QED
  BY <1>2, <1>8, <1>9, <1>10

(* So do the answers to joins. *)
LEMMA PostsNext ==
  ASSUME AttemptIsGood, Others, PostReply
  PROVE  AttemptIsGood'
<1> DEFINE n == 2 * starts  Kept(c) == Good(c, owner, Excused, n)
           Well(c) == Good(c, owner, Marked(c, Excused), n)
<1>1. n \in Nat
  BY DEF Others
<1>2. ASSUME NEW c, Kept(c) \/ Well(c), Becomes(c), Untouched PROVE AttemptIsGood'
  BY <1>2, EventIsGood DEF Untouched, server
<1>3. /\ Kept(client) /\ client \in Clients /\ Requests(client) /\ Roles(client)
      /\ Apart(client, Excused) /\ Entries(client, owner, Excused) /\ Joins(client, Excused)
  BY DEF AttemptIsGood, Good, Sound, Coherent
<1>4. PICK r \in client.requests : IsPost(r) /\ PostReply!(r)
  BY DEF PostReply, Awaits, IsPost
<1> DEFINE b == Freed(client, r)  s == r.answer  e == StatusReceived(b, s)
           a == Replied(client, r)
<1>5. s \in MachineStates /\ s # "idle"
  BY <1>3, <1>4 DEF Requests, Clients, Asks, Known
<1>6. \A p \in client.requests \ {r} : IsPost(p) => p.attempt # r.attempt
  BY <1>3, <1>4 DEF Requests, Clients, Asks
<1>7. b \in Clients /\ Beside(client, b) /\ b.requests = client.requests \ {r}
  BY <1>3, FreedClient
<1>8. CASE PostIsKnown(client, r)
  <2>1. r.account = client.account
    BY <1>8 DEF PostIsKnown
  <2> HIDE DEF b
  <2>2. IsOwn(client, r) /\ ~client.connectionRequested => Kept([b EXCEPT !.status = s])
    BY <1>1, <1>3, <1>5, PostIsAnswered DEF b
  <2>3. ~IsOwn(client, r) \/ client.connectionRequested => Kept(b)
    <3>1. IsOwn(client, r) /\ client.connectionRequested => client.attempt \in Excused
      BY <1>3, <1>4 DEF Joins, Waits, Roles, IsOwn
    <3> HIDE DEF Excused
    <3> QED
      BY <1>1, <1>3, <1>4, <2>1, <3>1, PostIsOver DEF b
  <2>4. ASSUME ~IsOwn(client, r), client.active, ~client.connectionRequested
        PROVE  Kept([b EXCEPT !.status = s])
    <3>1. ASSUME NEW u \in Users, owner[u] > 0, owner[u] \notin Excused, Owns(b, owner[u], u)
          PROVE  FALSE
      <4>1. Asking(client) /\ client.attempt = owner[u]
        BY <1>7, <3>1 DEF Owns, Asking, Beside
      <4>2. r \in Exclusive(client)
        BY <1>4, <2>1 DEF Exclusive, IsPost
      <4>3. r.attempt = client.attempt
        BY <1>3, <1>4, <3>1, <4>1, <4>2 DEF Apart, Alone
      <4> QED
        BY <1>4, <2>4, <4>3 DEF IsOwn
    <3>2. Kept(b)
      BY <2>3, <2>4
    <3> HIDE DEF s
    <3> QED
      BY <1>1, <1>5, <3>1, <3>2, AnswerIsStatus
  <2>5. b.active = client.active /\ b.connectionRequested = client.connectionRequested
    BY <1>7 DEF Beside
  <2>6. /\ b.active /\ ~b.connectionRequested => Kept([b EXCEPT !.status = s])
        /\ ~b.active \/ b.connectionRequested => Kept(b)
    BY <2>2, <2>3, <2>4, <2>5 DEF IsOwn
  <2> HIDE DEF s
  <2>7. Well(e)
    BY <1>1, <1>5, <2>6, StatusIsKnown
  <2>8. e.active \/ e.requests \subseteq b.requests
    BY <1>1, <1>5, <1>7, <2>6, StatusSendsNothing
  <2> HIDE DEF e
  <2>9. e.active \/ \A p \in e.requests : IsPost(p) => p.attempt # r.attempt
    BY <1>6, <1>7, <2>8
  <2>10. Good(CleanupGoes(e, r), owner, Marked(e, Excused), n)
    BY <1>1, <2>7, <2>9, CleanupIsSent
  <2>11. Marked(CleanupGoes(e, r), Excused) = Marked(e, Excused)
    <3>1. e \in Clients
      BY <2>7 DEF Good, Sound
    <3> QED
      BY <3>1 DEF Marked, Overlaps, Exclusive, CleanupGoes, Clients
  <2>12. Becomes(CleanupGoes(e, r)) /\ Untouched
    BY <1>4, <1>8 DEF e, b, s
  <2> QED
    BY <1>2, <2>10, <2>11, <2>12
<1>9. CASE ~PostIsKnown(client, r)
  <2>1. r.account # client.account
    BY <1>9 DEF PostIsKnown
  <2>2. ~IsOwn(client, r)
    BY <1>3, <2>1 DEF Requests
  <2> HIDE DEF a, Excused
  <2>3. Kept(a)
    BY <1>1, <1>3, <1>4, <2>1, <2>2, PostIsOver DEF a
  <2>4. a.requests = client.requests \ {r}
    BY <1>3 DEF Replied, Clients, a
  <2>5. Kept(CleanupGoes(a, r))
    BY <1>1, <1>6, <2>3, <2>4, CleanupIsSent
  <2>6. Becomes(CleanupGoes(a, r)) /\ Untouched
    BY <1>4, <1>9 DEF a
  <2> QED
    BY <1>2, <2>5, <2>6
<1> QED
  BY <1>8, <1>9

(* So do joins that fail: nobody knows whether they were served. *)
LEMMA LostPostsNext ==
  ASSUME AttemptIsGood, Others, PostFails
  PROVE  AttemptIsGood'
<1> DEFINE n == 2 * starts
<1>1. n \in Nat
  BY DEF Others
<1>2. /\ Good(client, owner, Excused, n) /\ client \in Clients /\ Requests(client)
  BY DEF AttemptIsGood, Good, Sound, Coherent
<1>3. PICK r \in client.requests : IsPost(r) /\ PostFails!(r)
  BY DEF PostFails, Awaits, IsPost
<1> DEFINE b == Freed(client, r)  a == Replied(client, r)  y == Excused \cup {r.attempt}
           e == IF PostIsKnown(client, r) THEN Cancel(b) ELSE a
<1>4. \A p \in client.requests \ {r} : IsPost(p) => p.attempt # r.attempt
  BY <1>2, <1>3 DEF Requests
<1>5. IsOwn(client, r) => client.attempt \in y
  BY DEF IsOwn
<1>6. Excused \subseteq y
  OBVIOUS
<1>7. /\ b.requests = client.requests \ {r} /\ a.requests = client.requests \ {r}
  BY <1>2, FreedClient DEF Replied, Clients
<1> HIDE DEF y, a, b
<1>8. /\ PostIsKnown(client, r) => Good(b, owner, y, n)
      /\ ~PostIsKnown(client, r) => Good(a, owner, y, n)
  BY <1>1, <1>2, <1>3, <1>5, <1>6, PostIsOver DEF PostIsKnown, a, b
<1>9. Good(e, owner, y, n) /\ e.requests \subseteq client.requests \ {r}
  BY <1>1, <1>7, <1>8, CancelGood
<1> HIDE DEF e
<1>10. \A p \in e.requests : IsPost(p) => p.attempt # r.attempt
  BY <1>4, <1>9
<1>11. Good(CleanupGoes(e, r), owner, y, n)
  BY <1>1, <1>9, <1>10, CleanupIsSent
<1>12. Good(CleanupGoes(e, r), owner, Marked(CleanupGoes(e, r), y), n)
  BY <1>11, MarkedIsGood
<1>13. /\ Becomes(CleanupGoes(e, r)) /\ unsure' = unsure \cup {r.attempt}
       /\ UNCHANGED <<owner, starts>>
  BY <1>3 DEF ReportError, e, a, b
<1>14. Excused' = Marked(CleanupGoes(e, r), y) /\ client' = CleanupGoes(e, r)
  BY <1>13 DEF Becomes, Excused, Marked, y
<1> QED
  BY <1>12, <1>13, <1>14 DEF AttemptIsGood

(* So do the other replies of the launcher's server and of the host. *)
LEMMA RepliesNext ==
  ASSUME AttemptIsGood, Others, Replies
  PROVE  AttemptIsGood'
<1> DEFINE n == 2 * starts  Kept(c) == Good(c, owner, Excused, n)
           Well(c) == Good(c, owner, Marked(c, Excused), n)
<1>1. n \in Nat
  BY DEF Others
<1>2. ASSUME NEW c, Kept(c) \/ Well(c), Becomes(c), Untouched PROVE AttemptIsGood'
  BY <1>2, EventIsGood DEF Untouched, server
<1>3. Kept(client) /\ client \in Clients
  BY DEF AttemptIsGood, Good, Sound
<1>4. CASE ConnectionReply
  <2>1. PICK r \in client.requests : r.kind = "connection" /\ ConnectionReply!(r)
    BY <1>4 DEF ConnectionReply, Awaits
  <2> DEFINE c == Freed(client, r)
  <2>2. Kept(c)
    BY <1>1, <1>3, <2>1, Frees
  <2> HIDE DEF c
  <2>3. Kept(ReportError(c))
    BY <1>1, <2>2, CancelGood DEF ReportError
  <2>4. ASSUME c.active, c.connectionRequested
        PROVE  Kept([c EXCEPT !.tasks = @ \cup {[kind |-> "add", attempt |-> c.attempt]}])
    BY <1>1, <2>2, <2>4, HostIsAdded
  <2>5. /\ \/ Becomes(IF c.active /\ c.connectionRequested
                      THEN [c EXCEPT !.tasks = @ \cup {[kind |-> "add", attempt |-> c.attempt]}]
                      ELSE c)
           \/ Becomes(ReportError(c))
        /\ Untouched
    BY <2>1 DEF c
  <2> QED
    BY <1>2, <2>2, <2>3, <2>4, <2>5
<1>5. CASE PinReply
  <2>1. Kept([client EXCEPT !.pin = 0]) /\ Kept(Cancel([client EXCEPT !.pin = 0]))
    BY <1>1, <1>3, PinIsOver, CancelGood
  <2> QED
    BY <1>2, <1>5, <2>1 DEF PinReply, ReportError
<1>6. CASE OtherReply \/ UploadReply
  <2>1. PICK r \in client.requests : /\ r.kind \in {"other", "upload"}
                                     /\ Becomes(Freed(client, r)) /\ Untouched
    BY <1>6 DEF OtherReply, UploadReply, Awaits
  <2>2. Well(Freed(client, r))
    BY <1>1, <1>3, <2>1, Lets
  <2> QED
    BY <1>2, <2>1, <2>2
<1> QED
  BY <1>4, <1>5, <1>6, StatusesNext, PostsNext, LostPostsNext DEF Replies

(* Other requests of the launcher leave an attempt alone until they end. *)
LEMMA OtherRequests ==
  ASSUME AttemptIsGood, Others, OtherRequest \/ Upload
  PROVE  AttemptIsGood'
<1>1. Good(client, owner, Excused, 2 * starts) /\ 2 * starts \in Nat
  BY DEF AttemptIsGood, Others
<1>2. /\ Good(Send(client, Request(client, "other")), owner, Excused, 2 * starts)
      /\ Good(Send(client, File(client)), owner, Excused, 2 * starts)
  BY <1>1, OthersAreSent
<1>3. /\ Becomes(Send(client, Request(client, "other"))) \/ Becomes(Send(client, File(client)))
      /\ Untouched
  BY DEF OtherRequest, Upload
<1> QED
  BY <1>2, <1>3, EventIsGood DEF Untouched, server

(* The host, its pairing and its apps. *)
LEMMA HostsNext ==
  ASSUME AttemptIsGood, Others, Host
  PROVE  AttemptIsGood'
<1> DEFINE n == 2 * starts  Kept(c) == Good(c, owner, Excused, n)
<1>0. n \in Nat
  BY DEF Others
<1>1. ASSUME NEW c, Kept(c), Becomes(c), Untouched PROVE AttemptIsGood'
  BY <1>1, EventIsGood DEF Untouched, server
<1>2. Kept(client) /\ client \in Clients
  BY DEF AttemptIsGood, Good, Sound
<1>3. ASSUME NEW t \in client.tasks
      PROVE  LET c == [client EXCEPT !.tasks = @ \ {t}] IN
             /\ Kept(c) /\ Kept(ReportError(c)) /\ c \in Clients
             /\ IsCurrent(t) => c.active /\ t.attempt = c.attempt /\ c.connectionRequested
             /\ IsCurrent(t) /\ t.kind = "pair" => c.computer = c.attempt
  <2> DEFINE c == [client EXCEPT !.tasks = @ \ {t}]
  <2>1. Kept(c) /\ c \in Clients
    <3>1. Kept(c)
      BY <1>0, <1>2, TaskIsOver
    <3> QED
      BY <3>1 DEF Good, Sound
  <2>2. Kept(ReportError(c))
    BY <1>0, <2>1, CancelGood DEF ReportError
  <2>3. IsCurrent(t) => c.active /\ t.attempt = c.attempt /\ c.connectionRequested
    BY <1>2 DEF Good, Sound, Workers, IsCurrent, Clients
  <2>4. IsCurrent(t) /\ t.kind = "pair" => c.computer = c.attempt
    BY <1>2 DEF Good, Sound, Workers, IsCurrent, Clients
  <2> QED
    BY <2>1, <2>2, <2>3, <2>4
<1>4. ASSUME NEW c, Kept(c), c.active, c.connectionRequested, c.computer = c.attempt,
             NEW u \in Outcomes
      PROVE  Kept(TryDesktop([c EXCEPT !.waitingForApps = TRUE], u))
  BY <1>0, <1>4, AppsAreAwaited, TriesDesktop
<1>5. CASE HostPrepared
  <2>1. PICK t \in client.tasks : HostPrepared!(t)
    BY <1>5 DEF HostPrepared
  <2> DEFINE c == [client EXCEPT !.tasks = @ \ {t}]
             d == [c EXCEPT !.computer = t.attempt]
  <2>2. /\ Kept(c) /\ Kept(ReportError(c)) /\ c \in Clients
        /\ IsCurrent(t) => c.active /\ t.attempt = c.attempt /\ c.connectionRequested
    BY <1>3
  <2>3. CASE ~IsCurrent(t)
    BY <1>1, <2>1, <2>2, <2>3
  <2>4. CASE IsCurrent(t)
    <3>1. d = [c EXCEPT !.computer = c.attempt]
      BY <2>2, <2>4
    <3>2. Kept(d) /\ d.active /\ d.connectionRequested /\ d.computer = d.attempt
      <4> HIDE DEF c
      <4>1. Kept(d)
        BY <1>0, <2>2, <2>4, <3>1, HostIsKnown
      <4> QED
        BY <2>2, <2>4, <4>1 DEF Clients
    <3>3. Kept([d EXCEPT !.tasks = @ \cup {[kind |-> "pair", attempt |-> d.attempt]},
                         !.pin = d.attempt])
      BY <1>0, <3>2, PairingBegins
    <3> QED
      BY <1>1, <1>4, <2>1, <2>2, <2>4, <3>2, <3>3
  <2> QED
    BY <2>3, <2>4
<1>6. CASE PairingCompleted
  <2>1. PICK t \in client.tasks : PairingCompleted!(t)
    BY <1>6 DEF PairingCompleted
  <2> DEFINE c == [client EXCEPT !.tasks = @ \ {t}]
  <2>2. /\ Kept(c) /\ Kept(ReportError(c)) /\ c \in Clients
        /\ IsCurrent(t) => c.active /\ t.attempt = c.attempt /\ c.connectionRequested
        /\ IsCurrent(t) => c.computer = c.attempt
    BY <1>3, <2>1
  <2>3. CASE ~IsCurrent(t)
    BY <1>1, <2>1, <2>2, <2>3
  <2>4. CASE IsCurrent(t)
    BY <1>1, <1>4, <2>1, <2>2, <2>4
  <2> QED
    BY <2>3, <2>4
<1>7. CASE TaskIsSilent
  BY <1>1, <1>3, <1>7 DEF TaskIsSilent
<1>8. CASE ComputerStateChanged
  BY <1>0, <1>1, <1>2, <1>8, TriesDesktop DEF ComputerStateChanged
<1> QED
  BY <1>5, <1>6, <1>7, <1>8 DEF Host

(* The streaming session. *)
LEMMA StreamsNext ==
  ASSUME AttemptIsGood, Others, Stream
  PROVE  AttemptIsGood'
<1> DEFINE n == 2 * starts  Kept(c) == Good(c, owner, Excused, n)
<1>0. n \in Nat
  BY DEF Others
<1>1. ASSUME NEW c, Kept(c), Becomes(c), Untouched PROVE AttemptIsGood'
  BY <1>1, EventIsGood DEF Untouched, server
<1>2. Kept(client)
  BY DEF AttemptIsGood
<1>3. CASE SessionFails
  BY <1>0, <1>1, <1>2, <1>3, CancelGood DEF SessionFails, ReportError
<1>4. CASE SessionFinished
  BY <1>0, <1>1, <1>2, <1>4, Finishes DEF SessionFinished
<1>5. CASE SessionDeleted
  BY <1>0, <1>1, <1>2, <1>5, SessionIsGone DEF SessionDeleted
<1> QED
  BY <1>3, <1>4, <1>5 DEF Stream

(* Changes of the account. *)
LEMMA AccountsNext ==
  ASSUME AttemptIsGood, Others, Account
  PROVE  AttemptIsGood'
<1> DEFINE n == 2 * starts  Kept(c) == Good(c, owner, Excused, n)
<1>0. n \in Nat
  BY DEF Others
<1>1. ASSUME NEW c, Kept(c), Becomes(c), Untouched PROVE AttemptIsGood'
  BY <1>1, EventIsGood DEF Untouched, server
<1>2. Kept(client) /\ client \in Clients /\ Requests(client) /\ Roles(client)
  BY DEF AttemptIsGood, Good, Sound, Coherent
<1>3. CASE UserLogsOut
  BY <1>0, <1>1, <1>2, <1>3, LogsOut DEF UserLogsOut
<1>4. CASE Login
  <2>1. PICK u \in Users : Becomes(Send(client, [Request(client, "login") EXCEPT !.user = u]))
    BY <1>4 DEF Login
  <2>2. Kept(Send(client, [Request(client, "login") EXCEPT !.user = u]))
    BY <1>0, <1>2, <1>4, OthersAreSent DEF Login
  <2> QED
    BY <1>1, <1>4, <2>1, <2>2 DEF Login
<1>5. CASE LoginReply
  <2>1. PICK r \in client.requests : r.kind = "login" /\ LoginReply!(r)
    BY <1>5 DEF LoginReply, Awaits
  <2> DEFINE c == Freed(client, r)  u == r.user  b == AccountChanges(c)
             a == [b EXCEPT !.refreshing = FALSE, !.user = u, !.loggedIn = TRUE]
             e == CancelConnectionRequests(a)
  <2>2. u \in Anybody /\ u # Nobody
    BY <1>2, <2>1 DEF Requests, Clients, Asks
  <2>3. Kept(c)
    BY <1>0, <1>2, <2>1, Frees
  <2> HIDE DEF c, u
  <2>4. /\ Kept(b) /\ ~b.active
        /\ \A q \in b.requests : q.kind \notin {"status", "login", "connection"}
    BY <1>0, <2>3, AccountIsLeft
  <2> HIDE DEF b
  <2>5. Kept(a) /\ ~a.active
    <3>1. Kept(a)
      BY <1>0, <2>2, <2>4, AccountIsSet
    <3> QED
      BY <2>4, <3>1 DEF Good, Sound, Clients
  <2> HIDE DEF a
  <2>6. Kept(e)
    BY <1>0, <2>5, CancelsConnectionWell
  <2> HIDE DEF e
  <2>7. Kept(RefreshStatus(IF c.loggedIn THEN e ELSE a))
    BY <1>0, <2>5, <2>6, RefreshesStatus
  <2>8. Becomes(RefreshStatus(IF c.loggedIn THEN e ELSE a)) \/ Becomes(c)
    BY <2>1 DEF e, a, b, c, u
  <2>9. Untouched
    BY <2>1
  <2> QED
    BY <1>1, <2>3, <2>7, <2>8, <2>9
<1>6. CASE RefreshDue
  BY <1>0, <1>1, <1>2, <1>6, RefreshesTokens DEF RefreshDue
<1>7. CASE RefreshReply
  <2> DEFINE c == [client EXCEPT !.refreshing = FALSE]
             a == IF c.loggedIn THEN c ELSE AccountChanges(c)
             e == [a EXCEPT !.loggedIn = TRUE]
  <2>1. Kept(c) /\ c.user # Nobody
    <3>1. client.user # Nobody
      BY <1>2, <1>7 DEF RefreshReply, Roles
    <3> QED
      BY <1>0, <1>2, <3>1, RefreshIsOver DEF Clients
  <2> HIDE DEF c
  <2>2. Kept(a) /\ a.user # Nobody
    BY <1>0, <2>1, AccountIsLeft
  <2> HIDE DEF a
  <2>3. Kept(e)
    BY <1>0, <2>2, SomebodyIsLoggedIn
  <2> HIDE DEF e
  <2>4. Kept(RefreshStatus(e)) /\ Kept(Logout(c))
    BY <1>0, <2>1, <2>3, RefreshesStatus, LogsOut
  <2>5. Becomes(RefreshStatus(e)) \/ Becomes(Logout(c)) \/ Becomes(c)
    BY <1>7 DEF RefreshReply, e, a, c
  <2>6. Untouched
    BY <1>7 DEF RefreshReply
  <2> QED
    BY <1>1, <2>1, <2>4, <2>5, <2>6
<1> QED
  BY <1>3, <1>4, <1>5, <1>6, <1>7 DEF Account

(* The cleanup. *)
LEMMA CleanupsNext ==
  ASSUME AttemptIsGood, Others, Cleanup
  PROVE  AttemptIsGood'
<1> DEFINE n == 2 * starts
<1>0. n \in Nat
  BY DEF Others
<1>1. Good(client, owner, Excused, n) /\ client \in Clients /\ Roles(client)
  BY DEF AttemptIsGood, Good, Sound, Coherent
<1>2. CASE DeleteReply
  <2>1. ~client.active /\ client.cleanup.st = "served"
    BY <1>1, <1>2 DEF DeleteReply, Roles
  <2>2. Becomes(CleanupEnds(client)) /\ Untouched
    BY <1>2, <2>1 DEF DeleteReply, StatusReceived
  <2>3. Good(CleanupEnds(client), owner, Excused, n)
    BY <1>0, <1>1, <2>1, CleanupIsOver
  <2> QED
    BY <2>2, <2>3, EventIsGood DEF Untouched, server
<1>3. CASE DeleteFails
  <2> DEFINE a == client.cleanup.attempt  y == Excused \cup {a}  c == CleanupEnds(client)
  <2>1. a \in y /\ Excused \subseteq y
    OBVIOUS
  <2>2. /\ Becomes(c) /\ unsure' = unsure \cup {a} /\ UNCHANGED <<owner, starts>>
        /\ client.cleanup.st \in {"sent", "served"}
    BY <1>3 DEF DeleteFails
  <2>3. Excused' = Marked(c, y) /\ client' = c
    BY <2>2 DEF Becomes, Excused, Marked
  <2> HIDE DEF y, c
  <2>4. Good(c, owner, y, n)
    BY <1>0, <1>1, <2>1, <2>2, CleanupIsOver DEF c
  <2>5. Good(c, owner, Marked(c, y), n)
    BY <2>4, MarkedIsGood
  <2> QED
    BY <2>2, <2>3, <2>5 DEF AttemptIsGood
<1> QED
  BY <1>2, <1>3 DEF Cleanup

(* The requests at the server are of a known account and an attempt that was *)
(* begun.                                                                    *)
LEMMA PostsAreKnown ==
  ASSUME AttemptIsGood, Others
  PROVE  /\ \A r \in client.requests : IsPost(r)
              => r.user \in Users /\ r.attempt \in 1 .. 2 * starts
         /\ client.cleanup.st # "done"
              => client.cleanup.user \in Users /\ client.cleanup.attempt \in 1 .. 2 * starts
<1>1. /\ client \in Clients /\ Requests(client) /\ Roles(client)
      /\ Bounded(client, 2 * starts) /\ starts \in Nat
  BY DEF AttemptIsGood, Good, Sound, Coherent, Others
<1>2. client.attempt \in Nat /\ client.attempt <= 2 * starts
  BY <1>1 DEF Bounded, Clients
<1>3. client.cleanup.user \in Anybody
  BY <1>1 DEF Clients, Cleanups
<1>4. \A r \in client.requests : r.user \in Anybody /\ r.attempt \in Nat
  BY <1>1 DEF Clients, Asks
<1>5. client.cleanup.st # "done"
        => client.cleanup.user \in Users /\ client.cleanup.attempt \in 1 .. 2 * starts
  BY <1>1, <1>2, <1>3 DEF Roles, Anybody
<1>6. \A r \in client.requests : IsPost(r)
        => r.user \in Users /\ r.attempt \in 1 .. 2 * starts
  BY <1>1, <1>2, <1>4 DEF Requests, Anybody
<1> QED
  BY <1>5, <1>6

(* The server: joins, removals, late joins and the machine. *)
LEMMA ServersNext ==
  ASSUME AttemptIsGood, Others, Machines, Lates, Server
  PROVE  AttemptIsGood'
<1> DEFINE n == 2 * starts
<1>0. n \in Nat /\ owner \in [Users -> Int] /\ machine \in [Users -> MachineStates]
  BY DEF Others
<1>1. /\ Good(client, owner, Excused, n) /\ client \in Clients /\ Requests(client)
      /\ Roles(client)
  BY DEF AttemptIsGood, Good, Sound, Coherent
<1>2. CASE ServeStatus
  <2>1. PICK r \in client.requests : r.kind = "status" /\ ServeStatus!(r)
    BY <1>2 DEF ServeStatus, Awaits
  <2> DEFINE s == machine[r.user]
  <2>2. r.user \in Users
    BY <1>1, <2>1 DEF Requests, Clients, Asks, Anybody
  <2>3. s \in MachineStates /\ (s = "queued" \/ owner[r.user] = NoEntry)
    BY <1>0, <2>2 DEF Machines
  <2> HIDE DEF s
  <2>4. Good(Answered(client, r, s), owner, Excused, n)
    BY <1>0, <1>1, <2>1, <2>2, <2>3, StatusIsRead DEF NoEntry, Site
  <2>5. Becomes(Answered(client, r, s)) /\ Untouched
    BY <2>1 DEF s
  <2> QED
    BY <2>4, <2>5, EventIsGood DEF Untouched, server
<1>3. CASE ServePost
  <2>1. PICK r \in client.requests : IsPost(r) /\ ServePost!(r)
    BY <1>3 DEF ServePost, Awaits, IsPost
  <2> DEFINE v == r.user  s == machine'[v]  c == Answered(client, r, s)
  <2>2. v \in Users /\ r.answer = "none"
    BY <1>1, <2>1, PostsAreKnown
  <2>3. /\ s \in MachineStates /\ s # "idle"
        /\ \A u \in Users : owner'[u] = owner[u]
                              \/ (owner'[u] = r.attempt /\ u = v /\ s = "queued")
    BY <1>0, <2>1, <2>2 DEF Enters, MachineStates
  <2>4. Becomes(c) /\ UNCHANGED <<starts, unsure>>
    BY <2>1
  <2> HIDE DEF s
  <2>5. Good(c, owner', Excused, n)
    BY <1>0, <1>1, <2>1, <2>2, <2>3, PostIsServed
  <2> HIDE DEF c
  <2>6. Good(c, owner', Marked(c, Excused), n)
    BY <2>5, MarkedIsGood
  <2>7. Excused' = Marked(c, Excused) /\ client' = c
    BY <2>4 DEF Becomes, Excused, Marked
  <2> QED
    BY <2>4, <2>6, <2>7 DEF AttemptIsGood
<1>4. CASE ServeDelete
  <2> DEFINE v == client.cleanup.user  c == [client EXCEPT !.cleanup.st = "served"]
  <2>1. v \in Users /\ client.cleanup.st = "sent"
    BY <1>1, <1>4, PostsAreKnown DEF ServeDelete
  <2>2. \A u \in Users : owner'[u] = owner[u] \/ owner'[u] = NoEntry
    BY <1>0, <1>4, <2>1 DEF ServeDelete, Leaves, TokenOf
  <2>3. owner'[v] = NoEntry
    BY <1>0, <1>4, <2>1 DEF ServeDelete, Leaves, TokenOf, Machines
  <2>4. Good(client, owner', Excused, n)
    BY <1>0, <1>1, <2>2, OwnersChange
  <2>5. Good(c, owner', Excused, n)
    BY <1>0, <1>4, <2>1, <2>3, <2>4, CleanupIsServed DEF NoEntry
  <2>6. Becomes(c) /\ UNCHANGED <<starts, unsure>>
    BY <1>4 DEF ServeDelete
  <2> HIDE DEF c
  <2>7. Good(c, owner', Marked(c, Excused), n)
    BY <2>5, MarkedIsGood
  <2>8. Excused' = Marked(c, Excused) /\ client' = c
    BY <2>6 DEF Becomes, Excused, Marked
  <2> QED
    BY <2>6, <2>7, <2>8 DEF AttemptIsGood
<1>5. CASE ServeLate
  <2>1. PICK r \in late : IF r.kind = "post" THEN Enters(r.attempt, r.user)
                            ELSE Leaves(r.user)
    BY <1>5 DEF ServeLate
  <2>2. r.user \in Users /\ r.attempt \in Excused /\ r.attempt > 0
    BY <1>0 DEF Lates, Excused
  <2>3. \A u \in Users : \/ owner'[u] = owner[u] \/ owner'[u] = NoEntry
                         \/ owner'[u] > 0 /\ owner'[u] \in Excused
    BY <1>0, <2>1, <2>2 DEF Enters, Leaves
  <2>4. Good(client, owner', Excused, n)
    BY <1>0, <1>1, <2>3, OwnersChange
  <2> QED
    BY <1>5, <2>4 DEF ServeLate, budgets, AttemptIsGood, Excused
<1>6. CASE Machine
  <2>1. PICK u \in Users : Boots(u) \/ Fails(u) \/ Ends(u)
    BY <1>6 DEF Machine
  <2>2. owner' = [owner EXCEPT ![u] = NoEntry] /\ UNCHANGED <<client, unsure, overlapped, starts>>
    BY <2>1 DEF Boots, Fails, Ends, Moves
  <2>3. Good(client, owner', Excused, n)
    BY <1>0, <1>1, <2>2, OwnersChange
  <2> QED
    BY <2>2, <2>3 DEF AttemptIsGood, Excused
<1> QED
  BY <1>2, <1>3, <1>4, <1>5, <1>6 DEF Server

(* The steps that change the machines and the entries. *)
OnTheServer == ServePost \/ ServeDelete \/ ServeLate \/ Machine

(* Starts and surprises are counted. *)
LEMMA BoundsNext ==
  ASSUME Others, Next
  PROVE  starts' \in 0 .. MaxStarts /\ starts <= starts' /\ surprises' \in 0 .. MaxSurprises
<1>0. /\ MaxStarts \in Nat /\ MaxSurprises \in Nat
      /\ starts \in 0 .. MaxStarts /\ surprises \in 0 .. MaxSurprises
  BY StartupAssumption DEF Others
<1>1. Expected \/ Surprise => surprises' \in 0 .. MaxSurprises
  BY <1>0 DEF Expected, Surprise
<1>2. starts' = starts => starts' \in 0 .. MaxStarts /\ starts <= starts'
  BY <1>0
<1>3. CASE StartDesktopSession
  BY <1>0, <1>1, <1>3 DEF StartDesktopSession
<1>4. CASE UserCancels \/ RunDrive \/ Poll \/ DeadlinePasses
  BY <1>1, <1>2, <1>4 DEF UserCancels, RunDrive, Poll, DeadlinePasses, Untouched
<1>5. CASE Replies
  BY <1>1, <1>2, <1>5
     DEF Replies, StatusReply, PostReply, PostFails, ConnectionReply, PinReply, OtherReply,
         UploadReply, Untouched
<1>6. CASE OtherRequest \/ Upload
  BY <1>1, <1>2, <1>6 DEF OtherRequest, Upload, Untouched
<1>7. CASE Host
  BY <1>1, <1>2, <1>7
     DEF Host, HostPrepared, PairingCompleted, TaskIsSilent, ComputerStateChanged,
         Untouched
<1>8. CASE Stream
  BY <1>1, <1>2, <1>8 DEF Stream, SessionFails, SessionFinished, SessionDeleted, Untouched
<1>9. CASE Account
  BY <1>1, <1>2, <1>9
     DEF Account, UserLogsOut, Login, LoginReply, RefreshDue, RefreshReply, Untouched
<1>10. CASE Cleanup
  BY <1>1, <1>2, <1>10 DEF Cleanup, DeleteReply, DeleteFails, Untouched
<1>11. CASE ServeStatus \/ ServePost \/ ServeDelete
  BY <1>1, <1>2, <1>11 DEF ServeStatus, ServePost, ServeDelete, Untouched
<1>12. CASE ServeLate
  BY <1>0, <1>2, <1>12 DEF ServeLate, budgets
<1>13. CASE Machine
  <2>1. PICK u \in Users : Boots(u) \/ Fails(u) \/ Ends(u)
    BY <1>13 DEF Machine
  <2> QED
    BY <1>1, <1>2, <2>1 DEF Boots, Fails, Ends, Moves
<1> QED
  BY <1>3, <1>4, <1>5, <1>6, <1>7, <1>8, <1>9, <1>10, <1>11, <1>12, <1>13
     DEF Next, Attempt, Server

(* No other step changes the machines and the entries. *)
LEMMA ServerStays ==
  ASSUME Next, ~OnTheServer
  PROVE  UNCHANGED <<machine, owner>>
<1>1. CASE Attempt
  BY <1>1
     DEF Attempt, StartDesktopSession, UserCancels, RunDrive, Poll, DeadlinePasses,
         Untouched, server
<1>2. CASE Replies \/ OtherRequest \/ Upload
  BY <1>2
     DEF Replies, StatusReply, PostReply, PostFails, ConnectionReply, PinReply, OtherReply,
         UploadReply, OtherRequest, Upload, Untouched, server
<1>3. CASE Host \/ Stream
  BY <1>3
     DEF Host, HostPrepared, PairingCompleted, TaskIsSilent, ComputerStateChanged, Stream,
         SessionFails, SessionFinished, SessionDeleted, Untouched, server
<1>4. CASE Account \/ Cleanup \/ ServeStatus
  BY <1>4
     DEF Account, UserLogsOut, Login, LoginReply, RefreshDue, RefreshReply, Cleanup,
         DeleteReply, DeleteFails, ServeStatus, Untouched, server
<1> QED
  BY <1>1, <1>2, <1>3, <1>4 DEF Next, Server, OnTheServer

(* An account has an entry if its machine is queued. *)
LEMMA MachinesNext ==
  ASSUME AttemptIsGood, Others, Machines, Lates, OnTheServer
  PROVE  /\ machine' \in [Users -> MachineStates] /\ owner' \in [Users -> Int]
         /\ \A u \in Users :
              /\ owner'[u] >= Site /\ owner'[u] <= 2 * starts
              /\ machine'[u] = "queued" <=> owner'[u] # NoEntry
<1> DEFINE Kept == /\ machine' \in [Users -> MachineStates] /\ owner' \in [Users -> Int]
                   /\ \A u \in Users :
                        /\ owner'[u] >= Site /\ owner'[u] <= 2 * starts
                        /\ machine'[u] = "queued" <=> owner'[u] # NoEntry
<1>0. machine \in [Users -> MachineStates] /\ owner \in [Users -> Int] /\ starts \in Nat
  BY DEF Others
<1>1. ASSUME NEW v \in Users, NEW a \in 1 .. 2 * starts, Enters(a, v) PROVE Kept
  <2>1. CASE machine[v] = "idle"
    <3>1. machine' = [machine EXCEPT ![v] = "queued"] /\ owner' = [owner EXCEPT ![v] = a]
      BY <1>1, <2>1 DEF Enters
    <3>2. a \in Int /\ a >= Site /\ a <= 2 * starts /\ a # NoEntry
      BY <1>0 DEF NoEntry, Site
    <3> QED
      BY <1>0, <3>1, <3>2 DEF Machines, MachineStates
  <2>2. CASE machine[v] # "idle"
    BY <1>0, <1>1, <2>2 DEF Enters, Machines
  <2> QED
    BY <2>1, <2>2
<1>2. ASSUME NEW v \in Users, Leaves(v) PROVE Kept
  BY <1>0, <1>2 DEF Leaves, Machines, MachineStates, NoEntry, Site
<1>3. CASE ServePost
  <2>1. PICK r \in client.requests : IsPost(r) /\ Enters(r.attempt, r.user)
    BY <1>3 DEF ServePost, Awaits, IsPost
  <2>2. r.user \in Users /\ r.attempt \in 1 .. 2 * starts
    BY <2>1, PostsAreKnown
  <2> QED
    BY <1>1, <2>1, <2>2
<1>4. CASE ServeDelete
  <2>1. client.cleanup.user \in Users
    BY <1>4, PostsAreKnown DEF ServeDelete
  <2> QED
    BY <1>2, <1>4, <2>1 DEF ServeDelete, TokenOf
<1>5. CASE ServeLate
  <2>1. PICK r \in late : IF r.kind = "post" THEN Enters(r.attempt, r.user)
                            ELSE Leaves(r.user)
    BY <1>5 DEF ServeLate
  <2>2. r.user \in Users /\ r.attempt \in 1 .. 2 * starts
    BY DEF Lates
  <2> QED
    BY <1>1, <1>2, <2>1, <2>2
<1>6. CASE Machine
  <2>1. PICK u \in Users : Boots(u) \/ Fails(u) \/ Ends(u)
    BY <1>6 DEF Machine
  <2>2. PICK s \in MachineStates : s # "queued" /\ machine' = [machine EXCEPT ![u] = s]
    BY <2>1 DEF Boots, Fails, Ends, Moves, MachineStates
  <2>3. owner' = [owner EXCEPT ![u] = NoEntry]
    BY <2>1 DEF Boots, Fails, Ends, Moves
  <2> QED
    BY <1>0, <2>2, <2>3 DEF Machines, NoEntry, Site
<1> QED
  BY <1>3, <1>4, <1>5, <1>6 DEF OnTheServer

(* A join that was lost on its way back is of an attempt no answer told of. *)
LEMMA LatesNext ==
  ASSUME AttemptIsGood, Others, Lates, Next
  PROVE  Lates'
<1>0. starts \in Nat /\ starts' \in Nat /\ starts <= starts'
  BY BoundsNext DEF Others
<1>1. \A r \in late : r.user \in Users /\ r.attempt \in unsure
        /\ r.attempt \in 1 .. 2 * starts'
  BY <1>0 DEF Lates
<1>2. ASSUME late' \subseteq late, unsure' = unsure PROVE Lates'
  BY <1>1, <1>2 DEF Lates
<1>3. ASSUME NEW k, NEW a \in 1 .. 2 * starts, NEW u \in Users,
             late' \subseteq late \cup {[kind |-> k, attempt |-> a, user |-> u]},
             unsure' = unsure \cup {a}
      PROVE  Lates'
  BY <1>0, <1>1, <1>3 DEF Lates
<1>4. CASE PostFails
  <2>1. PICK r \in client.requests : IsPost(r) /\ PostFails!(r)
    BY <1>4 DEF PostFails, Awaits, IsPost
  <2>2. r.user \in Users /\ r.attempt \in 1 .. 2 * starts
    BY <2>1, PostsAreKnown
  <2> QED
    BY <1>3, <2>1, <2>2
<1>5. CASE DeleteFails
  <2>1. client.cleanup.user \in Users /\ client.cleanup.attempt \in 1 .. 2 * starts
    BY <1>5, PostsAreKnown DEF DeleteFails
  <2> QED
    BY <1>3, <1>5, <2>1 DEF DeleteFails
<1>6. CASE Attempt
  BY <1>2, <1>6
     DEF Attempt, StartDesktopSession, UserCancels, RunDrive, Poll, DeadlinePasses,
         Untouched, server
<1>7. CASE StatusReply \/ PostReply \/ ConnectionReply \/ PinReply \/ OtherReply
             \/ UploadReply \/ OtherRequest \/ Upload
  BY <1>2, <1>7
     DEF StatusReply, PostReply, ConnectionReply, PinReply, OtherReply, UploadReply,
         OtherRequest, Upload, Untouched, server
<1>8. CASE Host \/ Stream
  BY <1>2, <1>8
     DEF Host, HostPrepared, PairingCompleted, TaskIsSilent, ComputerStateChanged, Stream,
         SessionFails, SessionFinished, SessionDeleted, Untouched, server
<1>9. CASE Account \/ DeleteReply \/ ServeStatus
  BY <1>2, <1>9
     DEF Account, UserLogsOut, Login, LoginReply, RefreshDue, RefreshReply, DeleteReply,
         ServeStatus, Untouched, server
<1>10. CASE ServePost \/ ServeDelete \/ ServeLate
  BY <1>2, <1>10 DEF ServePost, ServeDelete, ServeLate
<1>11. CASE Machine
  <2>1. late' = late /\ unsure' = unsure
    BY <1>11 DEF Machine, Boots, Fails, Ends, Moves
  <2> QED
    BY <1>2, <2>1
<1> QED
  BY <1>4, <1>5, <1>6, <1>7, <1>8, <1>9, <1>10, <1>11 DEF Next, Replies, Cleanup, Server

(* Every step keeps the invariant. *)
LEMMA IInvNext ==
  ASSUME IInv, [Next]_vars
  PROVE  IInv'
<1>0. AttemptIsGood /\ Others /\ Machines /\ Lates
  BY DEF IInv
<1>1. CASE Next
  <2>1. AttemptIsGood'
    BY <1>0, <1>1, AttemptsNext, RepliesNext, OtherRequests, HostsNext, StreamsNext,
       AccountsNext, CleanupsNext, ServersNext
       DEF Next
  <2>2. Lates'
    BY <1>0, <1>1, LatesNext
  <2>3. /\ starts' \in 0 .. MaxStarts /\ starts <= starts'
        /\ surprises' \in 0 .. MaxSurprises /\ starts \in Nat
    BY <1>0, <1>1, BoundsNext DEF Others
  <2>4. CASE OnTheServer
    <3>1. starts' = starts
      BY <2>4
         DEF OnTheServer, ServePost, ServeDelete, ServeLate, budgets, Machine, Boots,
             Fails, Ends, Moves
    <3>2. Machines' /\ Others'
      BY <1>0, <2>3, <2>4, <3>1, MachinesNext DEF Machines, Others
    <3> QED
      BY <2>1, <2>2, <3>2 DEF IInv
  <2>5. CASE ~OnTheServer
    <3>1. UNCHANGED <<machine, owner>>
      BY <1>1, <2>5, ServerStays
    <3>2. Machines' /\ Others'
      BY <1>0, <2>3, <3>1 DEF Machines, Others
    <3> QED
      BY <2>1, <2>2, <3>2 DEF IInv
  <2> QED
    BY <2>4, <2>5
<1>2. CASE UNCHANGED vars
  BY <1>0, <1>2
     DEF IInv, AttemptIsGood, Excused, Others, Machines, Lates, vars, server, budgets
<1> QED
  BY <1>1, <1>2

(* The invariant holds throughout. *)
THEOREM Invariance == Spec => []IInv
<1>1. Init => IInv
  BY InitIInv
<1>2. IInv /\ [Next]_vars => IInv'
  BY IInvNext
<1> QED
  BY <1>1, <1>2, PTL DEF Spec

(* The variables have their types. *)
THEOREM TypeCorrect == Spec => []TypeOK
<1>1. IInv => TypeOK
  <2> SUFFICES ASSUME IInv PROVE TypeOK
    OBVIOUS
  <2>1. /\ client \in Clients /\ Parts(client) /\ Pending(client) /\ Workers(client)
        /\ Requests(client) /\ Roles(client) /\ Bounded(client, 2 * starts) /\ Others
        /\ Machines
    BY DEF IInv, AttemptIsGood, Good, Sound, Coherent
  <2>2. starts \in 0 .. MaxStarts /\ MaxStarts \in Nat /\ 2 * starts <= 2 * MaxStarts
    BY <2>1, StartupAssumption DEF Others
  <2>3. client.attempt \in Nat /\ client.attempt <= 2 * starts
    BY <2>1, <2>2 DEF Bounded, Clients
  <2>4. /\ client.attempt \in 0 .. 2 * MaxStarts /\ client.computer \in 0 .. 2 * MaxStarts
        /\ client.pin \in 0 .. 2 * MaxStarts /\ client.join \in 0 .. 2 * MaxStarts
    BY <2>1, <2>2, <2>3 DEF Parts, Pending, Requests, Clients
  <2>5. client.tasks \subseteq [kind : {"add", "pair"}, attempt : Attempts]
    <3> SUFFICES ASSUME NEW t \in client.tasks
                 PROVE  t \in [kind : {"add", "pair"}, attempt : Attempts]
      OBVIOUS
    <3>1. t \in Tasks
      BY <2>1 DEF Clients
    <3>2. t.attempt \in Attempts
      BY <2>1, <2>2, <2>3 DEF Workers, Attempts
    <3> QED
      BY <3>1, <3>2 DEF Tasks
  <2>6. owner \in [Users -> Attempts \cup {NoEntry, Site}]
    <3>1. \A u \in Users : owner[u] \in Attempts \cup {NoEntry, Site}
      <4> SUFFICES ASSUME NEW u \in Users PROVE owner[u] \in Attempts \cup {NoEntry, Site}
        OBVIOUS
      <4>1. owner[u] \in Int /\ owner[u] >= -1 /\ owner[u] <= 2 * starts
        BY <2>1 DEF Machines, Others, Site
      <4> QED
        BY <2>2, <4>1 DEF Attempts, NoEntry, Site
    <3> QED
      BY <2>1, <3>1 DEF Others
  <2>7. /\ \A f \in {"active", "joinRequested", "connectionRequested", "cancelQueued",
                     "waitingForApps", "poll", "deadline", "drive", "loggedIn",
                     "refreshing", "busy"} :
             client[f] \in BOOLEAN
        /\ client.account \in Nat /\ client.status \in MachineStates \cup {"none"}
        /\ client.user \in Users \cup {Nobody}
    BY <2>1 DEF Clients, Known, Anybody
  <2>8. /\ client.cleanup.st \in {"done", "waiting", "sent", "served"}
        /\ client.session.st \in {"none", "open", "finished"}
    BY <2>1 DEF Clients, Cleanups, Sessions
  <2>9. client.loggedIn => client.user # Nobody
    BY <2>1 DEF Roles
  <2>10. \A r \in client.requests :
           /\ r.kind \in {"status", "post", "connection", "login", "other", "upload"}
           /\ r.answer \in MachineStates \cup {"none"} /\ r.attempt \in 0 .. 2 * MaxStarts
    <3> SUFFICES ASSUME NEW r \in client.requests
                 PROVE  /\ r.kind \in Kinds /\ r.answer \in Known
                        /\ r.attempt \in 0 .. 2 * MaxStarts
      BY DEF Kinds, Known
    <3>1. r \in Asks /\ r.attempt <= client.attempt
      BY <2>1 DEF Clients, Requests
    <3> QED
      BY <2>2, <2>3, <3>1 DEF Asks
  <2> QED
    BY <2>1, <2>4, <2>5, <2>6, <2>7, <2>8, <2>9, <2>10 DEF TypeOK, Others
<1> QED
  BY <1>1, Invariance, PTL

(* No attempt leaves an entry in the queue behind: it is the one the attempt *)
(* in progress waits in, or a cleanup is bound to remove it, unless one of   *)
(* its requests was not answered or m_Busy did not keep them apart.          *)
THEOREM LeavesNoEntry == Spec => []NoEntryIsLeft
<1>1. IInv => NoEntryIsLeft
  BY DEF IInv, AttemptIsGood, Good, Sound, Coherent, Entries, Owns, Asking, Removes, Excused,
         NoEntryIsLeft, Attempts
<1> QED
  BY <1>1, Invariance, PTL

(* No poll, deadline, pairing window, request of connection data or stream *)
(* outlives its attempt.                                                   *)
THEOREM EndsWithItsAttempt == Spec => []NothingOutlivesItsAttempt
<1>1. IInv => NothingOutlivesItsAttempt
  BY DEF IInv, AttemptIsGood, Good, Sound, Streams, Pending, Parts,
         NothingOutlivesItsAttempt
<1> QED
  BY <1>1, Invariance, PTL

(* A removal at the server takes an entry of the attempt it was sent for, or *)
(* one that is excused.                                                      *)
LEMMA TakesItsOwn ==
  ASSUME IInv, ServeDelete, NEW u \in Users
  PROVE  owner'[u] = owner[u] \/ owner[u] \in unsure \cup overlapped \cup {client.cleanup.attempt}
<1> DEFINE v == client.cleanup.user
<1>1. /\ client \in Clients /\ Roles(client) /\ Entries(client, owner, Excused)
      /\ Sites(client, owner) /\ Others /\ Machines
  BY DEF IInv, AttemptIsGood, Good, Sound, Coherent
<1>2. client.cancelQueued /\ ~client.active
  BY <1>1 DEF ServeDelete, Roles
<1>3. CASE u # v \/ machine[v] # "queued"
  BY <1>1, <1>3 DEF ServeDelete, Leaves, TokenOf, Others
<1>4. CASE u = v /\ machine[v] = "queued"
  <2>1. owner[v] \in Int /\ owner[v] > 0
    BY <1>1, <1>2, <1>4 DEF Machines, Others, Sites, Site, NoEntry
  <2> QED
    BY <1>1, <1>2, <1>4, <2>1 DEF Entries, Owns, Asking, Removes, Excused
<1> QED
  BY <1>3, <1>4

(* A cleanup removes the entry of the attempt it was made for, or one that    *)
(* was left because an answer was lost or m_Busy did not keep requests apart: *)
(* never another one of a later attempt or of the web site.                   *)
THEOREM TakesOnlyItsOwn == Spec => CleanupTakesItsOwn
<1>1. IInv /\ [Next]_vars =>
        [ServeDelete => \A u \in Users : owner'[u] = owner[u]
           \/ owner[u] \in unsure \cup overlapped \cup {client.cleanup.attempt}]_vars
  BY TakesItsOwn
<1> QED
  BY <1>1, Invariance, PTL DEF Spec, CleanupTakesItsOwn
===============================================================================
