------------------------------ MODULE InputStream ------------------------------
(***************************************************************************)
(* Input on its way to the host (InputStream.c).  Threads of the           *)
(* application give events; most become a packet in a bounded queue, and   *)
(* the send thread sends what it takes from there.  Motion is batched on   *)
(* the way: the pending relative motion is a sum, the pending position and *)
(* the values of a sensor are the latest, each with at most one packet in  *)
(* the queue that stands for it (it is "dirty"), and gamepad and pen       *)
(* events are merged with the ones that follow them in the queue.          *)
(*                                                                         *)
(* An event is the device it is for and a key: what the host must not miss *)
(* (buttons, the kind of a pen event), while axes and coordinates are only *)
(* ever the latest.  The history "given" is, per device, the keys of the   *)
(* events that were accepted; "sent" is how many of them the packets sent  *)
(* so far account for.  One axis stands for both of the mouse, one sensor  *)
(* for all.  The network is external: a packet is sent or the connection   *)
(* is lost; only reliable packets are sure to arrive.                      *)
(***************************************************************************)
EXTENDS LbqOps

CONSTANTS
  Producers,      \* the threads that give events
  Scenarios,      \* what they give, and the application's thread in startInputStream:
                  \* functions from Callers to sequences of events
  QueueBound,     \* MAX_QUEUED_INPUT_PACKETS
  DeltaMax,       \* INT16_MAX
  WheelDelta      \* LI_WHEEL_DELTA

Pads       == {"pad1", "pad2"}
Overwritten == {"move", "point", "sense"}     \* batched under batchedInputMutex
Devices    == Pads \cup Overwritten \cup {"pen", "button", "key", "text", "scroll", "arrival", "haptics"}
App        == "app"
Callers    == Producers \cup {App}
Nobody     == "nobody"

ASSUME InputAssumption ==
  /\ QueueBound \in Nat \ {0} /\ DeltaMax \in Nat \ {0} /\ WheelDelta \in Nat \ {0}
  /\ App \notin Producers /\ Nobody \notin Callers
  /\ \A s \in Scenarios : s \in [Callers -> Seq([dev : Devices, key : Int])]

VARIABLES
  initialized, freeListOpen,   \* cleared when the stream is stopped
  packetQueue,
  batchedInputMutex,
  delta,        \* of currentRelativeMouseState
  dirty,        \* of the three states that batch
  gyro,         \* currentGamepadSensorState: the latest key, 0 for a sensor at rest
  currentPenButtonState,
  batchedScrollDelta,
  todo,         \* per caller: the events it has still to give
  pc, holder,   \* per caller: where it is in a call, and its packet
  sender, cur,  \* where the send thread is, and its packet
  stopping,     \* how much of stopInputStream was done
  failed,       \* the connection was lost while sending
  given, sent,  \* history: per device, the keys accepted, and how many were sent
  sure,         \* history: per device, the last that a reliable packet was sent for
  moved, arrived   \* history: the sum of all motion given, and sent

callerVars == <<todo, pc, holder>>
batchVars  == <<batchedInputMutex, delta, dirty, gyro>>
stopVars   == <<initialized, freeListOpen, stopping>>
sentVars   == <<sender, cur, failed, sent, sure, arrived>>
giverVars  == <<currentPenButtonState, batchedScrollDelta, given, moved>>
vars == <<callerVars, batchVars, stopVars, sentVars, giverVars, packetQueue>>

None == [dev |-> "none", key |-> 0, n |-> 0, reliable |-> TRUE, after |-> <<0, 0>>]

(* startInputStream up to `initialized'; before, every call returns an     *)
(* error.  What is left of it is sendEnableHaptics, for some hosts.        *)
Init ==
  /\ initialized = TRUE /\ freeListOpen = TRUE /\ stopping = 0
  /\ packetQueue = NewQueue /\ batchedInputMutex = Nobody
  /\ delta = 0 /\ dirty = [d \in Overwritten |-> FALSE] /\ gyro = 0
  /\ currentPenButtonState = 0 /\ batchedScrollDelta = 0
  /\ todo \in Scenarios
  /\ pc = [c \in Callers |-> "idle"] /\ holder = [c \in Callers |-> None]
  /\ sender = "wait" /\ cur = None /\ failed = FALSE
  /\ given = [d \in Devices |-> <<>>] /\ sent = [d \in Devices |-> 0] /\ sure = [d \in Devices |-> 0]
  /\ moved = 0 /\ arrived = 0

-----------------------------------------------------------------------------
\* The calls of the application: LiSend...Event, and sendEnableHaptics.

Event(c)  == Head(todo[c])
Given(d)  == Len(given[d])
Accept(d, key) == given' = [given EXCEPT ![d] = Append(@, key)]

Abs(x)  == IF x < 0 THEN -x ELSE x
Sign(x) == IF x < 0 THEN -1 ELSE 1

Return(c) ==
  /\ pc' = [pc EXCEPT ![c] = "idle"] /\ holder' = [holder EXCEPT ![c] = None]
  /\ todo' = [todo EXCEPT ![c] = Tail(@)]

(* A scroll is added to what is left of the last one, unless that went the *)
(* other way.                                                              *)
ScrollFrom(old, amount) == IF old * amount < 0 THEN amount ELSE old + amount

(* A call begins if the stream is initialized; what it needs to know of    *)
(* the events accepted before it is noted for the properties.              *)
Begin(c) ==
  /\ pc[c] = "idle" /\ todo[c] # <<>> /\ initialized
  /\ pc' = [pc EXCEPT ![c] = "take"]
  /\ holder' = [holder EXCEPT ![c] = [None EXCEPT !.dev = Event(c).dev, !.key = Event(c).key,
                                                  !.after = <<Given("move"), Given("point")>>]]
  /\ batchedScrollDelta' = IF Event(c).dev = "scroll" THEN ScrollFrom(batchedScrollDelta, Event(c).key)
                           ELSE batchedScrollDelta
  /\ UNCHANGED <<todo, batchVars, stopVars, sentVars, currentPenButtonState, given, moved, packetQueue>>

(* The kinds of pen events: a key is twice the buttons, plus one for down, *)
(* up, cancel and leave; moves and hovers are batchable.                   *)
Batchable(key)  == key % 2 = 0
PenButtons(key) == key \div 2

(* A pen event that changes nothing may be lost. *)
Reliable(dev, key) ==
  dev = "pen" => ~(Batchable(key) /\ PenButtons(key) = currentPenButtonState)

(* allocatePacketHolder: NULL once the free list is shut down, except for  *)
(* text, whose holder is never from the list.  A scroll of less than a     *)
(* click ends the loop that queues the clicks.                             *)
Allocates(c)     == freeListOpen \/ holder[c].dev = "text"
NothingToQueue(c) == holder[c].dev = "scroll" /\ Abs(batchedScrollDelta) < WheelDelta

TakeHolder(c) ==
  /\ pc[c] = "take" /\ holder[c].dev \notin Overwritten
  /\ IF NothingToQueue(c) \/ ~Allocates(c)
     THEN Return(c) /\ UNCHANGED currentPenButtonState
     ELSE /\ pc' = [pc EXCEPT ![c] = "offer"] /\ UNCHANGED todo
          /\ holder' = [holder EXCEPT ![c].reliable = Reliable(holder[c].dev, holder[c].key)]
          /\ currentPenButtonState' = IF holder[c].dev = "pen" THEN PenButtons(holder[c].key)
                                      ELSE currentPenButtonState
  /\ UNCHANGED <<batchVars, stopVars, sentVars, batchedScrollDelta, given, moved, packetQueue>>

(* The batched states change under the mutex, whatever becomes of the      *)
(* packet; when one is queued already the event is accepted.               *)
Overwrite(c) ==
  /\ pc[c] = "take" /\ holder[c].dev \in Overwritten /\ batchedInputMutex = Nobody
  /\ LET d == holder[c].dev  key == holder[c].key IN
     /\ delta' = (IF d = "move" THEN delta + key ELSE delta)
     /\ moved' = (IF d = "move" THEN moved + key ELSE moved)
     /\ gyro'  = (IF d = "sense" THEN key ELSE gyro)
     /\ IF dirty[d] THEN Return(c) /\ Accept(d, key) /\ UNCHANGED batchedInputMutex
        ELSE IF ~freeListOpen THEN Return(c) /\ UNCHANGED <<given, batchedInputMutex>>
        ELSE /\ pc' = [pc EXCEPT ![c] = "offer"] /\ batchedInputMutex' = c
             /\ UNCHANGED <<todo, holder, given>>
  /\ UNCHANGED <<dirty, stopVars, sentVars, currentPenButtonState, batchedScrollDelta, packetQueue>>

(* What a call does after its packet was queued: the loop for scrolls, and *)
(* the gamepad event that follows an arrival.                              *)
Continue(c) ==
  CASE holder[c].dev = "scroll"  -> pc' = [pc EXCEPT ![c] = "take"] /\ UNCHANGED <<todo, holder>>
    [] holder[c].dev = "arrival" ->
         /\ todo' = [todo EXCEPT ![c] = <<[dev |-> "pad1", key |-> 0]>> \o Tail(@)]
         /\ pc' = [pc EXCEPT ![c] = "idle"] /\ holder' = [holder EXCEPT ![c] = None]
    [] OTHER -> Return(c)

(* A batched state is dirty if its packet was queued; faulty: in any case. *)
DirtyAnyway(d, queued) == [dirty EXCEPT ![d] = TRUE]
DirtyAfter(d, queued)  == [dirty EXCEPT ![d] = queued]

(* The packet is queued, or the queue is full, or it is being drained. *)
Offer(c) ==
  /\ pc[c] = "offer"
  /\ LET h == holder[c]  d == h.dev
         queued == OfferStatus(packetQueue, QueueBound) = LBQ_SUCCESS
     IN  /\ packetQueue' = Offered(packetQueue, QueueBound, [h EXCEPT !.n = Given(d) + 1])
         /\ IF queued THEN Accept(d, h.key) /\ Continue(c) ELSE Return(c) /\ UNCHANGED given
         /\ dirty' = IF d \in Overwritten THEN DirtyAfter(d, queued) ELSE dirty
         /\ batchedScrollDelta' = IF queued /\ d = "scroll"
                                  THEN batchedScrollDelta - Sign(batchedScrollDelta) * WheelDelta
                                  ELSE batchedScrollDelta
         /\ batchedInputMutex' = IF d \in Overwritten THEN Nobody ELSE batchedInputMutex
  /\ UNCHANGED <<delta, gyro, stopVars, sentVars, currentPenButtonState, moved>>

-----------------------------------------------------------------------------
\* inputSendThreadProc, with faulty variants for the mutants.

Route == [d \in Devices |->
  CASE d \in Pads    -> "batch"
    [] d = "pen"     -> "batch"
    [] d = "move"    -> "motion"
    [] d \in {"point", "sense"} -> "latest"
    [] d = "text"    -> "text"
    [] OTHER         -> "send"]

WaitForPacket ==
  /\ sender = "wait" /\ ~WaitBlocks(packetQueue)
  /\ packetQueue' = Waited(packetQueue)
  /\ IF WaitStatus(packetQueue) = LBQ_SUCCESS
     THEN cur' = Head(packetQueue.items) /\ sender' = Route[cur'.dev]
     ELSE sender' = "ended" /\ UNCHANGED cur
  /\ UNCHANGED <<callerVars, batchVars, stopVars, giverVars, failed, sent, sure, arrived>>

(* Two events of a pad or of the pen are merged when only their axes       *)
(* differ; a pen event also has to be batchable.                           *)
MergesAnyButtons(p, q) == p.dev = q.dev /\ (p.dev = "pen" => Batchable(p.key))
Merges(p, q) == p.dev = q.dev /\ p.key = q.key /\ (p.dev = "pen" => Batchable(p.key))

(* A pad's packet takes the axes of the next one; the pen's is replaced by *)
(* the next one, flags and all.                                            *)
Batch ==
  /\ sender = "batch"
  /\ IF PeekStatus(packetQueue) = LBQ_SUCCESS /\ Merges(cur, Head(packetQueue.items))
     THEN /\ packetQueue' = Polled(packetQueue)
          /\ cur' = Head(packetQueue.items)
          /\ UNCHANGED sender
     ELSE sender' = "send" /\ UNCHANGED <<packetQueue, cur>>
  /\ UNCHANGED <<callerVars, batchVars, stopVars, giverVars, failed, sent, sure, arrived>>

Clamp(x) == IF x > DeltaMax THEN DeltaMax ELSE IF x < -DeltaMax - 1 THEN -DeltaMax - 1 ELSE x

(* The motion is sent in packets of 16 bits, without the mutex, until none *)
(* is left; only then may the next event queue a packet.                   *)
Truncated(x) == 0
LeftOf(x)    == x - Clamp(x)

NotCleared(d) == dirty
Cleared(d)    == [dirty EXCEPT ![d] = FALSE]

Motion ==
  /\ sender = "motion" /\ batchedInputMutex = Nobody
  /\ IF delta = 0
     THEN /\ dirty' = Cleared("move")
          /\ sender' = "wait" /\ cur' = None
          /\ sent' = [sent EXCEPT !["move"] = Given("move")] /\ sure' = [sure EXCEPT !["move"] = Given("move")]
          /\ UNCHANGED delta
     ELSE /\ cur' = [cur EXCEPT !.key = Clamp(delta)] /\ delta' = LeftOf(delta)
          /\ sender' = "send motion" /\ UNCHANGED <<dirty, sent, sure>>
  /\ UNCHANGED <<callerVars, batchedInputMutex, gyro, stopVars, giverVars, packetQueue, failed, arrived>>

SendMotion ==
  /\ sender = "send motion"
  /\ arrived' = arrived + cur.key /\ sender' = "motion"
  /\ UNCHANGED <<callerVars, batchVars, stopVars, giverVars, packetQueue, cur, failed, sent, sure>>

(* The latest position, or the latest values of the sensor, which may be   *)
(* lost unless the sensor is at rest.                                      *)
ReliableByOldest == IF cur.dev = "sense" THEN cur.key = 0 ELSE TRUE
SentReliably     == IF cur.dev = "sense" THEN gyro = 0 ELSE TRUE

Latest ==
  /\ sender = "latest" /\ batchedInputMutex = Nobody
  /\ cur' = [cur EXCEPT !.n = Given(cur.dev), !.reliable = SentReliably]
  /\ dirty' = Cleared(cur.dev)
  /\ sender' = "send"
  /\ UNCHANGED <<callerVars, batchedInputMutex, delta, gyro, stopVars, giverVars, packetQueue,
                 failed, sent, sure, arrived>>

(* Text waits until everything sent before was acknowledged, then goes out *)
(* one code point at a time.                                               *)
SendCodePoint ==
  /\ sender = "text" /\ cur.key > 1
  /\ cur' = [cur EXCEPT !.key = @ - 1]
  /\ UNCHANGED <<callerVars, batchVars, stopVars, giverVars, packetQueue, sender, failed, sent, sure, arrived>>

Send ==
  /\ sender = "send" \/ (sender = "text" /\ cur.key <= 1)
  /\ sent' = [sent EXCEPT ![cur.dev] = cur.n]
  /\ sure' = IF cur.reliable THEN [sure EXCEPT ![cur.dev] = cur.n] ELSE sure
  /\ sender' = "wait" /\ cur' = None
  /\ UNCHANGED <<callerVars, batchVars, stopVars, giverVars, packetQueue, failed, arrived>>

(* The connection is lost: the thread ends, and what it batched stays dirty. *)
SendFails ==
  /\ sender \in {"send", "send motion", "text"}
  /\ sender' = "ended" /\ cur' = None /\ failed' = TRUE
  /\ UNCHANGED <<callerVars, batchVars, stopVars, giverVars, packetQueue, sent, sure, arrived>>

-----------------------------------------------------------------------------
\* stopInputStream, after startInputStream has returned.

StopScript == <<"initialized", "free list", "drain", "join">>
Stopped    == stopping = Len(StopScript)

ShutsQueueDown(q) == ShutDown(q)
EndsQueue(q)      == Drained(q)

StopStep ==
  /\ ~Stopped /\ todo[App] = <<>>
  /\ stopping' = stopping + 1
  /\ LET do == StopScript[stopping + 1] IN
     /\ initialized'  = (initialized /\ do # "initialized")
     /\ freeListOpen' = (freeListOpen /\ do # "free list")
     /\ packetQueue'  = IF do = "drain" THEN EndsQueue(packetQueue) ELSE packetQueue
     /\ do = "join" => sender = "ended"
  /\ UNCHANGED <<callerVars, batchVars, sentVars, giverVars>>

-----------------------------------------------------------------------------
CallStep(c) == Begin(c) \/ TakeHolder(c) \/ Overwrite(c) \/ Offer(c)
SendStep    == WaitForPacket \/ Batch \/ Motion \/ SendMotion \/ Latest \/ SendCodePoint \/ Send

Next == (\E c \in Callers : CallStep(c)) \/ SendStep \/ SendFails \/ StopStep

Spec == Init /\ [][Next]_vars

(* The send thread runs, a call that was begun goes on, a stop too, and    *)
(* sending ends well or not.                                               *)
FairSpec ==
  /\ Spec
  /\ WF_vars(SendStep) /\ WF_vars(stopping > 0 /\ StopStep)
  /\ \A c \in Callers : WF_vars(pc[c] # "idle" /\ CallStep(c))
-----------------------------------------------------------------------------
\* Properties.

Packets == [dev : Devices \cup {"none"}, key : Int, n : Nat, reliable : BOOLEAN, after : Nat \X Nat]

TypeOK ==
  /\ initialized \in BOOLEAN /\ freeListOpen \in BOOLEAN /\ failed \in BOOLEAN
  /\ packetQueue \in QueueOf(Packets) /\ Len(packetQueue.items) <= QueueBound
  /\ batchedInputMutex \in Callers \cup {Nobody}
  /\ delta \in Int /\ dirty \in [Overwritten -> BOOLEAN] /\ gyro \in Int
  /\ currentPenButtonState \in Int /\ batchedScrollDelta \in Int
  /\ todo \in [Callers -> Seq([dev : Devices, key : Int])]
  /\ pc \in [Callers -> {"idle", "take", "offer"}] /\ holder \in [Callers -> Packets]
  /\ sender \in {"wait", "batch", "motion", "send motion", "latest", "text", "send", "ended"}
  /\ cur \in Packets /\ stopping \in 0 .. Len(StopScript)
  /\ given \in [Devices -> Seq(Int)] /\ sent \in [Devices -> Nat] /\ sure \in [Devices -> Nat]
  /\ moved \in Int /\ arrived \in Int

AllSent == \A d \in Devices : sent[d] = Given(d)

(* Whenever the send thread has nothing to do, or has ended because the    *)
(* stream was stopped, everything that was accepted was sent: no motion is *)
(* left in a state that is not dirty, no state is dirty without a packet,  *)
(* and a stop loses nothing, whichever calls it overtakes.                 *)
AcceptedIsSent ==
  sender \in {"wait", "ended"} /\ IsEmpty(packetQueue) /\ ~failed
    => AllSent

(* A button is pressed where the pointer was: all motion and positions     *)
(* that were accepted before the call were sent before the button.         *)
ButtonsFollowMotion ==
  cur.dev = "button" => sent["move"] >= cur.after[1] /\ sent["point"] >= cur.after[2]

(* Merging events of a pad or of the pen loses no change of the buttons or *)
(* of the kind of the event, and nothing is sent twice or out of order.    *)
MergingKeepsChanges ==
  [][\A d \in Pads \cup {"pen"} : sent'[d] # sent[d] =>
       /\ sent'[d] > sent[d]
       /\ \A i \in sent[d] + 1 .. sent'[d] : given[d][i] = given[d][sent'[d]]]_vars

(* A sensor that was set to rest is at rest on the host, though other      *)
(* values of it may be lost ("clients to reliably set the gyro to a null   *)
(* state"), however its events were batched.                               *)
Quiet == sender = "wait" /\ IsEmpty(packetQueue) /\ ~failed
RestIsSure ==
  Quiet /\ Given("sense") > 0 /\ given["sense"][Given("sense")] = 0
    => sure["sense"] = Given("sense")

(* The motion sent is the motion given, whatever was refused meanwhile and *)
(* however it had to be split.                                             *)
InHand == IF sender = "send motion" THEN cur.key ELSE 0
MotionIsConserved == ~failed => moved = arrived + InHand + delta

(* The accepted events are sent unless the connection is lost, and a stop  *)
(* returns.                                                                *)
InputIsDelivered ==
  /\ ~AllSent ~> (AllSent \/ failed)
  /\ (stopping > 0) ~> Stopped

(* "don't allow state changing events ... to be dropped": a pen event that  *)
(* changes the buttons, or is not a move or hover, was sent reliably, or a  *)
(* later one was.  The code does not satisfy this: the event may have been *)
(* replaced by one that changes nothing.                                   *)
ChangesPen(i) ==
  LET key == given["pen"][i]
  IN  ~Batchable(key) \/ PenButtons(key) # (IF i = 1 THEN 0 ELSE PenButtons(given["pen"][i - 1]))
PenStateIsSure == Quiet => \A i \in sure["pen"] + 1 .. Given("pen") : ~ChangesPen(i)

(* LC_ASSERT(err == LBQ_BOUND_EXCEEDED), in every call.  The code does not *)
(* satisfy this: a stop may begin between the allocation and the offer.    *)
OnlyRefusedWhenFull ==
  \A c \in Callers : pc[c] = "offer" => OfferStatus(packetQueue, QueueBound) # LBQ_INTERRUPTED
=============================================================================
