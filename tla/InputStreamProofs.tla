------------------------- MODULE InputStreamProofs --------------------------
(***************************************************************************)
(* Proofs about InputStream, for any number of callers, any scripts of     *)
(* events and any bound of the queue.  The inductive invariant IInv says   *)
(* where every accepted event is: a device that queues each packet has     *)
(* them numbered without a gap from the last one taken (NoGap); a batched  *)
(* state is dirty exactly while one packet stands for it, in the queue or  *)
(* with the send thread (DirtyHasPacket), which needs the mutex of the     *)
(* callers (MutexIsHeld); merged packets have the keys that were passed    *)
(* (KeysAreGiven); and the motion a button waits for is sent or ahead of   *)
(* it (MotionIsAhead).                                                     *)
(***************************************************************************)
EXTENDS InputStream, TLAPS

(* The packets in the queue and their places, the devices whose packets merge  *)
(* when their buttons agree, those that queue every packet, and where the send *)
(* thread is while later changes still join the packet it holds.               *)
Items    == packetQueue.items
Places   == 1 .. Len(Items)
Merged   == Pads \cup {"pen"}
Queued   == Devices \ Overwritten
Batching == {"motion", "send motion", "latest"}

(* The send thread holds a packet unless it waits or has ended, and is where *)
(* the device of the packet sent it.                                         *)
SenderHasPacket ==
  /\ sender \in {"wait", "ended"} => cur = None
  /\ sender \notin {"wait", "ended"} => cur.dev \in Devices
  /\ sender = "batch" => cur.dev \in Merged
  /\ cur.dev \in Devices => (sender \in {"motion", "send motion"} <=> cur.dev = "move")
  /\ sender = "latest" => cur.dev \in {"point", "sense"}
  /\ sender = "text" => cur.dev = "text"
  /\ failed => sender = "ended"
  /\ \A i \in Places : Items[i].dev \in Devices

(* Who changes a batched state holds the mutex until its packet is queued. *)
MutexIsHeld ==
  \A c \in Callers :
    /\ batchedInputMutex = c <=> pc[c] = "offer" /\ holder[c].dev \in Overwritten
    /\ batchedInputMutex = c => ~dirty[holder[c].dev]
    /\ batchedInputMutex = c /\ holder[c].dev = "sense" => holder[c].key = gyro

(* The packets of a device that does not batch are numbered without a gap from *)
(* the last one that was taken.                                                *)
Base(d) == IF cur.dev = d THEN cur.n ELSE sent[d]
Numbered(d) ==
  /\ cur.dev = d => sent[d] < cur.n
  /\ Base(d) <= Given(d) /\ sent[d] <= Base(d)
  /\ \A i \in Places : Items[i].dev = d => Base(d) < Items[i].n /\ Items[i].n <= Given(d)
  /\ \A i, j \in Places : i < j /\ Items[i].dev = d /\ Items[j].dev = d
       => Items[i].n < Items[j].n
Complete(d) ==
  \A m \in Base(d) + 1 .. Given(d) : \E i \in Places : Items[i].dev = d /\ Items[i].n = m
NoGap == \A d \in Queued : Numbered(d) /\ (~failed => Complete(d))

(* A batched state has one packet if it is dirty, and else was sent or is *)
(* being sent as it is.                                                   *)
InCur(d)   == cur.dev = d /\ sender \in Batching
InQueue(d) == \E i \in Places : Items[i].dev = d
Stands(d) ==
  /\ InCur(d) \/ InQueue(d) => dirty[d]
  /\ InCur(d) => ~InQueue(d)
  /\ \A i, j \in Places : Items[i].dev = d /\ Items[j].dev = d => i = j
  /\ sent[d] <= Given(d)
  /\ dirty[d] => sent[d] < Given(d)
  /\ cur.dev = d /\ sender = "send" =>
       /\ sent[d] <= cur.n /\ cur.n <= Given(d) /\ 0 < cur.n
       /\ dirty[d] => cur.n < Given(d)
StoodFor(d) ==
  /\ dirty[d] => InCur(d) \/ InQueue(d)
  /\ ~dirty[d] => sent[d] = Given(d) \/ (cur.dev = d /\ sender = "send" /\ cur.n = Given(d))
DirtyHasPacket == \A d \in Overwritten : Stands(d) /\ (~failed => StoodFor(d))

(* The keys of the packets, and of those that were merged into one. *)
KeysAreGiven ==
  \A d \in Merged :
    /\ \A i \in Places : Items[i].dev = d => Items[i].key = given[d][Items[i].n]
    /\ cur.dev = d => \A m \in sent[d] + 1 .. cur.n : given[d][m] = cur.key

(* What a button waits for is sent or ahead of it. *)
Ahead(d, k, i) ==
  \/ k <= sent[d]
  \/ cur.dev = d /\ (sender \in Batching \/ k <= cur.n)
  \/ \E j \in Places : j < i /\ Items[j].dev = d
Follows(k, d, i) == k <= Given(d) /\ (~failed => Ahead(d, k, i))
MotionIsAhead ==
  /\ \A c \in Callers : pc[c] # "idle" =>
        /\ Follows(holder[c].after[1], "move", Len(Items) + 1)
        /\ Follows(holder[c].after[2], "point", Len(Items) + 1)
  /\ \A i \in Places : Items[i].dev = "button" =>
        /\ Follows(Items[i].after[1], "move", i)
        /\ Follows(Items[i].after[2], "point", i)
  /\ ButtonsFollowMotion

(* The values of the sensor are the last ones accepted while they are dirty. *)
SensorIsLatest ==
  LET last == given["sense"] IN
  /\ dirty["sense"] => gyro = last[Given("sense")]
  /\ cur.dev = "sense" /\ sender = "send" => (cur.reliable <=> last[cur.n] = 0)
  /\ sent["sense"] > 0 /\ last[sent["sense"]] = 0 => sure["sense"] = sent["sense"]

(* What the callers pass, and the values of the variables, in the groups that *)
(* the proofs treat apart.                                                    *)
Events == [dev : Devices, key : Int]
CallerTypes ==
  /\ batchedInputMutex \in Callers \cup {Nobody}
  /\ todo \in [Callers -> Seq(Events)] /\ pc \in [Callers -> {"idle", "take", "offer"}]
  /\ holder \in [Callers -> Packets]
  /\ \A c \in Callers : pc[c] # "idle" => holder[c].dev \in Devices /\ todo[c] # <<>>
  /\ currentPenButtonState \in Int /\ batchedScrollDelta \in Int
  /\ delta \in Int /\ dirty \in [Overwritten -> BOOLEAN] /\ gyro \in Int
FlagTypes ==
  /\ initialized \in BOOLEAN /\ freeListOpen \in BOOLEAN /\ failed \in BOOLEAN
  /\ stopping \in 0 .. Len(StopScript)
SenderTypes ==
  /\ sender \in
       {"wait", "batch", "motion", "send motion", "latest", "text", "send", "ended"}
  /\ cur \in Packets /\ sent \in [Devices -> Nat] /\ sure \in [Devices -> Nat]
HistoryTypes ==
  /\ given \in [Devices -> Seq(Int)] /\ moved \in Int /\ arrived \in Int
QueueTypes ==
  /\ packetQueue \in QueueOf(Packets) /\ Len(Items) <= QueueBound
  /\ ~packetQueue.shutdown /\ ~packetQueue.pendingUserWake

(* LbqOfferQueueItem adds x at the end; LbqWaitForQueueElement and *)
(* LbqPollQueueElement take the first.                             *)
Grows(x) ==
  /\ Items' \in Seq(Packets) /\ Len(Items) \in Nat /\ Len(Items)' = Len(Items) + 1
  /\ \A i \in Places : i \in Places' /\ Items'[i] = Items[i]
  /\ \A i \in Places' : i \in Places \/ i = Len(Items) + 1
  /\ Len(Items) + 1 \in Places' /\ Items'[Len(Items) + 1] = x
Shrinks ==
  /\ 1 \in Places /\ Items' \in Seq(Packets) /\ Len(Items) \in Nat
  /\ Len(Items)' = Len(Items) - 1
  /\ \A i \in Places' : i + 1 \in Places /\ i + 1 # 1 /\ Items'[i] = Items[i + 1]
  /\ \A i \in Places : i = 1 \/ (i - 1 \in Places' /\ i = (i - 1) + 1)

-------------------------------------------------------------------------------
(* What Accept does, and the fields of a packet. *)
LEMMA GivenIsANumber ==
  ASSUME HistoryTypes, NEW d \in Devices
  PROVE  Given(d) \in Nat
BY DEF HistoryTypes, Given

(* Accept appends to the history of its device and to no other. *)
LEMMA AcceptValues ==
  ASSUME HistoryTypes, NEW d \in Devices, NEW key \in Int, Accept(d, key)
  PROVE  /\ given' \in [Devices -> Seq(Int)]
         /\ \A e \in Devices : Given(e)' = IF e = d THEN Given(e) + 1 ELSE Given(e)
         /\ \A e \in Devices : \A m \in 1 .. Given(e) : given'[e][m] = given[e][m]
         /\ given'[d][Given(d) + 1] = key
BY DEF HistoryTypes, Given, Accept

(* The fields of a packet, ... *)
LEMMA PacketFields ==
  ASSUME NEW p \in Packets
  PROVE  /\ p.dev \in Devices \cup {"none"} /\ p.key \in Int /\ p.n \in Nat
         /\ p.reliable \in BOOLEAN /\ p.after[1] \in Nat /\ p.after[2] \in Nat
BY DEF Packets

(* ... and the changes that leave a packet: its key, ... *)
LEMMA KeyedPacket ==
  ASSUME NEW p \in Packets, NEW key \in Int
  PROVE  [p EXCEPT !.key = key] \in Packets
BY DEF Packets

(* ... its number, ... *)
LEMMA NumberedPacket ==
  ASSUME NEW p \in Packets, NEW n \in Nat
  PROVE  [p EXCEPT !.n = n] \in Packets
BY DEF Packets

(* ... its channel, ... *)
LEMMA MarkedPacket ==
  ASSUME NEW p \in Packets, NEW r \in BOOLEAN
  PROVE  [p EXCEPT !.reliable = r] \in Packets
BY DEF Packets

(* ... both, as Latest does, ... *)
LEMMA LatestPacket ==
  ASSUME NEW p \in Packets, NEW n \in Nat, NEW r \in BOOLEAN
  PROVE  [p EXCEPT !.n = n, !.reliable = r] \in Packets
BY DEF Packets

(* ... and those Begin sets. *)
LEMMA NewPacket ==
  ASSUME NEW d \in Devices, NEW key \in Int, NEW j \in Nat, NEW k \in Nat
  PROVE  [None EXCEPT !.dev = d, !.key = key, !.after = <<j, k>>] \in Packets
BY DEF None, Packets

(* The send thread without a packet. *)
LEMMA NoneIsAPacket == None \in Packets /\ None.dev = "none"
BY DEF None, Packets

(* No device has the name of none. *)
LEMMA NoneIsNoDevice == "none" \notin Devices
BY DEF Devices, Pads, Overwritten

(* A batched motion is cut to what a message holds. *)
LEMMA ClampType ==
  ASSUME NEW x \in Int
  PROVE  Clamp(x) \in Int
BY InputAssumption DEF Clamp

(* A call that returns leaves the other callers alone. *)
LEMMA ReturnValues ==
  ASSUME CallerTypes, NEW c \in Callers, pc[c] # "idle", Return(c)
  PROVE  /\ todo' \in [Callers -> Seq(Events)] /\ holder' \in [Callers -> Packets]
         /\ pc' \in [Callers -> {"idle", "take", "offer"}] /\ pc'[c] = "idle"
         /\ \A b \in Callers \ {c} :
              pc'[b] = pc[b] /\ holder'[b] = holder[b] /\ todo'[b] = todo[b]
<1>1. /\ todo[c] \in Seq(Events) /\ todo[c] # <<>>
      /\ todo' = [todo EXCEPT ![c] = Tail(todo[c])]
  BY DEF CallerTypes, Return
<1>2. todo' \in [Callers -> Seq(Events)] /\ \A b \in Callers \ {c} : todo'[b] = todo[b]
  <2>1. Tail(todo[c]) \in Seq(Events)
    BY <1>1
  <2> QED
    BY <1>1, <2>1 DEF CallerTypes
<1>3. holder' \in [Callers -> Packets] /\ \A b \in Callers \ {c} : holder'[b] = holder[b]
  BY NoneIsAPacket DEF CallerTypes, Return
<1>4. /\ pc' \in [Callers -> {"idle", "take", "offer"}] /\ pc'[c] = "idle"
      /\ \A b \in Callers \ {c} : pc'[b] = pc[b]
  BY DEF CallerTypes, Return
<1> QED
  BY <1>2, <1>3, <1>4

(* An offer to the queue adds its packet, or changes nothing. *)
LEMMA OfferedItems ==
  ASSUME QueueTypes, NEW x \in Packets, packetQueue' = Offered(packetQueue, QueueBound, x)
  PROVE  /\ QueueTypes'
         /\ OfferStatus(packetQueue, QueueBound) = LBQ_SUCCESS => Grows(x)
         /\ OfferStatus(packetQueue, QueueBound) # LBQ_SUCCESS => packetQueue' = packetQueue
<1>1. packetQueue.items \in Seq(Packets) /\ packetQueue.items = Items
  BY DEF QueueTypes, QueueOf, Items
<1>2. CASE OfferStatus(packetQueue, QueueBound) = LBQ_SUCCESS
  <2>1. /\ packetQueue' = [packetQueue EXCEPT !.items = Append(@, x), !.used = TRUE]
        /\ Len(Items) # QueueBound
    BY <1>2
       DEF Offered, Link, OfferStatus, LBQ_SUCCESS, LBQ_INTERRUPTED, LBQ_BOUND_EXCEEDED,
           Items
  <2>0. Append(Items, x) \in Seq(Packets)
    BY <1>1
  <2>2. /\ packetQueue' \in QueueOf(Packets) /\ Items' = Append(Items, x)
        /\ ~packetQueue'.shutdown /\ ~packetQueue'.pendingUserWake
    <3>1. packetQueue' = [packetQueue EXCEPT !.items = Append(Items, x), !.used = TRUE]
      BY <1>1, <2>1
    <3>2. /\ packetQueue \in QueueOf(Packets) /\ ~packetQueue.shutdown
          /\ ~packetQueue.pendingUserWake
      BY DEF QueueTypes
    <3> QED
      BY <2>0, <3>1, <3>2 DEF QueueOf, Items
  <2>3. Grows(x)
    <3>1. /\ Items' \in Seq(Packets) /\ Len(Items) \in Nat /\ Len(Items)' = Len(Items) + 1
          /\ \A i \in 1 .. Len(Items) : Items'[i] = Items[i]
          /\ Items'[Len(Items) + 1] = x
      BY <1>1, <2>0, <2>2
    <3> QED
      BY <3>1 DEF Grows, Places
  <2>4. Len(Items)' <= QueueBound
    BY <1>1, <2>1, <2>3, InputAssumption DEF Grows, QueueTypes
  <2> QED
    BY <1>2, <2>2, <2>3, <2>4 DEF QueueTypes, Items
<1>3. CASE OfferStatus(packetQueue, QueueBound) # LBQ_SUCCESS
  BY <1>3 DEF Offered, QueueTypes, Items
<1> QED
  BY <1>2, <1>3

(* A poll or a wait takes the first packet. *)
LEMMA TakenItems ==
  ASSUME QueueTypes, Items # <<>>, packetQueue' = [packetQueue EXCEPT !.items = Tail(@)]
  PROVE  QueueTypes' /\ Shrinks /\ Head(Items) = Items[1] /\ Items[1] \in Packets
<1>1. Items \in Seq(Packets) /\ packetQueue.items = Items
  BY DEF QueueTypes, QueueOf, Items
<1>0. Tail(Items) \in Seq(Packets)
  BY <1>1
<1>2. /\ packetQueue' \in QueueOf(Packets) /\ Items' = Tail(Items)
      /\ ~packetQueue'.shutdown /\ ~packetQueue'.pendingUserWake
  <2>1. packetQueue' = [packetQueue EXCEPT !.items = Tail(Items)]
    BY <1>1
  <2>2. /\ packetQueue \in QueueOf(Packets) /\ ~packetQueue.shutdown
        /\ ~packetQueue.pendingUserWake
    BY DEF QueueTypes
  <2> QED
    BY <1>0, <2>1, <2>2 DEF QueueOf, Items
<1>3. Shrinks
  <2>1. /\ Items' \in Seq(Packets) /\ Len(Items) \in Nat /\ Len(Items)' = Len(Items) - 1
        /\ Len(Items) > 0 /\ \A i \in 1 .. Len(Items) - 1 : Items'[i] = Items[i + 1]
    BY <1>0, <1>1, <1>2
  <2> QED
    BY <2>1 DEF Shrinks, Places
<1>4. Len(Items)' <= QueueBound
  BY <1>1, <1>3, InputAssumption DEF Shrinks, QueueTypes
<1> QED
  BY <1>1, <1>2, <1>3, <1>4 DEF QueueTypes, Items

(* A stop adds and takes none. *)
LEMMA StopValues ==
  ASSUME QueueTypes, StopStep
  PROVE  Items' = Items
<1>1. packetQueue' \in {packetQueue, Drained(packetQueue)}
  BY DEF StopStep, EndsQueue
<1> QED
  BY <1>1 DEF QueueTypes, QueueOf, Drained, Items

(* LbqWaitForQueueElement hands the thread a packet, or ends it. *)
LEMMA WaitValues ==
  ASSUME QueueTypes, WaitForPacket
  PROVE  /\ QueueTypes' /\ sender = "wait"
         /\ \/ Shrinks /\ cur' = Items[1] /\ cur' \in Packets /\ sender' = Route[cur'.dev]
            \/ packetQueue' = packetQueue /\ cur' = cur /\ sender' = "ended"
<1>1. CASE WaitStatus(packetQueue) = LBQ_SUCCESS
  <2>1. Items # <<>> /\ packetQueue' = [packetQueue EXCEPT !.items = Tail(@)]
    BY <1>1 DEF WaitForPacket, WaitStatus, Waited, Unlink, IsEmpty, Items,
                LBQ_SUCCESS, LBQ_INTERRUPTED, LBQ_USER_WAKE
  <2>2. cur' = Head(Items) /\ sender' = Route[cur'.dev]
    BY <1>1 DEF WaitForPacket, Items
  <2> QED
    BY <2>1, <2>2, TakenItems DEF WaitForPacket
<1>2. CASE WaitStatus(packetQueue) # LBQ_SUCCESS
  <2>1. packetQueue' = packetQueue
    BY <1>2
       DEF WaitForPacket, QueueTypes, Waited, WaitStatus, LBQ_SUCCESS, LBQ_INTERRUPTED,
           LBQ_USER_WAKE
  <2> QED
    BY <1>2, <2>1 DEF WaitForPacket, QueueTypes, Items
<1> QED
  BY <1>1, <1>2

(* The thread takes a packet that merges with its own, or has finished merging. *)
LEMMA BatchValues ==
  ASSUME QueueTypes, Batch
  PROVE  /\ QueueTypes' /\ sender = "batch"
         /\ \/ /\ Shrinks /\ cur' = Items[1] /\ cur' \in Packets
               /\ Merges(cur, Items[1]) /\ sender' = sender
            \/ packetQueue' = packetQueue /\ cur' = cur /\ sender' = "send"
<1>1. CASE PeekStatus(packetQueue) = LBQ_SUCCESS /\ Merges(cur, Head(packetQueue.items))
  <2>1. Items # <<>> /\ packetQueue' = [packetQueue EXCEPT !.items = Tail(@)]
    BY <1>1 DEF Batch, PeekStatus, PollStatus, Polled, Unlink, IsEmpty, Items,
                LBQ_SUCCESS, LBQ_INTERRUPTED, LBQ_NO_ELEMENT
  <2>2. cur' = Head(Items) /\ sender' = sender /\ Merges(cur, Head(Items))
    BY <1>1 DEF Batch, Items
  <2> QED
    BY <2>1, <2>2, TakenItems DEF Batch
<1>2. CASE ~(PeekStatus(packetQueue) = LBQ_SUCCESS /\ Merges(cur, Head(packetQueue.items)))
  BY <1>2 DEF Batch, QueueTypes, Items
<1> QED
  BY <1>1, <1>2

(* A send function queues its packet and counts the state as dirty, or fails and *)
(* counts it as clean again.                                                     *)
LEMMA OfferValues ==
  ASSUME QueueTypes, HistoryTypes, CallerTypes, NEW c \in Callers, Offer(c)
  PROVE  LET h == holder[c]  d == h.dev  x == [h EXCEPT !.n = Given(d) + 1] IN
         /\ QueueTypes' /\ x \in Packets
         /\ \/ /\ Grows(x) /\ Accept(d, h.key) /\ Continue(c)
               /\ dirty' = IF d \in Overwritten THEN [dirty EXCEPT ![d] = TRUE] ELSE dirty
            \/ /\ packetQueue' = packetQueue /\ Return(c) /\ UNCHANGED given
               /\ dirty' = IF d \in Overwritten THEN [dirty EXCEPT ![d] = FALSE] ELSE dirty
<1> DEFINE h == holder[c]  d == h.dev  x == [h EXCEPT !.n = Given(d) + 1]
           queued == OfferStatus(packetQueue, QueueBound) = LBQ_SUCCESS
<1>0. d \in Devices
  BY DEF Offer, CallerTypes
<1>1. x \in Packets
  <2>1. h \in Packets /\ Given(d) + 1 \in Nat
    BY <1>0, GivenIsANumber DEF CallerTypes
  <2> QED
    BY <2>1, NumberedPacket
<1>2. packetQueue' = Offered(packetQueue, QueueBound, x)
  BY DEF Offer
<1>3. CASE queued
  BY <1>1, <1>2, <1>3, OfferedItems DEF Offer, DirtyAfter
<1>4. CASE ~queued
  BY <1>1, <1>2, <1>4, OfferedItems DEF Offer, DirtyAfter
<1> QED
  BY <1>3, <1>4

-------------------------------------------------------------------------------
(* NoGap of one device, and a step that does not concern it. *)
NoGapAt(d) == Numbered(d) /\ (~failed => Complete(d))
Keeps(d) ==
  /\ Items' = Items /\ Given(d)' = Given(d) /\ sent'[d] = sent[d] /\ failed' = failed
  /\ cur'.dev = d <=> cur.dev = d
  /\ cur.dev = d => cur'.n = cur.n

(* Such a step keeps its numbers without a gap. *)
LEMMA NumbersStay ==
  ASSUME NEW d, Keeps(d), NoGapAt(d)
  PROVE  NoGapAt(d)'
<1>1. Base(d)' = Base(d)
  BY DEF Keeps, Base
<1>2. Numbered(d)'
  BY <1>1 DEF Keeps, NoGapAt, Numbered, Places
<1>3. ~failed' => Complete(d)'
  BY <1>1 DEF Keeps, NoGapAt, Complete, Places
<1> QED
  BY <1>2, <1>3 DEF NoGapAt

(* The packets in the queue have numbers, ... *)
LEMMA ItemsAreNumbered ==
  ASSUME QueueTypes, NEW i \in Places
  PROVE  i \in Nat /\ Items[i].n \in Nat /\ Items[i] \in Packets
<1>1. Items \in Seq(Packets)
  BY DEF QueueTypes, QueueOf, Items
<1>2. i \in Nat /\ Items[i] \in Packets
  BY <1>1 DEF Places
<1> QED
  BY <1>2, PacketFields

(* ... and so has the one the thread holds. *)
LEMMA BaseIsANumber ==
  ASSUME SenderTypes, NEW d \in Devices
  PROVE  Base(d) \in Nat /\ sent[d] \in Nat /\ cur.n \in Nat
BY PacketFields DEF SenderTypes, Base

(* The first packet in the queue is the one after what was taken. *)
LEMMA HeadIsNext ==
  ASSUME SenderTypes, HistoryTypes, QueueTypes, NoGap, ~failed, NEW d \in Queued,
         1 \in Places, Items[1].dev = d
  PROVE  Items[1].n = Base(d) + 1
<1>1. NoGapAt(d) /\ d \in Devices
  BY DEF NoGap, NoGapAt, Queued
<1>2. Base(d) \in Nat /\ Given(d) \in Nat /\ Items[1].n \in Nat
  BY <1>1, BaseIsANumber, GivenIsANumber, ItemsAreNumbered
<1>3. Base(d) < Items[1].n /\ Items[1].n <= Given(d)
  BY <1>1 DEF NoGapAt, Numbered
<1>4. Base(d) + 1 \in Base(d) + 1 .. Given(d)
  BY <1>2, <1>3
<1>5. PICK i \in Places : Items[i].dev = d /\ Items[i].n = Base(d) + 1
  BY <1>1, <1>4 DEF NoGapAt, Complete
<1>6. CASE i = 1
  BY <1>5, <1>6
<1>7. CASE i # 1
  <2>1. 1 < i
    BY <1>7 DEF Places
  <2>2. Items[1].n < Items[i].n
    BY <1>1, <1>5, <2>1 DEF NoGapAt, Numbered
  <2> QED
    BY <1>2, <1>3, <1>5, <2>2
<1> QED
  BY <1>6, <1>7

(* A packet that is queued is the last of its device. *)
LEMMA NumbersGrow ==
  ASSUME SenderTypes, HistoryTypes, QueueTypes, NEW d \in Devices, NoGapAt(d),
         NEW x, Grows(x), cur' = cur, sent' = sent, failed' = failed,
         x.dev = d => x.n = Given(d) + 1,
         Given(d)' = IF x.dev = d THEN Given(d) + 1 ELSE Given(d)
  PROVE  NoGapAt(d)'
<1>1. Base(d)' = Base(d) /\ Base(d) \in Nat /\ Given(d) \in Nat
  BY BaseIsANumber, GivenIsANumber DEF Base
<1>2. \A i \in Places : i \in Nat /\ Items[i].n \in Nat
  BY ItemsAreNumbered
<1>0. Len(Items) \in Nat /\ \A i \in Places : i < Len(Items) + 1
  BY DEF Grows, Places
<1>3. \A i \in Places' : Items'[i].dev = d
        => Base(d)' < Items'[i].n /\ Items'[i].n <= Given(d)'
  <2>1. ASSUME NEW i \in Places, Items[i].dev = d
        PROVE  Base(d) < Items[i].n /\ Items[i].n <= Given(d)'
    <3>1. Base(d) < Items[i].n /\ Items[i].n <= Given(d)
      BY <2>1 DEF NoGapAt, Numbered
    <3> QED
      BY <3>1, <1>1, <1>2
  <2>2. x.dev = d => Base(d) < x.n /\ x.n <= Given(d)'
    <3>1. Base(d) <= Given(d)
      BY DEF NoGapAt, Numbered
    <3> QED
      BY <3>1, <1>1
  <2> QED
    BY <2>1, <2>2, <1>1 DEF Grows
<1>4. \A i, j \in Places' : i < j /\ Items'[i].dev = d /\ Items'[j].dev = d
        => Items'[i].n < Items'[j].n
  <2> SUFFICES ASSUME NEW i \in Places', NEW j \in Places', i < j, Items'[i].dev = d,
                      Items'[j].dev = d
               PROVE  Items'[i].n < Items'[j].n
    OBVIOUS
  <2>1. i \in Places /\ Items'[i] = Items[i]
    <3>1. CASE j \in Places
      BY <3>1, <1>0, <1>2 DEF Grows
    <3>2. CASE j = Len(Items) + 1
      BY <3>2 DEF Grows
    <3> QED
      BY <3>1, <3>2 DEF Grows
  <2>2. CASE j \in Places
    BY <2>1, <2>2 DEF NoGapAt, Numbered, Grows
  <2>3. CASE j = Len(Items) + 1
    <3>1. x.dev = d /\ Items'[j].n = Given(d) + 1
      BY <2>3 DEF Grows
    <3>2. Items[i].n <= Given(d)
      BY <2>1 DEF NoGapAt, Numbered
    <3> QED
      BY <2>1, <3>1, <3>2, <1>1, <1>2
  <2> QED
    BY <2>2, <2>3 DEF Grows
<1>5. ASSUME ~failed, NEW m \in Base(d) + 1 .. Given(d)'
      PROVE  \E i \in Places' : Items'[i].dev = d /\ Items'[i].n = m
  <2>1. CASE m \in Base(d) + 1 .. Given(d)
    <3>1. PICK i \in Places : Items[i].dev = d /\ Items[i].n = m
      BY <1>5, <2>1 DEF NoGapAt, Complete
    <3> QED
      BY <3>1 DEF Grows
  <2>2. CASE x.dev = d /\ m = Given(d) + 1
    BY <2>2 DEF Grows
  <2> QED
    BY <1>1, <2>1, <2>2
<1>6. Base(d)' <= Given(d)' /\ sent'[d] <= Base(d)' /\ (cur'.dev = d => sent'[d] < cur'.n)
  BY <1>1 DEF NoGapAt, Numbered
<1> QED
  BY <1>1, <1>3, <1>4, <1>5, <1>6 DEF NoGapAt, Numbered, Complete

(* A packet that is taken is the next of its device. *)
LEMMA NumbersShrink ==
  ASSUME SenderTypes, HistoryTypes, QueueTypes, NEW d \in Devices, NoGapAt(d),
         Shrinks, cur' = Items[1], sent' = sent, failed' = failed, Given(d)' = Given(d),
         cur.dev = d => cur'.dev = d
  PROVE  NoGapAt(d)'
<1>0. Base(d) \in Nat /\ Given(d) \in Nat /\ sent[d] \in Nat
  BY BaseIsANumber, GivenIsANumber
<1>2. \A i \in Places : i \in Nat /\ Items[i].n \in Nat
  BY ItemsAreNumbered
<1>1. Base(d)' = IF Items[1].dev = d THEN Items[1].n ELSE Base(d)
  BY DEF Base
<1>7. Items[1].dev = d => Base(d) < Items[1].n /\ Items[1].n <= Given(d)
  BY DEF NoGapAt, Numbered, Shrinks
<1>8. \A i \in Places' : Items[1].dev = d /\ Items[i + 1].dev = d
        => Items[1].n < Items[i + 1].n
  <2>1. \A i \in Places' : i + 1 \in Places /\ 1 < i + 1
    BY <1>2 DEF Shrinks, Places
  <2> QED
    BY <2>1 DEF Shrinks, NoGapAt, Numbered
<1>3. \A i \in Places' : Items'[i].dev = d
        => Base(d)' < Items'[i].n /\ Items'[i].n <= Given(d)'
  <2>1. \A i \in Places' : Items[i + 1].dev = d
          => Base(d) < Items[i + 1].n /\ Items[i + 1].n <= Given(d)
    BY DEF NoGapAt, Numbered, Shrinks
  <2> QED
    BY <1>1, <1>8, <2>1 DEF Shrinks
<1>4. \A i, j \in Places' : i < j /\ Items'[i].dev = d /\ Items'[j].dev = d
        => Items'[i].n < Items'[j].n
  <2>1. \A i, j \in Places' : i < j => i + 1 < j + 1
    BY DEF Places
  <2> QED
    BY <2>1 DEF NoGapAt, Numbered, Shrinks
<1>5. ASSUME ~failed, NEW m \in Base(d)' + 1 .. Given(d)
      PROVE  \E i \in Places' : Items'[i].dev = d /\ Items'[i].n = m
  <2>1. m \in Base(d) + 1 .. Given(d)
    BY <1>0, <1>1, <1>2, <1>7 DEF Shrinks
  <2>2. PICK i \in Places : Items[i].dev = d /\ Items[i].n = m
    BY <1>5, <2>1 DEF NoGapAt, Complete
  <2>3. i # 1
    <3>1. Items[1].dev = d => m # Items[1].n
      BY <1>1, <1>2 DEF Shrinks
    <3> QED
      BY <2>2, <3>1
  <2> QED
    BY <2>2, <2>3 DEF Shrinks
<1>6. Base(d)' <= Given(d)' /\ sent'[d] <= Base(d)' /\ (cur'.dev = d => sent'[d] < cur'.n)
  <2>1. Base(d) <= Given(d) /\ sent[d] <= Base(d)
    BY DEF NoGapAt, Numbered
  <2>2. Items[1].n \in Nat
    BY <1>2 DEF Shrinks
  <2> QED
    BY <1>0, <1>1, <1>7, <2>1, <2>2
<1> QED
  BY <1>3, <1>4, <1>5, <1>6 DEF NoGapAt, Numbered, Complete

-------------------------------------------------------------------------------
(* DirtyHasPacket of one device, and a step that does not concern it. *)
DirtyAt(d) == Stands(d) /\ (~failed => StoodFor(d))
Leaves(d) ==
  /\ Items' = Items /\ dirty'[d] = dirty[d] /\ sent'[d] = sent[d] /\ failed' = failed
  /\ InCur(d)' <=> InCur(d)
  /\ cur'.dev = d /\ sender' = "send" <=> cur.dev = d /\ sender = "send"
  /\ cur.dev = d /\ sender = "send" => cur'.n = cur.n

(* Such a step keeps the one packet of a dirty state. *)
LEMMA DirtyStays ==
  ASSUME NEW d, Leaves(d), DirtyAt(d), Given(d)' = Given(d)
  PROVE  DirtyAt(d)'
<1>1. InQueue(d)' <=> InQueue(d)
  BY DEF Leaves, InQueue, Places
<1>2. Stands(d)'
  BY <1>1 DEF Leaves, DirtyAt, Stands, Places
<1>3. ~failed' => StoodFor(d)'
  BY <1>1 DEF Leaves, DirtyAt, StoodFor
<1> QED
  BY <1>2, <1>3 DEF DirtyAt

(* So does a packet of another device that is queued; ... *)
LEMMA AnotherIsQueued ==
  ASSUME NEW d, DirtyAt(d), NEW x, x.dev # d, Grows(x), cur' = cur, sender' = sender,
         sent'[d] = sent[d], failed' = failed, dirty'[d] = dirty[d], Given(d)' = Given(d)
  PROVE  DirtyAt(d)'
<1>1. InQueue(d)' <=> InQueue(d)
  BY DEF Grows, InQueue
<1>2. InCur(d)' <=> InCur(d)
  BY DEF InCur
<1>3. \A i, j \in Places' : Items'[i].dev = d /\ Items'[j].dev = d => i = j
  BY DEF Grows, DirtyAt, Stands
<1>4. Stands(d)'
  BY <1>1, <1>2, <1>3 DEF DirtyAt, Stands
<1>5. ~failed' => StoodFor(d)'
  BY <1>1, <1>2 DEF DirtyAt, StoodFor
<1> QED
  BY <1>4, <1>5 DEF DirtyAt

(* ... one of the device itself is queued when the state was clean; ... *)
LEMMA ItIsQueued ==
  ASSUME NEW d, DirtyAt(d), SenderTypes, HistoryTypes, d \in Devices,
         NEW x, x.dev = d, Grows(x), cur' = cur, sender' = sender,
         sent'[d] = sent[d], failed' = failed, ~dirty[d], dirty'[d],
         Given(d)' = Given(d) + 1
  PROVE  DirtyAt(d)'
<1>1. InQueue(d)' /\ ~InQueue(d)
  BY DEF Grows, InQueue, DirtyAt, Stands
<1>2. ~InCur(d)' /\ ~InCur(d)
  BY DEF InCur, DirtyAt, Stands
<1>3. \A i, j \in Places' : Items'[i].dev = d /\ Items'[j].dev = d => i = j
  BY <1>1 DEF Grows, InQueue
<1>4. Given(d) \in Nat /\ sent[d] \in Nat /\ cur.n \in Nat
  BY GivenIsANumber, PacketFields DEF SenderTypes
<1>5. sent[d] < Given(d) + 1
  BY <1>4 DEF DirtyAt, Stands
<1>6. cur.dev = d /\ sender = "send"
        => sent[d] <= cur.n /\ cur.n <= Given(d) + 1 /\ 0 < cur.n /\ cur.n < Given(d) + 1
  BY <1>4 DEF DirtyAt, Stands
<1>8. sent[d] <= Given(d) + 1
  BY <1>4, <1>5
<1>7. Stands(d)'
  BY <1>1, <1>2, <1>3, <1>5, <1>6, <1>8 DEF Stands
<1> QED
  BY <1>1, <1>7 DEF DirtyAt, StoodFor

(* ... the thread takes it to where later changes still join it; ... *)
LEMMA ItIsTaken ==
  ASSUME NEW d, DirtyAt(d), Shrinks, cur.dev # d, sender' # "send",
         cur' = Items[1], Items[1].dev = d => sender' \in Batching,
         sent'[d] = sent[d], failed' = failed, dirty'[d] = dirty[d], Given(d)' = Given(d)
  PROVE  DirtyAt(d)'
<1>1. InCur(d)' => InQueue(d) /\ ~InQueue(d)'
  <2>1. \A i \in Places' : i + 1 \in Places /\ i + 1 # 1
    BY DEF Shrinks
  <2> QED
    BY <2>1 DEF Shrinks, InCur, InQueue, DirtyAt, Stands
<1>2. InQueue(d)' => InQueue(d)
  BY DEF Shrinks, InQueue
<1>3. ASSUME InQueue(d) PROVE InCur(d)' \/ InQueue(d)'
  <2>1. PICK i \in Places : Items[i].dev = d
    BY <1>3 DEF InQueue
  <2>2. CASE i = 1
    BY <2>1, <2>2 DEF InCur
  <2>3. CASE i # 1
    <3>1. i - 1 \in Places' /\ Items'[i - 1] = Items[i]
      BY <2>3 DEF Shrinks
    <3> QED
      BY <2>1, <3>1 DEF InQueue
  <2> QED
    BY <2>2, <2>3
<1>4. \A i, j \in Places' : Items'[i].dev = d /\ Items'[j].dev = d => i = j
  <2> SUFFICES ASSUME NEW i \in Places', NEW j \in Places', Items'[i].dev = d,
                      Items'[j].dev = d
               PROVE  i = j
    OBVIOUS
  <2>1. i + 1 \in Places /\ j + 1 \in Places /\ Items[i + 1].dev = d /\ Items[j + 1].dev = d
    BY DEF Shrinks
  <2>2. i + 1 = j + 1
    BY <2>1 DEF DirtyAt, Stands
  <2> QED
    BY <2>2 DEF Places
<1>5. ~InCur(d)
  BY DEF InCur
<1>6. Stands(d)'
  BY <1>1, <1>2, <1>4, <1>5 DEF DirtyAt, Stands
<1>7. ~failed' => StoodFor(d)'
  BY <1>3, <1>5 DEF DirtyAt, StoodFor
<1> QED
  BY <1>6, <1>7 DEF DirtyAt

(* ... and a packet of another device that is taken changes nothing. *)
LEMMA AnotherIsTaken ==
  ASSUME NEW d, DirtyAt(d), Shrinks, cur.dev # d, cur' = Items[1], Items[1].dev # d,
         sent'[d] = sent[d], failed' = failed, dirty'[d] = dirty[d], Given(d)' = Given(d)
  PROVE  DirtyAt(d)'
<1>1. InQueue(d)' <=> InQueue(d)
  <2>1. ASSUME NEW i \in Places, Items[i].dev = d PROVE InQueue(d)'
    <3>1. i - 1 \in Places' /\ Items'[i - 1] = Items[i]
      BY <2>1 DEF Shrinks
    <3> QED
      BY <2>1, <3>1 DEF InQueue
  <2>2. ASSUME NEW i \in Places', Items'[i].dev = d PROVE InQueue(d)
    BY <2>2 DEF Shrinks, InQueue
  <2> QED
    BY <2>1, <2>2 DEF InQueue
<1>2. ~InCur(d)' /\ ~InCur(d)
  BY DEF InCur
<1>3. \A i, j \in Places' : Items'[i].dev = d /\ Items'[j].dev = d => i = j
  <2> SUFFICES ASSUME NEW i \in Places', NEW j \in Places', Items'[i].dev = d,
                      Items'[j].dev = d
               PROVE  i = j
    OBVIOUS
  <2>1. i + 1 \in Places /\ j + 1 \in Places /\ Items[i + 1].dev = d /\ Items[j + 1].dev = d
    BY DEF Shrinks
  <2>2. i + 1 = j + 1
    BY <2>1 DEF DirtyAt, Stands
  <2> QED
    BY <2>2 DEF Places
<1>4. Stands(d)'
  BY <1>1, <1>2, <1>3 DEF DirtyAt, Stands
<1>5. ~failed' => StoodFor(d)'
  BY <1>1, <1>2 DEF DirtyAt, StoodFor
<1> QED
  BY <1>4, <1>5 DEF DirtyAt

(* What was accepted stays accepted. *)
LEMMA GivenStays ==
  ASSUME CallerTypes, HistoryTypes, QueueTypes, [Next]_vars, NEW d \in Devices
  PROVE  /\ Given(d) \in Nat /\ Given(d)' \in Nat /\ Given(d) <= Given(d)'
         /\ \A m \in 1 .. Given(d) : given'[d][m] = given[d][m]
<1>1. Given(d) \in Nat
  BY GivenIsANumber
<1>2. ASSUME NEW e \in Devices, NEW key \in Int, Accept(e, key)
      PROVE  /\ Given(d)' \in Nat /\ Given(d) <= Given(d)'
             /\ \A m \in 1 .. Given(d) : given'[d][m] = given[d][m]
  <2>1. Given(d)' = IF d = e THEN Given(d) + 1 ELSE Given(d)
    BY <1>2, AcceptValues
  <2> QED
    BY <1>1, <1>2, <2>1, AcceptValues
<1>3. given' = given \/ \E e \in Devices, key \in Int : Accept(e, key)
  <2>1. ASSUME NEW c \in Callers, Overwrite(c)
        PROVE  given' = given \/ \E e \in Devices, key \in Int : Accept(e, key)
    <3>1. holder[c].dev \in Devices /\ holder[c].key \in Int
      BY <2>1, PacketFields DEF Overwrite, CallerTypes
    <3> QED
      BY <2>1, <3>1 DEF Overwrite
  <2>2. ASSUME NEW c \in Callers, Offer(c)
        PROVE  given' = given \/ \E e \in Devices, key \in Int : Accept(e, key)
    <3>1. holder[c].dev \in Devices /\ holder[c].key \in Int
      BY <2>2, PacketFields DEF Offer, CallerTypes
    <3> QED
      BY <2>2, <3>1, OfferValues
  <2>3. ASSUME NEW c \in Callers, Begin(c) \/ TakeHolder(c) PROVE given' = given
    BY <2>3 DEF Begin, TakeHolder
  <2>4. CASE SendStep \/ SendFails \/ StopStep \/ UNCHANGED vars
    BY <2>4
       DEF SendStep, SendFails, StopStep, WaitForPacket, Batch, Motion, SendMotion, Latest,
         SendCodePoint, Send, giverVars, vars
  <2> QED
    BY <2>1, <2>2, <2>3, <2>4 DEF Next, CallStep
<1> QED
  BY <1>1, <1>2, <1>3 DEF Given

-------------------------------------------------------------------------------
(* What a step does to the queue. *)
QueueStays == Items' = Items
QueueTaken ==
  /\ Shrinks /\ cur' = Items[1]
  /\ \/ WaitForPacket /\ sender' = Route[cur'.dev]
     \/ Batch /\ Merges(cur, Items[1])
QueueGiven(c) ==
  LET h == holder[c] IN
  Offer(c) /\ Grows([h EXCEPT !.n = Given(h.dev) + 1]) /\ Accept(h.dev, h.key)

(* Every step leaves the queue, takes its first packet or adds one. *)
LEMMA QueueSteps ==
  ASSUME CallerTypes, HistoryTypes, QueueTypes, [Next]_vars
  PROVE  QueueStays \/ QueueTaken \/ \E c \in Callers : QueueGiven(c)
<1>1. ASSUME NEW c \in Callers, Begin(c) \/ TakeHolder(c) \/ Overwrite(c) PROVE QueueStays
  BY <1>1 DEF QueueStays, Items, Begin, TakeHolder, Overwrite
<1>2. ASSUME NEW c \in Callers, Offer(c) PROVE QueueStays \/ QueueGiven(c)
  BY <1>2, OfferValues DEF QueueGiven, QueueStays, Items
<1>3. ASSUME WaitForPacket PROVE QueueStays \/ QueueTaken
  <2>1. \/ Shrinks /\ cur' = Items[1] /\ sender' = Route[cur'.dev]
        \/ packetQueue' = packetQueue
    BY <1>3, WaitValues
  <2> QED
    BY <1>3, <2>1 DEF QueueTaken, QueueStays, Items
<1>4. ASSUME Batch PROVE QueueStays \/ QueueTaken
  BY <1>4, BatchValues DEF QueueTaken, QueueStays, Items
<1>5. ASSUME StopStep PROVE QueueStays
  BY <1>5, StopValues DEF QueueStays
<1>6. CASE Motion \/ SendMotion \/ Latest \/ SendCodePoint \/ Send \/ SendFails
             \/ UNCHANGED vars
  BY <1>6
     DEF QueueStays, Items, Motion, SendMotion, Latest, SendCodePoint, Send, SendFails,
         vars
<1> QED
  BY <1>1, <1>2, <1>3, <1>4, <1>5, <1>6 DEF Next, CallStep, SendStep

-------------------------------------------------------------------------------
(* The keys of the packets of a device, in the queue and with the thread. *)
ItemKeys(d) == \A i \in Places : Items[i].dev = d => Items[i].key = given[d][Items[i].n]
CurKeys(d)  == cur.dev = d => \A m \in sent[d] + 1 .. cur.n : given[d][m] = cur.key

(* The keys in the queue are those accepted, after every step. *)
LEMMA ItemKeysNext ==
  ASSUME CallerTypes, SenderTypes, HistoryTypes, QueueTypes, [Next]_vars,
         NEW d \in Devices, NoGapAt(d), ItemKeys(d)
  PROVE  ItemKeys(d)'
<1>1. ASSUME NEW i \in Places, Items[i].dev = d PROVE Items[i].key = given'[d][Items[i].n]
  <2>1. Items[i].n \in 1 .. Given(d)
    <3>1. Items[i].n \in Nat /\ Base(d) \in Nat
      BY ItemsAreNumbered, BaseIsANumber
    <3>2. Base(d) < Items[i].n /\ Items[i].n <= Given(d)
      BY <1>1 DEF NoGapAt, Numbered
    <3>3. Given(d) \in Nat
      BY GivenIsANumber
    <3> QED
      BY <3>1, <3>2, <3>3
  <2> QED
    BY <1>1, <2>1, GivenStays DEF ItemKeys
<1>2. CASE QueueStays
  BY <1>1, <1>2 DEF QueueStays, ItemKeys, Places
<1>3. CASE QueueTaken
  BY <1>1, <1>3 DEF QueueTaken, Shrinks, ItemKeys
<1>4. ASSUME NEW c \in Callers, QueueGiven(c) PROVE ItemKeys(d)'
  <2> DEFINE h == holder[c]  x == [h EXCEPT !.n = Given(h.dev) + 1]
  <2>1. h \in Packets /\ h.dev \in Devices /\ h.key \in Int
    BY <1>4, PacketFields DEF QueueGiven, Offer, CallerTypes
  <2>2. x.dev = h.dev /\ x.key = h.key /\ x.n = Given(h.dev) + 1
    BY <2>1 DEF Packets
  <2>3. Grows(x) /\ Accept(h.dev, h.key)
    BY <1>4 DEF QueueGiven
  <2>4. x.dev = d => x.key = given'[d][x.n]
    BY <2>1, <2>2, <2>3, AcceptValues
  <2> HIDE DEF x
  <2> QED
    BY <1>1, <2>3, <2>4 DEF Grows, ItemKeys
<1> QED
  BY <1>2, <1>3, <1>4, QueueSteps

(* The packet of the thread stands for equal keys while it stays the same. *)
LEMMA CurKeysStay ==
  ASSUME CallerTypes, SenderTypes, HistoryTypes, QueueTypes, [Next]_vars,
         NEW d \in Devices, NoGapAt(d), CurKeys(d),
         cur'.dev = d
           => cur.dev = d /\ cur'.n = cur.n /\ cur'.key = cur.key /\ sent'[d] = sent[d]
  PROVE  CurKeys(d)'
<1> SUFFICES ASSUME cur'.dev = d, NEW m \in sent[d] + 1 .. cur.n
             PROVE  given'[d][m] = cur.key
  BY DEF CurKeys
<1>1. m \in 1 .. Given(d)
  <2>1. sent[d] \in Nat /\ cur.n \in Nat /\ Given(d) \in Nat
    BY BaseIsANumber, GivenIsANumber
  <2>2. cur.n <= Given(d)
    BY DEF NoGapAt, Numbered, Base
  <2> QED
    BY <2>1, <2>2
<1> QED
  BY <1>1, GivenStays DEF CurKeys

-------------------------------------------------------------------------------
(* A step that does not send the sensor, or change it. *)
SensorStays ==
  /\ sent'["sense"] = sent["sense"] /\ sure'["sense"] = sure["sense"]
  /\ given'["sense"] = given["sense"]
  /\ dirty'["sense"] => dirty["sense"] /\ gyro' = gyro
  /\ cur'.dev = "sense" /\ sender' = "send" =>
       /\ cur.dev = "sense" /\ sender = "send" /\ cur'.n = cur.n
       /\ cur'.reliable = cur.reliable

(* Such a step keeps the sensor the latest. *)
LEMMA SensorRemains ==
  ASSUME SensorIsLatest, SensorStays
  PROVE  SensorIsLatest'
BY DEF SensorIsLatest, SensorStays, Given

(* Where the histories of the sensor are read. *)
LEMMA SensorNumbers ==
  ASSUME SenderTypes, HistoryTypes, DirtyHasPacket
  PROVE  /\ "sense" \in Devices /\ "sense" \in Overwritten
         /\ sent["sense"] \in Nat /\ sent["sense"] <= Given("sense")
         /\ Given("sense") \in Nat
         /\ cur.dev = "sense" /\ sender = "send" => cur.n \in 1 .. Given("sense")
         /\ dirty["sense"] => Given("sense") \in 1 .. Given("sense")
<1>1. "sense" \in Devices /\ "sense" \in Overwritten
  BY DEF Devices, Overwritten
<1>2. sent["sense"] \in Nat /\ Given("sense") \in Nat /\ cur.n \in Nat
  BY <1>1, BaseIsANumber, GivenIsANumber
<1>3. Stands("sense")
  BY <1>1 DEF DirtyHasPacket
<1>4. sent["sense"] <= Given("sense")
  BY <1>3 DEF Stands
<1>5. cur.dev = "sense" /\ sender = "send" => 0 < cur.n /\ cur.n <= Given("sense")
  BY <1>3 DEF Stands
<1>6. dirty["sense"] => sent["sense"] < Given("sense")
  BY <1>3 DEF Stands
<1> QED
  BY <1>1, <1>2, <1>4, <1>5, <1>6

(* A value of the sensor that is accepted is the one that is kept. *)
LEMMA SensorGiven ==
  ASSUME SenderTypes, HistoryTypes, DirtyHasPacket, SensorIsLatest, NEW key \in Int,
         Accept("sense", key), UNCHANGED <<cur, sender, sent, sure>>,
         dirty'["sense"] => gyro' = key
  PROVE  SensorIsLatest'
<1>1. /\ Given("sense")' = Given("sense") + 1 /\ given'["sense"][Given("sense") + 1] = key
      /\ \A m \in 1 .. Given("sense") : given'["sense"][m] = given["sense"][m]
  BY SensorNumbers, AcceptValues
<1>2. dirty'["sense"] => gyro' = given'["sense"][Given("sense")']
  BY <1>1
<1>3. cur.dev = "sense" /\ sender = "send" => (cur.reliable <=> given'["sense"][cur.n] = 0)
  BY <1>1, SensorNumbers DEF SensorIsLatest
<1>4. sent["sense"] > 0 /\ given'["sense"][sent["sense"]] = 0
        => sure["sense"] = sent["sense"]
  <2>1. sent["sense"] > 0 => sent["sense"] \in 1 .. Given("sense")
    BY SensorNumbers
  <2> QED
    BY <1>1, <2>1 DEF SensorIsLatest
<1> QED
  BY <1>2, <1>3, <1>4 DEF SensorIsLatest

-------------------------------------------------------------------------------
(* What a button waits for is with the thread, or in a packet ahead of it. *)
Pointers == {"move", "point"}
HandHas(d, k) == k <= sent[d] \/ (cur.dev = d /\ (sender \in Batching \/ k <= cur.n))
LineHas(d, i) == \E j \in Places : j < i /\ Items[j].dev = d
SameCall(c) == pc'[c] = "idle" \/ (pc[c] # "idle" /\ holder'[c].after = holder[c].after)

(* A call keeps what was pending when it began. *)
LEMMA CallSteps ==
  ASSUME CallerTypes, [Next]_vars, NEW c \in Callers
  PROVE  \/ SameCall(c)
         \/ Begin(c) /\ holder'[c].after = <<Given("move"), Given("point")>>
<1> DEFINE Goal == SameCall(c)
  \/ (Begin(c) /\ holder'[c].after = <<Given("move"), Given("point")>>)
<1>1. ASSUME NEW b \in Callers, Begin(b) PROVE Goal
  BY <1>1 DEF Begin, SameCall, None, CallerTypes
<1>2. ASSUME NEW b \in Callers, TakeHolder(b) PROVE Goal
  <2>1. pc[b] = "take" /\ holder[b] \in Packets
    BY <1>2 DEF TakeHolder, CallerTypes
  <2>2. CASE Return(b)
    BY <2>1, <2>2, ReturnValues DEF SameCall
  <2>3. CASE /\ pc' = [pc EXCEPT ![b] = "offer"]
             /\ holder' = [holder EXCEPT ![b].reliable =
                                           Reliable(holder[b].dev, holder[b].key)]
    BY <2>1, <2>3 DEF SameCall, CallerTypes, Packets
  <2> QED
    BY <1>2, <2>2, <2>3 DEF TakeHolder
<1>3. ASSUME NEW b \in Callers, Overwrite(b) PROVE Goal
  <2>1. pc[b] = "take"
    BY <1>3 DEF Overwrite
  <2>2. CASE Return(b)
    BY <2>1, <2>2, ReturnValues DEF SameCall
  <2>3. CASE pc' = [pc EXCEPT ![b] = "offer"] /\ UNCHANGED holder
    BY <2>1, <2>3 DEF SameCall, CallerTypes
  <2> QED
    BY <1>3, <2>2, <2>3 DEF Overwrite
<1>4. ASSUME NEW b \in Callers, Offer(b) PROVE Goal
  <2>1. pc[b] = "offer"
    BY <1>4 DEF Offer
  <2>2. CASE Return(b)
    BY <2>1, <2>2, ReturnValues DEF SameCall
  <2>3. CASE Continue(b)
    <3>1. CASE holder[b].dev = "scroll"
      BY <2>1, <2>3, <3>1 DEF Continue, SameCall, CallerTypes
    <3>2. CASE holder[b].dev = "arrival"
      BY <2>1, <2>3, <3>2 DEF Continue, SameCall, CallerTypes
    <3>3. CASE holder[b].dev \notin {"scroll", "arrival"}
      BY <2>2, <2>3, <3>3 DEF Continue
    <3> QED
      BY <3>1, <3>2, <3>3
  <2> QED
    BY <1>4, <2>2, <2>3 DEF Offer
<1>5. CASE SendStep \/ SendFails \/ StopStep \/ UNCHANGED vars
  BY <1>5
     DEF SameCall, SendStep, SendFails, StopStep, WaitForPacket, Batch, Motion, SendMotion,
         Latest, SendCodePoint, Send, callerVars, vars
<1> QED
  BY <1>1, <1>2, <1>3, <1>4, <1>5 DEF Next, CallStep

(* The pointers are among the batched devices. *)
LEMMA PointersAreDevices == \A d \in Pointers : d \in Devices /\ d \in Overwritten
BY DEF Pointers, Devices, Overwritten

(* Ahead in these two parts. *)
LEMMA AheadHas ==
  ASSUME NEW d, NEW k, NEW i
  PROVE  Ahead(d, k, i) <=> HandHas(d, k) \/ LineHas(d, i)
BY DEF Ahead, HandHas, LineHas

(* What the thread has sent or holds, it keeps until it is sent. *)
LEMMA HandKeeps ==
  ASSUME CallerTypes, SenderTypes, HistoryTypes, QueueTypes, SenderHasPacket,
         DirtyHasPacket, NEW d \in Pointers, NEW k \in Nat, k <= Given(d), HandHas(d, k),
         ~failed', [Next]_vars
  PROVE  HandHas(d, k)'
<1> USE PointersAreDevices
<1>0. /\ d \in Devices /\ d \in Overwritten /\ Stands(d) /\ Given(d) \in Nat
      /\ sent[d] \in Nat /\ cur.n \in Nat
  BY GivenIsANumber, BaseIsANumber DEF DirtyHasPacket
<1>a. /\ sent'[d] = sent[d]
      /\ (cur.dev = d => /\ cur'.dev = d /\ cur'.n = cur.n
                         /\ sender' \in Batching <=> sender \in Batching)
      => HandHas(d, k)'
  BY DEF HandHas
<1>1. ASSUME NEW c \in Callers, Begin(c) \/ TakeHolder(c) \/ Overwrite(c) \/ Offer(c)
      PROVE  HandHas(d, k)'
  BY <1>1, <1>a
     DEF Batching, Begin, batchVars, sentVars, TakeHolder, Return, Overwrite, Offer,
         Continue
<1>2. ASSUME WaitForPacket PROVE HandHas(d, k)'
  <2>1. cur.dev # d /\ sent' = sent
    BY <1>0, <1>2, NoneIsAPacket, NoneIsNoDevice DEF WaitForPacket, SenderHasPacket
  <2> QED
    BY <1>a, <2>1
<1>3. ASSUME Batch PROVE HandHas(d, k)'
  <2>1. cur.dev # d /\ sent' = sent
    BY <1>0, <1>3 DEF Batch, SenderHasPacket, Merged, Pads, Overwritten
  <2> QED
    BY <1>a, <2>1
<1>4. ASSUME Motion PROVE HandHas(d, k)'
  <2>1. cur.dev = "move" /\ sender = "motion"
    BY <1>4 DEF Motion, SenderHasPacket
  <2>2. CASE sent' = [sent EXCEPT !["move"] = Given("move")]
    <3>1. sent'[d] = IF d = "move" THEN Given(d) ELSE sent[d]
      BY <1>0, <2>2 DEF SenderTypes
    <3>2. CASE d = "move"
      BY <3>1, <3>2 DEF HandHas
    <3>3. CASE d # "move"
      BY <1>a, <2>1, <3>1, <3>3
    <3> QED
      BY <3>2, <3>3
  <2>3. CASE /\ cur' = [cur EXCEPT !.key = Clamp(delta)] /\ sender' = "send motion"
             /\ UNCHANGED sent
    <3>1. cur'.dev = cur.dev /\ cur'.n = cur.n
      BY <2>3 DEF SenderTypes, Packets
    <3> QED
      BY <1>a, <2>1, <2>3, <3>1 DEF Batching
  <2> QED
    BY <1>4, <2>2, <2>3 DEF Motion
<1>5. CASE SendMotion \/ StopStep \/ UNCHANGED vars
  BY <1>5, <1>a DEF Batching, SendMotion, batchVars, StopStep, sentVars, vars
<1>6. ASSUME Latest PROVE HandHas(d, k)'
  <2>1. cur'.dev = cur.dev /\ cur'.n = Given(cur.dev) /\ sent' = sent
    BY <1>6 DEF Latest, SenderTypes, Packets
  <2> QED
    BY <2>1 DEF HandHas
<1>7. ASSUME SendCodePoint PROVE HandHas(d, k)'
  <2>1. cur.dev # d /\ sent' = sent
    BY <1>0, <1>7 DEF SendCodePoint, SenderHasPacket, Overwritten
  <2> QED
    BY <1>a, <2>1
<1>8. ASSUME Send PROVE HandHas(d, k)'
  <2>1. sent' = [sent EXCEPT ![cur.dev] = cur.n]
    BY <1>8 DEF Send
  <2>2. CASE cur.dev # d
    BY <1>0, <1>a, <2>1, <2>2 DEF SenderTypes
  <2>3. CASE cur.dev = d
    <3>1. sender = "send"
      BY <1>0, <1>8, <2>3 DEF Send, SenderHasPacket, Overwritten
    <3>2. sent'[d] = cur.n /\ sent[d] <= cur.n
      BY <1>0, <2>1, <2>3, <3>1 DEF SenderTypes, Stands
    <3>3. k <= cur.n
      <4>1. k <= sent[d] \/ k <= cur.n
        BY <2>3, <3>1 DEF HandHas, Batching
      <4> QED
        BY <1>0, <3>2, <4>1
    <3> QED
      BY <3>2, <3>3 DEF HandHas
  <2> QED
    BY <2>2, <2>3
<1>9. ASSUME SendFails PROVE HandHas(d, k)'
  BY <1>9 DEF SendFails
<1> QED
  BY <1>1, <1>2, <1>3, <1>4, <1>5, <1>6, <1>7, <1>8, <1>9 DEF Next, CallStep, SendStep

(* A send thread that failed does not recover. *)
LEMMA FailedStays ==
  ASSUME [Next]_vars, failed
  PROVE  failed'
BY DEF Next, CallStep, SendStep, Begin, TakeHolder, Overwrite, Offer, SendFails, StopStep,
       WaitForPacket, Batch,
       Motion, SendMotion, Latest, SendCodePoint, Send, sentVars, vars

(* A packet ahead of place i stays ahead, or the thread takes it. *)
LEMMA LineKeeps ==
  ASSUME CallerTypes, SenderTypes, HistoryTypes, QueueTypes, SenderHasPacket, [Next]_vars,
         NEW d \in Pointers, NEW i \in Nat, LineHas(d, i)
  PROVE  /\ ~QueueTaken => LineHas(d, i)'
         /\ QueueTaken => LineHas(d, i - 1)' \/ (cur'.dev = d /\ sender' \in Batching)
<1>0. PICK j \in Places : j < i /\ Items[j].dev = d
  BY DEF LineHas
<1>1. CASE QueueStays
  <2>1. LineHas(d, i)'
    BY <1>0, <1>1 DEF QueueStays, LineHas, Places
  <2>2. ~QueueTaken
    BY <1>1 DEF QueueTaken, Shrinks, QueueStays
  <2> QED
    BY <2>1, <2>2
<1>2. CASE QueueTaken
  <2>1. CASE j = 1
    <3>1. cur'.dev = d
      BY <1>0, <1>2, <2>1 DEF QueueTaken
    <3>2. ~(Batch /\ Merges(cur, Items[1]))
      <4>1. Batch => cur.dev \in Merged
        BY DEF Batch, SenderHasPacket
      <4>2. d \notin Merged
        BY DEF Merged, Pads, Pointers
      <4> QED
        BY <1>0, <2>1, <4>1, <4>2 DEF Merges
    <3>3. sender' = Route[d]
      BY <1>2, <3>1, <3>2 DEF QueueTaken
    <3>4. Route[d] \in Batching
      BY PointersAreDevices DEF Route, Batching, Pointers, Pads
    <3> QED
      BY <1>2, <3>1, <3>3, <3>4
  <2>2. CASE j # 1
    <3>1. j - 1 \in Places' /\ Items'[j - 1] = Items[j]
      BY <1>2, <2>2 DEF QueueTaken, Shrinks
    <3>2. j - 1 < i - 1
      BY <1>0 DEF Places
    <3> QED
      BY <1>0, <1>2, <3>1, <3>2 DEF LineHas
  <2> QED
    BY <2>1, <2>2
<1>3. ASSUME NEW c \in Callers, QueueGiven(c) PROVE ~QueueTaken /\ LineHas(d, i)'
  <2>1. PICK x : Grows(x)
    BY <1>3 DEF QueueGiven
  <2>2. ~QueueTaken
    BY <2>1 DEF QueueTaken, Shrinks, Grows
  <2>3. j \in Places' /\ Items'[j] = Items[j]
    BY <1>0, <2>1 DEF Grows
  <2> QED
    BY <1>0, <2>2, <2>3 DEF LineHas
<1> QED
  BY <1>1, <1>2, <1>3, QueueSteps

(* So what a packet follows, it follows after the step, at its new place. *)
LEMMA FollowsKeeps ==
  ASSUME CallerTypes, SenderTypes, HistoryTypes, QueueTypes, SenderHasPacket,
         DirtyHasPacket, [Next]_vars,
         NEW d \in Pointers, NEW k \in Nat, NEW i \in Nat, Follows(k, d, i)
  PROVE  /\ ~QueueTaken => Follows(k, d, i)'
         /\ QueueTaken => Follows(k, d, i - 1)'
<1>1. k <= Given(d)'
  BY GivenStays, PointersAreDevices DEF Follows
<1>2. ASSUME ~failed'
      PROVE  HandHas(d, k)' \/ (IF QueueTaken THEN LineHas(d, i - 1)' ELSE LineHas(d, i)')
  <2>1. ~failed
    BY <1>2, FailedStays
  <2>2. HandHas(d, k) \/ LineHas(d, i)
    BY <2>1, AheadHas DEF Follows
  <2>3. CASE HandHas(d, k)
    BY <1>2, <2>3, HandKeeps DEF Follows
  <2>4. CASE LineHas(d, i)
    BY <2>4, LineKeeps DEF HandHas
  <2> QED
    BY <2>2, <2>3, <2>4
<1> QED
  BY <1>1, <1>2 DEF Follows, Ahead, HandHas, LineHas

-------------------------------------------------------------------------------
(* Every step keeps the values of the callers, ... *)
LEMMA CallerTypesNext ==
  ASSUME CallerTypes, SenderTypes, HistoryTypes, QueueTypes, [Next]_vars
  PROVE  CallerTypes'
<1>1. ASSUME NEW c \in Callers, Begin(c) PROVE CallerTypes'
  <2>1. todo[c] \in Seq(Events) /\ todo[c] # <<>> /\ pc[c] = "idle"
    BY <1>1 DEF Begin, CallerTypes
  <2>2. Event(c) \in Events
    BY <2>1 DEF Event
  <2>3. Event(c).dev \in Devices /\ Event(c).key \in Int
    BY <2>2 DEF Events
  <2> DEFINE h == [None EXCEPT !.dev = Event(c).dev, !.key = Event(c).key,
                               !.after = <<Given("move"), Given("point")>>]
  <2>4. h \in Packets
    <3>1. Given("move") \in Nat /\ Given("point") \in Nat
      BY GivenIsANumber DEF Devices, Overwritten
    <3> QED
      BY <2>3, <3>1, NewPacket
  <2>5. h.dev = Event(c).dev
    BY DEF None
  <2>6. /\ holder' = [holder EXCEPT ![c] = h] /\ pc' = [pc EXCEPT ![c] = "take"]
        /\ todo' = todo
    BY <1>1 DEF Begin
  <2>7. /\ holder' \in [Callers -> Packets]
        /\ pc' \in [Callers -> {"idle", "take", "offer"}]
        /\ \A b \in Callers : pc'[b] # "idle"
             => holder'[b].dev \in Devices /\ todo'[b] # <<>>
    BY <2>1, <2>3, <2>4, <2>5, <2>6 DEF CallerTypes
  <2>8. batchedScrollDelta' \in Int
    BY <1>1, <2>3 DEF Begin, ScrollFrom, CallerTypes
  <2> QED
    BY <1>1, <2>6, <2>7, <2>8 DEF CallerTypes, Begin, batchVars
<1>2. ASSUME NEW c \in Callers, TakeHolder(c) PROVE CallerTypes'
  <2>1. pc[c] = "take" /\ holder[c] \in Packets /\ holder[c].dev \in Devices
    BY <1>2 DEF TakeHolder, CallerTypes
  <2>2. UNCHANGED <<batchedInputMutex, batchedScrollDelta, delta, dirty, gyro>>
    BY <1>2 DEF TakeHolder, batchVars
  <2>3. CASE Return(c) /\ UNCHANGED currentPenButtonState
    BY <2>1, <2>2, <2>3, ReturnValues DEF CallerTypes
  <2>4. CASE ~(Return(c) /\ UNCHANGED currentPenButtonState)
    <3> DEFINE h == [holder[c] EXCEPT !.reliable = Reliable(holder[c].dev, holder[c].key)]
    <3>1. h \in Packets
      <4>1. Reliable(holder[c].dev, holder[c].key) \in BOOLEAN
        BY DEF Reliable
      <4> QED
        BY <2>1, <4>1, MarkedPacket
    <3>2. h.dev = holder[c].dev
      BY <2>1 DEF Packets
    <3>3. /\ pc' = [pc EXCEPT ![c] = "offer"] /\ holder' = [holder EXCEPT ![c] = h]
          /\ todo' = todo
      BY <1>2, <2>4 DEF TakeHolder
    <3>4. currentPenButtonState' \in Int
      BY <1>2, <2>1, <2>4, PacketFields DEF TakeHolder, PenButtons, CallerTypes
    <3> QED
      BY <2>1, <2>2, <3>1, <3>2, <3>3, <3>4 DEF CallerTypes
  <2> QED
    BY <2>3, <2>4
<1>3. ASSUME NEW c \in Callers, Overwrite(c) PROVE CallerTypes'
  <2>1. pc[c] = "take" /\ holder[c].dev \in Devices /\ holder[c].key \in Int
    BY <1>3, PacketFields DEF Overwrite, CallerTypes
  <2>2. /\ UNCHANGED <<batchedScrollDelta, currentPenButtonState, dirty>>
        /\ delta' \in Int /\ gyro' \in Int
    BY <1>3, <2>1 DEF Overwrite, CallerTypes
  <2>3. CASE Return(c) /\ batchedInputMutex' = batchedInputMutex
    BY <2>1, <2>2, <2>3, ReturnValues DEF CallerTypes
  <2>4. CASE /\ pc' = [pc EXCEPT ![c] = "offer"] /\ batchedInputMutex' = c
             /\ UNCHANGED <<todo, holder>>
    BY <2>1, <2>2, <2>4 DEF CallerTypes
  <2> QED
    BY <1>3, <2>3, <2>4 DEF Overwrite
<1>4. ASSUME NEW c \in Callers, Offer(c) PROVE CallerTypes'
  <2>1. pc[c] = "offer" /\ holder[c].dev \in Devices /\ holder[c].key \in Int
    BY <1>4, PacketFields DEF Offer, CallerTypes
  <2>2. UNCHANGED <<currentPenButtonState, delta, gyro>>
    BY <1>4 DEF Offer
  <2>3. dirty' \in [Overwritten -> BOOLEAN]
    BY <1>4, OfferValues DEF CallerTypes
  <2>4. batchedScrollDelta' \in Int
    BY <1>4, InputAssumption DEF Offer, Sign, CallerTypes
  <2>5. batchedInputMutex' \in Callers \cup {Nobody}
    BY <1>4 DEF Offer, CallerTypes
  <2>6. CASE Return(c)
    BY <2>1, <2>2, <2>3, <2>4, <2>5, <2>6, ReturnValues DEF CallerTypes
  <2>7. CASE Continue(c)
    <3>1. CASE holder[c].dev = "scroll"
      BY <2>1, <2>2, <2>3, <2>4, <2>5, <2>7, <3>1 DEF Continue, CallerTypes
    <3>2. CASE holder[c].dev = "arrival"
      <4>1. /\ todo' = [todo EXCEPT ![c] = <<[dev |-> "pad1", key |-> 0]>> \o Tail(todo[c])]
            /\ pc' = [pc EXCEPT ![c] = "idle"] /\ holder' = [holder EXCEPT ![c] = None]
        BY <2>7, <3>2 DEF Continue
      <4>2. todo[c] \in Seq(Events) /\ todo[c] # <<>>
        BY <2>1 DEF CallerTypes
      <4>3. <<[dev |-> "pad1", key |-> 0]>> \o Tail(todo[c]) \in Seq(Events)
        <5>1. [dev |-> "pad1", key |-> 0] \in Events
          BY DEF Events, Devices, Pads
        <5>2. Tail(todo[c]) \in Seq(Events)
          BY <4>2
        <5> QED
          BY <5>1, <5>2
      <4> QED
        BY <2>1, <2>2, <2>3, <2>4, <2>5, <4>1, <4>3, NoneIsAPacket DEF CallerTypes
    <3>3. CASE holder[c].dev \notin {"scroll", "arrival"}
      <4>1. Return(c)
        BY <2>7, <3>3 DEF Continue
      <4> QED
        BY <4>1, <2>6
    <3> QED
      BY <3>1, <3>2, <3>3
  <2> QED
    BY <1>4, <2>6, <2>7, OfferValues
<1>5. CASE WaitForPacket \/ Batch \/ SendMotion \/ SendCodePoint \/ Send \/ SendFails
             \/ StopStep \/ UNCHANGED vars
  <2>1. UNCHANGED <<batchedInputMutex, todo, pc, holder, currentPenButtonState,
          batchedScrollDelta, delta, dirty, gyro>>
    BY <1>5
       DEF WaitForPacket, callerVars, batchVars, giverVars, Batch, SendMotion,
           SendCodePoint, Send, SendFails, StopStep, vars
  <2> QED
    BY <2>1 DEF CallerTypes
<1>6. ASSUME Motion PROVE CallerTypes'
  <2>1. delta' \in Int
    <3>1. delta \in Int /\ Clamp(delta) \in Int
      BY ClampType DEF CallerTypes
    <3>2. LeftOf(delta) \in Int
      BY <3>1 DEF LeftOf
    <3> QED
      BY <1>6, <3>1, <3>2 DEF Motion
  <2>2. dirty' \in [Overwritten -> BOOLEAN]
    BY <1>6 DEF Motion, Cleared, CallerTypes
  <2> QED
    BY <1>6, <2>1, <2>2 DEF Motion, CallerTypes, callerVars, giverVars
<1>7. ASSUME Latest PROVE CallerTypes'
  BY <1>7 DEF CallerTypes, Latest, Cleared, callerVars, giverVars
<1> QED
  BY <1>1, <1>2, <1>3, <1>4, <1>5, <1>6, <1>7 DEF Next, CallStep, SendStep

(* ... of the flags, ... *)
LEMMA FlagTypesNext ==
  ASSUME FlagTypes, [Next]_vars
  PROVE  FlagTypes'
<1>1. ASSUME NEW c \in Callers, Begin(c) \/ TakeHolder(c) \/ Overwrite(c) \/ Offer(c)
      PROVE  FlagTypes'
  BY <1>1
     DEF FlagTypes, Begin, stopVars, sentVars, TakeHolder, Return, Overwrite, Offer,
         Continue
<1>2. CASE WaitForPacket \/ Batch \/ Motion \/ SendMotion \/ Latest \/ SendCodePoint \/ Send
             \/ SendFails \/ UNCHANGED vars
  BY <1>2
     DEF FlagTypes, WaitForPacket, stopVars, Batch, Motion, SendMotion, Latest,
         SendCodePoint, Send, SendFails, vars, sentVars
<1>3. ASSUME StopStep PROVE FlagTypes'
  <2>1. Len(StopScript) = 4
    BY DEF StopScript
  <2>2. stopping' \in 0 .. 4
    <3>1. stopping' = stopping + 1 /\ stopping # 4 /\ stopping \in 0 .. 4
      BY <1>3, <2>1 DEF FlagTypes, StopStep, Stopped
    <3> QED
      BY <3>1
  <2>3. initialized' \in BOOLEAN /\ freeListOpen' \in BOOLEAN /\ failed' = failed
    BY <1>3 DEF StopStep, sentVars
  <2> QED
    BY <2>1, <2>2, <2>3 DEF FlagTypes
<1> QED
  BY <1>1, <1>2, <1>3 DEF Next, CallStep, SendStep

(* ... of the histories, ... *)
LEMMA HistoryTypesNext ==
  ASSUME CallerTypes, SenderTypes, HistoryTypes, QueueTypes, [Next]_vars
  PROVE  HistoryTypes'
<1>1. ASSUME NEW c \in Callers, Begin(c) \/ TakeHolder(c) PROVE HistoryTypes'
  BY <1>1 DEF HistoryTypes, Begin, batchVars, sentVars, TakeHolder, Return
<1>2. ASSUME NEW c \in Callers, Overwrite(c) PROVE HistoryTypes'
  <2>1. holder[c].dev \in Devices /\ holder[c].key \in Int
    BY <1>2, PacketFields DEF Overwrite, CallerTypes
  <2>2. given' \in [Devices -> Seq(Int)]
    BY <1>2, <2>1, AcceptValues DEF Overwrite, HistoryTypes
  <2> QED
    BY <1>2, <2>1, <2>2 DEF HistoryTypes, Overwrite, sentVars
<1>3. ASSUME NEW c \in Callers, Offer(c) PROVE HistoryTypes'
  <2>1. holder[c].dev \in Devices /\ holder[c].key \in Int
    BY <1>3, PacketFields DEF Offer, CallerTypes
  <2>2. given' \in [Devices -> Seq(Int)]
    BY <1>3, <2>1, AcceptValues, OfferValues DEF HistoryTypes
  <2> QED
    BY <1>3, <2>2 DEF HistoryTypes, Offer, sentVars
<1>4. CASE WaitForPacket \/ Batch \/ Motion \/ Latest \/ SendCodePoint \/ Send \/ SendFails
             \/ StopStep \/ UNCHANGED vars
  BY <1>4
     DEF HistoryTypes, WaitForPacket, batchVars, giverVars, Batch, Motion, Latest,
         SendCodePoint, Send, SendFails, StopStep, sentVars, vars
<1>5. ASSUME SendMotion PROVE HistoryTypes'
  <2>1. cur.key \in Int /\ arrived \in Int
    BY PacketFields DEF SenderTypes, HistoryTypes
  <2>2. arrived + cur.key \in Int
    BY <2>1
  <2> QED
    BY <1>5, <2>2 DEF HistoryTypes, SendMotion, giverVars
<1> QED
  BY <1>1, <1>2, <1>3, <1>4, <1>5 DEF Next, CallStep, SendStep

(* ... of the queue, ... *)
LEMMA QueueTypesNext ==
  ASSUME CallerTypes, SenderTypes, HistoryTypes, QueueTypes, [Next]_vars
  PROVE  QueueTypes'
<1>1. ASSUME NEW c \in Callers, Begin(c) \/ TakeHolder(c) \/ Overwrite(c) PROVE QueueTypes'
  BY <1>1 DEF QueueTypes, Items, Begin, batchVars, TakeHolder, Return, Overwrite
<1>2. ASSUME NEW c \in Callers, Offer(c) PROVE QueueTypes'
  BY <1>2, OfferValues
<1>3. ASSUME WaitForPacket PROVE QueueTypes'
  BY <1>3, WaitValues
<1>4. ASSUME Batch PROVE QueueTypes'
  BY <1>4, BatchValues
<1>5. CASE Motion \/ SendMotion \/ Latest \/ SendCodePoint \/ Send \/ SendFails
             \/ UNCHANGED vars
  BY <1>5
     DEF QueueTypes, Items, Motion, SendMotion, batchVars, Latest, SendCodePoint, Send,
         SendFails, vars
<1>6. ASSUME StopStep PROVE QueueTypes'
  <2>1. packetQueue' \in {packetQueue, Drained(packetQueue)}
    BY <1>6 DEF StopStep, EndsQueue
  <2>2. Drained(packetQueue) \in QueueOf(Packets) /\ Drained(packetQueue).items = Items
        /\ ~Drained(packetQueue).shutdown /\ ~Drained(packetQueue).pendingUserWake
    BY DEF QueueTypes, QueueOf, Drained, Items
  <2> QED
    BY <2>1, <2>2 DEF QueueTypes, Items
<1> QED
  BY <1>1, <1>2, <1>3, <1>4, <1>5, <1>6 DEF Next, CallStep, SendStep

(* ... and of the send thread. *)
LEMMA SenderTypesNext ==
  ASSUME CallerTypes, SenderTypes, HistoryTypes, QueueTypes, SenderHasPacket, [Next]_vars
  PROVE  SenderTypes'
<1>1. ASSUME NEW c \in Callers, Begin(c) \/ TakeHolder(c) \/ Overwrite(c) \/ Offer(c)
      PROVE  SenderTypes'
  BY <1>1
     DEF SenderTypes, Begin, batchVars, sentVars, TakeHolder, Return, Overwrite, Offer,
         Continue
<1>2. ASSUME WaitForPacket PROVE SenderTypes'
  <2>1. CASE Shrinks /\ cur' = Items[1] /\ cur' \in Packets /\ sender' = Route[cur'.dev]
    <3>1. cur'.dev \in Devices
      BY <2>1 DEF Shrinks, SenderHasPacket
    <3> QED
      BY <1>2, <2>1, <3>1 DEF SenderTypes, WaitForPacket, Route
  <2>2. CASE cur' = cur /\ sender' = "ended"
    BY <1>2, <2>2 DEF SenderTypes, WaitForPacket
  <2> QED
    BY <1>2, <2>1, <2>2, WaitValues
<1>3. ASSUME Batch PROVE SenderTypes'
  BY <1>3, BatchValues DEF SenderTypes, Batch
<1>4. ASSUME Motion PROVE SenderTypes'
  <2>1. CASE cur' = None /\ sender' = "wait" /\ UNCHANGED failed
    <3>1. Given("move") \in Nat
      BY GivenIsANumber DEF Devices, Overwritten
    <3>2. sent' \in [Devices -> Nat] /\ sure' \in [Devices -> Nat]
      BY <1>4, <3>1 DEF Motion, SenderTypes
    <3> QED
      BY <2>1, <3>2, NoneIsAPacket DEF SenderTypes
  <2>2. CASE /\ cur' = [cur EXCEPT !.key = Clamp(delta)] /\ sender' = "send motion"
             /\ UNCHANGED <<sent, sure>>
    <3>1. Clamp(delta) \in Int
      BY ClampType DEF CallerTypes
    <3> QED
      BY <2>2, <3>1, KeyedPacket DEF SenderTypes
  <2> QED
    BY <1>4, <2>1, <2>2 DEF Motion
<1>5. CASE SendMotion \/ StopStep \/ UNCHANGED vars
  BY <1>5 DEF SenderTypes, SendMotion, batchVars, StopStep, sentVars, vars
<1>6. ASSUME Latest PROVE SenderTypes'
  <2>1. cur.dev \in Devices
    BY <1>6 DEF Latest, SenderHasPacket
  <2>2. Given(cur.dev) \in Nat /\ SentReliably \in BOOLEAN
    BY <2>1, GivenIsANumber DEF SentReliably
  <2>3. cur' \in Packets
    BY <1>6, <2>2, LatestPacket DEF Latest, SenderTypes
  <2> QED
    BY <1>6, <2>3 DEF Latest, SenderTypes
<1>7. ASSUME SendCodePoint PROVE SenderTypes'
  <2>1. cur \in Packets /\ cur.key \in Int
    BY PacketFields DEF SenderTypes
  <2> QED
    <3>1. cur.key - 1 \in Int
      BY <2>1
    <3> QED
      BY <1>7, <2>1, <3>1, KeyedPacket DEF SendCodePoint, SenderTypes
<1>8. ASSUME Send PROVE SenderTypes'
  <2>1. cur.n \in Nat
    BY PacketFields DEF SenderTypes
  <2> QED
    BY <1>8, <2>1, NoneIsAPacket DEF Send, SenderTypes
<1>9. ASSUME SendFails PROVE SenderTypes'
  BY <1>9, NoneIsAPacket DEF SendFails, SenderTypes
<1> QED
  BY <1>1, <1>2, <1>3, <1>4, <1>5, <1>6, <1>7, <1>8, <1>9 DEF Next, CallStep, SendStep

(* Every step leaves the thread with the packet that its place asks for, ... *)
LEMMA SenderHasPacketNext ==
  ASSUME CallerTypes, SenderTypes, HistoryTypes, QueueTypes, SenderHasPacket, [Next]_vars
  PROVE  SenderHasPacket'
<1>1. ASSUME NEW c \in Callers, Begin(c) \/ TakeHolder(c) \/ Overwrite(c)
      PROVE  SenderHasPacket'
  <2>1. UNCHANGED <<sender, cur, failed, packetQueue>>
    BY <1>1 DEF Begin, batchVars, sentVars, TakeHolder, Return, Overwrite
  <2> QED
    BY <2>1 DEF SenderHasPacket, Places, Items
<1>2. ASSUME NEW c \in Callers, Offer(c) PROVE SenderHasPacket'
  <2>1. holder[c].dev \in Devices /\ holder[c] \in Packets
    BY <1>2 DEF Offer, CallerTypes
  <2> DEFINE x == [holder[c] EXCEPT !.n = Given(holder[c].dev) + 1]
  <2>2. x.dev \in Devices
    BY <2>1 DEF Packets
  <2>3. UNCHANGED <<sender, cur, failed>>
    BY <1>2 DEF Offer, sentVars
  <2>4. QueueTypes' /\ (Grows(x) \/ packetQueue' = packetQueue)
    BY <1>2, OfferValues
  <2>5. \A i \in Places' : Items'[i].dev \in Devices
    <3>1. CASE Grows(x)
      BY <2>2, <3>1 DEF SenderHasPacket, Grows
    <3>2. CASE packetQueue' = packetQueue
      BY <3>2 DEF SenderHasPacket, Places, Items
    <3> QED
      BY <2>4, <3>1, <3>2
  <2> QED
    BY <2>3, <2>4, <2>5 DEF SenderHasPacket, QueueTypes
<1>3. ASSUME WaitForPacket PROVE SenderHasPacket'
  <2>1. CASE Shrinks /\ cur' = Items[1] /\ cur' \in Packets /\ sender' = Route[cur'.dev]
    <3>1. cur'.dev \in Devices
      BY <2>1 DEF Shrinks, SenderHasPacket
    <3>2. /\ sender' \notin {"wait", "ended"}
          /\ sender' = "batch" <=> cur'.dev \in Merged
          /\ sender' \in {"motion", "send motion"} <=> cur'.dev = "move"
          /\ sender' = "latest" => cur'.dev \in {"point", "sense"}
          /\ sender' = "text" => cur'.dev = "text"
      BY <2>1, <3>1 DEF Route, Devices, Pads, Overwritten, Merged
    <3>3. \A i \in Places' : Items'[i].dev \in Devices
      BY <2>1 DEF Shrinks, SenderHasPacket
    <3>4. ~failed'
      BY <1>3 DEF SenderHasPacket, WaitForPacket
    <3>5. QueueTypes'
      BY <1>3, WaitValues
    <3> QED
      BY <3>1, <3>2, <3>3, <3>4, <3>5 DEF SenderHasPacket, QueueTypes
  <2>2. CASE packetQueue' = packetQueue /\ cur' = cur /\ sender' = "ended"
    BY <1>3, <2>2, NoneIsAPacket, NoneIsNoDevice
       DEF SenderHasPacket, WaitForPacket, Places, Items
  <2> QED
    BY <1>3, <2>1, <2>2, WaitValues
<1>4. ASSUME Batch PROVE SenderHasPacket'
  <2>0. sender = "batch" /\ failed' = failed /\ cur.dev \in Merged /\ QueueTypes'
    BY <1>4, BatchValues DEF SenderHasPacket, Batch
  <2>1. CASE /\ Shrinks /\ cur' = Items[1] /\ cur' \in Packets /\ Merges(cur, Items[1])
             /\ sender' = sender
    <3>1. cur'.dev = cur.dev
      BY <2>1 DEF Merges
    <3>2. \A i \in Places' : Items'[i].dev \in Devices
      BY <2>1 DEF Shrinks, SenderHasPacket
    <3> QED
      BY <2>0, <2>1, <3>1, <3>2 DEF SenderHasPacket, QueueTypes
  <2>2. CASE packetQueue' = packetQueue /\ cur' = cur /\ sender' = "send"
    BY <2>0, <2>2 DEF SenderHasPacket, Places, Items, Merged, Pads
  <2> QED
    BY <1>4, <2>1, <2>2, BatchValues
<1>5. ASSUME Motion PROVE SenderHasPacket'
  <2>1. cur.dev = "move" /\ packetQueue' = packetQueue /\ failed' = failed
    BY <1>5 DEF SenderHasPacket, Motion
  <2>2. CASE cur' = None /\ sender' = "wait"
    BY <2>1, <2>2, NoneIsAPacket, NoneIsNoDevice DEF SenderHasPacket, Places, Items
  <2>3. CASE cur' = [cur EXCEPT !.key = Clamp(delta)] /\ sender' = "send motion"
    <3>1. cur'.dev = cur.dev
      BY <2>3 DEF SenderTypes, Packets
    <3>2. "move" \in Devices /\ "move" \notin Merged
      BY DEF Devices, Overwritten, Merged, Pads
    <3> QED
      BY <2>1, <2>3, <3>1, <3>2 DEF SenderHasPacket, Places, Items
  <2> QED
    BY <1>5, <2>2, <2>3 DEF Motion
<1>6. ASSUME SendMotion PROVE SenderHasPacket'
  BY <1>6 DEF SenderHasPacket, Places, Items, SendMotion
<1>7. ASSUME Latest PROVE SenderHasPacket'
  <2>1. /\ cur.dev \in {"point", "sense"} /\ packetQueue' = packetQueue /\ failed' = failed
        /\ sender' = "send"
    BY <1>7 DEF SenderHasPacket, Latest
  <2>2. cur'.dev = cur.dev
    BY <1>7 DEF Latest, SenderTypes, Packets
  <2> QED
    BY <1>7, <2>1, <2>2 DEF SenderHasPacket, Places, Items, Latest
<1>8. ASSUME SendCodePoint PROVE SenderHasPacket'
  <2>1. /\ sender = "text" /\ packetQueue' = packetQueue /\ failed' = failed
        /\ sender' = sender
    BY <1>8 DEF SendCodePoint
  <2>2. cur'.dev = cur.dev
    BY <1>8 DEF SendCodePoint, SenderTypes, Packets
  <2> QED
    BY <2>1, <2>2 DEF SenderHasPacket, Places, Items
<1>9. ASSUME Send PROVE SenderHasPacket'
  BY <1>9, NoneIsAPacket, NoneIsNoDevice DEF SenderHasPacket, Places, Items, Send
<1>10. ASSUME SendFails PROVE SenderHasPacket'
  BY <1>10, NoneIsAPacket, NoneIsNoDevice DEF SenderHasPacket, Places, Items, SendFails
<1>11. ASSUME StopStep PROVE SenderHasPacket'
  <2>1. Items' = Items /\ QueueTypes'
    BY <1>11, StopValues, QueueTypesNext DEF Next
  <2> QED
    BY <1>11, <2>1 DEF SenderHasPacket, Places, QueueTypes, StopStep, sentVars
<1>12. CASE UNCHANGED vars
  <2>1. UNCHANGED <<sender, cur, failed, packetQueue>>
    BY <1>12 DEF vars, batchVars, sentVars
  <2> QED
    BY <2>1 DEF SenderHasPacket, Places, Items
<1> QED
  BY <1>1, <1>2, <1>3, <1>4, <1>5, <1>6, <1>7, <1>8, <1>9, <1>10, <1>11, <1>12
     DEF Next, CallStep, SendStep

(* ... the mutex with the caller whose packet is not queued yet, ... *)
LEMMA MutexIsHeldNext ==
  ASSUME CallerTypes, SenderTypes, HistoryTypes, QueueTypes, MutexIsHeld, [Next]_vars
  PROVE  MutexIsHeld'
<1>1. ASSUME NEW c \in Callers, Begin(c) PROVE MutexIsHeld'
  <2>1. /\ pc[c] = "idle" /\ pc'[c] = "take"
        /\ \A b \in Callers \ {c} : pc'[b] = pc[b] /\ holder'[b] = holder[b]
    BY <1>1 DEF Begin, CallerTypes
  <2> QED
    BY <1>1, <2>1 DEF MutexIsHeld, Begin, batchVars
<1>2. ASSUME NEW c \in Callers, TakeHolder(c) PROVE MutexIsHeld'
  <2>1. pc[c] = "take" /\ holder[c].dev \notin Overwritten /\ holder[c] \in Packets
    BY <1>2 DEF TakeHolder, CallerTypes
  <2>2. \A b \in Callers \ {c} : pc'[b] = pc[b] /\ holder'[b] = holder[b]
    BY <1>2, <2>1, ReturnValues DEF TakeHolder, CallerTypes
  <2>3. pc'[c] # "offer" \/ holder'[c].dev \notin Overwritten
    <3>1. CASE Return(c)
      BY <2>1, <3>1, ReturnValues
    <3>2. CASE holder' = [holder EXCEPT ![c].reliable =
                                         Reliable(holder[c].dev, holder[c].key)]
      BY <2>1, <3>2 DEF Packets, CallerTypes
    <3> QED
      BY <1>2, <3>1, <3>2 DEF TakeHolder
  <2> QED
    BY <1>2, <2>1, <2>2, <2>3 DEF MutexIsHeld, TakeHolder, batchVars
<1>3. ASSUME NEW c \in Callers, Overwrite(c) PROVE MutexIsHeld'
  <2>1. /\ pc[c] = "take" /\ holder[c].dev \in Overwritten /\ batchedInputMutex = Nobody
        /\ dirty' = dirty
    BY <1>3 DEF Overwrite
  <2>2. \A b \in Callers : b # Nobody
    BY InputAssumption
  <2>3. CASE Return(c) /\ UNCHANGED batchedInputMutex
    BY <2>1, <2>2, <2>3, ReturnValues DEF MutexIsHeld
  <2>4. CASE /\ pc' = [pc EXCEPT ![c] = "offer"] /\ batchedInputMutex' = c
             /\ UNCHANGED <<todo, holder>> /\ ~dirty[holder[c].dev]
    <3>1. holder[c].dev = "sense" => gyro' = holder[c].key
      BY <1>3 DEF Overwrite
    <3> QED
      BY <2>1, <2>2, <2>4, <3>1 DEF MutexIsHeld, CallerTypes
  <2> QED
    BY <1>3, <2>3, <2>4 DEF Overwrite
<1>4. ASSUME NEW c \in Callers, Offer(c) PROVE MutexIsHeld'
  <2>1. pc[c] = "offer" /\ gyro' = gyro
    BY <1>4 DEF Offer
  <2>2. Return(c) \/ Continue(c)
    BY <1>4 DEF Offer
  <2>3. /\ pc'[c] # "offer"
        /\ \A b \in Callers \ {c} : pc'[b] = pc[b] /\ holder'[b] = holder[b]
    BY <2>1, <2>2, ReturnValues DEF Continue, CallerTypes
  <2>4. \A b \in Callers : b # Nobody
    BY InputAssumption
  <2>5. CASE holder[c].dev \in Overwritten
    <3>1. batchedInputMutex = c /\ batchedInputMutex' = Nobody
      BY <1>4, <2>1, <2>5 DEF Offer, MutexIsHeld
    <3> QED
      BY <2>3, <2>4, <3>1 DEF MutexIsHeld
  <2>6. CASE holder[c].dev \notin Overwritten
    <3>1. batchedInputMutex # c /\ batchedInputMutex' = batchedInputMutex /\ dirty' = dirty
      BY <1>4, <2>1, <2>6 DEF Offer, MutexIsHeld
    <3> QED
      BY <2>1, <2>3, <3>1 DEF MutexIsHeld
  <2> QED
    BY <2>5, <2>6
<1>5. CASE WaitForPacket \/ Batch \/ SendMotion \/ SendCodePoint \/ Send \/ SendFails
             \/ StopStep \/ UNCHANGED vars
  BY <1>5
     DEF MutexIsHeld, WaitForPacket, callerVars, batchVars, Batch, SendMotion,
         SendCodePoint, Send, SendFails, StopStep, vars
<1>6. ASSUME Motion PROVE MutexIsHeld'
  <2>1. batchedInputMutex = Nobody /\ UNCHANGED <<batchedInputMutex, pc, holder>>
    BY <1>6 DEF Motion, callerVars
  <2>2. \A b \in Callers : b # Nobody
    BY InputAssumption
  <2> QED
    BY <2>1, <2>2 DEF MutexIsHeld
<1>7. ASSUME Latest PROVE MutexIsHeld'
  <2>1. batchedInputMutex = Nobody /\ UNCHANGED <<batchedInputMutex, pc, holder>>
    BY <1>7 DEF Latest, callerVars
  <2>2. \A b \in Callers : b # Nobody
    BY InputAssumption
  <2> QED
    BY <2>1, <2>2 DEF MutexIsHeld
<1> QED
  BY <1>1, <1>2, <1>3, <1>4, <1>5, <1>6, <1>7 DEF Next, CallStep, SendStep

(* ... no packet missing of a device that does not batch, ... *)
LEMMA NoGapNext ==
  ASSUME CallerTypes, SenderTypes, HistoryTypes, QueueTypes, SenderHasPacket, NoGap,
         [Next]_vars
  PROVE  NoGap'
<1> SUFFICES ASSUME NEW d \in Queued PROVE NoGapAt(d)'
  BY DEF NoGap, NoGapAt
<1> USE DEF Queued
<1>0. NoGapAt(d)
  BY DEF NoGap, NoGapAt
<1>1. ASSUME NEW c \in Callers, Begin(c) \/ TakeHolder(c) PROVE NoGapAt(d)'
  <2>1. Keeps(d)
    BY <1>1 DEF Keeps, Items, Given, Begin, batchVars, sentVars, TakeHolder, Return
  <2> QED
    BY <1>0, <2>1, NumbersStay
<1>2. ASSUME NEW c \in Callers, Overwrite(c) PROVE NoGapAt(d)'
  <2>1. holder[c].dev \in Devices /\ holder[c].dev # d /\ holder[c].key \in Int
    BY <1>2, PacketFields DEF Overwrite, CallerTypes, Queued
  <2>2. Given(d)' = Given(d)
    <3>1. CASE UNCHANGED given
      BY <3>1 DEF Given
    <3>2. CASE Accept(holder[c].dev, holder[c].key)
      BY <2>1, <3>2, AcceptValues DEF Queued
    <3> QED
      BY <1>2, <3>1, <3>2 DEF Overwrite
  <2>3. Keeps(d)
    BY <1>2, <2>2 DEF Keeps, Overwrite, Items, sentVars
  <2> QED
    BY <2>3, <1>0, NumbersStay, <1>0
<1>3. ASSUME NEW c \in Callers, Offer(c) PROVE NoGapAt(d)'
  <2> DEFINE x == [holder[c] EXCEPT !.n = Given(holder[c].dev) + 1]
  <2>1. holder[c].dev \in Devices /\ holder[c] \in Packets /\ holder[c].key \in Int
    BY <1>3, PacketFields DEF Offer, CallerTypes
  <2>2. x.dev = holder[c].dev /\ x.n = Given(holder[c].dev) + 1
    BY <2>1 DEF Packets
  <2>3. UNCHANGED <<cur, sent, failed>>
    BY <1>3 DEF Offer, sentVars
  <2>4. CASE Grows(x) /\ Accept(holder[c].dev, holder[c].key)
    <3>1. Given(d)' = IF x.dev = d THEN Given(d) + 1 ELSE Given(d)
      BY <2>1, <2>2, <2>4, AcceptValues DEF Queued
    <3> HIDE DEF x
    <3> QED
      BY <2>2, <2>3, <2>4, <3>1, NumbersGrow, <1>0 DEF Queued
  <2>5. CASE packetQueue' = packetQueue /\ UNCHANGED given
    <3>1. Keeps(d)
      BY <2>3, <2>5 DEF Keeps, Items, Given
    <3> QED
      BY <3>1, NumbersStay, <1>0
  <2> QED
    BY <1>3, <2>4, <2>5, OfferValues
<1>4. ASSUME WaitForPacket PROVE NoGapAt(d)'
  <2>1. UNCHANGED <<sent, failed, given>> /\ cur = None
    BY <1>4 DEF WaitForPacket, giverVars, SenderHasPacket
  <2>0. Given(d)' = Given(d) /\ cur.dev # d
    BY <2>1, NoneIsAPacket, NoneIsNoDevice DEF Given, Queued
  <2>2. CASE Shrinks /\ cur' = Items[1]
    BY <2>0, <2>1, <2>2, NumbersShrink, <1>0 DEF Queued
  <2>3. CASE packetQueue' = packetQueue /\ cur' = cur
    <3>1. Keeps(d)
      BY <2>0, <2>1, <2>3 DEF Keeps, Items
    <3> QED
      BY <3>1, NumbersStay, <1>0
  <2> QED
    BY <1>4, <2>2, <2>3, WaitValues
<1>5. ASSUME Batch PROVE NoGapAt(d)'
  <2>1. UNCHANGED <<sent, failed, given>>
    BY <1>5 DEF Batch, giverVars
  <2>0. Given(d)' = Given(d)
    BY <2>1 DEF Given
  <2>2. CASE Shrinks /\ cur' = Items[1] /\ Merges(cur, Items[1])
    <3>1. cur.dev = d => cur'.dev = d
      BY <2>2 DEF Merges
    <3> QED
      BY <2>0, <2>1, <2>2, <3>1, NumbersShrink, <1>0 DEF Queued
  <2>3. CASE packetQueue' = packetQueue /\ cur' = cur
    <3>1. Keeps(d)
      BY <2>0, <2>1, <2>3 DEF Keeps, Items
    <3> QED
      BY <3>1, NumbersStay, <1>0
  <2> QED
    BY <1>5, <2>2, <2>3, BatchValues
<1>6. ASSUME Motion PROVE NoGapAt(d)'
  <2>1. cur.dev = "move" /\ d # "move"
    BY <1>6 DEF Motion, SenderHasPacket, Queued, Overwritten
  <2>2. cur'.dev # d
    <3>1. None.dev # d
      BY NoneIsAPacket, NoneIsNoDevice DEF Queued
    <3>2. [cur EXCEPT !.key = Clamp(delta)].dev = cur.dev
      BY DEF SenderTypes, Packets
    <3> QED
      BY <1>6, <2>1, <3>1, <3>2 DEF Motion
  <2>3. sent'[d] = sent[d]
    BY <1>6, <2>1 DEF Motion, SenderTypes, Queued
  <2>4. Keeps(d)
    BY <1>6, <2>1, <2>2, <2>3 DEF Keeps, Items, Motion, giverVars, Given
  <2> QED
    BY <2>4, NumbersStay, <1>0
<1>7. CASE SendMotion \/ UNCHANGED vars
  <2>1. Keeps(d)
    BY <1>7 DEF Keeps, Items, Given, SendMotion, batchVars, giverVars, vars, sentVars
  <2> QED
    BY <1>0, <2>1, NumbersStay
<1>8. ASSUME Latest PROVE NoGapAt(d)'
  <2>1. cur.dev # d
    BY <1>8 DEF Latest, SenderHasPacket, Queued, Overwritten
  <2>2. cur'.dev # d
    BY <1>8, <2>1 DEF Latest, SenderTypes, Packets
  <2>4. Keeps(d)
    BY <1>8, <2>1, <2>2 DEF Keeps, Items, Latest, giverVars, Given
  <2> QED
    BY <2>4, NumbersStay, <1>0
<1>9. ASSUME SendCodePoint PROVE NoGapAt(d)'
  <2>1. cur'.dev = cur.dev /\ cur'.n = cur.n
    BY <1>9 DEF SendCodePoint, SenderTypes, Packets
  <2>4. Keeps(d)
    BY <1>9, <2>1 DEF Keeps, Items, SendCodePoint, giverVars, Given
  <2> QED
    BY <2>4, NumbersStay, <1>0
<1>10. ASSUME Send PROVE NoGapAt(d)'
  <2>1. /\ Items' = Items /\ given' = given /\ failed' = failed /\ cur' = None
        /\ Given(d)' = Given(d) /\ cur'.dev # d
    BY <1>10, NoneIsAPacket, NoneIsNoDevice DEF Send, Items, giverVars, Given, Queued
  <2>2. CASE cur.dev # d
    <3>1. sent'[d] = sent[d]
      BY <1>10, <2>2 DEF Send, SenderTypes, Queued
    <3>2. Keeps(d)
      BY <2>1, <2>2, <3>1 DEF Keeps
    <3> QED
      BY <3>2, NumbersStay, <1>0
  <2>3. CASE cur.dev = d
    <3>1. sent'[d] = cur.n /\ Base(d) = cur.n /\ Base(d)' = Base(d)
      BY <1>10, <2>1, <2>3 DEF Send, SenderTypes, Queued, Base
    <3>2. sent'[d] <= Base(d)'
      BY <3>1, BaseIsANumber DEF Queued
    <3> QED
      BY <1>0, <2>1, <3>1, <3>2 DEF NoGapAt, Numbered, Complete, Places
  <2> QED
    BY <2>2, <2>3
<1>11. ASSUME SendFails PROVE NoGapAt(d)'
  <2>1. /\ Items' = Items /\ given' = given /\ failed' /\ sent' = sent
        /\ Given(d)' = Given(d) /\ cur'.dev # d
    BY <1>11, NoneIsAPacket, NoneIsNoDevice DEF SendFails, Items, giverVars, Given, Queued
  <2>2. /\ Base(d)' = sent[d] /\ Base(d) \in Nat /\ sent[d] \in Nat /\ Given(d) \in Nat
        /\ sent[d] <= Base(d) /\ Base(d) <= Given(d)
    BY <1>0, <2>1, BaseIsANumber, GivenIsANumber DEF Base, Queued, NoGapAt, Numbered
  <2>3. \A i \in Places : Items[i].dev = d => sent[d] < Items[i].n /\ Items[i].n <= Given(d)
    <3>1. \A i \in Places : Items[i].n \in Nat
      BY ItemsAreNumbered
    <3> QED
      BY <1>0, <2>2, <3>1 DEF NoGapAt, Numbered
  <2> QED
    BY <1>0, <2>1, <2>2, <2>3 DEF NoGapAt, Numbered, Places
<1>12. ASSUME StopStep PROVE NoGapAt(d)'
  <2>1. Items' = Items
    BY <1>12, StopValues
  <2>2. Keeps(d)
    BY <1>12, <2>1 DEF Keeps, Given, sentVars, giverVars, StopStep
  <2> QED
    BY <2>2, NumbersStay, <1>0
<1> QED
  BY <1>1, <1>2, <1>3, <1>4, <1>5, <1>6, <1>7, <1>8, <1>9, <1>10, <1>11, <1>12
     DEF Next, CallStep, SendStep

(* ... one packet for every dirty state and none for a clean one, ... *)
LEMMA DirtyHasPacketNext ==
  ASSUME CallerTypes, SenderTypes, HistoryTypes, QueueTypes, SenderHasPacket, MutexIsHeld,
         DirtyHasPacket, [Next]_vars
  PROVE  DirtyHasPacket'
<1> SUFFICES ASSUME NEW d \in Overwritten PROVE DirtyAt(d)'
  BY DEF DirtyHasPacket, DirtyAt
<1>0. DirtyAt(d)
  BY DEF DirtyHasPacket, DirtyAt
<1>a. d \in Devices
  BY DEF Devices
<1>1. ASSUME NEW c \in Callers, Begin(c) \/ TakeHolder(c) PROVE DirtyAt(d)'
  <2>1. Leaves(d) /\ Given(d)' = Given(d)
    BY <1>1
       DEF Leaves, Items, Given, InCur, Batching, Begin, batchVars, sentVars, TakeHolder,
           Return
  <2> QED
    BY <1>0, <2>1, DirtyStays
<1>2. ASSUME NEW c \in Callers, Overwrite(c) PROVE DirtyAt(d)'
  <2>1. holder[c].dev \in Devices /\ holder[c].key \in Int
    BY <1>2, PacketFields DEF Overwrite, CallerTypes
  <2>2. Leaves(d)
    BY <1>2 DEF Leaves, Items, InCur, sentVars, Overwrite
  <2>3. CASE Given(d)' = Given(d)
    BY <1>0, <2>2, <2>3, DirtyStays
  <2>4. CASE Given(d)' = Given(d) + 1 /\ dirty[d]
    <3>1. InQueue(d)' <=> InQueue(d)
      BY <2>2 DEF Leaves, InQueue, Places
    <3>2. Given(d) \in Nat /\ sent[d] \in Nat /\ cur.n \in Nat
      BY <1>a, GivenIsANumber, BaseIsANumber
    <3>3. /\ sent'[d] <= Given(d)' /\ sent'[d] < Given(d)'
          /\ cur.dev = d /\ sender = "send" => cur.n < Given(d)' /\ cur.n <= Given(d)'
      <4>1. sent[d] < Given(d) /\ (cur.dev = d /\ sender = "send" => cur.n < Given(d))
        BY <1>0, <2>4 DEF DirtyAt, Stands
      <4>2. sent'[d] = sent[d]
        BY <2>2 DEF Leaves
      <4> QED
        BY <2>4, <3>2, <4>1, <4>2
    <3>4. Stands(d)'
      BY <1>0, <2>2, <2>4, <3>1, <3>3 DEF Leaves, DirtyAt, Stands, Places
    <3>5. ~failed' => StoodFor(d)'
      BY <1>0, <2>2, <2>4, <3>1 DEF Leaves, DirtyAt, StoodFor
    <3> QED
      BY <3>4, <3>5 DEF DirtyAt
  <2>5. Given(d)' = Given(d) \/ (Given(d)' = Given(d) + 1 /\ dirty[d])
    <3>1. CASE Accept(holder[c].dev, holder[c].key) /\ dirty[holder[c].dev]
      BY <2>1, <3>1, <1>a, AcceptValues
    <3>2. CASE UNCHANGED given
      BY <3>2 DEF Given
    <3> QED
      BY <1>2, <3>1, <3>2 DEF Overwrite
  <2> QED
    BY <2>3, <2>4, <2>5
<1>3. ASSUME NEW c \in Callers, Offer(c) PROVE DirtyAt(d)'
  <2> DEFINE x == [holder[c] EXCEPT !.n = Given(holder[c].dev) + 1]
  <2>1. holder[c].dev \in Devices /\ holder[c] \in Packets /\ holder[c].key \in Int
    BY <1>3, PacketFields DEF Offer, CallerTypes
  <2>2. x.dev = holder[c].dev
    BY <2>1 DEF Packets
  <2>3. UNCHANGED <<cur, sent, failed, sender>>
    BY <1>3 DEF Offer, sentVars
  <2>0. holder[c].dev = d => ~dirty[d]
    BY <1>3 DEF Offer, MutexIsHeld
  <2>4. CASE /\ Grows(x) /\ Accept(holder[c].dev, holder[c].key)
             /\ dirty' = IF holder[c].dev \in Overwritten
                  THEN [dirty EXCEPT ![holder[c].dev] = TRUE] ELSE dirty
    <3>1. Given(d)' = IF x.dev = d THEN Given(d) + 1 ELSE Given(d)
      BY <2>1, <2>2, <2>4, <1>a, AcceptValues
    <3>2. x.dev = d => dirty'[d]
      BY <2>2, <2>4 DEF CallerTypes
    <3>3. x.dev # d => dirty'[d] = dirty[d]
      BY <2>2, <2>4 DEF CallerTypes
    <3> HIDE DEF x
    <3>4. CASE x.dev = d
      BY <1>0, <2>0, <2>2, <2>3, <2>4, <3>1, <3>2, <3>4, <1>a, ItIsQueued
    <3>5. CASE x.dev # d
      BY <1>0, <2>3, <2>4, <3>1, <3>3, <3>5, AnotherIsQueued
    <3> QED
      BY <3>4, <3>5
  <2>5. CASE /\ packetQueue' = packetQueue /\ UNCHANGED given
             /\ dirty' = IF holder[c].dev \in Overwritten
                  THEN [dirty EXCEPT ![holder[c].dev] = FALSE] ELSE dirty
    <3>1. dirty'[d] = dirty[d]
      BY <2>0, <2>5 DEF CallerTypes
    <3>2. Leaves(d) /\ Given(d)' = Given(d)
      BY <2>3, <2>5, <3>1 DEF Leaves, Items, Given, InCur
    <3> QED
      BY <1>0, <3>2, DirtyStays
  <2> QED
    BY <1>3, <2>4, <2>5, OfferValues
<1>4. ASSUME WaitForPacket PROVE DirtyAt(d)'
  <2>1. UNCHANGED <<sent, failed, given, dirty>> /\ cur = None /\ sender = "wait"
    BY <1>4 DEF WaitForPacket, giverVars, SenderHasPacket, batchVars
  <2>0. Given(d)' = Given(d) /\ cur.dev # d
    BY <2>1, <1>a, NoneIsAPacket, NoneIsNoDevice DEF Given
  <2>2. CASE Shrinks /\ cur' = Items[1] /\ sender' = Route[cur'.dev]
    <3>1. Items[1].dev \in Devices
      BY <2>2 DEF Shrinks, SenderHasPacket
    <3>2. Items[1].dev = d => sender' \in Batching
      BY <2>2, <3>1 DEF Route, Overwritten, Batching, Pads
    <3>3. CASE Items[1].dev = d
      <4>1. sender' # "send"
        BY <3>2, <3>3 DEF Batching
      <4> QED
        BY <1>0, <2>0, <2>1, <2>2, <3>2, <4>1, ItIsTaken
    <3>4. CASE Items[1].dev # d
      BY <1>0, <2>0, <2>1, <2>2, <3>4, AnotherIsTaken
    <3> QED
      BY <3>3, <3>4
  <2>3. CASE packetQueue' = packetQueue /\ cur' = cur
    <3>1. Leaves(d)
      BY <2>0, <2>1, <2>3 DEF Leaves, Items, InCur
    <3> QED
      BY <1>0, <2>0, <3>1, DirtyStays
  <2> QED
    BY <1>4, <2>2, <2>3, WaitValues
<1>5. ASSUME Batch PROVE DirtyAt(d)'
  <2>1. UNCHANGED <<sent, failed, given, dirty>> /\ cur.dev # d
    BY <1>5 DEF Batch, giverVars, batchVars, SenderHasPacket, Merged, Overwritten, Pads
  <2>0. Given(d)' = Given(d)
    BY <2>1 DEF Given
  <2>2. CASE Shrinks /\ cur' = Items[1] /\ Merges(cur, Items[1])
    <3>1. Items[1].dev # d
      BY <2>1, <2>2 DEF Merges
    <3> QED
      BY <1>0, <2>0, <2>1, <2>2, <3>1, AnotherIsTaken
  <2>3. CASE packetQueue' = packetQueue /\ cur' = cur
    <3>1. Leaves(d)
      BY <2>1, <2>3 DEF Leaves, Items, InCur
    <3> QED
      BY <1>0, <2>0, <3>1, DirtyStays
  <2> QED
    BY <1>5, <2>2, <2>3, BatchValues
<1>6. ASSUME Motion PROVE DirtyAt(d)'
  <2>1. /\ cur.dev = "move" /\ Items' = Items /\ failed' = failed /\ Given(d)' = Given(d)
        /\ sender = "motion"
    BY <1>6 DEF Motion, SenderHasPacket, Items, Given, giverVars
  <2>2. CASE /\ dirty' = Cleared("move") /\ sender' = "wait" /\ cur' = None
             /\ sent' = [sent EXCEPT !["move"] = Given("move")]
    <3>1. cur'.dev # d
      BY <2>2, <1>a, NoneIsAPacket, NoneIsNoDevice
    <3>2. CASE d # "move"
      <4>1. Leaves(d)
        BY <2>1, <2>2, <3>1, <3>2 DEF Leaves, InCur, Cleared, CallerTypes, SenderTypes
      <4> QED
        BY <1>0, <2>1, <4>1, DirtyStays
    <3>3. CASE d = "move"
      <4>1. ~dirty'[d] /\ sent'[d] = Given(d) /\ Given(d) \in Nat
        BY <2>2, <3>3, <1>a, GivenIsANumber DEF Cleared, CallerTypes, SenderTypes
      <4>2. ~InCur(d)' /\ InCur(d)
        BY <2>1, <3>1, <3>3 DEF InCur, Batching
      <4>3. InQueue(d)' <=> InQueue(d)
        BY <2>1 DEF InQueue, Places
      <4>4. sent'[d] <= Given(d)'
        BY <2>1, <4>1
      <4>5. Stands(d)'
        BY <1>0, <2>1, <3>1, <4>1, <4>2, <4>3, <4>4 DEF DirtyAt, Stands, Places
      <4> QED
        BY <2>1, <4>1, <4>5 DEF DirtyAt, StoodFor
    <3> QED
      BY <3>2, <3>3
  <2>3. CASE /\ cur' = [cur EXCEPT !.key = Clamp(delta)] /\ sender' = "send motion"
             /\ UNCHANGED <<dirty, sent>>
    <3>1. cur'.dev = cur.dev
      BY <2>3 DEF SenderTypes, Packets
    <3>2. Leaves(d)
      BY <2>1, <2>3, <3>1 DEF Leaves, InCur, Batching
    <3> QED
      BY <1>0, <2>1, <3>2, DirtyStays
  <2> QED
    BY <1>6, <2>2, <2>3 DEF Motion
<1>7. CASE SendMotion \/ UNCHANGED vars
  <2>1. Leaves(d) /\ Given(d)' = Given(d)
    BY <1>7
       DEF Leaves, Items, Given, InCur, Batching, SendMotion, batchVars, giverVars, vars,
           sentVars
  <2> QED
    BY <1>0, <2>1, DirtyStays
<1>8. ASSUME Latest PROVE DirtyAt(d)'
  <2>1. /\ Items' = Items /\ failed' = failed /\ Given(d)' = Given(d) /\ sent' = sent
        /\ sender = "latest" /\ sender' = "send"
        /\ dirty' = [dirty EXCEPT ![cur.dev] = FALSE]
    BY <1>8 DEF Latest, Items, Given, giverVars, Cleared
  <2>2. cur'.dev = cur.dev /\ cur'.n = Given(cur.dev)
    BY <1>8 DEF Latest, SenderTypes, Packets
  <2>3. CASE cur.dev # d
    <3>1. Leaves(d)
      BY <2>1, <2>2, <2>3 DEF Leaves, InCur, CallerTypes
    <3> QED
      BY <1>0, <2>1, <3>1, DirtyStays
  <2>4. CASE cur.dev = d
    <3>1. InCur(d) /\ ~InCur(d)' /\ ~dirty'[d] /\ dirty[d]
      BY <1>0, <2>1, <2>2, <2>4 DEF InCur, Batching, CallerTypes, DirtyAt, Stands
    <3>2. Given(d) \in Nat /\ sent[d] \in Nat /\ sent[d] < Given(d)
      BY <1>0, <3>1, <1>a, GivenIsANumber, BaseIsANumber DEF DirtyAt, Stands
    <3>3. sent'[d] <= Given(d) /\ 0 < Given(d) /\ Given(d) <= Given(d)
      BY <2>1, <3>2
    <3>4. InQueue(d)' <=> InQueue(d)
      BY <2>1 DEF InQueue, Places
    <3>5. Stands(d)'
      BY <1>0, <2>1, <2>2, <2>4, <3>1, <3>3, <3>4 DEF DirtyAt, Stands, Places
    <3> QED
      BY <2>1, <2>2, <2>4, <3>1, <3>5 DEF DirtyAt, StoodFor
  <2> QED
    BY <2>3, <2>4
<1>9. ASSUME SendCodePoint PROVE DirtyAt(d)'
  <2>1. cur'.dev = cur.dev /\ cur'.n = cur.n
    BY <1>9 DEF SendCodePoint, SenderTypes, Packets
  <2>2. Leaves(d) /\ Given(d)' = Given(d)
    BY <1>9, <2>1 DEF Leaves, Items, Given, InCur, giverVars, batchVars, SendCodePoint
  <2> QED
    BY <1>0, <2>2, DirtyStays
<1>10. ASSUME Send PROVE DirtyAt(d)'
  <2>1. /\ Items' = Items /\ failed' = failed /\ Given(d)' = Given(d) /\ dirty' = dirty
        /\ cur'.dev # d /\ sent' = [sent EXCEPT ![cur.dev] = cur.n]
    BY <1>10, <1>a, NoneIsAPacket, NoneIsNoDevice
       DEF Send, Items, Given, giverVars, batchVars
  <2>2. CASE cur.dev # d
    <3>1. sent'[d] = sent[d]
      BY <1>a, <2>1, <2>2 DEF SenderTypes
    <3>2. Leaves(d)
      BY <2>1, <2>2, <3>1 DEF Leaves, InCur
    <3> QED
      BY <1>0, <2>1, <3>2, DirtyStays
  <2>3. CASE cur.dev = d
    <3>1. sender = "send"
      BY <1>10, <2>3 DEF Send, SenderHasPacket, Overwritten
    <3>2. ~InCur(d)' /\ ~InCur(d) /\ (InQueue(d)' <=> InQueue(d))
      BY <2>1, <3>1 DEF InCur, InQueue, Batching, Places
    <3>3. Given(d) \in Nat /\ sent[d] \in Nat /\ cur.n \in Nat /\ sent'[d] = cur.n
      BY <2>1, <2>3, <1>a, GivenIsANumber, BaseIsANumber DEF SenderTypes
    <3>4. sent[d] <= cur.n /\ cur.n <= Given(d) /\ (dirty[d] => cur.n < Given(d))
      BY <1>0, <2>3, <3>1 DEF DirtyAt, Stands
    <3>5. ~failed /\ ~dirty[d] => cur.n = Given(d)
      BY <1>0, <3>3, <3>4 DEF DirtyAt, StoodFor
    <3>6. Stands(d)'
      BY <1>0, <2>1, <3>2, <3>3, <3>4 DEF DirtyAt, Stands, Places
    <3> QED
      BY <1>0, <2>1, <3>2, <3>3, <3>5, <3>6 DEF DirtyAt, StoodFor
  <2> QED
    BY <2>2, <2>3
<1>11. ASSUME SendFails PROVE DirtyAt(d)'
  <2>1. /\ Items' = Items /\ failed' /\ Given(d)' = Given(d) /\ dirty' = dirty
        /\ sent' = sent
        /\ cur'.dev # d
    BY <1>11, <1>a, NoneIsAPacket, NoneIsNoDevice
       DEF SendFails, Items, Given, giverVars, batchVars
  <2>2. ~InCur(d)' /\ (InQueue(d)' <=> InQueue(d))
    BY <2>1 DEF InCur, InQueue, Places
  <2> QED
    BY <1>0, <2>1, <2>2 DEF DirtyAt, Stands, Places
<1>12. ASSUME StopStep PROVE DirtyAt(d)'
  <2>1. Items' = Items
    BY <1>12, StopValues
  <2>2. Leaves(d) /\ Given(d)' = Given(d)
    BY <1>12, <2>1 DEF Leaves, Given, InCur, sentVars, giverVars, batchVars, StopStep
  <2> QED
    BY <1>0, <2>2, DirtyStays
<1> QED
  BY <1>1, <1>2, <1>3, <1>4, <1>5, <1>6, <1>7, <1>8, <1>9, <1>10, <1>11, <1>12
     DEF Next, CallStep, SendStep

(* ... the packets with the keys that were passed, ... *)
LEMMA KeysAreGivenNext ==
  ASSUME CallerTypes, SenderTypes, HistoryTypes, QueueTypes, SenderHasPacket, NoGap,
         KeysAreGiven, [Next]_vars
  PROVE  KeysAreGiven'
<1> SUFFICES ASSUME NEW d \in Merged PROVE ItemKeys(d)' /\ CurKeys(d)'
  BY DEF KeysAreGiven, ItemKeys, CurKeys
<1>0. NoGapAt(d) /\ ItemKeys(d) /\ CurKeys(d) /\ d \in Devices /\ d \in Queued
  <2>1. d \in Queued /\ d \in Devices
    BY DEF Merged, Queued, Devices, Pads, Overwritten
  <2> QED
    BY <2>1 DEF NoGap, NoGapAt, KeysAreGiven, ItemKeys, CurKeys
<1>a. ItemKeys(d)'
  BY <1>0, ItemKeysNext
<1>1. ASSUME NEW c \in Callers, Begin(c) \/ TakeHolder(c) \/ Overwrite(c) \/ Offer(c)
      PROVE  CurKeys(d)'
  <2>1. UNCHANGED <<cur, sent>>
    BY <1>1 DEF Begin, sentVars, TakeHolder, Return, Overwrite, Offer, Continue
  <2> QED
    BY <1>0, <2>1, CurKeysStay
<1>2. ASSUME WaitForPacket PROVE CurKeys(d)'
  <2>1. UNCHANGED <<sent, given, failed>> /\ cur = None /\ ~failed
    BY <1>2 DEF WaitForPacket, giverVars, SenderHasPacket
  <2>2. CASE Shrinks /\ cur' = Items[1]
    <3> SUFFICES ASSUME cur'.dev = d, NEW m \in sent[d] + 1 .. cur'.n
                 PROVE  given[d][m] = cur'.key
      BY <2>1 DEF CurKeys
    <3>1. Items[1].n = sent[d] + 1
      <4>1. Base(d) = sent[d]
        BY <2>1, NoneIsAPacket, NoneIsNoDevice, <1>0 DEF Base
      <4> QED
        BY <2>1, <2>2, <4>1, <1>0, HeadIsNext DEF Shrinks
    <3>2. m = Items[1].n
      <4>1. sent[d] \in Nat
        BY <1>0, BaseIsANumber
      <4> QED
        BY <2>2, <3>1, <4>1
    <3> QED
      BY <1>0, <2>2, <3>2 DEF ItemKeys, Shrinks
  <2>3. CASE cur' = cur
    BY <1>0, <2>1, <2>3, CurKeysStay
  <2> QED
    BY <1>2, <2>2, <2>3, WaitValues
<1>3. ASSUME Batch PROVE CurKeys(d)'
  <2>1. UNCHANGED <<sent, given, failed>> /\ ~failed
    BY <1>3 DEF Batch, giverVars, SenderHasPacket
  <2>2. CASE Shrinks /\ cur' = Items[1] /\ Merges(cur, Items[1])
    <3> SUFFICES ASSUME cur'.dev = d, NEW m \in sent[d] + 1 .. cur'.n
                 PROVE  given[d][m] = cur'.key
      BY <2>1 DEF CurKeys
    <3>0. cur.dev = d /\ cur'.key = cur.key
      BY <2>2 DEF Merges
    <3>1. Items[1].n = cur.n + 1
      BY <1>0, <2>1, <2>2, <3>0, HeadIsNext DEF Shrinks, Base
    <3>2. m \in sent[d] + 1 .. cur.n \/ m = Items[1].n
      <4>1. sent[d] \in Nat /\ cur.n \in Nat
        BY <1>0, BaseIsANumber
      <4> QED
        BY <2>2, <3>1, <4>1
    <3>3. given[d][Items[1].n] = Items[1].key
      BY <1>0, <2>2 DEF ItemKeys, Shrinks
    <3> QED
      BY <1>0, <2>2, <3>0, <3>2, <3>3 DEF CurKeys
  <2>3. CASE cur' = cur
    BY <1>0, <2>1, <2>3, CurKeysStay
  <2> QED
    BY <1>3, <2>2, <2>3, BatchValues
<1>4. ASSUME Motion PROVE CurKeys(d)'
  <2>1. cur.dev # d
    BY <1>4 DEF Motion, SenderHasPacket, Merged, Pads
  <2>2. cur'.dev # d
    BY <1>4, <1>0, <2>1, NoneIsAPacket, NoneIsNoDevice DEF Motion, SenderTypes, Packets
  <2> QED
    BY <2>2 DEF CurKeys
<1>5. CASE SendMotion \/ StopStep \/ UNCHANGED vars
  <2>1. UNCHANGED <<cur, sent>>
    BY <1>5 DEF SendMotion, StopStep, sentVars, vars
  <2> QED
    BY <1>0, <1>a, <2>1, CurKeysStay
<1>6. ASSUME Latest PROVE CurKeys(d)'
  <2>1. cur.dev # d
    BY <1>6 DEF Latest, SenderHasPacket, Merged, Pads
  <2>2. cur'.dev # d
    BY <1>6, <1>0, <2>1, NoneIsAPacket, NoneIsNoDevice DEF Latest, SenderTypes, Packets
  <2> QED
    BY <2>2 DEF CurKeys
<1>7. ASSUME SendCodePoint PROVE CurKeys(d)'
  <2>1. cur.dev # d
    BY <1>7 DEF SendCodePoint, SenderHasPacket, Merged, Pads
  <2>2. cur'.dev # d
    BY <1>7, <1>0, <2>1, NoneIsAPacket, NoneIsNoDevice
       DEF SendCodePoint, SenderTypes, Packets
  <2> QED
    BY <2>2 DEF CurKeys
<1>8. ASSUME Send PROVE CurKeys(d)'
  BY <1>8, <1>0, NoneIsAPacket, NoneIsNoDevice DEF Send, CurKeys
<1>9. ASSUME SendFails PROVE CurKeys(d)'
  BY <1>9, <1>0, NoneIsAPacket, NoneIsNoDevice DEF SendFails, CurKeys
<1> QED
  BY <1>a, <1>1, <1>2, <1>3, <1>4, <1>5, <1>6, <1>7, <1>8, <1>9 DEF Next, CallStep, SendStep

-------------------------------------------------------------------------------
(* MotionIsAhead of one caller and of one packet. *)
EventFollows(c) ==
  pc[c] # "idle" =>
    /\ Follows(holder[c].after[1], "move", Len(Items) + 1)
    /\ Follows(holder[c].after[2], "point", Len(Items) + 1)
ItemFollows(i) ==
  Items[i].dev = "button" =>
    /\ Follows(Items[i].after[1], "move", i)
    /\ Follows(Items[i].after[2], "point", i)

(* All that was accepted so far is ahead of the next place. *)
LEMMA PendingFollows ==
  ASSUME HistoryTypes, QueueTypes, DirtyHasPacket, NEW d \in Pointers, NEW k \in Nat,
         k = Given(d), NEW i \in Nat, i = Len(Items) + 1
  PROVE  Follows(k, d, i)
<1>1. d \in Overwritten /\ Given(d) \in Nat
  BY PointersAreDevices, GivenIsANumber
<1>2. ASSUME ~failed
      PROVE  InCur(d) \/ InQueue(d) \/ sent[d] = Given(d)
               \/ (cur.dev = d /\ cur.n = Given(d))
  BY <1>1, <1>2 DEF DirtyHasPacket, StoodFor
<1>3. \A j \in Places : j < i
  BY DEF Places, QueueTypes, QueueOf, Items
<1> QED
  BY <1>1, <1>2, <1>3 DEF Follows, Ahead, InCur, InQueue

(* A call under way keeps what it waits for ahead of the next place, ... *)
LEMMA EventsFollow ==
  ASSUME CallerTypes, SenderTypes, HistoryTypes, QueueTypes, SenderHasPacket,
         DirtyHasPacket, QueueTypes', [Next]_vars, NEW c \in Callers, EventFollows(c)
  PROVE  EventFollows(c)'
<1> SUFFICES ASSUME pc'[c] # "idle"
             PROVE  /\ Follows(holder[c].after[1], "move", Len(Items) + 1)'
                    /\ Follows(holder[c].after[2], "point", Len(Items) + 1)'
  BY DEF EventFollows
<1>1. Len(Items) \in Nat /\ Len(Items)' \in Nat
  BY DEF QueueTypes, QueueOf, Items
<1>2. PICK m \in Nat : m = Len(Items) + 1
  BY <1>1
<1>3. PICK l \in Nat : l = Len(Items)' + 1
  BY <1>1
<1>4. /\ ~QueueTaken => m <= l
      /\ QueueTaken => l = m - 1
  <2>1. QueueStays => Len(Items)' = Len(Items)
    BY DEF QueueStays
  <2>2. QueueTaken => Len(Items)' = Len(Items) - 1
    BY DEF QueueTaken, Shrinks
  <2>3. (\E b \in Callers : QueueGiven(b)) => Len(Items)' = Len(Items) + 1
    BY DEF QueueGiven, Grows
  <2> QED
    BY <1>1, <1>2, <1>3, <2>1, <2>2, <2>3, QueueSteps
<1>5. PICK j \in Nat, k \in Nat :
        /\ j = holder'[c].after[1] /\ k = holder'[c].after[2]
        /\ Follows(j, "move", m) /\ Follows(k, "point", m)
  <2>1. CASE SameCall(c)
    <3>1. pc[c] # "idle" /\ holder'[c].after = holder[c].after
      BY <2>1 DEF SameCall
    <3>2. holder[c].after[1] \in Nat /\ holder[c].after[2] \in Nat
      BY PacketFields DEF CallerTypes
    <3> QED
      BY <1>2, <3>1, <3>2 DEF EventFollows
  <2>2. CASE holder'[c].after = <<Given("move"), Given("point")>>
    <3>1. Given("move") \in Nat /\ Given("point") \in Nat
      BY GivenIsANumber, PointersAreDevices DEF Pointers
    <3>2. Follows(Given("move"), "move", m) /\ Follows(Given("point"), "point", m)
      BY <1>2, <3>1, PendingFollows DEF Pointers
    <3> QED
      BY <2>2, <3>1, <3>2
  <2> QED
    BY <2>1, <2>2, CallSteps
<1>6. ASSUME NEW d \in Pointers, NEW i \in Nat, Follows(i, d, m) PROVE Follows(i, d, l)'
  <2>1. CASE QueueTaken
    BY <1>4, <1>6, <2>1, FollowsKeeps
  <2>2. CASE ~QueueTaken
    <3>1. Follows(i, d, m)'
      BY <1>6, <2>2, FollowsKeeps
    <3>2. \A n \in Places' : n < m => n < l
      BY <1>4, <2>2 DEF Places
    <3> QED
      BY <3>1, <3>2 DEF Follows, Ahead
  <2> QED
    BY <2>1, <2>2
<1>7. Follows(j, "move", l)' /\ Follows(k, "point", l)'
  BY <1>5, <1>6 DEF Pointers
<1> QED
  BY <1>3, <1>5, <1>7 DEF Follows, Ahead

(* ... and so does a packet of a button in the queue. *)
LEMMA ItemsFollow ==
  ASSUME CallerTypes, SenderTypes, HistoryTypes, QueueTypes, SenderHasPacket,
         DirtyHasPacket, QueueTypes', [Next]_vars, NEW i \in Places',
         \A c \in Callers : EventFollows(c), \A j \in Places : ItemFollows(j)
  PROVE  ItemFollows(i)'
<1> SUFFICES ASSUME Items'[i].dev = "button"
             PROVE  /\ Follows(Items[i].after[1], "move", i)'
                    /\ Follows(Items[i].after[2], "point", i)'
  BY DEF ItemFollows
<1>0. i \in Nat
  BY DEF Places
<1>1. PICK m \in Nat, j \in Nat, k \in Nat :
        /\ j = Items'[i].after[1] /\ k = Items'[i].after[2]
        /\ Follows(j, "move", m) /\ Follows(k, "point", m)
        /\ IF QueueTaken THEN m - 1 = i ELSE m = i
  <2>1. CASE QueueStays
    <3>1. i \in Places /\ Items'[i] = Items[i] /\ ~QueueTaken
      BY <2>1 DEF QueueStays, QueueTaken, Shrinks, Places
    <3>2. Items[i].after[1] \in Nat /\ Items[i].after[2] \in Nat
      BY <3>1, ItemsAreNumbered, PacketFields
    <3> QED
      BY <1>0, <3>1, <3>2 DEF ItemFollows
  <2>2. CASE QueueTaken
    <3>1. i + 1 \in Places /\ Items'[i] = Items[i + 1]
      BY <2>2 DEF QueueTaken, Shrinks
    <3>2. Items[i + 1].after[1] \in Nat /\ Items[i + 1].after[2] \in Nat
      BY <3>1, ItemsAreNumbered, PacketFields
    <3>3. i + 1 \in Nat /\ (i + 1) - 1 = i
      BY <1>0
    <3>4. ItemFollows(i + 1)
      BY <3>1
    <3> QED
      BY <2>2, <3>1, <3>2, <3>3, <3>4 DEF ItemFollows
  <2>3. ASSUME NEW c \in Callers, QueueGiven(c)
        PROVE  \E m \in Nat, j \in Nat, k \in Nat :
               /\ j = Items'[i].after[1] /\ k = Items'[i].after[2]
               /\ Follows(j, "move", m) /\ Follows(k, "point", m)
               /\ IF QueueTaken THEN m - 1 = i ELSE m = i
    <3> DEFINE h == holder[c]  x == [h EXCEPT !.n = Given(h.dev) + 1]
    <3>1. Grows(x) /\ pc[c] = "offer" /\ h \in Packets
      BY <2>3 DEF QueueGiven, Offer, CallerTypes
    <3>2. x.after = h.after
      BY <3>1 DEF Packets
    <3> HIDE DEF x
    <3>3. ~QueueTaken
      BY <3>1 DEF Grows, QueueTaken, Shrinks
    <3>4. CASE i \in Places
      <4>1. Items'[i] = Items[i]
        BY <3>1, <3>4 DEF Grows
      <4>2. Items[i].after[1] \in Nat /\ Items[i].after[2] \in Nat
        BY <3>4, ItemsAreNumbered, PacketFields
      <4> QED
        BY <1>0, <3>3, <3>4, <4>1, <4>2 DEF ItemFollows
    <3>5. CASE i = Len(Items) + 1
      <4>1. Items'[i].after = h.after
        BY <3>1, <3>2, <3>5 DEF Grows
      <4>2. h.after[1] \in Nat /\ h.after[2] \in Nat
        BY <3>1, PacketFields
      <4>3. Follows(h.after[1], "move", i) /\ Follows(h.after[2], "point", i)
        BY <3>1, <3>5 DEF EventFollows
      <4> QED
        BY <1>0, <3>3, <4>1, <4>2, <4>3
    <3> QED
      BY <3>1, <3>4, <3>5 DEF Grows
  <2> QED
    BY <2>1, <2>2, <2>3, QueueSteps
<1>6. ASSUME NEW d \in Pointers, NEW n \in Nat, Follows(n, d, m) PROVE Follows(n, d, i)'
  BY <1>1, <1>6, FollowsKeeps
<1>7. Follows(j, "move", i)' /\ Follows(k, "point", i)'
  BY <1>1, <1>6 DEF Pointers
<1> QED
  BY <1>1, <1>7 DEF Follows, Ahead

(* A button that is sent finds the motion before it sent. *)
LEMMA PressIsLate ==
  ASSUME CallerTypes, SenderTypes, HistoryTypes, QueueTypes, SenderHasPacket,
         DirtyHasPacket, [Next]_vars, \A i \in Places : ItemFollows(i), ButtonsFollowMotion
  PROVE  ButtonsFollowMotion'
<1> SUFFICES ASSUME cur'.dev = "button"
             PROVE  cur'.after[1] <= sent'["move"] /\ cur'.after[2] <= sent'["point"]
  <2>1. sent' \in [Devices -> Nat] /\ cur' \in Packets
    BY SenderTypesNext DEF SenderTypes
  <2>2. cur'.after[1] \in Nat /\ cur'.after[2] \in Nat
    BY <2>1, PacketFields
  <2>3. sent'["move"] \in Nat /\ sent'["point"] \in Nat
    BY <2>1, PointersAreDevices DEF Pointers
  <2> QED
    BY <2>2, <2>3 DEF ButtonsFollowMotion
<1>0. /\ sent["move"] \in Nat /\ sent["point"] \in Nat /\ cur.after[1] \in Nat
      /\ cur.after[2] \in Nat
      /\ "button" \in Devices /\ "button" \notin Merged
  BY PacketFields, PointersAreDevices DEF SenderTypes, Pointers, Devices, Merged, Pads
<1>1. CASE UNCHANGED <<cur, sent>>
  BY <1>0, <1>1 DEF ButtonsFollowMotion
<1>2. CASE WaitForPacket
  <2>1. UNCHANGED <<sent, failed>> /\ cur = None /\ ~failed
    BY <1>2 DEF WaitForPacket, SenderHasPacket
  <2>2. Shrinks /\ cur' = Items[1]
    BY <1>0, <1>2, <2>1, WaitValues, NoneIsAPacket, NoneIsNoDevice
  <2>3. Ahead("move", Items[1].after[1], 1) /\ Ahead("point", Items[1].after[2], 1)
    BY <2>1, <2>2 DEF Shrinks, ItemFollows, Follows
  <2>4. ~\E j \in Places : j < 1
    BY DEF Places
  <2>5. cur.dev # "move" /\ cur.dev # "point"
    BY <2>1, NoneIsAPacket
  <2> QED
    BY <2>1, <2>2, <2>3, <2>4, <2>5 DEF Ahead
<1>3. CASE Batch
  <2>1. cur.dev \in Merged /\ sent' = sent
    BY <1>3 DEF Batch, SenderHasPacket
  <2>2. cur'.dev = cur.dev
    BY <1>3, BatchValues DEF Merges
  <2> QED
    BY <1>0, <2>1, <2>2
<1>4. CASE Motion \/ Latest \/ SendCodePoint
  <2>1. cur'.dev # "button"
    BY <1>4, NoneIsAPacket, <1>0
       DEF Motion, Latest, SendCodePoint, SenderHasPacket, SenderTypes, Packets
  <2> QED
    BY <2>1
<1>5. CASE Send \/ SendFails
  BY <1>5, NoneIsAPacket DEF Send, SendFails
<1>6. CASE (\E c \in Callers : CallStep(c)) \/ SendMotion \/ StopStep \/ UNCHANGED vars
  <2>1. UNCHANGED <<cur, sent>>
    BY <1>6
       DEF CallStep, Begin, TakeHolder, Overwrite, Offer, SendMotion, StopStep, vars,
           sentVars
  <2> QED
    BY <1>1, <2>1
<1> QED
  BY <1>2, <1>3, <1>4, <1>5, <1>6 DEF Next, SendStep

(* ... the motion ahead of the buttons that came after it, ... *)
LEMMA MotionIsAheadNext ==
  ASSUME CallerTypes, SenderTypes, HistoryTypes, QueueTypes, SenderHasPacket,
         DirtyHasPacket, MotionIsAhead, QueueTypes', [Next]_vars
  PROVE  MotionIsAhead'
<1>1. /\ \A c \in Callers : EventFollows(c)
      /\ \A i \in Places : ItemFollows(i)
      /\ ButtonsFollowMotion
  BY DEF MotionIsAhead, EventFollows, ItemFollows
<1>2. \A c \in Callers : EventFollows(c)'
  BY <1>1, EventsFollow
<1>3. \A i \in Places' : ItemFollows(i)'
  BY <1>1, ItemsFollow
<1>4. ButtonsFollowMotion'
  BY <1>1, PressIsLate
<1> QED
  BY <1>2, <1>3, <1>4 DEF MotionIsAhead, EventFollows, ItemFollows

(* ... the sensor at its latest value, ... *)
LEMMA SensorIsLatestNext ==
  ASSUME CallerTypes, SenderTypes, HistoryTypes, QueueTypes, SenderHasPacket, MutexIsHeld,
         DirtyHasPacket, SensorIsLatest, [Next]_vars
  PROVE  SensorIsLatest'
<1>1. ASSUME NEW c \in Callers, Begin(c) \/ TakeHolder(c) PROVE SensorIsLatest'
  <2>1. SensorStays
    BY <1>1 DEF SensorStays, SenderHasPacket, Begin, batchVars, sentVars, TakeHolder, Return
  <2> QED
    BY <2>1, SensorRemains
<1>2. ASSUME NEW c \in Callers, Overwrite(c) PROVE SensorIsLatest'
  <2>1. holder[c].dev \in Devices /\ holder[c].key \in Int
    BY <1>2, PacketFields DEF Overwrite, CallerTypes
  <2>2. UNCHANGED <<cur, sender, sent, sure, dirty>>
    BY <1>2 DEF Overwrite, sentVars
  <2>3. CASE /\ holder[c].dev = "sense" /\ Accept("sense", holder[c].key)
             /\ gyro' = holder[c].key
    BY <2>1, <2>2, <2>3, SensorGiven
  <2>4. CASE UNCHANGED given /\ (dirty["sense"] => gyro' = gyro)
    <3>1. SensorStays
      BY <2>2, <2>4 DEF SensorStays
    <3> QED
      BY <3>1, SensorRemains
  <2>5. CASE holder[c].dev # "sense" /\ Accept(holder[c].dev, holder[c].key) /\ gyro' = gyro
    <3>1. given'["sense"] = given["sense"]
      BY <2>1, <2>5 DEF Accept, HistoryTypes, Devices, Overwritten
    <3>2. SensorStays
      BY <2>2, <2>5, <3>1 DEF SensorStays
    <3> QED
      BY <3>2, SensorRemains
  <2> QED
    BY <1>2, <2>3, <2>4, <2>5 DEF Overwrite
<1>3. ASSUME NEW c \in Callers, Offer(c) PROVE SensorIsLatest'
  <2>1. holder[c].dev \in Devices /\ holder[c].key \in Int
    BY <1>3, PacketFields DEF Offer, CallerTypes
  <2>2. UNCHANGED <<cur, sender, sent, sure, gyro>>
    BY <1>3 DEF Offer, sentVars
  <2>6. holder[c].dev = "sense" => holder[c].key = gyro
    BY <1>3 DEF Offer, MutexIsHeld, Overwritten
  <2>3. CASE holder[c].dev = "sense" /\ Accept("sense", holder[c].key)
    BY <2>1, <2>2, <2>3, <2>6, SensorGiven
  <2>4. CASE UNCHANGED given /\ dirty' = IF holder[c].dev \in Overwritten
               THEN [dirty EXCEPT ![holder[c].dev] = FALSE] ELSE dirty
    <3>1. dirty'["sense"] => dirty["sense"]
      BY <2>4, SensorNumbers DEF CallerTypes
    <3>2. SensorStays
      BY <2>2, <2>4, <3>1 DEF SensorStays
    <3> QED
      BY <3>2, SensorRemains
  <2>5. CASE /\ holder[c].dev # "sense" /\ Accept(holder[c].dev, holder[c].key)
             /\ dirty' = IF holder[c].dev \in Overwritten
                  THEN [dirty EXCEPT ![holder[c].dev] = TRUE] ELSE dirty
    <3>1. given'["sense"] = given["sense"] /\ dirty'["sense"] = dirty["sense"]
      BY <2>1, <2>5, SensorNumbers DEF Accept, HistoryTypes, CallerTypes
    <3>2. SensorStays
      BY <2>2, <2>5, <3>1 DEF SensorStays
    <3> QED
      BY <3>2, SensorRemains
  <2> QED
    BY <1>3, <2>3, <2>4, <2>5, OfferValues
<1>4. ASSUME WaitForPacket PROVE SensorIsLatest'
  <2>1. UNCHANGED <<sent, sure, given, dirty, gyro>>
    BY <1>4 DEF WaitForPacket, giverVars, batchVars
  <2>2. ~(cur'.dev = "sense" /\ sender' = "send")
    BY <1>4, WaitValues, SensorNumbers DEF Route, Pads
  <2>3. SensorStays
    BY <2>1, <2>2 DEF SensorStays
  <2> QED
    BY <2>3, SensorRemains
<1>5. ASSUME Batch PROVE SensorIsLatest'
  <2>1. UNCHANGED <<sent, sure, given, dirty, gyro>> /\ cur.dev # "sense"
    BY <1>5 DEF Batch, giverVars, batchVars, SenderHasPacket, Merged, Pads
  <2>2. cur'.dev # "sense"
    BY <1>5, <2>1, BatchValues DEF Merges
  <2>3. SensorStays
    BY <2>1, <2>2 DEF SensorStays
  <2> QED
    BY <2>3, SensorRemains
<1>6. ASSUME Motion PROVE SensorIsLatest'
  <2>1. UNCHANGED <<given, gyro>> /\ sender' # "send"
    BY <1>6 DEF Motion, giverVars
  <2>2. /\ dirty'["sense"] = dirty["sense"] /\ sent'["sense"] = sent["sense"]
        /\ sure'["sense"] = sure["sense"]
    BY <1>6, SensorNumbers DEF Motion, Cleared, CallerTypes, SenderTypes
  <2>3. SensorStays
    BY <2>1, <2>2 DEF SensorStays
  <2> QED
    BY <2>3, SensorRemains
<1>7. CASE SendMotion \/ StopStep \/ UNCHANGED vars
  <2>1. SensorStays
    BY <1>7
       DEF SensorStays, SenderHasPacket, SendMotion, batchVars, giverVars, StopStep,
           sentVars, vars
  <2> QED
    BY <2>1, SensorRemains
<1>8. ASSUME Latest PROVE SensorIsLatest'
  <2>1. /\ UNCHANGED <<given, gyro, sent, sure>> /\ sender = "latest" /\ sender' = "send"
        /\ dirty' = [dirty EXCEPT ![cur.dev] = FALSE] /\ Given("sense")' = Given("sense")
    BY <1>8 DEF Latest, giverVars, Cleared, Given
  <2>2. cur'.dev = cur.dev /\ cur'.n = Given(cur.dev) /\ cur'.reliable = SentReliably
    BY <1>8 DEF Latest, SenderTypes, Packets
  <2>3. CASE cur.dev # "sense"
    <3>1. SensorStays
      BY <2>1, <2>2, <2>3, SensorNumbers DEF SensorStays, CallerTypes
    <3> QED
      BY <3>1, SensorRemains
  <2>4. CASE cur.dev = "sense"
    <3>1. dirty["sense"] /\ ~dirty'["sense"]
      BY <2>1, <2>4, SensorNumbers DEF CallerTypes, DirtyHasPacket, Stands, InCur, Batching
    <3>2. cur'.reliable <=> given["sense"][Given("sense")] = 0
      BY <2>2, <2>4, <3>1 DEF SentReliably, SensorIsLatest
    <3> QED
      BY <2>1, <2>2, <2>4, <3>1, <3>2 DEF SensorIsLatest
  <2> QED
    BY <2>3, <2>4
<1>9. ASSUME SendCodePoint PROVE SensorIsLatest'
  <2>1. UNCHANGED <<sender, sent, sure, given, dirty, gyro>> /\ sender = "text"
    BY <1>9 DEF SendCodePoint, giverVars, batchVars
  <2>2. SensorStays
    BY <2>1 DEF SensorStays
  <2> QED
    BY <2>2, SensorRemains
<1>10. ASSUME Send PROVE SensorIsLatest'
  <2>1. /\ UNCHANGED <<given, gyro, dirty>> /\ cur'.dev # "sense"
        /\ Given("sense")' = Given("sense")
        /\ sent' = [sent EXCEPT ![cur.dev] = cur.n]
        /\ sure' = IF cur.reliable THEN [sure EXCEPT ![cur.dev] = cur.n] ELSE sure
    BY <1>10, NoneIsAPacket DEF Send, giverVars, batchVars, Given
  <2>2. CASE cur.dev # "sense"
    <3>1. sent'["sense"] = sent["sense"] /\ sure'["sense"] = sure["sense"]
      BY <2>1, <2>2, SensorNumbers DEF SenderTypes
    <3>2. SensorStays
      BY <2>1, <3>1 DEF SensorStays
    <3> QED
      BY <3>2, SensorRemains
  <2>3. CASE cur.dev = "sense"
    <3>1. sender = "send"
      BY <1>10, <2>3 DEF Send, SenderHasPacket
    <3>2. sent'["sense"] = cur.n /\ (cur.reliable => sure'["sense"] = cur.n)
      BY <2>1, <2>3, SensorNumbers DEF SenderTypes
    <3> QED
      BY <2>1, <2>3, <3>1, <3>2 DEF SensorIsLatest
  <2> QED
    BY <2>2, <2>3
<1>11. ASSUME SendFails PROVE SensorIsLatest'
  <2>1. SensorStays
    BY <1>11, NoneIsAPacket DEF SensorStays, SendFails, giverVars, batchVars
  <2> QED
    BY <2>1, SensorRemains
<1> QED
  BY <1>1, <1>2, <1>3, <1>4, <1>5, <1>6, <1>7, <1>8, <1>9, <1>10, <1>11
     DEF Next, CallStep, SendStep

(* ... and no motion lost or sent twice. *)
LEMMA MotionIsConservedNext ==
  ASSUME CallerTypes, SenderTypes, HistoryTypes, QueueTypes, SenderHasPacket,
         MotionIsConserved, [Next]_vars
  PROVE  MotionIsConserved'
<1>0. moved \in Int /\ arrived \in Int /\ delta \in Int /\ cur.key \in Int
  BY PacketFields DEF HistoryTypes, CallerTypes, SenderTypes
<1>a. InHand \in Int
  <2>1. InHand = cur.key \/ InHand = 0
    BY DEF InHand
  <2> QED
    BY <1>0, <2>1
<1>1. ASSUME NEW c \in Callers, Begin(c) \/ TakeHolder(c) \/ Offer(c)
      PROVE  MotionIsConserved'
  BY <1>1 DEF Begin, TakeHolder, Offer, MotionIsConserved, InHand, sentVars, batchVars
<1>2. ASSUME NEW c \in Callers, Overwrite(c) PROVE MotionIsConserved'
  <2>1. holder[c].key \in Int
    BY <1>2, PacketFields DEF Overwrite, CallerTypes
  <2>2. /\ UNCHANGED <<sender, cur, failed, arrived>>
        /\ \E k \in Int : moved' = moved + k /\ delta' = delta + k
    <3>1. moved = moved + 0 /\ delta = delta + 0
      BY <1>0
    <3> QED
      BY <1>2, <2>1, <3>1 DEF Overwrite, sentVars
  <2>3. InHand' = InHand
    BY <2>2 DEF InHand
  <2>4. ASSUME NEW h \in Int, moved = arrived + h + delta
        PROVE  moved' = arrived + h + delta'
    <3>1. PICK k \in Int : moved' = moved + k /\ delta' = delta + k
      BY <2>2
    <3>2. arrived + h + delta + k = arrived + h + (delta + k)
      BY <1>0
    <3> QED
      BY <2>4, <3>1, <3>2
  <2>5. moved = arrived + InHand + delta => moved' = arrived + InHand + delta'
    BY <1>a, <2>4
  <2> QED
    BY <2>2, <2>3, <2>5 DEF MotionIsConserved
<1>3. CASE WaitForPacket
  <2>0. sender = "wait" /\ sender' # "send motion"
    <3>1. CASE Shrinks /\ cur' = Items[1] /\ sender' = Route[cur'.dev]
      <4>1. Items[1].dev \in Devices
        BY <3>1 DEF Shrinks, SenderHasPacket
      <4> QED
        BY <1>3, <3>1, <4>1 DEF Route, WaitForPacket
    <3> QED
      BY <1>3, <3>1, WaitValues
  <2>1. InHand = 0 /\ InHand' = 0
    BY <2>0 DEF InHand
  <2> QED
    BY <1>3, <2>1 DEF WaitForPacket, MotionIsConserved, batchVars, giverVars
<1>4. CASE Motion
  <2>1. sender = "motion" /\ UNCHANGED <<moved, arrived, failed>>
    BY <1>4 DEF Motion, giverVars
  <2>2. CASE delta = 0
    BY <1>4, <2>1, <2>2 DEF Motion, MotionIsConserved, InHand
  <2>3. CASE delta # 0
    <3>1. /\ cur'.key = Clamp(delta) /\ delta' = delta - Clamp(delta)
          /\ sender' = "send motion"
      BY <1>4, <2>3 DEF Motion, LeftOf, SenderTypes, Packets
    <3>2. Clamp(delta) \in Int
      BY <1>0, ClampType
    <3>3. InHand = 0 /\ InHand' = Clamp(delta)
      BY <2>1, <3>1 DEF InHand
    <3>4. moved = arrived + 0 + delta
            => moved = arrived + Clamp(delta) + (delta - Clamp(delta))
      BY <1>0, <3>2
    <3> QED
      BY <2>1, <3>1, <3>3, <3>4 DEF MotionIsConserved
  <2> QED
    BY <2>2, <2>3
<1>5. CASE SendMotion
  <2>1. /\ InHand = cur.key /\ InHand' = 0 /\ arrived' = arrived + cur.key
        /\ UNCHANGED <<moved, delta, failed>>
    BY <1>5 DEF SendMotion, InHand, batchVars, giverVars
  <2>2. moved = arrived + cur.key + delta => moved = (arrived + cur.key) + 0 + delta
    BY <1>0
  <2> QED
    BY <2>1, <2>2 DEF MotionIsConserved
<1>6. CASE Batch \/ Latest \/ SendCodePoint \/ Send \/ SendFails
  <2>1. failed'
          \/ (InHand = 0 /\ InHand' = 0 /\ UNCHANGED <<moved, arrived, delta, failed>>)
    BY <1>6 DEF Batch, Latest, SendCodePoint, Send, SendFails, InHand, batchVars, giverVars
  <2> QED
    BY <2>1 DEF MotionIsConserved
<1>7. CASE StopStep \/ UNCHANGED vars
  BY <1>7 DEF StopStep, vars, MotionIsConserved, InHand, sentVars, batchVars, giverVars
<1> QED
  BY <1>1, <1>2, <1>3, <1>4, <1>5, <1>6, <1>7 DEF Next, CallStep, SendStep

-------------------------------------------------------------------------------
(* The inductive invariant. *)
Types == CallerTypes /\ FlagTypes /\ SenderTypes /\ HistoryTypes /\ QueueTypes

IInv ==
  /\ Types /\ SenderHasPacket /\ MutexIsHeld /\ NoGap /\ DirtyHasPacket
  /\ KeysAreGiven /\ MotionIsAhead /\ SensorIsLatest /\ MotionIsConserved

(* It holds initially. *)
LEMMA InitIInv ==
  ASSUME Init
  PROVE  IInv
<1>0. Items = <<>> /\ Places = {}
  BY DEF Init, Items, Places, NewQueue
<1>1. \A d \in Devices : Given(d) = 0 /\ sent[d] = 0 /\ cur.dev # d
  BY NoneIsAPacket, NoneIsNoDevice DEF Init, Given
<1>2. CallerTypes
  <2>1. todo \in [Callers -> Seq(Events)]
    BY InputAssumption DEF Init, Events
  <2> QED
    BY <2>1, NoneIsAPacket DEF Init, CallerTypes
<1>3. FlagTypes
  <2>1. Len(StopScript) = 4
    BY DEF StopScript
  <2>2. 0 \in 0 .. Len(StopScript)
    BY <2>1
  <2> QED
    BY <2>2 DEF Init, FlagTypes
<1>4. SenderTypes /\ HistoryTypes
  BY NoneIsAPacket DEF Init, SenderTypes, HistoryTypes
<1>5. QueueTypes
  <2>1. packetQueue \in QueueOf(Packets)
    BY DEF Init, NewQueue, QueueOf
  <2>2. Len(Items) = 0
    BY <1>0
  <2> QED
    BY <2>1, <2>2, InputAssumption DEF Init, QueueTypes, NewQueue
<1>6. SenderHasPacket /\ MutexIsHeld
  BY <1>0, NoneIsAPacket, NoneIsNoDevice, InputAssumption
     DEF Init, SenderHasPacket, MutexIsHeld
<1>7. NoGap
  BY <1>0, <1>1 DEF NoGap, Numbered, Complete, Base, Queued
<1>8. DirtyHasPacket
  <2>1. \A d \in Overwritten : d \in Devices /\ ~dirty[d]
    BY DEF Init, Devices
  <2> QED
    BY <1>0, <1>1, <2>1 DEF DirtyHasPacket, Stands, StoodFor, InCur, InQueue
<1>9. KeysAreGiven
  <2>1. \A d \in Merged : d \in Devices
    BY DEF Merged, Devices
  <2> QED
    BY <1>0, <1>1, <2>1 DEF KeysAreGiven
<1>10. MotionIsAhead
  BY <1>0, NoneIsAPacket DEF Init, MotionIsAhead, ButtonsFollowMotion
<1>11. SensorIsLatest
  BY <1>1, NoneIsAPacket DEF Init, SensorIsLatest, Devices, Overwritten
<1>12. MotionIsConserved
  BY DEF Init, MotionIsConserved, InHand
<1> QED
  BY <1>2, <1>3, <1>4, <1>5, <1>6, <1>7, <1>8, <1>9, <1>10, <1>11, <1>12 DEF IInv, Types

(* Every reachable state has the invariant. *)
THEOREM Invariance == Spec => []IInv
<1>1. Init => IInv
  BY InitIInv
<1>2. IInv /\ [Next]_vars => IInv'
  <2> SUFFICES ASSUME IInv, [Next]_vars
               PROVE  IInv'
    OBVIOUS
  <2>1. Types'
    BY CallerTypesNext, FlagTypesNext, SenderTypesNext, HistoryTypesNext, QueueTypesNext
       DEF IInv, Types
  <2>2. SenderHasPacket' /\ MutexIsHeld' /\ NoGap' /\ DirtyHasPacket'
    BY SenderHasPacketNext, MutexIsHeldNext, NoGapNext, DirtyHasPacketNext DEF IInv, Types
  <2>3. KeysAreGiven' /\ SensorIsLatest' /\ MotionIsConserved'
    BY KeysAreGivenNext, SensorIsLatestNext, MotionIsConservedNext DEF IInv, Types
  <2>4. MotionIsAhead'
    BY <2>1, MotionIsAheadNext DEF IInv, Types
  <2> QED
    BY <2>1, <2>2, <2>3, <2>4 DEF IInv
<1> QED
  BY <1>1, <1>2, PTL DEF Spec

(* The variables keep their types, the queue its bound. *)
THEOREM TypeCorrect == Spec => []TypeOK
<1>1. IInv => TypeOK
  <2> SUFFICES ASSUME Types PROVE TypeOK
    BY DEF IInv
  <2>1. /\ initialized \in BOOLEAN /\ freeListOpen \in BOOLEAN /\ failed \in BOOLEAN
        /\ stopping \in 0 .. Len(StopScript)
    BY DEF Types, FlagTypes
  <2>2. packetQueue \in QueueOf(Packets) /\ Len(packetQueue.items) <= QueueBound
    BY DEF Types, QueueTypes, Items
  <2>3. /\ batchedInputMutex \in Callers \cup {Nobody}
        /\ delta \in Int /\ dirty \in [Overwritten -> BOOLEAN] /\ gyro \in Int
        /\ currentPenButtonState \in Int /\ batchedScrollDelta \in Int
        /\ todo \in [Callers -> Seq([dev : Devices, key : Int])]
        /\ pc \in [Callers -> {"idle", "take", "offer"}] /\ holder \in [Callers -> Packets]
    BY DEF Types, CallerTypes, Events
  <2>4. /\ sender \in {"wait", "batch", "motion", "send motion", "latest", "text", "send",
             "ended"}
        /\ cur \in Packets /\ sent \in [Devices -> Nat] /\ sure \in [Devices -> Nat]
    BY DEF Types, SenderTypes
  <2>5. given \in [Devices -> Seq(Int)] /\ moved \in Int /\ arrived \in Int
    BY DEF Types, HistoryTypes
  <2> QED
    BY <2>1, <2>2, <2>3, <2>4, <2>5 DEF TypeOK
<1> QED
  BY <1>1, Invariance, PTL

(* When the queue is empty and the thread holds nothing, all was sent. *)
LEMMA NothingIsPending ==
  ASSUME IInv, sender \in {"wait", "ended"}, Items = <<>>, ~failed
  PROVE  AllSent
<1> SUFFICES ASSUME NEW d \in Devices PROVE sent[d] = Given(d)
  BY DEF AllSent
<1>1. cur.dev # d /\ Places = {}
  <2>1. cur = None
    BY DEF IInv, SenderHasPacket
  <2>2. cur.dev # d
    BY <2>1, NoneIsAPacket, NoneIsNoDevice
  <2>3. Places = {}
    BY DEF Places
  <2> QED
    BY <2>2, <2>3
<1>2. CASE d \in Overwritten
  <2>1. Stands(d) /\ StoodFor(d)
    BY <1>2 DEF IInv, DirtyHasPacket
  <2>2. ~InCur(d) /\ ~InQueue(d)
    BY <1>1 DEF InCur, InQueue
  <2> QED
    BY <1>1, <2>1, <2>2 DEF StoodFor
<1>3. CASE d \notin Overwritten
  <2>1. Numbered(d) /\ Complete(d) /\ Base(d) = sent[d]
    BY <1>1, <1>3 DEF IInv, NoGap, Queued, Base
  <2>2. sent[d] \in Nat /\ Given(d) \in Nat
    BY BaseIsANumber, GivenIsANumber DEF IInv, Types
  <2>3. sent[d] <= Given(d)
    BY <2>1 DEF Numbered
  <2>4. ~(sent[d] + 1 \in sent[d] + 1 .. Given(d))
    BY <1>1, <2>1 DEF Complete
  <2> QED
    BY <2>2, <2>3, <2>4
<1> QED
  BY <1>2, <1>3

(* Input a send function accepted is sent, unless the connection failed: no      *)
(* packet is dropped and no change of a batched state is forgotten between the   *)
(* dirty flag and the queue, however the callers and the send thread interleave. *)
THEOREM SendsAccepted == Spec => []AcceptedIsSent
<1>1. IInv => AcceptedIsSent
  BY NothingIsPending DEF AcceptedIsSent, IsEmpty, Items
<1> QED
  BY <1>1, Invariance, PTL

(* A button is never sent before the pointer motion that was accepted before it, *)
(* although motion waits in a batched state and buttons go through the queue.    *)
THEOREM PressesLate == Spec => []ButtonsFollowMotion
<1>1. IInv => ButtonsFollowMotion
  BY DEF IInv, MotionIsAhead
<1> QED
  BY <1>1, Invariance, PTL

(* A sensor that came to rest is sent at rest, and on the reliable channel. *)
THEOREM RestsSurely == Spec => []RestIsSure
<1>1. IInv => RestIsSure
  <2> SUFFICES ASSUME IInv, Quiet, Given("sense") > 0, given["sense"][Given("sense")] = 0
               PROVE  sure["sense"] = Given("sense")
    BY DEF RestIsSure
  <2>1. AllSent
    BY NothingIsPending DEF Quiet, IsEmpty, Items
  <2>2. sent["sense"] = Given("sense")
    BY <2>1 DEF AllSent, Devices, Overwritten
  <2> QED
    BY <2>2 DEF IInv, SensorIsLatest
<1> QED
  BY <1>1, Invariance, PTL

(* Relative motion is neither lost nor sent twice: what arrived and what is still *)
(* batched is what was moved, across the clamp and while callers add to it.       *)
THEOREM ConservesMotion == Spec => []MotionIsConserved
<1>1. IInv => MotionIsConserved
  BY DEF IInv
<1> QED
  BY <1>1, Invariance, PTL

(* What a step sends of device d. *)
SentOf(d) ==
  sent'[d] # sent[d] =>
    /\ sent'[d] > sent[d]
    /\ \A i \in sent[d] + 1 .. sent'[d] : given[d][i] = given[d][sent'[d]]

(* What is merged has equal keys. *)
LEMMA MergesOnlyEqual ==
  ASSUME IInv, [Next]_vars, NEW d \in Merged
  PROVE  SentOf(d)
<1>0. d \in Devices /\ d \in Queued /\ d # "move"
  BY DEF Merged, Pads, Devices, Queued, Overwritten
<1>1. CASE Send
  <2>1. sent'[d] = IF cur.dev = d THEN cur.n ELSE sent[d]
    BY <1>0, <1>1 DEF Send, IInv, Types, SenderTypes
  <2>2. CASE cur.dev = d
    <3>1. sent[d] < cur.n
      BY <1>0, <2>2 DEF IInv, NoGap, Numbered
    <3>2. sent[d] \in Nat /\ cur.n \in Nat
      BY <1>0, BaseIsANumber DEF IInv, Types
    <3>3. \A i \in sent[d] + 1 .. cur.n : given[d][i] = cur.key
      BY <2>2 DEF IInv, KeysAreGiven
    <3>4. cur.n \in sent[d] + 1 .. cur.n
      BY <3>1, <3>2
    <3> QED
      BY <2>1, <2>2, <3>1, <3>2, <3>3, <3>4 DEF SentOf
  <2> QED
    BY <2>1, <2>2 DEF SentOf
<1>2. CASE Motion
  <2>1. sent'[d] = sent[d]
    BY <1>0, <1>2 DEF Motion, IInv, Types, SenderTypes
  <2> QED
    BY <2>1 DEF SentOf
<1>3. CASE \/ \E c \in Callers : CallStep(c)
           \/ WaitForPacket \/ Batch \/ SendMotion \/ Latest \/ SendCodePoint
           \/ SendFails \/ StopStep \/ UNCHANGED vars
  <2>1. sent' = sent
    BY <1>3
       DEF CallStep, Begin, TakeHolder, Overwrite, Offer, WaitForPacket, Batch, SendMotion,
           Latest, SendCodePoint, SendFails, StopStep, vars, sentVars
  <2> QED
    BY <2>1 DEF SentOf
<1> QED
  BY <1>1, <1>2, <1>3 DEF Next, SendStep

(* No step sends a merged packet that swallows a change: all that one packet of *)
(* a pad or the pen stands for had the same buttons.                            *)
THEOREM MergesSafely == Spec => MergingKeepsChanges
<1>1. IInv /\ [Next]_vars =>
        [\A d \in Pads \cup {"pen"} : sent'[d] # sent[d] =>
           /\ sent'[d] > sent[d]
           /\ \A i \in sent[d] + 1 .. sent'[d] : given[d][i] = given[d][sent'[d]]]_vars
  BY MergesOnlyEqual DEF Merged, SentOf
<1> QED
  BY <1>1, Invariance, PTL DEF Spec, MergingKeepsChanges
=============================================================================
