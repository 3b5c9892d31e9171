-------------------------- MODULE SessionOrchestrator --------------------------
(***************************************************************************)
(* How the Android client gets to a stream (SessionOrchestrator.java and   *)
(* SessionBackend.java): an attempt polls the launcher's API, joins the    *)
(* queue of its machine when the machine is idle, prepares the host when   *)
(* it is ready and hands over to the activity that streams.  A new attempt *)
(* cancels the active one.  What a cancelled or failed attempt may have    *)
(* left in the queue is removed by its cleanup, on a thread of its own.    *)
(*                                                                         *)
(* Every attempt is for the same machine.  The launcher's server, outside  *)
(* the repository, is modelled from how the client uses it: one entry per  *)
(* machine in the queue, a POST that enters it when the machine is idle, a *)
(* DELETE that removes it whoever entered it, and a machine that is idle   *)
(* (also while it is being allocated), starting or ready.  A request that  *)
(* was cancelled or timed out may be served nevertheless.                  *)
(***************************************************************************)
EXTENDS Integers

CONSTANTS
  MaxAttempts,    \* how many attempts are started
  IdlePollLimit,  \* idle answers an attempt accepts after it joined (6 in the code)
  MaxSurprises    \* requests that fail, entries and machines that vanish, in all

ASSUME AttemptsAssumption ==
  /\ MaxAttempts \in Nat \ {0} /\ IdlePollLimit \in Nat /\ MaxSurprises \in Nat

Attempts == 1 .. MaxAttempts
None  == 0
Other == MaxAttempts + 1       \* who entered the queue without this client

VARIABLES
  active,          \* the attempt that is active, or None
  previousCleanup, \* the attempt whose cleanup a new one waits for, or None
  stage,           \* per attempt; "NEW" before its start
  friend,          \* per attempt: the machine is a friend's
  at,              \* per attempt: what its worker does next
  waitsFor,        \* per attempt: the cleanup it waits for, or None
  reply,           \* per attempt: the status it got
  queueMayExist, joined, joinUncertain, idlePollsAfterJoin,   \* per attempt
  handoff,         \* per attempt: "none", "posted" (onPrepared), or "launched"
  streaming,       \* per attempt: streamCancellation is set
  checks,          \* per attempt: the DELETEs its cleanup has still to send
  post,            \* per attempt: its POST: "none", "sent" or "served"
  late,            \* attempts with a DELETE that was given up and is still to be served
  entry, vm,       \* the server: who entered the queue, and the machine
  surprises,       \* how many surprises there were
  removed,         \* history: who lost an entry that it still wanted, and to what DELETE
  leaks            \* history: the attempts whose last DELETE failed

workerVars  == <<at, waitsFor, reply>>
joinVars    == <<queueMayExist, joined, joinUncertain, idlePollsAfterJoin>>
serverVars  == <<post, late, entry, vm, removed>>
streamVars  == <<handoff, streaming>>
vars == <<active, previousCleanup, stage, friend, workerVars, joinVars, streamVars, checks,
          serverVars, surprises, leaks>>

Each(v) == [a \in Attempts |-> v]

Init ==
  /\ active = None /\ previousCleanup = None
  /\ stage = Each("NEW") /\ friend \in [Attempts -> BOOLEAN]
  /\ at = Each("none") /\ waitsFor = Each(None) /\ reply = Each("none")
  /\ queueMayExist = Each(FALSE) /\ joined = Each(FALSE) /\ joinUncertain = Each(FALSE)
  /\ idlePollsAfterJoin = Each(0)
  /\ handoff = Each("none") /\ streaming = Each(FALSE)
  /\ checks = Each(0) /\ post = Each("none") /\ late = {}
  /\ entry \in {None, Other} /\ vm \in {"idle", "ready"}
  /\ entry = Other => vm = "idle"
  /\ surprises = 0 /\ removed = {} /\ leaks = {}

-------------------------------------------------------------------------------
(* Faulty variants of the definitions below. *)

CleanupNotAwaited(a) == TRUE

ChecksAlwaysOnce(a) == 1

AttachesOnce(a) == ~streaming[a]

CountsNoIdlePolls(a) == idlePollsAfterJoin' = idlePollsAfterJoin

-------------------------------------------------------------------------------
(* What the methods share; each is called with the registry's lock held. *)

Over(a) == stage[a] \in {"FAILED", "CANCELLED"}

IsActive(a) == active = a /\ stage[a] # "FAILED"

(* The number of DELETEs of a cleanup (cleanupQueue). *)
Checks(a) == IF joinUncertain[a] THEN 4 ELSE 1

(* scheduleQueueCleanup, for an attempt that ends in stage s. *)
Ends(a, s) ==
  LET cleans == queueMayExist[a] /\ ~friend[a] IN
  /\ stage' = [stage EXCEPT ![a] = s]
  /\ queueMayExist' = [queueMayExist EXCEPT ![a] = @ /\ ~cleans]
  /\ checks' = IF cleans THEN [checks EXCEPT ![a] = Checks(a)] ELSE checks
  /\ previousCleanup' = IF cleans THEN a ELSE previousCleanup

(* fail: only an active attempt fails, and it stays the active one. *)
Fails(a) ==
  IF IsActive(a)
  THEN Ends(a, "FAILED") /\ at' = [at EXCEPT ![a] = "done"] /\ UNCHANGED <<active, handoff, streaming>>
  ELSE /\ at' = [at EXCEPT ![a] = "done"]
       /\ UNCHANGED <<stage, queueMayExist, checks, previousCleanup, active, handoff, streaming>>

(* cancel, of an attempt that was not cancelled. *)
Cancelled(a) ==
  /\ Ends(a, "CANCELLED")
  /\ handoff' = [handoff EXCEPT ![a] = IF @ = "posted" THEN "none" ELSE @]
  /\ streaming' = [streaming EXCEPT ![a] = FALSE]

-------------------------------------------------------------------------------
(* The user interface: a new attempt is created and started, ... *)
Start(a) ==
  /\ stage[a] = "NEW" /\ (a > 1 => stage[a - 1] # "NEW")
  /\ IF active = None
     THEN /\ stage' = [stage EXCEPT ![a] = "CHECKING"]
          /\ UNCHANGED <<queueMayExist, checks, previousCleanup, handoff, streaming>>
     ELSE LET b == active
              cleans == queueMayExist[b] /\ ~friend[b] IN
          /\ stage' = [stage EXCEPT ![a] = "CHECKING", ![b] = "CANCELLED"]
          /\ queueMayExist' = [queueMayExist EXCEPT ![b] = @ /\ ~cleans]
          /\ checks' = IF cleans THEN [checks EXCEPT ![b] = Checks(b)] ELSE checks
          /\ previousCleanup' = IF cleans THEN b ELSE previousCleanup
          /\ handoff' = [handoff EXCEPT ![b] = IF @ = "posted" THEN "none" ELSE @]
          /\ streaming' = [streaming EXCEPT ![b] = FALSE]
  /\ active' = a
  /\ at' = [at EXCEPT ![a] = "await"]
  /\ waitsFor' = [waitsFor EXCEPT ![a] = previousCleanup']
  /\ UNCHANGED <<friend, reply, joined, joinUncertain, idlePollsAfterJoin, serverVars,
                 surprises, leaks>>

(* ... and is cancelled by its user, or when the stream ends. *)
Cancel(a) ==
  /\ active = a /\ stage[a] # "CANCELLED"
  /\ Cancelled(a)
  /\ active' = None
  /\ UNCHANGED <<friend, workerVars, joined, joinUncertain, idlePollsAfterJoin, serverVars,
                 surprises, leaks>>

(* onPrepared is delivered: the activity that streams is started. *)
OnPrepared(a) ==
  /\ handoff[a] = "posted"
  /\ handoff' = [handoff EXCEPT ![a] = IF IsActive(a) THEN "launched" ELSE "none"]
  /\ UNCHANGED <<active, previousCleanup, stage, friend, workerVars, joinVars, streaming, checks,
                 serverVars, surprises, leaks>>

(* attachStream, by the activity that found the attempt. *)
MayAttach(a) == IsActive(a) /\ stage[a] = "WAITING_FOR_FRAME" /\ ~streaming[a]

AttachStream(a) ==
  /\ handoff[a] = "launched" /\ MayAttach(a)
  /\ streaming' = [streaming EXCEPT ![a] = TRUE]
  /\ UNCHANGED <<active, previousCleanup, stage, friend, workerVars, joinVars, handoff, checks,
                 serverVars, surprises, leaks>>

OnFirstFrameRendered(a) ==
  /\ IsActive(a) /\ stage[a] = "WAITING_FOR_FRAME" /\ streaming[a]
  /\ stage' = [stage EXCEPT ![a] = "STREAMING"]
  /\ UNCHANGED <<active, previousCleanup, friend, workerVars, joinVars, streamVars, checks,
                 serverVars, surprises, leaks>>

-------------------------------------------------------------------------------
(* The worker of an attempt. *)

Surprise == surprises < MaxSurprises /\ surprises' = surprises + 1

Goes(a, to) == at' = [at EXCEPT ![a] = to]

Quiet == UNCHANGED <<active, previousCleanup, streamVars, checks>>

(* It waits until the previous cleanup is complete, ... *)
CleanupComplete(a) == waitsFor[a] # None => checks[waitsFor[a]] = 0

AwaitCleanup(a) ==
  /\ at[a] = "await"
  /\ CleanupComplete(a) \/ stage[a] = "CANCELLED"
  /\ Goes(a, IF ~IsActive(a) THEN "done" ELSE IF friend[a] THEN "prepare" ELSE "poll")
  /\ stage' = IF IsActive(a) /\ friend[a] THEN [stage EXCEPT ![a] = "CONNECTING"] ELSE stage
  /\ Quiet
  /\ UNCHANGED <<friend, waitsFor, reply, joinVars, serverVars, surprises, leaks>>

Status == IF vm \in {"starting", "ready"} THEN vm ELSE IF entry # None THEN "queued" ELSE "idle"

(* ... asks for the status, ... *)
GetStatus(a) ==
  /\ at[a] = "poll"
  /\ IF IsActive(a) THEN Goes(a, "got") /\ reply' = [reply EXCEPT ![a] = Status]
                    ELSE Goes(a, "done") /\ UNCHANGED reply
  /\ Quiet
  /\ UNCHANGED <<stage, friend, waitsFor, joinVars, serverVars, surprises, leaks>>

(* ... sends the POST when the machine is idle, having noted that it does, ... *)
JoinQueue(a) ==
  /\ at[a] = "got" /\ IsActive(a) /\ reply[a] = "idle" /\ ~joined[a]
  /\ joined' = [joined EXCEPT ![a] = TRUE]
  /\ joinUncertain' = [joinUncertain EXCEPT ![a] = TRUE]
  /\ queueMayExist' = [queueMayExist EXCEPT ![a] = TRUE]
  /\ post' = [post EXCEPT ![a] = "sent"]
  /\ Goes(a, "post")
  /\ Quiet
  /\ UNCHANGED <<stage, friend, waitsFor, reply, idlePollsAfterJoin, late, entry, vm, removed,
                 surprises, leaks>>

(* The POST is answered. *)
Joined(a) ==
  /\ at[a] = "post" /\ post[a] = "served"
  /\ IF IsActive(a)
     THEN Goes(a, "answered") /\ joinUncertain' = [joinUncertain EXCEPT ![a] = FALSE]
     ELSE Goes(a, "done") /\ UNCHANGED joinUncertain
  /\ Quiet
  /\ UNCHANGED <<stage, friend, waitsFor, reply, queueMayExist, joined, idlePollsAfterJoin,
                 serverVars, surprises, leaks>>

(* ... and accepts the answer (acceptStatus). *)
CountIdlePoll(a) == idlePollsAfterJoin' = [idlePollsAfterJoin EXCEPT ![a] = @ + 1]

Accepts(a) ==
  \/ /\ reply[a] = "queued"
     /\ queueMayExist' = [queueMayExist EXCEPT ![a] = joined[a]]
     /\ idlePollsAfterJoin' = [idlePollsAfterJoin EXCEPT ![a] = 0]
     /\ stage' = [stage EXCEPT ![a] = "QUEUED"] /\ Goes(a, "poll")
  \/ /\ reply[a] = "starting"
     /\ queueMayExist' = [queueMayExist EXCEPT ![a] = FALSE]
     /\ stage' = [stage EXCEPT ![a] = "STARTING"] /\ Goes(a, "poll")
     /\ UNCHANGED idlePollsAfterJoin
  \/ /\ reply[a] = "ready"
     /\ queueMayExist' = [queueMayExist EXCEPT ![a] = FALSE]
     /\ stage' = [stage EXCEPT ![a] = "CONNECTING"] /\ Goes(a, "prepare")
     /\ UNCHANGED idlePollsAfterJoin
  \/ /\ reply[a] = "idle" /\ idlePollsAfterJoin[a] < IdlePollLimit
     /\ CountIdlePoll(a)
     /\ stage' = [stage EXCEPT ![a] = "CHECKING"] /\ Goes(a, "poll")
     /\ UNCHANGED queueMayExist

AcceptStatus(a) ==
  /\ at[a] = "answered" \/ (at[a] = "got" /\ ~(reply[a] = "idle" /\ ~joined[a]))
  /\ IsActive(a)
  /\ \/ Accepts(a) /\ Quiet
     \/ reply[a] = "idle" /\ idlePollsAfterJoin[a] >= IdlePollLimit
        /\ Fails(a) /\ UNCHANGED idlePollsAfterJoin
  /\ UNCHANGED <<friend, waitsFor, reply, joined, joinUncertain, serverVars, surprises, leaks>>

(* The host is prepared, paired if need be, and the result is posted. *)
Prepare(a) ==
  /\ at[a] = "prepare"
  /\ Goes(a, "done")
  /\ IF IsActive(a)
     THEN /\ stage' = [stage EXCEPT ![a] = "WAITING_FOR_FRAME"]
          /\ handoff' = [handoff EXCEPT ![a] = "posted"]
     ELSE UNCHANGED <<stage, handoff>>
  /\ UNCHANGED <<active, previousCleanup, friend, waitsFor, reply, joinVars, streaming, checks,
                 serverVars, surprises, leaks>>

(* A request fails or times out, answers for another machine, or is refused by *)
(* the host.                                                                   *)
RequestFails(a) ==
  /\ at[a] \in {"poll", "post", "prepare"} /\ Surprise
  /\ Fails(a)
  /\ UNCHANGED <<friend, waitsFor, reply, joined, joinUncertain, idlePollsAfterJoin, serverVars,
                 leaks>>

(* The POST was lost. *)
JoinFails(a) ==
  /\ at[a] = "post" /\ post[a] = "none"
  /\ Fails(a)
  /\ UNCHANGED <<friend, waitsFor, reply, joined, joinUncertain, idlePollsAfterJoin, serverVars,
                 surprises, leaks>>

(* The requests of an attempt that was cancelled end at once. *)
Interrupted(a) ==
  /\ at[a] \in {"poll", "got", "post", "answered", "prepare"} /\ ~IsActive(a)
  /\ Goes(a, "done")
  /\ Quiet
  /\ UNCHANGED <<stage, friend, waitsFor, reply, joinVars, serverVars, surprises, leaks>>

Worker(a) ==
  \/ AwaitCleanup(a) \/ GetStatus(a) \/ JoinQueue(a) \/ Joined(a) \/ AcceptStatus(a)
  \/ Prepare(a) \/ JoinFails(a) \/ Interrupted(a)

-------------------------------------------------------------------------------
(* The cleanup of an attempt: DELETEs, and longer and longer pauses between    *)
(* them, so long that the POST is served or lost before the fourth.            *)

Due(a) == checks[a] > 0 /\ (checks[a] = 1 /\ Checks(a) = 4 => post[a] # "sent")

Removes(how) ==
  /\ removed' = IF entry # None /\ ~(entry \in Attempts /\ Over(entry))
                THEN removed \cup {<<entry, how>>} ELSE removed
  /\ entry' = None

Same == UNCHANGED <<active, previousCleanup, stage, friend, workerVars, joinVars, streamVars>>

Delete(a) ==
  /\ Due(a)
  /\ Removes("timely")
  /\ checks' = [checks EXCEPT ![a] = @ - 1]
  /\ leaks' = leaks \ {a}
  /\ Same /\ UNCHANGED <<post, late, vm, surprises>>

(* A DELETE fails or times out; or the deadline of 15 seconds passes. *)
DeleteFails(a) ==
  /\ Due(a) /\ Surprise
  /\ \/ checks' = [checks EXCEPT ![a] = @ - 1]
     \/ checks' = [checks EXCEPT ![a] = 0]
  /\ leaks' = leaks \cup {a}
  /\ late' = late \cup {a}
  /\ Same /\ UNCHANGED <<post, entry, vm, removed>>

-------------------------------------------------------------------------------
(* The server. *)

ServePost(a) ==
  /\ post[a] = "sent"
  /\ post' = [post EXCEPT ![a] = "served"]
  /\ entry' = IF entry = None /\ vm = "idle" THEN a ELSE entry
  /\ reply' = IF at[a] = "post"
              THEN [reply EXCEPT ![a] = IF entry = None /\ vm = "idle" THEN "queued" ELSE Status]
              ELSE reply
  /\ UNCHANGED <<active, previousCleanup, stage, friend, at, waitsFor, joinVars, streamVars,
                 checks, late, vm, removed, surprises, leaks>>

LosePost(a) ==
  /\ post[a] = "sent" /\ Surprise
  /\ post' = [post EXCEPT ![a] = "none"]
  /\ Same /\ UNCHANGED <<checks, late, entry, vm, removed, leaks>>

ServeLateDelete(a) ==
  /\ a \in late
  /\ late' = late \ {a}
  /\ Removes("late")
  /\ Same /\ UNCHANGED <<checks, post, vm, surprises, leaks>>

(* The one in the queue gets the machine, which boots. *)
Allocate ==
  /\ \/ vm = "idle" /\ entry # None /\ vm' = "allocating" /\ entry' = None
     \/ vm = "allocating" /\ vm' = "starting" /\ UNCHANGED entry
     \/ vm = "starting" /\ vm' = "ready" /\ UNCHANGED entry
  /\ Same /\ UNCHANGED <<checks, post, late, removed, surprises, leaks>>

(* The entry, or the machine, is gone. *)
Vanish ==
  /\ Surprise
  /\ \/ entry # None /\ entry' = None /\ UNCHANGED vm
     \/ vm # "idle" /\ vm' = "idle" /\ UNCHANGED entry
  /\ Same /\ UNCHANGED <<checks, post, late, removed, leaks>>

UserInterface(a) ==
  Start(a) \/ Cancel(a) \/ OnPrepared(a) \/ AttachStream(a) \/ OnFirstFrameRendered(a)

Next ==
  \/ \E a \in Attempts : \/ UserInterface(a) \/ Worker(a) \/ RequestFails(a)
                         \/ Delete(a) \/ DeleteFails(a)
                         \/ ServePost(a) \/ LosePost(a) \/ ServeLateDelete(a)
  \/ Allocate \/ Vanish

Spec == Init /\ [][Next]_vars

(* The threads run on, a POST is served or lost, and the queue moves. *)
FairSpec ==
  /\ Spec
  /\ \A a \in Attempts : WF_vars(Worker(a)) /\ WF_vars(Delete(a))
                         /\ WF_vars(ServePost(a))
  /\ WF_vars(Allocate)

-------------------------------------------------------------------------------
Stages == {"NEW", "CHECKING", "QUEUED", "STARTING", "CONNECTING", "WAITING_FOR_FRAME",
           "STREAMING", "FAILED", "CANCELLED"}

TypeOK ==
  /\ active \in Attempts \cup {None} /\ previousCleanup \in Attempts \cup {None}
  /\ stage \in [Attempts -> Stages]
  /\ entry \in 0 .. MaxAttempts + 1 /\ vm \in {"idle", "allocating", "starting", "ready"}
  /\ checks \in [Attempts -> 0 .. 4]
  /\ idlePollsAfterJoin \in [Attempts -> 0 .. IdlePollLimit]

(* No DELETE that its cleanup waits for removes the entry of a later attempt,  *)
(* nor does cancelling an attempt take away a place in the queue that it did   *)
(* not ask for itself (scheduleQueueCleanup, start).                           *)
RemovesOnlyItsOwn == \A r \in removed : r[2] # "timely"

(* An attempt that is over and has nothing more to clean up holds no place in  *)
(* the queue, however its POST and the cancellation crossed, unless the last   *)
(* DELETE failed.                                                              *)
NothingLeftQueued ==
  \A a \in Attempts :
    Over(a) /\ checks[a] = 0 /\ post[a] # "sent" /\ a \notin leaks => entry # a

(* Only the active attempt has a stream: the stream of a cancelled one was     *)
(* told to stop, and an attempt that is over gets none.                        *)
OneStream == \A a \in Attempts : streaming[a] => active = a /\ ~Over(a)

(* Every attempt that is started ends, or reaches the host: it does not wait   *)
(* for a cleanup, nor poll, for ever.                                          *)
EveryAttemptIsDecided ==
  \A a \in Attempts :
    stage[a] = "CHECKING" ~> stage[a] \in {"WAITING_FOR_FRAME", "STREAMING"} \/ Over(a)
===============================================================================
