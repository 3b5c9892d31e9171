----------------------------- MODULE DesktopStartup -----------------------------
(***************************************************************************)
(* From a click to a stream on the desktop: SessionOrchestrator            *)
(* (sessionorchestrator.cpp) and the part of LauncherApi (launcherapi.cpp) *)
(* it rests on.  Everything runs on the thread of the user interface, one  *)
(* event at a time: a reply, a timer, the result of a worker, a click.  An *)
(* action is one event; what it calls, directly or through a signal, are   *)
(* functions from the state of the client to its next state.  Only the     *)
(* call of drive after busyChanged is queued as an event of its own.       *)
(*                                                                         *)
(* m_Busy is one flag for all requests.  Most are sent only while it is    *)
(* down; uploads, emulators and deletions take it without looking, and any *)
(* reply clears it, whatever else is on its way.                           *)
(*                                                                         *)
(* There is one machine per account.  The server, the host and the life of *)
(* a stream are external.  A request that failed may have been served all  *)
(* the same, or be served later.  The m_Attempt counter goes up when an    *)
(* attempt starts and when it is cancelled, so an attempt is its value.    *)
(***************************************************************************)
EXTENDS Integers, FiniteSets

CONSTANTS
  Users,          \* accounts
  FirstUser,      \* the one that was logged in the last time
  MaxStarts,      \* bound: attempts
  MaxAccounts,    \* bound: the number of the account that no user logs out of
  MaxSurprises    \* bound: failures, repeated logins, other use of the launcher

Nobody == "nobody"      \* no account

ASSUME StartupAssumption ==
  /\ FirstUser \in Users /\ Nobody \notin Users
  /\ MaxStarts \in Nat /\ MaxAccounts \in Nat /\ MaxSurprises \in Nat

NoEntry  == 0            \* the owner of no queue entry
Site     == -1           \* the owner of an entry that was made elsewhere
Attempts == 1 .. 2 * MaxStarts

VARIABLES
  client,       \* the state of both classes and of their requests, see Init
  machine,      \* per account: the state of its machine
  owner,        \* per account: who made the entry in the queue
  late,         \* requests the client gave up that may still be served
  starts, surprises,
  unsure,       \* history: attempts one of whose requests got no answer
  overlapped    \* history: attempts in which m_Busy did not keep requests apart, see Overlaps

server  == <<machine, owner, late>>
budgets == <<starts, surprises>>
vars    == <<client, server, budgets, unsure, overlapped>>

NoCleanup == [st |-> "done", attempt |-> 0, user |-> Nobody, account |-> 0]
NoSession == [st |-> "none", attempt |-> 0, host |-> 0, cancelled |-> FALSE]

(* The application has started and is about to restore the session of the *)
(* last time.                                                             *)
Init ==
  /\ client = [active |-> FALSE, attempt |-> 0, joinRequested |-> FALSE, connectionRequested |-> FALSE,
               cancelQueued |-> FALSE, status |-> "none", waitingForApps |-> FALSE, computer |-> 0,
               poll |-> FALSE, deadline |-> FALSE, drive |-> FALSE, session |-> NoSession, tasks |-> {},
               loggedIn |-> FALSE, user |-> FirstUser, account |-> 0, refreshing |-> FALSE,
               busy |-> FALSE, requests |-> {}, join |-> 0, pin |-> 0, cleanup |-> NoCleanup]
  /\ machine \in [Users -> {"idle", "queued"}]
  /\ owner = [u \in Users |-> IF machine[u] = "queued" THEN Site ELSE NoEntry]
  /\ late = {} /\ unsure = {} /\ overlapped = {}
  /\ starts = 0 /\ surprises = 0

-----------------------------------------------------------------------------
\* What the launcher does for the orchestrator.  Every change of m_Busy emits
\* busyChanged, which queues a call of drive.

SetBusy(c, b) == [c EXCEPT !.busy = b, !.drive = @ \/ b # c.busy]
IsFree(c)     == c.loggedIn /\ ~c.busy

(* The requests that are on their way.  "answer" is what the server has    *)
(* answered; the attempt that sent a POST tells it from the others.        *)
FreshId(c, kind) ==
  CHOOSE n \in 1 .. Cardinality(c.requests) + 1 : \A r \in c.requests : r.kind = kind => r.id # n
Request(c, kind) ==
  [kind |-> kind, id |-> FreshId(c, kind), attempt |-> 0, user |-> c.user, account |-> c.account, answer |-> "none"]
Join(c)    == [Request(c, "post") EXCEPT !.attempt = c.attempt]
Send(c, r) == [SetBusy(c, TRUE) EXCEPT !.requests = @ \cup {r}]

Replied(c, r)  == [c EXCEPT !.requests = @ \ {r}]
Freed(c, r)    == SetBusy(Replied(c, r), FALSE)
Answered(c, r, state) == [c EXCEPT !.requests = (@ \ {r}) \cup {[r EXCEPT !.answer = state]}]

RefreshStatus(c)     == IF IsFree(c) THEN Send(c, Request(c, "status")) ELSE c
RequestConnection(c) == IF IsFree(c) THEN Send(c, Request(c, "connection")) ELSE c
JoinQueue(c)         == IF IsFree(c) THEN [Send(c, Join(c)) EXCEPT !.join = c.attempt] ELSE c

(* The connection request and the deliveries of a PIN are given up. *)
ConnectionBusy(c) == \E r \in c.requests : r.kind = "connection"
CancelConnectionRequests(c) ==
  LET d == [c EXCEPT !.pin = 0, !.requests = {r \in @ : r.kind # "connection"}]
  IN IF ConnectionBusy(c) THEN SetBusy(d, FALSE) ELSE d

(* The DELETE goes out with the token of the attempt's account, after the  *)
(* reply to the latest POST.                                               *)
IsLatestJoin(c, r) == r.kind = "post" /\ r.attempt = c.join
CleanupStart(c) == IF \E r \in c.requests : IsLatestJoin(c, r) THEN "waiting" ELSE "sent"
CancelQueuedAttempt(c) ==
  [c EXCEPT !.cleanup = [st |-> CleanupStart(c), attempt |-> c.attempt, user |-> c.user, account |-> c.account]]

-----------------------------------------------------------------------------
\* What the orchestrator does.

StopPreparation(c) == [c EXCEPT !.poll = FALSE, !.deadline = FALSE]
IsReady(c)   == c.status = "ready"
MayJoin(c)   == c.status = "idle" /\ ~c.joinRequested
MayDrive(c)  == ~c.busy /\ ~c.cancelQueued /\ c.active /\ ~c.connectionRequested

ConnectsForGood(c) == [c EXCEPT !.connectionRequested = TRUE]
Connects(c)        == [c EXCEPT !.connectionRequested = TRUE, !.deadline = TRUE]

Drive(c) ==
  IF ~MayDrive(c) THEN c
  ELSE IF IsReady(c) THEN RequestConnection(Connects(c))
  ELSE IF MayJoin(c) THEN JoinQueue([c EXCEPT !.joinRequested = TRUE])
  ELSE c

(* An attempt that may have an entry: it asked for one, and the last it    *)
(* knows is that it waits in the queue, or a request is still open.        *)
IsQueued(c) == ~c.connectionRequested /\ c.joinRequested /\ c.status = "queued"
MayBeQueued(c) ==
  /\ ~c.connectionRequested /\ c.joinRequested
  /\ c.status = "queued" \/ c.busy

Cancel(c) ==
  IF ~c.active THEN c
  ELSE LET q == [c EXCEPT !.active = FALSE, !.cancelQueued = MayBeQueued(c)]
           d == IF q.cancelQueued THEN CancelQueuedAttempt(q) ELSE q
           e == [StopPreparation(d) EXCEPT !.attempt = @ + 1]
           f == CancelConnectionRequests(e)
       IN Drive([f EXCEPT !.session.cancelled = @ \/ f.session.st # "none"])

ReportError(c) == Cancel(c)

Finish(c) == CancelConnectionRequests(StopPreparation([c EXCEPT !.active = FALSE]))

(* machineStatusReceived, with syncStatus *)
StatusReceived(c, s) ==
  IF ~c.active \/ c.connectionRequested THEN c
  ELSE IF s = "invalid" THEN ReportError(c)
  ELSE LET d == [c EXCEPT !.status = s] IN IF s = "ending" THEN ReportError(d) ELSE Drive(d)

(* The host is ready for the stream, not yet, or never will be. *)
Outcomes == {"launch", "wait", "fail"}
TryDesktop(c, outcome) ==
  IF ~c.active \/ ~c.waitingForApps \/ c.session.st # "none" \/ outcome = "wait" THEN c
  ELSE IF outcome = "fail" THEN ReportError(c)
  ELSE [StopPreparation(c) EXCEPT !.waitingForApps = FALSE,
          !.session = [st |-> "open", attempt |-> c.attempt, host |-> c.computer, cancelled |-> FALSE]]

(* accountChanging, and the number of the account.  The replies to         *)
(* requests of another account are ignored, but for uploads and for the    *)
(* cleanup that waits for a POST; the connection is cancelled apart.       *)
AccountChanges(c) ==
  [Cancel(c) EXCEPT !.account = @ + 1, !.requests = {r \in @ : r.kind \in {"post", "connection", "upload"}}]

Logout(c) ==
  LET d == CancelConnectionRequests([AccountChanges(c) EXCEPT !.refreshing = FALSE])
  IN [SetBusy(d, FALSE) EXCEPT !.user = Nobody, !.loggedIn = FALSE]

RefreshTokens(c) == IF c.user = Nobody THEN c ELSE [c EXCEPT !.refreshing = TRUE]

-----------------------------------------------------------------------------
\* Events.

(* Requests that are sent only while m_Busy is down should never be in     *)
(* flight together, nor while it is down.                                  *)
Exclusive(c) == {r \in c.requests : r.kind \in {"status", "post", "connection", "login"} /\ r.account = c.account}
Overlaps(c)  ==
  /\ c.active /\ c.joinRequested /\ ~c.connectionRequested
  /\ \E r \in Exclusive(c) : ~c.busy \/ Exclusive(c) # {r}

Becomes(c) ==
  /\ client' = c
  /\ overlapped' = IF Overlaps(c) THEN overlapped \cup {c.attempt} ELSE overlapped
Surprise   == surprises < MaxSurprises /\ surprises' = surprises + 1
Expected   == UNCHANGED surprises
Untouched  == UNCHANGED <<server, starts, unsure>>

Busy(c) == c.active \/ c.session.st # "none" \/ c.cancelQueued

StartDesktopSession ==
  /\ starts < MaxStarts /\ starts' = starts + 1
  /\ IsFree(client) /\ ~Busy(client)
  /\ LET c == CancelConnectionRequests(client) IN
       Becomes(RefreshStatus([c EXCEPT !.attempt = @ + 1, !.active = TRUE, !.joinRequested = FALSE,
                 !.status = "none", !.connectionRequested = FALSE, !.waitingForApps = FALSE,
                 !.computer = 0, !.poll = TRUE]))
  /\ Expected /\ UNCHANGED <<server, unsure>>

UserCancels == client.active /\ Becomes(Cancel(client)) /\ Expected /\ Untouched

RunDrive == client.drive /\ Becomes(Drive([client EXCEPT !.drive = FALSE])) /\ Expected /\ Untouched

Poll ==
  /\ client.poll
  /\ Becomes(Drive(IF client.active /\ ~client.connectionRequested THEN RefreshStatus(client) ELSE client))
  /\ Expected /\ Untouched

DeadlinePasses ==
  /\ client.deadline /\ Becomes(ReportError([client EXCEPT !.deadline = FALSE]))
  /\ Expected /\ Untouched

Awaits(kind) == {r \in client.requests : r.kind = kind}

(* The server reads the machine some time before the reply arrives. *)
ServeStatus ==
  \E r \in Awaits("status") :
    /\ r.answer = "none" /\ Becomes(Answered(client, r, machine[r.user]))
    /\ Expected /\ Untouched

StatusReply ==
  \E r \in Awaits("status") :
    /\ LET c == Freed(client, r) IN
         \/ r.answer # "none" /\ Becomes(StatusReceived(c, r.answer)) /\ Expected
         \/ Becomes(StatusReceived(c, "invalid")) /\ Surprise
         \/ Becomes(ReportError(c)) /\ Surprise                    \* machineRequestFailed
         \/ Becomes(RefreshTokens(c)) /\ Surprise                  \* 401
    /\ Untouched

(* Any request that the orchestrator has no part in.  An upload needs no   *)
(* account and outlives it; most others are sent only while m_Busy is      *)
(* down, but the start of an emulator or the deletion of a machine is not. *)
File(c)      == [Request(c, "upload") EXCEPT !.user = Nobody, !.account = 0]
OtherRequest == client.loggedIn /\ Becomes(Send(client, Request(client, "other"))) /\ Surprise /\ Untouched
Upload       == Becomes(Send(client, File(client))) /\ Surprise /\ Untouched
OtherReply   == \E r \in Awaits("other")  : Becomes(Freed(client, r)) /\ Expected /\ Untouched
UploadReply  == \E r \in Awaits("upload") : Becomes(Freed(client, r)) /\ Expected /\ Untouched

(* The reply to a POST: its handler, unless the account has changed, and   *)
(* then the cleanup that waits for it.                                     *)
PostIsKnown(c, r) == r.account = c.account
CleanupGoes(c, r) == [c EXCEPT !.cleanup.st = IF @ = "waiting" /\ IsLatestJoin(c, r) THEN "sent" ELSE @]

PostReply ==
  \E r \in Awaits("post") :
    /\ r.answer # "none"
    /\ Becomes(CleanupGoes(IF PostIsKnown(client, r) THEN StatusReceived(Freed(client, r), r.answer)
                           ELSE Replied(client, r), r))
    /\ Expected /\ Untouched

PostFails ==
  \E r \in Awaits("post") :
    /\ Becomes(CleanupGoes(IF PostIsKnown(client, r) THEN ReportError(Freed(client, r)) ELSE Replied(client, r), r))
    /\ unsure' = unsure \cup {r.attempt}
    /\ late' = late \cup (IF r.answer = "none" THEN {[kind |-> "post", attempt |-> r.attempt, user |-> r.user]} ELSE {})
    /\ Surprise /\ UNCHANGED <<machine, owner, starts>>

ConnectionReply ==
  \E r \in Awaits("connection") :
    /\ LET c == Freed(client, r) IN
         \/ /\ Becomes(IF c.active /\ c.connectionRequested                           \* prepareHost
                       THEN [c EXCEPT !.tasks = @ \cup {[kind |-> "add", attempt |-> c.attempt]}] ELSE c)
            /\ Expected
         \/ Becomes(ReportError(c)) /\ Surprise
    /\ Untouched

(* The result of a worker, which may have been on its way when the attempt *)
(* was cancelled.  m_Cancellation is set for all but the current attempt.  *)
IsWanted(t)  == client.active
IsCurrent(t) == client.active /\ t.attempt = client.attempt

HostPrepared ==
  \E t \in client.tasks :
    /\ t.kind = "add"
    /\ LET c == [client EXCEPT !.tasks = @ \ {t}]
           d == [c EXCEPT !.computer = t.attempt] IN
         IF ~IsCurrent(t) THEN Becomes(c) /\ Expected
         ELSE \/ Becomes(ReportError(c)) /\ Surprise
              \/ /\ \E o \in Outcomes : Becomes(TryDesktop([d EXCEPT !.waitingForApps = TRUE], o))
                 /\ Expected
              \/ /\ Becomes([d EXCEPT !.tasks = @ \cup {[kind |-> "pair", attempt |-> d.attempt]},
                                      !.pin = d.attempt])
                 /\ Expected
    /\ Untouched

PairingCompleted ==
  \E t \in client.tasks :
    /\ t.kind = "pair"
    /\ LET c == [client EXCEPT !.tasks = @ \ {t}] IN
         IF ~IsCurrent(t) THEN Becomes(c) /\ Expected
         ELSE \/ Becomes(ReportError(c)) /\ Surprise
              \/ /\ \E o \in Outcomes : Becomes(TryDesktop([c EXCEPT !.waitingForApps = TRUE], o))
                 /\ Expected
    /\ Untouched

(* A worker whose attempt was cancelled says nothing; nor does the pairing *)
(* when its host was removed meanwhile.                                    *)
TaskIsSilent ==
  \E t \in client.tasks :
    /\ Becomes([client EXCEPT !.tasks = @ \ {t}])
    /\ (~IsCurrent(t) /\ Expected) \/ (t.kind = "pair" /\ Surprise)
    /\ Untouched

ComputerStateChanged ==
  /\ client.active /\ client.waitingForApps
  /\ \E o \in Outcomes : Becomes(TryDesktop(client, o))
  /\ Expected /\ Untouched

PinReply ==
  /\ client.pin # 0
  /\ LET c == [client EXCEPT !.pin = 0] IN
       (Becomes(c) /\ Expected) \/ (Becomes(ReportError(c)) /\ Surprise)
  /\ Untouched

(* A stream fails on the way, or ends; its clean-up is notified afterwards. *)
SessionFails ==
  client.session.st = "open" /\ client.active /\ Becomes(ReportError(client)) /\ Surprise /\ Untouched
SessionFinished ==
  /\ client.session.st = "open" /\ Becomes(Finish([client EXCEPT !.session.st = "finished"]))
  /\ Expected /\ Untouched
SessionDeleted ==
  /\ client.session.st = "finished" /\ Becomes([client EXCEPT !.session = NoSession])
  /\ Expected /\ Untouched

-----------------------------------------------------------------------------
\* Accounts.

UserLogsOut ==
  client.loggedIn /\ client.account < MaxAccounts /\ Becomes(Logout(client)) /\ Expected /\ Untouched

Login ==
  /\ ~client.busy
  /\ \E u \in Users : Becomes(Send(client, [Request(client, "login") EXCEPT !.user = u]))
  /\ (IF client.loggedIn THEN Surprise ELSE Expected) /\ Untouched

LoginReply ==
  \E r \in Awaits("login") :
    /\ LET c == Freed(client, r)
           a == [AccountChanges(c) EXCEPT !.refreshing = FALSE, !.user = r.user, !.loggedIn = TRUE]
       IN \/ Becomes(RefreshStatus(IF c.loggedIn THEN CancelConnectionRequests(a) ELSE a)) /\ Expected
          \/ Becomes(c) /\ Surprise
    /\ Untouched

RefreshDue ==
  /\ ~client.refreshing /\ client.user # Nobody
  /\ Becomes(RefreshTokens(client))
  /\ (IF client.loggedIn THEN Surprise ELSE Expected) /\ Untouched

RefreshReply ==
  /\ client.refreshing
  /\ LET c == [client EXCEPT !.refreshing = FALSE]
         a == IF c.loggedIn THEN c ELSE AccountChanges(c)
     IN \/ Becomes(RefreshStatus([a EXCEPT !.loggedIn = TRUE])) /\ Expected
        \/ Becomes(Logout(c)) /\ Surprise
        \/ Becomes(c) /\ Surprise                                \* tried again by the timer
  /\ Untouched

-----------------------------------------------------------------------------
\* The cleanup of a cancelled attempt, and the server.

Enters(attempt, u) ==
  IF machine[u] = "idle"
  THEN machine' = [machine EXCEPT ![u] = "queued"] /\ owner' = [owner EXCEPT ![u] = attempt]
  ELSE UNCHANGED <<machine, owner>>
Leaves(u) ==
  IF machine[u] = "queued"
  THEN machine' = [machine EXCEPT ![u] = "idle"] /\ owner' = [owner EXCEPT ![u] = NoEntry]
  ELSE UNCHANGED <<machine, owner>>

ServePost ==
  \E r \in Awaits("post") :
    /\ r.answer = "none"
    /\ Enters(r.attempt, r.user)
    /\ Becomes(Answered(client, r, machine'[r.user]))
    /\ Expected /\ UNCHANGED <<late, starts, unsure>>

LatestUser(c) == IF c.user = Nobody THEN c.cleanup.user ELSE c.user
TokenOf(c)    == c.cleanup.user

ServeDelete ==
  /\ client.cleanup.st = "sent"
  /\ Leaves(TokenOf(client))
  /\ Becomes([client EXCEPT !.cleanup.st = "served"])
  /\ Expected /\ UNCHANGED <<late, starts, unsure>>

CleanupEnds(c) == [c EXCEPT !.cleanup = NoCleanup, !.cancelQueued = FALSE]

DeleteReply ==
  /\ client.cleanup.st = "served"
  /\ LET known == client.loggedIn /\ client.cleanup.account = client.account
     IN Becomes(CleanupEnds(IF known THEN StatusReceived(client, machine[client.cleanup.user]) ELSE client))
  /\ Expected /\ Untouched

DeleteFails ==
  /\ client.cleanup.st \in {"sent", "served"}
  /\ Becomes(CleanupEnds(client))
  /\ unsure' = unsure \cup {client.cleanup.attempt}
  /\ late' = late \cup (IF client.cleanup.st = "sent"
                        THEN {[kind |-> "delete", attempt |-> client.cleanup.attempt, user |-> client.cleanup.user]} ELSE {})
  /\ Surprise /\ UNCHANGED <<machine, owner, starts>>

ServeLate ==
  \E r \in late :
    /\ late' = late \ {r}
    /\ IF r.kind = "post" THEN Enters(r.attempt, r.user) ELSE Leaves(r.user)
    /\ UNCHANGED <<client, budgets, unsure, overlapped>>

Moves(u, from, to) ==
  /\ machine[u] = from /\ machine' = [machine EXCEPT ![u] = to]
  /\ owner' = [owner EXCEPT ![u] = NoEntry]
  /\ UNCHANGED <<client, late, starts, unsure, overlapped>>

Boots(u)  == (Moves(u, "queued", "starting") \/ Moves(u, "starting", "ready")) /\ Expected
Fails(u)  == (Moves(u, "queued", "idle") \/ Moves(u, "starting", "idle") \/ Moves(u, "ready", "ending")) /\ Surprise
Ends(u)   == Moves(u, "ending", "idle") /\ Expected

(* What a machine does while no attempt of its account is in progress, and *)
(* none is in its queue, shows only in how the next one finds it.          *)
Observed(u) == (client.active /\ u = client.user) \/ owner[u] \in Attempts
Machine     == \E u \in Users : Observed(u) /\ (Boots(u) \/ Fails(u) \/ Ends(u))

-----------------------------------------------------------------------------
Attempt == StartDesktopSession \/ UserCancels \/ RunDrive \/ Poll \/ DeadlinePasses
Replies == StatusReply \/ PostReply \/ PostFails \/ ConnectionReply \/ PinReply \/ OtherReply \/ UploadReply
Host    == HostPrepared \/ PairingCompleted \/ TaskIsSilent \/ ComputerStateChanged
Stream  == SessionFails \/ SessionFinished \/ SessionDeleted
Account == UserLogsOut \/ Login \/ LoginReply \/ RefreshDue \/ RefreshReply
Cleanup == DeleteReply \/ DeleteFails
Server  == ServeStatus \/ ServePost \/ ServeDelete \/ ServeLate \/ Machine

Next == Attempt \/ Replies \/ OtherRequest \/ Upload \/ Host \/ Stream \/ Account \/ Cleanup \/ Server

Spec == Init /\ [][Next]_vars

(* Timers fire, requests are answered or time out, and a stream that was   *)
(* cancelled ends.  Nothing is assumed of the user, of the machine, of     *)
(* workers, of streams, or of uploads: they have no time limit.            *)
FairSpec ==
  /\ Spec
  /\ WF_vars(Poll) /\ WF_vars(DeadlinePasses)
  /\ WF_vars(ServeStatus \/ StatusReply) /\ WF_vars(OtherReply \/ LoginReply \/ ConnectionReply)
  /\ WF_vars(ServePost \/ PostReply) /\ WF_vars(ServeDelete \/ DeleteReply)
  /\ WF_vars((client.session.cancelled /\ SessionFinished) \/ SessionDeleted)
-----------------------------------------------------------------------------
\* Properties.

MachineStates == {"idle", "queued", "starting", "ready", "ending"}

TypeOK ==
  /\ \A f \in {"active", "joinRequested", "connectionRequested", "cancelQueued", "waitingForApps", "poll",
               "deadline", "drive", "loggedIn", "refreshing", "busy"} : client[f] \in BOOLEAN
  /\ client.attempt \in 0 .. 2 * MaxStarts /\ client.account \in Nat
  /\ client.status \in MachineStates \cup {"none"} /\ client.join \in 0 .. 2 * MaxStarts
  /\ \A r \in client.requests :
       /\ r.kind \in {"status", "post", "connection", "login", "other", "upload"}
       /\ r.answer \in MachineStates \cup {"none"} /\ r.attempt \in 0 .. 2 * MaxStarts
  /\ client.user \in Users \cup {Nobody} /\ client.loggedIn => client.user # Nobody
  /\ client.computer \in 0 .. 2 * MaxStarts /\ client.pin \in 0 .. 2 * MaxStarts
  /\ client.tasks \subseteq [kind : {"add", "pair"}, attempt : Attempts]
  /\ client.cleanup.st \in {"done", "waiting", "sent", "served"}
  /\ client.session.st \in {"none", "open", "finished"}
  /\ machine \in [Users -> MachineStates] /\ owner \in [Users -> Attempts \cup {NoEntry, Site}]
  /\ starts \in 0 .. MaxStarts /\ surprises \in 0 .. MaxSurprises

(* No attempt leaves a place in the queue behind: an entry that an attempt *)
(* made is there only while the attempt is active or its cleanup is not    *)
(* over, whichever account is logged in by then, unless one of its         *)
(* requests was not answered or m_Busy did not keep its requests apart.    *)
NoEntryIsLeft ==
  \A u \in Users : owner[u] \in Attempts =>
    \/ client.active /\ client.attempt = owner[u]
    \/ client.cancelQueued /\ client.cleanup.attempt = owner[u]
    \/ owner[u] \in unsure \cup overlapped

(* A cleanup that is waited for takes nothing but the entry its attempt    *)
(* made, or one that was left in one of these two ways: not the one of a   *)
(* later attempt, of the account that logged in meanwhile, or of the site. *)
CleanupTakesItsOwn ==
  [][ServeDelete => \A u \in Users :
       owner'[u] = owner[u] \/ owner[u] \in unsure \cup overlapped \cup {client.cleanup.attempt}]_vars

(* What belongs to an attempt ends with it: the stream, which runs on the  *)
(* host that this attempt prepared, the deliveries of its PIN, the         *)
(* request for its connection and both timers; and a stream outlives the   *)
(* timers of the preparation.                                              *)
NothingOutlivesItsAttempt ==
  LET c == client s == c.session IN
  /\ s.st = "open" /\ ~s.cancelled => c.active /\ s.attempt = c.attempt
  /\ s.st # "none" => s.host = s.attempt /\ ~c.poll /\ ~c.deadline
  /\ c.pin # 0 \/ ConnectionBusy(c) => c.active /\ c.connectionRequested /\ c.pin \in {0, c.attempt}
  /\ c.poll \/ c.deadline => c.active
  /\ c.deadline => c.connectionRequested

(* An attempt that asked for its connection gets to a stream or ends; a    *)
(* machine that stays ready is connected to, unless an upload goes on; the *)
(* cleanup of a cancelled attempt and a cancelled stream end, so that the  *)
(* next attempt can start.                                                 *)
Unsettled ==
  \/ client.active /\ client.connectionRequested /\ client.session.st = "none"
  \/ client.active /\ ~client.connectionRequested /\ machine[client.user] = "ready" /\ Awaits("upload") = {}
  \/ client.cancelQueued \/ client.session.cancelled
StartupsEnd == []<>~Unsettled

(* A POST whose answer is lost can have been served: "Even a lost/error     *)
(* response can follow a committed queue insertion".  The code does not    *)
(* undo it when the loss itself ends the attempt.                          *)
LostJoinIsUndone ==
  \A u \in Users : owner[u] \in Attempts /\ late = {} =>
    client.active \/ client.cancelQueued \/ Awaits("post") # {} \/ owner[u] \in overlapped

(* An entry whose requests were all answered is not left, whatever m_Busy  *)
(* says: "Logout clears the UI's busy flag, not the server-side POST.      *)
(* Wait for that specific reply".  The code does not satisfy this: when    *)
(* the reply to an upload has cleared the flag, cancel sees no request.    *)
NoJoinIsForgotten ==
  \A u \in Users : owner[u] \in Attempts =>
    \/ client.active /\ client.attempt = owner[u]
    \/ client.cancelQueued /\ client.cleanup.attempt = owner[u]
    \/ owner[u] \in unsure

(* The launcher is busy only while a request is on its way.  The code does *)
(* not satisfy this: the reply to a login of an account that has changed   *)
(* since is ignored, and nothing else clears the flag.                     *)
BusyEnds == client.busy => client.requests # {}

(* A stream is cancelled by the user, by its own failure or by a change of *)
(* the account only.  The code does not satisfy this: a status request     *)
(* after a refresh of the tokens, or a PIN, that fails cancels it too.     *)
StreamsGoOn ==
  [][client.session.st = "open" /\ client'.session.cancelled /\ ~client.session.cancelled
       => UserCancels \/ SessionFails \/ client'.account # client.account]_vars
===============================================================================
