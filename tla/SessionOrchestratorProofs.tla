---------------------- MODULE SessionOrchestratorProofs ----------------------
(***************************************************************************)
(* Proofs about SessionOrchestrator, for any number of attempts, idle      *)
(* polls and surprises.  The inductive invariant IInv says, per attempt,   *)
(* who may still be alive (Lives), what it must have noted before it asks  *)
(* for a place in the queue (Joins), whose place the entry is and who is   *)
(* bound to remove it (Entries), and that an attempt which got past the    *)
(* wait for the previous cleanup has no cleanup beside it (Cleanups).      *)
(***************************************************************************)
EXTENDS SessionOrchestrator, TLAPS

(* The values of the variables. *)
Places   == {"none", "await", "poll", "got", "post", "answered", "prepare", "done"}
Replies  == {"none", "idle", "queued", "starting", "ready"}
Attempt0 == Attempts \cup {None}
Flags    == [Attempts -> BOOLEAN]
Shape ==
  /\ active \in Attempt0 /\ previousCleanup \in Attempt0
  /\ stage \in [Attempts -> Stages] /\ friend \in Flags
  /\ at \in [Attempts -> Places] /\ waitsFor \in [Attempts -> Attempt0]
  /\ reply \in [Attempts -> Replies]
  /\ queueMayExist \in Flags /\ joined \in Flags /\ joinUncertain \in Flags /\ streaming \in Flags
  /\ idlePollsAfterJoin \in [Attempts -> 0 .. IdlePollLimit]
  /\ handoff \in [Attempts -> {"none", "posted", "launched"}]
  /\ checks \in [Attempts -> 0 .. 4]
  /\ post \in [Attempts -> {"none", "sent", "served"}]
  /\ late \subseteq Attempts /\ leaks \subseteq Attempts
  /\ entry \in Attempts \cup {None, Other} /\ vm \in {"idle", "allocating", "starting", "ready"}

(* Only the active attempt is not over, and only at the end does it stream. *)
Lives(a) ==
  /\ active = a => stage[a] \notin {"NEW", "CANCELLED"}
  /\ stage[a] # "NEW" /\ ~Over(a) => active = a
  /\ stage[a] = "NEW" => at[a] = "none" /\ ~joined[a]
  /\ stage[a] \in {"WAITING_FOR_FRAME", "STREAMING"} => at[a] = "done"
  /\ streaming[a] => stage[a] \in {"WAITING_FOR_FRAME", "STREAMING"}

(* An attempt for a machine of its own joins, and only an empty queue; what it   *)
(* may have left there it noted before.                                          *)
Joins(a) ==
  /\ joined[a] => ~friend[a] /\ entry # Other /\ at[a] \notin {"none", "await"}
  /\ friend[a] => at[a] \in {"none", "await", "prepare", "done"}
  /\ reply[a] = "idle" => entry # Other
  /\ queueMayExist[a] => joined[a] /\ ~Over(a)
  /\ checks[a] > 0 => joined[a]

(* An entry in the queue is of a POST that was served; when its attempt is over  *)
(* there is a cleanup that will remove it, or one that failed to.                *)
Entries(a) ==
  /\ post[a] # "none" => joined[a]
  /\ post[a] = "sent" => joinUncertain[a] /\ at[a] \in {"post", "done"}
  /\ post[a] = "sent" /\ ~Over(a) => at[a] = "post" /\ queueMayExist[a]
  /\ entry = a => post[a] = "served" /\ vm = "idle"
  /\ entry = a /\ ~Over(a) => queueMayExist[a]
  /\ entry = a /\ at[a] \in {"got", "post", "answered"} => reply[a] \notin {"starting", "ready"}
  /\ Over(a) /\ (entry = a \/ post[a] = "sent") => checks[a] > 0 \/ a \in leaks

(* There is one cleanup at a time, the last one; a new attempt waits for it.     *)
Cleanups(a) ==
  /\ checks[a] > 0 => previousCleanup = a
  /\ IsActive(a) => waitsFor[a] = previousCleanup
  /\ IsActive(a) /\ at[a] # "await" => \A b \in Attempts : checks[b] = 0
IInv == Shape /\ \A a \in Attempts : Lives(a) /\ Joins(a) /\ Entries(a) /\ Cleanups(a)

-------------------------------------------------------------------------------
(* The names of nobody are no attempts. *)
LEMMA Distinct == None \notin Attempts /\ Other \notin Attempts /\ None # Other
BY AttemptsAssumption DEF None, Other, Attempts

(* What the server answers. *)
LEMMA StatusType == Status \in Replies
BY DEF Status, Replies

(* A cleanup sends one to four DELETEs. *)
LEMMA ChecksType == Shape => \A a \in Attempts : Checks(a) \in 1 .. 4
BY DEF Checks, Shape, Flags

(* scheduleQueueCleanup keeps the types, ... *)
LEMMA EndsShape ==
  ASSUME Shape, NEW a \in Attempts, NEW s \in Stages, Ends(a, s)
  PROVE  /\ stage' \in [Attempts -> Stages] /\ queueMayExist' \in Flags
         /\ checks' \in [Attempts -> 0 .. 4] /\ previousCleanup' \in Attempt0
<1>1. Checks(a) \in 0 .. 4
  BY ChecksType
<1>2. stage' \in [Attempts -> Stages]
  BY DEF Ends, Shape
<1>3. queueMayExist' \in Flags
  BY DEF Ends, Shape, Flags
<1>4. checks' \in [Attempts -> 0 .. 4]
  <2>1. [checks EXCEPT ![a] = Checks(a)] \in [Attempts -> 0 .. 4]
    BY <1>1 DEF Shape
  <2> QED
    BY <2>1 DEF Ends, Shape
<1>5. previousCleanup' \in Attempt0
  BY DEF Ends, Shape, Attempt0
<1> QED
  BY <1>2, <1>3, <1>4, <1>5

(* ... and this is what it does to each attempt b. *)
LEMMA EndsValues ==
  ASSUME Shape, NEW a \in Attempts, NEW s \in Stages, Ends(a, s), NEW b \in Attempts
  PROVE  /\ stage'[b] = IF b = a THEN s ELSE stage[b]
         /\ queueMayExist'[b] <=> queueMayExist[b] /\ (b = a => friend[b])
         /\ checks'[b] = IF b = a /\ queueMayExist[b] /\ ~friend[b] THEN Checks(b) ELSE checks[b]
         /\ previousCleanup' = IF queueMayExist[a] /\ ~friend[a] THEN a ELSE previousCleanup
<1>1. stage'[b] = IF b = a THEN s ELSE stage[b]
  BY DEF Ends, Shape
<1>2. queueMayExist'[b] <=> queueMayExist[b] /\ (b = a => friend[b])
  BY DEF Ends, Shape, Flags
<1>3. checks'[b] = IF b = a /\ queueMayExist[b] /\ ~friend[b] THEN Checks(b) ELSE checks[b]
  BY DEF Ends, Shape, Flags
<1>4. previousCleanup' = IF queueMayExist[a] /\ ~friend[a] THEN a ELSE previousCleanup
  BY DEF Ends
<1> QED
  BY <1>1, <1>2, <1>3, <1>4

(* fail keeps the types. *)
LEMMA FailsShape ==
  ASSUME Shape, NEW a \in Attempts, Fails(a)
  PROVE  /\ stage' \in [Attempts -> Stages] /\ queueMayExist' \in Flags
         /\ checks' \in [Attempts -> 0 .. 4] /\ previousCleanup' \in Attempt0
         /\ at' \in [Attempts -> Places] /\ UNCHANGED <<active, handoff, streaming>>
<1>1. at' \in [Attempts -> Places] /\ UNCHANGED <<active, handoff, streaming>>
  BY DEF Fails, Shape, Places
<1>2. CASE IsActive(a)
  <2>1. Ends(a, "FAILED") /\ "FAILED" \in Stages
    BY <1>2 DEF Fails, Stages
  <2> QED
    BY <1>1, <2>1, EndsShape
<1>3. CASE ~IsActive(a)
  BY <1>1, <1>3 DEF Fails, Shape
<1> QED
  BY <1>2, <1>3

(* Every step keeps the types, ... *)
LEMMA ShapeNext ==
  ASSUME Shape, [Next]_vars
  PROVE  Shape'
<1>1. ASSUME NEW a \in Attempts, Start(a) PROVE Shape'
  <2>1. stage' \in [Attempts -> Stages]
    BY <1>1 DEF Start, Shape, Stages
  <2>2. queueMayExist' \in Flags /\ streaming' \in Flags
    BY <1>1 DEF Start, Shape, Flags
  <2>3. checks' \in [Attempts -> 0 .. 4]
    <3>1. \A b \in Attempts : [checks EXCEPT ![b] = Checks(b)] \in [Attempts -> 0 .. 4]
      BY ChecksType DEF Shape
    <3> QED
      BY <1>1, <3>1 DEF Start, Shape, Attempt0
  <2>4. previousCleanup' \in Attempt0
    BY <1>1 DEF Start, Shape, Attempt0
  <2>5. waitsFor' \in [Attempts -> Attempt0]
    BY <1>1, <2>4 DEF Start, Shape
  <2>6. handoff' \in [Attempts -> {"none", "posted", "launched"}]
    BY <1>1 DEF Start, Shape
  <2>7. active' \in Attempt0 /\ at' \in [Attempts -> Places]
    BY <1>1 DEF Start, Shape, Places, Attempt0
  <2> QED
    BY <1>1, <2>1, <2>2, <2>3, <2>4, <2>5, <2>6, <2>7 DEF Start, Shape, serverVars
<1>2. ASSUME NEW a \in Attempts, Cancel(a) PROVE Shape'
  BY <1>2, EndsShape
  DEF Shape, Attempt0, Flags, Stages, Cancel, Cancelled, workerVars, serverVars
<1>3. ASSUME NEW a \in Attempts, OnPrepared(a) PROVE Shape'
  BY <1>3 DEF Shape, OnPrepared, IsActive, workerVars, joinVars, serverVars
<1>4. ASSUME NEW a \in Attempts, AttachStream(a) PROVE Shape'
  BY <1>4 DEF Shape, Flags, AttachStream, MayAttach, IsActive, workerVars, joinVars, serverVars
<1>5. ASSUME NEW a \in Attempts, OnFirstFrameRendered(a) PROVE Shape'
  BY <1>5
  DEF Shape, Stages, OnFirstFrameRendered, IsActive, workerVars, joinVars, streamVars,
      serverVars
<1>6. ASSUME NEW a \in Attempts, AwaitCleanup(a) PROVE Shape'
  BY <1>6
  DEF Shape, Places, Stages, AwaitCleanup, CleanupComplete, IsActive, Goes, Quiet,
      joinVars, streamVars, serverVars
<1>7. ASSUME NEW a \in Attempts, GetStatus(a) PROVE Shape'
  BY <1>7, StatusType
  DEF Shape, Places, Replies, GetStatus, IsActive, Goes, Quiet, joinVars, streamVars,
      serverVars
<1>8. ASSUME NEW a \in Attempts, JoinQueue(a) PROVE Shape'
  BY <1>8 DEF Shape, Places, Flags, JoinQueue, IsActive, Goes, Quiet, streamVars
<1>9. ASSUME NEW a \in Attempts, Joined(a) PROVE Shape'
  BY <1>9 DEF Shape, Places, Flags, Joined, IsActive, Goes, Quiet, streamVars, serverVars
<1>10. ASSUME NEW a \in Attempts, AcceptStatus(a) PROVE Shape'
  <2>1. CASE Accepts(a) /\ Quiet
    <3>1. stage' \in [Attempts -> Stages] /\ at' \in [Attempts -> Places]
      BY <2>1 DEF Accepts, Goes, Shape, Stages, Places
    <3>2. queueMayExist' \in Flags
      BY <2>1 DEF Accepts, Shape, Flags
    <3>3. idlePollsAfterJoin' \in [Attempts -> 0 .. IdlePollLimit]
      BY <2>1, AttemptsAssumption DEF Accepts, CountIdlePoll, Shape
    <3> QED
      BY <1>10, <2>1, <3>1, <3>2, <3>3 DEF AcceptStatus, Quiet, Shape, streamVars, serverVars
  <2>2. CASE Fails(a) /\ UNCHANGED idlePollsAfterJoin
    BY <1>10, <2>2, FailsShape DEF AcceptStatus, Shape, serverVars
  <2> QED
    BY <1>10, <2>1, <2>2 DEF AcceptStatus
<1>11. ASSUME NEW a \in Attempts, Prepare(a) PROVE Shape'
  BY <1>11 DEF Shape, Places, Stages, Prepare, IsActive, Goes, joinVars, serverVars
<1>12. ASSUME NEW a \in Attempts, JoinFails(a) PROVE Shape'
  BY <1>12, FailsShape DEF Shape, JoinFails, serverVars
<1>13. ASSUME NEW a \in Attempts, Interrupted(a) PROVE Shape'
  BY <1>13
  DEF Shape, Places, Interrupted, IsActive, Goes, Quiet, joinVars, streamVars, serverVars
<1>14. ASSUME NEW a \in Attempts, RequestFails(a) PROVE Shape'
  BY <1>14, FailsShape DEF Shape, RequestFails, Surprise, serverVars
<1>15. ASSUME NEW a \in Attempts, Delete(a) PROVE Shape'
  BY <1>15 DEF Shape, Delete, Due, Checks, Removes, Same, workerVars, joinVars, streamVars
<1>16. ASSUME NEW a \in Attempts, DeleteFails(a) PROVE Shape'
  BY <1>16 DEF Shape, DeleteFails, Due, Checks, Same, workerVars, joinVars, streamVars
<1>17. ASSUME NEW a \in Attempts, ServePost(a) PROVE Shape'
  BY <1>17, StatusType DEF Shape, Replies, ServePost, joinVars, streamVars
<1>18. ASSUME NEW a \in Attempts, LosePost(a) PROVE Shape'
  BY <1>18 DEF Shape, LosePost, Same, workerVars, joinVars, streamVars
<1>19. ASSUME NEW a \in Attempts, ServeLateDelete(a) PROVE Shape'
  BY <1>19 DEF Shape, ServeLateDelete, Removes, Same, workerVars, joinVars, streamVars
<1>20. ASSUME Allocate PROVE Shape'
  BY <1>20 DEF Shape, Allocate, Same, workerVars, joinVars, streamVars
<1>21. ASSUME Vanish PROVE Shape'
  BY <1>21 DEF Shape, Vanish, Same, workerVars, joinVars, streamVars
<1>22. CASE UNCHANGED vars
  BY <1>22
  DEF Shape, Places, Replies, Attempt0, Flags, Stages, vars, workerVars, joinVars,
      streamVars, serverVars
<1> QED
  BY <1>1, <1>2, <1>3, <1>4, <1>5, <1>6, <1>7, <1>8, <1>9, <1>10, <1>11, <1>12, <1>13,
     <1>14, <1>15, <1>16, <1>17, <1>18, <1>19, <1>20, <1>21, <1>22
  DEF Next, UserInterface, Worker

(* ... leaves the active attempt the only one alive, ... *)
LEMMA LivesNext ==
  ASSUME Shape, Shape', \A b \in Attempts : Lives(b), [Next]_vars
  PROVE  \A b \in Attempts : Lives(b)'
<1> SUFFICES ASSUME NEW b \in Attempts PROVE Lives(b)'
  OBVIOUS
<1>1. ASSUME NEW a \in Attempts, Start(a) PROVE Lives(b)'
  <2>1. Lives(b) /\ Lives(a)
    BY <1>1
  <2>2. CASE b = a
    BY <1>1, <2>1, <2>2, Distinct
    DEF Lives, Over, IsActive, Shape, Attempt0, Flags, Start, Checks
  <2>3. CASE b # a
    BY <1>1, <2>1, <2>3, Distinct
    DEF Lives, Over, IsActive, Shape, Attempt0, Flags, Start, Checks
  <2> QED
    BY <2>2, <2>3
<1>2. ASSUME NEW a \in Attempts, Cancel(a) PROVE Lives(b)'
  <2>1. Lives(b) /\ Lives(a)
    BY <1>2
  <2>2. CASE b = a
    BY <1>2, <2>1, <2>2, Distinct
    DEF Lives, Over, IsActive, Shape, Attempt0, Flags, Cancel, Cancelled, Ends, Checks,
        workerVars
  <2>3. CASE b # a
    BY <1>2, <2>1, <2>3, Distinct
    DEF Lives, Over, IsActive, Shape, Attempt0, Flags, Cancel, Cancelled, Ends, Checks,
        workerVars
  <2> QED
    BY <2>2, <2>3
<1>3. ASSUME NEW a \in Attempts, OnPrepared(a) PROVE Lives(b)'
  BY <1>3, Distinct
  DEF Lives, Over, IsActive, Shape, Attempt0, Flags, OnPrepared, IsActive, workerVars,
      joinVars
<1>4. ASSUME NEW a \in Attempts, AttachStream(a) PROVE Lives(b)'
  BY <1>4, Distinct
  DEF Lives, Over, IsActive, Shape, Attempt0, Flags, AttachStream, MayAttach, IsActive,
      workerVars, joinVars
<1>5. ASSUME NEW a \in Attempts, OnFirstFrameRendered(a) PROVE Lives(b)'
  BY <1>5, Distinct
  DEF Lives, Over, IsActive, Shape, Attempt0, Flags, OnFirstFrameRendered, IsActive,
      workerVars, joinVars, streamVars
<1>6. ASSUME NEW a \in Attempts, AwaitCleanup(a) PROVE Lives(b)'
  BY <1>6, Distinct
  DEF Lives, Over, IsActive, Shape, Attempt0, Flags, AwaitCleanup, CleanupComplete,
      IsActive, Goes, Quiet, joinVars, streamVars
<1>7. ASSUME NEW a \in Attempts, GetStatus(a) PROVE Lives(b)'
  BY <1>7, Distinct
  DEF Lives, Over, IsActive, Shape, Attempt0, Flags, GetStatus, Status, IsActive, Goes,
      Quiet, joinVars, streamVars
<1>8. ASSUME NEW a \in Attempts, JoinQueue(a) PROVE Lives(b)'
  BY <1>8, Distinct
  DEF Lives, Over, IsActive, Shape, Attempt0, Flags, JoinQueue, IsActive, Goes, Quiet,
      streamVars
<1>9. ASSUME NEW a \in Attempts, Joined(a) PROVE Lives(b)'
  BY <1>9, Distinct
  DEF Lives, Over, IsActive, Shape, Attempt0, Flags, Joined, IsActive, Goes, Quiet,
      streamVars
<1>10. ASSUME NEW a \in Attempts, AcceptStatus(a) PROVE Lives(b)'
  BY <1>10, Distinct
  DEF Lives, Over, IsActive, Shape, Attempt0, Flags, AcceptStatus, Accepts, CountIdlePoll,
      Fails, Ends, Checks, IsActive, Goes, Quiet, streamVars
<1>11. ASSUME NEW a \in Attempts, Prepare(a) PROVE Lives(b)'
  BY <1>11, Distinct
  DEF Lives, Over, IsActive, Shape, Attempt0, Flags, Prepare, IsActive, Goes, joinVars
<1>12. ASSUME NEW a \in Attempts, JoinFails(a) PROVE Lives(b)'
  BY <1>12, Distinct
  DEF Lives, Over, IsActive, Shape, Attempt0, Flags, JoinFails, Fails, Ends, Checks,
      IsActive
<1>13. ASSUME NEW a \in Attempts, Interrupted(a) PROVE Lives(b)'
  BY <1>13, Distinct
  DEF Lives, Over, IsActive, Shape, Attempt0, Flags, Interrupted, IsActive, Goes, Quiet,
      joinVars, streamVars
<1>14. ASSUME NEW a \in Attempts, RequestFails(a) PROVE Lives(b)'
  BY <1>14, Distinct
  DEF Lives, Over, IsActive, Shape, Attempt0, Flags, RequestFails, Fails, Ends, Checks,
      IsActive, Surprise
<1>15. ASSUME NEW a \in Attempts, Delete(a) PROVE Lives(b)'
  BY <1>15, Distinct
  DEF Lives, Over, IsActive, Shape, Attempt0, Flags, Delete, Due, Checks, Removes, Same,
      workerVars, joinVars, streamVars
<1>16. ASSUME NEW a \in Attempts, DeleteFails(a) PROVE Lives(b)'
  BY <1>16, Distinct
  DEF Lives, Over, IsActive, Shape, Attempt0, Flags, DeleteFails, Due, Checks, Same,
      workerVars, joinVars, streamVars
<1>17. ASSUME NEW a \in Attempts, ServePost(a) PROVE Lives(b)'
  BY <1>17, Distinct
  DEF Lives, Over, IsActive, Shape, Attempt0, Flags, ServePost, Status, joinVars,
      streamVars
<1>18. ASSUME NEW a \in Attempts, LosePost(a) PROVE Lives(b)'
  BY <1>18, Distinct
  DEF Lives, Over, IsActive, Shape, Attempt0, Flags, LosePost, Same, workerVars, joinVars,
      streamVars
<1>19. ASSUME NEW a \in Attempts, ServeLateDelete(a) PROVE Lives(b)'
  BY <1>19, Distinct
  DEF Lives, Over, IsActive, Shape, Attempt0, Flags, ServeLateDelete, Removes, Same,
      workerVars, joinVars, streamVars
<1>20. ASSUME Allocate PROVE Lives(b)'
  BY <1>20, Distinct
  DEF Lives, Over, IsActive, Shape, Attempt0, Flags, Allocate, Same, workerVars, joinVars,
      streamVars
<1>21. ASSUME Vanish PROVE Lives(b)'
  BY <1>21, Distinct
  DEF Lives, Over, IsActive, Shape, Attempt0, Flags, Vanish, Same, workerVars, joinVars,
      streamVars
<1>22. CASE UNCHANGED vars
  BY <1>22
  DEF Lives, Over, IsActive, Shape, Attempt0, Flags, vars, workerVars, joinVars,
      streamVars
<1> QED
  BY <1>1, <1>2, <1>3, <1>4, <1>5, <1>6, <1>7, <1>8, <1>9, <1>10, <1>11, <1>12, <1>13,
     <1>14, <1>15, <1>16, <1>17, <1>18, <1>19, <1>20, <1>21, <1>22
  DEF Next, UserInterface, Worker

(* ... asks for a place only after noting it, ... *)
LEMMA JoinsNext ==
  ASSUME Shape, Shape', \A b \in Attempts : Lives(b) /\ Joins(b), [Next]_vars
  PROVE  \A b \in Attempts : Joins(b)'
<1> SUFFICES ASSUME NEW b \in Attempts PROVE Joins(b)'
  OBVIOUS
<1>1. ASSUME NEW a \in Attempts, Start(a) PROVE Joins(b)'
  <2>1. Lives(b) /\ Joins(b) /\ Lives(a) /\ Joins(a)
    BY <1>1
  <2>2. CASE b = a
    BY <1>1, <2>1, <2>2, Distinct
    DEF Joins, Lives, Over, IsActive, Shape, Attempt0, Flags, Start, Checks, serverVars
  <2>3. CASE b # a
    BY <1>1, <2>1, <2>3, Distinct
    DEF Joins, Lives, Over, IsActive, Shape, Attempt0, Flags, Start, Checks, serverVars
  <2> QED
    BY <2>2, <2>3
<1>2. ASSUME NEW a \in Attempts, Cancel(a) PROVE Joins(b)'
  <2>1. Lives(b) /\ Joins(b) /\ Lives(a) /\ Joins(a)
    BY <1>2
  <2>2. CASE b = a
    BY <1>2, <2>1, <2>2, Distinct
    DEF Joins, Lives, Over, IsActive, Shape, Attempt0, Flags, Cancel, Cancelled, Ends,
        Checks, workerVars, serverVars
  <2>3. CASE b # a
    BY <1>2, <2>1, <2>3, Distinct
    DEF Joins, Lives, Over, IsActive, Shape, Attempt0, Flags, Cancel, Cancelled, Ends,
        Checks, workerVars, serverVars
  <2> QED
    BY <2>2, <2>3
<1>3. ASSUME NEW a \in Attempts, OnPrepared(a) PROVE Joins(b)'
  BY <1>3, Distinct
  DEF Joins, Lives, Over, IsActive, Shape, Attempt0, Flags, OnPrepared, IsActive,
      workerVars, joinVars, serverVars
<1>4. ASSUME NEW a \in Attempts, AttachStream(a) PROVE Joins(b)'
  BY <1>4, Distinct
  DEF Joins, Lives, Over, IsActive, Shape, Attempt0, Flags, AttachStream, MayAttach,
      IsActive, workerVars, joinVars, serverVars
<1>5. ASSUME NEW a \in Attempts, OnFirstFrameRendered(a) PROVE Joins(b)'
  BY <1>5, Distinct
  DEF Joins, Lives, Over, IsActive, Shape, Attempt0, Flags, OnFirstFrameRendered,
      IsActive, workerVars, joinVars, serverVars
<1>6. ASSUME NEW a \in Attempts, AwaitCleanup(a) PROVE Joins(b)'
  BY <1>6, Distinct
  DEF Joins, Lives, Over, IsActive, Shape, Attempt0, Flags, AwaitCleanup, CleanupComplete,
      IsActive, Goes, Quiet, joinVars, serverVars
<1>7. ASSUME NEW a \in Attempts, GetStatus(a) PROVE Joins(b)'
  BY <1>7, Distinct
  DEF Joins, Lives, Over, IsActive, Shape, Attempt0, Flags, GetStatus, Status, IsActive,
      Goes, Quiet, joinVars, serverVars
<1>8. ASSUME NEW a \in Attempts, JoinQueue(a) PROVE Joins(b)'
  <2>1. Lives(b) /\ Joins(b) /\ Lives(a) /\ Joins(a)
    BY <1>8
  <2>2. CASE b = a
    BY <1>8, <2>1, <2>2, Distinct
    DEF Joins, Lives, Over, IsActive, Shape, Attempt0, Flags, JoinQueue, IsActive, Goes,
        Quiet
  <2>3. CASE b # a
    BY <1>8, <2>1, <2>3, Distinct
    DEF Joins, Lives, Over, IsActive, Shape, Attempt0, Flags, JoinQueue, IsActive, Goes,
        Quiet
  <2> QED
    BY <2>2, <2>3
<1>9. ASSUME NEW a \in Attempts, Joined(a) PROVE Joins(b)'
  BY <1>9, Distinct
  DEF Joins, Lives, Over, IsActive, Shape, Attempt0, Flags, Joined, IsActive, Goes, Quiet,
      serverVars
<1>10. ASSUME NEW a \in Attempts, AcceptStatus(a) PROVE Joins(b)'
  <2>1. Lives(b) /\ Joins(b) /\ Lives(a) /\ Joins(a)
    BY <1>10
  <2>2. CASE b = a
    BY <1>10, <2>1, <2>2, Distinct
    DEF Joins, Lives, Over, IsActive, Shape, Attempt0, Flags, AcceptStatus, Accepts,
        CountIdlePoll, Fails, Ends, Checks, IsActive, Goes, Quiet, serverVars
  <2>3. CASE b # a
    BY <1>10, <2>1, <2>3, Distinct
    DEF Joins, Lives, Over, IsActive, Shape, Attempt0, Flags, AcceptStatus, Accepts,
        CountIdlePoll, Fails, Ends, Checks, IsActive, Goes, Quiet, serverVars
  <2> QED
    BY <2>2, <2>3
<1>11. ASSUME NEW a \in Attempts, Prepare(a) PROVE Joins(b)'
  BY <1>11, Distinct
  DEF Joins, Lives, Over, IsActive, Shape, Attempt0, Flags, Prepare, IsActive, Goes,
      joinVars, serverVars
<1>12. ASSUME NEW a \in Attempts, JoinFails(a) PROVE Joins(b)'
  <2>1. Lives(b) /\ Joins(b) /\ Lives(a) /\ Joins(a)
    BY <1>12
  <2>2. CASE b = a
    BY <1>12, <2>1, <2>2, Distinct
    DEF Joins, Lives, Over, IsActive, Shape, Attempt0, Flags, JoinFails, Fails, Ends,
        Checks, IsActive, serverVars
  <2>3. CASE b # a
    BY <1>12, <2>1, <2>3, Distinct
    DEF Joins, Lives, Over, IsActive, Shape, Attempt0, Flags, JoinFails, Fails, Ends,
        Checks, IsActive, serverVars
  <2> QED
    BY <2>2, <2>3
<1>13. ASSUME NEW a \in Attempts, Interrupted(a) PROVE Joins(b)'
  BY <1>13, Distinct
  DEF Joins, Lives, Over, IsActive, Shape, Attempt0, Flags, Interrupted, IsActive, Goes,
      Quiet, joinVars, serverVars
<1>14. ASSUME NEW a \in Attempts, RequestFails(a) PROVE Joins(b)'
  <2>1. Lives(b) /\ Joins(b) /\ Lives(a) /\ Joins(a)
    BY <1>14
  <2>2. CASE b = a
    BY <1>14, <2>1, <2>2, Distinct
    DEF Joins, Lives, Over, IsActive, Shape, Attempt0, Flags, RequestFails, Fails, Ends,
        Checks, IsActive, Surprise, serverVars
  <2>3. CASE b # a
    BY <1>14, <2>1, <2>3, Distinct
    DEF Joins, Lives, Over, IsActive, Shape, Attempt0, Flags, RequestFails, Fails, Ends,
        Checks, IsActive, Surprise, serverVars
  <2> QED
    BY <2>2, <2>3
<1>15. ASSUME NEW a \in Attempts, Delete(a) PROVE Joins(b)'
  BY <1>15, Distinct
  DEF Joins, Lives, Over, IsActive, Shape, Attempt0, Flags, Delete, Due, Checks, Removes,
      Same, workerVars, joinVars
<1>16. ASSUME NEW a \in Attempts, DeleteFails(a) PROVE Joins(b)'
  BY <1>16, Distinct
  DEF Joins, Lives, Over, IsActive, Shape, Attempt0, Flags, DeleteFails, Due, Checks,
      Same, workerVars, joinVars
<1>17. ASSUME NEW a \in Attempts, ServePost(a) PROVE Joins(b)'
  BY <1>17, Distinct
  DEF Joins, Lives, Over, IsActive, Shape, Attempt0, Flags, ServePost, Status, joinVars
<1>18. ASSUME NEW a \in Attempts, LosePost(a) PROVE Joins(b)'
  BY <1>18, Distinct
  DEF Joins, Lives, Over, IsActive, Shape, Attempt0, Flags, LosePost, Same, workerVars,
      joinVars
<1>19. ASSUME NEW a \in Attempts, ServeLateDelete(a) PROVE Joins(b)'
  BY <1>19, Distinct
  DEF Joins, Lives, Over, IsActive, Shape, Attempt0, Flags, ServeLateDelete, Removes,
      Same, workerVars, joinVars
<1>20. ASSUME Allocate PROVE Joins(b)'
  BY <1>20, Distinct
  DEF Joins, Lives, Over, IsActive, Shape, Attempt0, Flags, Allocate, Same, workerVars,
      joinVars
<1>21. ASSUME Vanish PROVE Joins(b)'
  BY <1>21, Distinct
  DEF Joins, Lives, Over, IsActive, Shape, Attempt0, Flags, Vanish, Same, workerVars,
      joinVars
<1>22. CASE UNCHANGED vars
  BY <1>22
  DEF Joins, Lives, Over, IsActive, Shape, Attempt0, Flags, vars, workerVars, joinVars,
      serverVars
<1> QED
  BY <1>1, <1>2, <1>3, <1>4, <1>5, <1>6, <1>7, <1>8, <1>9, <1>10, <1>11, <1>12, <1>13,
     <1>14, <1>15, <1>16, <1>17, <1>18, <1>19, <1>20, <1>21, <1>22
  DEF Next, UserInterface, Worker

(* ... leaves no entry without somebody bound to remove it, ... *)
LEMMA EntriesNext ==
  ASSUME Shape, Shape', \A b \in Attempts : Lives(b) /\ Joins(b) /\ Entries(b), [Next]_vars
  PROVE  \A b \in Attempts : Entries(b)'
<1> SUFFICES ASSUME NEW b \in Attempts PROVE Entries(b)'
  OBVIOUS
<1>1. ASSUME NEW a \in Attempts, Start(a) PROVE Entries(b)'
  BY <1>1, Distinct
  DEF Entries, Lives, Joins, Over, IsActive, Shape, Attempt0, Flags, Start, Checks,
      serverVars
<1>2. ASSUME NEW a \in Attempts, Cancel(a) PROVE Entries(b)'
  BY <1>2, Distinct
  DEF Entries, Lives, Joins, Over, IsActive, Shape, Attempt0, Flags, Cancel, Cancelled,
      Ends, Checks, workerVars, serverVars
<1>3. ASSUME NEW a \in Attempts, OnPrepared(a) PROVE Entries(b)'
  BY <1>3, Distinct
  DEF Entries, Lives, Joins, Over, IsActive, Shape, Attempt0, Flags, OnPrepared, IsActive,
      workerVars, joinVars, serverVars
<1>4. ASSUME NEW a \in Attempts, AttachStream(a) PROVE Entries(b)'
  BY <1>4, Distinct
  DEF Entries, Lives, Joins, Over, IsActive, Shape, Attempt0, Flags, AttachStream,
      MayAttach, IsActive, workerVars, joinVars, serverVars
<1>5. ASSUME NEW a \in Attempts, OnFirstFrameRendered(a) PROVE Entries(b)'
  BY <1>5, Distinct
  DEF Entries, Lives, Joins, Over, IsActive, Shape, Attempt0, Flags, OnFirstFrameRendered,
      IsActive, workerVars, joinVars, serverVars
<1>6. ASSUME NEW a \in Attempts, AwaitCleanup(a) PROVE Entries(b)'
  BY <1>6, Distinct
  DEF Entries, Lives, Joins, Over, IsActive, Shape, Attempt0, Flags, AwaitCleanup,
      CleanupComplete, IsActive, Goes, Quiet, joinVars, serverVars
<1>7. ASSUME NEW a \in Attempts, GetStatus(a) PROVE Entries(b)'
  BY <1>7, Distinct
  DEF Entries, Lives, Joins, Over, IsActive, Shape, Attempt0, Flags, GetStatus, Status,
      IsActive, Goes, Quiet, joinVars, serverVars
<1>8. ASSUME NEW a \in Attempts, JoinQueue(a) PROVE Entries(b)'
  <2>1. Lives(b) /\ Joins(b) /\ Entries(b) /\ Lives(a) /\ Joins(a) /\ Entries(a)
    BY <1>8
  <2>2. CASE b = a
    BY <1>8, <2>1, <2>2, Distinct
    DEF Entries, Lives, Joins, Over, IsActive, Shape, Attempt0, Flags, JoinQueue,
        IsActive, Goes, Quiet
  <2>3. CASE b # a
    BY <1>8, <2>1, <2>3, Distinct
    DEF Entries, Lives, Joins, Over, IsActive, Shape, Attempt0, Flags, JoinQueue,
        IsActive, Goes, Quiet
  <2> QED
    BY <2>2, <2>3
<1>9. ASSUME NEW a \in Attempts, Joined(a) PROVE Entries(b)'
  <2>1. Lives(b) /\ Joins(b) /\ Entries(b) /\ Lives(a) /\ Joins(a) /\ Entries(a)
    BY <1>9
  <2>2. CASE b = a
    BY <1>9, <2>1, <2>2, Distinct
    DEF Entries, Lives, Joins, Over, IsActive, Shape, Attempt0, Flags, Joined, IsActive,
        Goes, Quiet, serverVars
  <2>3. CASE b # a
    BY <1>9, <2>1, <2>3, Distinct
    DEF Entries, Lives, Joins, Over, IsActive, Shape, Attempt0, Flags, Joined, IsActive,
        Goes, Quiet, serverVars
  <2> QED
    BY <2>2, <2>3
<1>10. ASSUME NEW a \in Attempts, AcceptStatus(a) PROVE Entries(b)'
  <2>1. Lives(b) /\ Joins(b) /\ Entries(b) /\ Lives(a) /\ Joins(a) /\ Entries(a)
    BY <1>10
  <2>2. CASE b = a
    BY <1>10, <2>1, <2>2, Distinct
    DEF Entries, Lives, Joins, Over, IsActive, Shape, Attempt0, Flags, AcceptStatus,
        Accepts, CountIdlePoll, Fails, Ends, Checks, IsActive, Goes, Quiet, serverVars
  <2>3. CASE b # a
    BY <1>10, <2>1, <2>3, Distinct
    DEF Entries, Lives, Joins, Over, IsActive, Shape, Attempt0, Flags, AcceptStatus,
        Accepts, CountIdlePoll, Fails, Ends, Checks, IsActive, Goes, Quiet, serverVars
  <2> QED
    BY <2>2, <2>3
<1>11. ASSUME NEW a \in Attempts, Prepare(a) PROVE Entries(b)'
  BY <1>11, Distinct
  DEF Entries, Lives, Joins, Over, IsActive, Shape, Attempt0, Flags, Prepare, IsActive,
      Goes, joinVars, serverVars
<1>12. ASSUME NEW a \in Attempts, JoinFails(a) PROVE Entries(b)'
  BY <1>12, Distinct
  DEF Entries, Lives, Joins, Over, IsActive, Shape, Attempt0, Flags, JoinFails, Fails,
      Ends, Checks, IsActive, serverVars
<1>13. ASSUME NEW a \in Attempts, Interrupted(a) PROVE Entries(b)'
  BY <1>13, Distinct
  DEF Entries, Lives, Joins, Over, IsActive, Shape, Attempt0, Flags, Interrupted,
      IsActive, Goes, Quiet, joinVars, serverVars
<1>14. ASSUME NEW a \in Attempts, RequestFails(a) PROVE Entries(b)'
  BY <1>14, Distinct
  DEF Entries, Lives, Joins, Over, IsActive, Shape, Attempt0, Flags, RequestFails, Fails,
      Ends, Checks, IsActive, Surprise, serverVars
<1>15. ASSUME NEW a \in Attempts, Delete(a) PROVE Entries(b)'
  BY <1>15, Distinct
  DEF Entries, Lives, Joins, Over, IsActive, Shape, Attempt0, Flags, Delete, Due, Checks,
      Removes, Same, workerVars, joinVars
<1>16. ASSUME NEW a \in Attempts, DeleteFails(a) PROVE Entries(b)'
  BY <1>16, Distinct
  DEF Entries, Lives, Joins, Over, IsActive, Shape, Attempt0, Flags, DeleteFails, Due,
      Checks, Same, workerVars, joinVars
<1>17. ASSUME NEW a \in Attempts, ServePost(a) PROVE Entries(b)'
  <2>1. Lives(b) /\ Joins(b) /\ Entries(b) /\ Lives(a) /\ Joins(a) /\ Entries(a)
    BY <1>17
  <2>2. CASE b = a
    BY <1>17, <2>1, <2>2, Distinct
    DEF Entries, Lives, Joins, Over, IsActive, Shape, Attempt0, Flags, ServePost,
        Status, joinVars
  <2>3. CASE b # a
    BY <1>17, <2>1, <2>3, Distinct
    DEF Entries, Lives, Joins, Over, IsActive, Shape, Attempt0, Flags, ServePost,
        Status, joinVars
  <2> QED
    BY <2>2, <2>3
<1>18. ASSUME NEW a \in Attempts, LosePost(a) PROVE Entries(b)'
  BY <1>18, Distinct
  DEF Entries, Lives, Joins, Over, IsActive, Shape, Attempt0, Flags, LosePost, Same,
      workerVars, joinVars
<1>19. ASSUME NEW a \in Attempts, ServeLateDelete(a) PROVE Entries(b)'
  BY <1>19, Distinct
  DEF Entries, Lives, Joins, Over, IsActive, Shape, Attempt0, Flags, ServeLateDelete,
      Removes, Same, workerVars, joinVars
<1>20. ASSUME Allocate PROVE Entries(b)'
  BY <1>20, Distinct
  DEF Entries, Lives, Joins, Over, IsActive, Shape, Attempt0, Flags, Allocate, Same,
      workerVars, joinVars
<1>21. ASSUME Vanish PROVE Entries(b)'
  BY <1>21, Distinct
  DEF Entries, Lives, Joins, Over, IsActive, Shape, Attempt0, Flags, Vanish, Same,
      workerVars, joinVars
<1>22. CASE UNCHANGED vars
  BY <1>22
  DEF Entries, Lives, Joins, Over, IsActive, Shape, Attempt0, Flags, vars, workerVars,
      joinVars, serverVars
<1> QED
  BY <1>1, <1>2, <1>3, <1>4, <1>5, <1>6, <1>7, <1>8, <1>9, <1>10, <1>11, <1>12, <1>13,
     <1>14, <1>15, <1>16, <1>17, <1>18, <1>19, <1>20, <1>21, <1>22
  DEF Next, UserInterface, Worker

(* ... and starts no second cleanup beside an attempt under way. *)
LEMMA CleanupsNext ==
  ASSUME Shape, Shape', \A b \in Attempts : Lives(b) /\ Joins(b) /\ Cleanups(b), [Next]_vars
  PROVE  \A b \in Attempts : Cleanups(b)'
<1> SUFFICES ASSUME NEW b \in Attempts PROVE Cleanups(b)'
  OBVIOUS
<1>1. ASSUME NEW a \in Attempts, Start(a) PROVE Cleanups(b)'
  BY <1>1, Distinct
  DEF Cleanups, Lives, Joins, Over, IsActive, Shape, Attempt0, Flags, Start, Checks
<1>2. ASSUME NEW a \in Attempts, Cancel(a) PROVE Cleanups(b)'
  BY <1>2, Distinct
  DEF Cleanups, Lives, Joins, Over, IsActive, Shape, Attempt0, Flags, Cancel, Cancelled,
      Ends, Checks, workerVars
<1>3. ASSUME NEW a \in Attempts, OnPrepared(a) PROVE Cleanups(b)'
  BY <1>3, Distinct
  DEF Cleanups, Lives, Joins, Over, IsActive, Shape, Attempt0, Flags, OnPrepared,
      IsActive, workerVars
<1>4. ASSUME NEW a \in Attempts, AttachStream(a) PROVE Cleanups(b)'
  BY <1>4, Distinct
  DEF Cleanups, Lives, Joins, Over, IsActive, Shape, Attempt0, Flags, AttachStream,
      MayAttach, IsActive, workerVars
<1>5. ASSUME NEW a \in Attempts, OnFirstFrameRendered(a) PROVE Cleanups(b)'
  BY <1>5, Distinct
  DEF Cleanups, Lives, Joins, Over, IsActive, Shape, Attempt0, Flags,
      OnFirstFrameRendered, IsActive, workerVars
<1>6. ASSUME NEW a \in Attempts, AwaitCleanup(a) PROVE Cleanups(b)'
  BY <1>6, Distinct
  DEF Cleanups, Lives, Joins, Over, IsActive, Shape, Attempt0, Flags, AwaitCleanup,
      CleanupComplete, IsActive, Goes, Quiet
<1>7. ASSUME NEW a \in Attempts, GetStatus(a) PROVE Cleanups(b)'
  BY <1>7, Distinct
  DEF Cleanups, Lives, Joins, Over, IsActive, Shape, Attempt0, Flags, GetStatus, Status,
      IsActive, Goes, Quiet
<1>8. ASSUME NEW a \in Attempts, JoinQueue(a) PROVE Cleanups(b)'
  BY <1>8, Distinct
  DEF Cleanups, Lives, Joins, Over, IsActive, Shape, Attempt0, Flags, JoinQueue, IsActive,
      Goes, Quiet
<1>9. ASSUME NEW a \in Attempts, Joined(a) PROVE Cleanups(b)'
  BY <1>9, Distinct
  DEF Cleanups, Lives, Joins, Over, IsActive, Shape, Attempt0, Flags, Joined, IsActive,
      Goes, Quiet
<1>10. ASSUME NEW a \in Attempts, AcceptStatus(a) PROVE Cleanups(b)'
  BY <1>10, Distinct
  DEF Cleanups, Lives, Joins, Over, IsActive, Shape, Attempt0, Flags, AcceptStatus,
      Accepts, CountIdlePoll, Fails, Ends, Checks, IsActive, Goes, Quiet
<1>11. ASSUME NEW a \in Attempts, Prepare(a) PROVE Cleanups(b)'
  BY <1>11, Distinct
  DEF Cleanups, Lives, Joins, Over, IsActive, Shape, Attempt0, Flags, Prepare, IsActive,
      Goes
<1>12. ASSUME NEW a \in Attempts, JoinFails(a) PROVE Cleanups(b)'
  BY <1>12, Distinct
  DEF Cleanups, Lives, Joins, Over, IsActive, Shape, Attempt0, Flags, JoinFails, Fails,
      Ends, Checks, IsActive
<1>13. ASSUME NEW a \in Attempts, Interrupted(a) PROVE Cleanups(b)'
  BY <1>13, Distinct
  DEF Cleanups, Lives, Joins, Over, IsActive, Shape, Attempt0, Flags, Interrupted,
      IsActive, Goes, Quiet
<1>14. ASSUME NEW a \in Attempts, RequestFails(a) PROVE Cleanups(b)'
  BY <1>14, Distinct
  DEF Cleanups, Lives, Joins, Over, IsActive, Shape, Attempt0, Flags, RequestFails, Fails,
      Ends, Checks, IsActive, Surprise
<1>15. ASSUME NEW a \in Attempts, Delete(a) PROVE Cleanups(b)'
  BY <1>15, Distinct
  DEF Cleanups, Lives, Joins, Over, IsActive, Shape, Attempt0, Flags, Delete, Due, Checks,
      Removes, Same, workerVars
<1>16. ASSUME NEW a \in Attempts, DeleteFails(a) PROVE Cleanups(b)'
  BY <1>16, Distinct
  DEF Cleanups, Lives, Joins, Over, IsActive, Shape, Attempt0, Flags, DeleteFails, Due,
      Checks, Same, workerVars
<1>17. ASSUME NEW a \in Attempts, ServePost(a) PROVE Cleanups(b)'
  BY <1>17, Distinct
  DEF Cleanups, Lives, Joins, Over, IsActive, Shape, Attempt0, Flags, ServePost, Status
<1>18. ASSUME NEW a \in Attempts, LosePost(a) PROVE Cleanups(b)'
  BY <1>18, Distinct
  DEF Cleanups, Lives, Joins, Over, IsActive, Shape, Attempt0, Flags, LosePost, Same,
      workerVars
<1>19. ASSUME NEW a \in Attempts, ServeLateDelete(a) PROVE Cleanups(b)'
  BY <1>19, Distinct
  DEF Cleanups, Lives, Joins, Over, IsActive, Shape, Attempt0, Flags, ServeLateDelete,
      Removes, Same, workerVars
<1>20. ASSUME Allocate PROVE Cleanups(b)'
  BY <1>20, Distinct
  DEF Cleanups, Lives, Joins, Over, IsActive, Shape, Attempt0, Flags, Allocate, Same,
      workerVars
<1>21. ASSUME Vanish PROVE Cleanups(b)'
  BY <1>21, Distinct
  DEF Cleanups, Lives, Joins, Over, IsActive, Shape, Attempt0, Flags, Vanish, Same,
      workerVars
<1>22. CASE UNCHANGED vars
  BY <1>22 DEF Cleanups, Lives, Joins, Over, IsActive, Shape, Attempt0, Flags, vars, workerVars
<1> QED
  BY <1>1, <1>2, <1>3, <1>4, <1>5, <1>6, <1>7, <1>8, <1>9, <1>10, <1>11, <1>12, <1>13,
     <1>14, <1>15, <1>16, <1>17, <1>18, <1>19, <1>20, <1>21, <1>22
  DEF Next, UserInterface, Worker

(* The invariant holds initially, ... *)
LEMMA InitIInv == Init => IInv
<1> SUFFICES ASSUME Init PROVE IInv
  OBVIOUS
<1>1. Shape
  BY Distinct, AttemptsAssumption
  DEF Init, Each, Shape, Attempt0, Flags, Places, Replies, Stages, Attempts
<1>2. ASSUME NEW a \in Attempts PROVE Lives(a)
  BY Distinct DEF Init, Each, Lives, Over
<1>3. ASSUME NEW a \in Attempts PROVE Joins(a)
  BY DEF Init, Each, Joins, Over
<1>4. ASSUME NEW a \in Attempts PROVE Entries(a)
  BY Distinct DEF Init, Each, Entries, Over
<1>5. ASSUME NEW a \in Attempts PROVE Cleanups(a)
  BY Distinct DEF Init, Each, Cleanups, IsActive
<1> QED
  BY <1>1, <1>2, <1>3, <1>4, <1>5 DEF IInv

(* ... and every step preserves it. *)
LEMMA IInvNext ==
  ASSUME IInv, [Next]_vars
  PROVE  IInv'
<1>1. Shape'
  BY ShapeNext DEF IInv
<1>2. \A a \in Attempts : Lives(a)'
  BY <1>1, LivesNext DEF IInv
<1>3. \A a \in Attempts : Joins(a)'
  BY <1>1, JoinsNext DEF IInv
<1>4. \A a \in Attempts : Entries(a)'
  BY <1>1, EntriesNext DEF IInv
<1>5. \A a \in Attempts : Cleanups(a)'
  BY <1>1, CleanupsNext DEF IInv
<1> QED
  BY <1>1, <1>2, <1>3, <1>4, <1>5 DEF IInv

(* The client can be described by IInv at all times. *)
THEOREM Invariance == Spec => []IInv
<1>1. Init => IInv
  BY InitIInv
<1>2. IInv /\ [Next]_vars => IInv'
  BY IInvNext
<1> QED
  BY <1>1, <1>2, PTL DEF Spec

(* Every variable keeps its type, for any number of attempts.                  *)
THEOREM TypeCorrect == Spec => []TypeOK
<1>1. IInv => TypeOK
  BY AttemptsAssumption
  DEF IInv, Shape, Attempt0, TypeOK, Attempts, None, Other
<1> QED
  BY <1>1, Invariance, PTL

(* Only the active attempt has a stream: whoever cancels it has told its       *)
(* stream to stop (Cancelled), and an attempt that is over gets none.          *)
THEOREM StreamsOne == Spec => []OneStream
<1>1. IInv => OneStream
  BY DEF IInv, Lives, OneStream, Over
<1> QED
  BY <1>1, Invariance, PTL

(* An attempt that is over leaves nothing in the queue when its cleanup is     *)
(* complete: of the POST that was still under way when it was cancelled, the   *)
(* last DELETE comes after.                                                    *)
THEOREM LeavesNothing == Spec => []NothingLeftQueued
<1>1. IInv => NothingLeftQueued
  <2> SUFFICES ASSUME IInv, NEW a \in Attempts, Over(a), checks[a] = 0, a \notin leaks
               PROVE  entry # a
    BY DEF NothingLeftQueued
  <2>1. Entries(a) /\ checks[a] \in 0 .. 4
    BY DEF IInv, Shape
  <2> QED
    BY <2>1 DEF Entries
<1> QED
  BY <1>1, Invariance, PTL

(* The entry that a DELETE of a cleanup under way removes is nobody's, or one  *)
(* of an attempt that is over.                                                 *)
LEMMA DueRemovesItsOwn ==
  ASSUME IInv, NEW a \in Attempts, Due(a)
  PROVE  entry = None \/ (entry \in Attempts /\ Over(entry))
<1>1. checks[a] > 0 /\ joined[a] /\ entry # Other
  BY DEF IInv, Due, Joins
<1>2. CASE entry \in Attempts
  <2>1. SUFFICES ASSUME ~Over(entry) PROVE FALSE
    BY <1>2
  <2>2. Lives(entry) /\ Joins(entry) /\ Entries(entry) /\ Cleanups(entry)
    BY <1>2 DEF IInv
  <2>3. queueMayExist[entry] /\ joined[entry]
    BY <1>2, <2>1, <2>2 DEF Entries, Joins
  <2>4. IsActive(entry) /\ at[entry] # "await"
    BY <1>2, <2>1, <2>2, <2>3 DEF Joins, Lives, IsActive, Over
  <2>5. checks[a] = 0
    BY <2>2, <2>4 DEF Cleanups
  <2> QED
    BY <1>1, <2>5
<1> QED
  BY <1>1, <1>2 DEF IInv, Shape

(* No step adds a timely removal of a place that was still wanted. *)
LEMMA RemovesNext ==
  ASSUME IInv, RemovesOnlyItsOwn, [Next]_vars
  PROVE  RemovesOnlyItsOwn'
<1>1. ASSUME NEW a \in Attempts, Delete(a) PROVE RemovesOnlyItsOwn'
  <2>1. removed' = removed
    BY <1>1, DueRemovesItsOwn DEF Delete, Removes
  <2> QED
    BY <2>1 DEF RemovesOnlyItsOwn
<1>2. ASSUME NEW a \in Attempts, ServeLateDelete(a) PROVE RemovesOnlyItsOwn'
  BY <1>2 DEF ServeLateDelete, Removes, RemovesOnlyItsOwn
<1>3. ASSUME removed' = removed PROVE RemovesOnlyItsOwn'
  BY <1>3 DEF RemovesOnlyItsOwn
<1>4. ASSUME NEW a \in Attempts, UserInterface(a) PROVE removed' = removed
  BY <1>4
  DEF UserInterface, Start, Cancel, OnPrepared, AttachStream, OnFirstFrameRendered,
      serverVars
<1>5. ASSUME NEW a \in Attempts, Worker(a) \/ RequestFails(a) PROVE removed' = removed
  BY <1>5
  DEF Worker, AwaitCleanup, GetStatus, JoinQueue, Joined, AcceptStatus, Prepare,
      JoinFails, Interrupted, RequestFails, serverVars
<1>6. ASSUME NEW a \in Attempts, DeleteFails(a) \/ ServePost(a) \/ LosePost(a)
      PROVE  removed' = removed
  BY <1>6 DEF DeleteFails, ServePost, LosePost
<1>7. ASSUME Allocate \/ Vanish \/ UNCHANGED vars PROVE removed' = removed
  BY <1>7 DEF Allocate, Vanish, vars, serverVars
<1> QED
  BY <1>1, <1>2, <1>3, <1>4, <1>5, <1>6, <1>7 DEF Next

(* No DELETE that a cleanup still waits for takes away a place that an attempt *)
(* not yet over holds, nor one that this client did not ask for.               *)
THEOREM RemovesOwn == Spec => []RemovesOnlyItsOwn
<1>1. Init => RemovesOnlyItsOwn
  BY DEF Init, RemovesOnlyItsOwn
<1>2. IInv /\ RemovesOnlyItsOwn /\ [Next]_vars => RemovesOnlyItsOwn'
  BY RemovesNext
<1> QED
  BY <1>1, <1>2, Invariance, PTL DEF Spec
===============================================================================
