-------------------------- MODULE GenerationQueue --------------------------
(***************************************************************************)
(* The generation job queue of backend/generation_queue.py together with   *)
(* the assignment half of backend/generation_scheduler.py and the capacity *)
(* table of backend/backend_registry.py.                                   *)
(*                                                                         *)
(* Rows of the per-profile generation_jobs tables are durable; the capacity*)
(* table, the workers, the post-processing tails and the cancel and        *)
(* disconnect handlers are coroutines of one process.  An action is what   *)
(* one coroutine does between two awaits that matter: a database commit,   *)
(* or a change of shared memory.  Two statements separated by an await in  *)
(* which another coroutine can run are two actions.                        *)
(***************************************************************************)
EXTENDS Integers, FiniteSets

CONSTANTS
    Profiles,             \* profiles, each with a database of its own
    JobIds,               \* row ids; every profile numbers its rows from 1
    Backends,             \* generation backends (tool providers)
    Workers,              \* worker tasks started by start_workers
    BackendOf,            \* the backend a job names when it is submitted
    Ephemeral,            \* jobs of one-shot flow runs (output 'ephemeral')
    MaxConcurrent,        \* the concurrency each backend reports
    MaxDisconnectRetries, \* MAX_DISCONNECT_RETRIES
    MaxDisconnects,       \* bound: provider disconnects in a behaviour
    MaxRestarts,          \* bound: process restarts in a behaviour
    MaxFaults,            \* bound: database errors raised in error handlers
    MaxUserCancels,       \* bound: cancel_job calls that find an active job
    MaxClientCancels,     \* bound: queued jobs a client's departure cancels
    MaxUserRetries,       \* bound: retries a user asks for
    NoJob                 \* the job of a worker that has none

Job == Profiles \X JobIds

ASSUME BackendOfAssumption == BackendOf \in [Job -> Backends]
ASSUME EphemeralAssumption == Ephemeral \subseteq Job
ASSUME CapacityAssumption == MaxConcurrent \in [Backends -> Nat \ {0}]
ASSUME BoundsAssumption ==
    /\ MaxDisconnectRetries \in Nat
    /\ MaxDisconnects \in Nat
    /\ MaxRestarts \in Nat
    /\ MaxFaults \in Nat
    /\ MaxUserCancels \in Nat
    /\ MaxClientCancels \in Nat
    /\ MaxUserRetries \in Nat
ASSUME NoJobAssumption == NoJob \notin Job

VARIABLES
    \* Durable: columns of GenerationJob.
    status,         \* status[j]
    retries,        \* _disconnect_retries in the parameters column
    result,         \* result_media_id is set
    media,          \* a MediaItem has been committed for the job
    \* Process memory.
    registered,     \* backends the registry knows
    current,        \* BackendState.current_jobs: bare row ids
    executing,      \* _executing_jobs
    event,          \* _job_submitted_event is set
    pc,             \* where each worker is
    job,            \* the job each worker works on
    scanLeft,       \* (profile, backend) pairs the worker has still to try
    tails,          \* post-processing tails by stage
    cancel,         \* the cancel, delete or retry request handled for a job
    readRetries,    \* the retry count that request has read
    readResult,     \* whether it has read a result_media_id
    pendingKey,     \* backends with an entry in _pending_work_requests
    sweepProfiles,  \* profiles a disconnect handler has still to query
    sweepJobs,      \* ids it has read and not visited yet
    sweepSettle,    \* the job it has found idle and not settled yet
    sweepRelease,   \* the job it has settled and not released yet
    \* History and bounds.
    granted,        \* times the job was handed to a worker
    touched,        \* jobs a cancel or a disconnect has interfered with
    spent           \* environment events used so far

durable == <<status, retries, result, media>>
worker  == <<pc, job, scanLeft, executing, event>>
reread  == <<readRetries, readResult>>
sweep   == <<sweepProfiles, sweepJobs, sweepSettle, sweepRelease>>
history == <<granted, touched, spent>>
vars == <<durable, registered, current, worker, tails, cancel, reread,
          pendingKey, sweep, history>>

ActiveStatus   == {"queued", "assigned", "processing"}
TerminalStatus == {"completed", "failed", "cancelled"}
Status == ActiveStatus \cup TerminalStatus \cup {"none", "deleted"}

\* Program points of _worker_loop, assign_next_job and _process_job.
AtLoop   == {"loop", "idle", "woken", "scan"}
InLock   == {"selected", "reserved"}
AtStart  == {"assigned", "begin"}
AtWork   == {"running", "result", "output", "failing", "fail", "lost"}
AtFinish == {"settled", "handedOff", "release", "leave"}
PC == AtLoop \cup InLock \cup AtStart \cup AtWork \cup AtFinish

Stages == {"ingest", "settle", "notify"}
CancelStage == {"none", "userRead", "userRelease", "clientRead", "deleteRead",
                "retryRead"}
Spending == {"disconnect", "restart", "fault", "userCancel", "clientCancel",
             "userRetry"}

ProfileOf(j) == j[1]
IdOf(j) == j[2]

-----------------------------------------------------------------------------
(* Shared helpers.                                                         *)

\* UPDATE ... WHERE id = j: a deleted row matches nothing.
Update(j, s) ==
    status' = IF status[j] = "deleted" THEN status
              ELSE [status EXCEPT ![j] = s]

\* Variant of CanAccept with a fault: the comparison admits one job too many.
CanAcceptOneMore(b) ==
    b \in registered /\ Cardinality(current[b]) <= MaxConcurrent[b]

\* BackendState.can_accept_job, by the number of distinct ids held.
CanAccept(b) ==
    /\ b \in registered
    /\ Cardinality(current[b]) < MaxConcurrent[b]

\* Variants of Release with a fault: a counter-style reset, and a release
\* that is forgotten.
ReleaseAll(j) == [current EXCEPT ![BackendOf[j]] = {}]
ReleaseNothing(j) == current

\* BackendRegistry.release_job.
Release(j) == [current EXCEPT ![BackendOf[j]] = @ \ {IdOf(j)}]

\* asyncio.Event.set wakes every task that waits.
Woken(f) == [w \in Workers |-> IF f[w] = "idle" THEN "woken" ELSE f[w]]

\* Variant of LockFree with a fault: the scheduler takes no lock.
NoLock == TRUE

\* assign_next_job holds the scheduler's lock from its first query to commit.
LockFree == \A w \in Workers : pc[w] \notin InLock

Goto(w, p) == pc' = [pc EXCEPT ![w] = p]

Spend(e) == spent' = [spent EXCEPT ![e] = @ + 1]

\* Variant of Settleable with a fault: only rows that wait are left alone.
SettleableTerminal(j) == status[j] \notin {"none", "queued", "deleted"}

\* The guarded update of _settle_disconnected_job: nothing happens unless the
\* row is still assigned or processing; the retry counter moves with it.
Settleable(j) == status[j] \in {"assigned", "processing"}

\* Variants of SettleRow with a fault: the retry is not persisted; the limit
\* is off by one.
SettleRowUncounted(j) ==
    status' = [status EXCEPT ![j] = "queued"] /\ UNCHANGED retries
SettleRowOneMore(j) ==
    IF retries[j] <= MaxDisconnectRetries
    THEN /\ status' = [status EXCEPT ![j] = "queued"]
         /\ retries' = [retries EXCEPT ![j] = @ + 1]
    ELSE status' = [status EXCEPT ![j] = "failed"] /\ UNCHANGED retries

SettleRow(j) ==
    IF retries[j] < MaxDisconnectRetries
    THEN /\ status' = [status EXCEPT ![j] = "queued"]
         /\ retries' = [retries EXCEPT ![j] = @ + 1]
    ELSE /\ status' = [status EXCEPT ![j] = "failed"]
         /\ UNCHANGED retries

-----------------------------------------------------------------------------
Init ==
    /\ status = [j \in Job |-> "none"]
    /\ retries = [j \in Job |-> 0]
    /\ result = [j \in Job |-> FALSE]
    /\ media = [j \in Job |-> FALSE]
    /\ registered = Backends
    /\ current = [b \in Backends |-> {}]
    /\ executing = {}
    /\ event = TRUE
    /\ pc = [w \in Workers |-> "loop"]
    /\ job = [w \in Workers |-> NoJob]
    /\ scanLeft = [w \in Workers |-> {}]
    /\ tails = [j \in Job |-> [s \in Stages |-> 0]]
    /\ cancel = [j \in Job |-> "none"]
    /\ readRetries = [j \in Job |-> 0]
    /\ readResult = [j \in Job |-> FALSE]
    /\ pendingKey = {}
    /\ sweepProfiles = [b \in Backends |-> {}]
    /\ sweepJobs = [b \in Backends |-> {}]
    /\ sweepSettle = [b \in Backends |-> NoJob]
    /\ sweepRelease = [b \in Backends |-> NoJob]
    /\ granted = [j \in Job |-> 0]
    /\ touched = {}
    /\ spent = [e \in Spending |-> 0]

-----------------------------------------------------------------------------
(* Clients.                                                                *)

\* _create_job: commit the row, then wake the workers.
Submit(j) ==
    /\ status[j] = "none"
    /\ status' = [status EXCEPT ![j] = "queued"]
    /\ event' = TRUE
    /\ pc' = Woken(pc)
    /\ UNCHANGED <<retries, result, media, registered, current, job, scanLeft,
                   executing, tails, cancel, reread, pendingKey, sweep,
                   history>>

\* delete_job reads the row and goes on if it failed or was cancelled ...
DeleteRead(j) ==
    /\ cancel[j] = "none"
    /\ status[j] \in {"failed", "cancelled"}
    /\ cancel' = [cancel EXCEPT ![j] = "deleteRead"]
    /\ UNCHANGED <<durable, registered, current, worker, tails, reread,
                   pendingKey, sweep, history>>

\* ... and deletes it, whatever it has become.
DeleteCommit(j) ==
    /\ cancel[j] = "deleteRead"
    /\ status' = [status EXCEPT ![j] = "deleted"]
    /\ cancel' = [cancel EXCEPT ![j] = "none"]
    /\ UNCHANGED <<retries, result, media, registered, current, worker, tails,
                   reread, pendingKey, sweep, history>>

\* cancel_job reads the row and returns False unless it is active.
CancelRead(j) ==
    /\ cancel[j] = "none"
    /\ spent["userCancel"] < MaxUserCancels
    /\ status[j] \in ActiveStatus
    /\ cancel' = [cancel EXCEPT ![j] = "userRead"]
    /\ touched' = touched \cup {j}
    /\ Spend("userCancel")
    /\ UNCHANGED <<durable, registered, current, worker, tails, reread,
                   pendingKey, sweep, granted>>

\* ... commits 'cancelled' whatever the row has become since ...
CancelCommit(j) ==
    /\ cancel[j] = "userRead"
    /\ Update(j, "cancelled")
    /\ cancel' = [cancel EXCEPT ![j] = IF status[j] = "deleted"
                                       THEN "none" ELSE "userRelease"]
    /\ UNCHANGED <<retries, result, media, registered, current, worker, tails,
                   reread, pendingKey, sweep, history>>

\* ... and, once the provider has acknowledged the interrupt, frees the slot.
CancelRelease(j) ==
    /\ cancel[j] = "userRelease"
    /\ current' = Release(j)
    /\ cancel' = [cancel EXCEPT ![j] = "none"]
    /\ UNCHANGED <<durable, registered, worker, tails, reread, pendingKey,
                   sweep, history>>

\* cancel_queued_jobs_for_instance (the owning client went away) reads the
\* queued rows of the instance ...
ClientCancelRead(j) ==
    /\ cancel[j] = "none"
    /\ spent["clientCancel"] < MaxClientCancels
    /\ status[j] = "queued"
    /\ cancel' = [cancel EXCEPT ![j] = "clientRead"]
    /\ touched' = touched \cup {j}
    /\ Spend("clientCancel")
    /\ UNCHANGED <<durable, registered, current, worker, tails, reread,
                   pendingKey, sweep, granted>>

\* ... and commits 'cancelled' for each of them; no slot is released.
ClientCancelCommit(j) ==
    /\ cancel[j] = "clientRead"
    /\ Update(j, "cancelled")
    /\ cancel' = [cancel EXCEPT ![j] = "none"]
    /\ UNCHANGED <<retries, result, media, registered, current, worker, tails,
                   reread, pendingKey, sweep, history>>

\* The retry route reads the row and refuses one that neither failed nor was
\* cancelled ...
RetryRead(j) ==
    /\ cancel[j] = "none"
    /\ spent["userRetry"] < MaxUserRetries
    /\ status[j] \in {"failed", "cancelled"}
    /\ cancel' = [cancel EXCEPT ![j] = "retryRead"]
    /\ readRetries' = [readRetries EXCEPT ![j] = retries[j]]
    /\ readResult' = [readResult EXCEPT ![j] = result[j]]
    /\ touched' = touched \cup {j}
    /\ Spend("userRetry")
    /\ UNCHANGED <<durable, registered, current, worker, tails, pendingKey,
                   sweep, granted>>

\* ... and queues it again, whatever it has become.  The parameters, retry
\* count included, are written back as they were read; result_media_id is
\* cleared if it was set then.  No worker is woken.
RetryCommit(j) ==
    /\ cancel[j] = "retryRead"
    /\ Update(j, "queued")
    /\ IF status[j] = "deleted"
       THEN UNCHANGED <<retries, result>>
       ELSE /\ retries' = [retries EXCEPT ![j] = readRetries[j]]
            /\ result' = [result EXCEPT ![j] = @ /\ ~readResult[j]]
    /\ cancel' = [cancel EXCEPT ![j] = "none"]
    /\ readRetries' = [readRetries EXCEPT ![j] = 0]
    /\ readResult' = [readResult EXCEPT ![j] = FALSE]
    /\ UNCHANGED <<media, registered, current, worker, tails, pendingKey, sweep,
                   history>>

CancelStep(j) ==
    \/ CancelCommit(j) \/ CancelRelease(j)
    \/ ClientCancelCommit(j) \/ DeleteCommit(j) \/ RetryCommit(j)

-----------------------------------------------------------------------------
(* The worker loop and assign_next_job.                                    *)

\* The top of the loop: wait for the event, or go straight through.
LoopTop(w) ==
    /\ pc[w] = "loop"
    /\ ~event
    /\ Goto(w, "idle")
    /\ UNCHANGED <<durable, registered, current, job, scanLeft, executing,
                   event, tails, cancel, reread, pendingKey, sweep, history>>

\* Variant of BeginScan with a fault: a wait that times out is begun again.
BeginScanWhenWoken(w) ==
    /\ \/ pc[w] \in {"woken", "idle"}
       \/ pc[w] = "loop" /\ event
    /\ IF registered = {} \/ pc[w] = "idle"
       THEN Goto(w, "loop") /\ UNCHANGED <<event, scanLeft>>
       ELSE /\ Goto(w, "scan")
            /\ event' = FALSE
            /\ scanLeft' = [scanLeft EXCEPT ![w] = Profiles \X registered]
    /\ UNCHANGED <<durable, registered, current, job, executing, tails, cancel,
                   reread, pendingKey, sweep, history>>

\* The event fired, was already set, or 300 seconds have passed: clear it and
\* list the backends.  With none registered the worker sleeps and retries.
BeginScan(w) ==
    /\ \/ pc[w] \in {"woken", "idle"}
       \/ pc[w] = "loop" /\ event
    /\ IF registered = {}
       THEN /\ pc' = Woken([pc EXCEPT ![w] = "loop"])
            /\ event' = TRUE
            /\ UNCHANGED scanLeft
       ELSE /\ Goto(w, "scan")
            /\ event' = FALSE
            /\ scanLeft' = [scanLeft EXCEPT ![w] = Profiles \X registered]
    /\ UNCHANGED <<durable, registered, current, job, executing, tails, cancel,
                   reread, pendingKey, sweep, history>>

Queued(p, b) ==
    {j \in Job : ProfileOf(j) = p /\ BackendOf[j] = b /\ status[j] = "queued"}

\* assign_next_job for one pair: which job it picks is GenerationScheduler's.
Select(w) ==
    /\ pc[w] = "scan"
    /\ LockFree
    /\ \E pair \in scanLeft[w] :
         LET p == pair[1]  b == pair[2]  left == scanLeft[w] \ {pair} IN
         /\ scanLeft' = [scanLeft EXCEPT ![w] = left]
         /\ \/ /\ CanAccept(b)
               /\ \E j \in Queued(p, b) :
                    /\ job' = [job EXCEPT ![w] = j]
                    /\ Goto(w, "selected")
            \/ /\ ~CanAccept(b) \/ Queued(p, b) = {}
               /\ UNCHANGED job
               /\ Goto(w, IF left = {} THEN "loop" ELSE "scan")
    /\ UNCHANGED <<durable, registered, current, executing, event, tails,
                   cancel, reread, pendingKey, sweep, history>>

\* BackendRegistry.assign_job takes the slot, or the session is rolled back.
Reserve(w) ==
    /\ pc[w] = "selected"
    /\ LET b == BackendOf[job[w]] IN
       IF CanAccept(b)
       THEN /\ current' = [current EXCEPT ![b] = @ \cup {IdOf(job[w])}]
            /\ Goto(w, "reserved")
            /\ UNCHANGED job
       ELSE /\ Goto(w, IF scanLeft[w] = {} THEN "loop" ELSE "scan")
            /\ job' = [job EXCEPT ![w] = NoJob]
            /\ UNCHANGED current
    /\ UNCHANGED <<durable, registered, scanLeft, executing, event, tails,
                   cancel, reread, pendingKey, sweep, history>>

\* The commit writes 'assigned' over whatever the row holds by then; if the
\* row is gone the flush raises and the worker starts over.
CommitAssign(w) ==
    /\ pc[w] = "reserved"
    /\ Update(job[w], "assigned")
    /\ IF status[job[w]] = "deleted"
       THEN /\ Goto(w, "loop")
            /\ job' = [job EXCEPT ![w] = NoJob]
            /\ UNCHANGED granted
       ELSE /\ Goto(w, "assigned")
            /\ granted' = [granted EXCEPT ![job[w]] = @ + 1]
            /\ UNCHANGED job
    /\ scanLeft' = [scanLeft EXCEPT ![w] = {}]
    /\ UNCHANGED <<retries, result, media, registered, current, executing,
                   event, tails, cancel, reread, pendingKey, sweep, touched,
                   spent>>

-----------------------------------------------------------------------------
(* _process_job.                                                           *)

\* The refreshed job is returned and marked as executing; the refresh raises,
\* and the worker starts over, if the row has been deleted in between.
Begin(w) ==
    /\ pc[w] = "assigned"
    /\ IF status[job[w]] = "deleted"
       THEN /\ Goto(w, "loop")
            /\ job' = [job EXCEPT ![w] = NoJob]
            /\ UNCHANGED executing
       ELSE /\ Goto(w, "begin")
            /\ executing' = executing \cup {job[w]}
            /\ UNCHANGED job
    /\ UNCHANGED <<durable, registered, current, scanLeft, event, tails,
                   cancel, reread, pendingKey, sweep, history>>

\* UPDATE ... WHERE status IN (queued, assigned, processing).
Start(w) ==
    /\ pc[w] = "begin"
    /\ IF status[job[w]] \in ActiveStatus
       THEN /\ status' = [status EXCEPT ![job[w]] = "processing"]
            /\ Goto(w, "running")
       ELSE /\ UNCHANGED status
            /\ Goto(w, "leave")
    /\ UNCHANGED <<retries, result, media, registered, current, job, scanLeft,
                   executing, event, tails, cancel, reread, pendingKey, sweep,
                   history>>

\* The provider answers with a result.
Answer(w) ==
    /\ pc[w] = "running"
    /\ BackendOf[job[w]] \in registered
    /\ Goto(w, "result")
    /\ UNCHANGED <<durable, registered, current, job, scanLeft, executing,
                   event, tails, cancel, reread, pendingKey, sweep, history>>

\* An exception: the provider's error is told apart from a lost connection by
\* its text alone; the database and the disk fail with other texts.
Raise(w) ==
    /\ \/ pc[w] = "running" /\ Goto(w, "lost")
       \/ /\ pc[w] \in {"begin", "running", "result", "output"}
          /\ Goto(w, "failing")
    /\ UNCHANGED <<durable, registered, current, job, scanLeft, executing,
                   event, tails, cancel, reread, pendingKey, sweep, history>>

\* The result of a cancelled job is discarded; the slot is the canceller's.
CheckResult(w) ==
    /\ pc[w] = "result"
    /\ Goto(w, IF status[job[w]] = "cancelled" THEN "leave" ELSE "output")
    /\ UNCHANGED <<durable, registered, current, job, scanLeft, executing,
                   event, tails, cancel, reread, pendingKey, sweep, history>>

\* Variant of Handoff with a fault: the tail settles the row before the
\* media is committed.
HandoffSettlesFirst(w) ==
    /\ pc[w] = "output"
    /\ tails' = [tails EXCEPT ![job[w]]["settle"] = @ + 1]
    /\ Goto(w, "handedOff")
    /\ UNCHANGED <<durable, registered, current, job, scanLeft, executing,
                   event, cancel, reread, pendingKey, sweep, history>>

\* The output is on disk: _spawn_finalize detaches the post-processing tail.
Handoff(w) ==
    /\ pc[w] = "output"
    /\ tails' = [tails EXCEPT ![job[w]]["ingest"] = @ + 1]
    /\ Goto(w, "handedOff")
    /\ UNCHANGED <<durable, registered, current, job, scanLeft, executing,
                   event, cancel, reread, pendingKey, sweep, history>>

\* The failure path reads the row first ...
CheckFailure(w) ==
    /\ pc[w] = "failing"
    /\ Goto(w, IF status[job[w]] = "cancelled" THEN "release" ELSE "fail")
    /\ UNCHANGED <<durable, registered, current, job, scanLeft, executing,
                   event, tails, cancel, reread, pendingKey, sweep, history>>

\* Variant of CommitFailure with a fault: the failure is broadcast but not
\* committed.
CommitFailureSkipped(w) ==
    /\ pc[w] = "fail"
    /\ Goto(w, "release")
    /\ UNCHANGED <<durable, registered, current, job, scanLeft, executing,
                   event, tails, cancel, reread, pendingKey, sweep, history>>

\* ... and then writes 'failed' without a condition on the status.
CommitFailure(w) ==
    /\ pc[w] = "fail"
    /\ Update(job[w], "failed")
    /\ Goto(w, "release")
    /\ UNCHANGED <<retries, result, media, registered, current, job, scanLeft,
                   executing, event, tails, cancel, reread, pendingKey, sweep,
                   history>>

\* Variant of Settle with a fault: the worker leaves the row to the
\* disconnect handler.
SettleSkipped(w) ==
    /\ pc[w] = "lost"
    /\ Goto(w, "leave")
    /\ touched' = touched \cup {job[w]}
    /\ UNCHANGED <<durable, registered, current, job, scanLeft, executing,
                   event, tails, cancel, reread, pendingKey, sweep, granted,
                   spent>>

\* The disconnect path: _settle_disconnected_job by the worker itself.
Settle(w) ==
    /\ pc[w] = "lost"
    /\ touched' = touched \cup {job[w]}
    /\ IF Settleable(job[w])
       THEN SettleRow(job[w]) /\ Goto(w, "settled")
       ELSE UNCHANGED <<status, retries>> /\ Goto(w, "leave")
    /\ UNCHANGED <<result, media, registered, current, job, scanLeft,
                   executing, event, tails, cancel, reread, pendingKey, sweep,
                   granted, spent>>

\* ... whose slot is released, and the event set, after the broadcasts.
SettleRelease(w) ==
    /\ pc[w] = "settled"
    /\ current' = Release(job[w])
    /\ event' = TRUE
    /\ pc' = Woken([pc EXCEPT ![w] = "leave"])
    /\ UNCHANGED <<durable, registered, job, scanLeft, executing, tails,
                   cancel, reread, pendingKey, sweep, history>>

\* Variant of ReleaseSlot with a fault: only a success gives the slot back.
ReleaseSlotAfterSuccess(w) ==
    /\ pc[w] \in {"handedOff", "release"}
    /\ current' = IF pc[w] = "handedOff" THEN Release(job[w]) ELSE current
    /\ Goto(w, "leave")
    /\ UNCHANGED <<durable, registered, job, scanLeft, executing, event, tails,
                   cancel, reread, pendingKey, sweep, history>>

\* on_job_completed, after a success, a failure or a cancelled failure.
ReleaseSlot(w) ==
    /\ pc[w] \in {"handedOff", "release"}
    /\ current' = Release(job[w])
    /\ Goto(w, "leave")
    /\ UNCHANGED <<durable, registered, job, scanLeft, executing, event, tails,
                   cancel, reread, pendingKey, sweep, history>>

\* The finally block, and the wake-up after a job that was found.
Leave(w) ==
    /\ pc[w] = "leave"
    /\ executing' = executing \ {job[w]}
    /\ job' = [job EXCEPT ![w] = NoJob]
    /\ event' = TRUE
    /\ pc' = Woken([pc EXCEPT ![w] = "loop"])
    /\ UNCHANGED <<durable, registered, current, scanLeft, tails, cancel,
                   reread, pendingKey, sweep, history>>

\* A database error in the refill that follows the hand-off and the release
\* is handled as if the generation had failed.
RefillFault(w) ==
    /\ pc[w] = "handedOff"
    /\ spent["fault"] < MaxFaults
    /\ Spend("fault")
    /\ current' = Release(job[w])
    /\ touched' = touched \cup {job[w]}
    /\ Goto(w, "failing")
    /\ UNCHANGED <<durable, registered, job, scanLeft, executing, event, tails,
                   cancel, reread, pendingKey, sweep, granted>>

\* A database error in the commit of an assignment or inside the error
\* handlers escapes to the worker loop, which sleeps and starts over: the slot
\* and the row stay as they are.
HandlerFault(w) ==
    /\ pc[w] \in {"reserved", "failing", "fail", "lost", "settled"}
    /\ spent["fault"] < MaxFaults
    /\ Spend("fault")
    /\ executing' = executing \ {job[w]}
    /\ touched' = touched \cup {job[w]}
    /\ job' = [job EXCEPT ![w] = NoJob]
    /\ scanLeft' = [scanLeft EXCEPT ![w] = {}]
    /\ Goto(w, "loop")
    /\ UNCHANGED <<durable, registered, current, event, tails, cancel, reread,
                   pendingKey, sweep, granted>>

WorkerStep(w) ==
    \/ LoopTop(w) \/ BeginScan(w) \/ Select(w) \/ Reserve(w)
    \/ CommitAssign(w) \/ Begin(w) \/ Start(w) \/ Answer(w)
    \/ Raise(w) \/ CheckResult(w) \/ Handoff(w) \/ CheckFailure(w)
    \/ CommitFailure(w) \/ Settle(w) \/ SettleRelease(w) \/ ReleaseSlot(w)
    \/ Leave(w)

-----------------------------------------------------------------------------
(* _finalize_job_safe: the detached post-processing tail.                  *)

MoveTail(j, from, to) ==
    tails' = [tails EXCEPT ![j][from] = @ - 1, ![j][to] = @ + 1]

DropTail(j, from) == tails' = [tails EXCEPT ![j][from] = @ - 1]

\* One transaction inserts the media and its durable root; it raises if the
\* row is gone.
Ingest(j) ==
    /\ tails[j]["ingest"] > 0
    /\ IF status[j] = "deleted"
       THEN DropTail(j, "ingest") /\ UNCHANGED <<result, media>>
       ELSE /\ MoveTail(j, "ingest", "settle")
            /\ result' = [result EXCEPT ![j] = TRUE]
            /\ media' = [media EXCEPT ![j] = TRUE]
    /\ UNCHANGED <<status, retries, registered, current, worker, cancel,
                   reread, pendingKey, sweep, history>>

\* A second transaction marks the job completed, whatever the row holds, and
\* points it at the media, if there is one.
Complete(j) ==
    /\ tails[j]["settle"] > 0
    /\ Update(j, "completed")
    /\ result' = IF status[j] = "deleted" THEN result
                 ELSE [result EXCEPT ![j] = media[j]]
    /\ MoveTail(j, "settle", "notify")
    /\ UNCHANGED <<retries, media, registered, current, worker, cancel,
                   reread, pendingKey, sweep, history>>

\* Markers, broadcasts, batch bookkeeping: no effect on the row.
Notify(j) ==
    /\ tails[j]["notify"] > 0
    /\ DropTail(j, "notify")
    /\ UNCHANGED <<durable, registered, current, worker, cancel, reread,
                   pendingKey, sweep, history>>

\* An exception at any stage marks the job failed, even after it completed.
TailFails(j) ==
    /\ \E s \in Stages : tails[j][s] > 0 /\ DropTail(j, s)
    /\ Update(j, "failed")
    /\ UNCHANGED <<retries, result, media, registered, current, worker, cancel,
                   reread, pendingKey, sweep, history>>

\* The handler of that exception can fail too: the row stays as it is.
TailLost(j) ==
    /\ spent["fault"] < MaxFaults
    /\ Spend("fault")
    /\ \E s \in Stages : tails[j][s] > 0 /\ DropTail(j, s)
    /\ touched' = touched \cup {j}
    /\ UNCHANGED <<durable, registered, current, worker, cancel, reread,
                   pendingKey, sweep, granted>>

TailStep(j) == Ingest(j) \/ Complete(j) \/ Notify(j)

-----------------------------------------------------------------------------
(* Provider connections: jsonrpc_manager's on_disconnect and reconnection. *)

\* A forever-mode refill creates the backend's entry in the pending table.
RequestWork(b) ==
    /\ b \in registered
    /\ b \notin pendingKey
    /\ pendingKey' = pendingKey \cup {b}
    /\ UNCHANGED <<durable, registered, current, worker, tails, cancel, reread,
                   sweep, history>>

\* The handler of the backend's last disconnect is still running.
Sweeping(b) ==
    \/ sweepProfiles[b] # {} \/ sweepJobs[b] # {}
    \/ sweepSettle[b] # NoJob \/ sweepRelease[b] # NoJob

\* The jobs some worker holds on a backend.
HeldOn(b) == {j \in Job : BackendOf[j] = b /\ \E w \in Workers : job[w] = j}

\* The connection is lost: waiting executions fail, the backend's state is
\* dropped, and cleanup_disconnected_backend runs.  It compares the popped
\* table entry (a list when there is one) with 0, which raises.
Disconnect(b) ==
    /\ b \in registered
    /\ spent["disconnect"] < MaxDisconnects
    /\ ~Sweeping(b)
    /\ Spend("disconnect")
    /\ registered' = registered \ {b}
    /\ current' = [current EXCEPT ![b] = {}]
    /\ pc' = [w \in Workers |->
                IF pc[w] = "running" /\ BackendOf[job[w]] = b
                THEN "lost" ELSE pc[w]]
    /\ pendingKey' = pendingKey \ {b}
    /\ sweepProfiles' = [sweepProfiles EXCEPT
                            ![b] = IF b \in pendingKey THEN {} ELSE Profiles]
    /\ touched' = touched \cup HeldOn(b)
    /\ UNCHANGED <<durable, job, scanLeft, executing, event, tails, cancel,
                   reread, sweepJobs, sweepSettle, sweepRelease, granted>>

\* requeue_jobs_for_backend reads the active ids of one profile ...
SweepRead(b, p) ==
    /\ p \in sweepProfiles[b]
    /\ sweepJobs[b] = {} /\ sweepSettle[b] = NoJob /\ sweepRelease[b] = NoJob
    /\ sweepProfiles' = [sweepProfiles EXCEPT ![b] = @ \ {p}]
    /\ sweepJobs' = [sweepJobs EXCEPT
         ![b] = {j \in Job : ProfileOf(j) = p /\ BackendOf[j] = b
                             /\ Settleable(j)}]
    /\ UNCHANGED <<durable, registered, current, worker, tails, cancel, reread,
                   pendingKey, sweepSettle, sweepRelease, history>>

\* ... skips the jobs a worker is executing ...
SweepVisit(b, j) ==
    /\ j \in sweepJobs[b]
    /\ sweepSettle[b] = NoJob /\ sweepRelease[b] = NoJob
    /\ sweepJobs' = [sweepJobs EXCEPT ![b] = @ \ {j}]
    /\ sweepSettle' = [sweepSettle EXCEPT
                           ![b] = IF j \in executing THEN NoJob ELSE j]
    /\ UNCHANGED <<durable, registered, current, worker, tails, cancel, reread,
                   pendingKey, sweepProfiles, sweepRelease, history>>

\* ... settles the others ...
SweepSettleRow(b) ==
    /\ sweepSettle[b] # NoJob
    /\ sweepSettle' = [sweepSettle EXCEPT ![b] = NoJob]
    /\ LET j == sweepSettle[b] IN
       IF Settleable(j)
       THEN /\ SettleRow(j)
            /\ sweepRelease' = [sweepRelease EXCEPT ![b] = j]
            /\ touched' = touched \cup {j}
       ELSE UNCHANGED <<status, retries, sweepRelease, touched>>
    /\ UNCHANGED <<result, media, registered, current, worker, tails, cancel,
                   reread, pendingKey, sweepProfiles, sweepJobs, granted,
                   spent>>

\* ... releasing each one's slot after its broadcast.
SweepSettled(b) ==
    /\ sweepRelease[b] # NoJob
    /\ current' = Release(sweepRelease[b])
    /\ sweepRelease' = [sweepRelease EXCEPT ![b] = NoJob]
    /\ event' = TRUE
    /\ pc' = Woken(pc)
    /\ UNCHANGED <<durable, registered, job, scanLeft, executing, tails,
                   cancel, reread, pendingKey, sweepProfiles, sweepJobs,
                   sweepSettle, history>>

\* A database error in the handler is logged and ends it.
SweepFault(b) ==
    /\ Sweeping(b)
    /\ spent["fault"] < MaxFaults
    /\ Spend("fault")
    /\ sweepProfiles' = [sweepProfiles EXCEPT ![b] = {}]
    /\ sweepJobs' = [sweepJobs EXCEPT ![b] = {}]
    /\ sweepSettle' = [sweepSettle EXCEPT ![b] = NoJob]
    /\ sweepRelease' = [sweepRelease EXCEPT ![b] = NoJob]
    /\ UNCHANGED <<durable, registered, current, worker, tails, cancel, reread,
                   pendingKey, granted, touched>>

SweepStep(b) ==
    \/ \E p \in Profiles : SweepRead(b, p)
    \/ \E j \in Job : SweepVisit(b, j)
    \/ SweepSettleRow(b)
    \/ SweepSettled(b)

\* The provider manager reconnects and registers the backend afresh.
Reconnect(b) ==
    /\ b \notin registered
    /\ registered' = registered \cup {b}
    /\ UNCHANGED <<durable, current, worker, tails, cancel, reread, pendingKey,
                   sweep, history>>

-----------------------------------------------------------------------------
\* Variant of Interrupted with a fault: only queued one-shot jobs are
\* settled at startup.
InterruptedQueued(j) == status[j] = "queued" /\ j \in Ephemeral

\* cleanup_stale_jobs: neither terminal nor durably queued.
Interrupted(j) ==
    \/ status[j] \in {"assigned", "processing"}
    \/ status[j] = "queued" /\ j \in Ephemeral

\* The process dies and starts again: memory is lost, and the startup fails
\* every job that was interrupted.
Restart ==
    /\ spent["restart"] < MaxRestarts
    /\ Spend("restart")
    /\ status' = [j \in Job |-> IF Interrupted(j) THEN "failed" ELSE status[j]]
    /\ registered' = Backends
    /\ current' = [b \in Backends |-> {}]
    /\ executing' = {}
    /\ event' = TRUE
    /\ pc' = [w \in Workers |-> "loop"]
    /\ job' = [w \in Workers |-> NoJob]
    /\ scanLeft' = [w \in Workers |-> {}]
    /\ tails' = [j \in Job |-> [s \in Stages |-> 0]]
    /\ cancel' = [j \in Job |-> "none"]
    /\ readRetries' = [j \in Job |-> 0]
    /\ readResult' = [j \in Job |-> FALSE]
    /\ pendingKey' = {}
    /\ sweepProfiles' = [b \in Backends |-> {}]
    /\ sweepJobs' = [b \in Backends |-> {}]
    /\ sweepSettle' = [b \in Backends |-> NoJob]
    /\ sweepRelease' = [b \in Backends |-> NoJob]
    /\ UNCHANGED <<retries, result, media, granted, touched>>

Next ==
    \/ \E j \in Job : \/ Submit(j) \/ DeleteRead(j) \/ CancelRead(j)
                      \/ ClientCancelRead(j) \/ RetryRead(j) \/ CancelStep(j)
                      \/ TailStep(j) \/ TailFails(j) \/ TailLost(j)
    \/ \E w \in Workers : WorkerStep(w) \/ RefillFault(w) \/ HandlerFault(w)
    \/ \E b \in Backends : \/ RequestWork(b) \/ Disconnect(b)
                           \/ SweepStep(b) \/ SweepFault(b) \/ Reconnect(b)
    \/ Restart

Spec == Init /\ [][Next]_vars

\* Every coroutine that can run is eventually run by the event loop, the 300
\* second wait expires, providers answer, and the manager retries connecting.
Fairness ==
    /\ \A w \in Workers : WF_vars(WorkerStep(w))
    /\ \A j \in Job : WF_vars(TailStep(j)) /\ WF_vars(CancelStep(j))
    /\ \A b \in Backends : WF_vars(SweepStep(b)) /\ WF_vars(Reconnect(b))

FairSpec == Spec /\ Fairness

-----------------------------------------------------------------------------
(* Properties.                                                             *)

\* Every variable holds a value of its type.
TypeOK ==
    /\ status \in [Job -> Status]
    /\ retries \in [Job -> 0..MaxDisconnectRetries]
    /\ result \in [Job -> BOOLEAN]
    /\ media \in [Job -> BOOLEAN]
    /\ registered \in SUBSET Backends
    /\ current \in [Backends -> SUBSET JobIds]
    /\ executing \in SUBSET Job
    /\ event \in BOOLEAN
    /\ pc \in [Workers -> PC]
    /\ job \in [Workers -> Job \cup {NoJob}]
    /\ \A w \in Workers : job[w] = NoJob <=> pc[w] \in AtLoop
    /\ scanLeft \in [Workers -> SUBSET (Profiles \X Backends)]
    /\ tails \in [Job -> [Stages -> Nat]]
    /\ cancel \in [Job -> CancelStage]
    /\ readRetries \in [Job -> 0..MaxDisconnectRetries]
    /\ readResult \in [Job -> BOOLEAN]
    /\ pendingKey \in SUBSET Backends
    /\ sweepProfiles \in [Backends -> SUBSET Profiles]
    /\ sweepJobs \in [Backends -> SUBSET Job]
    /\ sweepSettle \in [Backends -> Job \cup {NoJob}]
    /\ sweepRelease \in [Backends -> Job \cup {NoJob}]
    /\ granted \in [Job -> Nat]
    /\ touched \in SUBSET Job
    /\ spent \in [Spending -> Nat]

\* A worker is between taking a slot and giving it back.
Holding(w) ==
    pc[w] \in {"reserved", "assigned", "begin", "running", "result", "output",
              "failing", "fail", "lost", "settled", "handedOff", "release"}

Settled(j) == status[j] \in TerminalStatus \cup {"deleted"}

HasTail(j) == \E s \in Stages : tails[j][s] > 0

\* A worker is allowed to be at work on j.
WorksOn(w, j) == job[w] = j /\ Holding(w)

\* A job is handed to a worker at most once per attempt the retry limit allows
\* ("Three execution attempts, including the first"), the user's explicit
\* retries granting a fresh budget each, however disconnects, sweeps, cancels,
\* restarts and late commits interleave.
AttemptsBounded ==
    \A j \in Job :
        granted[j] <= (MaxDisconnectRetries + 1) * (spent["userRetry"] + 1)

\* A job is 'completed' only after its media was committed, also when the
\* process dies between the two transactions of _finalize_job.
CompletedHasResult == \A j \in Job : status[j] = "completed" => result[j]

\* A job that no cancel, disconnect or fault has interfered with is worked on
\* by one worker at most.
SoleExecutor ==
    \A v, w \in Workers : \A j \in Job \ touched :
        WorksOn(v, j) /\ WorksOn(w, j) => v = w

\* While a worker works on an undisturbed job, the job's slot is taken: no
\* other job's completion, cancellation or sweep has freed it.
SlotHeld ==
    \A w \in Workers : \A j \in Job \ touched :
        WorksOn(w, j) => IdOf(j) \in current[BackendOf[j]]

\* A slot taken by an undisturbed job is given back: some worker still holds
\* the job.
SlotOwned ==
    \A b \in Backends : \A j \in Job \ touched :
        (BackendOf[j] = b /\ IdOf(j) \in current[b])
            => \E w \in Workers : WorksOn(w, j)

\* Undisturbed jobs never execute on a backend in a greater number than the
\* backend reported it can run.
CapacityRespected ==
    \A b \in Backends :
        Cardinality({j \in Job \ touched :
                        BackendOf[j] = b /\ \E w \in Workers : WorksOn(w, j)})
            <= MaxConcurrent[b]

\* The row of an undisturbed job agrees with who has it: an active row has a
\* worker or a post-processing tail that will settle it, and a queued one has
\* neither, so that no other scan can hand it out twice or forget it.
RowHasActor ==
    \A j \in Job \ touched :
        /\ Settleable(j) => HasTail(j) \/ \E w \in Workers : WorksOn(w, j)
        /\ status[j] = "queued" =>
              /\ ~HasTail(j)
              /\ \A w \in Workers : job[w] = j => pc[w] \in InLock

\* Unless the user asks for a retry, a job goes back to 'queued' only by
\* spending one of its retries, and never from a terminal status ("Never
\* resurrect cancellation").
SpendsRetry(j) ==
    (status'[j] = "queued" /\ status[j] \notin {"none", "queued"})
        => \/ status[j] \notin TerminalStatus /\ retries'[j] = retries[j] + 1
           \/ cancel[j] = "retryRead" /\ cancel'[j] = "none"

RequeueSpendsRetry == [][\A j \in Job : SpendsRetry(j)]_vars

\* A submitted job reaches a terminal status.
EverySubmittedJobSettles ==
    \A j \in Job : status[j] = "queued" ~> Settled(j)

\* The backend's slots all become free again once every job has settled.
SlotsDrain ==
    \A b \in Backends :
        []<>(current[b] = {} \/ \E j \in Job : ~Settled(j) /\ status[j] # "none")

-----------------------------------------------------------------------------
(* What the queue promises.                                                *)

PhaseOf(s) == CASE s = "queued" -> "waiting"
                [] s \in {"assigned", "processing"} -> "working"
                [] s = "completed" -> "done"
                [] OTHER -> s

Promise == INSTANCE JobQueue WITH
    Attempts <- MaxDisconnectRetries + 1,
    phase <- [j \in Job |-> PhaseOf(status[j])],
    handed <- granted,
    product <- result,
    disturbed <- touched,
    rounds <- spent["userRetry"]

\* The queue implements JobQueue: an undisturbed job is handed out once and
\* ends once, through a product or a failure; a disturbed one stays within its
\* attempts, is not completed without a product and never returns once deleted.
KeepsPromise == Promise!Spec

-----------------------------------------------------------------------------
(* What makes AttemptsBounded and CompletedHasResult inductive.            *)

\* One worker at a time is between the lock's acquisition and the commit.
OneInLock ==
    \A v, w \in Workers : pc[v] \in InLock /\ pc[w] \in InLock => v = w

\* The job may still be handed out once more: it is not yet submitted, it is
\* queued, or a worker read it as queued and is about to commit.
Waiting(j) ==
    \/ status[j] \in {"none", "queued"}
    \/ \E w \in Workers : job[w] = j /\ pc[w] \in InLock

\* What the user's retries grant.
Budget == (MaxDisconnectRetries + 1) * spent["userRetry"]

\* The hand-outs made and still possible are paid for by the first attempt, the
\* retries spent and the user's retries; one that is not committed yet has not
\* granted anything.
AttemptsPaid ==
    \A j \in Job :
        granted[j] + (IF Waiting(j) THEN 1 ELSE 0)
                   + (IF cancel[j] = "retryRead" THEN MaxDisconnectRetries + 1 ELSE 0)
            <= retries[j] + 1 + Budget

\* A tail that is about to complete the job has committed its media.
TailHasMedia == \A j \in Job : tails[j]["settle"] > 0 => media[j]

\* What the row of an undisturbed job holds while a worker has the job ...
HeldWith(p) ==
    CASE p \in InLock -> {"queued"}
      [] p \in AtStart -> {"assigned"}
      [] p \in {"running", "result", "output", "lost"} -> {"processing"}
      [] p \in {"failing", "fail"} -> {"assigned", "processing"}
      [] p = "handedOff" -> {"processing", "completed", "failed", "deleted"}
      [] p = "release" -> {"failed", "deleted"}
      [] p = "leave" -> {"processing", "completed", "failed", "deleted"}
      [] OTHER -> {}

\* ... and while a tail has it.
TailedWith(s) == IF s = "notify" THEN "completed" ELSE "processing"

\* A worker has taken the job and not yet handed it to a tail or failed it.
AtIt(w) == pc[w] \in AtStart \cup AtWork

OneWorker(j) == \A v, w \in Workers : job[v] = j /\ job[w] = j => v = w

OneTail(j) ==
    \A s, t \in Stages : tails[j][s] > 0 /\ tails[j][t] > 0 => s = t /\ tails[j][s] = 1

\* The worker has left an undisturbed job before its tail exists.
TailAlone(j) ==
    HasTail(j) => \A w \in Workers : job[w] = j => pc[w] \in {"handedOff", "leave"}

RowFits(j) ==
    /\ cancel[j] \in {"none", "deleteRead"}
    /\ cancel[j] = "deleteRead" => status[j] \in {"failed", "cancelled"}
    /\ \A w \in Workers : job[w] = j => status[j] \in HeldWith(pc[w])
    /\ \A s \in Stages : tails[j][s] > 0 => status[j] = TailedWith(s)
    /\ tails[j]["settle"] > 0 => result[j]

\* An active row has a worker that is at it, or a tail.
RowIsCarried(j) ==
    Settleable(j) => HasTail(j) \/ \E w \in Workers : job[w] = j /\ AtIt(w)

\* A job that does not exist yet is in nobody's hands.
Fresh(j) ==
    status[j] = "none" =>
        /\ j \notin touched /\ cancel[j] = "none" /\ ~HasTail(j)
        /\ \A w \in Workers : job[w] # j

Sound(j) == OneWorker(j) /\ OneTail(j) /\ TailAlone(j) /\ RowFits(j) /\ RowIsCarried(j)

SoundInv ==
    /\ TypeOK
    /\ \A j \in Job : Fresh(j)
    /\ \A j \in Job \ touched : Sound(j)

AttemptsInv == TypeOK /\ OneInLock /\ AttemptsPaid
ResultInv == TypeOK /\ TailHasMedia /\ CompletedHasResult

-----------------------------------------------------------------------------
(* What comments and docstrings of the code say of it and it does not do.   *)

\* backend_registry: the scheduler respects "backend capacity limits", with
\* several profiles as with one.
NoOvercommit == CapacityRespected

\* cleanup_disconnected_backend "requeues active jobs": an active row with
\* neither worker nor tail is due for the sweep when its backend is lost.
Orphan(j) ==
    Settleable(j) /\ ~HasTail(j) /\ \A w \in Workers : job[w] # j

DisconnectRequeuesOrphans ==
    [][\A b \in Backends : (b \in registered /\ b \notin registered') =>
        \A j \in Job : BackendOf[j] = b /\ Orphan(j)
            => ProfileOf(j) \in sweepProfiles'[b]]_<<registered, sweepProfiles>>

\* _finalize_job_safe: a job that was generated is not requeued while its
\* post-processing runs.
GeneratedNeverRequeued ==
    [][\A j \in Job : HasTail(j) /\ HasTail(j)' /\ status[j] # "queued"
        => status'[j] # "queued"]_vars

\* A cancelled job stays cancelled until it is deleted.
CancelledIsFinal ==
    [][\A j \in Job : status[j] = "cancelled"
        => status'[j] \in {"cancelled", "deleted"}]_vars

\* retry_generation_job resets a job "to queued status with a new seed": what
\* completes a row is the execution of its last queueing.
QueuedIsNotCompleted ==
    [][\A j \in Job : status[j] = "queued" => status'[j] # "completed"]_vars

\* With no fault, every slot taken has a worker or a cancel that will free it.
EverySlotOwned ==
    \A b \in Backends : \A j \in Job :
        (BackendOf[j] = b /\ IdOf(j) \in current[b])
            => \/ \E w \in Workers : WorksOn(w, j)
               \/ cancel[j] \in {"userRead", "userRelease"}

\* requeue_jobs_for_backend and the disconnect path: "Let that worker release
\* its slot before another attempt starts".
OneAttemptAtATime ==
    \A v, w \in Workers : \A j \in Job :
        WorksOn(v, j) /\ WorksOn(w, j) => v = w

=============================================================================
