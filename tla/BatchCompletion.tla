--------------------------- MODULE BatchCompletion ---------------------------
(***************************************************************************)
(* The completion of a batch of generation jobs                            *)
(* (backend/generation_queue.py, _handle_batch_job_completion).            *)
(*                                                                         *)
(* Each job that settles runs a handler.  The handlers of a batch are      *)
(* separate coroutines: detached post-processing tails, workers, cancel    *)
(* requests.  A handler reads the rows once, puts its job's output in the  *)
(* batch's set file, and, when its reading says that the whole batch has   *)
(* settled, orders the file, makes the set an Asset and announces it.      *)
(*                                                                         *)
(* An output is <<job, attempt>>: a retried job produces another file.     *)
(***************************************************************************)
EXTENDS Integers, FiniteSets, Sequences, SequencesExt

CONSTANTS
    Total,          \* batch_total, the number of jobs of the batch
    MaxRestarts,    \* bound: restarts of the process
    MaxRetries,     \* bound: retries a user asks for
    Scenarios       \* the circumstances to study

FaultKind == {
    "generation",   \* a generation fails
    "cancel",       \* the user cancels a job
    "depart",       \* the page leaves: its queued jobs are cancelled
    "postprocess",  \* ingesting a generated file fails
    "delete",       \* the user deletes a failed or cancelled row
    "submission",   \* queueing a job raises after others were queued
    "restart",      \* the process dies
    "retry"}        \* the user retries a failed or cancelled row

\* Circumstances: do handlers of the batch overlap, and what may go wrong?
Scenario == [overlap : BOOLEAN, faults : SUBSET FaultKind]

ASSUME BatchAssumption ==
    /\ Total \in Nat \ {0}
    /\ MaxRestarts \in Nat /\ MaxRetries \in Nat
    /\ Scenarios \subseteq Scenario

VARIABLES
    scenario,       \* the circumstances of this behaviour
    status,         \* the rows' status; "none" before submission, "gone"
                    \* when deleted or never to be submitted
    attempt,        \* how often each job was retried
    pointer,        \* batch_output_set_id, 0 = NULL
    sets,           \* the set files made for the batch, by order of creation
    asset,          \* the container Asset of the batch
    handler,        \* the handler each job runs
    announced,      \* was batch_completed broadcast?
    restarts, retries

vars == <<status, attempt, pointer, sets, asset, handler, announced, restarts, retries>>

Jobs == 1..Total
Output == Jobs \X (0..MaxRetries)
Settled == {"completed", "failed", "cancelled"}
Status == {"none", "queued", "processing", "gone"} \cup Settled

NoAsset == [set |-> 0, members |-> <<>>]

Idle == [pc |-> "idle", item |-> FALSE, completed |-> {}, whole |-> FALSE,
         set |-> 0, seen |-> NoAsset]
Steps == {"idle", "read", "create", "store", "append", "reorder", "look", "commit", "announce"}

\* A set file holds outputs, and a handler works on a file that exists.
TypeOK ==
    /\ scenario \in Scenarios
    /\ status \in [Jobs -> Status]
    /\ attempt \in [Jobs -> 0..MaxRetries]
    /\ pointer \in 0..Len(sets)
    /\ \A s \in DOMAIN sets : sets[s] \in Seq(Output) /\ IsInjective(sets[s])
    /\ asset.set \in 0..Len(sets) /\ asset.members \in Seq(Output)
    /\ \A j \in Jobs :
          /\ handler[j].pc \in Steps
          /\ handler[j].completed \subseteq Output
          /\ handler[j].set \in (IF handler[j].pc \in {"store", "append", "reorder", "look", "commit"}
                                 THEN DOMAIN sets ELSE 0..Len(sets))
    /\ announced \in BOOLEAN
    /\ restarts \in 0..MaxRestarts /\ retries \in 0..MaxRetries

Init ==
    /\ scenario \in Scenarios
    /\ status = [j \in Jobs |-> "none"]
    /\ attempt = [j \in Jobs |-> 0]
    /\ pointer = 0
    /\ sets = <<>>
    /\ asset = NoAsset
    /\ handler = [j \in Jobs |-> Idle]
    /\ announced = FALSE
    /\ restarts = 0 /\ retries = 0

-----------------------------------------------------------------------------
(* The life of a job, as far as its batch sees it.                         *)

batchVars == <<pointer, sets, asset, announced>>

\* The handler of j starts, with the output j generated or with none.
Starts(j, item) ==
    handler' = [handler EXCEPT ![j] = [Idle EXCEPT !.pc = "read", !.item = item]]

\* The submit route queues the jobs one after the other.
Submit(j) ==
    /\ status[j] = "none"
    /\ \A i \in Jobs : i < j => status[i] # "none"
    /\ status' = [status EXCEPT ![j] = "queued"]
    /\ UNCHANGED <<attempt, handler, batchVars, restarts, retries>>

\* Queueing one of them raises: the route answers with an error and goes no
\* further; the jobs already queued stay.
SubmissionFails(j) ==
    /\ "submission" \in scenario.faults
    /\ j > 1
    /\ status[j] = "none"
    /\ \A i \in Jobs : i < j => status[i] # "none"
    /\ status' = [i \in Jobs |-> IF i >= j THEN "gone" ELSE status[i]]
    /\ UNCHANGED <<attempt, handler, batchVars, restarts, retries>>

Run(j) ==
    /\ status[j] = "queued"
    /\ status' = [status EXCEPT ![j] = "processing"]
    /\ UNCHANGED <<attempt, handler, batchVars, restarts, retries>>

\* The tail commits the row as completed, then calls the handler.
Complete(j) ==
    /\ status[j] = "processing"
    /\ status' = [status EXCEPT ![j] = "completed"]
    /\ Starts(j, TRUE)
    /\ UNCHANGED <<attempt, batchVars, restarts, retries>>

\* Variant with a fault: the worker reports the failure to no handler.
FailSilently(j) ==
    /\ "generation" \in scenario.faults
    /\ status[j] = "processing"
    /\ status' = [status EXCEPT ![j] = "failed"]
    /\ UNCHANGED <<attempt, handler, batchVars, restarts, retries>>

\* The worker commits the failure, then calls the handler without an output.
Fail(j) ==
    /\ "generation" \in scenario.faults
    /\ status[j] = "processing"
    /\ status' = [status EXCEPT ![j] = "failed"]
    /\ Starts(j, FALSE)
    /\ UNCHANGED <<attempt, batchVars, restarts, retries>>

\* _finalize_job_safe marks the row failed and calls no handler.
PostprocessingFails(j) ==
    /\ "postprocess" \in scenario.faults
    /\ status[j] = "processing"
    /\ status' = [status EXCEPT ![j] = "failed"]
    /\ UNCHANGED <<attempt, handler, batchVars, restarts, retries>>

\* cancel_job commits, then calls the handler.
Cancel(j) ==
    /\ "cancel" \in scenario.faults
    /\ status[j] \in {"queued", "processing"}
    /\ status' = [status EXCEPT ![j] = "cancelled"]
    /\ Starts(j, FALSE)
    /\ UNCHANGED <<attempt, batchVars, restarts, retries>>

\* cancel_queued_jobs_for_instance: the rows are cancelled, no handler called.
Depart ==
    /\ "depart" \in scenario.faults
    /\ \E j \in Jobs : status[j] = "queued"
    /\ status' = [j \in Jobs |-> IF status[j] = "queued" THEN "cancelled" ELSE status[j]]
    /\ UNCHANGED <<attempt, handler, batchVars, restarts, retries>>

\* delete_job, of a row that failed or was cancelled.
Delete(j) ==
    /\ "delete" \in scenario.faults
    /\ status[j] \in {"failed", "cancelled"}
    /\ status' = [status EXCEPT ![j] = "gone"]
    /\ UNCHANGED <<attempt, handler, batchVars, restarts, retries>>

\* Variant with a fault: the retried job writes to the file of its last attempt.
RetrySameOutput(j) ==
    /\ "retry" \in scenario.faults
    /\ retries < MaxRetries
    /\ status[j] \in {"failed", "cancelled"}
    /\ handler[j].pc = "idle"
    /\ status' = [status EXCEPT ![j] = "queued"]
    /\ retries' = retries + 1
    /\ UNCHANGED <<attempt, handler, batchVars, restarts>>

\* The retry route queues a failed or cancelled row again.
Retry(j) ==
    /\ "retry" \in scenario.faults
    /\ retries < MaxRetries
    /\ status[j] \in {"failed", "cancelled"}
    /\ handler[j].pc = "idle"
    /\ status' = [status EXCEPT ![j] = "queued"]
    /\ attempt' = [attempt EXCEPT ![j] = @ + 1]
    /\ retries' = retries + 1
    /\ UNCHANGED <<handler, batchVars, restarts>>

\* The process dies and starts again: cleanup_stale_jobs fails the rows it
\* was executing, and runs one handler for a batch that has such a row.
Restart ==
    /\ "restart" \in scenario.faults
    /\ restarts < MaxRestarts
    /\ restarts' = restarts + 1
    /\ LET broken == {j \in Jobs : status[j] = "processing"}
       IN  /\ status' = [j \in Jobs |-> IF j \in broken THEN "failed"
                                        ELSE IF status[j] = "none" THEN "gone" ELSE status[j]]
           /\ handler' = [j \in Jobs |->
                            IF j \in broken /\ \A i \in broken : i <= j
                            THEN [Idle EXCEPT !.pc = "read"] ELSE Idle]
    /\ UNCHANGED <<attempt, batchVars, retries>>

-----------------------------------------------------------------------------
(* The handler.                                                            *)

jobVars == <<attempt, restarts, retries>>

Goto(j, pc) == handler' = [handler EXCEPT ![j].pc = pc]

Completed == {<<j, attempt[j]>> : j \in {i \in Jobs : status[i] = "completed"}}

\* Variant with a fault: the batch is whole when the rows it has are.
WholeSoFar == \A j \in Jobs : status[j] \in Settled \cup {"none", "gone"}

\* completed_count + failed_count >= batch_total.
Whole == Cardinality({j \in Jobs : status[j] \in Settled}) >= Total

\* Outputs in the order of the batch's input.
InputOrder(outputs) ==
    CHOOSE s \in [1..Cardinality(outputs) -> outputs] :
        \A i, k \in 1..Cardinality(outputs) : i < k => s[i][1] < s[k][1]

\* Variant with a fault: two outputs are not ordered.
AfterItemUnordered(h, s) ==
    IF ~h.whole THEN "idle"
    ELSE IF s = 0 \/ h.completed = {} THEN "announce"
    ELSE IF Cardinality(h.completed) > 2 THEN "reorder" ELSE "look"

\* What follows once the handler's output is in the set.
AfterItem(h, s) ==
    IF ~h.whole THEN "idle"
    ELSE IF s = 0 \/ h.completed = {} THEN "announce"
    ELSE IF Cardinality(h.completed) > 1 THEN "reorder" ELSE "look"

\* One reading of the rows.  The first job holds the total; without it the
\* handler gives up.
Read(j) ==
    /\ handler[j].pc = "read"
    /\ scenario.overlap \/ \A i \in Jobs : handler[i].pc \in {"idle", "read"}
    /\ LET h == [handler[j] EXCEPT !.completed = Completed, !.whole = Whole, !.set = pointer]
       IN  handler' = [handler EXCEPT ![j] =
                IF status[1] = "gone" THEN Idle
                ELSE [h EXCEPT !.pc = IF ~h.item THEN AfterItem(h, h.set)
                                      ELSE IF h.set = 0 THEN "create" ELSE "append"]]
    /\ UNCHANGED <<status, jobVars, batchVars>>

\* create_batch_output_set writes and commits a new set with this output ...
CreateSet(j) ==
    /\ handler[j].pc = "create"
    /\ sets' = Append(sets, <<<<j, attempt[j]>>>>)
    /\ handler' = [handler EXCEPT ![j].set = Len(sets) + 1, ![j].pc = "store"]
    /\ UNCHANGED <<status, jobVars, pointer, asset, announced>>

\* ... and the rows are then pointed at it.
StorePointer(j) ==
    /\ handler[j].pc = "store"
    /\ pointer' = handler[j].set
    /\ Goto(j, AfterItem(handler[j], handler[j].set))
    /\ UNCHANGED <<status, jobVars, sets, asset, announced>>

\* Variant with a fault: the file is not read again under its lock.
AppendToStale(j) ==
    /\ handler[j].pc = "append"
    /\ sets' = [sets EXCEPT ![handler[j].set] = <<@[1], <<j, attempt[j]>>>>]
    /\ Goto(j, AfterItem(handler[j], handler[j].set))
    /\ UNCHANGED <<status, jobVars, pointer, asset, announced>>

\* append_to_set: under the set's lock, the file is read, extended and written.
AppendToSet(j) ==
    /\ handler[j].pc = "append"
    /\ sets' = [sets EXCEPT ![handler[j].set] = Append(@, <<j, attempt[j]>>)]
    /\ Goto(j, AfterItem(handler[j], handler[j].set))
    /\ UNCHANGED <<status, jobVars, pointer, asset, announced>>

\* reorder_set_items, under the same lock: only when every item is matched.
Reorder(j) ==
    /\ handler[j].pc = "reorder"
    /\ LET s == handler[j].set
           matched == InputOrder(handler[j].completed \cap ToSet(sets[s]))
       IN  sets' = IF Len(matched) = Len(sets[s]) THEN [sets EXCEPT ![s] = matched] ELSE sets
    /\ Goto(j, "look")
    /\ UNCHANGED <<status, jobVars, pointer, asset, announced>>

\* create_container_asset_from_media looks for the Asset of this Media ...
Look(j) ==
    /\ handler[j].pc = "look"
    /\ handler' = [handler EXCEPT ![j].seen = asset, ![j].pc = "commit"]
    /\ UNCHANGED <<status, jobVars, batchVars>>

\* ... and commits it, or is satisfied with one that has the same set and the
\* same members.  Anything else raises: a unique index when another handler
\* was faster, the idempotency key for another set, the immutable revision for
\* other members.  A tail that raises marks its job failed.
Commit(j) ==
    /\ handler[j].pc = "commit"
    /\ LET new == [set |-> handler[j].set, members |-> InputOrder(handler[j].completed)]
       IN  IF asset = handler[j].seen /\ asset \in {NoAsset, new}
           THEN /\ asset' = new
                /\ Goto(j, "announce")
                /\ UNCHANGED status
           ELSE /\ handler' = [handler EXCEPT ![j] = Idle]
                /\ status' = IF handler[j].item THEN [status EXCEPT ![j] = "failed"] ELSE status
                /\ UNCHANGED asset
    /\ UNCHANGED <<jobVars, pointer, sets, announced>>

\* broadcast('batch_completed').
Announce(j) ==
    /\ handler[j].pc = "announce"
    /\ announced' = TRUE
    /\ handler' = [handler EXCEPT ![j] = Idle]
    /\ UNCHANGED <<status, jobVars, pointer, sets, asset>>

HandlerStep(j) ==
    \/ Read(j)
    \/ CreateSet(j)
    \/ StorePointer(j)
    \/ AppendToSet(j)
    \/ Reorder(j)
    \/ Look(j)
    \/ Commit(j)
    \/ Announce(j)

Next ==
    /\ UNCHANGED scenario
    /\ \/ \E j \in Jobs :
             \/ Submit(j) \/ SubmissionFails(j) \/ Run(j)
             \/ Complete(j) \/ Fail(j) \/ PostprocessingFails(j)
             \/ Cancel(j) \/ Delete(j) \/ Retry(j)
             \/ HandlerStep(j)
       \/ Depart
       \/ Restart

Spec == Init /\ [][Next]_<<scenario, vars>>

\* Submissions, workers and handlers go on.  Nothing makes a user cancel,
\* delete or retry, nor a process restart.
Fairness ==
    \A j \in Jobs :
        /\ WF_vars(Submit(j) \/ SubmissionFails(j))
        /\ WF_vars(Run(j))
        /\ WF_vars(Complete(j) \/ Fail(j) \/ PostprocessingFails(j))
        /\ WF_vars(HandlerStep(j))

FairSpec == Spec /\ Fairness

-----------------------------------------------------------------------------
(* Properties.                                                             *)

\* A batch is announced as completed only when each of its jobs, those still
\* to be submitted included and those its user has retried excepted, has
\* settled: a handler decides from one reading, taken before it created,
\* ordered and committed the set.
AnnouncedWhenSettled ==
    [][(\E j \in Jobs : Announce(j)) =>
         \A j \in Jobs : status[j] \in Settled \cup {"gone"} \/ attempt[j] > 0]_vars

\* "Commit the completed compatibility set as one normalized Asset"
\* (generation_queue.py:3018): once no handler runs, the set file and the
\* Asset hold the same outputs in the same order, if the handlers did not
\* overlap and no row of the batch was deleted, retried or lost in a crash.
SetMatchesAsset ==
    (/\ asset # NoAsset
     /\ ~scenario.overlap
     /\ \A j \in Jobs : handler[j].pc = "idle" /\ status[j] # "gone"
     /\ restarts = 0 /\ retries = 0)
        => sets[asset.set] = asset.members

\* "If first job in batch: create output set with this result; if subsequent
\* job: append to existing output set" (generation_queue.py:2791-2792).
OneSet == Len(sets) <= 1

\* Each output reaches exactly one place of one set file, whatever the order in
\* which jobs complete and however their handlers overlap: nothing generated is
\* lost from the batch's result, or listed twice.  (A crash ends the handlers,
\* and no handler goes on once the first row, which holds the total, is deleted.)
OutputsAreKept ==
    \A j \in Jobs :
        (/\ status[j] = "completed" /\ handler[j].pc \notin {"read", "create", "append"}
         /\ restarts = 0 /\ status[1] # "gone")
            => Cardinality({place \in UNION {{s} \X DOMAIN sets[s] : s \in DOMAIN sets} :
                              sets[place[1]][place[2]] = <<j, attempt[j]>>}) = 1

\* "If all jobs complete: broadcast batch_completed event"
\* (generation_queue.py:2793).
SettledBatchAnnounced == (\A j \in Jobs : status[j] \in Settled) ~> announced

\* A page that runs forever mode submits its next batch when the last one is
\* announced (ToolView.vue:7336-7372): every batch that was begun is announced,
\* if its jobs end in a generation, a failed one or a cancel.
EveryBatchAnnounced ==
    (/\ status[1] # "none"
     /\ scenario.faults \subseteq {"generation", "cancel", "retry"}) ~> announced
=============================================================================
