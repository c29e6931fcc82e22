----------------------------- MODULE FlowEngine -----------------------------
(***************************************************************************)
(* The flow engine (backend/flow_runtime/engine.py, FlowRun).              *)
(*                                                                         *)
(* A flow is a graph of equations.  A scheduler loop hands the equations   *)
(* whose dependencies are settled to evaluations, which run as tasks of    *)
(* their own; people answer questions (tasks), retry, skip, redo and       *)
(* re-pick; every change is written through to state.db, from which a new  *)
(* process resumes.  All of it shares one thread: an action here is the    *)
(* code between two awaits that may suspend.                               *)
(*                                                                         *)
(* A value says what it was made from: the inputs of an equation are       *)
(* <<version of its definition, the results of its dependencies>>; a tool  *)
(* returns <<attempt, inputs>>, a control equation <<0, inputs>>, a choice *)
(* is <<pick, inputs>>, and an approved candidate is passed through.  The  *)
(* store of results is keyed by what the value says, so a hit in it is an  *)
(* evaluation that returns at once.                                        *)
(***************************************************************************)
EXTENDS Integers, FiniteSets, FiniteSetsExt

CONSTANTS
    NumEq,          \* equations are 1..NumEq, in the order of their registration
    Concurrency,    \* config.concurrency
    Pick,           \* the candidates a person may choose
    Request,        \* bound: answers and re-picks being handled at a time
    Task,           \* bound: ids of task rows in use at a time
    Scenarios       \* the circumstances to study

Eq == 1..NumEq
Kinds == {"tool", "select", "approve", "control"}
Hitl == {"select", "approve"}

\* What may disturb a run.
EventKind == {
    "invalidate",   \* somebody asks for an equation to be redone
    "reselect",     \* somebody changes a choice that was made
    "reject",       \* somebody rejects a candidate
    "fail",         \* an evaluation fails
    "resource",     \* an evaluation finds a resource exhausted
    "unavailable",  \* a tool is not registered
    "skip",         \* somebody skips a failed step of a loop
    "pause",        \* somebody pauses the flow, and resumes it
    "read",         \* a client reads the flow while its row says running
    "crash",        \* the process dies
    "quiet_edit",   \* the program is edited while no coroutine holds an equation
    "busy_edit"}    \* the program is edited at any time

\* Awaits that suspend: the promotion of an answer (a URL is downloaded) and
\* the ownership of the media an answer, a new choice or a collection carries.
Suspension == {"promote", "answer", "reselect", "control"}

\* deps are the dependencies, iteration the equations that are skipped
\* together with one ({} outside a foreach).
Graph == [kind : [Eq -> Kinds], deps : [Eq -> SUBSET Eq], iteration : [Eq -> SUBSET Eq]]
\* limit is a bound: how many disturbances a behaviour has.
Scenario == [graph : Graph, events : SUBSET EventKind, suspends : SUBSET Suspension, limit : Nat]

ASSUME FlowAssumption ==
    /\ NumEq \in Nat /\ Concurrency \in Nat \ {0}
    /\ Task \subseteq Nat /\ "none" \notin Request
    /\ Pick \cap {"approve", "reject"} = {}
    /\ \A s \in Scenarios :
          /\ DOMAIN s = {"graph", "events", "suspends", "limit"}
          /\ s.graph \in Graph /\ s.events \subseteq EventKind
          /\ s.suspends \subseteq Suspension /\ s.limit \in Nat
          /\ \A e \in Eq :
                /\ \A d \in s.graph.deps[e] : d < e
                /\ s.graph.kind[e] = "approve" => \E d \in s.graph.deps[e] : s.graph.deps[e] = {d}

VARIABLES
    scenario,   \* the circumstances of this behaviour
    mem,        \* the equations of the graph in memory
    row,        \* their rows in state.db
    version,    \* the definition of each equation in program.py
    eval,       \* the evaluations in flight (_in_flight)
    tasks,      \* the pending rows of the task table
    decided,    \* hitl_results
    state,      \* FlowRun.state; "unstarted": no FlowRun; "down": no process
    gate,       \* is _paused_event set?
    loop,       \* the scheduler loop
    wanted,     \* Flow.execution_state
    answer,     \* requests that answer a question or change a choice
    spent       \* disturbances so far

vars == <<mem, row, version, eval, tasks, decided, state, gate, loop, wanted, answer, spent>>

NoValue == <<>>
NewEq == [status |-> "pending", attempt |-> 1, result |-> NoValue, hash |-> NoValue]
NoEval == [pc |-> "none", version |-> 0, value |-> NoValue, hash |-> NoValue, old |-> FALSE]
NoTask == [eq |-> 0, type |-> "none", hash |-> NoValue, known |-> FALSE]
NoLoop == [pc |-> "none", eq |-> 0, value |-> NoValue, held |-> "graph"]
AtGate == [NoLoop EXCEPT !.pc = "gate"]
NoAnswer == [pc |-> "idle", task |-> 0, eq |-> 0, pick |-> "none", value |-> NoValue,
             hash |-> NoValue, held |-> "graph"]

\* The equation a coroutine holds over an await is the graph's, or an edit has
\* put another in its place, which cannot complete it if it was skipped.
Hold == {"graph", "replaced", "skipped"}

Status == {"pending", "computing", "completed", "failed", "awaiting", "waiting", "skipped"}
Kind(e) == scenario.graph.kind[e]
Deps(e) == scenario.graph.deps[e]
Iteration(e) == scenario.graph.iteration[e]
Suspends(what) == what \in scenario.suspends

\* Variant of Descendants with a fault: what needs e indirectly is overlooked.
DirectDependents(e) == {n \in Eq : e \in Deps(n)}

\* The equations that need e, directly or not: the least set that holds what
\* depends on e or on a member.
Descendants(e) ==
    LET Closed(S) == \A n \in Eq : Deps(n) \cap (S \cup {e}) # {} => n \in S
    IN  {n \in Eq : \A S \in SUBSET Eq : Closed(S) => n \in S}

Cascade(e) == {e} \cup Descendants(e)

\* _STATUS_TRANSITIONS; a status may always be set to itself.
Transitions == [
    pending   |-> Status,
    computing |-> Status \ {"skipped"},
    completed |-> {},
    failed    |-> {"pending", "skipped", "completed"},
    awaiting  |-> {"completed", "pending"},
    waiting   |-> {"pending", "skipped", "completed"},
    skipped   |-> {"pending"}]

Allowed(from, to) == to = from \/ to \in Transitions[from]

-----------------------------------------------------------------------------
(* Equations and values *)

Up == state # "down"
HasRun == state \in {"idle", "running", "paused"}
InFlight == {e \in Eq : eval[e].pc # "none"}
Settled(e) == mem[e].status \in {"completed", "skipped"}
Ready(e) == mem[e].status = "pending" /\ \A d \in Deps(e) : Settled(d)

\* A skipped step gives nothing (_collect_foreach_result), whatever its
\* evaluation left on the equation when it returned later.
Inputs(e, v) ==
    <<v, [d \in Deps(e) |-> IF mem[d].status = "skipped" THEN NoValue ELSE mem[d].result]>>

\* What the answer to a question makes of the equation that asked.
Chosen(e, pick, hash) ==
    IF Kind(e) = "approve" THEN mem[CHOOSE d \in Deps(e) : TRUE].result ELSE <<pick, hash>>

\* The same change to the equations in memory and to their rows.
Persist(Change(_, _)) ==
    /\ mem' = [e \in Eq |-> Change(e, mem[e])]
    /\ row' = [e \in Eq |-> Change(e, row[e])]

SetStatus(S, status) ==
    LET Change(e, r) == IF e \in S THEN [r EXCEPT !.status = status] ELSE r
    IN  Persist(Change)

\* Variant of SetResult with a fault: the result is not written to its row.
SetResultInMemory(x, value) ==
    /\ mem' = [mem EXCEPT ![x].status = "completed", ![x].result = value]
    /\ UNCHANGED row

SetResult(x, value) ==
    LET Change(e, r) ==
            IF e = x THEN [r EXCEPT !.status = "completed", !.result = value] ELSE r
    IN  Persist(Change)

-----------------------------------------------------------------------------
(* Tasks *)

Pending(t) == tasks[t].type # "none"

\* Variant of Cancelled with a fault: the records are dropped, the rows stay.
CancelledRecords(S) ==
    [t \in Task |-> IF tasks[t].eq \in S THEN [tasks[t] EXCEPT !.known = FALSE] ELSE tasks[t]]

\* Rows that belong to equations of S are closed, their records dropped.
Cancelled(S) == [t \in Task |-> IF tasks[t].eq \in S THEN NoTask ELSE tasks[t]]

FreeTasks(ts) == {t \in Task : ts[t] = NoTask /\ \A r \in Request : answer[r].task # t}
Insert(ts, task) == /\ FreeTasks(ts) # {}
                    /\ tasks' = [ts EXCEPT ![Min(FreeTasks(ts))] = task]

\* An error or a missing tool replaces what was pending on the equation.
Surface(e, type) == Insert(Cancelled({e}), [NoTask EXCEPT !.eq = e, !.type = type])

Ask(e, hash) ==
    Insert(tasks, [eq |-> e, type |-> Kind(e), hash |-> hash, known |-> TRUE])

-----------------------------------------------------------------------------
(* Starting, pausing and reviving the scheduler loop *)

Disturb(kind) == /\ kind \in scenario.events /\ spent < scenario.limit
                 /\ spent' = spent + 1

EnsureActive ==
    IF state = "paused" \/ loop.pc # "none" THEN UNCHANGED <<state, gate, loop>>
    ELSE state' = "running" /\ gate' = TRUE /\ loop' = AtGate

\* Variant of Orphaned with a fault: nobody looks for lost evaluations.
NothingOrphaned == {}

\* Equations marked as computing that no evaluation computes.
Orphaned == {e \in Eq : mem[e].status = "computing" /\ eval[e].pc = "none"}

\* FlowRun.start.  From "paused" it sets the state and leaves the gate closed;
\* a loop that had not noticed the pause goes on beside the new one, and two
\* loops at the gate act as one.
Start ==
    IF state = "running" /\ loop.pc # "none"
    THEN UNCHANGED <<mem, row, state, loop>>
    ELSE /\ SetStatus(Orphaned, "pending")
         /\ state' = "running"
         /\ loop' = IF loop.pc = "none" THEN AtGate ELSE loop

\* A client reads the flow: a flow whose row says running is started.
Read ==
    /\ "read" \in scenario.events /\ HasRun /\ wanted = "running"
    /\ Start
    /\ UNCHANGED <<version, eval, tasks, decided, gate, wanted, answer, spent>>

Pause ==
    /\ HasRun /\ wanted = "running" /\ Disturb("pause")
    /\ wanted' = "paused"
    /\ IF state = "running" THEN state' = "paused" /\ gate' = FALSE
                            ELSE UNCHANGED <<state, gate>>
    /\ UNCHANGED <<mem, row, version, eval, tasks, decided, loop, answer>>

Resume ==
    /\ Up /\ wanted = "paused"
    /\ wanted' = "running"
    /\ CASE state = "unstarted" -> Start /\ UNCHANGED gate
         [] state = "paused" -> /\ SetStatus(Orphaned, "pending")
                                /\ state' = "running" /\ gate' = TRUE
                                /\ loop' = IF loop.pc = "none" THEN AtGate ELSE loop
         [] OTHER -> UNCHANGED <<mem, row, state, gate, loop>>
    /\ UNCHANGED <<version, eval, tasks, decided, answer, spent>>

-----------------------------------------------------------------------------
(* The scheduler loop *)

\* One tick: evaluations that nobody runs are pending again, and the first
\* ready equations that fit are launched.  A control equation completes at
\* once, unless the ownership of its media is awaited: the loop waits with it.
\* The equations listed after it are left to the next tick.
Tick ==
    /\ loop.pc = "gate" /\ state = "running" /\ gate
    /\ LET stale == Orphaned
           ready == {e \in Eq : (e \in stale \/ mem[e].status = "pending")
                                /\ \A d \in Deps(e) : Settled(d)}
           fits == {e \in ready : Cardinality({x \in ready : x < e})
                                  < Concurrency - Cardinality(InFlight)} \ InFlight
           slow == IF Suspends("control") THEN {e \in fits : Kind(e) = "control"} ELSE {}
           launched == IF slow = {} THEN fits ELSE {e \in fits : e < Min(slow)}
           value(e) == <<0, Inputs(e, version[e])>>
           Change(e, r) ==
               CASE e \in launched /\ Kind(e) = "control" ->
                        [r EXCEPT !.status = "completed", !.result = value(e)]
                 [] e \in launched /\ Kind(e) # "control" -> [r EXCEPT !.status = "computing"]
                 [] e \in stale \ launched -> [r EXCEPT !.status = "pending"]
                 [] OTHER -> r
       IN  /\ Persist(Change)
           /\ eval' = [e \in Eq |-> IF e \in launched /\ Kind(e) # "control"
                                    THEN [NoEval EXCEPT !.pc = "queued", !.version = version[e]]
                                    ELSE eval[e]]
           /\ loop' = IF slow = {} THEN loop
                      ELSE [NoLoop EXCEPT !.pc = "control", !.eq = Min(slow),
                                          !.value = value(Min(slow))]
    /\ UNCHANGED <<version, tasks, decided, state, gate, wanted, answer, spent>>

\* The equation held over an await may complete, and does: one that an edit has
\* replaced writes the row, which is the new one's.
MayComplete(e, held) ==
    held = "replaced" \/ (held = "graph" /\ Allowed(mem[e].status, "completed"))

CompleteHeld(e, held, value) ==
    IF held = "graph" THEN SetResult(e, value)
    ELSE /\ row' = [row EXCEPT ![e].status = "completed", ![e].result = value]
         /\ UNCHANGED mem

\* The media of a control equation are owned.  An equation that may not be
\* completed any more raises, and the loop dies with it.
ControlDone ==
    /\ loop.pc = "control"
    /\ IF MayComplete(loop.eq, loop.held)
       THEN CompleteHeld(loop.eq, loop.held, loop.value) /\ loop' = AtGate /\ UNCHANGED state
       ELSE /\ loop' = NoLoop
            /\ state' = IF state = "running" THEN "idle" ELSE state
            /\ UNCHANGED <<mem, row>>
    /\ UNCHANGED <<version, eval, tasks, decided, gate, wanted, answer, spent>>

\* The loop notices that the run is not running any more.
LoopEnds ==
    /\ loop.pc = "gate" /\ state \in {"idle", "paused"}
    /\ loop' = NoLoop
    /\ UNCHANGED <<mem, row, version, eval, tasks, decided, state, gate, wanted, answer, spent>>

-----------------------------------------------------------------------------
(* Evaluations *)

\* An evaluation writes to the equation it was started with.  After an edit
\* that is not the equation of the graph any more, but the row has its key.
Write(e, Change(_)) ==
    /\ mem' = IF eval[e].old THEN mem ELSE [mem EXCEPT ![e] = Change(mem[e])]
    /\ row' = [row EXCEPT ![e] = Change(row[e])]

May(e, status) == eval[e].old \/ Allowed(mem[e].status, status)

Finished(e) == eval' = [eval EXCEPT ![e] = NoEval]

\* _finalize_failure and _park_waiting_for_tool; a transition that is not
\* allowed raises, and what _evaluate_with_cap does then changes nothing.
Fail(e, status, type) ==
    IF May(e, status)
    THEN LET Change(r) == [r EXCEPT !.status = status]
         IN  Write(e, Change) /\ Surface(e, type)
    ELSE UNCHANGED <<mem, row, tasks>>

Decision(e, hash) == {d \in decided : d.eq = e /\ d.hash = hash}

\* Variant of Stored with a fault: the answer is not stored.
StoredNowhere(e, hash, pick) == decided
Stored(e, hash, pick) ==
    (decided \ Decision(e, hash)) \cup {[eq |-> e, hash |-> hash, pick |-> pick]}

\* The evaluation's first step reads the inputs.  A question is answered from
\* hitl_results or put to a person; everything else goes to its evaluator.
BeginEval(e) ==
    /\ eval[e].pc = "queued"
    /\ LET hash == Inputs(e, eval[e].version)
           remember(m) == IF eval[e].old THEN m ELSE [m EXCEPT ![e].hash = hash]
           run(value) == /\ eval' = [eval EXCEPT ![e].pc = "running", ![e].value = value,
                                                 ![e].hash = hash]
                         /\ mem' = remember(mem)
                         /\ UNCHANGED <<row, tasks>>
           ask == /\ Ask(e, hash)
                  /\ IF May(e, "awaiting")
                     THEN LET Change(r) == [r EXCEPT !.status = "awaiting", !.hash = hash]
                          IN  Write(e, Change)
                     ELSE mem' = remember(mem) /\ UNCHANGED row
                  /\ Finished(e)
       IN  IF \E d \in Deps(e) : mem[d].status # "completed"
           THEN Fail(e, "failed", "error") /\ Finished(e)
           ELSE \/ /\ Kind(e) = "tool"
                   /\ run(<<mem[e].attempt, hash>>)
                \/ /\ Kind(e) \in Hitl
                   /\ IF Decision(e, hash) = {} THEN ask
                      ELSE run(Chosen(e, (CHOOSE d \in Decision(e, hash) : TRUE).pick, hash))
    /\ UNCHANGED <<version, decided, state, gate, loop, wanted, answer, spent>>

\* The evaluation returns and the ownership of its media is settled.
Succeed(e) ==
    /\ eval[e].pc = "running"
    /\ Finished(e)
    /\ LET Change(r) == [r EXCEPT !.status = "completed", !.result = eval[e].value,
                                  !.hash = eval[e].hash]
       IN  IF May(e, "completed") THEN Write(e, Change)
           ELSE mem' = [mem EXCEPT ![e].result = eval[e].value] /\ UNCHANGED row
    /\ UNCHANGED <<version, tasks, decided, state, gate, loop, wanted, answer, spent>>

\* The evaluation, retries included, or the ownership of its media fails.
FailEval(e) ==
    /\ eval[e].pc = "running" /\ Disturb("fail")
    /\ Fail(e, "failed", "error") /\ Finished(e)
    /\ UNCHANGED <<version, decided, state, gate, loop, wanted, answer>>

\* A resource is exhausted: the run pauses itself, the flow's row does not.
ExhaustEval(e) ==
    /\ eval[e].pc = "running" /\ Kind(e) = "tool" /\ Disturb("resource")
    /\ Fail(e, "failed", "error") /\ Finished(e)
    /\ IF May(e, "failed") /\ state = "running"
       THEN state' = "paused" /\ gate' = FALSE ELSE UNCHANGED <<state, gate>>
    /\ UNCHANGED <<version, decided, loop, wanted, answer>>

\* The tool's provider is away: the equation waits for it.
ParkEval(e) ==
    /\ eval[e].pc = "running" /\ Kind(e) = "tool" /\ Disturb("unavailable")
    /\ Fail(e, "waiting", "waiting_for_tool") /\ Finished(e)
    /\ UNCHANGED <<version, decided, state, gate, loop, wanted, answer>>

\* The tool was registered: what waited for it is pending again.
ToolsChanged(e) ==
    /\ state = "running" /\ mem[e].status = "waiting"
    /\ SetStatus({e}, "pending")
    /\ tasks' = Cancelled({e})
    /\ UNCHANGED <<version, eval, decided, state, gate, loop, wanted, answer, spent>>

-----------------------------------------------------------------------------
(* Invalidation *)

\* _reset_equation_to_pending for every equation of S: an evaluation in flight
\* is cancelled, a question withdrawn, its decision forgotten.
Forgotten(S) ==
    {d \in decided : ~(d.eq \in S /\ Kind(d.eq) \in Hitl /\ d.hash = mem[d.eq].hash)}
Uncomputed(S) ==
    [e \in Eq |-> IF e \in S /\ mem[e].status = "computing" THEN NoEval ELSE eval[e]]

\* Equations of Redo are the ones asked for: their attempt is counted.
Reset(S, Redo) ==
    LET Change(e, r) ==
            IF e \notin S THEN r
            ELSE [r EXCEPT !.status = "pending", !.result = NoValue,
                           !.attempt = mem[e].attempt + (IF e \in Redo THEN 1 ELSE 0)]
    IN  /\ Persist(Change)
        /\ eval' = Uncomputed(S)
        /\ decided' = Forgotten(S)

Invalidate(e) ==
    /\ HasRun /\ Disturb("invalidate")
    /\ Reset(Cascade(e), {e})
    /\ tasks' = Cancelled(Cascade(e))
    /\ EnsureActive
    /\ UNCHANGED <<version, wanted, answer>>

-----------------------------------------------------------------------------
(* Answers *)

\* A choice is made, or a candidate approved or rejected.
Picks(e) == IF Kind(e) = "select" THEN Pick ELSE {"approve", "reject"}
Question(t) == tasks[t].type \in Hitl

\* Everything of resolve_task after the promotion.
Decide(r, a, ts) ==
    LET awaiting == mem[a.eq].status = "awaiting"
        closed == [ts EXCEPT ![a.task] = NoTask]
    IN  IF a.pick = "reject"
        THEN LET roots == Deps(a.eq)
                 reset == UNION {Cascade(d) : d \in roots}
             IN  /\ awaiting /\ Disturb("reject")
                 /\ Reset(reset, roots)
                 /\ tasks' = [t \in Task |-> IF closed[t].eq \in reset THEN NoTask ELSE closed[t]]
                 /\ EnsureActive
                 /\ answer' = [answer EXCEPT ![r] = NoAnswer]
        ELSE /\ tasks' = closed
             /\ decided' = Stored(a.eq, a.hash, a.pick)
             /\ IF awaiting /\ Suspends("answer")
                THEN /\ answer' = [answer EXCEPT ![r] =
                            [a EXCEPT !.pc = "finalize", !.task = 0,
                                      !.value = Chosen(a.eq, a.pick, a.hash)]]
                     /\ UNCHANGED <<mem, row, state, gate, loop>>
                ELSE /\ IF awaiting THEN SetResult(a.eq, Chosen(a.eq, a.pick, a.hash))
                                    ELSE UNCHANGED <<mem, row>>
                     /\ EnsureActive
                     /\ answer' = [answer EXCEPT ![r] = NoAnswer]
             /\ UNCHANGED <<eval, spent>>

\* The route found the task pending; the record of the question is taken out
\* before the promotion of the answer is awaited.
Answer(r, t, pick) ==
    /\ HasRun /\ answer[r].pc = "idle"
    /\ Question(t) /\ pick \in Picks(tasks[t].eq)
    /\ LET a == [NoAnswer EXCEPT !.pc = "promote", !.task = t, !.eq = tasks[t].eq,
                                 !.pick = pick, !.hash = tasks[t].hash]
       IN  IF Suspends("promote") /\ pick # "reject"
           THEN /\ answer' = [answer EXCEPT ![r] = a]
                /\ tasks' = [tasks EXCEPT ![t].known = FALSE]
                /\ UNCHANGED <<mem, row, eval, decided, state, gate, loop, spent>>
           ELSE Decide(r, a, tasks)
    /\ UNCHANGED <<version, wanted>>

Promoted(r) ==
    /\ answer[r].pc = "promote"
    /\ Decide(r, answer[r], tasks)
    /\ UNCHANGED <<version, wanted>>

\* The media of the answer are owned; if the equation may not complete any
\* more the request raises and wakes nobody.
AnswerOwned(r) ==
    /\ answer[r].pc = "finalize"
    /\ answer' = [answer EXCEPT ![r] = NoAnswer]
    /\ LET e == answer[r].eq
           held == answer[r].held
       IN  IF MayComplete(e, held)
           THEN CompleteHeld(e, held, answer[r].value) /\ EnsureActive
           ELSE /\ mem' = IF held # "graph" THEN mem
                          ELSE [mem EXCEPT ![e].result = answer[r].value]
                /\ UNCHANGED <<row, state, gate, loop>>
    /\ UNCHANGED <<version, eval, tasks, decided, wanted, spent>>

\* Without a run a rejection is refused, as what it resets could not be.
\* Variant of OfflinePicks with a fault: it is stored like any other answer.
OfflinePicksAll(e) == Picks(e)
OfflinePicks(e) == Picks(e) \ {"reject"}

AnswerOffline(t, pick) ==
    /\ state = "unstarted"
    /\ Question(t) /\ pick \in OfflinePicks(tasks[t].eq)
    /\ decided' = Stored(tasks[t].eq, tasks[t].hash, pick)
    /\ tasks' = [tasks EXCEPT ![t] = NoTask]
    /\ UNCHANGED <<mem, row, version, eval, state, gate, loop, wanted, answer, spent>>

\* A choice that was made is changed: what depends on it is reset first.
Reselect(r, e, pick) ==
    /\ HasRun /\ answer[r].pc = "idle" /\ Disturb("reselect")
    /\ Kind(e) = "select" /\ mem[e].status = "completed" /\ pick \in Pick
    /\ LET value == <<pick, mem[e].hash>>
           S == Descendants(e)
           Change(x, q) ==
               IF x \in S THEN [q EXCEPT !.status = "pending", !.result = NoValue,
                                         !.attempt = mem[x].attempt]
               ELSE IF x = e /\ ~Suspends("reselect") THEN [q EXCEPT !.result = value] ELSE q
       IN  /\ Persist(Change)
           /\ eval' = Uncomputed(S)
           /\ tasks' = Cancelled(S)
           /\ IF Suspends("reselect")
              THEN /\ decided' = Forgotten(S)
                   /\ answer' = [answer EXCEPT ![r] = [NoAnswer EXCEPT
                          !.pc = "swap", !.eq = e, !.pick = pick, !.value = value]]
              ELSE /\ decided' = (Forgotten(S) \ Decision(e, mem[e].hash))
                                   \cup {[eq |-> e, hash |-> mem[e].hash, pick |-> pick]}
                   /\ UNCHANGED answer
    /\ UNCHANGED <<version, state, gate, loop, wanted>>

\* The media of the new choice are owned: it takes the place of the old one, on
\* the equation that was asked for and on its row.
Swap(r) ==
    /\ answer[r].pc = "swap"
    /\ LET e == answer[r].eq
           inGraph == answer[r].held = "graph"
       IN  /\ mem' = IF inGraph THEN [mem EXCEPT ![e].result = answer[r].value] ELSE mem
           /\ row' = [row EXCEPT ![e].status = "completed", ![e].result = answer[r].value]
           /\ decided' = Stored(e, IF inGraph THEN mem[e].hash ELSE answer[r].hash,
                                answer[r].pick)
    /\ answer' = [answer EXCEPT ![r] = NoAnswer]
    /\ UNCHANGED <<version, eval, tasks, state, gate, loop, wanted, spent>>

-----------------------------------------------------------------------------
(* Tasks about failures *)

Retry(t) ==
    /\ HasRun /\ tasks[t].type = "error"
    /\ LET e == tasks[t].eq
       IN  IF mem[e].status = "failed"
           THEN SetStatus({e}, "pending") /\ tasks' = Cancelled({e})
           ELSE tasks' = [tasks EXCEPT ![t] = NoTask] /\ UNCHANGED <<mem, row>>
    /\ EnsureActive
    /\ UNCHANGED <<version, eval, decided, wanted, answer, spent>>

\* A failed step of a loop's iteration is skipped with the whole iteration, an
\* equation that waits for a tool alone; what is completed stays.
Skip(t) ==
    /\ HasRun /\ Disturb("skip")
    /\ LET e == tasks[t].eq
           S == {x \in (IF tasks[t].type = "error" THEN Iteration(e) ELSE {e}) :
                   mem[x].status \notin {"completed", "skipped"}}
           Change(x, r) ==
               IF x \in S THEN [r EXCEPT !.status = "skipped", !.result = NoValue] ELSE r
       IN  /\ tasks[t].type = "waiting_for_tool" \/ (tasks[t].type = "error" /\ Iteration(e) # {})
           /\ Persist(Change)
           /\ tasks' = [Cancelled(S) EXCEPT ![t] = NoTask]
    /\ EnsureActive
    /\ UNCHANGED <<version, eval, decided, wanted, answer>>

-----------------------------------------------------------------------------
(* The process and the program *)

Crash ==
    /\ Up /\ Disturb("crash")
    /\ state' = "down"
    /\ gate' = TRUE /\ loop' = NoLoop
    /\ eval' = [e \in Eq |-> NoEval]
    /\ answer' = [r \in Request |-> NoAnswer]
    /\ tasks' = [t \in Task |-> [tasks[t] EXCEPT !.known = FALSE]]
    /\ UNCHANGED <<mem, row, version, decided, wanted>>

\* What was settled, failed or asked is read back, with its attempt; anything
\* else is the new equation the program declares.  Running flows are started.
Hydrated == {"completed", "failed", "skipped", "awaiting", "waiting"}
Restart ==
    /\ state = "down"
    /\ mem' = [e \in Eq |-> IF row[e].status \in Hydrated THEN row[e] ELSE NewEq]
    /\ row' = [e \in Eq |-> IF row[e].status = "computing"
                            THEN [row[e] EXCEPT !.status = "pending"] ELSE row[e]]
    /\ IF wanted = "running" THEN state' = "running" /\ loop' = AtGate
                             ELSE state' = "unstarted" /\ UNCHANGED loop
    /\ UNCHANGED <<version, eval, tasks, decided, gate, wanted, answer, spent>>

\* Requests and the loop keep the equations they hold: the old ones.
Left(held, e) ==
    IF held # "graph" THEN held
    ELSE IF mem[e].status = "skipped" THEN "skipped" ELSE "replaced"
LeftWith(a) ==
    IF a.pc \notin {"finalize", "swap"} THEN a
    ELSE [a EXCEPT !.held = Left(a.held, a.eq),
                   !.hash = IF a.held = "graph" THEN mem[a.eq].hash ELSE a.hash]

NothingHeld ==
    InFlight = {} /\ loop.pc # "control" /\ \A r \in Request : answer[r].pc = "idle"

\* The definition of e is edited and the program reloaded: every equation is a
\* new object; the edited one and what depends on it start over.
Edit(e) ==
    /\ HasRun
    /\ \/ Disturb("quiet_edit") /\ NothingHeld
       \/ Disturb("busy_edit")
    /\ version' = [version EXCEPT ![e] = @ + 1]
    /\ LET S == Cascade(e)
           Over(x, q) == [q EXCEPT !.status = "pending", !.result = NoValue,
                                   !.attempt = IF x = e THEN 1 ELSE mem[x].attempt]
       IN  /\ mem' = [x \in Eq |-> IF x \in S THEN [Over(x, mem[x]) EXCEPT !.hash = NoValue]
                                   ELSE mem[x]]
           /\ row' = [x \in Eq |-> IF x \in S THEN Over(x, row[x]) ELSE row[x]]
           /\ decided' = Forgotten(S)
           /\ tasks' = Cancelled(S)
    /\ eval' = [x \in Eq |-> [eval[x] EXCEPT !.old = (@ \/ eval[x].pc # "none")]]
    /\ answer' = [r \in Request |-> LeftWith(answer[r])]
    /\ loop' = IF loop.pc = "control" THEN [loop EXCEPT !.held = Left(@, loop.eq)] ELSE loop
    /\ UNCHANGED <<state, gate, wanted>>

-----------------------------------------------------------------------------
Init ==
    /\ scenario \in Scenarios
    /\ mem = [e \in Eq |-> NewEq] /\ row = mem
    /\ version = [e \in Eq |-> 1]
    /\ eval = [e \in Eq |-> NoEval]
    /\ tasks = [t \in Task |-> NoTask] /\ decided = {}
    /\ state = "running" /\ gate = TRUE /\ loop = AtGate
    /\ wanted = "running"
    /\ answer = [r \in Request |-> NoAnswer]
    /\ spent = 0

Loop == Tick \/ ControlDone \/ LoopEnds
Return(e) == BeginEval(e) \/ Succeed(e)
Evaluate(e) == Return(e) \/ FailEval(e) \/ ExhaustEval(e) \/ ParkEval(e)
Handle(r) == Promoted(r) \/ AnswerOwned(r) \/ Swap(r)
OnTask(t) == \/ Retry(t) \/ Skip(t)
             \/ \E p \in Pick \cup {"approve", "reject"} :
                   AnswerOffline(t, p) \/ \E r \in Request : Answer(r, t, p)

Next ==
    /\ UNCHANGED scenario
    /\ \/ Loop
       \/ Read \/ Pause \/ Resume \/ Crash \/ Restart
       \/ \E e \in Eq : Evaluate(e) \/ ToolsChanged(e) \/ Invalidate(e) \/ Edit(e)
       \/ \E t \in Task : OnTask(t)
       \/ \E r \in Request : Handle(r) \/ \E e \in Eq, p \in Pick : Reselect(r, e, p)

Spec == Init /\ [][Next]_<<scenario, vars>>

\* The loop polls, evaluations return (their retries are bounded), requests go
\* on after their awaits, and a process that died is started again.
Fairness ==
    /\ WF_vars(Loop) /\ WF_vars(Restart)
    /\ \A e \in Eq : WF_vars(Return(e))
    /\ \A r \in Request : WF_vars(Handle(r))

FairSpec == Spec /\ Fairness

-----------------------------------------------------------------------------
(* Properties *)

\* Every variable has its type: equations and rows hold a status and count
\* attempts, tasks belong to equations.
TypeOK ==
    /\ scenario \in Scenarios
    /\ \A e \in Eq : \A r \in {mem[e], row[e]} :
          r.status \in Status /\ r.attempt \in 1..(scenario.limit + 1)
    /\ \A e \in Eq : eval[e].pc \in {"none", "queued", "running"} /\ version[e] \in Nat
    /\ \A t \in Task : tasks[t].eq \in 0..NumEq /\ tasks[t].known \in BOOLEAN
    /\ \A d \in decided : d.eq \in Eq /\ d.pick \in Pick \cup {"approve"}
    /\ state \in {"unstarted", "idle", "running", "paused", "down"}
    /\ gate \in BOOLEAN /\ loop.pc \in {"none", "gate", "control"}
    /\ wanted \in {"running", "paused"}
    /\ \A r \in Request : answer[r].pc \in {"idle", "promote", "finalize", "swap"}
    /\ spent \in 0..scenario.limit

\* A result is the one its equation would give to the inputs of now.
Current(e) ==
    LET inputs == Inputs(e, version[e])
        result == mem[e].result
    IN  CASE Kind(e) = "tool" -> result = <<mem[e].attempt, inputs>>
          [] Kind(e) = "control" -> result = <<0, inputs>>
          [] Kind(e) = "select" -> \E p \in Pick : result = <<p, inputs>>
          [] Kind(e) = "approve" -> \A d \in Deps(e) : result = mem[d].result

\* What is shown as completed was computed, chosen or approved from what its
\* dependencies show now, under the definition and the attempt of now: redoing,
\* rejecting, re-picking or editing something leaves nothing stale behind it.
CompletedIsCurrent ==
    Up => \A e \in Eq : mem[e].status = "completed" =>
              /\ \A d \in Deps(e) : Settled(d)
              /\ Current(e)

\* The rows and the graph agree on what is completed and on its result, so
\* that a process that starts now shows what was shown before.  Excepted are
\* edits while somebody holds an equation: the old one is completed in its row.
DurableAgrees ==
    Up /\ "busy_edit" \notin scenario.events =>
          \A e \in Eq :
              /\ (row[e].status = "completed") = (mem[e].status = "completed")
              /\ mem[e].status = "completed" => row[e].result = mem[e].result

Holder == [select |-> "awaiting", approve |-> "awaiting", error |-> "failed",
           waiting_for_tool |-> "waiting"]

\* The task list is true: an equation has one pending task at most, the task
\* is about the state the equation is in, and a question shows the candidates
\* of now.  (Edits while somebody holds an equation are left out, as above.)
TasksAreTrue ==
    Up /\ "busy_edit" \notin scenario.events =>
          \A t \in Task : Pending(t) =>
              LET e == tasks[t].eq
              IN  /\ mem[e].status = Holder[tasks[t].type]
                  /\ \A u \in Task : Pending(u) /\ tasks[u].eq = e => u = t
                  /\ Question(t) => /\ tasks[t].type = Kind(e)
                                    /\ tasks[t].hash = Inputs(e, version[e])

\* Nobody waits for nobody: an equation that awaits an answer has its question
\* in the task list, or the answer is being handled.  A process that dies may
\* leave it with an answer that is stored and that nobody applies; an edit while
\* an answer's media are waited for, with an answer that completed the old equation.
AwaitingIsAsked ==
    Up /\ ~("busy_edit" \in scenario.events /\ Suspends("answer")) =>
        \A e \in Eq : mem[e].status = "awaiting" =>
              \/ \E t \in Task : tasks[t].eq = e /\ Question(t)
              \/ \E r \in Request : answer[r].eq = e /\ answer[r].pc \in {"promote", "finalize"}
              \/ "crash" \in scenario.events /\ Decision(e, mem[e].hash) # {}

\* While the run runs, an equation whose dependencies are settled is evaluated
\* and comes to rest, whatever was cancelled, edited or restarted before.
EveryReadyEquationSettles ==
    \A e \in Eq :
        (state = "running" /\ Ready(e) /\ ~({"read", "resource"} \subseteq scenario.events)) ~>
            \/ state # "running"
            \/ mem[e].status \in {"completed", "failed", "awaiting", "waiting", "skipped"}
            \/ \E d \in Deps(e) : ~Settled(d)

\* An answer given while the flow had no run unblocks its equation once the
\* flow runs.
OfflineAnswerUnblocks ==
    \A e \in Eq :
        (state = "running" /\ mem[e].status = "awaiting" /\ Decision(e, mem[e].hash) # {})
            ~> (state # "running" \/ mem[e].status # "awaiting")

=============================================================================
