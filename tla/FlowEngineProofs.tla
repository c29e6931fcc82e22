--------------------------- MODULE FlowEngineProofs ---------------------------
(***************************************************************************)
(* Proofs about FlowEngine, for any graph and bounds: every variable keeps *)
(* its type (TypeCorrect), an equation that awaits an answer was asked     *)
(* about (AwaitingAsked), the rows agree with the graph (RowsAgree), the   *)
(* task list is true (TasksTruth), and what is completed is current        *)
(* (ResultsAreCurrent); the last three in circumstances they name.  The    *)
(* first part says what each operation does to one equation, one           *)
(* evaluation and one task.                                                *)
(***************************************************************************)
EXTENDS FlowEngine, WellFoundedInduction, NaturalsInduction, TLAPS

-----------------------------------------------------------------------------
(* Types.  Values are not typed: they are whatever is in some set V.        *)

TaskType == {"none", "select", "approve", "error", "waiting_for_tool"}
EqRow(V) == [status : Status, attempt : Nat \ {0}, result : V, hash : V]
EvalRow(V) == [pc : {"none", "queued", "running"}, version : Nat, value : V, hash : V, old : BOOLEAN]
TaskRow(V) == [eq : 0..NumEq, type : TaskType, hash : V, known : BOOLEAN]
LoopRow(V) == [pc : {"none", "gate", "control"}, eq : 0..NumEq, value : V, held : Hold]
AnswerRow(V) == [pc : {"idle", "promote", "finalize", "swap"}, task : Task \cup {0}, eq : 0..NumEq,
                 pick : Pick \cup {"none", "approve", "reject"}, value : V, hash : V, held : Hold]
Decisions(V) == [eq : Eq, hash : V, pick : Pick \cup {"approve"}]

\* What a task, a request, the loop and a decision are about.
SensibleTask(k) ==
    /\ k.type = "none" => k = NoTask
    /\ k.type # "none" => k.eq \in Eq
    /\ k.type \in Hitl => k.type = Kind(k.eq)
SensibleAnswer(a) ==
    /\ a.pc # "idle" => a.eq \in Eq
    /\ a.pc = "promote" => /\ a.task \in Task /\ Kind(a.eq) \in Hitl
                           /\ a.pick \in Picks(a.eq) \ {"reject"}
    /\ a.pc = "swap" => Kind(a.eq) = "select" /\ a.pick \in Pick
    /\ a.pc = "finalize" => Suspends("answer")
    /\ a.held # "graph" => "busy_edit" \in scenario.events
SensibleLoop(l) == /\ l.pc = "control" => l.eq \in Eq /\ Kind(l.eq) = "control"
                   /\ l.held # "graph" => "busy_edit" \in scenario.events
SensibleDecision(d) == Kind(d.eq) \in Hitl /\ d.pick \in Picks(d.eq) \ {"reject"}
SensibleEval(e, v) == v.pc # "none" => Kind(e) # "control"

Rows(V) == /\ mem \in [Eq -> EqRow(V)] /\ row \in [Eq -> EqRow(V)]
           /\ spent \in 0..scenario.limit
           /\ \A e \in Eq : mem[e].attempt =< spent + 1 /\ row[e].attempt =< spent + 1
Evals(V) == /\ eval \in [Eq -> EvalRow(V)]
            /\ \A e \in Eq : SensibleEval(e, eval[e])
TaskTable(V, ts) == ts \in [Task -> TaskRow(V)] /\ \A t \in Task : SensibleTask(ts[t])
Tasks(V) == TaskTable(V, tasks)
Decided(V) == decided \subseteq Decisions(V) /\ \A d \in decided : SensibleDecision(d)
Answers(V) == answer \in [Request -> AnswerRow(V)] /\ \A r \in Request : SensibleAnswer(answer[r])
Loops(V) == loop \in LoopRow(V) /\ SensibleLoop(loop)
Running == /\ state \in {"unstarted", "idle", "running", "paused", "down"}
           /\ gate \in BOOLEAN /\ wanted \in {"running", "paused"}
           /\ version \in [Eq -> Nat]

Typed(V) == /\ NoValue \in V /\ scenario \in Scenarios
            /\ Rows(V) /\ Evals(V) /\ Tasks(V) /\ Decided(V) /\ Answers(V) /\ Loops(V) /\ Running

Types == \E V : Typed(V)

LEMMA Scenic ==
    ASSUME NEW s \in Scenarios
    PROVE  /\ s.graph.kind \in [Eq -> Kinds] /\ s.graph.deps \in [Eq -> SUBSET Eq]
           /\ s.graph.iteration \in [Eq -> SUBSET Eq]
           /\ s.events \subseteq EventKind /\ s.suspends \subseteq Suspension /\ s.limit \in Nat
           /\ \A e \in Eq : \A d \in s.graph.deps[e] : d < e
           /\ \A e \in Eq : s.graph.kind[e] = "approve" =>
                 \E d \in s.graph.deps[e] : s.graph.deps[e] = {d}
  BY FlowAssumption DEF Graph

\* The graph of a typed state.
LEMMA Graphic ==
    ASSUME NEW V, Typed(V)
    PROVE  /\ \A e \in Eq : Kind(e) \in Kinds /\ Deps(e) \subseteq Eq /\ Iteration(e) \subseteq Eq
           /\ \A e \in Eq : \A d \in Deps(e) : d < e
           /\ \A e \in Eq : Kind(e) = "approve" => \E d \in Deps(e) : Deps(e) = {d}
           /\ scenario.limit \in Nat
  BY Scenic DEF Typed, Kind, Deps, Iteration

LEMMA Grows ==
    ASSUME NEW V, Typed(V), NEW W, V \subseteq W
    PROVE  Typed(W)
  BY DEF Typed, Rows, Evals, Tasks, TaskTable, Decided, Answers, Loops, EqRow, EvalRow, TaskRow,
         LoopRow, AnswerRow, Decisions

\* What an action leaves alone keeps its type.
LEMMA Keeps ==
    ASSUME NEW V, Typed(V), UNCHANGED scenario
    PROVE  /\ UNCHANGED <<mem, row, spent>> => Rows(V)'
           /\ UNCHANGED eval => Evals(V)'
           /\ UNCHANGED tasks => Tasks(V)'
           /\ UNCHANGED decided => Decided(V)'
           /\ UNCHANGED answer => Answers(V)'
           /\ UNCHANGED loop => Loops(V)'
           /\ UNCHANGED <<state, gate, wanted, version>> => Running'
           /\ NoValue \in V /\ scenario' \in Scenarios
           /\ \A e \in Eq : Kind(e)' = Kind(e) /\ Picks(e)' = Picks(e)
  BY DEF Typed, Rows, Evals, Tasks, TaskTable, Decided, Answers, Loops, Running, SensibleEval,
         SensibleTask, SensibleDecision, SensibleAnswer, SensibleLoop, Kind, Picks, Decisions, Suspends

\* What depends on e or on what needs it needs e.
LEMMA Needed ==
    ASSUME NEW e \in Eq, NEW n \in Eq, NEW d \in Deps(n), d \in Cascade(e)
    PROVE  n \in Descendants(e)
<1> DEFINE Closed(S) == \A m \in Eq : Deps(m) \cap (S \cup {e}) # {} => m \in S
<1>1. Descendants(e) = {m \in Eq : \A S \in SUBSET Eq : Closed(S) => m \in S}
  BY DEF Descendants
<1>2. ASSUME NEW S \in SUBSET Eq, Closed(S) PROVE n \in S
  <2>1. d \in S \cup {e}
    BY <1>1, <1>2 DEF Cascade
  <2> QED
    BY <1>2, <2>1
<1> HIDE DEF Closed
<1> QED
  BY <1>1, <1>2

LEMMA CascadeIn == ASSUME NEW e \in Eq PROVE Descendants(e) \subseteq Eq /\ Cascade(e) \subseteq Eq /\ e \in Cascade(e)
  BY DEF Descendants, Cascade

\* Nothing needs itself.
LEMMA NotItself ==
    ASSUME NEW V, Typed(V), NEW e \in Eq
    PROVE  e \notin Descendants(e)
<1> DEFINE Closed(S) == \A m \in Eq : Deps(m) \cap (S \cup {e}) # {} => m \in S
           After == {m \in Eq : e < m}
<1>1. Descendants(e) = {m \in Eq : \A S \in SUBSET Eq : Closed(S) => m \in S}
  BY DEF Descendants
<1>2. Closed(After)
  BY Graphic, FlowAssumption DEF Eq
<1>3. e \notin After
  BY FlowAssumption DEF Eq
<1> HIDE DEF Closed, After
<1>4. After \in SUBSET Eq
  BY DEF After
<1> QED
  BY <1>1, <1>2, <1>3, <1>4

-----------------------------------------------------------------------------
(* What the operations do to the state.                                     *)

LEMMA SettingAResult ==
    ASSUME NEW x, NEW value, SetResult(x, value)
    PROVE  /\ mem' = [e \in Eq |-> IF e = x THEN [mem[e] EXCEPT !.status = "completed", !.result = value]
                                            ELSE mem[e]]
           /\ row' = [e \in Eq |-> IF e = x THEN [row[e] EXCEPT !.status = "completed", !.result = value]
                                            ELSE row[e]]
  BY DEF SetResult, Persist

LEMMA SettingAStatus ==
    ASSUME NEW S, NEW status, SetStatus(S, status)
    PROVE  /\ mem' = [e \in Eq |-> IF e \in S THEN [mem[e] EXCEPT !.status = status] ELSE mem[e]]
           /\ row' = [e \in Eq |-> IF e \in S THEN [row[e] EXCEPT !.status = status] ELSE row[e]]
  BY DEF SetStatus, Persist

\* A closed set of some equations starts over.
LEMMA Resetting ==
    ASSUME NEW S, NEW Redo, Reset(S, Redo)
    PROVE  /\ mem' = [e \in Eq |-> IF e \notin S THEN mem[e]
                        ELSE [mem[e] EXCEPT !.status = "pending", !.result = NoValue,
                                  !.attempt = mem[e].attempt + (IF e \in Redo THEN 1 ELSE 0)]]
           /\ row' = [e \in Eq |-> IF e \notin S THEN row[e]
                        ELSE [row[e] EXCEPT !.status = "pending", !.result = NoValue,
                                  !.attempt = mem[e].attempt + (IF e \in Redo THEN 1 ELSE 0)]]
           /\ eval' = Uncomputed(S) /\ decided' = Forgotten(S)
  BY DEF Reset, Persist

\* The least element of a set of numbers is one of its elements.
LEMMA LeastIn == ASSUME NEW S \in SUBSET Nat, S # {} PROVE Min(S) \in S
<1>1. PICK x \in S : \A y \in S : ~(<<y, x>> \in OpToRel(<, Nat))
  BY WFMin, NatLessThanWellFounded, Zenon
<1>2. ASSUME NEW y \in S PROVE x =< y
  <2>1. x \in Nat /\ y \in Nat /\ ~(y < x)
    BY <1>1 DEF OpToRel
  <2> QED
    BY <2>1
<1> QED
  BY <1>2 DEF Min

\* A new task takes a row that is free.
LEMMA Inserting ==
    ASSUME NEW ts, NEW task, Insert(ts, task)
    PROVE  \E t \in Task : /\ ts[t] = NoTask /\ (\A r \in Request : answer[r].task # t)
                           /\ tasks' = [ts EXCEPT ![t] = task]
<1>1. FreeTasks(ts) \in SUBSET Nat /\ FreeTasks(ts) # {}
  BY FlowAssumption DEF Insert, FreeTasks
<1>2. Min(FreeTasks(ts)) \in FreeTasks(ts)
  BY <1>1, LeastIn
<1> QED
  BY <1>2 DEF Insert, FreeTasks

\* An evaluation that fails leaves a task about it in a free row, unless its
\* equation may not fail any more.
LEMMA Failing ==
    ASSUME NEW e \in Eq, NEW status, NEW type, Fail(e, status, type)
    PROVE  \/ /\ May(e, status)
              /\ mem' = IF eval[e].old THEN mem ELSE [mem EXCEPT ![e] = [mem[e] EXCEPT !.status = status]]
              /\ row' = [row EXCEPT ![e] = [row[e] EXCEPT !.status = status]]
              /\ \E t \in Task :
                    /\ Cancelled({e})[t] = NoTask /\ (\A r \in Request : answer[r].task # t)
                    /\ tasks' = [Cancelled({e}) EXCEPT ![t] = [NoTask EXCEPT !.eq = e, !.type = type]]
           \/ ~May(e, status) /\ UNCHANGED <<mem, row, tasks>>
<1>1. CASE May(e, status)
  <2>1. Insert(Cancelled({e}), [NoTask EXCEPT !.eq = e, !.type = type])
    BY <1>1 DEF Fail, Surface
  <2>2. /\ mem' = IF eval[e].old THEN mem ELSE [mem EXCEPT ![e] = [mem[e] EXCEPT !.status = status]]
        /\ row' = [row EXCEPT ![e] = [row[e] EXCEPT !.status = status]]
    BY <1>1 DEF Fail, Write
  <2> QED
    BY <1>1, <2>1, <2>2, Inserting
<1>2. CASE ~May(e, status)
  BY <1>2 DEF Fail
<1> QED
  BY <1>1, <1>2

\* The three ends of an evaluation's first step: it fails for want of an input,
\* it goes on with a value, or it asks.
Misses(e) == /\ \E d \in Deps(e) : mem[d].status # "completed"
             /\ Fail(e, "failed", "error") /\ Finished(e)
Remembers(e, hash) == mem' = IF eval[e].old THEN mem ELSE [mem EXCEPT ![e].hash = hash]
RunsWith(e, hash, value) ==
    /\ eval' = [eval EXCEPT ![e].pc = "running", ![e].value = value, ![e].hash = hash]
    /\ Remembers(e, hash)
    /\ UNCHANGED <<row, tasks>>
Asks(e, hash) ==
    /\ Kind(e) \in Hitl /\ Decision(e, hash) = {}
    /\ \E t \in Task : /\ tasks[t] = NoTask /\ (\A r \in Request : answer[r].task # t)
                       /\ tasks' = [tasks EXCEPT ![t] =
                                      [eq |-> e, type |-> Kind(e), hash |-> hash, known |-> TRUE]]
    /\ \/ /\ May(e, "awaiting")
          /\ mem' = IF eval[e].old THEN mem
                    ELSE [mem EXCEPT ![e] = [mem[e] EXCEPT !.status = "awaiting", !.hash = hash]]
          /\ row' = [row EXCEPT ![e] = [row[e] EXCEPT !.status = "awaiting", !.hash = hash]]
       \/ ~May(e, "awaiting") /\ Remembers(e, hash) /\ UNCHANGED row
    /\ Finished(e)

\* The value an evaluation goes on with: of a tool, or of a decision.
Evaluates(e, hash, value) ==
    \/ Kind(e) = "tool" /\ value = <<mem[e].attempt, hash>>
    \/ /\ Kind(e) \in Hitl
       /\ \E d \in Decision(e, hash) : value = Chosen(e, d.pick, hash)

LEMMA Beginning ==
    ASSUME NEW e \in Eq, BeginEval(e), NEW hash, hash = Inputs(e, eval[e].version)
    PROVE  /\ eval[e].pc = "queued"
           /\ UNCHANGED <<version, decided, state, gate, loop, wanted, answer, spent>>
           /\ \/ Misses(e)
              \/ /\ \A d \in Deps(e) : mem[d].status = "completed"
                 /\ \/ \E value : Evaluates(e, hash, value) /\ RunsWith(e, hash, value)
                    \/ Asks(e, hash)
<1>0. eval[e].pc = "queued" /\ UNCHANGED <<version, decided, state, gate, loop, wanted, answer, spent>>
  BY DEF BeginEval
<1> DEFINE remember(m) == IF eval[e].old THEN m ELSE [m EXCEPT ![e].hash = hash]
           run(value) == /\ eval' = [eval EXCEPT ![e].pc = "running", ![e].value = value,
                                                 ![e].hash = hash]
                         /\ mem' = remember(mem)
                         /\ UNCHANGED <<row, tasks>>
           change(r) == [r EXCEPT !.status = "awaiting", !.hash = hash]
           ask == /\ Ask(e, hash)
                  /\ IF May(e, "awaiting") THEN Write(e, change)
                     ELSE mem' = remember(mem) /\ UNCHANGED row
                  /\ Finished(e)
<1>1. CASE \E d \in Deps(e) : mem[d].status # "completed"
  <2>1. Fail(e, "failed", "error") /\ Finished(e)
    BY <1>1 DEF BeginEval
  <2> QED
    BY <1>0, <1>1, <2>1 DEF Misses
<1>2. CASE \A d \in Deps(e) : mem[d].status = "completed"
  <2>1. \/ Kind(e) = "tool" /\ run(<<mem[e].attempt, hash>>)
        \/ /\ Kind(e) \in Hitl
           /\ IF Decision(e, hash) = {} THEN ask
              ELSE run(Chosen(e, (CHOOSE d \in Decision(e, hash) : TRUE).pick, hash))
    BY <1>2 DEF BeginEval, Write
  <2>2. ASSUME NEW value, run(value) PROVE RunsWith(e, hash, value)
    BY <2>2 DEF RunsWith, Remembers
  <2>3. CASE Kind(e) = "tool" /\ run(<<mem[e].attempt, hash>>)
    BY <1>0, <1>2, <2>2, <2>3 DEF Evaluates
  <2>4. ASSUME Kind(e) \in Hitl, Decision(e, hash) = {}, ask PROVE Asks(e, hash)
    <3>1. Insert(tasks, [eq |-> e, type |-> Kind(e), hash |-> hash, known |-> TRUE])
      BY <2>4 DEF Ask
    <3>2. Finished(e)
      BY <2>4
    <3>3. \/ May(e, "awaiting") /\ Write(e, change)
          \/ ~May(e, "awaiting") /\ Remembers(e, hash) /\ UNCHANGED row
      BY <2>4 DEF Remembers
    <3>4. Write(e, change) =>
            /\ mem' = IF eval[e].old THEN mem
                      ELSE [mem EXCEPT ![e] = [mem[e] EXCEPT !.status = "awaiting", !.hash = hash]]
            /\ row' = [row EXCEPT ![e] = [row[e] EXCEPT !.status = "awaiting", !.hash = hash]]
      BY DEF Write
    <3>5. \E t \in Task : /\ tasks[t] = NoTask /\ (\A r \in Request : answer[r].task # t)
                          /\ tasks' = [tasks EXCEPT ![t] =
                                [eq |-> e, type |-> Kind(e), hash |-> hash, known |-> TRUE]]
      BY <3>1, Inserting
    <3> QED
      BY <2>4, <3>2, <3>3, <3>4, <3>5 DEF Asks
  <2>5. ASSUME Kind(e) \in Hitl, Decision(e, hash) # {},
               run(Chosen(e, (CHOOSE d \in Decision(e, hash) : TRUE).pick, hash))
        PROVE  \E value : Evaluates(e, hash, value) /\ RunsWith(e, hash, value)
    <3>1. (CHOOSE d \in Decision(e, hash) : TRUE) \in Decision(e, hash)
      BY <2>5
    <3> QED
      BY <2>2, <2>5, <3>1 DEF Evaluates
  <2> QED
    BY <1>0, <1>2, <2>1, <2>3, <2>4, <2>5
<1> QED
  BY <1>1, <1>2

\* A tick launches L, and puts off the control equation c if it is one.
Ticks(L, stale) ==
    /\ L \subseteq Eq /\ L \cap InFlight = {} /\ stale = Orphaned
    /\ \A e \in L : (e \in stale \/ mem[e].status = "pending") /\ \A d \in Deps(e) : Settled(d)
    /\ mem' = [e \in Eq |->
          CASE e \in L /\ Kind(e) = "control" ->
                  [mem[e] EXCEPT !.status = "completed", !.result = <<0, Inputs(e, version[e])>>]
            [] e \in L /\ Kind(e) # "control" -> [mem[e] EXCEPT !.status = "computing"]
            [] e \in stale \ L -> [mem[e] EXCEPT !.status = "pending"]
            [] OTHER -> mem[e]]
    /\ row' = [e \in Eq |->
          CASE e \in L /\ Kind(e) = "control" ->
                  [row[e] EXCEPT !.status = "completed", !.result = <<0, Inputs(e, version[e])>>]
            [] e \in L /\ Kind(e) # "control" -> [row[e] EXCEPT !.status = "computing"]
            [] e \in stale \ L -> [row[e] EXCEPT !.status = "pending"]
            [] OTHER -> row[e]]
    /\ eval' = [e \in Eq |-> IF e \in L /\ Kind(e) # "control"
                             THEN [NoEval EXCEPT !.pc = "queued", !.version = version[e]]
                             ELSE eval[e]]
    /\ \/ loop' = loop
       \/ /\ Suspends("control")
          /\ \E c \in Eq \ (L \cup InFlight) :
                /\ Kind(c) = "control"
                /\ c \in stale \/ mem[c].status = "pending"
                /\ \A d \in Deps(c) : Settled(d)
                /\ loop' = [pc |-> "control", eq |-> c, value |-> <<0, Inputs(c, version[c])>>, held |-> "graph"]

LEMMA Ticking ==
    ASSUME Tick
    PROVE  /\ loop.pc = "gate" /\ state = "running" /\ gate
           /\ \E L : Ticks(L, Orphaned)
           /\ UNCHANGED <<version, tasks, decided, state, gate, wanted, answer, spent>>
<1> DEFINE stale == Orphaned
           ready == {e \in Eq : (e \in stale \/ mem[e].status = "pending")
                                /\ \A d \in Deps(e) : Settled(d)}
           fits == {e \in ready : Cardinality({x \in ready : x < e})
                                  < Concurrency - Cardinality(InFlight)} \ InFlight
           slow == IF Suspends("control") THEN {e \in fits : Kind(e) = "control"} ELSE {}
           launched == IF slow = {} THEN fits ELSE {e \in fits : e < Min(slow)}
<1>1. launched \subseteq fits /\ fits \subseteq Eq /\ fits \cap InFlight = {}
  OBVIOUS
<1>2. \A e \in fits : (e \in stale \/ mem[e].status = "pending") /\ \A d \in Deps(e) : Settled(d)
  OBVIOUS
<1>3. slow # {} => /\ Suspends("control") /\ Min(slow) \in fits /\ Min(slow) \notin launched
                   /\ Kind(Min(slow)) = "control" /\ Min(slow) \in Eq
  <2>1. slow \in SUBSET Nat
    BY FlowAssumption DEF Eq
  <2>2. slow # {} => Min(slow) \in slow
    BY <2>1, LeastIn
  <2>3. slow # {} => ~(Min(slow) < Min(slow))
    <3>1. \A n \in Nat : ~(n < n)
      OBVIOUS
    <3>2. slow # {} => Min(slow) \in Nat
      <4> HIDE DEF slow
      <4> QED
        BY <2>1, <2>2
    <3> QED
      BY <3>1, <3>2
  <2> QED
    BY <2>2, <2>3
<1>4. /\ mem' = [e \in Eq |->
            CASE e \in launched /\ Kind(e) = "control" ->
                    [mem[e] EXCEPT !.status = "completed", !.result = <<0, Inputs(e, version[e])>>]
              [] e \in launched /\ Kind(e) # "control" -> [mem[e] EXCEPT !.status = "computing"]
              [] e \in stale \ launched -> [mem[e] EXCEPT !.status = "pending"]
              [] OTHER -> mem[e]]
      /\ row' = [e \in Eq |->
            CASE e \in launched /\ Kind(e) = "control" ->
                    [row[e] EXCEPT !.status = "completed", !.result = <<0, Inputs(e, version[e])>>]
              [] e \in launched /\ Kind(e) # "control" -> [row[e] EXCEPT !.status = "computing"]
              [] e \in stale \ launched -> [row[e] EXCEPT !.status = "pending"]
              [] OTHER -> row[e]]
      /\ eval' = [e \in Eq |-> IF e \in launched /\ Kind(e) # "control"
                               THEN [NoEval EXCEPT !.pc = "queued", !.version = version[e]]
                               ELSE eval[e]]
      /\ loop' = IF slow = {} THEN loop
                 ELSE [pc |-> "control", eq |-> Min(slow),
                       value |-> <<0, Inputs(Min(slow), version[Min(slow)])>>, held |-> "graph"]
  <2>1. ASSUME NEW c, NEW v
        PROVE  [NoLoop EXCEPT !.pc = "control", !.eq = c, !.value = v]
                  = [pc |-> "control", eq |-> c, value |-> v, held |-> "graph"]
    <3> DEFINE l == [pc |-> "control", eq |-> c, value |-> v, held |-> "graph"]
               m == [NoLoop EXCEPT !.pc = "control", !.eq = c, !.value = v]
    <3>1. DOMAIN m = DOMAIN l /\ m = [x \in DOMAIN m |-> m[x]] /\ l = [x \in DOMAIN l |-> l[x]]
      BY DEF NoLoop
    <3>2. \A x \in DOMAIN l : m[x] = l[x]
      <4>1. m.pc = "control" /\ m.eq = c /\ m.value = v /\ m.held = "graph"
        BY DEF NoLoop
      <4>2. l.pc = "control" /\ l.eq = c /\ l.value = v /\ l.held = "graph"
        OBVIOUS
      <4>3. DOMAIN l = {"pc", "eq", "value", "held"}
        OBVIOUS
      <4> HIDE DEF l, m
      <4> QED
        BY <4>1, <4>2, <4>3
    <3> HIDE DEF l, m
    <3>3. m = l
      BY <3>1, <3>2
    <3> QED
      BY <3>3 DEF l, m
  <2> QED
    BY <2>1 DEF Tick, Persist
<1> HIDE DEF launched, fits, slow
<1>5. Ticks(launched, Orphaned)
  <2>1. slow # {} => \E c \in Eq \ (launched \cup InFlight) :
                /\ Kind(c) = "control"
                /\ c \in stale \/ mem[c].status = "pending"
                /\ \A d \in Deps(c) : Settled(d)
                /\ loop' = [pc |-> "control", eq |-> c, value |-> <<0, Inputs(c, version[c])>>, held |-> "graph"]
    BY <1>1, <1>2, <1>3, <1>4
  <2>2. slow = {} => loop' = loop
    BY <1>4
  <2> QED
    BY <1>1, <1>2, <1>3, <1>4, <2>1, <2>2 DEF Ticks
<1> QED
  BY <1>5 DEF Tick

\* An answer to a question: a rejection, an answer that waits for the ownership
\* of its media, one that completes its equation, and one that comes too late.
Closes(a, ts) ==
    /\ a.pick # "reject"
    /\ tasks' = [ts EXCEPT ![a.task] = NoTask]
    /\ decided' = Stored(a.eq, a.hash, a.pick)
    /\ UNCHANGED <<eval, spent>>
Rejects(r, a, ts) ==
    /\ a.pick = "reject" /\ mem[a.eq].status = "awaiting" /\ Disturb("reject")
    /\ Reset(UNION {Cascade(d) : d \in Deps(a.eq)}, Deps(a.eq))
    /\ tasks' = [t \in Task |-> IF [ts EXCEPT ![a.task] = NoTask][t].eq
                                      \in UNION {Cascade(d) : d \in Deps(a.eq)}
                                THEN NoTask ELSE [ts EXCEPT ![a.task] = NoTask][t]]
    /\ EnsureActive
    /\ answer' = [answer EXCEPT ![r] = NoAnswer]
Defers(r, a, ts) ==
    /\ Closes(a, ts) /\ mem[a.eq].status = "awaiting" /\ Suspends("answer")
    /\ answer' = [answer EXCEPT ![r] =
                    [a EXCEPT !.pc = "finalize", !.task = 0, !.value = Chosen(a.eq, a.pick, a.hash)]]
    /\ UNCHANGED <<mem, row, state, gate, loop>>
Applies(r, a, ts) ==
    /\ Closes(a, ts) /\ mem[a.eq].status = "awaiting" /\ ~Suspends("answer")
    /\ SetResult(a.eq, Chosen(a.eq, a.pick, a.hash))
    /\ EnsureActive
    /\ answer' = [answer EXCEPT ![r] = NoAnswer]
TooLate(r, a, ts) ==
    /\ Closes(a, ts) /\ mem[a.eq].status # "awaiting"
    /\ EnsureActive
    /\ answer' = [answer EXCEPT ![r] = NoAnswer]
    /\ UNCHANGED <<mem, row>>

LEMMA Deciding ==
    ASSUME NEW r, NEW a, NEW ts, Decide(r, a, ts)
    PROVE  Rejects(r, a, ts) \/ Defers(r, a, ts) \/ Applies(r, a, ts) \/ TooLate(r, a, ts)
<1>1. CASE a.pick = "reject"
  BY <1>1 DEF Decide, Rejects
<1>2. CASE a.pick # "reject"
  <2>1. Closes(a, ts)
    BY <1>2 DEF Decide, Closes
  <2>2. \/ /\ mem[a.eq].status = "awaiting" /\ Suspends("answer")
           /\ answer' = [answer EXCEPT ![r] =
                [a EXCEPT !.pc = "finalize", !.task = 0, !.value = Chosen(a.eq, a.pick, a.hash)]]
           /\ UNCHANGED <<mem, row, state, gate, loop>>
        \/ /\ IF mem[a.eq].status = "awaiting" THEN SetResult(a.eq, Chosen(a.eq, a.pick, a.hash))
                                               ELSE UNCHANGED <<mem, row>>
           /\ ~(mem[a.eq].status = "awaiting" /\ Suspends("answer"))
           /\ EnsureActive
           /\ answer' = [answer EXCEPT ![r] = NoAnswer]
    BY <1>2 DEF Decide
  <2> QED
    BY <2>1, <2>2 DEF Defers, Applies, TooLate
<1> QED
  BY <1>1, <1>2

\* An answer as the route makes it from a pending task.
Made(t, pick) == [NoAnswer EXCEPT !.pc = "promote", !.task = t, !.eq = tasks[t].eq,
                                  !.pick = pick, !.hash = tasks[t].hash]
LEMMA Answering ==
    ASSUME NEW r, NEW t, NEW pick, Answer(r, t, pick)
    PROVE  /\ HasRun /\ answer[r].pc = "idle" /\ Question(t) /\ pick \in Picks(tasks[t].eq)
           /\ UNCHANGED <<version, wanted>>
           /\ \/ /\ Suspends("promote") /\ pick # "reject"
                 /\ answer' = [answer EXCEPT ![r] = Made(t, pick)]
                 /\ tasks' = [tasks EXCEPT ![t].known = FALSE]
                 /\ UNCHANGED <<mem, row, eval, decided, state, gate, loop, spent>>
              \/ ~(Suspends("promote") /\ pick # "reject") /\ Decide(r, Made(t, pick), tasks)
  BY DEF Answer, Made

LEMMA Activating ==
    ASSUME EnsureActive
    PROVE  \/ UNCHANGED <<state, gate, loop>>
           \/ /\ state # "paused" /\ loop.pc = "none"
              /\ state' = "running" /\ gate' = TRUE /\ loop' = AtGate
  BY DEF EnsureActive

LEMMA Starting ==
    ASSUME Start
    PROVE  \/ UNCHANGED <<mem, row, state, loop>>
           \/ /\ SetStatus(Orphaned, "pending") /\ state' = "running"
              /\ loop' = loop \/ (loop.pc = "none" /\ loop' = AtGate)
  BY DEF Start

LEMMA Resuming ==
    ASSUME Resume
    PROVE  /\ UNCHANGED <<version, eval, tasks, decided, answer, spent>>
           /\ Up /\ wanted' = "running"
           /\ \/ UNCHANGED <<mem, row, state, gate, loop>>
              \/ /\ state \in {"unstarted", "paused"}
                 /\ SetStatus(Orphaned, "pending") /\ state' = "running"
                 /\ gate' = TRUE \/ gate' = gate
                 /\ loop' = loop \/ (loop.pc = "none" /\ loop' = AtGate)
  BY DEF Resume, Start

-----------------------------------------------------------------------------
(* The operations keep the types.                                           *)

LEMMA ActivatingTyped ==
    ASSUME NEW V, Typed(V), UNCHANGED <<scenario, wanted, version>>, EnsureActive
    PROVE  Running' /\ Loops(V)'
<1>1. AtGate \in LoopRow(V) /\ AtGate.pc = "gate" /\ AtGate.held = "graph"
  BY FlowAssumption DEF Typed, LoopRow, AtGate, NoLoop, Hold
<1>2. Running'
  BY Activating DEF Typed, Running
<1>3. loop' = loop \/ loop' = AtGate
  BY Activating
<1>4. loop' = loop => Loops(V)'
  BY Keeps
<1>5. loop' = AtGate => Loops(V)'
  BY <1>1 DEF Loops, LoopRow, SensibleLoop
<1> QED
  BY <1>2, <1>3, <1>4, <1>5

\* A table of equations is one of rows.
LEMMA RowsNext ==
    ASSUME NEW V, Typed(V), UNCHANGED scenario, spent' \in 0..scenario.limit,
           NEW W, mem' \in [Eq -> EqRow(W)], row' \in [Eq -> EqRow(W)],
           \A e \in Eq : mem'[e].attempt =< spent' + 1 /\ row'[e].attempt =< spent' + 1
    PROVE  Rows(W)'
  BY DEF Rows

LEMMA StatusTyped ==
    ASSUME NEW V, Typed(V), UNCHANGED <<scenario, spent>>, NEW S, NEW status \in Status,
           SetStatus(S, status)
    PROVE  Rows(V)'
<1>1. mem' \in [Eq -> EqRow(V)] /\ row' \in [Eq -> EqRow(V)]
  BY SettingAStatus DEF Typed, Rows, EqRow
<1>2. \A e \in Eq : mem'[e].attempt = mem[e].attempt /\ row'[e].attempt = row[e].attempt
  BY SettingAStatus DEF Typed, Rows, EqRow
<1> QED
  BY <1>1, <1>2 DEF Typed, Rows

LEMMA ResultTyped ==
    ASSUME NEW V, Typed(V), UNCHANGED <<scenario, spent>>, NEW x \in Eq, NEW value \in V,
           SetResult(x, value)
    PROVE  Rows(V)'
<1>0. "completed" \in Status
  BY DEF Status
<1> DEFINE set(q) == [q EXCEPT !.status = "completed", !.result = value]
<1>a. \A q \in EqRow(V) : set(q) \in EqRow(V) /\ set(q).attempt = q.attempt
  BY <1>0 DEF EqRow
<1>b. /\ mem' = [e \in Eq |-> IF e = x THEN set(mem[e]) ELSE mem[e]]
      /\ row' = [e \in Eq |-> IF e = x THEN set(row[e]) ELSE row[e]]
  BY DEF SetResult, Persist
<1> HIDE DEF set
<1>1. mem' \in [Eq -> EqRow(V)] /\ row' \in [Eq -> EqRow(V)]
  BY <1>a, <1>b DEF Typed, Rows
<1>2. \A e \in Eq : mem'[e].attempt = mem[e].attempt /\ row'[e].attempt = row[e].attempt
  BY <1>a, <1>b DEF Typed, Rows
<1> QED
  BY <1>1, <1>2 DEF Typed, Rows

\* An equation that was replaced completes on its row alone.
RowOnly(x, value) == /\ row' = [row EXCEPT ![x].status = "completed", ![x].result = value]
                     /\ UNCHANGED mem
LEMMA RowOnlyTyped ==
    ASSUME NEW V, Typed(V), UNCHANGED <<scenario, spent>>, NEW x \in Eq, NEW value \in V,
           RowOnly(x, value)
    PROVE  Rows(V)'
<1> DEFINE half == [row EXCEPT ![x].status = "completed"]
<1>1. half \in [Eq -> EqRow(V)] /\ \A e \in Eq : half[e].attempt = row[e].attempt
  BY DEF Typed, Rows, EqRow, Status
<1>2. row' = [half EXCEPT ![x].result = value]
  BY DEF RowOnly
<1> HIDE DEF half
<1>3. row' \in [Eq -> EqRow(V)] /\ \A e \in Eq : row'[e].attempt = half[e].attempt
  BY <1>1, <1>2 DEF EqRow
<1> QED
  BY <1>1, <1>3 DEF RowOnly, Typed, Rows

LEMMA UncomputedTyped ==
    ASSUME NEW V, Typed(V), UNCHANGED scenario, NEW S, eval' = Uncomputed(S)
    PROVE  Evals(V)'
<1>1. NoEval \in EvalRow(V)
  BY DEF Typed, EvalRow, NoEval
<1>2. eval' \in [Eq -> EvalRow(V)]
  BY <1>1 DEF Typed, Evals, Uncomputed
<1>3. \A e \in Eq : SensibleEval(e, eval[e])'
  BY Keeps DEF Typed, Evals, Uncomputed, SensibleEval, NoEval
<1> QED
  BY <1>2, <1>3 DEF Evals

LEMMA ForgottenTyped ==
    ASSUME NEW V, Typed(V), UNCHANGED scenario, NEW S, decided' = Forgotten(S)
    PROVE  Decided(V)'
<1>1. decided' \subseteq decided
  BY DEF Forgotten
<1> QED
  BY <1>1, Keeps DEF Typed, Decided, SensibleDecision, Decisions

LEMMA StoredTyped ==
    ASSUME NEW V, Typed(V), UNCHANGED scenario, NEW e \in Eq, NEW hash \in V,
           NEW pick \in Picks(e) \ {"reject"}, Kind(e) \in Hitl, decided' = Stored(e, hash, pick)
    PROVE  Decided(V)'
<1> DEFINE d0 == [eq |-> e, hash |-> hash, pick |-> pick]
<1>1. d0 \in Decisions(V) /\ SensibleDecision(d0)
  BY DEF Decisions, SensibleDecision, Picks
<1> HIDE DEF d0
<1>2. \A d \in decided' : d \in decided \/ d = d0
  BY DEF Stored, d0
<1>3. \A d \in decided' : d \in Decisions(V) /\ SensibleDecision(d)
  BY <1>1, <1>2 DEF Typed, Decided
<1>4. \A d \in Decisions(V) : SensibleDecision(d) => SensibleDecision(d)'
  BY Keeps DEF SensibleDecision, Decisions
<1> QED
  BY <1>3, <1>4 DEF Decided, Decisions

\* Tables of tasks some of whose rows are closed.
LEMMA ClosedTyped ==
    ASSUME NEW V, Typed(V), NEW ts, TaskTable(V, ts), NEW S
    PROVE  /\ TaskTable(V, [t \in Task |-> IF ts[t].eq \in S THEN NoTask ELSE ts[t]])
           /\ \A x : TaskTable(V, [ts EXCEPT ![x] = NoTask])
<1>1. NoTask \in TaskRow(V) /\ SensibleTask(NoTask)
  BY FlowAssumption DEF Typed, TaskRow, NoTask, TaskType, SensibleTask, Hitl
<1> QED
  BY <1>1 DEF TaskTable

LEMMA CancelledTyped ==
    ASSUME NEW V, Typed(V), NEW S
    PROVE  TaskTable(V, Cancelled(S))
  BY ClosedTyped DEF Typed, Tasks, Cancelled

\* A new row in such a table.
LEMMA InsertedTyped ==
    ASSUME NEW V, Typed(V), NEW ts, TaskTable(V, ts), NEW k \in TaskRow(V), SensibleTask(k), NEW x
    PROVE  TaskTable(V, [ts EXCEPT ![x] = k])
  BY DEF TaskTable

LEMMA TableNext ==
    ASSUME NEW V, Typed(V), UNCHANGED scenario, NEW ts, TaskTable(V, ts), tasks' = ts
    PROVE  Tasks(V)'
<1>1. ASSUME NEW t \in Task PROVE SensibleTask(ts[t])'
  <2>1. SensibleTask(ts[t]) /\ ts[t].eq \in 0..NumEq
    BY DEF TaskTable, TaskRow
  <2>2. \A e \in Eq : Kind(e)' = Kind(e)
    BY Keeps
  <2>3. CASE ts[t].type = "none"
    BY <2>1, <2>3 DEF SensibleTask, Hitl
  <2>4. CASE ts[t].type # "none"
    BY <2>1, <2>2, <2>4 DEF SensibleTask
  <2> QED
    BY <2>3, <2>4
<1> QED
  BY <1>1 DEF Tasks, TaskTable, TaskRow

\* An equation's attempt grows with a disturbance only.
LEMMA ResetTyped ==
    ASSUME NEW V, Typed(V), UNCHANGED scenario, NEW S, NEW Redo, Reset(S, Redo),
           spent' = spent + 1, spent < scenario.limit
    PROVE  Rows(V)' /\ Evals(V)' /\ Decided(V)'
<1>1. Evals(V)' /\ Decided(V)'
  BY Resetting, UncomputedTyped, ForgottenTyped
<1> DEFINE n(e) == mem[e].attempt + (IF e \in Redo THEN 1 ELSE 0)
<1>0. /\ "pending" \in Status /\ NoValue \in V
      /\ \A e \in Eq : mem[e] \in EqRow(V) /\ row[e] \in EqRow(V) /\ mem[e].attempt \in Nat \ {0}
  BY DEF Status, Typed, Rows, EqRow
<1>a. \A e \in Eq : n(e) \in Nat \ {0} /\ n(e) =< mem[e].attempt + 1
  BY <1>0
<1> DEFINE set(e, q) == [q EXCEPT !.status = "pending", !.result = NoValue,
                                  !.attempt = mem[e].attempt + (IF e \in Redo THEN 1 ELSE 0)]
<1>b. /\ mem' = [e \in Eq |-> IF e \notin S THEN mem[e] ELSE set(e, mem[e])]
      /\ row' = [e \in Eq |-> IF e \notin S THEN row[e] ELSE set(e, row[e])]
  BY DEF Reset, Persist
<1>c. \A e \in Eq : \A q \in EqRow(V) : set(e, q) \in EqRow(V) /\ set(e, q).attempt = n(e)
  BY <1>0, <1>a DEF EqRow
<1> HIDE DEF n, set
<1>2. mem' \in [Eq -> EqRow(V)] /\ row' \in [Eq -> EqRow(V)]
  BY <1>0, <1>b, <1>c
<1>3. spent' \in 0..scenario'.limit
  BY Graphic DEF Typed, Rows
<1>4. \A e \in Eq : mem'[e].attempt =< spent' + 1 /\ row'[e].attempt =< spent' + 1
  <2>1. \A e \in Eq : /\ mem'[e].attempt \in {mem[e].attempt, n(e)}
                     /\ row'[e].attempt \in {row[e].attempt, n(e)}
    BY <1>0, <1>b, <1>c
  <2>2. \A e \in Eq : /\ mem[e].attempt \in Nat /\ row[e].attempt \in Nat
                     /\ mem[e].attempt =< spent + 1 /\ row[e].attempt =< spent + 1 /\ spent \in Nat
    BY Graphic DEF Typed, Rows, EqRow
  <2> QED
    BY <1>a, <2>1, <2>2
<1> QED
  BY <1>1, <1>2, <1>3, <1>4 DEF Rows

\* An evaluation that fails.
LEMMA FailTyped ==
    ASSUME NEW V, Typed(V), UNCHANGED scenario, NEW e \in Eq, NEW status \in Status,
           NEW type \in {"error", "waiting_for_tool"}, Fail(e, status, type),
           spent' \in 0..scenario.limit, spent' >= spent
    PROVE  Rows(V)' /\ Tasks(V)'
<1> DEFINE k == [NoTask EXCEPT !.eq = e, !.type = type]
<1>1. k \in TaskRow(V) /\ SensibleTask(k)
  <2>0. e \in 0..NumEq
    BY FlowAssumption DEF Eq
  <2>1. k \in TaskRow(V)
    BY <2>0 DEF Typed, TaskRow, NoTask, TaskType
  <2>2. k.eq = e /\ k.type = type
    BY DEF NoTask
  <2> HIDE DEF k
  <2> QED
    BY <2>1, <2>2 DEF SensibleTask, Hitl
<1>2. Rows(V)'
  <2> DEFINE set(q) == [q EXCEPT !.status = status]
  <2>0. /\ mem' \in {mem, [mem EXCEPT ![e] = set(mem[e])]}
        /\ row' \in {row, [row EXCEPT ![e] = set(row[e])]}
    BY Failing
  <2>a. \A q \in EqRow(V) : set(q) \in EqRow(V) /\ set(q).attempt = q.attempt
    BY DEF EqRow
  <2> HIDE DEF set
  <2>1. mem' \in [Eq -> EqRow(V)] /\ row' \in [Eq -> EqRow(V)]
    BY <2>0, <2>a DEF Typed, Rows
  <2>2. \A x \in Eq : mem'[x].attempt = mem[x].attempt /\ row'[x].attempt = row[x].attempt
    BY <2>0, <2>a DEF Typed, Rows
  <2> QED
    BY <2>1, <2>2, Graphic DEF Typed, Rows, EqRow
<1>3. Tasks(V)'
  <2>1. tasks' = tasks \/ \E t : tasks' = [Cancelled({e}) EXCEPT ![t] = k]
    BY Failing
  <2> HIDE DEF k
  <2> QED
    BY <1>1, <2>1, CancelledTyped, InsertedTyped, TableNext DEF Typed, Tasks
<1> QED
  BY <1>2, <1>3

\* Values come out of what is there.
LEMMA TickTypes ==
    ASSUME NEW V, Typed(V), UNCHANGED scenario, Tick
    PROVE  Types'
<1>1. PICK L : Ticks(L, Orphaned)
  BY Ticking
<1> DEFINE value(e) == <<0, Inputs(e, version[e])>>
<1>2. PICK W : Typed(W) /\ \A e \in Eq : value(e) \in W
  <2> DEFINE X == V \cup {value(e) : e \in Eq}
  <2>1. \A e \in Eq : value(e) \in X
    OBVIOUS
  <2>2. V \subseteq X
    OBVIOUS
  <2> HIDE DEF X, value
  <2>3. ASSUME NEW Y, Y = X PROVE Typed(Y)
    BY <2>2, <2>3, Grows
  <2> QED
    BY <2>1, <2>3
<1>3. UNCHANGED <<version, tasks, decided, state, gate, wanted, answer, spent>>
  BY Ticking
<1>4. /\ mem' = [e \in Eq |->
            CASE e \in L /\ Kind(e) = "control" -> [mem[e] EXCEPT !.status = "completed", !.result = value(e)]
              [] e \in L /\ Kind(e) # "control" -> [mem[e] EXCEPT !.status = "computing"]
              [] e \in Orphaned \ L -> [mem[e] EXCEPT !.status = "pending"]
              [] OTHER -> mem[e]]
      /\ row' = [e \in Eq |->
            CASE e \in L /\ Kind(e) = "control" -> [row[e] EXCEPT !.status = "completed", !.result = value(e)]
              [] e \in L /\ Kind(e) # "control" -> [row[e] EXCEPT !.status = "computing"]
              [] e \in Orphaned \ L -> [row[e] EXCEPT !.status = "pending"]
              [] OTHER -> row[e]]
      /\ eval' = [e \in Eq |-> IF e \in L /\ Kind(e) # "control"
                               THEN [NoEval EXCEPT !.pc = "queued", !.version = version[e]]
                               ELSE eval[e]]
  BY <1>1 DEF Ticks
<1>5. loop' = loop \/ \E c \in Eq : Kind(c) = "control" /\ loop' = [pc |-> "control", eq |-> c, value |-> value(c), held |-> "graph"]
  BY <1>1 DEF Ticks
<1> HIDE DEF value
<1>6. Rows(W)'
  <2>1. ASSUME NEW e \in Eq
        PROVE  /\ mem'[e] \in EqRow(W) /\ row'[e] \in EqRow(W)
               /\ mem'[e].attempt = mem[e].attempt /\ row'[e].attempt = row[e].attempt
    <3>1. mem[e] \in EqRow(W) /\ row[e] \in EqRow(W) /\ value(e) \in W
      BY <1>2 DEF Typed, Rows
    <3> DEFINE S == {mem'[e], row'[e]}
    <3>2. /\ mem'[e] \in {[mem[e] EXCEPT !.status = "completed", !.result = value(e)],
                          [mem[e] EXCEPT !.status = "computing"], [mem[e] EXCEPT !.status = "pending"], mem[e]}
          /\ row'[e] \in {[row[e] EXCEPT !.status = "completed", !.result = value(e)],
                          [row[e] EXCEPT !.status = "computing"], [row[e] EXCEPT !.status = "pending"], row[e]}
      BY <1>4
    <3> QED
      BY <3>1, <3>2 DEF EqRow, Status
  <2>2. DOMAIN mem' = Eq /\ DOMAIN row' = Eq /\ mem' = [e \in Eq |-> mem'[e]] /\ row' = [e \in Eq |-> row'[e]]
    BY <1>4
  <2>3. mem' \in [Eq -> EqRow(W)] /\ row' \in [Eq -> EqRow(W)]
    BY <2>1, <2>2
  <2>4. spent' = spent /\ spent \in 0..scenario.limit
    BY <1>2, <1>3 DEF Typed, Rows
  <2>5. \A e \in Eq : mem'[e].attempt =< spent' + 1 /\ row'[e].attempt =< spent' + 1
    BY <1>2, <2>1, <2>4 DEF Typed, Rows
  <2> QED
    BY <1>2, <2>3, <2>4, <2>5, RowsNext
<1>7. Evals(W)'
  <2>1. ASSUME NEW e \in Eq PROVE [NoEval EXCEPT !.pc = "queued", !.version = version[e]] \in EvalRow(W)
    BY <1>2 DEF Typed, Running, EvalRow, NoEval
  <2>2. eval' \in [Eq -> EvalRow(W)]
    BY <1>2, <1>4, <2>1 DEF Typed, Evals
  <2>3. \A e \in Eq : SensibleEval(e, eval[e])'
    BY <1>2, <1>4, Keeps DEF Typed, Evals, SensibleEval
  <2> QED
    BY <2>2, <2>3 DEF Evals
<1>8. Loops(W)'
  <2>1. ASSUME NEW c \in Eq, Kind(c) = "control", loop' = [pc |-> "control", eq |-> c, value |-> value(c), held |-> "graph"]
        PROVE  Loops(W)'
    <3>1. c \in 0..NumEq /\ value(c) \in W /\ Kind(c)' = Kind(c)
      BY <1>2, FlowAssumption, Keeps DEF Eq
    <3> QED
      BY <2>1, <3>1 DEF Loops, LoopRow, SensibleLoop, Hold
  <2> QED
    BY <1>2, <1>5, <2>1, Keeps
<1> QED
  BY <1>2, <1>3, <1>6, <1>7, <1>8, Keeps DEF Types, Typed

LEMMA LoopTypes ==
    ASSUME NEW V, Typed(V), UNCHANGED scenario, ControlDone \/ LoopEnds
    PROVE  Types'
<1>1. CASE LoopEnds
  <2>0. NoLoop \in LoopRow(V) /\ SensibleLoop(NoLoop)'
    BY FlowAssumption DEF Typed, LoopRow, SensibleLoop, NoLoop, Hold
  <2>1. Loops(V)'
    BY <1>1, <2>0 DEF LoopEnds, Loops, SensibleLoop
  <2> QED
    BY <1>1, <2>1, Keeps DEF LoopEnds, Types, Typed
<1>2. CASE ControlDone
  <2>1. UNCHANGED <<version, eval, tasks, decided, gate, wanted, answer, spent>>
    BY <1>2 DEF ControlDone
  <2>2. Loops(V)'
    <3>1. NoLoop \in LoopRow(V) /\ SensibleLoop(NoLoop)' /\ AtGate \in LoopRow(V) /\ SensibleLoop(AtGate)'
      BY FlowAssumption DEF Typed, LoopRow, SensibleLoop, NoLoop, AtGate, Hold
    <3>2. loop' = AtGate \/ loop' = NoLoop
      BY <1>2 DEF ControlDone
    <3> QED
      BY <3>1, <3>2 DEF Loops, SensibleLoop
  <2>3. Running'
    BY <1>2 DEF ControlDone, Typed, Running
  <2>4. loop.eq \in Eq /\ loop.value \in V
    BY <1>2 DEF ControlDone, Typed, Loops, LoopRow, SensibleLoop
  <2>5. \/ SetResult(loop.eq, loop.value) \/ RowOnly(loop.eq, loop.value)
        \/ UNCHANGED <<mem, row>>
    BY <1>2 DEF ControlDone, CompleteHeld, RowOnly
  <2>6. ASSUME NEW x, NEW v, x = loop.eq, v = loop.value, SetResult(x, v) \/ RowOnly(x, v)
        PROVE  Rows(V)'
    BY <2>1, <2>4, <2>6, ResultTyped, RowOnlyTyped
  <2>7. Rows(V)'
    BY <2>1, <2>5, <2>6, Keeps
  <2> QED
    BY <2>1, <2>2, <2>3, <2>7, Keeps DEF Types, Typed
<1> QED
  BY <1>1, <1>2

\* One more value.
LEMMA Another ==
    ASSUME NEW V, Typed(V), NEW v
    PROVE  \E W : V \subseteq W /\ Typed(W) /\ v \in W
<1> DEFINE W == V \cup {v}
<1>1. V \subseteq W /\ v \in W
  OBVIOUS
<1> HIDE DEF W
<1> QED
  BY <1>1, Grows

\* Disturbances are counted.
LEMMA Disturbing ==
    ASSUME NEW V, Typed(V), NEW kind, Disturb(kind)
    PROVE  /\ kind \in scenario.events
           /\ spent' = spent + 1 /\ spent < scenario.limit /\ spent' \in 0..scenario.limit /\ spent' >= spent
  BY Graphic DEF Disturb, Typed, Rows

LEMMA StartTypes ==
    ASSUME NEW V, Typed(V), UNCHANGED scenario, Read \/ Pause \/ Resume
    PROVE  Types'
<1>0. /\ AtGate \in LoopRow(V) /\ AtGate.pc = "gate" /\ AtGate.held = "graph"
      /\ "pending" \in Status
  BY FlowAssumption DEF Typed, LoopRow, AtGate, NoLoop, Hold, Status
<1>1. ASSUME UNCHANGED <<version, eval, tasks, decided, answer, spent>>,
             gate' \in BOOLEAN, wanted' \in {"running", "paused"}, state' \in {state, "running"},
             UNCHANGED <<mem, row>> \/ SetStatus(Orphaned, "pending"), loop' \in {loop, AtGate}
      PROVE  Types'
  <2>1. ASSUME NEW S, S = Orphaned, SetStatus(S, "pending") PROVE Rows(V)'
    BY <1>0, <1>1, <2>1, StatusTyped
  <2>2. Rows(V)'
    BY <1>1, <2>1, Keeps
  <2>3. Loops(V)'
    BY <1>0, <1>1, Keeps DEF Loops, SensibleLoop
  <2>4. Running'
    BY <1>1 DEF Typed, Running
  <2> QED
    BY <1>1, <2>2, <2>3, <2>4, Keeps DEF Types, Typed
<1>2. CASE Read
  BY <1>1, <1>2, Starting DEF Read, Typed, Running
<1>3. CASE Resume
  BY <1>1, <1>3, Resuming DEF Typed, Running
<1>4. CASE Pause
  <2>1. Running'
    BY <1>4 DEF Pause, Typed, Running
  <2>2. Rows(V)'
    BY <1>4, Disturbing, RowsNext DEF Pause, Typed, Rows, EqRow
  <2> QED
    BY <1>4, <2>1, <2>2, Keeps DEF Pause, Types, Typed
<1> QED
  BY <1>2, <1>3, <1>4

LEMMA EvalTypes ==
    ASSUME NEW V, Typed(V), UNCHANGED scenario, NEW e \in Eq,
           FailEval(e) \/ ExhaustEval(e) \/ ParkEval(e) \/ Succeed(e)
    PROVE  Types'
<1>0. /\ NoEval \in EvalRow(V) /\ "failed" \in Status /\ "waiting" \in Status /\ "completed" \in Status
      /\ eval \in [Eq -> EvalRow(V)] /\ eval[e].value \in V /\ eval[e].hash \in V
  BY DEF Typed, Evals, EvalRow, NoEval, Status
<1>1. ASSUME Finished(e) PROVE Evals(V)'
  <2>1. eval' \in [Eq -> EvalRow(V)] /\ eval' = [eval EXCEPT ![e] = NoEval] /\ NoEval.pc = "none"
    BY <1>0, <1>1 DEF Finished, NoEval
  <2> QED
    BY <1>0, <2>1, Keeps DEF Typed, Evals, SensibleEval
<1>2. CASE FailEval(e)
  <2>1. Rows(V)' /\ Tasks(V)'
    BY <1>0, <1>2, Disturbing, FailTyped DEF FailEval
  <2> QED
    BY <1>1, <1>2, <2>1, Keeps DEF FailEval, Types, Typed
<1>3. CASE ExhaustEval(e)
  <2>1. Rows(V)' /\ Tasks(V)'
    BY <1>0, <1>3, Disturbing, FailTyped DEF ExhaustEval
  <2>2. Running'
    BY <1>3 DEF ExhaustEval, Typed, Running
  <2> QED
    BY <1>1, <1>3, <2>1, <2>2, Keeps DEF ExhaustEval, Types, Typed
<1>4. CASE ParkEval(e)
  <2>1. Rows(V)' /\ Tasks(V)'
    BY <1>0, <1>4, Disturbing, FailTyped DEF ParkEval
  <2> QED
    BY <1>1, <1>4, <2>1, Keeps DEF ParkEval, Types, Typed
<1>5. CASE Succeed(e)
  <2> DEFINE set(q) == [q EXCEPT !.status = "completed", !.result = eval[e].value, !.hash = eval[e].hash]
             put(q) == [q EXCEPT !.result = eval[e].value]
  <2>1. \A q \in EqRow(V) : /\ set(q) \in EqRow(V) /\ set(q).attempt = q.attempt
                            /\ put(q) \in EqRow(V) /\ put(q).attempt = q.attempt
    BY <1>0 DEF EqRow
  <2>2. /\ mem' \in {mem, [mem EXCEPT ![e] = set(mem[e])], [mem EXCEPT ![e] = put(mem[e])]}
        /\ row' \in {row, [row EXCEPT ![e] = set(row[e])]}
    BY <1>5 DEF Succeed, Write
  <2> HIDE DEF set, put
  <2>3. mem' \in [Eq -> EqRow(V)] /\ row' \in [Eq -> EqRow(V)]
    BY <2>1, <2>2 DEF Typed, Rows
  <2>4. \A x \in Eq : mem'[x].attempt = mem[x].attempt /\ row'[x].attempt = row[x].attempt
    BY <2>1, <2>2 DEF Typed, Rows
  <2>5. Rows(V)'
    BY <1>5, <2>3, <2>4, RowsNext DEF Succeed, Typed, Rows
  <2> QED
    BY <1>1, <1>5, <2>5, Keeps DEF Succeed, Types, Typed
<1> QED
  BY <1>2, <1>3, <1>4, <1>5

LEMMA BeginTypes ==
    ASSUME NEW V, Typed(V), UNCHANGED scenario, NEW e \in Eq, BeginEval(e)
    PROVE  Types'
<1>1. PICK hash : hash = Inputs(e, eval[e].version)
  OBVIOUS
<1>2. /\ UNCHANGED <<version, decided, state, gate, loop, wanted, answer, spent>>
      /\ \/ Misses(e)
         \/ \E value : Evaluates(e, hash, value) /\ RunsWith(e, hash, value)
         \/ Asks(e, hash)
  BY <1>1, Beginning
<1>3. PICK W : Typed(W) /\ hash \in W
  BY Another
<1>a. ASSUME NEW U, Typed(U), Finished(e) PROVE Evals(U)'
  <2>1. NoEval \in EvalRow(U)
    BY <1>a DEF Typed, EvalRow, NoEval
  <2>2. eval' \in [Eq -> EvalRow(U)] /\ eval' = [eval EXCEPT ![e] = NoEval] /\ NoEval.pc = "none"
    BY <1>a, <2>1 DEF Finished, NoEval, Typed, Evals
  <2> QED
    BY <1>a, <2>2, Keeps DEF Typed, Evals, SensibleEval
<1>b. spent' = spent /\ spent \in 0..scenario.limit
  BY <1>2 DEF Typed, Rows
<1>4. CASE Misses(e)
  <2>1. Fail(e, "failed", "error") /\ "failed" \in Status
    BY <1>4 DEF Misses, Status
  <2>2. Rows(V)' /\ Tasks(V)'
    BY <1>2, <1>b, <2>1, FailTyped, Graphic
  <2>3. Evals(V)'
    BY <1>4, <1>a DEF Misses
  <2> QED
    BY <1>2, <2>2, <2>3, Keeps DEF Types, Typed
<1>r. ASSUME NEW U, Typed(U), hash \in U, Remembers(e, hash), UNCHANGED row PROVE Rows(U)'
  <2> DEFINE put(q) == [q EXCEPT !.hash = hash]
  <2>1. \A q \in EqRow(U) : put(q) \in EqRow(U) /\ put(q).attempt = q.attempt
    BY <1>r DEF EqRow
  <2>2. mem' \in {mem, [mem EXCEPT ![e] = put(mem[e])]}
    BY <1>r DEF Remembers
  <2> HIDE DEF put
  <2>3. mem' \in [Eq -> EqRow(U)] /\ row' \in [Eq -> EqRow(U)]
    BY <1>r, <2>1, <2>2 DEF Typed, Rows
  <2>4. \A x \in Eq : mem'[x].attempt = mem[x].attempt /\ row'[x].attempt = row[x].attempt
    BY <1>r, <2>1, <2>2 DEF Typed, Rows
  <2> QED
    BY <1>r, <1>2, <2>3, <2>4, RowsNext DEF Typed, Rows
<1>5. ASSUME NEW value, Evaluates(e, hash, value), RunsWith(e, hash, value)
      PROVE  Types'
  <2>1. PICK U : Typed(U) /\ hash \in U /\ value \in U
    BY <1>3, Another
  <2>2. Rows(U)'
    BY <1>5, <1>r, <2>1 DEF RunsWith
  <2>3. Evals(U)'
    <3>1. eval' = [eval EXCEPT ![e].pc = "running", ![e].value = value, ![e].hash = hash]
      BY <1>5 DEF RunsWith
    <3>2. eval' \in [Eq -> EvalRow(U)]
      BY <2>1, <3>1 DEF Typed, Evals, EvalRow
    <3>3. Kind(e) # "control"
      BY <1>5 DEF Evaluates, Hitl
    <3> QED
      BY <2>1, <3>1, <3>2, <3>3, Keeps DEF Typed, Evals, SensibleEval
  <2> QED
    BY <1>2, <1>5, <2>1, <2>2, <2>3, Keeps DEF RunsWith, Types, Typed
<1>6. CASE Asks(e, hash)
  <2> DEFINE k == [eq |-> e, type |-> Kind(e), hash |-> hash, known |-> TRUE]
  <2>0. e \in 0..NumEq /\ Kind(e) \in Hitl /\ Finished(e)
    BY <1>6, FlowAssumption DEF Asks, Eq
  <2>1. k \in TaskRow(W) /\ SensibleTask(k)
    BY <1>3, <2>0 DEF TaskRow, TaskType, SensibleTask, Hitl
  <2>2. \E t : tasks' = [tasks EXCEPT ![t] = k]
    BY <1>6 DEF Asks
  <2>3. Tasks(W)'
    <3>1. PICK kk : kk = k
      OBVIOUS
    <3> HIDE DEF k
    <3> QED
      BY <1>3, <2>1, <2>2, <3>1, InsertedTyped, TableNext DEF Typed, Tasks
  <2>4. Rows(W)'
    <3> DEFINE set(q) == [q EXCEPT !.status = "awaiting", !.hash = hash]
    <3>1. CASE Remembers(e, hash) /\ UNCHANGED row
      BY <1>3, <1>r, <3>1
    <3>2. CASE /\ mem' \in {mem, [mem EXCEPT ![e] = set(mem[e])]}
               /\ row' = [row EXCEPT ![e] = set(row[e])]
      <4>1. \A q \in EqRow(W) : set(q) \in EqRow(W) /\ set(q).attempt = q.attempt
        BY <1>3 DEF EqRow, Status
      <4> HIDE DEF set
      <4>2. mem' \in [Eq -> EqRow(W)] /\ row' \in [Eq -> EqRow(W)]
        BY <1>3, <3>2, <4>1 DEF Typed, Rows
      <4>3. \A x \in Eq : mem'[x].attempt = mem[x].attempt /\ row'[x].attempt = row[x].attempt
        BY <1>3, <3>2, <4>1 DEF Typed, Rows
      <4> QED
        BY <1>2, <1>3, <4>2, <4>3, RowsNext DEF Typed, Rows
    <3> QED
      BY <1>6, <3>1, <3>2 DEF Asks
  <2> QED
    BY <1>2, <1>3, <1>a, <2>0, <2>3, <2>4, Keeps DEF Types, Typed
<1> QED
  BY <1>2, <1>4, <1>5, <1>6

LEMMA RedoTypes ==
    ASSUME NEW V, Typed(V), UNCHANGED scenario, NEW e \in Eq, ToolsChanged(e) \/ Invalidate(e)
    PROVE  Types'
<1>0. "pending" \in Status
  BY DEF Status
<1>1. CASE ToolsChanged(e)
  <2>1. Rows(V)'
    BY <1>0, <1>1, StatusTyped DEF ToolsChanged
  <2>2. Tasks(V)'
    BY <1>1, CancelledTyped, TableNext DEF ToolsChanged
  <2> QED
    BY <1>1, <2>1, <2>2, Keeps DEF ToolsChanged, Types, Typed
<1>2. CASE Invalidate(e)
  <2>1. Rows(V)' /\ Evals(V)' /\ Decided(V)'
    BY <1>2, Disturbing, ResetTyped DEF Invalidate
  <2>2. Tasks(V)'
    BY <1>2, CancelledTyped, TableNext DEF Invalidate
  <2>3. Running' /\ Loops(V)'
    BY <1>2, ActivatingTyped DEF Invalidate
  <2> QED
    BY <1>2, <2>1, <2>2, <2>3, Keeps DEF Invalidate, Types, Typed
<1> QED
  BY <1>1, <1>2

\* Tasks are the same when their parts are.
LEMMA SameTask ==
    ASSUME NEW V, NEW k \in TaskRow(V), NEW l \in TaskRow(V),
           k.eq = l.eq, k.type = l.type, k.hash = l.hash, k.known = l.known
    PROVE  k = l
  BY DEF TaskRow

LEMMA CrashTypes ==
    ASSUME NEW V, Typed(V), UNCHANGED scenario, Crash
    PROVE  Types'
<1>1. Rows(V)'
  BY Disturbing, RowsNext DEF Crash, Typed, Rows, EqRow
<1>2. Evals(V)'
  BY Keeps DEF Crash, Typed, Evals, EvalRow, SensibleEval, NoEval
<1>3. Tasks(V)'
  <2>1. tasks' = [t \in Task |-> [tasks[t] EXCEPT !.known = FALSE]]
    BY DEF Crash
  <2>2. TaskTable(V, tasks')
    <3>1. tasks' \in [Task -> TaskRow(V)]
      BY <2>1 DEF Typed, Tasks, TaskTable, TaskRow
    <3>2. ASSUME NEW t \in Task PROVE SensibleTask([tasks[t] EXCEPT !.known = FALSE])
      <4>1. tasks[t] \in TaskRow(V) /\ SensibleTask(tasks[t])
        BY DEF Typed, Tasks, TaskTable
      <4>2. CASE tasks[t].type = "none"
        <5>1. tasks[t] = NoTask
          BY <4>1, <4>2 DEF SensibleTask
        <5> DEFINE l == [tasks[t] EXCEPT !.known = FALSE]
        <5>2. /\ l \in TaskRow(V) /\ l.eq = tasks[t].eq /\ l.type = tasks[t].type
              /\ l.hash = tasks[t].hash /\ l.known = FALSE
          BY <4>1 DEF TaskRow
        <5>3. tasks[t].known = FALSE
          BY <5>1 DEF NoTask
        <5> HIDE DEF l
        <5>4. l = tasks[t]
          BY <4>1, <5>2, <5>3, SameTask
        <5> QED
          BY <4>1, <5>4 DEF l
      <4>3. CASE tasks[t].type # "none"
        BY <4>1, <4>3 DEF SensibleTask, TaskRow
      <4> QED
        BY <4>2, <4>3
    <3> QED
      BY <2>1, <3>1, <3>2 DEF TaskTable
  <2>3. PICK ts : ts = tasks'
    OBVIOUS
  <2> QED
    BY <2>2, <2>3, TableNext
<1>4. Answers(V)'
  <2>1. NoAnswer \in AnswerRow(V) /\ NoAnswer.pc = "idle" /\ NoAnswer.held = "graph"
    BY FlowAssumption DEF Typed, AnswerRow, NoAnswer, Hold
  <2>2. answer' = [r \in Request |-> NoAnswer]
    BY DEF Crash
  <2> QED
    BY <2>1, <2>2 DEF Answers, SensibleAnswer
<1>5. Loops(V)'
  <2>1. NoLoop \in LoopRow(V) /\ SensibleLoop(NoLoop)'
    BY FlowAssumption DEF Typed, LoopRow, SensibleLoop, NoLoop, Hold
  <2> QED
    BY <2>1 DEF Crash, Loops, SensibleLoop
<1>6. Running'
  BY DEF Crash, Typed, Running
<1> QED
  BY <1>1, <1>2, <1>3, <1>4, <1>5, <1>6, Keeps DEF Crash, Types, Typed

LEMMA RestartTypes ==
    ASSUME NEW V, Typed(V), UNCHANGED scenario, Restart
    PROVE  Types'
<1>1. Rows(V)'
  <2>1. NewEq \in EqRow(V) /\ NewEq.attempt = 1
    BY DEF Typed, EqRow, NewEq, Status
  <2>2. mem' \in [Eq -> EqRow(V)] /\ row' \in [Eq -> EqRow(V)]
    BY <2>1 DEF Restart, Typed, Rows, EqRow, Status
  <2>3. \A e \in Eq : mem'[e].attempt \in {row[e].attempt, 1} /\ row'[e].attempt = row[e].attempt
    BY <2>1 DEF Restart, Typed, Rows, EqRow
  <2>4. spent' = spent /\ spent \in 0..scenario.limit /\ 1 =< spent + 1
    BY Graphic DEF Restart, Typed, Rows
  <2>5. \A e \in Eq : mem'[e].attempt =< spent' + 1 /\ row'[e].attempt =< spent' + 1
    BY <2>3, <2>4 DEF Typed, Rows
  <2> QED
    BY <2>2, <2>4, <2>5, RowsNext
<1>2. Loops(V)'
  <2>1. AtGate \in LoopRow(V) /\ AtGate.pc = "gate" /\ AtGate.held = "graph"
    BY FlowAssumption DEF Typed, LoopRow, AtGate, NoLoop, Hold
  <2>2. loop' \in {loop, AtGate}
    BY DEF Restart
  <2> QED
    BY <2>1, <2>2, Keeps DEF Loops, SensibleLoop
<1>3. Running'
  BY DEF Restart, Typed, Running
<1> QED
  BY <1>1, <1>2, <1>3, Keeps DEF Restart, Types, Typed

\* What a request holds makes sense as long as the circumstances do.
LEMMA StillSensible ==
    ASSUME NEW V, Typed(V), UNCHANGED scenario, NEW b \in AnswerRow(V), SensibleAnswer(b)
    PROVE  SensibleAnswer(b)'
<1>1. \A e \in Eq : Kind(e)' = Kind(e) /\ Picks(e)' = Picks(e)
  BY Keeps
<1>2. b.pc # "idle" => b.eq \in Eq
  BY DEF SensibleAnswer
<1>3. CASE b.pc = "idle"
  BY <1>3 DEF SensibleAnswer
<1>4. CASE b.pc # "idle"
  BY <1>1, <1>2, <1>4 DEF SensibleAnswer, Suspends
<1> QED
  BY <1>3, <1>4

LEMMA EditTypes ==
    ASSUME NEW V, Typed(V), UNCHANGED scenario, NEW e \in Eq, Edit(e)
    PROVE  Types'
<1>0. spent' = spent + 1 /\ spent < scenario.limit /\ spent' \in 0..scenario.limit /\ spent \in Nat
  <2>1. PICK kind : Disturb(kind)
    BY DEF Edit
  <2> QED
    BY <2>1, Disturbing, Graphic DEF Typed, Rows
<1> DEFINE S == Cascade(e)
           n(x) == IF x = e THEN 1 ELSE mem[x].attempt
           over(x, q) == [q EXCEPT !.status = "pending", !.result = NoValue, !.attempt = n(x)]
           anew(x, q) == [over(x, q) EXCEPT !.hash = NoValue]
<1>1. /\ mem' = [x \in Eq |-> IF x \in S THEN anew(x, mem[x]) ELSE mem[x]]
      /\ row' = [x \in Eq |-> IF x \in S THEN over(x, row[x]) ELSE row[x]]
      /\ decided' = Forgotten(S) /\ tasks' = Cancelled(S)
  BY DEF Edit
<1>2. \A x \in Eq : n(x) \in Nat \ {0} /\ n(x) =< spent + 1
  BY <1>0 DEF Typed, Rows, EqRow
<1>3. \A x \in Eq : \A q \in EqRow(V) : /\ over(x, q) \in EqRow(V) /\ over(x, q).attempt = n(x)
                                        /\ anew(x, q) \in EqRow(V) /\ anew(x, q).attempt = n(x)
  BY <1>2 DEF Typed, EqRow, Status
<1> HIDE DEF S, n, over, anew
<1>4. mem' \in [Eq -> EqRow(V)] /\ row' \in [Eq -> EqRow(V)]
  BY <1>1, <1>3 DEF Typed, Rows
<1>5. \A x \in Eq : mem'[x].attempt \in {n(x), mem[x].attempt} /\ row'[x].attempt \in {n(x), row[x].attempt}
  BY <1>1, <1>3 DEF Typed, Rows
<1>6. \A x \in Eq : mem'[x].attempt =< spent' + 1 /\ row'[x].attempt =< spent' + 1
  BY <1>0, <1>2, <1>4, <1>5 DEF Typed, Rows, EqRow
<1>7. Rows(V)'
  BY <1>0, <1>4, <1>6, RowsNext
<1>8. Evals(V)'
  <2>1. eval' = [x \in Eq |-> [eval[x] EXCEPT !.old = (@ \/ eval[x].pc # "none")]]
    BY DEF Edit
  <2>2. eval' \in [Eq -> EvalRow(V)]
    BY <2>1 DEF Typed, Evals, EvalRow
  <2>3. \A x \in Eq : eval'[x].pc = eval[x].pc
    BY <2>1 DEF Typed, Evals, EvalRow
  <2> QED
    BY <2>2, <2>3, Keeps DEF Typed, Evals, SensibleEval
<1>9. Tasks(V)' /\ Decided(V)'
  <2>1. PICK T : T = S
    OBVIOUS
  <2> QED
    BY <1>1, <2>1, CancelledTyped, TableNext, ForgottenTyped
<1>10. Running'
  <2>0. version' = [version EXCEPT ![e] = @ + 1] /\ version \in [Eq -> Nat]
    BY DEF Edit, Typed, Running
  <2>1. version' \in [Eq -> Nat]
    BY <2>0
  <2> QED
    BY <2>1 DEF Edit, Typed, Running
<1>11. Answers(V)'
  <2>1. answer' = [r \in Request |-> LeftWith(answer[r])]
    BY DEF Edit
  <2>2. ASSUME NEW a \in AnswerRow(V), SensibleAnswer(a), a.pc # "idle" => "busy_edit" \in scenario.events
        PROVE  LeftWith(a) \in AnswerRow(V) /\ SensibleAnswer(LeftWith(a))
    <3>1. CASE a.pc \notin {"finalize", "swap"}
      BY <2>2, <3>1 DEF LeftWith
    <3>2. CASE a.pc \in {"finalize", "swap"}
      <4> DEFINE h == IF a.held = "graph" THEN mem[a.eq].hash ELSE a.hash
                 k == Left(a.held, a.eq)
                 b == [a EXCEPT !.held = k, !.hash = h]
      <4>1. k \in Hold
        BY DEF Left, Hold, AnswerRow
      <4>2. a.eq \in Eq /\ h \in V
        BY <2>2, <3>2 DEF SensibleAnswer, Typed, Rows, EqRow, AnswerRow
      <4>3. LeftWith(a) = b
        BY <3>2 DEF LeftWith
      <4> HIDE DEF h, k
      <4>4. b \in AnswerRow(V) /\ b.pc = a.pc /\ b.eq = a.eq /\ b.pick = a.pick
        BY <4>1, <4>2 DEF AnswerRow
      <4> QED
        BY <2>2, <3>2, <4>3, <4>4 DEF SensibleAnswer
    <3> QED
      BY <3>1, <3>2
  <2>3. \A r \in Request : /\ answer[r] \in AnswerRow(V) /\ SensibleAnswer(answer[r])
                           /\ answer[r].pc # "idle" => "busy_edit" \in scenario.events
    BY DEF Typed, Answers, Edit, Disturb, NothingHeld
  <2>4. ASSUME NEW r \in Request
        PROVE  answer'[r] \in AnswerRow(V) /\ SensibleAnswer(LeftWith(answer[r]))
    <3>1. PICK a : a = answer[r]
      OBVIOUS
    <3>2. /\ a \in AnswerRow(V) /\ SensibleAnswer(a)
          /\ a.pc # "idle" => "busy_edit" \in scenario.events
      BY <2>3, <3>1
    <3>3. LeftWith(a) \in AnswerRow(V) /\ SensibleAnswer(LeftWith(a))
      BY <2>2, <3>2
    <3> QED
      BY <2>1, <3>1, <3>3
  <2>5. ASSUME NEW r \in Request PROVE SensibleAnswer(answer[r])'
    <3>1. PICK b : b = LeftWith(answer[r])
      OBVIOUS
    <3>2. SensibleAnswer(b)' /\ answer'[r] = b
      BY <2>1, <2>4, <3>1, StillSensible
    <3> QED
      BY <3>2 DEF SensibleAnswer
  <2> QED
    BY <2>1, <2>4, <2>5 DEF Answers
<1>12. Loops(V)'
  <2>1. CASE loop.pc # "control"
    BY <2>1, Keeps DEF Edit
  <2>2. CASE loop.pc = "control"
    <3>1. Left(loop.held, loop.eq) \in Hold /\ "busy_edit" \in scenario.events
      BY <2>2 DEF Left, Hold, Typed, Loops, LoopRow, Edit, Disturb, NothingHeld
    <3>2. loop' = [loop EXCEPT !.held = Left(loop.held, loop.eq)]
      BY <2>2 DEF Edit
    <3>3. loop' \in LoopRow(V) /\ loop'.pc = loop.pc /\ loop'.eq = loop.eq
      BY <3>1, <3>2 DEF Typed, Loops, LoopRow
    <3> QED
      BY <2>2, <3>1, <3>3, Keeps DEF Typed, Loops, SensibleLoop
  <2> QED
    BY <2>1, <2>2
<1> QED
  BY <1>7, <1>8, <1>9, <1>10, <1>11, <1>12, Keeps DEF Edit, Types, Typed

\* Requests: one of them changes.
LEMMA AnswersNext ==
    ASSUME NEW V, Typed(V), UNCHANGED scenario, NEW r, NEW a \in AnswerRow(V), SensibleAnswer(a),
           answer' = [answer EXCEPT ![r] = a]
    PROVE  Answers(V)'
<1>1. answer' \in [Request -> AnswerRow(V)]
  BY DEF Typed, Answers
<1>2. ASSUME NEW q \in Request PROVE SensibleAnswer(answer'[q])
  BY DEF Typed, Answers
<1> QED
  BY <1>1, <1>2, StillSensible DEF Answers

LEMMA IdleAnswer ==
    ASSUME NEW V, Typed(V)
    PROVE  NoAnswer \in AnswerRow(V) /\ SensibleAnswer(NoAnswer) /\ NoAnswer.pc = "idle"
  BY FlowAssumption DEF Typed, AnswerRow, NoAnswer, SensibleAnswer, Hold

LEMMA DecideTypes ==
    ASSUME NEW V, Typed(V), UNCHANGED <<scenario, version, wanted>>, NEW r, NEW a \in AnswerRow(V),
           SensibleAnswer(a) \/ a.pick = "reject", a.pc = "promote", a.eq \in Eq, Decide(r, a, tasks)
    PROVE  Types'
<1>0. NoAnswer \in AnswerRow(V) /\ SensibleAnswer(NoAnswer)
  BY IdleAnswer
<1>1. CASE Rejects(r, a, tasks)
  <2>1. Rows(V)' /\ Evals(V)' /\ Decided(V)'
    BY <1>1, Disturbing, ResetTyped DEF Rejects
  <2>2. Tasks(V)'
    <3>1. PICK ts : ts = [tasks EXCEPT ![a.task] = NoTask]
      OBVIOUS
    <3>2. TaskTable(V, ts)
      BY <3>1, ClosedTyped DEF Typed, Tasks
    <3>3. PICK S : S = UNION {Cascade(d) : d \in Deps(a.eq)}
      OBVIOUS
    <3>4. tasks' = [t \in Task |-> IF ts[t].eq \in S THEN NoTask ELSE ts[t]]
      BY <1>1, <3>1, <3>3 DEF Rejects
    <3> QED
      BY <3>2, <3>4, ClosedTyped, TableNext
  <2>3. Running' /\ Loops(V)'
    BY <1>1, ActivatingTyped DEF Rejects
  <2>4. Answers(V)'
    BY <1>0, <1>1, AnswersNext DEF Rejects
  <2> QED
    BY <2>1, <2>2, <2>3, <2>4, Keeps DEF Types, Typed
<1>2. ASSUME Closes(a, tasks), NEW W, V \subseteq W, Typed(W)
      PROVE  Tasks(W)' /\ Decided(W)' /\ Evals(W)' /\ spent' = spent
             /\ Kind(a.eq) \in Hitl /\ a.pick \in Picks(a.eq) \ {"reject"}
  <2>1. tasks' = [tasks EXCEPT ![a.task] = NoTask] /\ UNCHANGED <<eval, spent>>
    BY <1>2 DEF Closes
  <2>2. Tasks(W)'
    BY <1>2, <2>1, ClosedTyped, TableNext DEF Typed, Tasks
  <2>3. a.hash \in W /\ Kind(a.eq) \in Hitl /\ a.pick \in Picks(a.eq) \ {"reject"}
    BY <1>2 DEF Closes, AnswerRow, SensibleAnswer
  <2>4. Decided(W)'
    BY <1>2, <2>3, StoredTyped DEF Closes
  <2> QED
    BY <1>2, <2>1, <2>2, <2>3, <2>4, Keeps
<1>3. PICK v : v = Chosen(a.eq, a.pick, a.hash)
  OBVIOUS
<1>4. PICK W : V \subseteq W /\ Typed(W) /\ v \in W
  BY Another
<1>5. CASE Defers(r, a, tasks)
  <2> DEFINE b == [a EXCEPT !.pc = "finalize", !.task = 0, !.value = v]
  <2>0. Suspends("answer") /\ (a.held # "graph" => "busy_edit" \in scenario.events)
    BY <1>5 DEF Defers, Closes, SensibleAnswer
  <2>1. b \in AnswerRow(W) /\ SensibleAnswer(b)
    BY <1>4, <2>0 DEF AnswerRow, SensibleAnswer
  <2>2. answer' = [answer EXCEPT ![r] = b] /\ Closes(a, tasks)
    BY <1>3, <1>5 DEF Defers
  <2> HIDE DEF b
  <2>3. Answers(W)'
    BY <1>4, <2>1, <2>2, AnswersNext
  <2> QED
    BY <1>2, <1>4, <1>5, <2>2, <2>3, Keeps DEF Defers, Types, Typed
<1>6. CASE Applies(r, a, tasks)
  <2>1. Answers(W)'
    BY <1>0, <1>4, <1>6, AnswersNext, IdleAnswer DEF Applies
  <2>2. Rows(W)'
    BY <1>2, <1>3, <1>4, <1>6, ResultTyped DEF Applies
  <2>3. Running' /\ Loops(W)'
    BY <1>4, <1>6, ActivatingTyped DEF Applies
  <2> QED
    BY <1>2, <1>4, <1>6, <2>1, <2>2, <2>3, Keeps DEF Applies, Types, Typed
<1>7. CASE TooLate(r, a, tasks)
  <2>1. Answers(V)'
    BY <1>0, <1>7, AnswersNext DEF TooLate
  <2>2. Running' /\ Loops(V)'
    BY <1>7, ActivatingTyped DEF TooLate
  <2>3. Tasks(V)' /\ Decided(V)' /\ Evals(V)' /\ spent' = spent
    BY <1>2, <1>7 DEF TooLate
  <2> QED
    BY <1>7, <2>1, <2>2, <2>3, Keeps DEF TooLate, Types, Typed
<1> QED
  BY <1>1, <1>5, <1>6, <1>7, Deciding

LEMMA AnswerTypes ==
    ASSUME NEW V, Typed(V), UNCHANGED scenario, NEW r \in Request, NEW t \in Task, NEW pick,
           Answer(r, t, pick)
    PROVE  Types'
<1> DEFINE a == Made(t, pick)
<1>0. tasks[t] \in TaskRow(V) /\ SensibleTask(tasks[t]) /\ tasks[t].type \in Hitl
  BY Answering DEF Typed, Tasks, TaskTable, Question
<1>1. tasks[t].eq \in Eq /\ Kind(tasks[t].eq) \in Hitl /\ pick \in Picks(tasks[t].eq)
  BY <1>0, Answering DEF SensibleTask, Hitl
<1>2. a.pc = "promote" /\ a.eq = tasks[t].eq /\ a.task = t /\ a.pick = pick /\ a.hash = tasks[t].hash
      /\ a.held = "graph"
  BY DEF Made, NoAnswer
<1>3. a \in AnswerRow(V)
  <2>1. pick \in Pick \cup {"none", "approve", "reject"}
    BY <1>1 DEF Picks
  <2>2. tasks[t].eq \in 0..NumEq /\ tasks[t].hash \in V /\ NoValue \in V
    BY <1>0 DEF TaskRow, Typed
  <2> QED
    BY <2>1, <2>2 DEF Made, NoAnswer, AnswerRow, Hold
<1>4. pick # "reject" => SensibleAnswer(a)
  BY <1>1, <1>2 DEF SensibleAnswer
<1>5. PICK b : b = a
  OBVIOUS
<1> HIDE DEF a
<1>6. CASE Decide(r, a, tasks)
  BY <1>1, <1>2, <1>3, <1>4, <1>5, <1>6, Answering, DecideTypes
<1>7. CASE /\ pick # "reject"
           /\ answer' = [answer EXCEPT ![r] = a]
           /\ tasks' = [tasks EXCEPT ![t].known = FALSE]
           /\ UNCHANGED <<mem, row, eval, decided, state, gate, loop, spent, version, wanted>>
  <2>1. Answers(V)'
    BY <1>3, <1>4, <1>5, <1>7, AnswersNext
  <2>2. Tasks(V)'
    <3>1. PICK k : k = [tasks[t] EXCEPT !.known = FALSE]
      OBVIOUS
    <3>2. k \in TaskRow(V) /\ SensibleTask(k)
      BY <1>0, <3>1 DEF TaskRow, SensibleTask, Hitl
    <3>3. tasks' = [tasks EXCEPT ![t] = k]
      BY <1>7, <3>1
    <3> QED
      BY <3>2, <3>3, InsertedTyped, TableNext DEF Typed, Tasks
  <2> QED
    BY <1>7, <2>1, <2>2, Keeps DEF Types, Typed
<1> QED
  BY <1>6, <1>7, Answering DEF a

LEMMA HandleTypes ==
    ASSUME NEW V, Typed(V), UNCHANGED scenario, NEW r \in Request, Handle(r)
    PROVE  Types'
<1>0. /\ answer[r] \in AnswerRow(V) /\ SensibleAnswer(answer[r])
      /\ NoAnswer \in AnswerRow(V) /\ SensibleAnswer(NoAnswer)
  BY IdleAnswer DEF Typed, Answers
<1>1. PICK a : a = answer[r]
  OBVIOUS
<1>2. CASE Promoted(r)
  BY <1>0, <1>1, <1>2, DecideTypes DEF Promoted, SensibleAnswer
<1>3. CASE AnswerOwned(r)
  <2>1. a.eq \in Eq /\ a.value \in V
    BY <1>0, <1>1, <1>3 DEF AnswerOwned, SensibleAnswer, AnswerRow
  <2>2. /\ answer' = [answer EXCEPT ![r] = NoAnswer]
        /\ UNCHANGED <<version, eval, tasks, decided, wanted, spent>>
        /\ \/ (SetResult(a.eq, a.value) \/ RowOnly(a.eq, a.value)) /\ EnsureActive
           \/ /\ mem' = [mem EXCEPT ![a.eq].result = a.value] \/ mem' = mem
              /\ UNCHANGED <<row, state, gate, loop>>
    BY <1>1, <1>3 DEF AnswerOwned, CompleteHeld, RowOnly
  <2>3. Answers(V)'
    BY <1>0, <2>2, AnswersNext
  <2>4. CASE (SetResult(a.eq, a.value) \/ RowOnly(a.eq, a.value)) /\ EnsureActive
    BY <2>1, <2>2, <2>3, <2>4, ResultTyped, RowOnlyTyped, ActivatingTyped, Keeps DEF Types, Typed
  <2>6. CASE UNCHANGED <<mem, row, state, gate, loop>>
    BY <2>2, <2>3, <2>6, Keeps DEF Types, Typed
  <2>5. CASE mem' = [mem EXCEPT ![a.eq].result = a.value] /\ UNCHANGED <<row, state, gate, loop>>
    <3>1. mem' \in [Eq -> EqRow(V)] /\ \A x \in Eq : mem'[x].attempt = mem[x].attempt
      BY <2>1, <2>5 DEF Typed, Rows, EqRow
    <3>2. Rows(V)'
      BY <2>2, <2>5, <3>1, RowsNext DEF Typed, Rows
    <3> QED
      BY <2>2, <2>3, <2>5, <3>2, Keeps DEF Types, Typed
  <2> QED
    BY <2>2, <2>4, <2>5, <2>6
<1>4. CASE Swap(r)
  <2>1. a.eq \in Eq /\ a.value \in V /\ Kind(a.eq) = "select" /\ a.pick \in Pick
    BY <1>0, <1>1, <1>4 DEF Swap, SensibleAnswer, AnswerRow
  <2>2. /\ answer' = [answer EXCEPT ![r] = NoAnswer]
        /\ UNCHANGED <<version, eval, tasks, state, gate, loop, wanted, spent>>
        /\ mem' = IF a.held = "graph" THEN [mem EXCEPT ![a.eq].result = a.value] ELSE mem
        /\ row' = [row EXCEPT ![a.eq].status = "completed", ![a.eq].result = a.value]
        /\ decided' = Stored(a.eq, IF a.held = "graph" THEN mem[a.eq].hash ELSE a.hash, a.pick)
    BY <1>1, <1>4 DEF Swap
  <2>3. Answers(V)'
    BY <1>0, <2>2, AnswersNext
  <2>4. /\ mem' \in [Eq -> EqRow(V)] /\ \A x \in Eq : mem'[x].attempt = mem[x].attempt
        /\ row' \in [Eq -> EqRow(V)] /\ \A x \in Eq : row'[x].attempt = row[x].attempt
    <3>1. /\ mem' \in [Eq -> EqRow(V)] /\ \A x \in Eq : mem'[x].attempt = mem[x].attempt
      BY <2>1, <2>2 DEF Typed, Rows, EqRow
    <3> DEFINE half == [row EXCEPT ![a.eq].status = "completed"]
    <3>2. half \in [Eq -> EqRow(V)] /\ \A x \in Eq : half[x].attempt = row[x].attempt
      BY <2>1 DEF Typed, Rows, EqRow, Status
    <3>3. row' = [half EXCEPT ![a.eq].result = a.value]
      BY <2>2
    <3> HIDE DEF half
    <3>4. row' \in [Eq -> EqRow(V)] /\ \A x \in Eq : row'[x].attempt = half[x].attempt
      BY <2>1, <3>2, <3>3 DEF EqRow
    <3> QED
      BY <3>1, <3>2, <3>4
  <2>5. Rows(V)'
    BY <2>2, <2>4, RowsNext DEF Typed, Rows
  <2>6. Decided(V)'
    <3>1. PICK h : h = IF a.held = "graph" THEN mem[a.eq].hash ELSE a.hash
      OBVIOUS
    <3>2. h \in V
      BY <1>0, <1>1, <2>1, <3>1 DEF Typed, Rows, EqRow, AnswerRow
    <3>3. a.pick \in Picks(a.eq) \ {"reject"} /\ Kind(a.eq) \in Hitl
      BY <2>1, FlowAssumption DEF Picks, Hitl
    <3> QED
      BY <2>1, <2>2, <3>1, <3>2, <3>3, StoredTyped
  <2> QED
    BY <2>2, <2>3, <2>5, <2>6, Keeps DEF Types, Typed
<1> QED
  BY <1>2, <1>3, <1>4 DEF Handle

LEMMA TaskTypes ==
    ASSUME NEW V, Typed(V), UNCHANGED scenario, NEW t \in Task,
           Retry(t) \/ Skip(t) \/ \E pick : AnswerOffline(t, pick)
    PROVE  Types'
<1>0. tasks[t] \in TaskRow(V) /\ SensibleTask(tasks[t])
  BY DEF Typed, Tasks, TaskTable
<1>1. CASE Retry(t)
  <2>1. /\ UNCHANGED <<version, eval, decided, wanted, answer, spent>> /\ EnsureActive
        /\ \/ SetStatus({tasks[t].eq}, "pending") /\ tasks' = Cancelled({tasks[t].eq})
           \/ tasks' = [tasks EXCEPT ![t] = NoTask] /\ UNCHANGED <<mem, row>>
    BY <1>1 DEF Retry
  <2>2. PICK S : S = {tasks[t].eq}
    OBVIOUS
  <2>3. Rows(V)'
    BY <2>1, <2>2, StatusTyped, Keeps DEF Status
  <2>4. Tasks(V)'
    BY <2>1, <2>2, CancelledTyped, ClosedTyped, TableNext DEF Typed, Tasks
  <2> QED
    BY <2>1, <2>3, <2>4, ActivatingTyped, Keeps DEF Types, Typed
<1>2. CASE Skip(t)
  <2> DEFINE S0 == {x \in (IF tasks[t].type = "error" THEN Iteration(tasks[t].eq) ELSE {tasks[t].eq}) :
                      mem[x].status \notin {"completed", "skipped"}}
             set(q) == [q EXCEPT !.status = "skipped", !.result = NoValue]
  <2>1. PICK S : S = S0
    OBVIOUS
  <2>2. /\ mem' = [x \in Eq |-> IF x \in S THEN set(mem[x]) ELSE mem[x]]
        /\ row' = [x \in Eq |-> IF x \in S THEN set(row[x]) ELSE row[x]]
    BY <1>2, <2>1 DEF Skip, Persist
  <2>3. \A q \in EqRow(V) : set(q) \in EqRow(V) /\ set(q).attempt = q.attempt
    BY DEF Typed, EqRow, Status
  <2> HIDE DEF set
  <2>4. /\ mem' \in [Eq -> EqRow(V)] /\ \A x \in Eq : mem'[x].attempt = mem[x].attempt
        /\ row' \in [Eq -> EqRow(V)] /\ \A x \in Eq : row'[x].attempt = row[x].attempt
    BY <2>2, <2>3 DEF Typed, Rows
  <2>5. Rows(V)'
    <3>1. spent' = spent + 1 /\ spent' \in 0..scenario.limit /\ spent \in Nat
      <4>1. Disturb("skip")
        BY <1>2 DEF Skip
      <4>2. spent \in Nat
        BY Graphic DEF Typed, Rows
      <4> QED
        BY <4>1, <4>2, Disturbing
    <3>2. \A e \in Eq : mem'[e].attempt =< spent' + 1 /\ row'[e].attempt =< spent' + 1
      BY <2>4, <3>1 DEF Typed, Rows, EqRow
    <3> QED
      BY <2>4, <3>1, <3>2, RowsNext
  <2>6. Tasks(V)'
    <3>1. tasks' = [Cancelled(S) EXCEPT ![t] = NoTask]
      BY <1>2, <2>1 DEF Skip
    <3> QED
      BY <3>1, CancelledTyped, ClosedTyped, TableNext
  <2>7. EnsureActive /\ UNCHANGED <<version, eval, decided, wanted, answer>>
    BY <1>2 DEF Skip
  <2> QED
    BY <2>5, <2>6, <2>7, ActivatingTyped, Keeps DEF Types, Typed
<1>3. ASSUME NEW pick, AnswerOffline(t, pick) PROVE Types'
  <2>1. PICK k : k = tasks[t]
    OBVIOUS
  <2>2. /\ k.type \in Hitl /\ pick \in Picks(k.eq) \ {"reject"}
        /\ decided' = Stored(k.eq, k.hash, pick)
        /\ tasks' = [tasks EXCEPT ![t] = NoTask]
        /\ UNCHANGED <<mem, row, version, eval, state, gate, loop, wanted, answer, spent>>
    BY <1>3, <2>1 DEF AnswerOffline, Question, OfflinePicks
  <2>3. k.eq \in Eq /\ Kind(k.eq) \in Hitl /\ k.hash \in V
    BY <1>0, <2>1, <2>2 DEF SensibleTask, Hitl, TaskRow
  <2>4. Decided(V)'
    BY <2>2, <2>3, StoredTyped
  <2>5. Tasks(V)'
    BY <2>2, ClosedTyped, TableNext DEF Typed, Tasks
  <2> QED
    BY <2>2, <2>4, <2>5, Keeps DEF Types, Typed
<1> QED
  BY <1>1, <1>2, <1>3

LEMMA ReselectTypes ==
    ASSUME NEW V, Typed(V), UNCHANGED scenario, NEW r \in Request, NEW e \in Eq, NEW pick,
           Reselect(r, e, pick)
    PROVE  Types'
<1> DEFINE over(x, q) == [q EXCEPT !.status = "pending", !.result = NoValue, !.attempt = mem[x].attempt]
<1>1. PICK h, v : h = mem[e].hash /\ v = <<pick, h>>
  OBVIOUS
<1>2. h \in V
  BY <1>1 DEF Typed, Rows, EqRow
<1>3. PICK W : V \subseteq W /\ Typed(W) /\ v \in W
  BY Another
<1> DEFINE put(q) == [q EXCEPT !.result = v]
<1>4. PICK S : S = Descendants(e)
  OBVIOUS
<1>5. /\ mem' = [x \in Eq |-> IF x \in S THEN over(x, mem[x])
                              ELSE IF x = e /\ ~Suspends("reselect") THEN put(mem[x]) ELSE mem[x]]
      /\ row' = [x \in Eq |-> IF x \in S THEN over(x, row[x])
                              ELSE IF x = e /\ ~Suspends("reselect") THEN put(row[x]) ELSE row[x]]
  BY <1>1, <1>4 DEF Reselect, Persist
<1>6. /\ Disturb("reselect") /\ Kind(e) = "select" /\ pick \in Pick
      /\ eval' = Uncomputed(S) /\ tasks' = Cancelled(S)
      /\ UNCHANGED <<version, state, gate, loop, wanted>>
  BY <1>4 DEF Reselect
<1>7. \/ /\ decided' = Forgotten(S)
         /\ answer' = [answer EXCEPT ![r] = [NoAnswer EXCEPT
                          !.pc = "swap", !.eq = e, !.pick = pick, !.value = v]]
      \/ /\ UNCHANGED answer
         /\ decided' = (Forgotten(S) \ Decision(e, h)) \cup {[eq |-> e, hash |-> h, pick |-> pick]}
  BY <1>1, <1>4 DEF Reselect
<1>8. \A x \in Eq : \A q \in EqRow(W) : /\ over(x, q) \in EqRow(W) /\ over(x, q).attempt = mem[x].attempt
                                        /\ put(q) \in EqRow(W) /\ put(q).attempt = q.attempt
  BY <1>3 DEF Typed, Rows, EqRow, Status
<1> HIDE DEF over, put
<1>9. Rows(W)'
  <2>1. spent' = spent + 1 /\ spent' \in 0..scenario.limit /\ spent \in Nat
    BY <1>6, Disturbing, Graphic DEF Typed, Rows
  <2>2. mem' \in [Eq -> EqRow(W)] /\ row' \in [Eq -> EqRow(W)]
    BY <1>3, <1>5, <1>8 DEF Typed, Rows
  <2>3. \A x \in Eq : mem'[x].attempt = mem[x].attempt /\ row'[x].attempt \in {row[x].attempt, mem[x].attempt}
    BY <1>3, <1>5, <1>8 DEF Typed, Rows
  <2>4. \A x \in Eq : mem'[x].attempt =< spent' + 1 /\ row'[x].attempt =< spent' + 1
    BY <1>3, <2>1, <2>3 DEF Typed, Rows, EqRow
  <2> QED
    BY <1>3, <2>1, <2>2, <2>4, RowsNext
<1>10. Evals(W)' /\ Tasks(W)'
  BY <1>3, <1>6, UncomputedTyped, CancelledTyped, TableNext
<1>11. Decided(W)' /\ Answers(W)'
  <2>0. pick \in Picks(e) \ {"reject"} /\ Kind(e) \in Hitl
    BY <1>6, FlowAssumption DEF Picks, Hitl
  <2>1. CASE /\ decided' = Forgotten(S)
             /\ answer' = [answer EXCEPT ![r] = [NoAnswer EXCEPT
                          !.pc = "swap", !.eq = e, !.pick = pick, !.value = v]]
    <3> DEFINE a == [NoAnswer EXCEPT !.pc = "swap", !.eq = e, !.pick = pick, !.value = v]
    <3>1. e \in 0..NumEq
      BY FlowAssumption DEF Eq
    <3>2. a \in AnswerRow(W) /\ SensibleAnswer(a)
      BY <1>3, <1>6, <3>1 DEF Typed, AnswerRow, NoAnswer, SensibleAnswer, Hold
    <3>3. answer' = [answer EXCEPT ![r] = a]
      BY <2>1
    <3>4. PICK b : b = a
      OBVIOUS
    <3> HIDE DEF a
    <3> QED
      BY <1>3, <2>1, <3>2, <3>3, <3>4, AnswersNext, ForgottenTyped
  <2>2. CASE /\ UNCHANGED answer
             /\ decided' = (Forgotten(S) \ Decision(e, h)) \cup {[eq |-> e, hash |-> h, pick |-> pick]}
    <3> DEFINE d0 == [eq |-> e, hash |-> h, pick |-> pick]
    <3>1. d0 \in Decisions(W) /\ SensibleDecision(d0)
      BY <1>2, <1>3, <2>0 DEF Decisions, SensibleDecision, Picks
    <3> HIDE DEF d0
    <3>2. \A d \in decided' : d \in decided \/ d = d0
      BY <2>2 DEF Forgotten, d0
    <3>3. \A d \in decided' : d \in Decisions(W) /\ SensibleDecision(d)
      BY <1>3, <3>1, <3>2 DEF Typed, Decided
    <3>4. \A d \in Decisions(W) : SensibleDecision(d) => SensibleDecision(d)'
      BY Keeps DEF SensibleDecision, Decisions
    <3>5. Decided(W)'
      BY <3>3, <3>4 DEF Decided, Decisions
    <3> QED
      BY <1>3, <2>2, <3>5, Keeps
  <2> QED
    BY <1>7, <2>1, <2>2
<1> QED
  BY <1>3, <1>6, <1>9, <1>10, <1>11, Keeps DEF Types, Typed

-----------------------------------------------------------------------------
(* Type correctness.                                                        *)

LEMMA InitTypes == Init => Types
<1> SUFFICES ASSUME Init PROVE Typed({NoValue})
  BY DEF Types
<1>1. NoValue \in {NoValue}
  OBVIOUS
<1>2. PICK V : V = {NoValue}
  OBVIOUS
<1>3. Rows(V)
  BY <1>2, Scenic DEF Init, Rows, EqRow, NewEq, Status
<1>4. Evals(V)
  BY <1>2 DEF Init, Evals, EvalRow, NoEval, SensibleEval
<1>5. Tasks(V)
  BY <1>2, FlowAssumption DEF Init, Tasks, TaskTable, TaskRow, TaskType, NoTask, SensibleTask, Hitl
<1>6. Answers(V)
  <2>1. NoAnswer \in AnswerRow(V) /\ SensibleAnswer(NoAnswer)
    BY <1>2, FlowAssumption DEF AnswerRow, NoAnswer, SensibleAnswer, Hold
  <2> QED
    BY <2>1 DEF Init, Answers
<1>7. Loops(V)
  BY <1>2, FlowAssumption DEF Init, Loops, LoopRow, NoLoop, AtGate, SensibleLoop, Hold
<1>8. Decided(V) /\ Running
  BY DEF Init, Decided, Running
<1> QED
  BY <1>2, <1>3, <1>4, <1>5, <1>6, <1>7, <1>8 DEF Typed, Init

LEMMA TypesStep == Types /\ [Next]_<<scenario, vars>> => Types'
<1> SUFFICES ASSUME NEW V, Typed(V), [Next]_<<scenario, vars>> PROVE Types'
  BY DEF Types
<1>1. CASE UNCHANGED <<scenario, vars>>
  BY <1>1, Keeps DEF vars, Types, Typed
<1>2. CASE Next
  <2>1. UNCHANGED scenario
    BY <1>2 DEF Next
  <2>2. CASE Loop
    BY <2>1, <2>2, TickTypes, LoopTypes DEF Loop
  <2>3. CASE Read \/ Pause \/ Resume \/ Crash \/ Restart
    BY <2>1, <2>3, StartTypes, CrashTypes, RestartTypes
  <2>4. ASSUME NEW e \in Eq, Evaluate(e) \/ ToolsChanged(e) \/ Invalidate(e) \/ Edit(e) PROVE Types'
    BY <2>1, <2>4, EvalTypes, BeginTypes, RedoTypes, EditTypes DEF Evaluate, Return
  <2>5. ASSUME NEW t \in Task, OnTask(t) PROVE Types'
    BY <2>1, <2>5, TaskTypes, AnswerTypes DEF OnTask
  <2>6. ASSUME NEW r \in Request, Handle(r) \/ \E e \in Eq, p \in Pick : Reselect(r, e, p) PROVE Types'
    BY <2>1, <2>6, HandleTypes, ReselectTypes
  <2> QED
    BY <1>2, <2>2, <2>3, <2>4, <2>5, <2>6 DEF Next
<1> QED
  BY <1>1, <1>2

LEMMA TypesOK == Types => TypeOK
<1> SUFFICES ASSUME NEW V, Typed(V) PROVE TypeOK
  BY DEF Types
<1>1. \A e \in Eq : \A q \in {mem[e], row[e]} : q.status \in Status /\ q.attempt \in 1..(scenario.limit + 1)
  BY Graphic DEF Typed, Rows, EqRow
<1>2. \A e \in Eq : eval[e].pc \in {"none", "queued", "running"} /\ version[e] \in Nat
  BY DEF Typed, Evals, EvalRow, Running
<1>3. \A t \in Task : tasks[t].eq \in 0..NumEq /\ tasks[t].known \in BOOLEAN
  BY DEF Typed, Tasks, TaskTable, TaskRow
<1>4. \A d \in decided : d.eq \in Eq /\ d.pick \in Pick \cup {"approve"}
  BY DEF Typed, Decided, Decisions
<1>5. loop.pc \in {"none", "gate", "control"}
  BY DEF Typed, Loops, LoopRow
<1>6. \A r \in Request : answer[r].pc \in {"idle", "promote", "finalize", "swap"}
  BY DEF Typed, Answers, AnswerRow
<1> QED
  BY <1>1, <1>2, <1>3, <1>4, <1>5, <1>6 DEF TypeOK, Typed, Running, Rows

LEMMA AlwaysTyped == Spec => []Types
<1> QED
  BY InitTypes, TypesStep, PTL DEF Spec

\* Every variable keeps its type, whatever disturbs the run: equations and
\* their rows always hold a status, and an attempt counts at most the
\* disturbances so far.
THEOREM TypeCorrect == Spec => []TypeOK
<1> QED
  BY AlwaysTyped, TypesOK, PTL

-----------------------------------------------------------------------------
(* An equation that awaits an answer was asked about.  A row keeps the hash *)
(* of its question: the question or the answer to it is stored under that   *)
(* hash, so that the flow that is read back can go on.                      *)

AskedAbout(e, hash) == \E t \in Task : tasks[t].eq = e /\ Question(t) /\ tasks[t].hash = hash
BeingAnswered(e) == \E r \in Request : answer[r].eq = e /\ answer[r].pc = "finalize"
Awaits(e) == mem[e].status = "awaiting" \/ row[e].status = "awaiting"

RowsAsked == \A e \in Eq : row[e].status = "awaiting" =>
                AskedAbout(e, row[e].hash) \/ Decision(e, row[e].hash) # {}
\* An edit may replace an equation while the media of its answer are waited for.
EditedUnderAnswer == "busy_edit" \in scenario.events /\ Suspends("answer")
GraphAsked == \A e \in Eq : mem[e].status = "awaiting" =>
                \/ ~Up
                \/ EditedUnderAnswer
                \/ AskedAbout(e, mem[e].hash)
                \/ BeingAnswered(e)
                \/ "crash" \in scenario.events /\ Decision(e, mem[e].hash) # {}
\* An equation awaits an answer when its evaluation has ended.
AwaitingIsIdle == \A e \in Eq : mem[e].status = "awaiting" => eval[e].pc = "none"
\* An answer that is promoted is one to the question its task asks.
Tied(r) == LET a == answer[r]
           IN  \/ tasks[a.task] = NoTask
               \/ tasks[a.task].eq = a.eq /\ Question(a.task) /\ tasks[a.task].hash = a.hash
AnswersAreTied == \A r \in Request : answer[r].pc = "promote" => Tied(r)
\* Without a run nothing is evaluated and nothing handled.
Quiet == /\ state \in {"down", "unstarted"} => "crash" \in scenario.events
         /\ ~HasRun => /\ \A e \in Eq : eval[e].pc = "none"
                       /\ \A r \in Request : answer[r].pc = "idle"

Asked == RowsAsked /\ GraphAsked /\ AwaitingIsIdle /\ AnswersAreTied /\ Quiet

\* Most steps make nothing await an answer that did not, and keep questions,
\* decisions and requests about what still does.
NoNewAwaiting ==
    \A e \in Eq : /\ row'[e].status = "awaiting" => row[e].status = "awaiting" /\ row'[e].hash = row[e].hash
                  /\ mem'[e].status = "awaiting" => mem[e].status = "awaiting" /\ mem'[e].hash = mem[e].hash
SameQuestion(k, l) == k.eq = l.eq /\ k.type = l.type /\ k.hash = l.hash
QuestionsStay ==
    \A e \in Eq : \A t \in Task : Question(t) /\ tasks[t].eq = e /\ Awaits(e)' =>
        \/ SameQuestion(tasks'[t], tasks[t])
        \/ /\ \E d \in decided' : d.eq = e /\ d.hash = tasks[t].hash
           /\ mem'[e].status = "awaiting" => "crash" \in scenario.events \/ BeingAnswered(e)'
DecisionsStay ==
    \A d \in decided : Awaits(d.eq)' => \E c \in decided' : c.eq = d.eq /\ c.hash = d.hash
AnsweredTasksStay ==
    \A r \in Request : answer[r].pc = "promote" =>
        LET t == answer[r].task IN tasks'[t] = NoTask \/ SameQuestion(tasks'[t], tasks[t])
RequestsStay ==
    /\ AnsweredTasksStay
    /\ \A r \in Request :
          /\ answer[r].pc = "finalize" /\ mem'[answer[r].eq].status = "awaiting" =>
                EditedUnderAnswer \/ answer'[r] = answer[r]
          /\ answer'[r].pc = "promote" => answer'[r] = answer[r] \/ Tied(r)'
EvalsStay == \A e \in Eq : mem'[e].status = "awaiting" => eval'[e].pc \in {"none", eval[e].pc}

LEMMA AskedKept ==
    ASSUME NEW V, Typed(V), Types', UNCHANGED scenario, Asked,
           NoNewAwaiting, QuestionsStay, DecisionsStay, RequestsStay, EvalsStay, Quiet', Up' => Up
    PROVE  Asked'
<1>1. ASSUME NEW e \in Eq, NEW hash, AskedAbout(e, hash), Awaits(e)'
      PROVE  \/ AskedAbout(e, hash)'
             \/ /\ Decision(e, hash)' # {}
                /\ mem'[e].status = "awaiting" => "crash" \in scenario.events \/ BeingAnswered(e)'
  <2>1. PICK t \in Task : tasks[t].eq = e /\ Question(t) /\ tasks[t].hash = hash
    BY <1>1 DEF AskedAbout
  <2>2. CASE SameQuestion(tasks'[t], tasks[t])
    BY <2>1, <2>2 DEF SameQuestion, AskedAbout, Question
  <2>3. CASE /\ \E d \in decided' : d.eq = e /\ d.hash = hash
             /\ mem'[e].status = "awaiting" => "crash" \in scenario.events \/ BeingAnswered(e)'
    <3>1. Decision(e, hash)' # {}
      BY <2>3 DEF Decision
    <3> QED
      BY <2>3, <3>1
  <2> QED
    BY <1>1, <2>1, <2>2, <2>3 DEF QuestionsStay
<1>2. ASSUME NEW e \in Eq, NEW hash, Decision(e, hash) # {}, Awaits(e)'
      PROVE  Decision(e, hash)' # {}
  BY <1>2 DEF DecisionsStay, Decision
<1>3. RowsAsked'
  <2> SUFFICES ASSUME NEW e \in Eq, NEW hash, hash = row'[e].hash, row'[e].status = "awaiting"
               PROVE  AskedAbout(e, hash)' \/ Decision(e, hash)' # {}
    BY DEF RowsAsked, AskedAbout, Decision
  <2>1. row[e].status = "awaiting" /\ row'[e].hash = row[e].hash /\ Awaits(e)'
    BY DEF NoNewAwaiting, Awaits
  <2>2. hash = row[e].hash
    BY <2>1
  <2>3. AskedAbout(e, hash) \/ Decision(e, hash) # {}
    BY <2>1, <2>2 DEF Asked, RowsAsked
  <2>4. AskedAbout(e, hash)' \/ Decision(e, hash)' # {}
    BY <1>1, <1>2, <2>1, <2>3
  <2> QED
    BY <2>4
<1>4. GraphAsked'
  <2> SUFFICES ASSUME NEW e \in Eq, NEW hash, hash = mem'[e].hash, mem'[e].status = "awaiting", Up',
                      ~EditedUnderAnswer
               PROVE  \/ AskedAbout(e, hash)'
                      \/ BeingAnswered(e)'
                      \/ "crash" \in scenario.events /\ Decision(e, hash)' # {}
    BY DEF GraphAsked, AskedAbout, Decision, EditedUnderAnswer, Suspends
  <2>1. mem[e].status = "awaiting" /\ mem'[e].hash = mem[e].hash /\ Awaits(e)'
    BY DEF NoNewAwaiting, Awaits
  <2>2. hash = mem[e].hash
    BY <2>1
  <2>3. \/ AskedAbout(e, hash) \/ BeingAnswered(e)
        \/ "crash" \in scenario.events /\ Decision(e, hash) # {}
    BY <2>1, <2>2 DEF Asked, GraphAsked
  <2>4. BeingAnswered(e) => BeingAnswered(e)'
    BY DEF BeingAnswered, RequestsStay
  <2>5. AskedAbout(e, hash)' \/ BeingAnswered(e)' \/ ("crash" \in scenario.events /\ Decision(e, hash)' # {})
    BY <1>1, <1>2, <2>1, <2>3, <2>4
  <2> QED
    BY <2>5
<1>5. AwaitingIsIdle'
  BY DEF Asked, AwaitingIsIdle, NoNewAwaiting, EvalsStay
<1>6. AnswersAreTied'
  <2> SUFFICES ASSUME NEW r \in Request, answer'[r].pc = "promote", answer'[r] = answer[r]
               PROVE  Tied(r)'
    BY DEF AnswersAreTied, RequestsStay
  <2>1. Tied(r)
    BY DEF Asked, AnswersAreTied
  <2>2. PICK t : t = answer[r].task
    OBVIOUS
  <2>3. tasks'[t] = NoTask \/ SameQuestion(tasks'[t], tasks[t])
    BY <2>2 DEF RequestsStay, AnsweredTasksStay
  <2>4. answer[r].task \in Task
    BY DEF Typed, Answers, SensibleAnswer
  <2>5. ASSUME tasks[t] = NoTask, SameQuestion(tasks'[t], tasks[t]) PROVE tasks'[t] = NoTask
    <3>1. PICK W : Typed(W)'
      BY DEF Types
    <3>2. tasks'[t].type = "none" => tasks'[t] = NoTask
      BY <2>2, <2>4, <3>1 DEF Typed, Tasks, TaskTable, SensibleTask
    <3>3. tasks'[t].type = "none"
      BY <2>5 DEF SameQuestion, NoTask
    <3> QED
      BY <3>2, <3>3
  <2> QED
    BY <2>1, <2>2, <2>3, <2>5 DEF Tied, SameQuestion, Question
<1> QED
  BY <1>3, <1>4, <1>5, <1>6 DEF Asked

LEMMA Stays ==
    ASSUME NEW V, Typed(V), Asked, UNCHANGED scenario
    PROVE  /\ UNCHANGED <<mem, row>> => NoNewAwaiting
           /\ UNCHANGED tasks => QuestionsStay
           /\ UNCHANGED decided => DecisionsStay
           /\ UNCHANGED <<answer, tasks>> => RequestsStay
           /\ UNCHANGED eval => EvalsStay
           /\ UNCHANGED <<state, eval, answer>> => Quiet' /\ (Up' => Up)
           /\ HasRun /\ state' \in {"running", "idle", "paused"} => Quiet' /\ Up
  BY DEF NoNewAwaiting, QuestionsStay, SameQuestion, DecisionsStay, RequestsStay, AnsweredTasksStay,
         EvalsStay, Quiet, Asked, Up, HasRun

LEMMA MustRun ==
    ASSUME NEW V, Typed(V), Asked
    PROVE  /\ \A e \in Eq : eval[e].pc # "none" => HasRun
           /\ \A r \in Request : answer[r].pc # "idle" => HasRun
           /\ HasRun => state \in {"running", "idle", "paused"}
  BY DEF Asked, Quiet, HasRun

\* Questions about what does not await an answer any more are withdrawn, and
\* other rows are closed or taken by a new task.
LEMMA CancelStays ==
    ASSUME NEW V, Typed(V), NEW S, \A e \in S : ~Awaits(e)',
           \A t \in Task : \/ tasks'[t] = Cancelled(S)[t]
                           \/ Cancelled(S)[t] = NoTask /\ \A r \in Request : answer[r].task # t
                           \/ tasks[t].type \notin Hitl /\ tasks'[t] = NoTask
    PROVE  QuestionsStay /\ AnsweredTasksStay /\ (UNCHANGED answer => RequestsStay)
<1>1. \A t \in Task : Cancelled(S)[t] = IF tasks[t].eq \in S THEN NoTask ELSE tasks[t]
  BY DEF Cancelled
<1>2. NoTask.type \notin Hitl
  BY DEF NoTask, Hitl
<1>3. QuestionsStay
  <2> SUFFICES ASSUME NEW e \in Eq, NEW t \in Task, Question(t), tasks[t].eq = e, Awaits(e)'
               PROVE  SameQuestion(tasks'[t], tasks[t])
    BY DEF QuestionsStay
  <2>1. Cancelled(S)[t] = tasks[t]
    BY <1>1
  <2>2. tasks[t] # NoTask
    BY <1>2 DEF Question
  <2>3. tasks'[t] = tasks[t]
    BY <2>1, <2>2 DEF Question
  <2> QED
    BY <2>3 DEF SameQuestion
<1>4. ASSUME NEW r \in Request, answer[r].pc = "promote", NEW t, t = answer[r].task
      PROVE  tasks'[t] = NoTask \/ SameQuestion(tasks'[t], tasks[t])
  <2>1. t \in Task
    BY <1>4 DEF Typed, Answers, SensibleAnswer
  <2>2. tasks'[t] = NoTask \/ tasks'[t] = tasks[t]
    BY <1>1, <1>4, <2>1
  <2> QED
    BY <2>2 DEF SameQuestion
<1> QED
  BY <1>3, <1>4 DEF RequestsStay, AnsweredTasksStay

LEMMA ResultAsked ==
    ASSUME NEW V, Typed(V), NEW x, NEW v, SetResult(x, v)
    PROVE  NoNewAwaiting /\ (x \in Eq => ~Awaits(x)')
<1>1. ASSUME NEW e \in Eq
      PROVE  /\ e # x => mem'[e] = mem[e] /\ row'[e] = row[e]
             /\ e = x => mem'[e].status = "completed" /\ row'[e].status = "completed"
  <2>1. mem[e] \in EqRow(V) /\ row[e] \in EqRow(V)
    BY DEF Typed, Rows
  <2>2. /\ mem'[e] = IF e = x THEN [mem[e] EXCEPT !.status = "completed", !.result = v] ELSE mem[e]
        /\ row'[e] = IF e = x THEN [row[e] EXCEPT !.status = "completed", !.result = v] ELSE row[e]
    BY DEF SetResult, Persist
  <2> QED
    BY <2>1, <2>2 DEF EqRow
<1> QED
  BY <1>1 DEF NoNewAwaiting, Awaits

LEMMA RowOnlyAsked ==
    ASSUME NEW V, Typed(V), NEW x, NEW v, RowOnly(x, v)
    PROVE  NoNewAwaiting
<1>1. ASSUME NEW e \in Eq PROVE row'[e] = row[e] \/ row'[e].status = "completed"
  <2>1. row[e] \in EqRow(V) /\ row \in [Eq -> EqRow(V)]
    BY DEF Typed, Rows
  <2>2. row'[e] = IF e = x THEN [row[e] EXCEPT !.status = "completed", !.result = v] ELSE row[e]
    BY <2>1 DEF RowOnly
  <2> QED
    BY <2>1, <2>2 DEF EqRow
<1> QED
  BY <1>1 DEF NoNewAwaiting, RowOnly

LEMMA LoopAsked ==
    ASSUME NEW V, Typed(V), Types', UNCHANGED scenario, Asked, Loop
    PROVE  Asked'
<1>1. CASE Tick
  <2>1. PICK L : Ticks(L, Orphaned)
    BY <1>1, Ticking
  <2>2. UNCHANGED <<version, tasks, decided, state, gate, wanted, answer, spent>> /\ HasRun
    BY <1>1, Ticking DEF HasRun
  <2>3. NoNewAwaiting
    <3>1. ASSUME NEW e \in Eq
          PROVE  /\ mem'[e] = mem[e] \/ mem'[e].status \in {"completed", "computing", "pending"}
                 /\ row'[e] = row[e] \/ row'[e].status \in {"completed", "computing", "pending"}
      <4>1. mem[e] \in EqRow(V) /\ row[e] \in EqRow(V)
        BY DEF Typed, Rows
      <4>2. /\ mem'[e] \in {[mem[e] EXCEPT !.status = "completed", !.result = <<0, Inputs(e, version[e])>>],
                            [mem[e] EXCEPT !.status = "computing"], [mem[e] EXCEPT !.status = "pending"], mem[e]}
            /\ row'[e] \in {[row[e] EXCEPT !.status = "completed", !.result = <<0, Inputs(e, version[e])>>],
                            [row[e] EXCEPT !.status = "computing"], [row[e] EXCEPT !.status = "pending"], row[e]}
        BY <2>1 DEF Ticks
      <4> QED
        BY <4>1, <4>2 DEF EqRow
    <3> QED
      BY <3>1 DEF NoNewAwaiting
  <2>4. EvalsStay
    <3>1. ASSUME NEW e \in Eq, eval'[e].pc # eval[e].pc PROVE mem'[e].status = "computing"
      <4>1. e \in L /\ Kind(e) # "control"
        BY <2>1, <3>1 DEF Ticks
      <4>2. mem'[e] = [mem[e] EXCEPT !.status = "computing"] /\ mem[e] \in EqRow(V)
        BY <2>1, <4>1 DEF Ticks, Typed, Rows
      <4> QED
        BY <4>2 DEF EqRow
    <3> QED
      BY <3>1 DEF EvalsStay
  <2>5. Quiet' /\ (Up' => Up)
    BY <2>2, Stays, MustRun
  <2> QED
    BY <2>2, <2>3, <2>4, <2>5, Stays, AskedKept
<1>2. CASE ControlDone
  <2>1. /\ UNCHANGED <<version, eval, tasks, decided, gate, wanted, answer, spent>>
        /\ UNCHANGED <<mem, row>> \/ SetResult(loop.eq, loop.value) \/ RowOnly(loop.eq, loop.value)
        /\ state' \in {state, "idle"}
        /\ state' # state => state = "running"
    BY <1>2 DEF ControlDone, CompleteHeld, RowOnly
  <2>2. ASSUME NEW x, NEW v, SetResult(x, v) \/ RowOnly(x, v) PROVE NoNewAwaiting
    BY <2>2, ResultAsked, RowOnlyAsked
  <2>3. NoNewAwaiting
    BY <2>1, <2>2, Stays
  <2>4. Quiet' /\ (Up' => Up)
    BY <2>1, Stays DEF HasRun
  <2> QED
    BY <2>1, <2>3, <2>4, Stays, AskedKept
<1>3. CASE LoopEnds
  BY <1>3, Stays, AskedKept DEF LoopEnds
<1> QED
  BY <1>1, <1>2, <1>3 DEF Loop

LEMMA StartAsked ==
    ASSUME NEW V, Typed(V), Types', UNCHANGED scenario, Asked, Read \/ Pause \/ Resume
    PROVE  Asked'
<1>1. ASSUME UNCHANGED <<eval, tasks, decided, answer>>, UNCHANGED <<mem, row>> \/ SetStatus(Orphaned, "pending"),
             HasRun' \/ state' = state, Up
      PROVE  Asked'
  <2>1. ASSUME NEW S, SetStatus(S, "pending") PROVE NoNewAwaiting
    BY <2>1, SettingAStatus DEF NoNewAwaiting, Typed, Rows, EqRow
  <2>2. NoNewAwaiting
    BY <1>1, <2>1, Stays
  <2>3. Quiet'
    BY <1>1 DEF Asked, Quiet, HasRun
  <2> QED
    BY <1>1, <2>2, <2>3, Stays, AskedKept
<1>2. CASE Read
  BY <1>1, <1>2, Starting DEF Read, HasRun, Up
<1>3. CASE Resume
  BY <1>1, <1>3, Resuming DEF HasRun, Up
<1>4. CASE Pause
  BY <1>1, <1>4 DEF Pause, HasRun, Up
<1> QED
  BY <1>2, <1>3, <1>4

LEMMA FailAsked ==
    ASSUME NEW V, Typed(V), Types', UNCHANGED <<scenario, decided, answer>>, Asked, NEW e \in Eq,
           NEW status \in {"failed", "waiting"}, NEW type \in {"error", "waiting_for_tool"},
           Fail(e, status, type), Finished(e), eval[e].pc # "none", state' \in {state, "paused"}
    PROVE  Asked'
<1>1. mem[e].status # "awaiting"
  BY DEF Asked, AwaitingIsIdle
<1>2. Quiet' /\ (Up' => Up)
  BY MustRun, Stays
<1>3. EvalsStay
  <2>1. \A x \in Eq : eval'[x].pc \in {"none", eval[x].pc}
    BY DEF Finished, NoEval, Typed, Evals
  <2> QED
    BY <2>1 DEF EvalsStay
<1>4. CASE UNCHANGED <<mem, row, tasks>>
  BY <1>2, <1>3, <1>4, Stays, AskedKept
<1>5. CASE /\ mem' = IF eval[e].old THEN mem ELSE [mem EXCEPT ![e] = [mem[e] EXCEPT !.status = status]]
           /\ row' = [row EXCEPT ![e] = [row[e] EXCEPT !.status = status]]
           /\ \E t \in Task :
                    /\ Cancelled({e})[t] = NoTask /\ (\A r \in Request : answer[r].task # t)
                    /\ tasks' = [Cancelled({e}) EXCEPT ![t] = [NoTask EXCEPT !.eq = e, !.type = type]]
  <2>1. /\ mem'[e].status # "awaiting" /\ row'[e].status # "awaiting"
        /\ \A x \in Eq : x # e => mem'[x] = mem[x] /\ row'[x] = row[x]
    BY <1>1, <1>5 DEF Typed, Rows, EqRow
  <2>2. NoNewAwaiting
    BY <2>1 DEF NoNewAwaiting
  <2>3. QuestionsStay /\ RequestsStay
    <3>1. PICK t \in Task :
                    /\ Cancelled({e})[t] = NoTask /\ (\A r \in Request : answer[r].task # t)
                    /\ tasks' = [Cancelled({e}) EXCEPT ![t] = [NoTask EXCEPT !.eq = e, !.type = type]]
      BY <1>5
    <3>2. \A x \in Task : tasks'[x] = Cancelled({e})[x] \/ x = t
      BY <3>1 DEF Cancelled
    <3>3. \A x \in {e} : ~Awaits(x)'
      BY <2>1 DEF Awaits
    <3> QED
      BY <3>1, <3>2, <3>3, CancelStays
  <2> QED
    BY <1>2, <1>3, <2>2, <2>3, Stays, AskedKept
<1> QED
  BY <1>4, <1>5, Failing

\* A question is put: it is in the task list under the hash its row is given.
LEMMA AskAsked ==
    ASSUME NEW V, Typed(V), Types', UNCHANGED <<scenario, decided, answer, state>>, Asked, NEW e \in Eq,
           eval[e].pc # "none", NEW hash, Asks(e, hash)
    PROVE  Asked'
<1>1. mem[e].status # "awaiting" /\ HasRun
  BY MustRun DEF Asked, AwaitingIsIdle
<1>2. Quiet' /\ (Up' => Up)
  BY <1>1, MustRun, Stays
<1>3. PICK t \in Task : /\ tasks[t] = NoTask /\ (\A r \in Request : answer[r].task # t)
                        /\ tasks' = [tasks EXCEPT ![t] =
                              [eq |-> e, type |-> Kind(e), hash |-> hash, known |-> TRUE]]
  BY DEF Asks
<1>4. /\ tasks'[t].eq = e /\ Question(t)' /\ tasks'[t].hash = hash
      /\ \A u \in Task : u # t => tasks'[u] = tasks[u]
  BY <1>3 DEF Typed, Tasks, TaskTable, Asks, Question
<1>5. AskedAbout(e, hash)'
  BY <1>4 DEF AskedAbout
<1>6. ASSUME NEW x \in Eq, NEW h, AskedAbout(x, h) PROVE AskedAbout(x, h)'
  <2>1. PICK u \in Task : tasks[u].eq = x /\ Question(u) /\ tasks[u].hash = h
    BY <1>6 DEF AskedAbout
  <2>2. u # t
    BY <1>3, <2>1 DEF Question, NoTask, Hitl
  <2> QED
    BY <1>4, <2>1, <2>2 DEF AskedAbout, Question
<1>7. /\ \A x \in Eq \ {e} : mem'[x] = mem[x] /\ row'[x] = row[x]
      /\ row'[e] = row[e] \/ (row'[e].status = "awaiting" /\ row'[e].hash = hash)
      /\ mem'[e].status = "awaiting" => mem'[e].hash = hash
  <2>1. mem[e] \in EqRow(V) /\ row[e] \in EqRow(V) /\ mem \in [Eq -> EqRow(V)] /\ row \in [Eq -> EqRow(V)]
    BY DEF Typed, Rows
  <2>2. CASE /\ mem' = IF eval[e].old THEN mem
                    ELSE [mem EXCEPT ![e] = [mem[e] EXCEPT !.status = "awaiting", !.hash = hash]]
             /\ row' = [row EXCEPT ![e] = [row[e] EXCEPT !.status = "awaiting", !.hash = hash]]
    BY <1>1, <2>1, <2>2 DEF EqRow
  <2>3. CASE Remembers(e, hash) /\ UNCHANGED row
    BY <1>1, <2>1, <2>3 DEF EqRow, Remembers
  <2> QED
    BY <2>2, <2>3 DEF Asks
<1>8. RowsAsked'
  <2> SUFFICES ASSUME NEW x \in Eq, NEW h, h = row'[x].hash, row'[x].status = "awaiting"
               PROVE  AskedAbout(x, h)' \/ Decision(x, h)' # {}
    BY DEF RowsAsked, AskedAbout, Decision
  <2>1. CASE row'[x] = row[x]
    <3>1. AskedAbout(x, h) \/ Decision(x, h) # {}
      BY <2>1 DEF Asked, RowsAsked
    <3>2. Decision(x, h)' = Decision(x, h)
      BY DEF Decision
    <3> QED
      BY <1>6, <3>1, <3>2
  <2>2. CASE x = e /\ h = hash
    BY <1>5, <2>2
  <2> QED
    BY <1>7, <2>1, <2>2
<1>9. GraphAsked'
  <2> SUFFICES ASSUME NEW x \in Eq, NEW h, h = mem'[x].hash, mem'[x].status = "awaiting",
                      ~EditedUnderAnswer
               PROVE  AskedAbout(x, h)' \/ BeingAnswered(x)'
                        \/ ("crash" \in scenario.events /\ Decision(x, h)' # {})
    BY DEF GraphAsked, AskedAbout, Decision, EditedUnderAnswer, Suspends
  <2>1. CASE x # e
    <3>1. mem'[x] = mem[x]
      BY <1>7, <2>1
    <3>2. AskedAbout(x, h) \/ BeingAnswered(x) \/ ("crash" \in scenario.events /\ Decision(x, h) # {})
      BY <1>1, <3>1 DEF Asked, GraphAsked, Up, HasRun
    <3>3. Decision(x, h)' = Decision(x, h) /\ (BeingAnswered(x) => BeingAnswered(x)')
      BY DEF Decision, BeingAnswered
    <3> QED
      BY <1>6, <3>2, <3>3
  <2>2. CASE x = e
    BY <1>5, <1>7, <2>2
  <2> QED
    BY <2>1, <2>2
<1>10. AwaitingIsIdle'
  <2>1. \A x \in Eq : eval'[x].pc = IF x = e THEN "none" ELSE eval[x].pc
    BY DEF Asks, Finished, NoEval, Typed, Evals
  <2> QED
    BY <1>7, <2>1 DEF Asked, AwaitingIsIdle
<1>11. AnswersAreTied'
  <2> SUFFICES ASSUME NEW r \in Request, answer[r].pc = "promote" PROVE Tied(r)'
    BY DEF AnswersAreTied
  <2>1. answer[r].task \in Task /\ answer[r].task # t
    BY <1>3 DEF Typed, Answers, SensibleAnswer
  <2>2. tasks'[answer[r].task] = tasks[answer[r].task] /\ Tied(r)
    BY <1>4, <2>1 DEF Asked, AnswersAreTied
  <2> QED
    BY <2>2 DEF Tied, Question
<1> QED
  BY <1>2, <1>8, <1>9, <1>10, <1>11 DEF Asked

LEMMA EvalAsked ==
    ASSUME NEW V, Typed(V), Types', UNCHANGED scenario, Asked, NEW e \in Eq, Evaluate(e)
    PROVE  Asked'
<1>0. eval[e].pc # "none" => HasRun /\ mem[e].status # "awaiting"
  BY MustRun DEF Asked, AwaitingIsIdle
<1>1. CASE BeginEval(e)
  <2>1. PICK hash : hash = Inputs(e, eval[e].version)
    OBVIOUS
  <2>2. /\ UNCHANGED <<version, decided, state, gate, loop, wanted, answer, spent>> /\ eval[e].pc = "queued"
        /\ \/ Misses(e)
           \/ \E value : RunsWith(e, hash, value)
           \/ Asks(e, hash)
    BY <1>1, <2>1, Beginning
  <2>3. CASE Misses(e)
    BY <2>2, <2>3, FailAsked DEF Misses
  <2>4. CASE Asks(e, hash)
    BY <2>2, <2>4, AskAsked
  <2>5. ASSUME NEW value, RunsWith(e, hash, value) PROVE Asked'
    <3>1. \A x \in Eq : mem'[x].status = mem[x].status /\ (x # e => mem'[x] = mem[x])
      BY <2>5 DEF RunsWith, Remembers, Typed, Rows, EqRow
    <3>2. NoNewAwaiting
      BY <1>0, <2>2, <2>5, <3>1 DEF NoNewAwaiting, RunsWith
    <3>3. \A x \in Eq : x # e => eval'[x].pc = eval[x].pc
      BY <2>5 DEF RunsWith, Typed, Evals
    <3>4. EvalsStay
      BY <1>0, <2>2, <3>1, <3>3 DEF EvalsStay
    <3>5. Quiet' /\ (Up' => Up)
      BY <1>0, <2>2, MustRun, Stays
    <3> QED
      BY <2>2, <2>5, <3>2, <3>4, <3>5, Stays, AskedKept DEF RunsWith
  <2> QED
    BY <2>2, <2>3, <2>4, <2>5
<1>2. CASE Succeed(e)
  <2>1. eval[e].pc # "none" /\ Finished(e)
        /\ UNCHANGED <<version, tasks, decided, state, gate, loop, wanted, answer, spent>>
    BY <1>2 DEF Succeed
  <2>2. ASSUME NEW x \in Eq
        PROVE  /\ mem'[x].status = "awaiting" => mem'[x] = mem[x]
               /\ row'[x].status = "awaiting" => row'[x] = row[x]
    <3>1. /\ mem'[x] \in {mem[x], [mem[x] EXCEPT !.status = "completed", !.result = eval[e].value, !.hash = eval[e].hash],
                          [mem[x] EXCEPT !.result = eval[e].value]}
          /\ row'[x] \in {row[x], [row[x] EXCEPT !.status = "completed", !.result = eval[e].value, !.hash = eval[e].hash]}
          /\ x # e => mem'[x] = mem[x]
      BY <1>2 DEF Succeed, Write, Typed, Rows
    <3>2. mem[x] \in EqRow(V) /\ row[x] \in EqRow(V)
      BY DEF Typed, Rows
    <3>3. x = e => mem[x].status # "awaiting"
      BY <1>0, <2>1
    <3> QED
      BY <3>1, <3>2, <3>3 DEF EqRow
  <2>3. NoNewAwaiting
    BY <2>2 DEF NoNewAwaiting
  <2>4. EvalsStay
    <3>1. \A x \in Eq : eval'[x].pc \in {"none", eval[x].pc}
      BY <2>1 DEF Finished, NoEval, Typed, Evals
    <3> QED
      BY <3>1 DEF EvalsStay
  <2>5. Quiet' /\ (Up' => Up)
    BY <1>0, <2>1, MustRun, Stays
  <2> QED
    BY <2>1, <2>3, <2>4, <2>5, Stays, AskedKept
<1>3. CASE FailEval(e)
  BY <1>3, FailAsked DEF FailEval
<1>4. CASE ExhaustEval(e)
  BY <1>4, FailAsked DEF ExhaustEval
<1>5. CASE ParkEval(e)
  BY <1>5, FailAsked DEF ParkEval
<1> QED
  BY <1>1, <1>2, <1>3, <1>4, <1>5 DEF Evaluate, Return

\* A set of equations starts over.
LEMMA OverAsked ==
    ASSUME NEW V, Typed(V), Asked, UNCHANGED scenario, NEW S,
           \A e \in Eq : /\ e \in S => ~Awaits(e)'
                         /\ e \notin S => /\ mem'[e] = mem[e] \/ mem'[e].status # "awaiting"
                                          /\ row'[e] = row[e] \/ row'[e].status # "awaiting"
    PROVE  /\ NoNewAwaiting
           /\ decided' = Forgotten(S) => DecisionsStay
           /\ eval' = Uncomputed(S) => EvalsStay
<1>1. NoNewAwaiting
  BY DEF NoNewAwaiting, Awaits
<1>2. ASSUME decided' = Forgotten(S) PROVE DecisionsStay
  <2> SUFFICES ASSUME NEW d \in decided, Awaits(d.eq)'
               PROVE  d \in decided'
    BY DEF DecisionsStay
  <2>1. d.eq \in Eq
    BY DEF Typed, Decided, Decisions
  <2>2. d.eq \notin S
    BY <2>1
  <2> QED
    BY <1>2, <2>2 DEF Forgotten
<1>3. ASSUME eval' = Uncomputed(S) PROVE EvalsStay
  <2>1. \A x \in Eq : eval'[x] = IF x \in S /\ mem[x].status = "computing" THEN NoEval ELSE eval[x]
    BY <1>3 DEF Uncomputed
  <2>2. \A x \in Eq : eval'[x].pc \in {"none", eval[x].pc}
    BY <2>1 DEF NoEval
  <2> QED
    BY <2>2 DEF EvalsStay
<1> QED
  BY <1>1, <1>2, <1>3

LEMMA RedoAsked ==
    ASSUME NEW V, Typed(V), Types', UNCHANGED scenario, Asked, NEW e \in Eq, ToolsChanged(e) \/ Invalidate(e)
    PROVE  Asked'
<1>1. CASE ToolsChanged(e)
  <2>1. ASSUME NEW x \in Eq
        PROVE  /\ x \in {e} => ~Awaits(x)'
               /\ x \notin {e} => mem'[x] = mem[x] /\ row'[x] = row[x]
    <3>1. mem[x] \in EqRow(V) /\ row[x] \in EqRow(V)
      BY DEF Typed, Rows
    <3>2. /\ mem'[x] = IF x \in {e} THEN [mem[x] EXCEPT !.status = "pending"] ELSE mem[x]
          /\ row'[x] = IF x \in {e} THEN [row[x] EXCEPT !.status = "pending"] ELSE row[x]
      BY <1>1 DEF ToolsChanged, SetStatus, Persist
    <3> QED
      BY <3>1, <3>2 DEF EqRow, Awaits
  <2>2. NoNewAwaiting
    BY <2>1, OverAsked
  <2>3. tasks' = Cancelled({e}) /\ UNCHANGED <<version, eval, decided, state, gate, loop, wanted, answer, spent>>
    BY <1>1 DEF ToolsChanged
  <2>4. QuestionsStay /\ RequestsStay
    BY <2>1, <2>3, CancelStays
  <2> QED
    BY <2>2, <2>3, <2>4, Stays, AskedKept
<1>2. CASE Invalidate(e)
  <2>1. PICK S : S = Cascade(e)
    OBVIOUS
  <2>2. /\ Reset(S, {e}) /\ tasks' = Cancelled(S) /\ EnsureActive /\ HasRun /\ UNCHANGED <<version, wanted, answer>>
    BY <1>2, <2>1 DEF Invalidate
  <2>3. \A x \in S : x \in Eq
    BY <2>1, CascadeIn
  <2>4. ASSUME NEW x \in Eq
        PROVE  /\ x \in S => ~Awaits(x)'
               /\ x \notin S => mem'[x] = mem[x] /\ row'[x] = row[x]
    <3>1. mem[x] \in EqRow(V) /\ row[x] \in EqRow(V)
      BY DEF Typed, Rows
    <3>2. x \in S => mem'[x].status = "pending" /\ row'[x].status = "pending"
      BY <2>2, <3>1 DEF Reset, Persist, EqRow
    <3> QED
      BY <2>2, <3>2 DEF Reset, Persist, Awaits
  <2>5. NoNewAwaiting /\ DecisionsStay /\ EvalsStay
    BY <2>2, <2>4, OverAsked DEF Reset
  <2>6. QuestionsStay /\ RequestsStay
    BY <2>2, <2>3, <2>4, CancelStays
  <2>7. Quiet' /\ (Up' => Up)
    BY <2>2, Activating, Stays, MustRun
  <2> QED
    BY <2>2, <2>5, <2>6, <2>7, AskedKept
<1> QED
  BY <1>1, <1>2

\* What an edit leaves of the requests.
LEMMA EditLeaves ==
    ASSUME NEW V, Typed(V), NEW e \in Eq, Edit(e), NEW r \in Request
    PROVE  /\ answer'[r].pc = answer[r].pc
           /\ answer[r].pc \in {"idle", "promote"} => answer'[r] = answer[r]
           /\ answer[r].pc = "finalize" => EditedUnderAnswer
           /\ "busy_edit" \notin scenario.events => answer'[r] = answer[r]
<1>1. answer'[r] = LeftWith(answer[r]) /\ answer[r] \in AnswerRow(V) /\ SensibleAnswer(answer[r])
  BY DEF Edit, Typed, Answers
<1>2. "busy_edit" \notin scenario.events => answer[r].pc = "idle"
  BY DEF Edit, Disturb, NothingHeld
<1>3. answer[r].pc \in {"idle", "promote"} => LeftWith(answer[r]) = answer[r]
  BY DEF LeftWith
<1>4. LeftWith(answer[r]).pc = answer[r].pc
  BY <1>1 DEF LeftWith, AnswerRow
<1> QED
  BY <1>1, <1>2, <1>3, <1>4 DEF SensibleAnswer, EditedUnderAnswer

\* With quiet edits alone, coroutines hold equations of the graph.
LEMMA NothingReplaced ==
    ASSUME NEW V, Typed(V), "busy_edit" \notin scenario.events
    PROVE  /\ loop.held = "graph" /\ \A r \in Request : answer[r].held = "graph"
           /\ ControlDone /\ Allowed(mem[loop.eq].status, "completed") => SetResult(loop.eq, loop.value)
           /\ \A r \in Request : AnswerOwned(r) /\ Allowed(mem[answer[r].eq].status, "completed") =>
                                    SetResult(answer[r].eq, answer[r].value) /\ EnsureActive
           /\ \A e \in Eq : Edit(e) => NothingHeld /\ UNCHANGED <<loop, answer>>
<1>1. loop.held = "graph" /\ \A r \in Request : answer[r].held = "graph"
  BY DEF Typed, Loops, SensibleLoop, Answers, SensibleAnswer
<1>2. ControlDone /\ Allowed(mem[loop.eq].status, "completed") => SetResult(loop.eq, loop.value)
  BY <1>1 DEF ControlDone, MayComplete, CompleteHeld
<1>3. ASSUME NEW r \in Request, AnswerOwned(r), Allowed(mem[answer[r].eq].status, "completed")
      PROVE  SetResult(answer[r].eq, answer[r].value) /\ EnsureActive
  BY <1>1, <1>3 DEF AnswerOwned, MayComplete, CompleteHeld
<1>4. ASSUME NEW e \in Eq, Edit(e) PROVE NothingHeld /\ UNCHANGED <<loop, answer>>
  <2>1. NothingHeld
    BY <1>4 DEF Edit, Disturb
  <2>2. loop' = loop
    BY <1>4, <2>1 DEF Edit, NothingHeld
  <2>3. answer' = [r \in Request |-> answer[r]]
    BY <1>4, <2>1 DEF Edit, NothingHeld, LeftWith
  <2>4. answer = [r \in Request |-> answer[r]]
    BY DEF Typed, Answers
  <2> QED
    BY <2>1, <2>2, <2>3, <2>4
<1> QED
  BY <1>1, <1>2, <1>3, <1>4

LEMMA EditAsked ==
    ASSUME NEW V, Typed(V), Types', UNCHANGED scenario, Asked, NEW e \in Eq, Edit(e)
    PROVE  Asked'
<1>1. PICK S : S = Cascade(e)
  OBVIOUS
<1> DEFINE over(x, q) == [q EXCEPT !.status = "pending", !.result = NoValue,
                                   !.attempt = IF x = e THEN 1 ELSE mem[x].attempt]
<1>2. /\ mem' = [x \in Eq |-> IF x \in S THEN [over(x, mem[x]) EXCEPT !.hash = NoValue] ELSE mem[x]]
      /\ row' = [x \in Eq |-> IF x \in S THEN over(x, row[x]) ELSE row[x]]
      /\ decided' = Forgotten(S) /\ tasks' = Cancelled(S)
      /\ UNCHANGED <<state, gate, wanted>> /\ HasRun
  BY <1>1 DEF Edit
<1>3. eval' = [x \in Eq |-> [eval[x] EXCEPT !.old = (@ \/ eval[x].pc # "none")]]
  BY DEF Edit
<1>4. \A x \in S : x \in Eq
  BY <1>1, CascadeIn
<1>5. \A x \in Eq : /\ x \in S => ~Awaits(x)'
                    /\ x \notin S => mem'[x] = mem[x] /\ row'[x] = row[x]
  <2> SUFFICES ASSUME NEW x \in Eq
               PROVE  /\ x \in S => ~Awaits(x)'
                      /\ x \notin S => mem'[x] = mem[x] /\ row'[x] = row[x]
    OBVIOUS
  <2>1. mem[x] \in EqRow(V) /\ row[x] \in EqRow(V)
    BY DEF Typed, Rows
  <2>2. over(x, mem[x]).status = "pending" /\ over(x, row[x]).status = "pending"
        /\ [over(x, mem[x]) EXCEPT !.hash = NoValue].status = "pending"
    BY <2>1 DEF EqRow
  <2> HIDE DEF over
  <2> QED
    BY <1>2, <2>2 DEF Awaits
<1>6. NoNewAwaiting /\ DecisionsStay
  BY <1>2, <1>5, OverAsked
<1>7. EvalsStay
  <2>1. \A x \in Eq : eval'[x].pc = eval[x].pc
    BY <1>3 DEF Typed, Evals, EvalRow
  <2> QED
    BY <2>1 DEF EvalsStay
<1>8. QuestionsStay /\ RequestsStay
  <2>1. QuestionsStay /\ AnsweredTasksStay
    BY <1>2, <1>4, <1>5, CancelStays
  <2> QED
    BY <2>1, EditLeaves DEF RequestsStay, Typed, Answers, AnswerRow
<1>9. Quiet' /\ (Up' => Up)
  BY <1>2, Stays, MustRun
<1> QED
  BY <1>6, <1>7, <1>8, <1>9, AskedKept

\* What is read back was asked, and what was answered meanwhile is stored.
LEMMA ProcessAsked ==
    ASSUME NEW V, Typed(V), Types', UNCHANGED scenario, Asked, Crash \/ Restart
    PROVE  Asked'
<1>1. CASE Crash
  <2>1. /\ state' = "down" /\ "crash" \in scenario.events
        /\ eval' = [e \in Eq |-> NoEval] /\ answer' = [r \in Request |-> NoAnswer]
        /\ tasks' = [t \in Task |-> [tasks[t] EXCEPT !.known = FALSE]]
        /\ UNCHANGED <<mem, row, version, decided, wanted>>
    BY <1>1, Disturbing DEF Crash
  <2>2. \A t \in Task : SameQuestion(tasks'[t], tasks[t])
    BY <2>1 DEF Typed, Tasks, TaskTable, TaskRow, SameQuestion
  <2>3. \A e \in Eq : \A h : AskedAbout(e, h) => AskedAbout(e, h)'
    BY <2>2 DEF AskedAbout, Question, SameQuestion
  <2>4. RowsAsked'
    <3>1. \A e \in Eq : \A h : Decision(e, h)' = Decision(e, h)
      BY <2>1 DEF Decision
    <3> SUFFICES ASSUME NEW e \in Eq, NEW h, h = row'[e].hash, row'[e].status = "awaiting"
                 PROVE  AskedAbout(e, h)' \/ Decision(e, h)' # {}
      BY DEF RowsAsked, AskedAbout, Decision
    <3>2. h = row[e].hash /\ row[e].status = "awaiting"
      BY <2>1
    <3> QED
      BY <2>3, <3>1, <3>2 DEF Asked, RowsAsked
  <2>5. GraphAsked' /\ AwaitingIsIdle' /\ AnswersAreTied' /\ Quiet'
    BY <2>1 DEF GraphAsked, Up, AwaitingIsIdle, AnswersAreTied, Quiet, NoEval, NoAnswer
  <2> QED
    BY <2>4, <2>5 DEF Asked
<1>2. CASE Restart
  <2>1. /\ state = "down" /\ UNCHANGED <<version, eval, tasks, decided, gate, wanted, answer, spent>>
        /\ state' \in {"running", "unstarted"} /\ "crash" \in scenario.events
    BY <1>2 DEF Restart, Asked, Quiet
  <2>2. ASSUME NEW e \in Eq
        PROVE  /\ mem'[e].status = "awaiting" => row[e].status = "awaiting" /\ mem'[e] = row[e]
               /\ row'[e].status = "awaiting" => row[e].status = "awaiting" /\ row'[e] = row[e]
    <3>1. /\ mem'[e] = IF row[e].status \in Hydrated THEN row[e] ELSE NewEq
          /\ row'[e] = IF row[e].status = "computing" THEN [row[e] EXCEPT !.status = "pending"] ELSE row[e]
          /\ row[e] \in EqRow(V)
      BY <1>2 DEF Restart, Typed, Rows
    <3> QED
      BY <3>1 DEF NewEq, EqRow
  <2>3. \A e \in Eq : \A h : AskedAbout(e, h)' = AskedAbout(e, h) /\ Decision(e, h)' = Decision(e, h)
    BY <2>1 DEF AskedAbout, Question, Decision
  <2>4. ASSUME NEW e \in Eq, NEW h, row[e].status = "awaiting", h = row[e].hash
        PROVE  AskedAbout(e, h)' \/ Decision(e, h)' # {}
    BY <2>3, <2>4 DEF Asked, RowsAsked
  <2>5. RowsAsked'
    <3> SUFFICES ASSUME NEW e \in Eq, NEW h, h = row'[e].hash, row'[e].status = "awaiting"
                 PROVE  AskedAbout(e, h)' \/ Decision(e, h)' # {}
      BY DEF RowsAsked, AskedAbout, Decision
    <3> QED
      BY <2>2, <2>4
  <2>6. GraphAsked'
    <3> SUFFICES ASSUME NEW e \in Eq, NEW h, h = mem'[e].hash, mem'[e].status = "awaiting"
                 PROVE  AskedAbout(e, h)' \/ ("crash" \in scenario.events /\ Decision(e, h)' # {})
      BY DEF GraphAsked, AskedAbout, Decision
    <3> QED
      BY <2>1, <2>2, <2>4
  <2>7. AwaitingIsIdle' /\ Quiet'
    BY <2>1 DEF Asked, Quiet, HasRun, AwaitingIsIdle
  <2>8. AnswersAreTied'
    BY <2>1 DEF Asked, AnswersAreTied, Tied, Question
  <2> QED
    BY <2>5, <2>6, <2>7, <2>8 DEF Asked
<1> QED
  BY <1>1, <1>2

\* A task is closed and the answer to it stored.
LEMMA ClosingAsked ==
    ASSUME NEW V, Typed(V), NEW x, NEW e \in Eq, NEW hash, NEW pick,
           tasks[x] = NoTask \/ (tasks[x].eq = e /\ tasks[x].hash = hash),
           tasks' = [tasks EXCEPT ![x] = NoTask], decided' = Stored(e, hash, pick)
    PROVE  /\ DecisionsStay /\ AnsweredTasksStay
           /\ (mem'[e].status = "awaiting" => "crash" \in scenario.events \/ BeingAnswered(e)') => QuestionsStay
<1>1. \A t \in Task : t # x => tasks'[t] = tasks[t]
  BY DEF Typed, Tasks, TaskTable
<1>2. x \in Task => tasks'[x] = NoTask
  BY DEF Typed, Tasks, TaskTable
<1>0. \E c \in decided' : c.eq = e /\ c.hash = hash
  <2> DEFINE c0 == [eq |-> e, hash |-> hash, pick |-> pick]
  <2>1. c0 \in decided'
    BY DEF Stored
  <2>2. c0.eq = e /\ c0.hash = hash
    OBVIOUS
  <2> HIDE DEF c0
  <2> QED
    BY <2>1, <2>2
<1>3. \A d \in decided : \E c \in decided' : c.eq = d.eq /\ c.hash = d.hash
  <2> SUFFICES ASSUME NEW d \in decided PROVE \E c \in decided' : c.eq = d.eq /\ c.hash = d.hash
    OBVIOUS
  <2>1. CASE d.eq = e /\ d.hash = hash
    BY <1>0, <2>1
  <2>2. CASE ~(d.eq = e /\ d.hash = hash)
    BY <2>2 DEF Stored, Decision
  <2> QED
    BY <2>1, <2>2
<1>4. DecisionsStay
  BY <1>3 DEF DecisionsStay
<1>5. AnsweredTasksStay
  <2> SUFFICES ASSUME NEW r \in Request, answer[r].pc = "promote", NEW t, t = answer[r].task
               PROVE  tasks'[t] = NoTask \/ SameQuestion(tasks'[t], tasks[t])
    BY DEF AnsweredTasksStay
  <2>1. t \in Task
    BY DEF Typed, Answers, SensibleAnswer
  <2> QED
    BY <1>1, <1>2, <2>1 DEF SameQuestion
<1>6. ASSUME mem'[e].status = "awaiting" => "crash" \in scenario.events \/ BeingAnswered(e)'
      PROVE  QuestionsStay
  <2> SUFFICES ASSUME NEW y \in Eq, NEW t \in Task, Question(t), tasks[t].eq = y
               PROVE  \/ SameQuestion(tasks'[t], tasks[t])
                      \/ /\ \E d \in decided' : d.eq = y /\ d.hash = tasks[t].hash
                         /\ mem'[y].status = "awaiting" => "crash" \in scenario.events \/ BeingAnswered(y)'
    BY DEF QuestionsStay
  <2>1. CASE t # x
    BY <1>1, <2>1 DEF SameQuestion
  <2>2. CASE t = x
    <3>1. tasks[x].eq = e /\ tasks[x].hash = hash
      BY <2>2 DEF Question, NoTask, Hitl
    <3>2. \E d \in decided' : d.eq = e /\ d.hash = hash
      BY <1>0
    <3> QED
      BY <1>6, <2>2, <3>1, <3>2
  <2> QED
    BY <2>1, <2>2
<1> QED
  BY <1>4, <1>5, <1>6

\* Other requests go on as they are.
LEMMA RequestGoesOn ==
    ASSUME NEW V, Typed(V), NEW r \in Request, NEW a, answer' = [answer EXCEPT ![r] = a],
           a.pc # "promote", AnsweredTasksStay,
           answer[r].pc = "finalize" => EditedUnderAnswer \/ mem'[answer[r].eq].status # "awaiting"
    PROVE  RequestsStay /\ answer'[r] = a
  BY DEF Typed, Answers, RequestsStay

LEMMA DecideAsked ==
    ASSUME NEW V, Typed(V), Types', UNCHANGED scenario, Asked, HasRun, NEW r \in Request,
           NEW a, a.eq \in Eq, a.task \in Task, a.pc = "promote", DOMAIN a = DOMAIN NoAnswer,
           tasks[a.task] = NoTask \/ (tasks[a.task].eq = a.eq /\ tasks[a.task].hash = a.hash),
           a.pick = "reject" => Kind(a.eq) = "approve",
           answer[r].pc # "finalize", Decide(r, a, tasks)
    PROVE  Asked'
<1>0. NoAnswer.pc = "idle"
  BY DEF NoAnswer
<1>1. CASE Rejects(r, a, tasks)
  <2>1. PICK S, R : S = UNION {Cascade(d) : d \in Deps(a.eq)} /\ R = Deps(a.eq)
    OBVIOUS
  <2>2. /\ Reset(S, R) /\ EnsureActive /\ answer' = [answer EXCEPT ![r] = NoAnswer]
        /\ tasks' = [t \in Task |-> IF [tasks EXCEPT ![a.task] = NoTask][t].eq \in S
                                    THEN NoTask ELSE [tasks EXCEPT ![a.task] = NoTask][t]]
    BY <1>1, <2>1 DEF Rejects
  <2>3. a.eq \in S /\ \A x \in S : x \in Eq
    <3>1. PICK d \in Deps(a.eq) : Deps(a.eq) = {d}
      BY <1>1, Graphic DEF Rejects
    <3>2. d \in Eq
      BY Graphic
    <3>3. a.eq \in Cascade(d) /\ Cascade(d) \subseteq Eq
      BY <3>2, Needed, CascadeIn DEF Cascade
    <3> QED
      BY <2>1, <3>1, <3>3
  <2>4. ASSUME NEW x \in Eq
        PROVE  /\ x \in S => ~Awaits(x)'
               /\ x \notin S => mem'[x] = mem[x] /\ row'[x] = row[x]
    <3>1. mem[x] \in EqRow(V) /\ row[x] \in EqRow(V)
      BY DEF Typed, Rows
    <3>2. x \in S => mem'[x].status = "pending" /\ row'[x].status = "pending"
      BY <2>2, <3>1 DEF Reset, Persist, EqRow
    <3> QED
      BY <2>2, <3>2 DEF Reset, Persist, Awaits
  <2>5. NoNewAwaiting /\ DecisionsStay /\ EvalsStay
    BY <2>2, <2>4, OverAsked DEF Reset
  <2>6. QuestionsStay /\ AnsweredTasksStay
    <3>1. ASSUME NEW t \in Task PROVE tasks'[t] = Cancelled(S)[t]
      <4>1. CASE t = a.task
        <5>1. tasks'[t] = NoTask
          BY <2>2, <4>1 DEF Typed, Tasks, TaskTable
        <5>2. Cancelled(S)[t] = NoTask
          BY <2>3, <4>1 DEF Cancelled
        <5> QED
          BY <5>1, <5>2
      <4>2. CASE t # a.task
        BY <2>2, <4>2 DEF Typed, Tasks, TaskTable, Cancelled
      <4> QED
        BY <4>1, <4>2
    <3> QED
      BY <2>3, <2>4, <3>1, CancelStays
  <2>7. Quiet' /\ (Up' => Up)
    BY <2>2, Activating, Stays, MustRun
  <2>8. RequestsStay
    BY <1>0, <2>2, <2>6, RequestGoesOn
  <2> QED
    BY <2>5, <2>6, <2>7, <2>8, AskedKept
<1>2. ASSUME Closes(a, tasks)
      PROVE  /\ DecisionsStay /\ AnsweredTasksStay /\ UNCHANGED <<eval, spent>>
             /\ (mem'[a.eq].status = "awaiting" => "crash" \in scenario.events \/ BeingAnswered(a.eq)')
                   => QuestionsStay
  <2>1. tasks' = [tasks EXCEPT ![a.task] = NoTask] /\ decided' = Stored(a.eq, a.hash, a.pick)
    BY <1>2 DEF Closes
  <2>2. PICK e, x, h, p : e = a.eq /\ x = a.task /\ h = a.hash /\ p = a.pick
    OBVIOUS
  <2>3. /\ DecisionsStay /\ AnsweredTasksStay
        /\ (mem'[e].status = "awaiting" => "crash" \in scenario.events \/ BeingAnswered(e)') => QuestionsStay
    <3>1. tasks[x] = NoTask \/ (tasks[x].eq = e /\ tasks[x].hash = h)
      BY <2>2
    <3>2. tasks' = [tasks EXCEPT ![x] = NoTask] /\ decided' = Stored(e, h, p) /\ e \in Eq
      BY <2>1, <2>2
    <3> QED
      BY <3>1, <3>2, ClosingAsked
  <2>4. BeingAnswered(a.eq)' => BeingAnswered(e)'
    BY <2>2 DEF BeingAnswered
  <2> QED
    BY <1>2, <2>2, <2>3, <2>4 DEF Closes
<1>3. CASE Defers(r, a, tasks)
  <2>1. PICK v : v = Chosen(a.eq, a.pick, a.hash)
    OBVIOUS
  <2> DEFINE b == [a EXCEPT !.pc = "finalize", !.task = 0, !.value = v]
  <2>2. answer' = [answer EXCEPT ![r] = b] /\ Closes(a, tasks) /\ UNCHANGED <<mem, row, state, gate, loop>>
    BY <1>3, <2>1 DEF Defers
  <2>3. b.pc = "finalize" /\ b.eq = a.eq
    BY DEF NoAnswer
  <2> HIDE DEF b
  <2>4. RequestsStay /\ BeingAnswered(a.eq)'
    BY <1>2, <2>2, <2>3, RequestGoesOn DEF BeingAnswered
  <2>5. Quiet' /\ (Up' => Up)
    BY <2>2, Stays, MustRun
  <2> QED
    BY <1>2, <2>2, <2>4, <2>5, Stays, AskedKept
<1>4. CASE Applies(r, a, tasks)
  <2>1. PICK v : v = Chosen(a.eq, a.pick, a.hash)
    OBVIOUS
  <2>2. /\ SetResult(a.eq, v) /\ Closes(a, tasks) /\ EnsureActive
        /\ answer' = [answer EXCEPT ![r] = NoAnswer]
    BY <1>4, <2>1 DEF Applies
  <2>3. NoNewAwaiting /\ mem'[a.eq].status # "awaiting"
    BY <2>2, ResultAsked DEF Awaits
  <2>4. RequestsStay
    BY <1>0, <1>2, <2>2, RequestGoesOn
  <2>5. Quiet' /\ (Up' => Up)
    BY <2>2, Activating, Stays, MustRun
  <2> QED
    BY <1>2, <2>2, <2>3, <2>4, <2>5, Stays, AskedKept
<1>5. CASE TooLate(r, a, tasks)
  <2>1. /\ Closes(a, tasks) /\ EnsureActive /\ UNCHANGED <<mem, row>> /\ mem[a.eq].status # "awaiting"
        /\ answer' = [answer EXCEPT ![r] = NoAnswer]
    BY <1>5 DEF TooLate
  <2>2. RequestsStay
    BY <1>0, <1>2, <2>1, RequestGoesOn
  <2>3. Quiet' /\ (Up' => Up)
    BY <2>1, Activating, Stays, MustRun
  <2> QED
    BY <1>2, <2>1, <2>2, <2>3, Stays, AskedKept
<1> QED
  BY <1>1, <1>3, <1>4, <1>5, Deciding

LEMMA AnswerAsked ==
    ASSUME NEW V, Typed(V), Types', UNCHANGED scenario, Asked, NEW r \in Request, NEW t \in Task, NEW pick,
           Answer(r, t, pick)
    PROVE  Asked'
<1>0. tasks[t] \in TaskRow(V) /\ SensibleTask(tasks[t])
  BY DEF Typed, Tasks, TaskTable
<1>1. /\ HasRun /\ answer[r].pc = "idle" /\ Question(t) /\ pick \in Picks(tasks[t].eq)
      /\ UNCHANGED <<version, wanted>>
  BY Answering
<1>2. PICK a : a = Made(t, pick)
  OBVIOUS
<1>3. /\ a.pc = "promote" /\ a.eq = tasks[t].eq /\ a.task = t /\ a.pick = pick /\ a.hash = tasks[t].hash
      /\ DOMAIN a = DOMAIN NoAnswer
  BY <1>2 DEF Made, NoAnswer
<1>4. a.eq \in Eq /\ tasks[t].type \in Hitl /\ Kind(a.eq) \in Hitl
  BY <1>0, <1>1, <1>3 DEF SensibleTask, Question, Hitl
<1>5. CASE Decide(r, a, tasks)
  <2>1. pick = "reject" => Kind(a.eq) = "approve"
    BY <1>1, <1>3, <1>4, FlowAssumption DEF Picks, Hitl
  <2> QED
    BY <1>1, <1>3, <1>4, <1>5, <2>1, DecideAsked
<1>6. CASE /\ answer' = [answer EXCEPT ![r] = a]
           /\ tasks' = [tasks EXCEPT ![t].known = FALSE]
           /\ UNCHANGED <<mem, row, eval, decided, state, gate, loop, spent>>
  <2>1. \A u \in Task : SameQuestion(tasks'[u], tasks[u])
    BY <1>6 DEF Typed, Tasks, TaskTable, TaskRow, SameQuestion
  <2>2. QuestionsStay /\ AnsweredTasksStay
    <3>1. \A q \in Request : answer[q].pc = "promote" => answer[q].task \in Task
      BY DEF Typed, Answers, SensibleAnswer
    <3> QED
      BY <2>1, <3>1 DEF QuestionsStay, AnsweredTasksStay
  <2>3. answer'[r] = a /\ \A q \in Request : q # r => answer'[q] = answer[q]
    BY <1>6 DEF Typed, Answers
  <2>4. Tied(r)'
    <3>1. tasks'[t].eq = a.eq /\ tasks'[t].type \in Hitl /\ tasks'[t].hash = a.hash
      BY <1>3, <1>4, <2>1 DEF SameQuestion
    <3> QED
      BY <1>3, <2>3, <3>1 DEF Tied, Question
  <2>5. RequestsStay
    BY <1>1, <2>2, <2>3, <2>4 DEF RequestsStay
  <2>6. Quiet' /\ (Up' => Up)
    BY <1>1, <1>6, Stays, MustRun
  <2> QED
    BY <1>6, <2>2, <2>5, <2>6, Stays, AskedKept
<1> QED
  BY <1>2, <1>5, <1>6, Answering

LEMMA HandleAsked ==
    ASSUME NEW V, Typed(V), Types', UNCHANGED scenario, Asked, NEW r \in Request, Handle(r)
    PROVE  Asked'
<1>0. answer[r] \in AnswerRow(V) /\ SensibleAnswer(answer[r]) /\ (answer[r].pc # "idle" => HasRun)
  BY MustRun DEF Typed, Answers
<1>1. PICK a : a = answer[r]
  OBVIOUS
<1>2. CASE Promoted(r)
  <2>1. a.pc = "promote" /\ Decide(r, a, tasks)
    BY <1>1, <1>2 DEF Promoted
  <2>2. a.eq \in Eq /\ a.task \in Task /\ a.pick # "reject" /\ DOMAIN a = DOMAIN NoAnswer
    BY <1>0, <1>1, <2>1 DEF SensibleAnswer, AnswerRow, NoAnswer
  <2>3. tasks[a.task] = NoTask \/ (tasks[a.task].eq = a.eq /\ tasks[a.task].hash = a.hash)
    BY <1>1, <2>1 DEF Asked, AnswersAreTied, Tied
  <2> QED
    BY <1>0, <1>1, <2>1, <2>2, <2>3, DecideAsked
<1>3. CASE AnswerOwned(r)
  <2>1. /\ answer[r].pc = "finalize"
        /\ answer' = [answer EXCEPT ![r] = NoAnswer]
        /\ UNCHANGED <<version, eval, tasks, decided, wanted, spent>>
        /\ \/ SetResult(a.eq, a.value) /\ EnsureActive
           \/ /\ ~Allowed(mem[a.eq].status, "completed")
              /\ mem' = [mem EXCEPT ![a.eq].result = a.value] /\ UNCHANGED <<row, state, gate, loop>>
           \/ a.held # "graph" /\ RowOnly(a.eq, a.value) /\ EnsureActive
           \/ a.held # "graph" /\ UNCHANGED <<mem, row, state, gate, loop>>
    BY <1>1, <1>3 DEF AnswerOwned, MayComplete, CompleteHeld, RowOnly
  <2>2. a.eq \in Eq
    BY <1>0, <1>1, <2>1 DEF SensibleAnswer
  <2>3. NoNewAwaiting /\ (EditedUnderAnswer \/ mem'[a.eq].status # "awaiting")
    <3>3. CASE a.held # "graph" /\ (RowOnly(a.eq, a.value) \/ UNCHANGED <<mem, row>>)
      <4>1. EditedUnderAnswer
        BY <1>0, <1>1, <2>1, <3>3 DEF SensibleAnswer, EditedUnderAnswer
      <4>2. UNCHANGED <<mem, row>> \/ \E x, v : RowOnly(x, v)
        BY <3>3
      <4> QED
        BY <4>1, <4>2, RowOnlyAsked, Stays
    <3>1. CASE SetResult(a.eq, a.value)
      BY <2>2, <3>1, ResultAsked DEF Awaits
    <3>2. CASE /\ ~Allowed(mem[a.eq].status, "completed")
               /\ mem' = [mem EXCEPT ![a.eq].result = a.value] /\ UNCHANGED row
      <4>1. mem[a.eq].status # "awaiting"
        BY <3>2 DEF Allowed, Transitions
      <4>2. \A x \in Eq : mem'[x].status = mem[x].status /\ mem'[x].hash = mem[x].hash
        BY <3>2 DEF Typed, Rows, EqRow
      <4> QED
        BY <2>2, <3>2, <4>1, <4>2 DEF NoNewAwaiting
    <3> QED
      BY <2>1, <3>1, <3>2, <3>3
  <2>4. AnsweredTasksStay /\ NoAnswer.pc # "promote"
    BY <2>1 DEF AnsweredTasksStay, SameQuestion, NoAnswer
  <2>5. RequestsStay
    BY <1>1, <2>1, <2>3, <2>4, RequestGoesOn
  <2>6. Quiet' /\ (Up' => Up)
    BY <1>0, <2>1, Activating, Stays, MustRun
  <2> QED
    BY <2>1, <2>3, <2>5, <2>6, Stays, AskedKept
<1>4. CASE Swap(r)
  <2>1. /\ answer[r].pc = "swap" /\ answer' = [answer EXCEPT ![r] = NoAnswer]
        /\ UNCHANGED <<version, eval, tasks, state, gate, loop, wanted, spent>>
        /\ mem' = IF a.held = "graph" THEN [mem EXCEPT ![a.eq].result = a.value] ELSE mem
        /\ row' = [row EXCEPT ![a.eq].status = "completed", ![a.eq].result = a.value]
        /\ decided' = Stored(a.eq, IF a.held = "graph" THEN mem[a.eq].hash ELSE a.hash, a.pick)
    BY <1>1, <1>4 DEF Swap
  <2>2. a.eq \in Eq
    BY <1>0, <1>1, <2>1 DEF SensibleAnswer
  <2>3. NoNewAwaiting
    <3>1. \A x \in Eq : mem'[x].status = mem[x].status /\ mem'[x].hash = mem[x].hash
      BY <2>1 DEF Typed, Rows, EqRow
    <3>2. \A x \in Eq : row'[x] = row[x] \/ row'[x].status = "completed"
      BY <2>1, <2>2 DEF Typed, Rows, EqRow
    <3> QED
      BY <3>1, <3>2 DEF NoNewAwaiting
  <2>4. DecisionsStay
    <3>1. PICK h : h = IF a.held = "graph" THEN mem[a.eq].hash ELSE a.hash
      OBVIOUS
    <3> DEFINE c0 == [eq |-> a.eq, hash |-> h, pick |-> a.pick]
    <3>2. c0 \in decided' /\ c0.eq = a.eq /\ c0.hash = h
      BY <2>1, <3>1 DEF Stored
    <3> HIDE DEF c0
    <3>3. ASSUME NEW d \in decided PROVE d \in decided' \/ (d.eq = a.eq /\ d.hash = h)
      BY <2>1, <3>1 DEF Stored, Decision
    <3> QED
      BY <3>2, <3>3 DEF DecisionsStay
  <2>5. AnsweredTasksStay /\ NoAnswer.pc # "promote"
    BY <2>1 DEF AnsweredTasksStay, SameQuestion, NoAnswer
  <2>6. RequestsStay
    BY <2>1, <2>5, RequestGoesOn
  <2>7. Quiet' /\ (Up' => Up)
    BY <1>0, <2>1, Stays, MustRun
  <2> QED
    BY <2>1, <2>3, <2>4, <2>6, <2>7, Stays, AskedKept
<1> QED
  BY <1>2, <1>3, <1>4 DEF Handle

LEMMA TaskAsked ==
    ASSUME NEW V, Typed(V), Types', UNCHANGED scenario, Asked, NEW t \in Task,
           Retry(t) \/ Skip(t) \/ \E pick : AnswerOffline(t, pick)
    PROVE  Asked'
<1>1. CASE Retry(t)
  <2>1. PICK e : e = tasks[t].eq
    OBVIOUS
  <2>2. /\ UNCHANGED <<version, eval, decided, wanted, answer, spent>> /\ EnsureActive
        /\ HasRun /\ tasks[t].type = "error"
        /\ \/ SetStatus({e}, "pending") /\ tasks' = Cancelled({e})
           \/ tasks' = [tasks EXCEPT ![t] = NoTask] /\ UNCHANGED <<mem, row>>
    BY <1>1, <2>1 DEF Retry
  <2>3. Quiet' /\ (Up' => Up)
    BY <2>2, Activating, Stays, MustRun
  <2>4. CASE SetStatus({e}, "pending") /\ tasks' = Cancelled({e})
    <3>0. e \in Eq
      BY <2>1, <2>2 DEF Typed, Tasks, TaskTable, SensibleTask
    <3>1. ASSUME NEW x \in Eq
          PROVE  /\ x \in {e} => ~Awaits(x)'
                 /\ x \notin {e} => mem'[x] = mem[x] /\ row'[x] = row[x]
      <4>1. mem[x] \in EqRow(V) /\ row[x] \in EqRow(V)
        BY DEF Typed, Rows
      <4>2. /\ mem'[x] = IF x \in {e} THEN [mem[x] EXCEPT !.status = "pending"] ELSE mem[x]
            /\ row'[x] = IF x \in {e} THEN [row[x] EXCEPT !.status = "pending"] ELSE row[x]
        BY <2>4 DEF SetStatus, Persist
      <4> QED
        BY <4>1, <4>2 DEF EqRow, Awaits
    <3>2. NoNewAwaiting
      BY <3>1, OverAsked
    <3>3. QuestionsStay /\ RequestsStay
      BY <2>2, <2>4, <3>0, <3>1, CancelStays
    <3> QED
      BY <2>2, <2>3, <3>2, <3>3, Stays, AskedKept
  <2>5. CASE tasks' = [tasks EXCEPT ![t] = NoTask] /\ UNCHANGED <<mem, row>>
    <3>1. \A u \in Task : u # t => tasks'[u] = Cancelled({})[u]
      BY <2>5 DEF Cancelled, Typed, Tasks, TaskTable
    <3>2. tasks[t].type \notin Hitl /\ tasks'[t] = NoTask
      BY <2>2, <2>5 DEF Hitl, Typed, Tasks, TaskTable
    <3>3. QuestionsStay /\ RequestsStay
      BY <2>2, <3>1, <3>2, CancelStays
    <3> QED
      BY <2>2, <2>3, <2>5, <3>3, Stays, AskedKept
  <2> QED
    BY <2>2, <2>4, <2>5
<1>2. CASE Skip(t)
  <2> DEFINE S0 == {x \in (IF tasks[t].type = "error" THEN Iteration(tasks[t].eq) ELSE {tasks[t].eq}) :
                      mem[x].status \notin {"completed", "skipped"}}
             set(q) == [q EXCEPT !.status = "skipped", !.result = NoValue]
  <2>1. PICK S : S = S0
    OBVIOUS
  <2>2. /\ mem' = [x \in Eq |-> IF x \in S THEN set(mem[x]) ELSE mem[x]]
        /\ row' = [x \in Eq |-> IF x \in S THEN set(row[x]) ELSE row[x]]
    BY <1>2, <2>1 DEF Skip, Persist
  <2>3. /\ tasks' = [Cancelled(S) EXCEPT ![t] = NoTask] /\ EnsureActive /\ HasRun
        /\ UNCHANGED <<version, eval, decided, wanted, answer>>
        /\ tasks[t].type \in {"error", "waiting_for_tool"}
    BY <1>2, <2>1 DEF Skip
  <2>4. \A x \in S : x \in Eq
    <3>1. tasks[t].eq \in Eq
      BY <2>3 DEF Typed, Tasks, TaskTable, SensibleTask
    <3>2. Iteration(tasks[t].eq) \subseteq Eq
      BY <3>1, Graphic
    <3> QED
      BY <2>1, <3>1, <3>2
  <2>5. ASSUME NEW x \in Eq
        PROVE  /\ x \in S => ~Awaits(x)'
               /\ x \notin S => mem'[x] = mem[x] /\ row'[x] = row[x]
    <3>1. mem[x] \in EqRow(V) /\ row[x] \in EqRow(V)
      BY DEF Typed, Rows
    <3>2. set(mem[x]).status = "skipped" /\ set(row[x]).status = "skipped"
      BY <3>1 DEF EqRow
    <3> HIDE DEF set
    <3> QED
      BY <2>2, <3>2 DEF Awaits
  <2> HIDE DEF set
  <2>6. NoNewAwaiting
    BY <2>5, OverAsked
  <2>7. QuestionsStay /\ RequestsStay
    <3>1. \A u \in Task : tasks'[u] = Cancelled(S)[u] \/ (u = t /\ tasks'[u] = NoTask)
      BY <2>3 DEF Cancelled
    <3>2. tasks[t].type \notin Hitl
      BY <2>3 DEF Hitl
    <3> QED
      BY <2>3, <2>4, <2>5, <3>1, <3>2, CancelStays
  <2>8. Quiet' /\ (Up' => Up)
    BY <2>3, Activating, Stays, MustRun
  <2> QED
    BY <2>3, <2>6, <2>7, <2>8, Stays, AskedKept
<1>3. ASSUME NEW pick, AnswerOffline(t, pick) PROVE Asked'
  <2>1. PICK e, h : e = tasks[t].eq /\ h = tasks[t].hash
    OBVIOUS
  <2>2. /\ tasks[t].type \in Hitl /\ state = "unstarted"
        /\ decided' = Stored(e, h, pick) /\ tasks' = [tasks EXCEPT ![t] = NoTask]
        /\ UNCHANGED <<mem, row, version, eval, state, gate, loop, wanted, answer, spent>>
    BY <1>3, <2>1 DEF AnswerOffline, Question
  <2>3. e \in Eq /\ "crash" \in scenario.events
    BY <2>1, <2>2 DEF Typed, Tasks, TaskTable, SensibleTask, Hitl, Asked, Quiet
  <2>4. DecisionsStay /\ AnsweredTasksStay /\ QuestionsStay
    BY <2>1, <2>2, <2>3, ClosingAsked
  <2>5. RequestsStay
    BY <2>2, <2>4 DEF RequestsStay
  <2> QED
    BY <2>2, <2>4, <2>5, Stays, AskedKept
<1> QED
  BY <1>1, <1>2, <1>3

LEMMA ReselectAsked ==
    ASSUME NEW V, Typed(V), Types', UNCHANGED scenario, Asked, NEW r \in Request, NEW e \in Eq, NEW pick,
           Reselect(r, e, pick)
    PROVE  Asked'
<1> DEFINE over(x, q) == [q EXCEPT !.status = "pending", !.result = NoValue, !.attempt = mem[x].attempt]
<1>1. PICK S, h, v : S = Descendants(e) /\ h = mem[e].hash /\ v = <<pick, h>>
  OBVIOUS
<1> DEFINE put(q) == [q EXCEPT !.result = v]
<1>2. /\ mem' = [x \in Eq |-> IF x \in S THEN over(x, mem[x])
                              ELSE IF x = e /\ ~Suspends("reselect") THEN put(mem[x]) ELSE mem[x]]
      /\ row' = [x \in Eq |-> IF x \in S THEN over(x, row[x])
                              ELSE IF x = e /\ ~Suspends("reselect") THEN put(row[x]) ELSE row[x]]
  BY <1>1 DEF Reselect, Persist
<1>3. /\ eval' = Uncomputed(S) /\ tasks' = Cancelled(S) /\ HasRun /\ answer[r].pc = "idle"
      /\ UNCHANGED <<version, state, gate, loop, wanted>>
      /\ \/ decided' = Forgotten(S) /\ answer' = [answer EXCEPT ![r] = [NoAnswer EXCEPT
                          !.pc = "swap", !.eq = e, !.pick = pick, !.value = v]]
         \/ /\ UNCHANGED answer
            /\ decided' = (Forgotten(S) \ Decision(e, h)) \cup {[eq |-> e, hash |-> h, pick |-> pick]}
  BY <1>1 DEF Reselect
<1>4. \A x \in S : x \in Eq
  BY <1>1, CascadeIn
<1>5. ASSUME NEW x \in Eq
      PROVE  /\ x \in S => ~Awaits(x)'
             /\ x \notin S => /\ mem'[x].status = mem[x].status /\ mem'[x].hash = mem[x].hash
                              /\ row'[x].status = row[x].status /\ row'[x].hash = row[x].hash
  <2>1. mem[x] \in EqRow(V) /\ row[x] \in EqRow(V)
    BY DEF Typed, Rows
  <2>2. /\ over(x, mem[x]).status = "pending" /\ over(x, row[x]).status = "pending"
        /\ \A q \in EqRow(V) : put(q).status = q.status /\ put(q).hash = q.hash
    BY <2>1 DEF EqRow
  <2> HIDE DEF over, put
  <2> QED
    BY <1>2, <2>1, <2>2 DEF Awaits
<1> HIDE DEF over, put
<1>6. NoNewAwaiting
  BY <1>5 DEF NoNewAwaiting, Awaits
<1>7. DecisionsStay
  <2> SUFFICES ASSUME NEW d \in decided, Awaits(d.eq)'
               PROVE  \E c \in decided' : c.eq = d.eq /\ c.hash = d.hash
    BY DEF DecisionsStay
  <2>1. d.eq \notin S
    BY <1>4, <1>5
  <2>2. d \in Forgotten(S)
    BY <2>1 DEF Forgotten
  <2>3. CASE d \in decided'
    BY <2>3
  <2>4. CASE d \notin decided'
    <3> DEFINE c0 == [eq |-> e, hash |-> h, pick |-> pick]
    <3>1. c0 \in decided' /\ c0.eq = e /\ c0.hash = h
      BY <1>3, <2>2, <2>4
    <3>2. d.eq = e /\ d.hash = h
      BY <1>3, <2>2, <2>4 DEF Decision
    <3> HIDE DEF c0
    <3> QED
      BY <3>1, <3>2
  <2> QED
    BY <2>3, <2>4
<1>8. EvalsStay
  <2>1. \A x \in Eq : eval'[x].pc \in {"none", eval[x].pc}
    BY <1>3 DEF Uncomputed, NoEval
  <2> QED
    BY <2>1 DEF EvalsStay
<1>9. QuestionsStay /\ AnsweredTasksStay /\ (UNCHANGED answer => RequestsStay)
  BY <1>3, <1>4, <1>5, CancelStays
<1>10. RequestsStay
  <2> DEFINE a == [NoAnswer EXCEPT !.pc = "swap", !.eq = e, !.pick = pick, !.value = v]
  <2>1. a.pc = "swap"
    BY DEF NoAnswer
  <2>2. UNCHANGED answer \/ answer' = [answer EXCEPT ![r] = a]
    BY <1>3
  <2>3. PICK b : b = a
    OBVIOUS
  <2> HIDE DEF a
  <2> QED
    BY <1>3, <1>9, <2>1, <2>2, <2>3, RequestGoesOn
<1>11. Quiet' /\ (Up' => Up)
  BY <1>3, Stays, MustRun
<1> QED
  BY <1>6, <1>7, <1>8, <1>9, <1>10, <1>11, AskedKept

LEMMA InitAsked == Init => Asked
<1> SUFFICES ASSUME Init PROVE Asked
  OBVIOUS
<1>1. \A e \in Eq : mem[e].status = "pending" /\ row[e].status = "pending"
  BY DEF Init, NewEq
<1>2. \A r \in Request : answer[r].pc = "idle"
  BY DEF Init, NoAnswer
<1> QED
  BY <1>1, <1>2 DEF Init, Asked, RowsAsked, GraphAsked, AwaitingIsIdle, AnswersAreTied, Quiet, HasRun

LEMMA AskedStep == Types /\ Types' /\ Asked /\ [Next]_<<scenario, vars>> => Asked'
<1> SUFFICES ASSUME NEW V, Typed(V), Types', Asked, [Next]_<<scenario, vars>> PROVE Asked'
  BY DEF Types
<1>1. CASE UNCHANGED <<scenario, vars>>
  BY <1>1, Stays, AskedKept DEF vars
<1>2. CASE Next
  <2>1. UNCHANGED scenario
    BY <1>2 DEF Next
  <2>2. CASE Loop
    BY <2>1, <2>2, LoopAsked
  <2>3. CASE Read \/ Pause \/ Resume \/ Crash \/ Restart
    BY <2>1, <2>3, StartAsked, ProcessAsked
  <2>4. ASSUME NEW e \in Eq, Evaluate(e) \/ ToolsChanged(e) \/ Invalidate(e) \/ Edit(e) PROVE Asked'
    BY <2>1, <2>4, EvalAsked, RedoAsked, EditAsked
  <2>5. ASSUME NEW t \in Task, OnTask(t) PROVE Asked'
    BY <2>1, <2>5, TaskAsked, AnswerAsked DEF OnTask
  <2>6. ASSUME NEW r \in Request, Handle(r) \/ \E e \in Eq, p \in Pick : Reselect(r, e, p) PROVE Asked'
    BY <2>1, <2>6, HandleAsked, ReselectAsked
  <2> QED
    BY <1>2, <2>2, <2>3, <2>4, <2>5, <2>6 DEF Next
<1> QED
  BY <1>1, <1>2

LEMMA AlwaysAsked == Spec => []Asked
<1> QED
  BY InitAsked, AskedStep, InitTypes, TypesStep, PTL DEF Spec

\* Nobody waits for nobody, whatever else happens to the run, restarts and
\* edits at any time included: an equation that awaits an answer has its question
\* in the task list, or its answer is on the way, or stored before the process
\* died.  The property leaves out the circumstances in which the program is edited
\* while the media of an answer are waited for: the answer then completes the
\* equation that was replaced, and the new one awaits an answer nobody is asked for.
THEOREM AwaitingAsked == Spec => []AwaitingIsAsked
<1>1. Asked => AwaitingIsAsked
  BY DEF Asked, GraphAsked, AskedAbout, BeingAnswered, AwaitingIsAsked, EditedUnderAnswer
<1> QED
  BY <1>1, AlwaysAsked, PTL
-----------------------------------------------------------------------------
(* The rows and the graph.  Every operation sets both, so that they agree  *)
(* is kept by one that treats an equation the same in both (Together).     *)
(* Evaluations of an older graph and re-picks that wait write rows alone.  *)

\* Circumstances: a re-pick that waits; rows that follow the graph.
SlowRepick == "reselect" \in scenario.events /\ Suspends("reselect")
Plain == "busy_edit" \notin scenario.events /\ ~SlowRepick

Agrees(e) ==
    /\ (row[e].status = "completed") = (mem[e].status = "completed")
    /\ mem[e].status = "completed" => row[e].result = mem[e].result
\* Evaluations compute equations of the graph, no re-pick waits.
Durable == /\ \A e \in Eq : ~eval[e].old
           /\ \A r \in Request : answer[r].pc # "swap"
           /\ Up => \A e \in Eq : Agrees(e)

\* What a step may do to an equation without its row disagreeing: nothing to
\* its status and result, leave it not completed, or complete both.
Together(e) ==
    \/ /\ mem'[e].status = mem[e].status /\ row'[e].status = row[e].status
       /\ mem'[e].status = "completed" => mem'[e].result = mem[e].result /\ row'[e].result = row[e].result
    \/ mem'[e].status # "completed" /\ row'[e].status # "completed"
    \/ mem'[e].status = "completed" /\ row'[e].status = "completed" /\ mem'[e].result = row'[e].result

LEMMA DurableKept ==
    ASSUME Durable, Up' => Up, \A e \in Eq : Together(e), \A e \in Eq : ~eval'[e].old,
           UNCHANGED answer \/ \E r \in Request : \E a : answer' = [answer EXCEPT ![r] = a] /\ a.pc # "swap",
           NEW V, Typed(V)
    PROVE  Durable'
<1>1. Up' => \A e \in Eq : Agrees(e)'
  BY DEF Durable, Agrees, Together
<1>2. \A r \in Request : answer'[r].pc # "swap"
  BY DEF Durable, Typed, Answers
<1> QED
  BY <1>1, <1>2 DEF Durable

\* Equations of S and their rows get the same status, not "completed".
LEMMA StatusDurable ==
    ASSUME NEW V, Typed(V), NEW S, NEW status, SetStatus(S, status), status # "completed"
    PROVE  \A e \in Eq : Together(e)
<1> SUFFICES ASSUME NEW e \in Eq PROVE Together(e)
  OBVIOUS
<1>1. /\ mem' = [x \in Eq |-> IF x \in S THEN [mem[x] EXCEPT !.status = status] ELSE mem[x]]
      /\ row' = [x \in Eq |-> IF x \in S THEN [row[x] EXCEPT !.status = status] ELSE row[x]]
  BY SettingAStatus
<1>2. mem[e] \in EqRow(V) /\ row[e] \in EqRow(V)
  BY DEF Typed, Rows
<1> QED
  BY <1>1, <1>2 DEF Together, EqRow

LEMMA ResultDurable ==
    ASSUME NEW V, Typed(V), NEW x, NEW value, SetResult(x, value)
    PROVE  \A e \in Eq : Together(e)
<1> SUFFICES ASSUME NEW e \in Eq PROVE Together(e)
  OBVIOUS
<1> DEFINE set(q) == [q EXCEPT !.status = "completed", !.result = value]
<1>1. /\ mem'[e] = IF e = x THEN set(mem[e]) ELSE mem[e]
      /\ row'[e] = IF e = x THEN set(row[e]) ELSE row[e]
  BY DEF SetResult, Persist
<1>3. mem[e] \in EqRow(V) /\ row[e] \in EqRow(V)
  BY DEF Typed, Rows
<1>2. \A q \in EqRow(V) : set(q).status = "completed" /\ set(q).result = value
  BY DEF EqRow
<1> HIDE DEF set
<1> QED
  BY <1>1, <1>2, <1>3 DEF Together

LEMMA SameDurable ==
    /\ UNCHANGED <<mem, row>> => \A e \in Eq : Together(e)
    /\ UNCHANGED eval /\ Durable => \A e \in Eq : ~eval'[e].old
  BY DEF Together, Durable

LEMMA LoopDurable ==
    ASSUME NEW V, Typed(V), UNCHANGED scenario, Asked, Plain, Durable, Loop
    PROVE  Durable'
<1>0. Up' => Up
  BY DEF Up, Loop, Tick, ControlDone, LoopEnds
<1>1. CASE Tick
  <2>1. PICK L : Ticks(L, Orphaned)
    BY <1>1, Ticking
  <2>2. UNCHANGED answer
    BY <1>1, Ticking
  <2>3. ASSUME NEW e \in Eq PROVE Together(e)
    <3>1. mem[e] \in EqRow(V) /\ row[e] \in EqRow(V)
      BY DEF Typed, Rows
    <3>2. CASE e \in L /\ Kind(e) = "control"
      <4> DEFINE set(q) == [q EXCEPT !.status = "completed", !.result = <<0, Inputs(e, version[e])>>]
      <4>1. mem'[e] = set(mem[e]) /\ row'[e] = set(row[e])
        BY <2>1, <3>2 DEF Ticks
      <4>2. \A q \in EqRow(V) : set(q).status = "completed" /\ set(q).result = <<0, Inputs(e, version[e])>>
        BY DEF EqRow
      <4> HIDE DEF set
      <4> QED
        BY <3>1, <4>1, <4>2 DEF Together
    <3>3. CASE ~(e \in L /\ Kind(e) = "control")
      <4>1. \/ mem'[e] = mem[e] /\ row'[e] = row[e]
            \/ \E s \in {"computing", "pending"} :
                  mem'[e] = [mem[e] EXCEPT !.status = s] /\ row'[e] = [row[e] EXCEPT !.status = s]
        BY <2>1, <3>3 DEF Ticks
      <4> QED
        BY <3>1, <4>1 DEF Together, EqRow
    <3> QED
      BY <3>2, <3>3
  <2>4. \A e \in Eq : ~eval'[e].old
    <3>1. \A e \in Eq : eval'[e] = eval[e] \/ eval'[e] = [NoEval EXCEPT !.pc = "queued", !.version = version[e]]
      BY <2>1 DEF Ticks
    <3> QED
      BY <3>1 DEF Durable, NoEval
  <2> QED
    BY <1>0, <2>2, <2>3, <2>4, DurableKept
<1>2. CASE ControlDone
  <2>1. UNCHANGED <<eval, answer>> /\ (UNCHANGED <<mem, row>> \/ SetResult(loop.eq, loop.value))
    <3>1. CASE MayComplete(loop.eq, loop.held)
      BY <1>2, <3>1, NothingReplaced DEF ControlDone, MayComplete, Plain
    <3>2. CASE ~MayComplete(loop.eq, loop.held)
      BY <1>2, <3>2 DEF ControlDone
    <3> QED
      BY <1>2, <3>1, <3>2 DEF ControlDone
  <2>2. ASSUME NEW x, NEW v, SetResult(x, v) PROVE \A e \in Eq : Together(e)
    BY <2>2, ResultDurable
  <2>3. \A e \in Eq : Together(e)
    BY <2>1, <2>2, SameDurable
  <2> QED
    BY <1>0, <2>1, <2>3, SameDurable, DurableKept
<1>3. CASE LoopEnds
  BY <1>0, <1>3, SameDurable, DurableKept DEF LoopEnds
<1> QED
  BY <1>1, <1>2, <1>3 DEF Loop

LEMMA StartDurable ==
    ASSUME NEW V, Typed(V), UNCHANGED scenario, Durable, Read \/ Pause \/ Resume
    PROVE  Durable'
<1>1. /\ Up /\ UNCHANGED <<eval, answer>>
      /\ UNCHANGED <<mem, row>> \/ SetStatus(Orphaned, "pending")
  BY Starting, Resuming DEF Read, Pause, HasRun, Up
<1>2. ASSUME NEW S, SetStatus(S, "pending") PROVE \A e \in Eq : Together(e)
  BY <1>2, StatusDurable
<1>3. \A e \in Eq : Together(e)
  BY <1>1, <1>2, SameDurable
<1> QED
  BY <1>1, <1>3, SameDurable, DurableKept

\* An evaluation that fails does so on an equation that is not completed.
LEMMA FailDurable ==
    ASSUME NEW V, Typed(V), UNCHANGED <<scenario, answer>>, Durable, Up, NEW e \in Eq,
           NEW status \in {"failed", "waiting"}, NEW type, Fail(e, status, type), Finished(e)
    PROVE  Durable'
<1>1. \A x \in Eq : ~eval'[x].old
  BY DEF Finished, NoEval, Durable, Typed, Evals
<1>2. \A x \in Eq : Together(x)
  <2> SUFFICES ASSUME NEW x \in Eq PROVE Together(x)
    OBVIOUS
  <2>1. \/ UNCHANGED <<mem, row>>
        \/ /\ mem' = [mem EXCEPT ![e] = [mem[e] EXCEPT !.status = status]]
           /\ row' = [row EXCEPT ![e] = [row[e] EXCEPT !.status = status]]
    BY Failing DEF Durable
  <2> QED
    BY <2>1 DEF Together, Typed, Rows, EqRow
<1> QED
  BY <1>1, <1>2, DurableKept

LEMMA EvalDurable ==
    ASSUME NEW V, Typed(V), UNCHANGED scenario, Asked, Durable, NEW e \in Eq, Evaluate(e)
    PROVE  Durable'
<1>0. Up /\ UNCHANGED answer /\ ~eval[e].old /\ mem \in [Eq -> EqRow(V)] /\ row \in [Eq -> EqRow(V)]
  BY MustRun DEF Evaluate, Return, BeginEval, Succeed, FailEval, ExhaustEval, ParkEval, HasRun, Up,
                 Durable, Typed, Rows
<1>1. CASE BeginEval(e)
  <2>1. PICK hash : hash = Inputs(e, eval[e].version)
    OBVIOUS
  <2>2. Misses(e) \/ (\E value : RunsWith(e, hash, value)) \/ Asks(e, hash)
    BY <1>1, <2>1, Beginning
  <2>3. CASE Misses(e)
    BY <1>0, <2>3, FailDurable DEF Misses
  <2>4. ASSUME NEW value, RunsWith(e, hash, value) PROVE Durable'
    <3>1. \A x \in Eq : ~eval'[x].old
      BY <2>4 DEF RunsWith, Durable, Typed, Evals, EvalRow
    <3>2. \A x \in Eq : Together(x)
      BY <1>0, <2>4 DEF RunsWith, Remembers, Together, EqRow
    <3> QED
      BY <1>0, <3>1, <3>2, DurableKept
  <2>5. CASE Asks(e, hash)
    <3>1. \A x \in Eq : ~eval'[x].old
      BY <2>5 DEF Asks, Finished, NoEval, Durable, Typed, Evals
    <3>2. \A x \in Eq : Together(x)
      <4>1. CASE /\ mem' = [mem EXCEPT ![e] = [mem[e] EXCEPT !.status = "awaiting", !.hash = hash]]
                 /\ row' = [row EXCEPT ![e] = [row[e] EXCEPT !.status = "awaiting", !.hash = hash]]
        BY <1>0, <4>1 DEF Together, EqRow
      <4>2. CASE Remembers(e, hash) /\ UNCHANGED row
        BY <1>0, <4>2 DEF Together, EqRow, Remembers
      <4> QED
        BY <1>0, <2>5, <4>1, <4>2 DEF Asks
    <3> QED
      BY <1>0, <3>1, <3>2, DurableKept
  <2> QED
    BY <2>2, <2>3, <2>4, <2>5
<1>2. CASE Succeed(e)
  <2>1. \A x \in Eq : ~eval'[x].old
    BY <1>2 DEF Succeed, Finished, NoEval, Durable, Typed, Evals
  <2> DEFINE set(q) == [q EXCEPT !.status = "completed", !.result = eval[e].value, !.hash = eval[e].hash]
  <2>2. \/ mem' = [mem EXCEPT ![e] = set(mem[e])] /\ row' = [row EXCEPT ![e] = set(row[e])]
        \/ /\ ~Allowed(mem[e].status, "completed")
           /\ mem' = [mem EXCEPT ![e].result = eval[e].value] /\ UNCHANGED row
    BY <1>0, <1>2 DEF Succeed, Write, May
  <2>3. \A q \in EqRow(V) : set(q).status = "completed" /\ set(q).result = eval[e].value
    BY DEF EqRow
  <2> HIDE DEF set
  <2>4. mem[e].status = "completed" => Allowed(mem[e].status, "completed")
    BY DEF Allowed
  <2>5. \A x \in Eq : Together(x)
    BY <1>0, <2>2, <2>3, <2>4 DEF Together, EqRow
  <2> QED
    BY <1>0, <2>1, <2>5, DurableKept
<1>3. CASE FailEval(e) \/ ExhaustEval(e) \/ ParkEval(e)
  BY <1>0, <1>3, FailDurable DEF FailEval, ExhaustEval, ParkEval
<1> QED
  BY <1>1, <1>2, <1>3 DEF Evaluate, Return

\* What starts over is not completed any more, nor is its row.
LEMMA OverDurable ==
    ASSUME NEW V, Typed(V), Durable, NEW S,
           \A x \in Eq : IF x \in S THEN mem'[x].status = "pending" /\ row'[x].status = "pending"
                         ELSE mem'[x] = mem[x] /\ row'[x] = row[x]
    PROVE  /\ \A x \in Eq : Together(x)
           /\ eval' = Uncomputed(S) => \A x \in Eq : ~eval'[x].old
  BY DEF Together, Durable, Uncomputed, NoEval

LEMMA ResetDurable ==
    ASSUME NEW V, Typed(V), Durable, NEW S, NEW Redo, Reset(S, Redo)
    PROVE  (\A x \in Eq : Together(x)) /\ (\A x \in Eq : ~eval'[x].old)
<1>1. \A x \in Eq : IF x \in S THEN mem'[x].status = "pending" /\ row'[x].status = "pending"
                    ELSE mem'[x] = mem[x] /\ row'[x] = row[x]
  <2> SUFFICES ASSUME NEW x \in Eq
               PROVE  IF x \in S THEN mem'[x].status = "pending" /\ row'[x].status = "pending"
                      ELSE mem'[x] = mem[x] /\ row'[x] = row[x]
    OBVIOUS
  <2>1. mem[x] \in EqRow(V) /\ row[x] \in EqRow(V)
    BY DEF Typed, Rows
  <2>2. /\ mem'[x] = IF x \notin S THEN mem[x]
                     ELSE [mem[x] EXCEPT !.status = "pending", !.result = NoValue,
                                  !.attempt = mem[x].attempt + (IF x \in Redo THEN 1 ELSE 0)]
        /\ row'[x] = IF x \notin S THEN row[x]
                     ELSE [row[x] EXCEPT !.status = "pending", !.result = NoValue,
                                  !.attempt = mem[x].attempt + (IF x \in Redo THEN 1 ELSE 0)]
    BY DEF Reset, Persist
  <2> QED
    BY <2>1, <2>2 DEF EqRow
<1> QED
  BY <1>1, OverDurable DEF Reset

LEMMA RedoDurable ==
    ASSUME NEW V, Typed(V), UNCHANGED scenario, Durable, Plain, NEW e \in Eq,
           ToolsChanged(e) \/ Invalidate(e) \/ Edit(e)
    PROVE  Durable'
<1>1. CASE ToolsChanged(e)
  <2>1. SetStatus({e}, "pending") /\ UNCHANGED <<eval, answer>> /\ Up
    BY <1>1 DEF ToolsChanged, Up
  <2>2. \A x \in Eq : Together(x)
    BY <2>1, StatusDurable
  <2> QED
    BY <2>1, <2>2, SameDurable, DurableKept
<1>2. CASE Invalidate(e)
  <2>1. Reset(Cascade(e), {e}) /\ UNCHANGED answer /\ Up
    BY <1>2 DEF Invalidate, HasRun, Up
  <2>2. (\A x \in Eq : Together(x)) /\ (\A x \in Eq : ~eval'[x].old)
    BY <2>1, ResetDurable
  <2> QED
    BY <2>1, <2>2, DurableKept
<1>3. CASE Edit(e)
  <2> DEFINE over(x, q) == [q EXCEPT !.status = "pending", !.result = NoValue,
                                     !.attempt = IF x = e THEN 1 ELSE mem[x].attempt]
  <2>1. PICK S : S = Cascade(e)
    OBVIOUS
  <2>2. /\ mem' = [x \in Eq |-> IF x \in S THEN [over(x, mem[x]) EXCEPT !.hash = NoValue] ELSE mem[x]]
        /\ row' = [x \in Eq |-> IF x \in S THEN over(x, row[x]) ELSE row[x]]
        /\ UNCHANGED answer /\ HasRun /\ InFlight = {}
    BY <1>3, <2>1, NothingReplaced DEF Edit, Plain, NothingHeld
  <2>3. \A x \in Eq : ~eval'[x].old
    <3>1. /\ \A x \in Eq : eval[x].pc = "none"
          /\ eval' = [x \in Eq |-> [eval[x] EXCEPT !.old = (@ \/ eval[x].pc # "none")]]
      BY <1>3, <2>2 DEF Edit, InFlight
    <3>2. \A x \in Eq : eval'[x].old = (eval[x].old \/ eval[x].pc # "none")
      BY <3>1 DEF Typed, Evals, EvalRow
    <3> QED
      BY <3>1, <3>2 DEF Durable
  <2>4. \A x \in Eq : IF x \in S THEN mem'[x].status = "pending" /\ row'[x].status = "pending"
                      ELSE mem'[x] = mem[x] /\ row'[x] = row[x]
    <3> SUFFICES ASSUME NEW x \in Eq
                 PROVE  IF x \in S THEN mem'[x].status = "pending" /\ row'[x].status = "pending"
                        ELSE mem'[x] = mem[x] /\ row'[x] = row[x]
      OBVIOUS
    <3>1. mem[x] \in EqRow(V) /\ row[x] \in EqRow(V)
      BY DEF Typed, Rows
    <3>2. /\ [over(x, mem[x]) EXCEPT !.hash = NoValue].status = "pending"
          /\ over(x, row[x]).status = "pending"
      BY <3>1 DEF EqRow
    <3> HIDE DEF over
    <3> QED
      BY <2>2, <3>2
  <2>5. \A x \in Eq : Together(x)
    BY <2>4, OverDurable
  <2> QED
    BY <2>2, <2>3, <2>5, DurableKept DEF HasRun, Up
<1> QED
  BY <1>1, <1>2, <1>3

\* What is read back agrees with the row it is read from.
LEMMA ProcessDurable ==
    ASSUME NEW V, Typed(V), UNCHANGED scenario, Durable, Crash \/ Restart
    PROVE  Durable'
<1>1. CASE Crash
  BY <1>1 DEF Crash, Durable, Up, NoEval, NoAnswer
<1>2. CASE Restart
  <2>1. UNCHANGED <<eval, answer>>
    BY <1>2 DEF Restart
  <2>2. \A e \in Eq : Agrees(e)'
    <3> SUFFICES ASSUME NEW e \in Eq PROVE Agrees(e)'
      OBVIOUS
    <3>1. /\ mem'[e] = IF row[e].status \in Hydrated THEN row[e] ELSE NewEq
          /\ row'[e] = IF row[e].status = "computing" THEN [row[e] EXCEPT !.status = "pending"] ELSE row[e]
          /\ row[e] \in EqRow(V)
      BY <1>2 DEF Restart, Typed, Rows
    <3> QED
      BY <3>1 DEF Agrees, Hydrated, NewEq, EqRow
  <2> QED
    BY <2>1, <2>2 DEF Durable
<1> QED
  BY <1>1, <1>2

LEMMA DecideDurable ==
    ASSUME NEW V, Typed(V), UNCHANGED scenario, Durable, Up, NEW r \in Request, NEW a,
           DOMAIN a = DOMAIN NoAnswer, Decide(r, a, tasks)
    PROVE  Durable'
<1>1. NoAnswer.pc # "swap"
  BY DEF NoAnswer
<1>2. CASE Rejects(r, a, tasks)
  <2>1. PICK S, R : S = UNION {Cascade(d) : d \in Deps(a.eq)} /\ R = Deps(a.eq)
    OBVIOUS
  <2>2. Reset(S, R) /\ answer' = [answer EXCEPT ![r] = NoAnswer]
    BY <1>2, <2>1 DEF Rejects
  <2>3. (\A x \in Eq : Together(x)) /\ (\A x \in Eq : ~eval'[x].old)
    BY <2>2, ResetDurable
  <2> QED
    BY <1>1, <2>2, <2>3, DurableKept
<1>3. CASE Defers(r, a, tasks)
  <2>1. PICK v : v = Chosen(a.eq, a.pick, a.hash)
    OBVIOUS
  <2> DEFINE b == [a EXCEPT !.pc = "finalize", !.task = 0, !.value = v]
  <2>2. answer' = [answer EXCEPT ![r] = b] /\ UNCHANGED <<mem, row, eval>>
    BY <1>3, <2>1 DEF Defers, Closes
  <2>3. b.pc # "swap"
    BY DEF NoAnswer
  <2> HIDE DEF b
  <2> QED
    BY <2>2, <2>3, SameDurable, DurableKept
<1>4. CASE Applies(r, a, tasks)
  <2>1. PICK x, v : x = a.eq /\ v = Chosen(a.eq, a.pick, a.hash)
    OBVIOUS
  <2>2. SetResult(x, v) /\ UNCHANGED eval /\ answer' = [answer EXCEPT ![r] = NoAnswer]
    BY <1>4, <2>1 DEF Applies, Closes
  <2>3. \A y \in Eq : Together(y)
    BY <2>2, ResultDurable
  <2> QED
    BY <1>1, <2>2, <2>3, SameDurable, DurableKept
<1>5. CASE TooLate(r, a, tasks)
  <2>1. UNCHANGED <<mem, row, eval>> /\ answer' = [answer EXCEPT ![r] = NoAnswer]
    BY <1>5 DEF TooLate, Closes
  <2> QED
    BY <1>1, <2>1, SameDurable, DurableKept
<1> QED
  BY <1>2, <1>3, <1>4, <1>5, Deciding

LEMMA AnswerDurable ==
    ASSUME NEW V, Typed(V), UNCHANGED scenario, Durable, NEW r \in Request, NEW t, NEW pick, Answer(r, t, pick)
    PROVE  Durable'
<1>1. PICK a : a = Made(t, pick)
  OBVIOUS
<1>2. a.pc # "swap" /\ DOMAIN a = DOMAIN NoAnswer /\ Up
  BY <1>1, Answering DEF Made, NoAnswer, HasRun, Up
<1>3. CASE Decide(r, a, tasks)
  BY <1>2, <1>3, DecideDurable
<1>4. CASE answer' = [answer EXCEPT ![r] = a] /\ UNCHANGED <<mem, row, eval>>
  BY <1>2, <1>4, SameDurable, DurableKept
<1> QED
  BY <1>1, <1>3, <1>4, Answering

LEMMA HandleDurable ==
    ASSUME NEW V, Typed(V), UNCHANGED scenario, Asked, Plain, Durable, NEW r \in Request, Handle(r)
    PROVE  Durable'
<1>0. answer[r] \in AnswerRow(V) /\ SensibleAnswer(answer[r]) /\ (answer[r].pc # "idle" => Up)
      /\ NoAnswer.pc # "swap"
  BY MustRun DEF Typed, Answers, HasRun, Up, NoAnswer
<1>1. PICK a : a = answer[r]
  OBVIOUS
<1>2. CASE Promoted(r)
  <2>1. answer[r].pc # "idle" /\ Decide(r, a, tasks)
    BY <1>1, <1>2 DEF Promoted
  <2>2. DOMAIN a = DOMAIN NoAnswer
    BY <1>0, <1>1 DEF AnswerRow, NoAnswer
  <2> QED
    BY <1>0, <2>1, <2>2, DecideDurable
<1>3. CASE AnswerOwned(r)
  <2>1. /\ Up /\ answer' = [answer EXCEPT ![r] = NoAnswer] /\ UNCHANGED eval /\ a.eq \in Eq
        /\ \/ SetResult(a.eq, a.value)
           \/ /\ ~Allowed(mem[a.eq].status, "completed")
              /\ mem' = [mem EXCEPT ![a.eq].result = a.value] /\ UNCHANGED row
    <3>1. /\ Up /\ answer' = [answer EXCEPT ![r] = NoAnswer] /\ UNCHANGED eval /\ a.eq \in Eq
          /\ a.held = "graph"
      BY <1>0, <1>1, <1>3, NothingReplaced DEF AnswerOwned, SensibleAnswer, Plain
    <3>2. CASE Allowed(mem[a.eq].status, "completed")
      BY <1>1, <1>3, <3>1, <3>2, NothingReplaced DEF Plain
    <3>3. CASE ~Allowed(mem[a.eq].status, "completed")
      BY <1>1, <1>3, <3>1, <3>3 DEF AnswerOwned, MayComplete
    <3> QED
      BY <3>1, <3>2, <3>3
  <2>2. \A x \in Eq : Together(x)
    <3>1. CASE SetResult(a.eq, a.value)
      BY <3>1, ResultDurable
    <3>2. CASE /\ ~Allowed(mem[a.eq].status, "completed")
               /\ mem' = [mem EXCEPT ![a.eq].result = a.value] /\ UNCHANGED row
      <4>1. mem[a.eq].status # "completed"
        BY <3>2 DEF Allowed
      <4> QED
        BY <2>1, <3>2, <4>1 DEF Together, Typed, Rows, EqRow
    <3> QED
      BY <2>1, <3>1, <3>2
  <2> QED
    BY <1>0, <2>1, <2>2, SameDurable, DurableKept
<1>4. CASE Swap(r)
  BY <1>4 DEF Swap, Durable
<1> QED
  BY <1>2, <1>3, <1>4 DEF Handle

LEMMA TaskDurable ==
    ASSUME NEW V, Typed(V), UNCHANGED scenario, Durable, NEW t,
           Retry(t) \/ Skip(t) \/ \E pick : AnswerOffline(t, pick)
    PROVE  Durable'
<1>1. CASE Retry(t)
  <2>1. PICK e : e = tasks[t].eq
    OBVIOUS
  <2>2. Up /\ UNCHANGED <<eval, answer>> /\ (SetStatus({e}, "pending") \/ UNCHANGED <<mem, row>>)
    BY <1>1, <2>1 DEF Retry, HasRun, Up
  <2>3. \A x \in Eq : Together(x)
    BY <2>2, StatusDurable, SameDurable
  <2> QED
    BY <2>2, <2>3, SameDurable, DurableKept
<1>2. CASE Skip(t)
  <2> DEFINE S0 == {x \in (IF tasks[t].type = "error" THEN Iteration(tasks[t].eq) ELSE {tasks[t].eq}) :
                      mem[x].status \notin {"completed", "skipped"}}
             set(q) == [q EXCEPT !.status = "skipped", !.result = NoValue]
  <2>1. PICK S : S = S0
    OBVIOUS
  <2>2. /\ mem' = [x \in Eq |-> IF x \in S THEN set(mem[x]) ELSE mem[x]]
        /\ row' = [x \in Eq |-> IF x \in S THEN set(row[x]) ELSE row[x]]
        /\ Up /\ UNCHANGED <<eval, answer>>
    BY <1>2, <2>1 DEF Skip, Persist, HasRun, Up
  <2>3. \A x \in Eq : Together(x)
    <3>1. \A q \in EqRow(V) : set(q).status = "skipped"
      BY DEF EqRow
    <3> HIDE DEF set
    <3> QED
      BY <2>2, <3>1 DEF Together, Typed, Rows
  <2> QED
    BY <2>2, <2>3, SameDurable, DurableKept
<1>3. ASSUME NEW pick, AnswerOffline(t, pick) PROVE Durable'
  BY <1>3, SameDurable, DurableKept DEF AnswerOffline, Up
<1> QED
  BY <1>1, <1>2, <1>3

LEMMA ReselectDurable ==
    ASSUME NEW V, Typed(V), UNCHANGED scenario, Durable, Plain, NEW r, NEW e \in Eq, NEW pick, Reselect(r, e, pick)
    PROVE  Durable'
<1> DEFINE over(x, q) == [q EXCEPT !.status = "pending", !.result = NoValue, !.attempt = mem[x].attempt]
<1>1. PICK S, v : S = Descendants(e) /\ v = <<pick, mem[e].hash>>
  OBVIOUS
<1> DEFINE put(q) == [q EXCEPT !.result = v]
<1>2. ~Suspends("reselect") /\ Up /\ mem[e].status = "completed"
  BY DEF Plain, SlowRepick, Reselect, Disturb, HasRun, Up
<1>3. /\ mem' = [x \in Eq |-> IF x \in S THEN over(x, mem[x]) ELSE IF x = e THEN put(mem[x]) ELSE mem[x]]
      /\ row' = [x \in Eq |-> IF x \in S THEN over(x, row[x]) ELSE IF x = e THEN put(row[x]) ELSE row[x]]
      /\ eval' = Uncomputed(S) /\ UNCHANGED answer
  BY <1>1, <1>2 DEF Reselect, Persist
<1>4. \A x \in Eq : Together(x)
  <2> SUFFICES ASSUME NEW x \in Eq PROVE Together(x)
    OBVIOUS
  <2>1. mem[x] \in EqRow(V) /\ row[x] \in EqRow(V)
    BY DEF Typed, Rows
  <2>2. /\ over(x, mem[x]).status = "pending" /\ over(x, row[x]).status = "pending"
        /\ \A q \in EqRow(V) : put(q).status = q.status /\ put(q).result = v
    BY <2>1 DEF EqRow
  <2>3. row[e].status = "completed"
    BY <1>2 DEF Durable, Agrees
  <2> HIDE DEF over, put
  <2> QED
    BY <1>2, <1>3, <2>1, <2>2, <2>3 DEF Together
<1>5. \A x \in Eq : ~eval'[x].old
  BY <1>3 DEF Uncomputed, NoEval, Durable
<1> QED
  BY <1>2, <1>3, <1>4, <1>5, DurableKept

LEMMA DurableStep == Types /\ Asked /\ Plain /\ Durable /\ [Next]_<<scenario, vars>> => Durable'
<1> SUFFICES ASSUME NEW V, Typed(V), Asked, Plain, Durable, [Next]_<<scenario, vars>> PROVE Durable'
  BY DEF Types
<1>1. CASE UNCHANGED <<scenario, vars>>
  BY <1>1 DEF vars, Durable, Agrees, Up
<1>2. CASE Next
  <2>1. UNCHANGED scenario
    BY <1>2 DEF Next
  <2>2. CASE Loop
    BY <2>1, <2>2, LoopDurable
  <2>3. CASE Read \/ Pause \/ Resume \/ Crash \/ Restart
    BY <2>1, <2>3, StartDurable, ProcessDurable
  <2>4. ASSUME NEW e \in Eq, Evaluate(e) \/ ToolsChanged(e) \/ Invalidate(e) \/ Edit(e) PROVE Durable'
    BY <2>1, <2>4, EvalDurable, RedoDurable
  <2>5. ASSUME NEW t \in Task, OnTask(t) PROVE Durable'
    BY <2>1, <2>5, TaskDurable, AnswerDurable DEF OnTask
  <2>6. ASSUME NEW r \in Request, Handle(r) \/ \E e \in Eq, p \in Pick : Reselect(r, e, p) PROVE Durable'
    BY <2>1, <2>6, HandleDurable, ReselectDurable
  <2> QED
    BY <1>2, <2>2, <2>3, <2>4, <2>5, <2>6 DEF Next
<1> QED
  BY <1>1, <1>2

\* The rows and the graph agree on what is completed and on its result, across
\* crashes, requests whose awaits suspend, answers that come too late and
\* edits of the program at any time when no evaluation runs and neither a
\* request nor the loop holds an equation over an await.  Excepted are the
\* other edits (the antecedent of DurableAgrees), after which the old
\* equation is completed in the row only (try_reload_program replaces every
\* equation and waits for nobody), and re-picks that wait for the ownership of
\* their media, which write the row of an equation that may have started over
\* (reselect_hitl).
THEOREM RowsAgree ==
    Spec /\ ~("reselect" \in scenario.events /\ "reselect" \in scenario.suspends) => []DurableAgrees
<1> DEFINE H == ~("reselect" \in scenario.events /\ "reselect" \in scenario.suspends)
           I == ("busy_edit" \notin scenario.events) => Plain /\ Durable
<1>1. Init /\ H => H /\ I
  <2> SUFFICES ASSUME Init, H, "busy_edit" \notin scenario.events PROVE Plain /\ Durable
    OBVIOUS
  <2>1. \A e \in Eq : mem[e] = NewEq /\ row[e] = NewEq /\ eval[e] = NoEval
    BY DEF Init
  <2>2. \A r \in Request : answer[r].pc = "idle"
    BY DEF Init, NoAnswer
  <2>3. Plain
    BY DEF Plain, SlowRepick, Suspends
  <2>4. \A e \in Eq : Agrees(e) /\ ~eval[e].old
    <3>1. \A e \in Eq : row[e] = mem[e] => Agrees(e)
      BY DEF Agrees
    <3>2. ~NoEval.old
      BY DEF NoEval
    <3> QED
      BY <2>1, <3>1, <3>2
  <2> QED
    BY <2>2, <2>3, <2>4 DEF Durable
<1>2. Types /\ Asked /\ H /\ I /\ [Next]_<<scenario, vars>> => (H /\ I)'
  <2> SUFFICES ASSUME Types, Asked, H, I, [Next]_<<scenario, vars>> PROVE (H /\ I)'
    OBVIOUS
  <2>1. UNCHANGED scenario
    BY DEF Next
  <2> QED
    BY <2>1, DurableStep DEF Plain, SlowRepick, Suspends
<1>3. I => DurableAgrees
  BY DEF Durable, Agrees, DurableAgrees
<1> QED
  BY <1>1, <1>2, <1>3, AlwaysTyped, AlwaysAsked, PTL DEF Spec

-----------------------------------------------------------------------------
(* In calm circumstances results, questions and rows fit together: the      *)
(* program is reloaded only while no evaluation runs and no request and no  *)
(* loop holds an equation over an await; where somebody redoes, rejects or  *)
(* re-picks, no await suspends; promotion and ownership do not both suspend *)
(* answers if there are several; and what is skipped is skipped alone.      *)
(* Without any of these there is a behaviour in which something goes wrong  *)
(* (MCFlowEngine, from RepickedSlowly on).                                  *)

Calm ==
    /\ "busy_edit" \notin scenario.events
    /\ scenario.events \cap {"invalidate", "reject", "reselect"} # {} => scenario.suspends = {}
    /\ {"promote", "answer"} \subseteq scenario.suspends => \A r \in Request : Request = {r}
    /\ "skip" \in scenario.events => \A e \in Eq : Iteration(e) \subseteq {e}

\* What is evaluated is computing, under the definition of now.
Working == \A e \in Eq : /\ ~eval[e].old
                         /\ eval[e].pc # "none" => mem[e].status = "computing" /\ eval[e].version = version[e]
\* The loop waits for the media of a control equation that is pending.
Looping == loop.pc = "control" => mem[loop.eq].status = "pending" /\ Suspends("control")

\* What was made from its inputs, or is being made from them, has them.
Built(e) == mem[e].status \in {"computing", "completed", "awaiting"} \/ (loop.pc = "control" /\ loop.eq = e)
Shown == {"completed", "awaiting"}
FoundedAt(e) ==
    /\ Built(e) => \A d \in Deps(e) : Settled(d)
    /\ mem[e].status = "awaiting" \/ eval[e].pc = "running" => \A d \in Deps(e) : mem[d].status = "completed"
    /\ eval[e].pc = "running" => eval[e].hash = Inputs(e, version[e])
    /\ Kind(e) \in Hitl /\ mem[e].status \in Shown => mem[e].hash = Inputs(e, version[e])
    /\ mem[e].status = "awaiting" => Kind(e) \in Hitl
Founded == \A e \in Eq : FoundedAt(e)

\* A row is like its equation, as far as it is read back.
Alike(e, m, q) ==
    /\ q.status = m.status
    /\ m.status \in {"completed", "skipped"} => q.result = m.result
    /\ Kind(e) \in Hitl /\ m.status \in Shown => q.hash = m.hash
Agree == \A e \in Eq : Alike(e, mem[e], row[e])

\* A task is true (TasksAreTrue).
True(t) ==
    LET e == tasks[t].eq
    IN  /\ mem[e].status = Holder[tasks[t].type]
        /\ \A u \in Task : Pending(u) /\ tasks[u].eq = e => u = t
        /\ Question(t) => tasks[t].hash = Inputs(e, version[e])
TasksTrue == \A t \in Task : Pending(t) => True(t)

\* An answer whose media are waited for has its equation to itself; one that
\* is promoted finds it answered or finds its question.
Sole(r) == /\ Suspends("answer") /\ mem[answer[r].eq].status = "awaiting"
           /\ \A t \in Task : tasks[t].eq # answer[r].eq
           /\ \A s \in Request : answer[s].pc = "finalize" /\ answer[s].eq = answer[r].eq => s = r
Open(r) == /\ Suspends("promote")
           /\ \/ mem[answer[r].eq].status = "completed"
              \/ mem[answer[r].eq].status = "awaiting" /\ Pending(answer[r].task)
Requests == \A r \in Request : /\ answer[r].pc = "finalize" => Sole(r)
                               /\ answer[r].pc = "promote" => Open(r)
                               /\ answer[r].pc # "swap"

Sound == Working /\ Looping /\ Founded /\ Agree /\ TasksTrue /\ Requests

-----------------------------------------------------------------------------
(* What the parts of Sound need of a step.                                  *)

SameOutput(d) == mem'[d].status = mem[d].status /\ mem'[d].result = mem[d].result
\* What is built after a step had its inputs before it, and they are the same.
Solid == \A n \in Eq : Built(n)' => /\ version'[n] = version[n]
                                    /\ \A d \in Deps(n) : Settled(d) /\ SameOutput(d)

LEMMA InputsStay ==
    ASSUME UNCHANGED scenario, NEW e \in Eq, version'[e] = version[e], \A d \in Deps(e) : SameOutput(d)
    PROVE  /\ Inputs(e, version[e])' = Inputs(e, version[e])
           /\ \A d \in Deps(e)' : d \in Deps(e) /\ mem'[d].status = mem[d].status
           /\ Kind(e)' = Kind(e) /\ Deps(e)' = Deps(e)
  BY DEF Inputs, SameOutput, Deps, Kind

\* A step on equations that are not settled is solid.
LEMMA SolidLocal ==
    ASSUME UNCHANGED <<scenario, version>>, Founded, NEW V, Typed(V),
           \A d \in Eq : Settled(d) => SameOutput(d),
           \A n \in Eq : Built(n)' => Built(n) \/ \A d \in Deps(n) : Settled(d)
    PROVE  Solid
<1>1. ASSUME NEW n \in Eq, Built(n)', NEW d \in Deps(n) PROVE Settled(d) /\ SameOutput(d)
  <2>1. d \in Eq
    BY Graphic
  <2>2. Settled(d)
    BY <1>1 DEF Founded, FoundedAt
  <2> QED
    BY <2>1, <2>2
<1> QED
  BY <1>1 DEF Solid

\* So is one in which all that needs what changes starts over.
LEMMA SolidOver ==
    ASSUME UNCHANGED scenario, Founded, NEW V, Typed(V), NEW S, NEW T,
           \A n \in Eq : \A d \in Deps(n) : d \in S \cup T => n \in S,
           \A x \in Eq : x \notin S \cup T => SameOutput(x),
           \A x \in Eq : x \notin S => version'[x] = version[x],
           \A x \in Eq : Built(x)' => Built(x) /\ x \notin S
    PROVE  Solid
<1>1. ASSUME NEW n \in Eq, Built(n)', NEW d \in Deps(n) PROVE Settled(d) /\ SameOutput(d)
  <2>1. d \in Eq /\ d \notin S \cup T
    BY <1>1, Graphic
  <2> QED
    BY <1>1, <2>1 DEF Founded, FoundedAt
<1> QED
  BY <1>1 DEF Solid

\* An equation goes on as it is, or its new status is founded.
Goes(e) == mem'[e].status = mem[e].status /\ mem'[e].hash = mem[e].hash /\ eval'[e] = eval[e]
Newly(e) ==
    /\ eval'[e].pc = "running" =>
          mem'[e].status = "computing" /\ eval'[e].hash = Inputs(e, version[e])
    /\ mem'[e].status = "awaiting" \/ eval'[e].pc = "running" => \A d \in Deps(e) : mem[d].status = "completed"
    /\ Kind(e) \in Hitl /\ mem'[e].status \in Shown => mem'[e].hash = Inputs(e, version[e])
    /\ mem'[e].status = "awaiting" => Kind(e) \in Hitl

LEMMA FoundedKept ==
    ASSUME UNCHANGED scenario, Working, Founded, Solid, \A e \in Eq : Goes(e) \/ Newly(e)
    PROVE  Founded'
<1> SUFFICES ASSUME NEW e \in Eq PROVE FoundedAt(e)'
  BY DEF Founded
<1>0. Newly(e)
  BY DEF Goes, Newly, Working, Founded, FoundedAt
<1>1. CASE Built(e)'
  <2>1. version'[e] = version[e] /\ \A d \in Deps(e) : Settled(d) /\ SameOutput(d)
    BY <1>1 DEF Solid
  <2>2. /\ Inputs(e, version[e])' = Inputs(e, version[e])
        /\ \A d \in Deps(e)' : d \in Deps(e) /\ mem'[d].status = mem[d].status
        /\ Kind(e)' = Kind(e)
    BY <2>1, InputsStay
  <2>3. \A d \in Deps(e)' : Settled(d)'
    BY <2>1, <2>2 DEF Settled
  <2> QED
    BY <1>0, <2>2, <2>3 DEF FoundedAt, Newly
<1>2. CASE ~Built(e)'
  BY <1>0, <1>2 DEF FoundedAt, Newly, Built, Shown
<1> QED
  BY <1>1, <1>2

\* A task stays true as long as its equation keeps its status.
Remains(t) == SameQuestion(tasks'[t], tasks[t]) /\ mem'[tasks[t].eq].status = mem[tasks[t].eq].status
LEMMA TaskRemains ==
    ASSUME UNCHANGED scenario, NEW V, Typed(V), Solid, NEW t \in Task, Pending(t), True(t), Remains(t),
           \A u \in Task : Pending(u)' => \/ SameQuestion(tasks'[u], tasks[u])
                                          \/ tasks'[u].eq # tasks[t].eq
    PROVE  True(t)'
<1>1. PICK e : e = tasks[t].eq
  OBVIOUS
<1>2. e \in Eq /\ tasks'[t].eq = e /\ tasks'[t].type = tasks[t].type /\ tasks'[t].hash = tasks[t].hash
  BY <1>1 DEF Typed, Tasks, TaskTable, SensibleTask, Pending, Remains, SameQuestion
<1>3. mem'[e].status = Holder[tasks'[t].type]
  BY <1>1, <1>2 DEF True, Remains
<1>4. \A u \in Task : Pending(u)' /\ tasks'[u].eq = e => u = t
  BY <1>1 DEF True, SameQuestion, Pending
<1>5. Question(t)' => tasks'[t].hash = Inputs(e, version[e])'
  <2> SUFFICES ASSUME tasks[t].type \in Hitl PROVE tasks[t].hash = Inputs(e, version[e])'
    BY <1>2 DEF Question
  <2>1. mem'[e].status = "awaiting"
    BY <1>2, <1>3 DEF Hitl, Holder
  <2>2. version'[e] = version[e] /\ \A d \in Deps(e) : SameOutput(d)
    BY <1>2, <2>1 DEF Solid, Built
  <2> QED
    BY <1>1, <1>2, <2>2, InputsStay DEF True, Question
<1> QED
  BY <1>2, <1>3, <1>4, <1>5 DEF True

LEMMA TasksKept ==
    ASSUME UNCHANGED scenario, NEW V, Typed(V), Solid, TasksTrue,
           \A t \in Task : Pending(t)' => Remains(t)
    PROVE  TasksTrue'
<1> SUFFICES ASSUME NEW t \in Task, Pending(t)' PROVE True(t)'
  BY DEF TasksTrue
<1>1. Remains(t) /\ Pending(t)
  BY DEF Remains, SameQuestion, Pending
<1> QED
  BY <1>1, TaskRemains DEF TasksTrue, Remains

\* Requests go on as long as what is completed or awaits an answer does.
Lets(e) ==
    mem[e].status \in Shown =>
        /\ mem'[e].status = mem[e].status
        /\ \A t \in Task : tasks'[t].eq = e => tasks[t].eq = e
        /\ \A t \in Task : tasks[t].eq = e /\ Question(t) => Pending(t)'

LEMMA RequestsKept ==
    ASSUME UNCHANGED scenario, NEW V, Typed(V), Asked, Requests, scenario.suspends # {} => \A e \in Eq : Lets(e),
           \A r \in Request : answer'[r] = answer[r] \/ answer'[r].pc = "idle"
    PROVE  Requests'
<1>1. ASSUME NEW r \in Request, answer'[r] = answer[r], answer[r].pc = "finalize" PROVE Sole(r)'
  <2>1. Sole(r) /\ answer[r].eq \in Eq
    BY <1>1 DEF Requests, Typed, Answers, SensibleAnswer
  <2>2. Lets(answer[r].eq)
    BY <2>1 DEF Sole, Suspends
  <2>3. \A s \in Request : answer'[s].pc = "finalize" /\ answer'[s].eq = answer'[r].eq => s = r
    BY <1>1, <2>1 DEF Sole
  <2> QED
    BY <1>1, <2>1, <2>2, <2>3 DEF Sole, Lets, Shown, Suspends
<1>2. ASSUME NEW r \in Request, answer'[r] = answer[r], answer[r].pc = "promote" PROVE Open(r)'
  <2>1. Open(r) /\ answer[r].eq \in Eq /\ answer[r].task \in Task
    BY <1>2 DEF Requests, Typed, Answers, SensibleAnswer
  <2>2. Lets(answer[r].eq)
    BY <2>1 DEF Open, Suspends
  <2>3. Tied(r)
    BY <1>2 DEF Asked, AnswersAreTied
  <2>4. Pending(answer[r].task) => tasks[answer[r].task].eq = answer[r].eq /\ Question(answer[r].task)
    BY <2>3 DEF Tied, Pending, NoTask
  <2> QED
    BY <1>2, <2>1, <2>2, <2>4 DEF Open, Lets, Shown, Suspends, Pending
<1> QED
  BY <1>1, <1>2 DEF Requests

\* Where something is redone, rejected or re-picked, no request is under way.
LEMMA NothingWaits ==
    ASSUME Sound, NEW V, Typed(V), scenario.suspends = {}
    PROVE  loop.pc # "control" /\ \A r \in Request : answer[r].pc = "idle"
  BY DEF Sound, Looping, Requests, Sole, Open, Suspends, Typed, Answers, AnswerRow

\* A step that leaves equations, evaluations and tasks alone, and the loop or
\* at its gate.
LEMMA SameSound ==
    ASSUME NEW V, Typed(V), Asked, Sound, UNCHANGED <<scenario, mem, row, eval, version>>,
           loop' = loop \/ loop'.pc # "control",
           UNCHANGED tasks \/ \A t \in Task : tasks'[t] = NoTask \/ SameQuestion(tasks'[t], tasks[t]),
           \A r \in Request : answer'[r] = answer[r] \/ answer'[r].pc = "idle",
           scenario.suspends # {} => \A e \in Eq : Lets(e)
    PROVE  Solid /\ Sound'
<1>1. Solid
  BY SolidLocal DEF Sound, Built, SameOutput
<1>2. Founded'
  BY <1>1, FoundedKept DEF Sound, Goes
<1>3. TasksTrue'
  <2>1. \A t \in Task : Pending(t)' => Remains(t)
    BY DEF Remains, SameQuestion, Pending, NoTask
  <2> QED
    BY <1>1, <2>1, TasksKept DEF Sound
<1>4. Requests'
  BY RequestsKept DEF Sound
<1>5. Working' /\ Looping' /\ Agree'
  BY DEF Sound, Working, Looping, Agree, Suspends, Alike, Kind
<1> QED
  BY <1>1, <1>2, <1>3, <1>4, <1>5 DEF Sound

\* Equations that are neither completed nor await an answer change, with
\* their rows.
LEMMA ChangeSound ==
    ASSUME NEW V, Typed(V), Asked, Sound, UNCHANGED <<scenario, version>>,
           NEW S, \A e \in S : mem[e].status \notin Shown,
           \A e \in Eq \ S : mem'[e] = mem[e] /\ row'[e] = row[e] /\ eval'[e] = eval[e],
           \A e \in Eq : e \in S => Newly(e) /\ Alike(e, mem'[e], row'[e]),
           Working', Looping', Solid, TasksTrue',
           \A t \in Task : tasks'[t].eq \in Eq \ S => tasks'[t].eq = tasks[t].eq,
           \A t \in Task : Question(t) => Pending(t)',
           \A r \in Request : answer'[r] = answer[r] \/ answer'[r].pc = "idle"
    PROVE  Sound'
<1>1. Founded'
  BY FoundedKept DEF Sound, Goes
<1>3. Requests'
  <2>1. \A e \in Eq : Lets(e)
    BY DEF Lets
  <2> QED
    BY <2>1, RequestsKept DEF Sound
<1>4. Agree'
  <2>1. \A e \in Eq : Alike(e, mem'[e], row'[e])
    BY DEF Sound, Agree
  <2> QED
    BY <2>1 DEF Agree, Alike, Kind
<1> QED
  BY <1>1, <1>3, <1>4 DEF Sound

\* The same, if no task is about them.
LEMMA LocalSound ==
    ASSUME NEW V, Typed(V), Asked, Sound, UNCHANGED <<scenario, version>>,
           NEW S, \A e \in S : mem[e].status \notin Shown,
           \A e \in Eq \ S : mem'[e] = mem[e] /\ row'[e] = row[e] /\ eval'[e] = eval[e],
           \A e \in Eq : e \in S => Newly(e) /\ Alike(e, mem'[e], row'[e]),
           Working', Looping', Solid,
           \A t \in Task : Pending(t)' => SameQuestion(tasks'[t], tasks[t]) /\ tasks[t].eq \notin S,
           \A t \in Task : tasks'[t].eq \in Eq \ S => tasks'[t].eq = tasks[t].eq,
           \A t \in Task : Question(t) => Pending(t)',
           \A r \in Request : answer'[r] = answer[r] \/ answer'[r].pc = "idle"
    PROVE  Sound'
<1>1. ASSUME NEW t \in Task, Pending(t)' PROVE Remains(t)
  <2>1. tasks[t].eq \in Eq
    BY <1>1 DEF Typed, Tasks, TaskTable, SensibleTask, Pending, SameQuestion
  <2> QED
    BY <1>1, <2>1 DEF Remains
<1>2. TasksTrue'
  BY <1>1, TasksKept DEF Sound
<1> QED
  BY <1>2, ChangeSound

\* What has a task awaits an answer, failed, or waits for a tool.
LEMMA Tasked ==
    ASSUME NEW V, Typed(V), TasksTrue, NEW t \in Task, Pending(t)
    PROVE  /\ tasks[t].eq \in Eq
           /\ tasks[t].type \in Hitl => mem[tasks[t].eq].status = "awaiting"
           /\ tasks[t].type = "error" => mem[tasks[t].eq].status = "failed"
           /\ tasks[t].type = "waiting_for_tool" => mem[tasks[t].eq].status = "waiting"
           /\ mem[tasks[t].eq].status \in {"awaiting", "failed", "waiting"}
<1>1. tasks[t].type \in TaskType \ {"none"} /\ tasks[t].eq \in Eq
  BY DEF Typed, Tasks, TaskTable, TaskRow, SensibleTask, Pending
<1>2. mem[tasks[t].eq].status = Holder[tasks[t].type]
  BY DEF TasksTrue, True
<1> QED
  BY <1>1, <1>2 DEF Holder, TaskType, Hitl

\* Tasks go on, as far as their equations keep their status.
LEMMA TasksGoOn ==
    ASSUME NEW V, Typed(V), TasksTrue, UNCHANGED tasks,
           NEW S, \A e \in S : mem[e].status \notin {"awaiting", "failed", "waiting"}
    PROVE  /\ \A t \in Task : Pending(t)' => SameQuestion(tasks'[t], tasks[t]) /\ tasks[t].eq \notin S
           /\ \A t \in Task : tasks'[t].eq \in Eq \ S => tasks'[t].eq = tasks[t].eq
           /\ \A t \in Task : Question(t) => Pending(t)'
<1>1. \A t \in Task : Pending(t)' => SameQuestion(tasks'[t], tasks[t]) /\ tasks[t].eq \notin S
  BY Tasked DEF SameQuestion, Pending
<1>2. \A t \in Task : Question(t) => Pending(t)'
  BY DEF Question, Pending, Hitl
<1> QED
  BY <1>1, <1>2

LEMMA TickSound ==
    ASSUME NEW V, Typed(V), UNCHANGED scenario, Asked, Sound, Tick
    PROVE  Solid /\ Sound'
<1>1. PICK L : Ticks(L, Orphaned)
  BY Ticking
<1>2. UNCHANGED <<version, tasks, decided, state, gate, wanted, answer, spent>> /\ loop.pc = "gate"
  BY Ticking
<1>3. PICK S : S = L \cup Orphaned
  OBVIOUS
<1>4. ASSUME NEW e \in S
      PROVE  /\ e \in Eq /\ eval[e].pc = "none"
             /\ mem[e].status \in {"pending", "computing"}
             /\ e \notin L => mem[e].status = "computing"
  BY <1>1, <1>3, <1>4 DEF Ticks, Orphaned, InFlight
<1>5. \A e \in Eq \ S : mem'[e] = mem[e] /\ row'[e] = row[e] /\ eval'[e] = eval[e]
  BY <1>1, <1>3 DEF Ticks
<1>6. ASSUME NEW e \in S
      PROVE  /\ mem'[e].status \in {"pending", "computing"} \/ (mem'[e].status = "completed" /\ Kind(e) = "control")
             /\ mem'[e].status # "pending" => e \in L
             /\ row'[e].status = mem'[e].status
             /\ mem'[e].status = "completed" => row'[e].result = mem'[e].result
  <2>1. mem[e] \in EqRow(V) /\ row[e] \in EqRow(V) /\ e \in Eq
    BY <1>4 DEF Typed, Rows
  <2>2. CASE e \in L /\ Kind(e) = "control"
    <3> DEFINE set(q) == [q EXCEPT !.status = "completed", !.result = <<0, Inputs(e, version[e])>>]
    <3>1. mem'[e] = set(mem[e]) /\ row'[e] = set(row[e])
      BY <1>1, <2>1, <2>2 DEF Ticks
    <3>2. \A q \in EqRow(V) : set(q).status = "completed" /\ set(q).result = <<0, Inputs(e, version[e])>>
      BY DEF EqRow
    <3> HIDE DEF set
    <3> QED
      BY <2>1, <2>2, <3>1, <3>2
  <2>3. CASE e \in L /\ Kind(e) # "control"
    <3>1. mem'[e] = [mem[e] EXCEPT !.status = "computing"] /\ row'[e] = [row[e] EXCEPT !.status = "computing"]
      BY <1>1, <2>1, <2>3 DEF Ticks
    <3> QED
      BY <2>1, <2>3, <3>1 DEF EqRow
  <2>4. CASE e \notin L
    <3>1. mem'[e] = [mem[e] EXCEPT !.status = "pending"] /\ row'[e] = [row[e] EXCEPT !.status = "pending"]
      BY <1>1, <1>3, <2>1, <2>4 DEF Ticks
    <3> QED
      BY <2>1, <3>1 DEF EqRow
  <2> QED
    BY <2>2, <2>3, <2>4
<1>7. \A e \in Eq : eval'[e] = eval[e] \/ (/\ e \in L /\ Kind(e) # "control"
                                           /\ eval'[e] = [NoEval EXCEPT !.pc = "queued", !.version = version[e]])
  BY <1>1 DEF Ticks
<1>8. ASSUME NEW e \in L, Kind(e) # "control" PROVE mem'[e].status = "computing"
  BY <1>1, <1>8 DEF Ticks, Typed, Rows, EqRow
<1>9. Working'
  <2>1. ASSUME NEW e \in Eq, eval'[e] = eval[e] PROVE ~eval'[e].old /\ (eval'[e].pc # "none" =>
                   mem'[e].status = "computing" /\ eval'[e].version = version'[e])
    BY <1>2, <1>4, <1>5, <2>1 DEF Sound, Working
  <2>2. ASSUME NEW e \in L, Kind(e) # "control",
               eval'[e] = [NoEval EXCEPT !.pc = "queued", !.version = version[e]]
        PROVE  ~eval'[e].old /\ mem'[e].status = "computing" /\ eval'[e].version = version'[e]
    BY <1>2, <1>8, <2>2 DEF NoEval
  <2> QED
    BY <1>7, <2>1, <2>2 DEF Working
<1>10. loop' = loop \/ \E c \in Eq \ L : /\ Suspends("control") /\ loop'.eq = c
                                         /\ c \in S \/ mem[c].status = "pending"
                                         /\ \A d \in Deps(c) : Settled(d)
  <2>1. CASE loop' = loop
    BY <2>1
  <2>2. CASE loop' # loop
    <3>1. PICK c \in Eq \ (L \cup InFlight) :
                /\ c \in Orphaned \/ mem[c].status = "pending"
                /\ \A d \in Deps(c) : Settled(d)
                /\ loop' = [pc |-> "control", eq |-> c, value |-> <<0, Inputs(c, version[c])>>, held |-> "graph"]
      BY <1>1, <2>2 DEF Ticks
    <3>2. Suspends("control")
      BY <1>1, <2>2 DEF Ticks
    <3>3. loop'.eq = c
      BY <3>1
    <3> QED
      BY <1>3, <3>1, <3>2, <3>3
  <2> QED
    BY <2>1, <2>2
<1>11. Looping'
  <2>1. CASE loop' = loop
    BY <1>2, <2>1 DEF Looping
  <2>2. ASSUME NEW c \in Eq \ L, Suspends("control"), loop'.eq = c, c \in S \/ mem[c].status = "pending"
        PROVE  Looping'
    BY <1>5, <1>6, <2>2 DEF Looping, Suspends
  <2> QED
    BY <1>10, <2>1, <2>2
<1>12. Solid
  <2>1. \A d \in Eq : Settled(d) => SameOutput(d)
    BY <1>4, <1>5 DEF Settled, SameOutput
  <2>2. ASSUME NEW n \in Eq, Built(n)' PROVE Built(n) \/ \A d \in Deps(n) : Settled(d)
    <3>1. n \in L => \A d \in Deps(n) : Settled(d)
      BY <1>1 DEF Ticks
    <3>2. CASE loop'.pc = "control" /\ loop'.eq = n
      BY <1>2, <1>10, <3>2
    <3>3. CASE mem'[n].status \in {"computing", "completed", "awaiting"}
      BY <1>5, <1>6, <3>1, <3>3 DEF Built
    <3> QED
      BY <2>2, <3>2, <3>3 DEF Built
  <2> QED
    BY <1>2, <2>1, <2>2, SolidLocal DEF Sound
<1>13. ASSUME NEW e \in Eq, e \in S PROVE Newly(e) /\ Alike(e, mem'[e], row'[e])
  <2>1. eval'[e].pc # "running"
    BY <1>4, <1>7, <1>13 DEF NoEval
  <2> QED
    BY <1>6, <1>13, <2>1 DEF Newly, Alike, Shown, Hitl
<1>14. /\ \A t \in Task : Pending(t)' => SameQuestion(tasks'[t], tasks[t]) /\ tasks[t].eq \notin S
       /\ \A t \in Task : tasks'[t].eq \in Eq \ S => tasks'[t].eq = tasks[t].eq
       /\ \A t \in Task : Question(t) => Pending(t)'
  BY <1>2, <1>4, TasksGoOn DEF Sound
<1> QED
  BY <1>2, <1>4, <1>5, <1>9, <1>11, <1>12, <1>13, <1>14, LocalSound DEF Shown

\* A pending control equation whose media the loop waited for completes.
LEMMA LoopSound ==
    ASSUME NEW V, Typed(V), UNCHANGED scenario, Asked, Sound, Calm, ControlDone \/ LoopEnds
    PROVE  Solid /\ Sound'
<1>1. CASE LoopEnds
  <2>1. UNCHANGED <<mem, row, eval, version, tasks, answer>> /\ loop'.pc # "control"
    BY <1>1 DEF LoopEnds, NoLoop
  <2>2. \A e \in Eq : Lets(e)
    BY <2>1 DEF Lets, Pending, Question, Hitl
  <2> QED
    BY <2>1, <2>2, SameSound
<1>2. CASE ControlDone
  <2>1. PICK e, v : e = loop.eq /\ v = loop.value
    OBVIOUS
  <2>2. /\ loop.pc = "control" /\ e \in Eq /\ Kind(e) = "control" /\ mem[e].status = "pending"
        /\ UNCHANGED <<version, eval, tasks, decided, gate, wanted, answer, spent>>
    BY <1>2, <2>1 DEF ControlDone, Sound, Looping, Typed, Loops, SensibleLoop
  <2>3. SetResult(e, v) /\ loop' = AtGate
    <3>1. Allowed(mem[e].status, "completed") /\ loop.held = "graph"
      BY <2>2, NothingReplaced DEF Allowed, Transitions, Status, Calm
    <3> QED
      BY <1>2, <2>1, <3>1, NothingReplaced DEF ControlDone, MayComplete, Calm
  <2>4. loop'.pc # "control"
    BY <2>3 DEF AtGate, NoLoop
  <2>5. /\ \A x \in Eq \ {e} : mem'[x] = mem[x] /\ row'[x] = row[x]
        /\ mem'[e].status = "completed" /\ row'[e].status = "completed"
        /\ mem'[e].result = v /\ row'[e].result = v
    <3> DEFINE set(q) == [q EXCEPT !.status = "completed", !.result = v]
    <3>1. \A x \in Eq : /\ mem'[x] = IF x = e THEN set(mem[x]) ELSE mem[x]
                        /\ row'[x] = IF x = e THEN set(row[x]) ELSE row[x]
      BY <2>3 DEF SetResult, Persist
    <3>2. \A q \in EqRow(V) : set(q).status = "completed" /\ set(q).result = v
      BY DEF EqRow
    <3> HIDE DEF set
    <3>3. mem[e] \in EqRow(V) /\ row[e] \in EqRow(V)
      BY <2>2 DEF Typed, Rows
    <3> QED
      BY <2>2, <3>1, <3>2, <3>3
  <2>6. Working' /\ Looping'
    BY <2>2, <2>4, <2>5 DEF Sound, Working, Looping
  <2>7. Solid
    <3>1. \A d \in Eq : Settled(d) => SameOutput(d)
      BY <2>2, <2>5 DEF Settled, SameOutput
    <3>2. \A n \in Eq : Built(n)' => Built(n)
      BY <2>1, <2>2, <2>4, <2>5 DEF Built
    <3> QED
      BY <2>2, <3>1, <3>2, SolidLocal DEF Sound
  <2>8. Newly(e) /\ Alike(e, mem'[e], row'[e])
    BY <2>2, <2>5 DEF Newly, Alike, Hitl, Sound, Working
  <2>9. /\ \A t \in Task : Pending(t)' => SameQuestion(tasks'[t], tasks[t]) /\ tasks[t].eq \notin {e}
        /\ \A t \in Task : tasks'[t].eq \in Eq \ {e} => tasks'[t].eq = tasks[t].eq
        /\ \A t \in Task : Question(t) => Pending(t)'
    <3>1. PICK S : S = {e}
      OBVIOUS
    <3>2. \A x \in S : mem[x].status \notin {"awaiting", "failed", "waiting"}
      BY <2>2, <3>1
    <3> QED
      BY <2>2, <3>1, <3>2, TasksGoOn DEF Sound
  <2> QED
    BY <2>2, <2>5, <2>6, <2>7, <2>8, <2>9, LocalSound DEF Shown
<1> QED
  BY <1>1, <1>2

\* Equations whose evaluation is gone, or whose failure is dealt with, are
\* pending again.
LEMMA AgainSound ==
    ASSUME NEW V, Typed(V), UNCHANGED <<scenario, version, eval, answer>>, Asked, Sound,
           NEW S \in SUBSET Eq, SetStatus(S, "pending"),
           \A e \in S : eval[e].pc = "none" /\ mem[e].status \in {"computing", "failed", "waiting"},
           loop' = loop \/ loop'.pc # "control",
           tasks' = Cancelled(S) \/ (UNCHANGED tasks /\ \A e \in S : mem[e].status = "computing")
    PROVE  Solid /\ Sound'
<1>1. /\ \A x \in Eq \ S : mem'[x] = mem[x] /\ row'[x] = row[x]
      /\ \A x \in S : mem'[x].status = "pending" /\ row'[x].status = "pending"
  <2> SUFFICES ASSUME NEW x \in Eq
               PROVE  /\ x \notin S => mem'[x] = mem[x] /\ row'[x] = row[x]
                      /\ x \in S => mem'[x].status = "pending" /\ row'[x].status = "pending"
    OBVIOUS
  <2>1. /\ mem'[x] = IF x \in S THEN [mem[x] EXCEPT !.status = "pending"] ELSE mem[x]
        /\ row'[x] = IF x \in S THEN [row[x] EXCEPT !.status = "pending"] ELSE row[x]
    BY DEF SetStatus, Persist
  <2>2. mem[x] \in EqRow(V) /\ row[x] \in EqRow(V)
    BY DEF Typed, Rows
  <2> QED
    BY <2>1, <2>2 DEF EqRow
<1>2. Working' /\ Looping'
  <2>1. Working'
    BY <1>1 DEF Sound, Working
  <2>2. loop.pc = "control" => loop.eq \in Eq
    BY DEF Typed, Loops, SensibleLoop
  <2> QED
    BY <1>1, <2>1, <2>2 DEF Sound, Looping, Suspends
<1>3. Solid
  <2>1. \A d \in Eq : Settled(d) => SameOutput(d)
    BY <1>1 DEF Settled, SameOutput
  <2>2. \A n \in Eq : Built(n)' => Built(n)
    BY <1>1 DEF Built
  <2> QED
    BY <2>1, <2>2, SolidLocal DEF Sound
<1>4. \A x \in Eq : x \in S => Newly(x) /\ Alike(x, mem'[x], row'[x])
  BY <1>1 DEF Newly, Alike, Shown, Sound, Working
<1>5. /\ \A t \in Task : Pending(t)' => SameQuestion(tasks'[t], tasks[t]) /\ tasks[t].eq \notin S
      /\ \A t \in Task : tasks'[t].eq \in Eq \ S => tasks'[t].eq = tasks[t].eq
      /\ \A t \in Task : Question(t) => Pending(t)'
  <2>1. CASE UNCHANGED tasks /\ \A e \in S : mem[e].status = "computing"
    BY <2>1, TasksGoOn DEF Sound
  <2>2. CASE tasks' = Cancelled(S)
    <3>1. \A t \in Task : tasks'[t] = IF tasks[t].eq \in S THEN NoTask ELSE tasks[t]
      BY <2>2 DEF Cancelled
    <3>2. ASSUME NEW t \in Task, Question(t) PROVE Pending(t)'
      <4>1. tasks[t].eq \in Eq /\ mem[tasks[t].eq].status = "awaiting"
        BY <3>2, Tasked DEF Sound, Question, Pending, Hitl
      <4> QED
        BY <3>1, <3>2, <4>1 DEF Question, Pending, Hitl
    <3>3. NoTask.type = "none" /\ NoTask.eq \notin Eq
      BY FlowAssumption DEF NoTask, Eq
    <3> QED
      BY <3>1, <3>2, <3>3 DEF SameQuestion, Pending
  <2> QED
    BY <2>1, <2>2
<1> QED
  BY <1>1, <1>2, <1>3, <1>4, <1>5, LocalSound DEF Shown

LEMMA StartSound ==
    ASSUME NEW V, Typed(V), UNCHANGED scenario, Asked, Sound, Read \/ Pause \/ Resume
    PROVE  Solid /\ Sound'
<1>1. /\ UNCHANGED <<version, eval, tasks, answer>>
      /\ loop' = loop \/ loop'.pc # "control"
      /\ UNCHANGED <<mem, row>> \/ SetStatus(Orphaned, "pending")
  BY Starting, Resuming DEF Read, Pause, AtGate, NoLoop
<1>2. CASE UNCHANGED <<mem, row>>
  <2>1. \A e \in Eq : Lets(e)
    BY <1>1, <1>2 DEF Lets, Pending, Question, Hitl
  <2> QED
    BY <1>1, <1>2, <2>1, SameSound
<1>3. CASE SetStatus(Orphaned, "pending")
  <2>1. PICK S : S = Orphaned
    OBVIOUS
  <2>2. S \in SUBSET Eq /\ \A e \in S : eval[e].pc = "none" /\ mem[e].status = "computing"
    BY <2>1 DEF Orphaned
  <2>3. SetStatus(S, "pending")
    BY <1>3, <2>1
  <2> QED
    BY <1>1, <2>2, <2>3, AgainSound
<1> QED
  BY <1>1, <1>2, <1>3

LEMMA AtGateLoop == EnsureActive => loop' = loop \/ loop'.pc # "control"
  BY Activating DEF AtGate, NoLoop

LEMMA AgainOne ==
    ASSUME NEW V, Typed(V), UNCHANGED <<scenario, version, eval, answer>>, Asked, Sound,
           NEW e \in Eq, SetStatus({e}, "pending"), mem[e].status \in {"failed", "waiting"},
           loop' = loop \/ loop'.pc # "control", tasks' = Cancelled({e})
    PROVE  Solid /\ Sound'
<1>1. eval[e].pc = "none"
  BY DEF Sound, Working, Typed, Evals, EvalRow
<1>2. PICK S : S = {e}
  OBVIOUS
<1>3. /\ S \in SUBSET Eq /\ SetStatus(S, "pending") /\ tasks' = Cancelled(S)
      /\ \A x \in S : eval[x].pc = "none" /\ mem[x].status \in {"computing", "failed", "waiting"}
  BY <1>1, <1>2
<1> QED
  BY <1>3, AgainSound

LEMMA ToolsSound ==
    ASSUME NEW V, Typed(V), UNCHANGED scenario, Asked, Sound, NEW e \in Eq, ToolsChanged(e)
    PROVE  Solid /\ Sound'
  BY AgainOne DEF ToolsChanged

LEMMA RetrySound ==
    ASSUME NEW V, Typed(V), UNCHANGED scenario, Asked, Sound, NEW t \in Task, Retry(t)
    PROVE  Solid /\ Sound'
<1>1. PICK e : e = tasks[t].eq
  OBVIOUS
<1>2. e \in Eq /\ mem[e].status = "failed"
  BY <1>1, Tasked DEF Retry, Sound, Pending
<1>3. /\ SetStatus({e}, "pending") /\ tasks' = Cancelled({e})
      /\ UNCHANGED <<version, eval, answer>> /\ EnsureActive
  BY <1>1, <1>2 DEF Retry
<1> QED
  BY <1>2, <1>3, AtGateLoop, AgainOne

\* A failed step is skipped alone (Calm), or what waits for a tool.
LEMMA SkipSound ==
    ASSUME NEW V, Typed(V), UNCHANGED scenario, Asked, Sound, Calm, NEW t \in Task, Skip(t)
    PROVE  Solid /\ Sound'
<1> DEFINE set(q) == [q EXCEPT !.status = "skipped", !.result = NoValue]
<1>1. PICK e, S : /\ e = tasks[t].eq
                  /\ S = {x \in (IF tasks[t].type = "error" THEN Iteration(e) ELSE {e}) :
                            mem[x].status \notin {"completed", "skipped"}}
  OBVIOUS
<1>2. /\ tasks[t].type \in {"error", "waiting_for_tool"} /\ "skip" \in scenario.events
      /\ tasks' = [Cancelled(S) EXCEPT ![t] = NoTask] /\ EnsureActive
      /\ UNCHANGED <<version, eval, answer>>
      /\ mem' = [x \in Eq |-> IF x \in S THEN set(mem[x]) ELSE mem[x]]
      /\ row' = [x \in Eq |-> IF x \in S THEN set(row[x]) ELSE row[x]]
      /\ tasks[t].type = "error" => Iteration(e) # {}
  BY <1>1 DEF Skip, Disturb, Persist
<1>3. e \in Eq /\ mem[e].status \in {"failed", "waiting"} /\ eval[e].pc = "none"
  <2>1. e \in Eq /\ mem[e].status \in {"failed", "waiting"}
    BY <1>1, <1>2, Tasked DEF Sound, Pending
  <2> QED
    BY <2>1 DEF Sound, Working
<1>4. S = {e}
  <2>1. tasks[t].type = "error" => Iteration(e) = {e}
    <3>1. Iteration(e) \subseteq {e}
      BY <1>2, <1>3 DEF Calm
    <3>2. tasks[t].type = "error" => Iteration(e) # {}
      BY <1>2
    <3> QED
      BY <3>1, <3>2
  <2> QED
    BY <1>1, <1>2, <1>3, <2>1
<1>5. /\ \A x \in Eq \ {e} : mem'[x] = mem[x] /\ row'[x] = row[x]
      /\ mem'[e].status = "skipped" /\ row'[e].status = "skipped"
      /\ mem'[e].result = NoValue /\ row'[e].result = NoValue
  <2>1. \A q \in EqRow(V) : set(q).status = "skipped" /\ set(q).result = NoValue
    BY DEF EqRow
  <2> HIDE DEF set
  <2>2. mem[e] \in EqRow(V) /\ row[e] \in EqRow(V)
    BY <1>3 DEF Typed, Rows
  <2> QED
    BY <1>2, <1>3, <1>4, <2>1, <2>2
<1>6. (loop' = loop \/ loop'.pc # "control") /\ UNCHANGED <<version, eval, answer>>
  BY <1>2, AtGateLoop
<1>7. Working' /\ Looping'
  <2>1. Working'
    BY <1>3, <1>5, <1>6 DEF Sound, Working
  <2>2. loop.pc = "control" => loop.eq \in Eq
    BY DEF Typed, Loops, SensibleLoop
  <2> QED
    BY <1>3, <1>5, <1>6, <2>1, <2>2 DEF Sound, Looping, Suspends
<1>8. Solid
  <2>1. \A d \in Eq : Settled(d) => SameOutput(d)
    BY <1>3, <1>5 DEF Settled, SameOutput
  <2>2. \A n \in Eq : Built(n)' => Built(n)
    BY <1>5, <1>6 DEF Built
  <2> QED
    BY <1>2, <2>1, <2>2, SolidLocal DEF Sound
<1>9. Newly(e) /\ Alike(e, mem'[e], row'[e])
  BY <1>2, <1>3, <1>5 DEF Newly, Alike, Shown
<1>10. /\ \A u \in Task : Pending(u)' => SameQuestion(tasks'[u], tasks[u]) /\ tasks[u].eq # e
       /\ \A u \in Task : tasks'[u].eq \in Eq \ {e} => tasks'[u].eq = tasks[u].eq
       /\ \A u \in Task : Question(u) => Pending(u)'
  <2>1. \A u \in Task : tasks'[u] = IF tasks[u].eq = e THEN NoTask ELSE tasks[u]
    BY <1>1, <1>2, <1>4 DEF Cancelled
  <2>2. ASSUME NEW u \in Task, Question(u) PROVE Pending(u)'
    <3>1. mem[tasks[u].eq].status = "awaiting"
      BY <2>2, Tasked DEF Sound, Question, Pending, Hitl
    <3> QED
      BY <1>3, <2>1, <2>2, <3>1 DEF Question, Pending, Hitl
  <2>3. NoTask.type = "none" /\ NoTask.eq \notin Eq
    BY FlowAssumption DEF NoTask, Eq
  <2> QED
    BY <2>1, <2>2, <2>3 DEF SameQuestion, Pending
<1> QED
  <2>1. PICK Z : Z = {e}
    OBVIOUS
  <2> QED
    BY <1>3, <1>5, <1>6, <1>7, <1>8, <1>9, <1>10, <2>1, LocalSound DEF Shown

\* An equation that was computing gets a task; nothing else is asked of it.
LEMMA NewTask ==
    ASSUME NEW V, Typed(V), UNCHANGED scenario, Sound, Solid, NEW e \in Eq, mem[e].status = "computing",
           \A x \in Eq \ {e} : mem'[x].status = mem[x].status,
           NEW t \in Task, Cancelled({e})[t] = NoTask, NEW task,
           tasks' = [Cancelled({e}) EXCEPT ![t] = task],
           task.eq = e, task.type # "none", mem'[e].status = Holder[task.type],
           task.type \in Hitl => task.hash = Inputs(e, version[e])'
    PROVE  /\ TasksTrue'
           /\ \A u \in Task : tasks'[u].eq \in Eq \ {e} => tasks'[u].eq = tasks[u].eq
           /\ \A u \in Task : Question(u) => Pending(u)'
<1>1. \A u \in Task : tasks[u].eq # e
  <2> SUFFICES ASSUME NEW u \in Task, tasks[u].eq = e PROVE FALSE
    OBVIOUS
  <2>1. Pending(u)
    BY FlowAssumption DEF Typed, Tasks, TaskTable, SensibleTask, Pending, NoTask, Eq
  <2> QED
    BY <2>1, Tasked DEF Sound
<1>2. \A u \in Task : Cancelled({e})[u] = tasks[u]
  BY <1>1 DEF Cancelled
<1>3. /\ tasks'[t] = task /\ tasks[t] = NoTask
      /\ \A u \in Task : u # t => tasks'[u] = tasks[u]
  BY <1>2 DEF Cancelled
<1>4. True(t)'
  <2>1. \A u \in Task : tasks'[u].eq = e => u = t
    BY <1>1, <1>3
  <2> QED
    BY <1>3, <2>1 DEF True, Question
<1>5. ASSUME NEW u \in Task, u # t, Pending(u)' PROVE True(u)'
  <2>1. Pending(u) /\ True(u) /\ tasks[u].eq \in Eq /\ tasks[u].eq # e
    BY <1>1, <1>3, <1>5, Tasked DEF Sound, TasksTrue, Pending
  <2>2. Remains(u)
    BY <1>3, <1>5, <2>1 DEF Remains, SameQuestion
  <2>3. \A w \in Task : SameQuestion(tasks'[w], tasks[w]) \/ tasks'[w].eq # tasks[u].eq
    BY <1>3, <2>1 DEF SameQuestion
  <2> QED
    BY <2>1, <2>2, <2>3, TaskRemains
<1>6. \A u \in Task : Question(u) => Pending(u)'
  BY <1>3 DEF Question, Pending, NoTask, Hitl
<1> QED
  BY <1>1, <1>3, <1>4, <1>5, <1>6 DEF TasksTrue

\* An equation that is computed comes to rest, or goes on being computed.
LEMMA ComputedSound ==
    ASSUME NEW V, Typed(V), Asked, Sound, UNCHANGED <<scenario, version, loop, answer>>,
           NEW e \in Eq, eval[e].pc # "none",
           \A x \in Eq \ {e} : mem'[x] = mem[x] /\ row'[x] = row[x] /\ eval'[x] = eval[x],
           Newly(e) /\ Alike(e, mem'[e], row'[e]),
           ~eval'[e].old, eval'[e].pc # "none" => mem'[e].status = "computing" /\ eval'[e].version = version[e],
           Solid => /\ TasksTrue'
                    /\ \A u \in Task : tasks'[u].eq \in Eq \ {e} => tasks'[u].eq = tasks[u].eq
                    /\ \A u \in Task : Question(u) => Pending(u)'
    PROVE  Solid /\ Sound'
<1>1. mem[e].status = "computing"
  BY DEF Sound, Working
<1>2. Working' /\ Looping'
  <2>1. Working'
    BY DEF Sound, Working
  <2>2. loop.pc = "control" => loop.eq \in Eq /\ loop.eq # e
    BY <1>1 DEF Typed, Loops, SensibleLoop, Sound, Looping
  <2> QED
    BY <2>1, <2>2 DEF Sound, Looping, Suspends
<1>3. Solid
  <2>1. \A d \in Eq : Settled(d) => SameOutput(d)
    BY <1>1 DEF Settled, SameOutput
  <2>2. \A n \in Eq : Built(n)' => Built(n)
    BY <1>1 DEF Built
  <2> QED
    BY <2>1, <2>2, SolidLocal DEF Sound
<1>4. PICK S : S = {e}
  OBVIOUS
<1> QED
  BY <1>1, <1>2, <1>3, <1>4, ChangeSound DEF Shown

LEMMA FailSound ==
    ASSUME NEW V, Typed(V), UNCHANGED <<scenario, version, loop, answer>>, Asked, Sound, NEW e \in Eq,
           NEW status, NEW type, <<status, type>> \in {<<"failed", "error">>, <<"waiting", "waiting_for_tool">>},
           Fail(e, status, type), Finished(e), eval[e].pc # "none"
    PROVE  Solid /\ Sound'
<1>1. mem[e].status = "computing" /\ ~eval[e].old /\ status \in {"failed", "waiting"}
  BY DEF Sound, Working
<1>2. May(e, status)
  BY <1>1 DEF May, Allowed, Transitions, Status
<1>3. /\ mem' = [mem EXCEPT ![e] = [mem[e] EXCEPT !.status = status]]
      /\ row' = [row EXCEPT ![e] = [row[e] EXCEPT !.status = status]]
      /\ \E t \in Task :
            /\ Cancelled({e})[t] = NoTask
            /\ tasks' = [Cancelled({e}) EXCEPT ![t] = [NoTask EXCEPT !.eq = e, !.type = type]]
  BY <1>1, <1>2, Failing
<1>4. /\ \A x \in Eq \ {e} : mem'[x] = mem[x] /\ row'[x] = row[x] /\ eval'[x] = eval[x]
      /\ mem'[e].status = status /\ row'[e].status = status
      /\ eval'[e] = NoEval
  BY <1>3 DEF Typed, Rows, EqRow, Evals, Finished
<1>5. Newly(e) /\ Alike(e, mem'[e], row'[e])
  BY <1>1, <1>4 DEF Newly, Alike, Shown, NoEval
<1>6. Solid => /\ TasksTrue'
               /\ \A u \in Task : tasks'[u].eq \in Eq \ {e} => tasks'[u].eq = tasks[u].eq
               /\ \A u \in Task : Question(u) => Pending(u)'
  <2>1. PICK t \in Task :
            /\ Cancelled({e})[t] = NoTask
            /\ tasks' = [Cancelled({e}) EXCEPT ![t] = [NoTask EXCEPT !.eq = e, !.type = type]]
    BY <1>3
  <2>2. PICK task : task = [NoTask EXCEPT !.eq = e, !.type = type]
    OBVIOUS
  <2>3. task.eq = e /\ task.type = type /\ type # "none" /\ type \notin Hitl /\ Holder[type] = status
    BY <2>2 DEF NoTask, Hitl, Holder
  <2>4. tasks' = [Cancelled({e}) EXCEPT ![t] = task] /\ Cancelled({e})[t] = NoTask
    BY <2>1, <2>2
  <2>5. mem'[e].status = Holder[task.type] /\ task.type # "none" /\ task.type \notin Hitl
    BY <1>4, <2>3
  <2>6. \A x \in Eq \ {e} : mem'[x].status = mem[x].status
    BY <1>4
  <2> QED
    BY <1>1, <2>3, <2>4, <2>5, <2>6, NewTask
<1> QED
  BY <1>4, <1>5, <1>6, ComputedSound DEF NoEval
\* What is computing has no task.
LEMMA Untasked ==
    ASSUME NEW V, Typed(V), TasksTrue, NEW e \in Eq, mem[e].status = "computing"
    PROVE  Cancelled({e}) = tasks
<1>1. \A u \in Task : tasks[u].eq # e
  <2> SUFFICES ASSUME NEW u \in Task, tasks[u].eq = e PROVE FALSE
    OBVIOUS
  <2>1. Pending(u)
    BY FlowAssumption DEF Typed, Tasks, TaskTable, SensibleTask, Pending, NoTask, Eq
  <2> QED
    BY <2>1, Tasked
<1> QED
  BY <1>1 DEF Cancelled, Typed, Tasks, TaskTable

LEMMA BeginSound ==
    ASSUME NEW V, Typed(V), UNCHANGED scenario, Asked, Sound, NEW e \in Eq, BeginEval(e)
    PROVE  Solid /\ Sound'
<1>1. PICK hash : hash = Inputs(e, eval[e].version)
  OBVIOUS
<1>2. /\ eval[e].pc = "queued" /\ UNCHANGED <<version, decided, state, gate, loop, wanted, answer, spent>>
      /\ \/ Misses(e)
         \/ /\ \A d \in Deps(e) : mem[d].status = "completed"
            /\ \/ \E value : Evaluates(e, hash, value) /\ RunsWith(e, hash, value)
               \/ Asks(e, hash)
  BY <1>1, Beginning
<1>3. mem[e].status = "computing" /\ ~eval[e].old /\ eval[e].version = version[e] /\ eval[e].pc # "none"
  BY <1>2 DEF Sound, Working
<1>4. hash = Inputs(e, version[e])
  BY <1>1, <1>3
<1>5. CASE Misses(e)
  <2>1. Fail(e, "failed", "error") /\ Finished(e)
    BY <1>5 DEF Misses
  <2> QED
    BY <1>2, <1>3, <2>1, FailSound
<1>6. ASSUME NEW value, RunsWith(e, hash, value), \A d \in Deps(e) : mem[d].status = "completed"
      PROVE  Solid /\ Sound'
  <2> DEFINE set(v) == [v EXCEPT !.pc = "running", !.value = value, !.hash = hash]
             sethash(q) == [q EXCEPT !.hash = hash]
  <2>1. /\ eval' = [eval EXCEPT ![e] = set(eval[e])]
        /\ mem' = [mem EXCEPT ![e] = sethash(mem[e])]
        /\ UNCHANGED <<row, tasks>>
    BY <1>3, <1>6 DEF RunsWith, Remembers
  <2>2. \A v \in EvalRow(V) : /\ set(v).pc = "running" /\ set(v).hash = hash
                              /\ set(v).old = v.old /\ set(v).version = v.version
    BY DEF EvalRow
  <2>3. \A q \in EqRow(V) : sethash(q).status = q.status
    BY DEF EqRow
  <2> HIDE DEF set, sethash
  <2>4. /\ mem \in [Eq -> EqRow(V)] /\ eval \in [Eq -> EvalRow(V)]
    BY DEF Typed, Rows, Evals
  <2>5. /\ \A x \in Eq \ {e} : mem'[x] = mem[x] /\ row'[x] = row[x] /\ eval'[x] = eval[x]
        /\ mem'[e].status = "computing" /\ eval'[e].pc = "running" /\ eval'[e].hash = hash
        /\ ~eval'[e].old /\ eval'[e].version = version[e]
    BY <1>3, <2>1, <2>2, <2>3, <2>4
  <2>6. row'[e].status = "computing"
    BY <1>3, <2>1 DEF Sound, Agree, Alike
  <2>7. Newly(e) /\ Alike(e, mem'[e], row'[e])
    BY <1>4, <1>6, <2>5, <2>6 DEF Newly, Alike, Shown
  <2>8. PICK S : S = {e}
    OBVIOUS
  <2>9. \A x \in S : mem[x].status \notin {"awaiting", "failed", "waiting"}
    BY <1>3, <2>8
  <2>10. Solid => TasksTrue'
    <3>1. ASSUME NEW t \in Task, Pending(t)' PROVE SameQuestion(tasks'[t], tasks[t]) /\ tasks[t].eq \in Eq
      BY <2>1, <3>1, Tasked DEF SameQuestion, Pending, Sound
    <3>2. \A x \in Eq : mem'[x].status = mem[x].status
      BY <1>3, <2>5
    <3>3. \A t \in Task : Pending(t)' => Remains(t)
      BY <3>1, <3>2 DEF Remains
    <3> QED
      BY <3>3, TasksKept DEF Sound
  <2>11. /\ \A u \in Task : tasks'[u].eq \in Eq \ {e} => tasks'[u].eq = tasks[u].eq
         /\ \A u \in Task : Question(u) => Pending(u)'
    BY <2>1, <2>8, <2>9, TasksGoOn DEF Sound
  <2> QED
    BY <1>2, <1>3, <2>5, <2>7, <2>10, <2>11, ComputedSound
<1>7. ASSUME Asks(e, hash), \A d \in Deps(e) : mem[d].status = "completed"
      PROVE  Solid /\ Sound'
  <2> DEFINE set(q) == [q EXCEPT !.status = "awaiting", !.hash = hash]
             task == [eq |-> e, type |-> Kind(e), hash |-> hash, known |-> TRUE]
  <2>1. May(e, "awaiting") /\ Finished(e) /\ Kind(e) \in Hitl
    BY <1>3, <1>7 DEF May, Allowed, Transitions, Status, Asks
  <2>2. /\ mem' = [mem EXCEPT ![e] = set(mem[e])]
        /\ row' = [row EXCEPT ![e] = set(row[e])]
        /\ \E t \in Task : /\ tasks[t] = NoTask /\ tasks' = [tasks EXCEPT ![t] = task]
    BY <1>3, <1>7, <2>1 DEF Asks
  <2>3. \A q \in EqRow(V) : set(q).status = "awaiting" /\ set(q).hash = hash
    BY DEF EqRow
  <2>4. task.eq = e /\ task.type = Kind(e) /\ task.hash = hash
    OBVIOUS
  <2>5. PICK k : k = task
    OBVIOUS
  <2> HIDE DEF set, task
  <2>6. /\ mem \in [Eq -> EqRow(V)] /\ row \in [Eq -> EqRow(V)] /\ eval \in [Eq -> EvalRow(V)]
    BY DEF Typed, Rows, Evals
  <2>7. /\ \A x \in Eq \ {e} : mem'[x] = mem[x] /\ row'[x] = row[x] /\ eval'[x] = eval[x]
        /\ mem'[e].status = "awaiting" /\ row'[e].status = "awaiting"
        /\ mem'[e].hash = hash /\ row'[e].hash = hash /\ eval'[e] = NoEval
    BY <2>1, <2>2, <2>3, <2>6 DEF Finished
  <2>8. Newly(e) /\ Alike(e, mem'[e], row'[e])
    BY <1>4, <1>7, <2>1, <2>7 DEF Newly, Alike, Shown, NoEval
  <2>9. ASSUME Solid
        PROVE  /\ TasksTrue'
               /\ \A u \in Task : tasks'[u].eq \in Eq \ {e} => tasks'[u].eq = tasks[u].eq
               /\ \A u \in Task : Question(u) => Pending(u)'
    <3>1. PICK t \in Task : tasks[t] = NoTask /\ tasks' = [tasks EXCEPT ![t] = k]
      BY <2>2, <2>5
    <3>2. Cancelled({e})[t] = NoTask /\ tasks' = [Cancelled({e}) EXCEPT ![t] = k]
      BY <1>3, <3>1, Untasked DEF Sound
    <3>3. k.eq = e /\ k.type = Kind(e) /\ k.type # "none" /\ mem'[e].status = Holder[k.type]
      BY <2>1, <2>4, <2>5, <2>7 DEF Hitl, Holder
    <3>4. version'[e] = version[e] /\ \A d \in Deps(e) : SameOutput(d)
      <4>1. \A d \in Deps(e) : d \in Eq \ {e}
        BY <1>3, <1>7, Graphic
      <4> QED
        BY <1>2, <2>7, <4>1 DEF SameOutput
    <3>5. k.hash = Inputs(e, version[e])'
      BY <1>4, <2>4, <2>5, <3>4, InputsStay
    <3>6. \A x \in Eq \ {e} : mem'[x].status = mem[x].status
      BY <2>7
    <3> QED
      BY <1>3, <2>9, <3>2, <3>3, <3>5, <3>6, NewTask
  <2> QED
    BY <1>2, <1>3, <2>7, <2>8, <2>9, ComputedSound DEF NoEval
<1> QED
  BY <1>2, <1>5, <1>6, <1>7

LEMMA SucceedSound ==
    ASSUME NEW V, Typed(V), UNCHANGED scenario, Asked, Sound, NEW e \in Eq, Succeed(e)
    PROVE  Solid /\ Sound'
<1> DEFINE set(q) == [q EXCEPT !.status = "completed", !.result = eval[e].value, !.hash = eval[e].hash]
<1>1. /\ mem[e].status = "computing" /\ ~eval[e].old /\ eval[e].pc = "running"
      /\ eval[e].hash = Inputs(e, version[e])
  BY DEF Succeed, Sound, Working, Founded, FoundedAt
<1>2. May(e, "completed")
  BY <1>1 DEF May, Allowed, Transitions, Status
<1>3. /\ mem' = [mem EXCEPT ![e] = set(mem[e])]
      /\ row' = [row EXCEPT ![e] = set(row[e])]
      /\ Finished(e) /\ UNCHANGED <<version, tasks, decided, state, gate, loop, wanted, answer, spent>>
  BY <1>1, <1>2 DEF Succeed, Write
<1>4. \A q \in EqRow(V) : /\ set(q).status = "completed" /\ set(q).result = eval[e].value
                          /\ set(q).hash = eval[e].hash
  BY DEF EqRow
<1> HIDE DEF set
<1>5. mem \in [Eq -> EqRow(V)] /\ row \in [Eq -> EqRow(V)] /\ eval \in [Eq -> EvalRow(V)]
  BY DEF Typed, Rows, Evals
<1>6. /\ \A x \in Eq \ {e} : mem'[x] = mem[x] /\ row'[x] = row[x] /\ eval'[x] = eval[x]
      /\ mem'[e].status = "completed" /\ row'[e].status = "completed"
      /\ mem'[e].result = row'[e].result /\ mem'[e].hash = row'[e].hash
      /\ mem'[e].hash = Inputs(e, version[e]) /\ eval'[e] = NoEval
  BY <1>1, <1>3, <1>4, <1>5 DEF Finished
<1>7. Newly(e) /\ Alike(e, mem'[e], row'[e])
  BY <1>6 DEF Newly, Alike, NoEval
<1>8. PICK S : S = {e}
  OBVIOUS
<1>9. \A x \in S : mem[x].status \notin {"awaiting", "failed", "waiting"}
  BY <1>1, <1>8
<1>10. /\ \A t \in Task : Pending(t)' => SameQuestion(tasks'[t], tasks[t]) /\ tasks[t].eq # e
       /\ \A t \in Task : tasks'[t].eq \in Eq \ {e} => tasks'[t].eq = tasks[t].eq
       /\ \A t \in Task : Question(t) => Pending(t)'
  BY <1>3, <1>8, <1>9, TasksGoOn DEF Sound
<1>11. Solid => TasksTrue'
  <2>1. ASSUME NEW t \in Task, Pending(t)' PROVE Remains(t)
    <3>1. tasks[t].eq \in Eq \ {e}
      BY <1>10, <2>1 DEF Typed, Tasks, TaskTable, SensibleTask, Pending, SameQuestion
    <3> QED
      BY <1>6, <1>10, <2>1, <3>1 DEF Remains
  <2> QED
    BY <2>1, TasksKept DEF Sound
<1> QED
  BY <1>1, <1>3, <1>6, <1>7, <1>10, <1>11, ComputedSound DEF NoEval

LEMMA EvalSound ==
    ASSUME NEW V, Typed(V), UNCHANGED scenario, Asked, Sound, NEW e \in Eq, Evaluate(e)
    PROVE  Solid /\ Sound'
<1>1. CASE BeginEval(e)
  BY <1>1, BeginSound
<1>2. CASE Succeed(e)
  BY <1>2, SucceedSound
<1>3. CASE FailEval(e)
  <2>1. /\ Fail(e, "failed", "error") /\ Finished(e) /\ eval[e].pc # "none"
        /\ UNCHANGED <<version, loop, answer>>
    BY <1>3 DEF FailEval
  <2> QED
    BY <2>1, FailSound
<1>4. CASE ExhaustEval(e)
  <2>1. /\ Fail(e, "failed", "error") /\ Finished(e) /\ eval[e].pc # "none"
        /\ UNCHANGED <<version, loop, answer>>
    BY <1>4 DEF ExhaustEval
  <2> QED
    BY <2>1, FailSound
<1>5. CASE ParkEval(e)
  <2>1. /\ Fail(e, "waiting", "waiting_for_tool") /\ Finished(e) /\ eval[e].pc # "none"
        /\ UNCHANGED <<version, loop, answer>>
    BY <1>5 DEF ParkEval
  <2> QED
    BY <2>1, FailSound
<1> QED
  BY <1>1, <1>2, <1>3, <1>4, <1>5 DEF Evaluate, Return

\* Equations of S and all that needs them start over, when nothing is waited
\* for; what is changed besides, T, keeps its status.
LEMMA OverSound ==
    ASSUME NEW V, Typed(V), Asked, Sound, UNCHANGED scenario, NEW S, NEW T,
           \A n \in Eq : \A d \in Deps(n) : d \in S \cup T => n \in S,
           loop.pc # "control", loop'.pc # "control",
           \A r \in Request : answer'[r].pc = "idle",
           \A x \in Eq : x \in S =>
               mem'[x].status = "pending" /\ row'[x].status = "pending" /\ eval'[x].pc = "none" /\ ~eval'[x].old,
           \A x \in Eq : x \notin S => /\ eval'[x] = eval[x] /\ version'[x] = version[x]
                                       /\ mem'[x].status = mem[x].status /\ mem'[x].hash = mem[x].hash
                                       /\ Alike(x, mem'[x], row'[x]),
           \A x \in Eq : x \notin S \cup T => mem'[x].result = mem[x].result,
           \A t \in Task : tasks'[t] = NoTask \/ (tasks'[t] = tasks[t] /\ tasks[t].eq \notin S)
    PROVE  Solid /\ Sound'
<1>1. Solid
  <2>1. \A x \in Eq : Built(x)' => Built(x) /\ x \notin S
    BY DEF Built
  <2> QED
    BY <2>1, SolidOver DEF Sound, SameOutput
<1>2. Founded'
  <2>1. \A x \in Eq : Goes(x) \/ Newly(x)
    BY DEF Goes, Newly, Shown
  <2> QED
    BY <1>1, <2>1, FoundedKept DEF Sound
<1>3. TasksTrue'
  <2>1. ASSUME NEW t \in Task, Pending(t)' PROVE Remains(t)
    <3>1. tasks'[t] = tasks[t] /\ tasks[t].eq \notin S
      BY <2>1 DEF Pending, NoTask
    <3>2. tasks[t].eq \in Eq
      BY <2>1, <3>1 DEF Typed, Tasks, TaskTable, SensibleTask, Pending
    <3> QED
      BY <3>1, <3>2 DEF Remains, SameQuestion
  <2> QED
    BY <1>1, <2>1, TasksKept DEF Sound
<1>4. Requests' /\ Looping'
  BY DEF Requests, Looping
<1>5. Working'
  BY DEF Sound, Working
<1>6. Agree'
  <2>1. \A x \in Eq : x \in S => Alike(x, mem'[x], row'[x])
    BY DEF Alike, Shown
  <2>2. \A x \in Eq : Alike(x, mem'[x], row'[x])
    BY <2>1
  <2> QED
    BY <2>2 DEF Agree, Alike, Kind
<1> QED
  BY <1>1, <1>2, <1>3, <1>4, <1>5, <1>6 DEF Sound

\* Where something is redone, rejected or re-picked, no await suspends.
LEMMA ResetSound ==
    ASSUME NEW V, Typed(V), Asked, Sound, UNCHANGED <<scenario, version>>, NEW S, NEW Redo, Reset(S, Redo),
           \A n \in Eq : \A d \in Deps(n) : d \in S => n \in S,
           loop.pc # "control", loop'.pc # "control",
           \A r \in Request : answer'[r].pc = "idle",
           \A t \in Task : tasks'[t] = NoTask \/ (tasks'[t] = tasks[t] /\ tasks[t].eq \notin S)
    PROVE  Solid /\ Sound'
<1> DEFINE set(x, q) == [q EXCEPT !.status = "pending", !.result = NoValue,
                                  !.attempt = mem[x].attempt + (IF x \in Redo THEN 1 ELSE 0)]
<1>1. /\ mem' = [x \in Eq |-> IF x \notin S THEN mem[x] ELSE set(x, mem[x])]
      /\ row' = [x \in Eq |-> IF x \notin S THEN row[x] ELSE set(x, row[x])]
      /\ eval' = Uncomputed(S)
  BY DEF Reset, Persist
<1>2. \A x \in Eq : \A q \in EqRow(V) : set(x, q).status = "pending"
  BY DEF EqRow
<1> HIDE DEF set
<1>3. \A x \in Eq : mem[x] \in EqRow(V) /\ row[x] \in EqRow(V)
  BY DEF Typed, Rows
<1>4. \A x \in Eq : x \in S => mem'[x].status = "pending" /\ row'[x].status = "pending"
  BY <1>1, <1>2, <1>3
<1>5. \A x \in Eq : x \notin S => mem'[x] = mem[x] /\ row'[x] = row[x] /\ eval'[x] = eval[x]
  BY <1>1 DEF Uncomputed
<1>6. \A x \in Eq : x \in S => eval'[x].pc = "none" /\ ~eval'[x].old
  BY <1>1 DEF Uncomputed, NoEval, Sound, Working
<1>7. \A x \in Eq : x \notin S => Alike(x, mem'[x], row'[x])
  BY <1>5 DEF Sound, Agree
<1>8. PICK T : T = {}
  OBVIOUS
<1>9. /\ \A n \in Eq : \A d \in Deps(n) : d \in S \cup T => n \in S
      /\ \A x \in Eq : x \notin S \cup T => mem'[x].result = mem[x].result
      /\ \A x \in Eq : x \notin S => /\ eval'[x] = eval[x] /\ version'[x] = version[x]
                                     /\ mem'[x].status = mem[x].status /\ mem'[x].hash = mem[x].hash
                                     /\ Alike(x, mem'[x], row'[x])
  BY <1>5, <1>7, <1>8
<1> QED
  BY <1>4, <1>6, <1>9, OverSound

\* What a cascade leaves out needs nothing of it.
LEMMA CascadeClosed ==
    ASSUME NEW V, Typed(V), NEW e \in Eq
    PROVE  \A n \in Eq : \A d \in Deps(n) : d \in Cascade(e) => n \in Cascade(e)
  BY Needed DEF Cascade

LEMMA InvalidateSound ==
    ASSUME NEW V, Typed(V), UNCHANGED scenario, Asked, Sound, Calm, NEW e \in Eq, Invalidate(e)
    PROVE  Solid /\ Sound'
<1>1. PICK S, Redo : S = Cascade(e) /\ Redo = {e}
  OBVIOUS
<1>2. /\ Reset(S, Redo) /\ tasks' = Cancelled(S) /\ EnsureActive /\ UNCHANGED <<version, answer>>
      /\ "invalidate" \in scenario.events
  BY <1>1 DEF Invalidate, Disturb
<1>3. loop.pc # "control" /\ \A r \in Request : answer[r].pc = "idle"
  BY <1>2, NothingWaits DEF Calm
<1>4. \A t \in Task : tasks'[t] = NoTask \/ (tasks'[t] = tasks[t] /\ tasks[t].eq \notin S)
  BY <1>2 DEF Cancelled
<1>5. loop'.pc # "control" /\ \A r \in Request : answer'[r].pc = "idle"
  BY <1>2, <1>3, AtGateLoop
<1>6. \A n \in Eq : \A d \in Deps(n) : d \in S => n \in S
  BY <1>1, CascadeClosed
<1> QED
  BY <1>2, <1>3, <1>4, <1>5, <1>6, ResetSound

LEMMA EditSound ==
    ASSUME NEW V, Typed(V), UNCHANGED scenario, Asked, Sound, Calm, NEW e \in Eq, Edit(e)
    PROVE  Solid /\ Sound'
<1> DEFINE over(x, q) == [q EXCEPT !.status = "pending", !.result = NoValue,
                                   !.attempt = IF x = e THEN 1 ELSE mem[x].attempt]
           blank(x, q) == [over(x, q) EXCEPT !.hash = NoValue]
<1>1. PICK S : S = Cascade(e)
  OBVIOUS
<1>2. /\ mem' = [x \in Eq |-> IF x \in S THEN blank(x, mem[x]) ELSE mem[x]]
      /\ row' = [x \in Eq |-> IF x \in S THEN over(x, row[x]) ELSE row[x]]
      /\ tasks' = Cancelled(S) /\ UNCHANGED <<answer, loop>>
      /\ loop.pc # "control" /\ (\A r \in Request : answer[r].pc = "idle") /\ InFlight = {}
      /\ version' = [version EXCEPT ![e] = version[e] + 1]
  BY <1>1, NothingReplaced DEF Edit, Calm, NothingHeld
<1>3. \A x \in Eq : \A q \in EqRow(V) : blank(x, q).status = "pending" /\ over(x, q).status = "pending"
  BY DEF EqRow
<1> HIDE DEF over, blank
<1>4. \A x \in Eq : mem[x] \in EqRow(V) /\ row[x] \in EqRow(V)
  BY DEF Typed, Rows
<1>5. \A x \in Eq : x \in S => mem'[x].status = "pending" /\ row'[x].status = "pending"
  BY <1>2, <1>3, <1>4
<1>6. \A x \in Eq : eval[x].pc = "none" /\ eval'[x] = eval[x] /\ ~eval[x].old
  <2>1. /\ \A x \in Eq : eval[x].pc = "none"
        /\ eval' = [x \in Eq |-> [eval[x] EXCEPT !.old = (@ \/ eval[x].pc # "none")]]
    BY <1>2 DEF Edit, InFlight
  <2>2. \A x \in Eq : ~eval[x].old
    BY DEF Sound, Working
  <2>3. \A x \in Eq : eval'[x] = [eval[x] EXCEPT !.old = FALSE]
    BY <2>1, <2>2
  <2>4. \A x \in Eq : eval[x] \in EvalRow(V)
    BY DEF Typed, Evals
  <2>5. \A x \in Eq : eval'[x] = eval[x]
    BY <2>2, <2>3, <2>4 DEF EvalRow
  <2> QED
    BY <2>1, <2>2, <2>5
<1>7. e \in S /\ \A x \in Eq : x \notin S => version'[x] = version[x]
  BY <1>1, <1>2, CascadeIn DEF Typed, Running
<1>8. \A x \in Eq : x \notin S => mem'[x] = mem[x] /\ Alike(x, mem'[x], row'[x])
  BY <1>2 DEF Sound, Agree
<1>9. PICK T : T = {}
  OBVIOUS
<1>10. \A n \in Eq : \A d \in Deps(n) : d \in S \cup T => n \in S
  BY <1>1, <1>9, CascadeClosed
<1>11. \A t \in Task : tasks'[t] = NoTask \/ (tasks'[t] = tasks[t] /\ tasks[t].eq \notin S)
  BY <1>2 DEF Cancelled
<1>12. \A x \in Eq : x \in S =>
          mem'[x].status = "pending" /\ row'[x].status = "pending" /\ eval'[x].pc = "none" /\ ~eval'[x].old
  BY <1>5, <1>6
<1>13. /\ \A x \in Eq : x \notin S \cup T => mem'[x].result = mem[x].result
       /\ \A x \in Eq : x \notin S => /\ eval'[x] = eval[x] /\ version'[x] = version[x]
                                      /\ mem'[x].status = mem[x].status /\ mem'[x].hash = mem[x].hash
                                      /\ Alike(x, mem'[x], row'[x])
  BY <1>6, <1>7, <1>8, <1>9
<1>14. loop.pc # "control" /\ loop'.pc # "control" /\ \A r \in Request : answer'[r].pc = "idle"
  BY <1>2
<1> QED
  BY <1>10, <1>11, <1>12, <1>13, <1>14, OverSound

LEMMA ReselectSound ==
    ASSUME NEW V, Typed(V), UNCHANGED scenario, Asked, Sound, Calm, NEW r \in Request, NEW e \in Eq, NEW pick,
           Reselect(r, e, pick)
    PROVE  Solid /\ Sound'
<1> DEFINE over(x, q) == [q EXCEPT !.status = "pending", !.result = NoValue, !.attempt = mem[x].attempt]
<1>1. PICK S, T, v : S = Descendants(e) /\ T = {e} /\ v = <<pick, mem[e].hash>>
  OBVIOUS
<1> DEFINE put(q) == [q EXCEPT !.result = v]
<1>2. ~Suspends("reselect") /\ mem[e].status = "completed" /\ scenario.suspends = {}
  BY DEF Reselect, Disturb, Calm, Suspends
<1>3. /\ mem' = [x \in Eq |-> IF x \in S THEN over(x, mem[x]) ELSE IF x = e THEN put(mem[x]) ELSE mem[x]]
      /\ row' = [x \in Eq |-> IF x \in S THEN over(x, row[x]) ELSE IF x = e THEN put(row[x]) ELSE row[x]]
      /\ eval' = Uncomputed(S) /\ tasks' = Cancelled(S) /\ UNCHANGED <<version, loop, answer>>
  BY <1>1, <1>2 DEF Reselect, Persist
<1>4. /\ \A x \in Eq : \A q \in EqRow(V) : over(x, q).status = "pending"
      /\ \A q \in EqRow(V) : put(q).status = q.status /\ put(q).hash = q.hash /\ put(q).result = v
  BY DEF EqRow
<1> HIDE DEF over, put
<1>5. \A x \in Eq : mem[x] \in EqRow(V) /\ row[x] \in EqRow(V)
  BY DEF Typed, Rows
<1>6. \A x \in Eq : x \in S => mem'[x].status = "pending" /\ row'[x].status = "pending"
  BY <1>3, <1>4, <1>5
<1>7. \A x \in Eq : x \notin S \cup T => mem'[x] = mem[x] /\ row'[x] = row[x]
  BY <1>1, <1>3
<1>8. \A x \in Eq : x \notin S => eval'[x] = eval[x]
  BY <1>3 DEF Uncomputed
<1>9. \A x \in Eq : x \in S => eval'[x].pc = "none" /\ ~eval'[x].old
  BY <1>3 DEF Uncomputed, NoEval, Sound, Working
<1>10. e \notin S => /\ mem'[e].status = mem[e].status /\ mem'[e].hash = mem[e].hash
                     /\ row'[e].status = row[e].status /\ row'[e].hash = row[e].hash
                     /\ mem'[e].result = v /\ row'[e].result = v
  BY <1>3, <1>4, <1>5
<1>11. \A x \in Eq : Alike(x, mem[x], row[x])
  BY DEF Sound, Agree
<1>12. \A x \in Eq : x \notin S => /\ mem'[x].status = mem[x].status /\ mem'[x].hash = mem[x].hash
                                   /\ Alike(x, mem'[x], row'[x])
  <2>1. e \notin S => Alike(e, mem'[e], row'[e])
    BY <1>10, <1>11 DEF Alike
  <2> QED
    BY <1>1, <1>7, <1>10, <1>11, <2>1
<1>13. loop.pc # "control" /\ loop'.pc # "control" /\ \A s \in Request : answer'[s].pc = "idle"
  BY <1>2, <1>3, NothingWaits
<1>14. \A n \in Eq : \A d \in Deps(n) : d \in S \cup T => n \in S
  <2>1. S \cup T = Cascade(e)
    BY <1>1 DEF Cascade
  <2> QED
    BY <1>1, <2>1, Needed
<1>15. \A t \in Task : tasks'[t] = NoTask \/ (tasks'[t] = tasks[t] /\ tasks[t].eq \notin S)
  BY <1>3 DEF Cancelled
<1>16. \A x \in Eq : x \in S =>
          mem'[x].status = "pending" /\ row'[x].status = "pending" /\ eval'[x].pc = "none" /\ ~eval'[x].old
  BY <1>6, <1>9
<1>17. /\ \A x \in Eq : x \notin S \cup T => mem'[x].result = mem[x].result
       /\ \A x \in Eq : x \notin S => /\ eval'[x] = eval[x] /\ version'[x] = version[x]
                                      /\ mem'[x].status = mem[x].status /\ mem'[x].hash = mem[x].hash
                                      /\ Alike(x, mem'[x], row'[x])
  BY <1>3, <1>7, <1>8, <1>12
<1> QED
  BY <1>13, <1>14, <1>15, <1>16, <1>17, OverSound

\* What is in memory is lost; what the rows say is read back.
LEMMA ProcessSound ==
    ASSUME NEW V, Typed(V), UNCHANGED scenario, Asked, Sound, Crash \/ Restart
    PROVE  Solid /\ Sound'
<1>1. CASE Crash
  <2>1. /\ UNCHANGED <<mem, row, version>> /\ loop'.pc = "none"
        /\ eval' = [e \in Eq |-> NoEval] /\ answer' = [r \in Request |-> NoAnswer]
        /\ tasks' = [t \in Task |-> [tasks[t] EXCEPT !.known = FALSE]]
    BY <1>1 DEF Crash, NoLoop
  <2>2. \A e \in Eq : eval'[e].pc = "none" /\ ~eval'[e].old
    BY <2>1 DEF NoEval
  <2>3. \A r \in Request : answer'[r].pc = "idle"
    BY <2>1 DEF NoAnswer
  <2>4. \A t \in Task : SameQuestion(tasks'[t], tasks[t])
    BY <2>1 DEF Typed, Tasks, TaskTable, TaskRow, SameQuestion
  <2>5. Solid
    BY <2>1, SolidLocal DEF Sound, Built, SameOutput
  <2>6. Founded'
    <3>1. \A e \in Eq : Newly(e)
      BY <2>1, <2>2 DEF Newly, Sound, Founded, FoundedAt
    <3> QED
      BY <2>5, <3>1, FoundedKept DEF Sound
  <2>7. TasksTrue'
    BY <2>1, <2>4, <2>5, TasksKept DEF Sound, Remains
  <2>8. Working' /\ Looping' /\ Requests' /\ Agree'
    BY <2>1, <2>2, <2>3 DEF Working, Looping, Requests, Agree, Alike, Kind, Sound
  <2> QED
    BY <2>5, <2>6, <2>7, <2>8 DEF Sound
<1>2. CASE Restart
  <2>1. /\ state = "down" /\ UNCHANGED <<version, eval, tasks, answer>>
        /\ loop' = loop \/ loop'.pc # "control"
    BY <1>2 DEF Restart, AtGate, NoLoop
  <2>2. /\ \A e \in Eq : eval[e].pc = "none"
        /\ \A r \in Request : answer[r].pc = "idle"
    BY <2>1 DEF Asked, Quiet, HasRun
  <2>3. ASSUME NEW e \in Eq
        PROVE  /\ Alike(e, mem'[e], row'[e])
               /\ mem[e].status \in Hydrated =>
                     /\ mem'[e].status = mem[e].status
                     /\ mem[e].status \in {"completed", "skipped"} => mem'[e].result = mem[e].result
                     /\ Kind(e) \in Hitl /\ mem[e].status \in Shown => mem'[e].hash = mem[e].hash
               /\ mem[e].status \notin Hydrated => mem'[e].status = "pending"
    <3>1. /\ mem'[e] = IF row[e].status \in Hydrated THEN row[e] ELSE NewEq
          /\ row'[e] = IF row[e].status = "computing" THEN [row[e] EXCEPT !.status = "pending"] ELSE row[e]
          /\ row[e] \in EqRow(V)
      BY <1>2 DEF Restart, Typed, Rows
    <3>2. Alike(e, mem[e], row[e])
      BY DEF Sound, Agree
    <3>3. CASE row[e].status \in Hydrated
      <4>1. mem'[e] = row[e] /\ row'[e] = row[e]
        BY <3>1, <3>3 DEF Hydrated
      <4> QED
        BY <3>2, <3>3, <4>1 DEF Alike
    <3>4. CASE row[e].status \notin Hydrated
      <4>1. mem'[e].status = "pending" /\ row'[e].status = "pending"
        BY <3>1, <3>4 DEF Hydrated, NewEq, EqRow, Status
      <4> QED
        BY <3>2, <3>4, <4>1 DEF Alike, Shown
    <3> QED
      BY <3>3, <3>4
  <2>4. Solid
    <3>1. \A d \in Eq : Settled(d) => SameOutput(d)
      BY <2>3 DEF Settled, SameOutput, Hydrated
    <3>2. \A n \in Eq : Built(n)' => Built(n)
      BY <2>1, <2>3 DEF Built, Hydrated
    <3> QED
      BY <2>1, <3>1, <3>2, SolidLocal DEF Sound
  <2>5. Founded'
    <3>1. \A e \in Eq : Newly(e)
      BY <2>1, <2>2, <2>3 DEF Newly, Sound, Founded, FoundedAt, Hydrated, Shown
    <3> QED
      BY <2>4, <3>1, FoundedKept DEF Sound
  <2>6. TasksTrue'
    <3>1. ASSUME NEW t \in Task, Pending(t)' PROVE Remains(t)
      <4>1. Pending(t)
        BY <2>1, <3>1 DEF Pending
      <4>2. tasks[t].eq \in Eq /\ mem[tasks[t].eq].status \in Hydrated
        BY <4>1, Tasked DEF Sound, Hydrated
      <4> QED
        BY <2>1, <2>3, <4>2 DEF Remains, SameQuestion
    <3> QED
      BY <2>4, <3>1, TasksKept DEF Sound
  <2>7. Working' /\ Requests'
    BY <2>1, <2>2 DEF Working, Requests, Sound
  <2>8. Looping'
    <3>1. loop.pc = "control" => loop.eq \in Eq
      BY DEF Typed, Loops, SensibleLoop
    <3> QED
      BY <2>1, <2>3, <3>1 DEF Looping, Sound, Hydrated, Suspends
  <2>9. Agree'
    BY <2>3 DEF Agree, Alike, Kind
  <2> QED
    BY <2>4, <2>5, <2>6, <2>7, <2>8, <2>9 DEF Sound
<1> QED
  BY <1>1, <1>2

\* An equation that awaits an answer is given it.
LEMMA AnsweredSound ==
    ASSUME NEW V, Typed(V), Asked, Sound, UNCHANGED <<scenario, version, eval>>, NEW e \in Eq, NEW value,
           SetResult(e, value), mem[e].status = "awaiting",
           loop' = loop \/ loop'.pc # "control",
           \A t \in Task : tasks'[t] = NoTask \/ (tasks'[t] = tasks[t] /\ (Pending(t) => tasks[t].eq # e)),
           Requests'
    PROVE  Solid /\ Sound' /\ mem'[e].status = "completed" /\ \A x \in Eq \ {e} : mem'[x] = mem[x]
<1> DEFINE set(q) == [q EXCEPT !.status = "completed", !.result = value]
<1>1. /\ mem' = [x \in Eq |-> IF x = e THEN set(mem[x]) ELSE mem[x]]
      /\ row' = [x \in Eq |-> IF x = e THEN set(row[x]) ELSE row[x]]
  BY DEF SetResult, Persist
<1>2. \A q \in EqRow(V) : set(q).status = "completed" /\ set(q).result = value /\ set(q).hash = q.hash
  BY DEF EqRow
<1> HIDE DEF set
<1>3. mem[e] \in EqRow(V) /\ row[e] \in EqRow(V)
  BY DEF Typed, Rows
<1>4. /\ \A x \in Eq \ {e} : mem'[x] = mem[x] /\ row'[x] = row[x]
      /\ mem'[e].status = "completed" /\ row'[e].status = "completed"
      /\ mem'[e].result = value /\ row'[e].result = value
      /\ mem'[e].hash = mem[e].hash /\ row'[e].hash = row[e].hash
  BY <1>1, <1>2, <1>3
<1>5. Working' /\ Looping'
  <2>1. loop.pc = "control" => loop.eq \in Eq \ {e}
    BY DEF Typed, Loops, SensibleLoop, Sound, Looping
  <2>2. Working'
    BY <1>4 DEF Sound, Working
  <2> QED
    BY <1>4, <2>1, <2>2 DEF Sound, Looping, Suspends
<1>6. Solid
  <2>1. \A d \in Eq : Settled(d) => SameOutput(d)
    BY <1>4 DEF Settled, SameOutput
  <2>2. \A n \in Eq : Built(n)' => Built(n)
    BY <1>4 DEF Built
  <2> QED
    BY <2>1, <2>2, SolidLocal DEF Sound
<1>7. Founded'
  <2>1. Newly(e)
    BY <1>4 DEF Newly, Sound, Working, Founded, FoundedAt, Shown
  <2>2. \A x \in Eq : Goes(x) \/ Newly(x)
    BY <1>4, <2>1 DEF Goes
  <2> QED
    BY <1>6, <2>2, FoundedKept DEF Sound
<1>8. Agree'
  <2>1. \A x \in Eq : Alike(x, mem'[x], row'[x])
    BY <1>4 DEF Sound, Agree, Alike, Shown
  <2> QED
    BY <2>1 DEF Agree, Alike, Kind
<1>9. TasksTrue'
  <2>1. ASSUME NEW t \in Task, Pending(t)' PROVE Remains(t)
    <3>1. tasks'[t] = tasks[t] /\ tasks[t].eq \in Eq \ {e}
      BY <2>1 DEF Pending, NoTask, Typed, Tasks, TaskTable, SensibleTask
    <3> QED
      BY <1>4, <3>1 DEF Remains, SameQuestion
  <2> QED
    BY <1>6, <2>1, TasksKept DEF Sound
<1> QED
  BY <1>4, <1>5, <1>6, <1>7, <1>8, <1>9 DEF Sound

\* The answer a to a question that is asked, or that somebody answered before.
LEMMA DecideSound ==
    ASSUME NEW V, Typed(V), UNCHANGED <<scenario, version>>, Asked, Sound, Calm, NEW r \in Request, NEW a,
           DOMAIN a = DOMAIN NoAnswer, a.eq \in Eq, a.task \in Task,
           tasks[a.task] = NoTask \/ (tasks[a.task].eq = a.eq /\ Question(a.task)),
           mem[a.eq].status = "awaiting" => Pending(a.task),
           Decide(r, a, tasks)
    PROVE  Solid /\ Sound'
<1>1. PICK e, k : e = a.eq /\ k = a.task
  OBVIOUS
<1>2. e \in Eq /\ k \in Task /\ (mem[e].status = "awaiting" => tasks[k].eq = e /\ Question(k))
  BY <1>1 DEF Pending, NoTask
\* Without the question, nothing is asked of e.
<1>3. ASSUME tasks' = [tasks EXCEPT ![k] = NoTask], mem[e].status = "awaiting"
      PROVE  /\ \A t \in Task : tasks'[t] = NoTask \/ (tasks'[t] = tasks[t] /\ (Pending(t) => tasks[t].eq # e))
             /\ \A t \in Task : tasks'[t].eq # e
  <2>1. \A t \in Task : Pending(t) /\ tasks[t].eq = e => t = k
    BY <1>2, <1>3 DEF Sound, TasksTrue, True, Question, Pending, Hitl
  <2>2. \A t \in Task : tasks[t].eq = e => Pending(t)
    BY <1>2, FlowAssumption DEF Typed, Tasks, TaskTable, SensibleTask, Pending, NoTask, Eq
  <2>3. tasks'[k] = NoTask /\ \A t \in Task \ {k} : tasks'[t] = tasks[t]
    BY <1>2, <1>3 DEF Typed, Tasks, TaskTable
  <2>4. NoTask.eq # e
    BY <1>2, FlowAssumption DEF NoTask, Eq
  <2> QED
    BY <2>1, <2>2, <2>3, <2>4
<1>4. CASE Rejects(r, a, tasks)
  <2>1. PICK S, R : S = UNION {Cascade(d) : d \in Deps(a.eq)} /\ R = Deps(a.eq)
    OBVIOUS
  <2>a. tasks' = [t \in Task |-> IF [tasks EXCEPT ![a.task] = NoTask][t].eq \in S THEN NoTask
                                 ELSE [tasks EXCEPT ![a.task] = NoTask][t]]
    BY <1>4, <2>1 DEF Rejects
  <2>b. "reject" \in scenario.events
    BY <1>4 DEF Rejects, Disturb
  <2>c. Reset(S, R) /\ answer' = [answer EXCEPT ![r] = NoAnswer] /\ EnsureActive
    BY <1>4, <2>1 DEF Rejects
  <2>2. /\ Reset(S, R) /\ answer' = [answer EXCEPT ![r] = NoAnswer] /\ EnsureActive
        /\ scenario.suspends = {}
    BY <2>b, <2>c DEF Calm
  <2>3. loop.pc # "control" /\ \A s \in Request : answer[s].pc = "idle"
    BY <2>2, NothingWaits
  <2>4. loop'.pc # "control" /\ \A s \in Request : answer'[s].pc = "idle"
    BY <2>2, <2>3, AtGateLoop DEF NoAnswer, Typed, Answers
  <2>5. \A t \in Task : tasks'[t] = NoTask \/ (tasks'[t] = tasks[t] /\ tasks[t].eq \notin S)
    BY <2>a DEF Typed, Tasks, TaskTable
  <2>6. \A n \in Eq : \A d \in Deps(n) : d \in S => n \in S
    <3> SUFFICES ASSUME NEW n \in Eq, NEW d \in Deps(n), d \in S PROVE n \in S
      OBVIOUS
    <3>1. PICK x \in Deps(e) : d \in Cascade(x)
      BY <1>1, <2>1
    <3>2. x \in Eq
      BY <1>2, Graphic
    <3>3. n \in Cascade(x)
      BY <3>1, <3>2, CascadeClosed
    <3> QED
      BY <1>1, <2>1, <3>1, <3>3
  <2> QED
    BY <2>2, <2>3, <2>4, <2>5, <2>6, ResetSound
<1>5. CASE Defers(r, a, tasks)
  <2>1. PICK v : v = Chosen(a.eq, a.pick, a.hash)
    OBVIOUS
  <2> DEFINE b == [a EXCEPT !.pc = "finalize", !.task = 0, !.value = v]
  <2>2. /\ tasks' = [tasks EXCEPT ![k] = NoTask] /\ mem[e].status = "awaiting" /\ Suspends("answer")
        /\ answer' = [answer EXCEPT ![r] = b] /\ UNCHANGED <<mem, row, eval, loop>>
    BY <1>1, <1>5, <2>1 DEF Defers, Closes
  <2>3. b.pc = "finalize" /\ b.eq = e
    BY <1>1 DEF NoAnswer
  <2> HIDE DEF b
  <2>4. /\ \A t \in Task : tasks'[t] = NoTask \/ (tasks'[t] = tasks[t] /\ (Pending(t) => tasks[t].eq # e))
        /\ \A t \in Task : tasks'[t].eq # e
    BY <1>3, <2>2
  <2>5. answer'[r] = b /\ \A s \in Request \ {r} : answer'[s] = answer[s]
    BY <2>2 DEF Typed, Answers
  <2>6. \A s \in Request \ {r} : answer[s].pc # "promote" /\ answer[s].pc # "swap"
                                 /\ (answer[s].pc = "finalize" => Sole(s))
    BY <2>2 DEF Sound, Requests, Open, Calm, Suspends
  <2>7. \A s \in Request \ {r} : answer[s].pc = "finalize" => answer[s].eq # e /\ answer[s].eq \in Eq
    BY <1>2, <2>2, <2>6 DEF Sole, Typed, Answers, SensibleAnswer
  <2>8. Requests'
    <3>1. Sole(r)'
      BY <2>2, <2>3, <2>4, <2>5, <2>7 DEF Sole, Suspends
    <3>2. ASSUME NEW s \in Request \ {r}, answer[s].pc = "finalize" PROVE Sole(s)'
      <4>1. Sole(s) /\ answer'[s] = answer[s] /\ answer[s].eq # e /\ answer[s].eq \in Eq
        BY <2>5, <2>6, <2>7, <3>2
      <4>2. \A t \in Task : tasks'[t].eq # answer[s].eq
        BY <2>4, <4>1, FlowAssumption DEF Sole, NoTask, Eq
      <4>3. \A q \in Request : answer'[q].pc = "finalize" /\ answer'[q].eq = answer'[s].eq => q = s
        BY <2>3, <2>5, <4>1 DEF Sole
      <4> QED
        BY <2>2, <4>1, <4>2, <4>3 DEF Sole, Suspends
    <3> QED
      BY <2>3, <2>5, <2>6, <3>1, <3>2 DEF Requests
  <2>9. Solid
    BY <2>2, SolidLocal DEF Sound, Built, SameOutput
  <2>10. Founded'
    BY <2>2, <2>9, FoundedKept DEF Sound, Goes
  <2>11. TasksTrue'
    <3>1. \A t \in Task : Pending(t)' => Remains(t)
      BY <2>2, <2>4 DEF Remains, SameQuestion, Pending, NoTask
    <3> QED
      BY <2>9, <3>1, TasksKept DEF Sound
  <2>12. Working' /\ Looping' /\ Agree'
    BY <2>2 DEF Sound, Working, Looping, Agree, Suspends, Alike, Kind
  <2> QED
    BY <2>8, <2>9, <2>10, <2>11, <2>12 DEF Sound
<1>6. CASE Applies(r, a, tasks)
  <2>1. PICK v : v = Chosen(a.eq, a.pick, a.hash)
    OBVIOUS
  <2>2. /\ tasks' = [tasks EXCEPT ![k] = NoTask] /\ mem[e].status = "awaiting" /\ ~Suspends("answer")
        /\ SetResult(e, v) /\ EnsureActive
        /\ answer' = [answer EXCEPT ![r] = NoAnswer] /\ UNCHANGED eval
    BY <1>1, <1>6, <2>1 DEF Applies, Closes
  <2>3. \A t \in Task : tasks'[t] = NoTask \/ (tasks'[t] = tasks[t] /\ (Pending(t) => tasks[t].eq # e))
    BY <1>3, <2>2
  <2>4. \A s \in Request : answer'[s] = answer[s] \/ answer'[s].pc = "idle"
    BY <2>2 DEF Typed, Answers, NoAnswer
  <2>5. loop' = loop \/ loop'.pc # "control"
    BY <2>2, AtGateLoop
  <2>6. mem'[e].status = "completed" /\ \A x \in Eq \ {e} : mem'[x] = mem[x]
    <3>1. mem' = [x \in Eq |-> IF x = e THEN [mem[x] EXCEPT !.status = "completed", !.result = v] ELSE mem[x]]
      BY <2>2 DEF SetResult, Persist
    <3> QED
      BY <1>2, <3>1 DEF Typed, Rows, EqRow
  <2>7. Requests'
    <3>1. \A s \in Request : answer[s].pc \notin {"finalize", "swap"} /\ (answer[s].pc = "promote" => Open(s) /\ Tied(s))
      BY <2>2 DEF Sound, Requests, Sole, Asked, AnswersAreTied
    <3>2. ASSUME NEW s \in Request, answer'[s] = answer[s], answer[s].pc = "promote" PROVE Open(s)'
      <4>1. Open(s) /\ Tied(s) /\ answer[s].eq \in Eq /\ answer[s].task \in Task
        BY <3>1, <3>2 DEF Typed, Answers, SensibleAnswer
      <4>2. CASE answer[s].eq = e
        BY <2>6, <3>2, <4>1, <4>2 DEF Open, Suspends
      <4>3. CASE answer[s].eq # e
        <5>1. mem'[answer[s].eq].status = mem[answer[s].eq].status
          BY <2>6, <4>1, <4>3
        <5>2. Pending(answer[s].task) => tasks'[answer[s].task] = tasks[answer[s].task]
          <6>1. Pending(answer[s].task) => answer[s].task # k
            BY <1>2, <2>2, <4>1, <4>3 DEF Tied, Pending, NoTask
          <6> QED
            BY <2>2, <4>1, <6>1 DEF Typed, Tasks, TaskTable
        <5> QED
          BY <3>2, <4>1, <5>1, <5>2 DEF Open, Suspends, Pending
      <4> QED
        BY <4>2, <4>3
    <3> QED
      BY <2>4, <3>1, <3>2 DEF Requests
  <2> QED
    BY <1>2, <2>2, <2>3, <2>5, <2>7, AnsweredSound
<1>7. CASE TooLate(r, a, tasks)
  <2>1. /\ tasks' = [tasks EXCEPT ![k] = NoTask] /\ mem[e].status # "awaiting" /\ EnsureActive
        /\ answer' = [answer EXCEPT ![r] = NoAnswer] /\ UNCHANGED <<mem, row, eval>>
    BY <1>1, <1>7 DEF TooLate, Closes
  <2>2. \A t \in Task : tasks'[t] = NoTask \/ SameQuestion(tasks'[t], tasks[t])
    BY <2>1 DEF Typed, Tasks, TaskTable, SameQuestion
  <2>3. \A s \in Request : answer'[s] = answer[s] \/ answer'[s].pc = "idle"
    BY <2>1 DEF Typed, Answers, NoAnswer
  <2>4. loop' = loop \/ loop'.pc # "control"
    BY <2>1, AtGateLoop
  <2>5. tasks[k] = NoTask
    <3>1. Question(k) => mem[tasks[k].eq].status = "awaiting"
      BY <1>2, Tasked DEF Sound, Question, Pending, Hitl
    <3> QED
      BY <1>1, <2>1, <3>1
  <2>6. \A x \in Eq : Lets(x)
    <3>1. \A t \in Task : tasks'[t] = tasks[t]
      BY <2>1, <2>5 DEF Typed, Tasks, TaskTable
    <3> QED
      BY <2>1, <3>1 DEF Lets, Pending, Question, Hitl
  <2>7. Solid
    BY <2>1, <2>4, SolidLocal DEF Sound, Built, SameOutput
  <2> QED
    BY <2>1, <2>2, <2>3, <2>4, <2>6, <2>7, SameSound
<1> QED
  BY <1>4, <1>5, <1>6, <1>7, Deciding

LEMMA AnswerSound ==
    ASSUME NEW V, Typed(V), UNCHANGED scenario, Asked, Sound, Calm, NEW r \in Request, NEW t \in Task, NEW pick,
           Answer(r, t, pick)
    PROVE  Solid /\ Sound'
<1>1. PICK a : a = Made(t, pick)
  OBVIOUS
<1>2. /\ DOMAIN a = DOMAIN NoAnswer /\ a.pc = "promote" /\ a.task = t /\ a.eq = tasks[t].eq
  BY <1>1 DEF Made, NoAnswer
<1>3. /\ UNCHANGED version /\ Question(t) /\ answer[r].pc = "idle"
      /\ a.eq \in Eq /\ mem[a.eq].status = "awaiting"
  BY <1>2, Answering, Tasked DEF Sound, Question, Pending, Hitl
<1>4. CASE Decide(r, a, tasks)
  <2>1. Pending(a.task) /\ tasks[a.task].eq = a.eq /\ Question(a.task) /\ a.task \in Task
    BY <1>2, <1>3 DEF Question, Pending, Hitl
  <2> QED
    BY <1>2, <1>3, <1>4, <2>1, DecideSound
<1>5. CASE /\ Suspends("promote") /\ answer' = [answer EXCEPT ![r] = a]
           /\ tasks' = [tasks EXCEPT ![t].known = FALSE]
           /\ UNCHANGED <<mem, row, eval, loop>>
  <2>1. \A u \in Task : SameQuestion(tasks'[u], tasks[u])
    BY <1>5 DEF Typed, Tasks, TaskTable, TaskRow, SameQuestion
  <2>2. answer'[r] = a /\ \A s \in Request \ {r} : answer'[s] = answer[s]
    BY <1>5 DEF Typed, Answers
  <2>3. Requests'
    <3>1. Open(r)'
      BY <1>2, <1>3, <1>5, <2>1, <2>2 DEF Open, Suspends, Pending, SameQuestion, Question, Hitl
    <3>2. ASSUME NEW s \in Request \ {r}, answer[s].pc = "promote" PROVE Open(s)'
      <4>1. Open(s) /\ answer[s].task \in Task
        BY <3>2 DEF Sound, Requests, Typed, Answers, SensibleAnswer
      <4> QED
        BY <1>5, <2>1, <2>2, <4>1 DEF Open, Suspends, Pending, SameQuestion
    <3>3. \A s \in Request \ {r} : answer[s].pc # "finalize" /\ answer[s].pc # "swap"
      BY <1>5 DEF Sound, Requests, Sole, Calm, Suspends
    <3> QED
      BY <1>2, <2>2, <3>1, <3>2, <3>3 DEF Requests
  <2>4. Solid
    BY <1>3, <1>5, SolidLocal DEF Sound, Built, SameOutput
  <2>5. Founded'
    BY <1>5, <2>4, FoundedKept DEF Sound, Goes
  <2>6. TasksTrue'
    <3>1. \A u \in Task : Pending(u)' => Remains(u)
      BY <1>5, <2>1 DEF Remains
    <3> QED
      BY <2>4, <3>1, TasksKept DEF Sound
  <2>7. Working' /\ Looping' /\ Agree'
    BY <1>3, <1>5 DEF Sound, Working, Looping, Agree, Suspends, Alike, Kind
  <2> QED
    BY <2>3, <2>4, <2>5, <2>6, <2>7 DEF Sound
<1> QED
  BY <1>1, <1>4, <1>5, Answering

LEMMA OfflineSound ==
    ASSUME NEW V, Typed(V), UNCHANGED scenario, Asked, Sound, NEW t \in Task, NEW pick, AnswerOffline(t, pick)
    PROVE  Solid /\ Sound'
<1>1. /\ tasks' = [tasks EXCEPT ![t] = NoTask] /\ state = "unstarted"
      /\ UNCHANGED <<mem, row, version, eval, loop, answer>>
  BY DEF AnswerOffline
<1>2. \A r \in Request : answer[r].pc = "idle"
  BY <1>1 DEF Asked, Quiet, HasRun
<1>3. Solid
  BY <1>1, SolidLocal DEF Sound, Built, SameOutput
<1>4. Founded'
  BY <1>1, <1>3, FoundedKept DEF Sound, Goes
<1>5. TasksTrue'
  <2>1. \A u \in Task : Pending(u)' => Remains(u)
    BY <1>1 DEF Remains, SameQuestion, Pending, NoTask, Typed, Tasks, TaskTable
  <2> QED
    BY <1>3, <2>1, TasksKept DEF Sound
<1>6. Working' /\ Looping' /\ Agree' /\ Requests'
  BY <1>1, <1>2 DEF Sound, Working, Looping, Agree, Requests, Suspends, Alike, Kind
<1> QED
  BY <1>3, <1>4, <1>5, <1>6 DEF Sound

LEMMA HandleSound ==
    ASSUME NEW V, Typed(V), UNCHANGED scenario, Asked, Sound, Calm, NEW r \in Request, Handle(r)
    PROVE  Solid /\ Sound'
<1>0. answer[r] \in AnswerRow(V) /\ SensibleAnswer(answer[r])
  BY DEF Typed, Answers
<1>1. PICK a : a = answer[r]
  OBVIOUS
<1>2. CASE Promoted(r)
  <2>1. answer[r].pc = "promote" /\ Decide(r, a, tasks) /\ UNCHANGED version
    BY <1>1, <1>2 DEF Promoted
  <2>2. /\ DOMAIN a = DOMAIN NoAnswer /\ a.eq \in Eq /\ a.task \in Task
    BY <1>0, <1>1, <2>1 DEF AnswerRow, NoAnswer, SensibleAnswer
  <2>3. /\ tasks[a.task] = NoTask \/ (tasks[a.task].eq = a.eq /\ Question(a.task))
        /\ mem[a.eq].status = "awaiting" => Pending(a.task)
    BY <1>1, <2>1 DEF Asked, AnswersAreTied, Tied, Sound, Requests, Open
  <2> QED
    BY <2>1, <2>2, <2>3, DecideSound
<1>3. CASE AnswerOwned(r)
  <2>1. PICK e, v : e = answer[r].eq /\ v = answer[r].value
    OBVIOUS
  <2>2. /\ answer[r].pc = "finalize" /\ e \in Eq /\ Sole(r) /\ mem[e].status = "awaiting"
        /\ UNCHANGED <<version, eval, tasks>> /\ answer' = [answer EXCEPT ![r] = NoAnswer]
    BY <1>0, <1>3, <2>1 DEF AnswerOwned, SensibleAnswer, Sound, Requests, Sole
  <2>3. SetResult(e, v) /\ EnsureActive
    <3>1. Allowed(mem[e].status, "completed")
      BY <2>2 DEF Allowed, Transitions
    <3> QED
      BY <1>3, <2>1, <3>1, NothingReplaced DEF Calm
  <2>4. \A t \in Task : tasks'[t] = NoTask \/ (tasks'[t] = tasks[t] /\ (Pending(t) => tasks[t].eq # e))
    BY <2>1, <2>2 DEF Sole
  <2>5. /\ answer'[r].pc = "idle"
        /\ \A s \in Request \ {r} : answer'[s] = answer[s]
    BY <2>2 DEF Typed, Answers, NoAnswer
  <2>6. \A x \in Eq \ {e} : mem'[x] = mem[x]
    BY <2>3 DEF SetResult, Persist
  <2>7. Requests'
    <3>1. \A s \in Request \ {r} : answer[s].pc # "promote" /\ answer[s].pc # "swap"
      BY <2>2 DEF Sound, Requests, Sole, Open, Calm, Suspends
    <3>2. ASSUME NEW s \in Request \ {r}, answer[s].pc = "finalize" PROVE Sole(s)'
      <4>1. Sole(s) /\ answer'[s] = answer[s] /\ answer[s].eq \in Eq \ {e}
        BY <2>1, <2>2, <2>5, <3>2 DEF Sound, Requests, Sole, Typed, Answers, SensibleAnswer
      <4>2. \A q \in Request : answer'[q].pc = "finalize" /\ answer'[q].eq = answer'[s].eq => q = s
        BY <2>5, <4>1 DEF Sole
      <4> QED
        BY <2>2, <2>6, <4>1, <4>2 DEF Sole, Suspends
    <3> QED
      BY <2>5, <3>1, <3>2 DEF Requests
  <2>8. loop' = loop \/ loop'.pc # "control"
    BY <2>3, AtGateLoop
  <2> QED
    BY <2>2, <2>3, <2>4, <2>7, <2>8, AnsweredSound
<1>4. CASE Swap(r)
  BY <1>4 DEF Swap, Sound, Requests
<1> QED
  BY <1>2, <1>3, <1>4 DEF Handle

LEMMA InitSound == Init => Sound
<1> SUFFICES ASSUME Init PROVE Sound
  OBVIOUS
<1>1. /\ \A e \in Eq : mem[e] = NewEq /\ row[e] = NewEq /\ eval[e] = NoEval
      /\ \A t \in Task : tasks[t] = NoTask
      /\ \A r \in Request : answer[r].pc = "idle"
      /\ loop.pc # "control"
  BY DEF Init, NoAnswer, AtGate, NoLoop
<1>2. NewEq.status = "pending" /\ NoEval.pc = "none" /\ ~NoEval.old /\ NoTask.type = "none"
  BY DEF NewEq, NoEval, NoTask
<1>3. Working /\ Looping /\ TasksTrue /\ Requests
  BY <1>1, <1>2 DEF Working, Looping, TasksTrue, Pending, Requests
<1>4. Founded
  BY <1>1, <1>2 DEF Founded, FoundedAt, Built, Shown
<1>5. Agree
  BY <1>1, <1>2 DEF Agree, Alike, Shown
<1> QED
  BY <1>3, <1>4, <1>5 DEF Sound

LEMMA SoundStep ==
    ASSUME NEW V, Typed(V), Asked, Sound, Calm, Next
    PROVE  Solid /\ Sound'
<1>1. UNCHANGED scenario
  BY DEF Next
<1>2. CASE Loop
  BY <1>1, <1>2, TickSound, LoopSound DEF Loop
<1>3. CASE Read \/ Pause \/ Resume \/ Crash \/ Restart
  BY <1>1, <1>3, StartSound, ProcessSound
<1>4. ASSUME NEW e \in Eq, Evaluate(e) \/ ToolsChanged(e) \/ Invalidate(e) \/ Edit(e) PROVE Solid /\ Sound'
  BY <1>1, <1>4, EvalSound, ToolsSound, InvalidateSound, EditSound
<1>5. ASSUME NEW t \in Task, OnTask(t) PROVE Solid /\ Sound'
  BY <1>1, <1>5, RetrySound, SkipSound, OfflineSound, AnswerSound DEF OnTask
<1>6. ASSUME NEW r \in Request, Handle(r) \/ \E e \in Eq, p \in Pick : Reselect(r, e, p) PROVE Solid /\ Sound'
  BY <1>1, <1>6, HandleSound, ReselectSound
<1> QED
  BY <1>2, <1>3, <1>4, <1>5, <1>6 DEF Next

\* The circumstances do not change.
LEMMA CalmStays == Calm /\ UNCHANGED scenario => Calm'
  BY DEF Calm, Iteration

LEMMA SoundKept == Types /\ Asked /\ Calm /\ Sound /\ [Next]_<<scenario, vars>> => (Calm /\ Sound)'
<1> SUFFICES ASSUME NEW V, Typed(V), Asked, Calm, Sound, [Next]_<<scenario, vars>> PROVE (Calm /\ Sound)'
  BY DEF Types
<1>1. CASE UNCHANGED <<scenario, vars>>
  BY <1>1, CalmStays DEF vars, Sound, Working, Looping, Founded, FoundedAt, Built, Agree, Alike, TasksTrue, True, Pending,
        Question, Requests, Sole, Open, Suspends, Kind, Deps, Settled, Inputs
<1>2. CASE Next
  BY <1>2, SoundStep, CalmStays DEF Next
<1> QED
  BY <1>1, <1>2

LEMMA AlwaysSound == Spec /\ Calm => []Sound
<1> QED
  BY InitSound, SoundKept, AlwaysTyped, AlwaysAsked, PTL DEF Spec

\* In calm circumstances the task list is true: each pending task is the only
\* one of its equation, is about the status the equation has, and a question
\* shows the candidates of now, whatever is failed, retried, answered, skipped,
\* redone, edited while nobody holds an equation, or restarted (the tasks that
\* resolve_task, invalidate and the evaluations insert, close and supersede).
THEOREM TasksTruth == Spec /\ Calm => []TasksAreTrue
<1>1. Types /\ Sound => TasksAreTrue
  <2> SUFFICES ASSUME NEW V, Typed(V), Sound, NEW t \in Task, Pending(t)
               PROVE  LET e == tasks[t].eq
                      IN  /\ mem[e].status = Holder[tasks[t].type]
                          /\ \A u \in Task : Pending(u) /\ tasks[u].eq = e => u = t
                          /\ Question(t) => /\ tasks[t].type = Kind(e)
                                            /\ tasks[t].hash = Inputs(e, version[e])
    BY DEF Types, TasksAreTrue
  <2>1. True(t)
    BY DEF Sound, TasksTrue
  <2>2. Question(t) => tasks[t].type = Kind(tasks[t].eq)
    BY DEF Typed, Tasks, TaskTable, SensibleTask, Question
  <2> QED
    BY <2>1, <2>2 DEF True
<1> QED
  BY <1>1, AlwaysSound, AlwaysTyped, PTL

-----------------------------------------------------------------------------
(* What is completed is current.                                            *)

\* Where the process dies, nothing is computed twice: a new process counts the
\* attempts of what is not completed from 1.
Kept == "crash" \in scenario.events => scenario.events \cap {"invalidate", "reject"} = {}
Once == "crash" \in scenario.events => \A e \in Eq : mem[e].attempt = 1 /\ row[e].attempt = 1

\* v is what e gives to the inputs of now.
Makes(e, v) ==
    /\ Kind(e) = "tool" => v = <<mem[e].attempt, Inputs(e, version[e])>>
    /\ Kind(e) = "control" => v = <<0, Inputs(e, version[e])>>
    /\ Kind(e) = "select" => \E p \in Pick : v = <<p, Inputs(e, version[e])>>
    /\ Kind(e) = "approve" => \A d \in Deps(e) : v = mem[d].result
Values ==
    /\ \A e \in Eq : mem[e].status = "completed" => Makes(e, mem[e].result)
    /\ \A e \in Eq : eval[e].pc = "running" => Makes(e, eval[e].value)
    /\ loop.pc = "control" => Makes(loop.eq, loop.value)
    /\ \A r \in Request : answer[r].pc = "finalize" => Makes(answer[r].eq, answer[r].value)

\* The values after a step were there before it, or are made by it.
Fresh ==
    /\ \A e \in Eq : Built(e)' => mem'[e].attempt = mem[e].attempt
    /\ \A e \in Eq : mem'[e].status = "completed" =>
          (mem[e].status = "completed" /\ mem'[e].result = mem[e].result) \/ Makes(e, mem'[e].result)
    /\ \A e \in Eq : eval'[e].pc = "running" =>
          (eval[e].pc = "running" /\ eval'[e].value = eval[e].value) \/ Makes(e, eval'[e].value)
    /\ loop'.pc = "control" => loop' = loop \/ Makes(loop'.eq, loop'.value)
    /\ \A r \in Request : answer'[r].pc = "finalize" =>
          answer'[r] = answer[r] \/ Makes(answer'[r].eq, answer'[r].value)

LEMMA MakesStays ==
    ASSUME UNCHANGED scenario, NEW e \in Eq, version'[e] = version[e], mem'[e].attempt = mem[e].attempt,
           \A d \in Deps(e) : SameOutput(d), NEW v, Makes(e, v)
    PROVE  Makes(e, v)'
<1>1. /\ Inputs(e, version[e])' = Inputs(e, version[e])
      /\ \A d \in Deps(e)' : d \in Deps(e) /\ mem'[d].result = mem[d].result
      /\ Kind(e)' = Kind(e)
  BY InputsStay DEF SameOutput
<1> QED
  BY <1>1 DEF Makes

LEMMA ValuesKept ==
    ASSUME UNCHANGED scenario, Solid, Sound', NEW W, Typed(W)', Values, Fresh
    PROVE  Values'
<1>1. ASSUME NEW e \in Eq, Built(e)', NEW v, Makes(e, v) PROVE Makes(e, v)'
  <2>1. version'[e] = version[e] /\ \A d \in Deps(e) : SameOutput(d)
    BY <1>1 DEF Solid
  <2>2. mem'[e].attempt = mem[e].attempt
    BY <1>1 DEF Fresh
  <2> QED
    BY <1>1, <2>1, <2>2, MakesStays
<1>2. ASSUME NEW e \in Eq, mem'[e].status = "completed" PROVE Makes(e, mem[e].result)'
  <2>1. PICK v : v = mem'[e].result
    OBVIOUS
  <2>2. Makes(e, v)
    BY <1>2, <2>1 DEF Fresh, Values
  <2>3. Built(e)'
    BY <1>2 DEF Built
  <2>4. Makes(e, v)'
    BY <1>1, <2>2, <2>3
  <2> QED
    BY <2>1, <2>4 DEF Makes
<1>3. ASSUME NEW e \in Eq, eval'[e].pc = "running" PROVE Makes(e, eval[e].value)'
  <2>1. PICK v : v = eval'[e].value
    OBVIOUS
  <2>2. Makes(e, v)
    BY <1>3, <2>1 DEF Fresh, Values
  <2>3. Built(e)'
    BY <1>3 DEF Built, Sound, Working
  <2>4. Makes(e, v)'
    BY <1>1, <2>2, <2>3
  <2> QED
    BY <2>1, <2>4 DEF Makes
<1>4. ASSUME loop'.pc = "control" PROVE Makes(loop.eq, loop.value)'
  <2>1. PICK e, v : e = loop'.eq /\ v = loop'.value
    OBVIOUS
  <2>2. Makes(e, v)
    BY <1>4, <2>1 DEF Fresh, Values
  <2>3. e \in Eq /\ Built(e)'
    BY <1>4, <2>1 DEF Built, Typed, Loops, SensibleLoop
  <2>4. Makes(e, v)'
    BY <1>1, <2>2, <2>3
  <2> QED
    BY <2>1, <2>4 DEF Makes
<1>5. ASSUME NEW r \in Request, answer'[r].pc = "finalize" PROVE Makes(answer[r].eq, answer[r].value)'
  <2>1. PICK e, v : e = answer'[r].eq /\ v = answer'[r].value
    OBVIOUS
  <2>2. Makes(e, v)
    BY <1>5, <2>1 DEF Fresh, Values
  <2>3. e \in Eq /\ Built(e)'
    BY <1>5, <2>1 DEF Built, Typed, Answers, SensibleAnswer, Sound, Requests, Sole
  <2>4. Makes(e, v)'
    BY <1>1, <2>2, <2>3
  <2> QED
    BY <2>1, <2>4 DEF Makes
<1> QED
  BY <1>2, <1>3, <1>4, <1>5 DEF Values

\* What most steps do: attempts stay, and nothing completes.
Still(e) == mem'[e].attempt = mem[e].attempt /\ row'[e].attempt = row[e].attempt
Rests(e) == mem'[e].status = "completed" => mem[e].status = "completed" /\ mem'[e].result = mem[e].result
Counting == "crash" \in scenario.events =>
    \A e \in Eq : /\ mem'[e].attempt \in {1, mem[e].attempt, row[e].attempt}
                  /\ row'[e].attempt \in {1, mem[e].attempt, row[e].attempt}

LEMMA NothingNew ==
    ASSUME \A e \in Eq : Still(e) /\ Rests(e),
           \A e \in Eq : eval'[e].pc = "running" => eval'[e] = eval[e],
           loop' = loop \/ loop'.pc # "control",
           \A r \in Request : answer'[r] = answer[r] \/ answer'[r].pc # "finalize"
    PROVE  Fresh /\ Counting
  BY DEF Fresh, Counting, Still, Rests

LEMMA StatusFresh ==
    ASSUME NEW V, Typed(V), NEW S, NEW status, SetStatus(S, status), status # "completed"
    PROVE  \A e \in Eq : Still(e) /\ Rests(e)
<1> SUFFICES ASSUME NEW e \in Eq PROVE Still(e) /\ Rests(e)
  OBVIOUS
<1>1. /\ mem' = [x \in Eq |-> IF x \in S THEN [mem[x] EXCEPT !.status = status] ELSE mem[x]]
      /\ row' = [x \in Eq |-> IF x \in S THEN [row[x] EXCEPT !.status = status] ELSE row[x]]
  BY SettingAStatus
<1>2. mem[e] \in EqRow(V) /\ row[e] \in EqRow(V)
  BY DEF Typed, Rows
<1> QED
  BY <1>1, <1>2 DEF Still, Rests, EqRow

LEMMA ResultFresh ==
    ASSUME NEW V, Typed(V), NEW e \in Eq, NEW v, SetResult(e, v)
    PROVE  /\ \A x \in Eq : Still(x)
           /\ \A x \in Eq \ {e} : Rests(x)
           /\ mem'[e].result = v
<1> DEFINE set(q) == [q EXCEPT !.status = "completed", !.result = v]
<1>1. /\ mem' = [x \in Eq |-> IF x = e THEN set(mem[x]) ELSE mem[x]]
      /\ row' = [x \in Eq |-> IF x = e THEN set(row[x]) ELSE row[x]]
  BY DEF SetResult, Persist
<1>2. \A q \in EqRow(V) : set(q).attempt = q.attempt /\ set(q).result = v
  BY DEF EqRow
<1> HIDE DEF set
<1>3. mem \in [Eq -> EqRow(V)] /\ row \in [Eq -> EqRow(V)]
  BY DEF Typed, Rows
<1> QED
  BY <1>1, <1>2, <1>3 DEF Still, Rests

\* An equation is given a value that it makes.
LEMMA ResultMade ==
    ASSUME NEW V, Typed(V), NEW e \in Eq, NEW v, SetResult(e, v), Makes(e, v), UNCHANGED eval,
           loop' = loop \/ loop'.pc # "control",
           \A r \in Request : answer'[r] = answer[r] \/ answer'[r].pc # "finalize"
    PROVE  Fresh /\ Counting
<1>1. /\ \A x \in Eq : Still(x)
      /\ \A x \in Eq \ {e} : Rests(x)
      /\ mem'[e].result = v
  BY ResultFresh
<1> QED
  BY <1>1 DEF Fresh, Counting, Still, Rests

LEMMA TickFresh ==
    ASSUME NEW V, Typed(V), Tick
    PROVE  Fresh /\ Counting
<1>1. PICK L : Ticks(L, Orphaned)
  BY Ticking
<1>2. UNCHANGED answer
  BY Ticking
<1> DEFINE set(q, v) == [q EXCEPT !.status = "completed", !.result = v]
           go(q, status) == [q EXCEPT !.status = status]
           value(e) == <<0, Inputs(e, version[e])>>
<1>3. ASSUME NEW e \in Eq
      PROVE  \/ mem'[e] = set(mem[e], value(e)) /\ row'[e] = set(row[e], value(e)) /\ Kind(e) = "control"
             \/ \E status \in {"computing", "pending"} :
                    mem'[e] = go(mem[e], status) /\ row'[e] = go(row[e], status)
             \/ mem'[e] = mem[e] /\ row'[e] = row[e]
  BY <1>1 DEF Ticks
<1>4. \A q \in EqRow(V) : \A v :
         /\ set(q, v).attempt = q.attempt /\ set(q, v).result = v
         /\ go(q, v).attempt = q.attempt /\ go(q, v).status = v
  BY DEF EqRow
<1>5. \A e \in Eq : value(e) = <<0, Inputs(e, version[e])>>
  OBVIOUS
<1> HIDE DEF set, go, value
<1>6. ASSUME NEW e \in Eq
      PROVE  Still(e) /\ (Rests(e) \/ (Kind(e) = "control" /\ mem'[e].result = value(e)))
  <2>1. mem[e] \in EqRow(V) /\ row[e] \in EqRow(V)
    BY DEF Typed, Rows
  <2> QED
    BY <1>3, <1>4, <2>1 DEF Still, Rests
<1>7. \A e \in Eq : \A v : Kind(e) = "control" /\ v = value(e) => Makes(e, v)
  BY <1>5 DEF Makes
<1>8. \A e \in Eq : eval'[e].pc = "running" => eval'[e] = eval[e]
  BY <1>1 DEF Ticks, NoEval
<1>9. loop' = loop \/ \E c \in Eq : Kind(c) = "control" /\ loop'.eq = c /\ loop'.value = <<0, Inputs(c, version[c])>>
  <2>1. CASE loop' = loop
    BY <2>1
  <2>2. CASE loop' # loop
    <3>1. PICK c \in Eq : /\ Kind(c) = "control"
                          /\ loop' = [pc |-> "control", eq |-> c, value |-> <<0, Inputs(c, version[c])>>, held |-> "graph"]
      BY <1>1, <2>2 DEF Ticks
    <3>2. loop'.eq = c /\ loop'.value = <<0, Inputs(c, version[c])>>
      BY <3>1
    <3> QED
      BY <3>1, <3>2
  <2> QED
    BY <2>1, <2>2
<1>10. loop' = loop \/ Makes(loop'.eq, loop'.value)
  BY <1>9 DEF Makes
<1> QED
  BY <1>2, <1>6, <1>7, <1>8, <1>10 DEF Fresh, Counting, Still, Rests

LEMMA LoopFresh ==
    ASSUME NEW V, Typed(V), Sound, Values, Calm, Loop
    PROVE  Fresh /\ Counting
<1>1. CASE LoopEnds
  <2>1. \A e \in Eq : Still(e) /\ Rests(e)
    BY <1>1 DEF LoopEnds, Still, Rests
  <2> QED
    BY <1>1, <2>1, NothingNew DEF LoopEnds, NoLoop
<1>2. CASE ControlDone
  <2>1. PICK e, v : e = loop.eq /\ v = loop.value
    OBVIOUS
  <2>2. /\ loop.pc = "control" /\ e \in Eq /\ mem[e].status = "pending" /\ Makes(e, v)
        /\ UNCHANGED <<eval, answer>>
    BY <1>2, <2>1 DEF ControlDone, Sound, Looping, Values, Typed, Loops, SensibleLoop
  <2>3. SetResult(e, v) /\ loop' = AtGate
    <3>1. Allowed(mem[e].status, "completed") /\ loop.held = "graph"
      BY <2>2, NothingReplaced DEF Allowed, Transitions, Status, Calm
    <3> QED
      BY <1>2, <2>1, <3>1, NothingReplaced DEF ControlDone, MayComplete, Calm
  <2> QED
    BY <2>2, <2>3, ResultMade DEF AtGate, NoLoop
<1> QED
  BY <1>1, <1>2, TickFresh DEF Loop

LEMMA StartFresh ==
    ASSUME NEW V, Typed(V), Read \/ Pause \/ Resume
    PROVE  Fresh /\ Counting
<1>1. /\ UNCHANGED <<version, eval, tasks, answer>>
      /\ loop' = loop \/ loop'.pc # "control"
      /\ UNCHANGED <<mem, row>> \/ SetStatus(Orphaned, "pending")
  BY Starting, Resuming DEF Read, Pause, AtGate, NoLoop
<1>2. \A e \in Eq : Still(e) /\ Rests(e)
  <2>1. CASE UNCHANGED <<mem, row>>
    BY <2>1 DEF Still, Rests
  <2>2. CASE SetStatus(Orphaned, "pending")
    BY <2>2, StatusFresh
  <2> QED
    BY <1>1, <2>1, <2>2
<1> QED
  BY <1>1, <1>2, NothingNew

\* What a person chose, for the candidates of now.
LEMMA ChosenMakes ==
    ASSUME NEW V, Typed(V), NEW e \in Eq, Kind(e) \in Hitl, NEW pick \in Picks(e) \ {"reject"},
           NEW hash, hash = Inputs(e, version[e]), NEW v, v = Chosen(e, pick, hash)
    PROVE  Makes(e, v)
<1>1. CASE Kind(e) = "approve"
  <2>1. PICK d \in Deps(e) : Deps(e) = {d}
    BY <1>1, Graphic
  <2>2. v = mem[d].result
    BY <1>1, <2>1 DEF Chosen
  <2> QED
    BY <1>1, <2>1, <2>2 DEF Makes
<1>2. CASE Kind(e) = "select"
  <2>1. pick \in Pick /\ v = <<pick, hash>>
    BY <1>2 DEF Picks, Chosen
  <2> QED
    BY <1>2, <2>1 DEF Makes
<1> QED
  BY <1>1, <1>2 DEF Hitl

LEMMA FailFresh ==
    ASSUME NEW V, Typed(V), NEW e \in Eq, NEW status \in {"failed", "waiting"}, NEW type,
           Fail(e, status, type), Finished(e), UNCHANGED <<loop, answer>>
    PROVE  Fresh /\ Counting
<1> DEFINE set(q) == [q EXCEPT !.status = status]
<1>1. /\ mem' \in {mem, [mem EXCEPT ![e] = set(mem[e])]}
      /\ row' \in {row, [row EXCEPT ![e] = set(row[e])]}
  BY Failing
<1>2. \A q \in EqRow(V) : set(q).attempt = q.attempt /\ set(q).status # "completed"
  BY DEF EqRow
<1> HIDE DEF set
<1>3. mem \in [Eq -> EqRow(V)] /\ row \in [Eq -> EqRow(V)]
  BY DEF Typed, Rows
<1>4. \A x \in Eq : Still(x) /\ Rests(x)
  BY <1>1, <1>2, <1>3 DEF Still, Rests
<1>5. \A x \in Eq : eval'[x].pc = "running" => eval'[x] = eval[x]
  BY DEF Finished, NoEval, Typed, Evals
<1> QED
  BY <1>4, <1>5, NothingNew

LEMMA BeginFresh ==
    ASSUME NEW V, Typed(V), Sound, NEW e \in Eq, BeginEval(e)
    PROVE  Fresh /\ Counting
<1>1. PICK hash : hash = Inputs(e, eval[e].version)
  OBVIOUS
<1>2. /\ eval[e].pc = "queued" /\ UNCHANGED <<version, decided, state, gate, loop, wanted, answer, spent>>
      /\ \/ Misses(e)
         \/ /\ \A d \in Deps(e) : mem[d].status = "completed"
            /\ \/ \E value : Evaluates(e, hash, value) /\ RunsWith(e, hash, value)
               \/ Asks(e, hash)
  BY <1>1, Beginning
<1>3. mem[e].status = "computing" /\ ~eval[e].old /\ eval[e].version = version[e]
  BY <1>2 DEF Sound, Working
<1>4. hash = Inputs(e, version[e])
  BY <1>1, <1>3
<1>5. CASE Misses(e)
  <2>1. Fail(e, "failed", "error") /\ Finished(e)
    BY <1>5 DEF Misses
  <2> QED
    BY <1>2, <2>1, FailFresh
<1>6. ASSUME NEW value, RunsWith(e, hash, value), Evaluates(e, hash, value) PROVE Fresh /\ Counting
  <2> DEFINE set(v) == [v EXCEPT !.pc = "running", !.value = value, !.hash = hash]
             sethash(q) == [q EXCEPT !.hash = hash]
  <2>1. /\ eval' = [eval EXCEPT ![e] = set(eval[e])]
        /\ mem' = [mem EXCEPT ![e] = sethash(mem[e])]
        /\ UNCHANGED row
    BY <1>3, <1>6 DEF RunsWith, Remembers
  <2>2. \A v \in EvalRow(V) : set(v).value = value
    BY DEF EvalRow
  <2>3. \A q \in EqRow(V) : sethash(q).status = q.status /\ sethash(q).attempt = q.attempt
    BY DEF EqRow
  <2> HIDE DEF set, sethash
  <2>4. /\ mem \in [Eq -> EqRow(V)] /\ eval \in [Eq -> EvalRow(V)]
    BY DEF Typed, Rows, Evals
  <2>5. /\ \A x \in Eq : Still(x) /\ Rests(x)
        /\ \A x \in Eq \ {e} : eval'[x] = eval[x]
        /\ eval'[e].value = value
    BY <1>3, <2>1, <2>2, <2>3, <2>4 DEF Still, Rests
  <2>6. Makes(e, value)
    <3>1. CASE Kind(e) = "tool" /\ value = <<mem[e].attempt, hash>>
      BY <1>4, <3>1 DEF Makes
    <3>2. ASSUME Kind(e) \in Hitl, NEW d \in Decision(e, hash), value = Chosen(e, d.pick, hash)
          PROVE  Makes(e, value)
      <4>1. PICK pick : pick = d.pick
        OBVIOUS
      <4>2. pick \in Picks(e) \ {"reject"}
        BY <3>2, <4>1 DEF Decision, Typed, Decided, SensibleDecision
      <4> QED
        BY <1>4, <3>2, <4>1, <4>2, ChosenMakes
    <3> QED
      BY <1>6, <3>1, <3>2 DEF Evaluates
  <2> QED
    BY <1>2, <2>5, <2>6 DEF Fresh, Counting, Still, Rests
<1>7. CASE Asks(e, hash)
  <2> DEFINE set(q) == [q EXCEPT !.status = "awaiting", !.hash = hash]
  <2>1. May(e, "awaiting") /\ Finished(e)
    BY <1>3, <1>7 DEF May, Allowed, Transitions, Status, Asks
  <2>2. /\ mem' = [mem EXCEPT ![e] = set(mem[e])]
        /\ row' = [row EXCEPT ![e] = set(row[e])]
    BY <1>3, <1>7, <2>1 DEF Asks
  <2>3. \A q \in EqRow(V) : set(q).status = "awaiting" /\ set(q).attempt = q.attempt
    BY DEF EqRow
  <2> HIDE DEF set
  <2>4. /\ mem \in [Eq -> EqRow(V)] /\ row \in [Eq -> EqRow(V)]
    BY DEF Typed, Rows
  <2>5. \A x \in Eq : Still(x) /\ Rests(x)
    BY <2>2, <2>3, <2>4 DEF Still, Rests
  <2>6. \A x \in Eq : eval'[x].pc = "running" => eval'[x] = eval[x]
    BY <2>1 DEF Finished, NoEval, Typed, Evals
  <2> QED
    BY <1>2, <2>5, <2>6, NothingNew
<1> QED
  BY <1>2, <1>5, <1>6, <1>7

LEMMA EvalFresh ==
    ASSUME NEW V, Typed(V), Sound, Values, NEW e \in Eq, Evaluate(e)
    PROVE  Fresh /\ Counting
<1>1. CASE BeginEval(e)
  BY <1>1, BeginFresh
<1>2. CASE Succeed(e)
  <2> DEFINE set(q) == [q EXCEPT !.status = "completed", !.result = eval[e].value, !.hash = eval[e].hash]
  <2>1. /\ mem[e].status = "computing" /\ ~eval[e].old /\ Makes(e, eval[e].value)
    BY <1>2 DEF Succeed, Sound, Working, Values
  <2>2. May(e, "completed")
    BY <2>1 DEF May, Allowed, Transitions, Status
  <2>3. /\ mem' = [mem EXCEPT ![e] = set(mem[e])]
        /\ row' = [row EXCEPT ![e] = set(row[e])]
        /\ Finished(e) /\ UNCHANGED <<loop, answer>>
    BY <1>2, <2>1, <2>2 DEF Succeed, Write
  <2>4. \A q \in EqRow(V) : set(q).result = eval[e].value /\ set(q).attempt = q.attempt
    BY DEF EqRow
  <2> HIDE DEF set
  <2>5. mem \in [Eq -> EqRow(V)] /\ row \in [Eq -> EqRow(V)]
    BY DEF Typed, Rows
  <2>6. /\ \A x \in Eq : Still(x)
        /\ \A x \in Eq \ {e} : Rests(x)
        /\ mem'[e].result = eval[e].value
    BY <2>3, <2>4, <2>5 DEF Still, Rests
  <2>7. \A x \in Eq : eval'[x].pc = "running" => eval'[x] = eval[x]
    BY <2>3 DEF Finished, NoEval, Typed, Evals
  <2>8. Makes(e, mem'[e].result)
    BY <2>1, <2>6
  <2> QED
    BY <2>3, <2>6, <2>7, <2>8 DEF Fresh, Counting, Still, Rests
<1>3. CASE FailEval(e)
  <2>1. Fail(e, "failed", "error") /\ Finished(e) /\ UNCHANGED <<loop, answer>>
    BY <1>3 DEF FailEval
  <2> QED
    BY <2>1, FailFresh
<1>4. CASE ExhaustEval(e)
  <2>1. Fail(e, "failed", "error") /\ Finished(e) /\ UNCHANGED <<loop, answer>>
    BY <1>4 DEF ExhaustEval
  <2> QED
    BY <2>1, FailFresh
<1>5. CASE ParkEval(e)
  <2>1. Fail(e, "waiting", "waiting_for_tool") /\ Finished(e) /\ UNCHANGED <<loop, answer>>
    BY <1>5 DEF ParkEval
  <2> QED
    BY <2>1, FailFresh
<1> QED
  BY <1>1, <1>2, <1>3, <1>4, <1>5 DEF Evaluate, Return

\* What starts over has no value.
LEMMA OverFresh ==
    ASSUME NEW S, loop'.pc # "control", \A r \in Request : answer'[r].pc = "idle",
           \A x \in Eq : x \in S => mem'[x].status = "pending" /\ eval'[x].pc = "none",
           \A x \in Eq : x \notin S => /\ mem'[x].attempt = mem[x].attempt /\ eval'[x] = eval[x]
                                       /\ Rests(x) \/ Makes(x, mem'[x].result)
    PROVE  Fresh
  BY DEF Fresh, Built, Rests

LEMMA ResetFresh ==
    ASSUME NEW V, Typed(V), Sound, NEW S, NEW Redo, Reset(S, Redo), "crash" \notin scenario.events,
           loop'.pc # "control", \A r \in Request : answer'[r].pc = "idle"
    PROVE  Fresh /\ Counting
<1> DEFINE set(x, q) == [q EXCEPT !.status = "pending", !.result = NoValue,
                                  !.attempt = mem[x].attempt + (IF x \in Redo THEN 1 ELSE 0)]
<1>1. mem' = [x \in Eq |-> IF x \notin S THEN mem[x] ELSE set(x, mem[x])] /\ eval' = Uncomputed(S)
  BY DEF Reset, Persist
<1>2. \A x \in Eq : \A q \in EqRow(V) : set(x, q).status = "pending"
  BY DEF EqRow
<1> HIDE DEF set
<1>3. \A x \in Eq : mem[x] \in EqRow(V)
  BY DEF Typed, Rows
<1>4. \A x \in Eq : x \in S => mem'[x].status = "pending" /\ eval'[x].pc = "none"
  BY <1>1, <1>2, <1>3 DEF Uncomputed, NoEval, Sound, Working
<1>5. \A x \in Eq : x \notin S => mem'[x] = mem[x] /\ eval'[x] = eval[x]
  BY <1>1 DEF Uncomputed
<1>6. Fresh
  BY <1>4, <1>5, OverFresh DEF Rests
<1> QED
  BY <1>6 DEF Counting

LEMMA RedoFresh ==
    ASSUME NEW V, Typed(V), Sound, Calm, Kept, NEW e \in Eq,
           ToolsChanged(e) \/ Invalidate(e) \/ Edit(e)
    PROVE  Fresh /\ Counting
<1>1. CASE ToolsChanged(e)
  <2>1. SetStatus({e}, "pending") /\ UNCHANGED <<eval, loop, answer>>
    BY <1>1 DEF ToolsChanged
  <2>2. \A x \in Eq : Still(x) /\ Rests(x)
    BY <2>1, StatusFresh
  <2> QED
    BY <2>1, <2>2, NothingNew
<1>2. CASE Invalidate(e)
  <2>1. PICK S, Redo : S = Cascade(e) /\ Redo = {e}
    OBVIOUS
  <2>2. Reset(S, Redo) /\ EnsureActive /\ UNCHANGED answer /\ "invalidate" \in scenario.events
    BY <1>2, <2>1 DEF Invalidate, Disturb
  <2>3. loop.pc # "control" /\ \A r \in Request : answer[r].pc = "idle"
    BY <2>2, NothingWaits DEF Calm
  <2>4. loop'.pc # "control" /\ \A r \in Request : answer'[r].pc = "idle"
    BY <2>2, <2>3, AtGateLoop
  <2>5. "crash" \notin scenario.events
    BY <2>2 DEF Kept
  <2> QED
    BY <2>2, <2>4, <2>5, ResetFresh
<1>3. CASE Edit(e)
  <2> DEFINE over(x, q) == [q EXCEPT !.status = "pending", !.result = NoValue,
                                     !.attempt = IF x = e THEN 1 ELSE mem[x].attempt]
             blank(x, q) == [over(x, q) EXCEPT !.hash = NoValue]
  <2>1. PICK S : S = Cascade(e)
    OBVIOUS
  <2>2. /\ mem' = [x \in Eq |-> IF x \in S THEN blank(x, mem[x]) ELSE mem[x]]
        /\ row' = [x \in Eq |-> IF x \in S THEN over(x, row[x]) ELSE row[x]]
        /\ UNCHANGED <<answer, loop>>
        /\ loop.pc # "control" /\ (\A r \in Request : answer[r].pc = "idle") /\ InFlight = {}
    BY <1>3, <2>1, NothingReplaced DEF Edit, Calm, NothingHeld
  <2>3. \A x \in Eq : \A q \in EqRow(V) : /\ blank(x, q).status = "pending"
                                          /\ blank(x, q).attempt \in {1, mem[x].attempt}
                                          /\ over(x, q).attempt \in {1, mem[x].attempt}
    BY DEF EqRow
  <2> HIDE DEF over, blank
  <2>4. \A x \in Eq : mem[x] \in EqRow(V) /\ row[x] \in EqRow(V)
    BY DEF Typed, Rows
  <2>5. \A x \in Eq : eval[x].pc = "none" /\ (eval'[x].pc = "none") /\ ~eval[x].old
    <3>1. /\ \A x \in Eq : eval[x].pc = "none"
          /\ eval' = [x \in Eq |-> [eval[x] EXCEPT !.old = (@ \/ eval[x].pc # "none")]]
      BY <1>3, <2>2 DEF Edit, InFlight
    <3>2. \A x \in Eq : eval'[x].pc = eval[x].pc
      BY <3>1 DEF Typed, Evals, EvalRow
    <3> QED
      BY <3>1, <3>2 DEF Sound, Working
  <2>6. \A x \in Eq : /\ mem'[x].attempt \in {1, mem[x].attempt, row[x].attempt}
                      /\ row'[x].attempt \in {1, mem[x].attempt, row[x].attempt}
                      /\ mem'[x].status # "pending" => mem'[x] = mem[x]
                      /\ x \notin S => mem'[x] = mem[x]
    BY <2>2, <2>3, <2>4
  <2>7. Fresh
    <3>1. \A x \in Eq : Built(x)' => mem'[x] = mem[x]
      BY <2>2, <2>6 DEF Built
    <3> QED
      BY <2>2, <2>5, <2>6, <3>1 DEF Fresh
  <2> QED
    BY <2>6, <2>7 DEF Counting
<1> QED
  BY <1>1, <1>2, <1>3

LEMMA TaskFresh ==
    ASSUME NEW V, Typed(V), Sound, NEW t \in Task,
           Retry(t) \/ Skip(t) \/ \E pick : AnswerOffline(t, pick)
    PROVE  Fresh /\ Counting
<1>1. UNCHANGED <<eval, answer>> /\ (loop' = loop \/ loop'.pc # "control")
  BY AtGateLoop DEF Retry, Skip, AnswerOffline
<1>2. CASE Retry(t)
  <2>1. UNCHANGED <<mem, row>> \/ SetStatus({tasks[t].eq}, "pending")
    BY <1>2 DEF Retry
  <2>2. \A x \in Eq : Still(x) /\ Rests(x)
    BY <2>1, StatusFresh DEF Still, Rests
  <2> QED
    BY <1>1, <2>2, NothingNew
<1>3. CASE Skip(t)
  <2> DEFINE set(q) == [q EXCEPT !.status = "skipped", !.result = NoValue]
  <2>1. PICK S : S = {x \in (IF tasks[t].type = "error" THEN Iteration(tasks[t].eq) ELSE {tasks[t].eq}) :
                        mem[x].status \notin {"completed", "skipped"}}
    OBVIOUS
  <2>2. /\ mem' = [x \in Eq |-> IF x \in S THEN set(mem[x]) ELSE mem[x]]
        /\ row' = [x \in Eq |-> IF x \in S THEN set(row[x]) ELSE row[x]]
    BY <1>3, <2>1 DEF Skip, Persist
  <2>3. \A q \in EqRow(V) : set(q).status = "skipped" /\ set(q).attempt = q.attempt
    BY DEF EqRow
  <2> HIDE DEF set
  <2>4. \A x \in Eq : Still(x) /\ Rests(x)
    BY <2>2, <2>3 DEF Still, Rests, Typed, Rows
  <2> QED
    BY <1>1, <2>4, NothingNew
<1>4. ASSUME NEW pick, AnswerOffline(t, pick) PROVE Fresh /\ Counting
  <2>1. \A x \in Eq : Still(x) /\ Rests(x)
    BY <1>4 DEF AnswerOffline, Still, Rests
  <2> QED
    BY <1>1, <2>1, NothingNew
<1> QED
  BY <1>2, <1>3, <1>4

LEMMA ProcessFresh ==
    ASSUME NEW V, Typed(V), Asked, Sound, Once, Crash \/ Restart
    PROVE  Fresh /\ Counting
<1>1. CASE Crash
  <2>1. \A x \in Eq : Still(x) /\ Rests(x)
    BY <1>1 DEF Crash, Still, Rests
  <2>2. /\ \A x \in Eq : eval'[x].pc # "running"
        /\ loop'.pc # "control" /\ \A r \in Request : answer'[r].pc # "finalize"
    BY <1>1 DEF Crash, NoEval, NoLoop, NoAnswer
  <2> QED
    BY <2>1, <2>2, NothingNew
<1>2. CASE Restart
  <2>1. /\ state = "down" /\ UNCHANGED <<eval, answer>> /\ (loop' = loop \/ loop'.pc # "control")
    BY <1>2 DEF Restart, AtGate, NoLoop
  <2>2. "crash" \in scenario.events
    BY <2>1 DEF Asked, Quiet
  <2>3. ASSUME NEW x \in Eq PROVE Still(x) /\ Rests(x)
    <3>1. /\ mem'[x] = IF row[x].status \in Hydrated THEN row[x] ELSE NewEq
          /\ row'[x] = IF row[x].status = "computing" THEN [row[x] EXCEPT !.status = "pending"] ELSE row[x]
          /\ row[x] \in EqRow(V)
      BY <1>2 DEF Restart, Typed, Rows
    <3>2. mem[x].attempt = 1 /\ row[x].attempt = 1
      BY <2>2 DEF Once
    <3>3. row'[x].attempt = 1 /\ mem'[x].attempt = 1
      BY <3>1, <3>2 DEF NewEq, EqRow
    <3>4. mem'[x].status = "completed" => row[x].status = "completed" /\ mem'[x] = row[x]
      BY <3>1 DEF NewEq
    <3>5. Rests(x)
      BY <3>4 DEF Rests, Sound, Agree, Alike
    <3> QED
      BY <3>2, <3>3, <3>5 DEF Still
  <2> QED
    BY <2>1, <2>3, NothingNew
<1> QED
  BY <1>1, <1>2

\* The answer a to a question shows the candidates of now, if it is awaited.
LEMMA DecideFresh ==
    ASSUME NEW V, Typed(V), Sound, Calm, Kept, NEW r \in Request, NEW a,
           DOMAIN a = DOMAIN NoAnswer, a.eq \in Eq, a.pick \in Picks(a.eq), Kind(a.eq) \in Hitl,
           a.pc # "finalize",
           mem[a.eq].status = "awaiting" => a.hash = Inputs(a.eq, version[a.eq]),
           Decide(r, a, tasks)
    PROVE  Fresh /\ Counting
<1>1. PICK e, v : e = a.eq /\ v = Chosen(a.eq, a.pick, a.hash)
  OBVIOUS
<1>2. ASSUME a.pick # "reject", mem[e].status = "awaiting" PROVE Makes(e, v)
  <2>1. PICK pick, hash : pick = a.pick /\ hash = a.hash
    OBVIOUS
  <2>2. /\ pick \in Picks(e) \ {"reject"} /\ hash = Inputs(e, version[e]) /\ v = Chosen(e, pick, hash)
        /\ e \in Eq /\ Kind(e) \in Hitl
    BY <1>1, <1>2, <2>1
  <2> QED
    BY <2>2, ChosenMakes
<1>3. \A s \in Request : s # r /\ (\E b : answer' = [answer EXCEPT ![r] = b]) => answer'[s] = answer[s]
  BY DEF Typed, Answers
<1>4. CASE Rejects(r, a, tasks)
  <2>1. PICK S, R : S = UNION {Cascade(d) : d \in Deps(a.eq)} /\ R = Deps(a.eq)
    OBVIOUS
  <2>2. /\ "reject" \in scenario.events /\ Reset(S, R) /\ EnsureActive
        /\ answer' = [answer EXCEPT ![r] = NoAnswer]
    BY <1>4, <2>1 DEF Rejects, Disturb
  <2>3. loop.pc # "control" /\ \A s \in Request : answer[s].pc = "idle"
    BY <2>2, NothingWaits DEF Calm
  <2>4. loop'.pc # "control" /\ \A s \in Request : answer'[s].pc = "idle"
    BY <2>2, <2>3, AtGateLoop DEF NoAnswer, Typed, Answers
  <2>5. "crash" \notin scenario.events
    BY <2>2 DEF Kept
  <2> QED
    BY <2>2, <2>4, <2>5, ResetFresh
<1>5. CASE Defers(r, a, tasks)
  <2> DEFINE b == [a EXCEPT !.pc = "finalize", !.task = 0, !.value = v]
  <2>1. /\ a.pick # "reject" /\ mem[e].status = "awaiting"
        /\ answer' = [answer EXCEPT ![r] = b] /\ UNCHANGED <<mem, row, eval, loop>>
    BY <1>1, <1>5 DEF Defers, Closes
  <2>2. b.eq = e /\ b.value = v
    BY <1>1 DEF NoAnswer
  <2> HIDE DEF b
  <2>3. answer'[r] = b /\ \A s \in Request \ {r} : answer'[s] = answer[s]
    BY <2>1 DEF Typed, Answers
  <2>4. Makes(answer'[r].eq, answer'[r].value)
    BY <1>2, <2>1, <2>2, <2>3
  <2>5. \A x \in Eq : Still(x) /\ Rests(x)
    BY <2>1 DEF Still, Rests
  <2> QED
    BY <2>1, <2>3, <2>4, <2>5 DEF Fresh, Counting, Still, Rests
<1>6. CASE Applies(r, a, tasks)
  <2>1. /\ SetResult(e, v) /\ a.pick # "reject" /\ mem[e].status = "awaiting" /\ EnsureActive
        /\ answer' = [answer EXCEPT ![r] = NoAnswer] /\ UNCHANGED eval
    BY <1>1, <1>6 DEF Applies, Closes
  <2>2. Makes(e, v) /\ e \in Eq
    BY <1>1, <1>2, <2>1
  <2>3. \A s \in Request : answer'[s] = answer[s] \/ answer'[s].pc # "finalize"
    BY <2>1 DEF Typed, Answers, NoAnswer
  <2>4. loop' = loop \/ loop'.pc # "control"
    BY <2>1, AtGateLoop
  <2> QED
    BY <2>1, <2>2, <2>3, <2>4, ResultMade
<1>7. CASE TooLate(r, a, tasks)
  <2>1. /\ EnsureActive /\ answer' = [answer EXCEPT ![r] = NoAnswer] /\ UNCHANGED <<mem, row, eval>>
    BY <1>7 DEF TooLate, Closes
  <2>2. \A s \in Request : answer'[s] = answer[s] \/ answer'[s].pc # "finalize"
    BY <2>1 DEF Typed, Answers, NoAnswer
  <2>3. loop' = loop \/ loop'.pc # "control"
    BY <2>1, AtGateLoop
  <2>4. \A x \in Eq : Still(x) /\ Rests(x)
    BY <2>1 DEF Still, Rests
  <2> QED
    BY <2>1, <2>2, <2>3, <2>4, NothingNew
<1> QED
  BY <1>4, <1>5, <1>6, <1>7, Deciding

LEMMA AnswerFresh ==
    ASSUME NEW V, Typed(V), Sound, Calm, Kept, NEW r \in Request, NEW t \in Task, NEW pick,
           Answer(r, t, pick)
    PROVE  Fresh /\ Counting
<1>1. PICK a : a = Made(t, pick)
  OBVIOUS
<1>2. /\ DOMAIN a = DOMAIN NoAnswer /\ a.pc = "promote" /\ a.eq = tasks[t].eq /\ a.pick = pick
      /\ a.hash = tasks[t].hash
  BY <1>1 DEF Made, NoAnswer
<1>3. Question(t) /\ pick \in Picks(a.eq)
  BY <1>2, Answering
<1>4. True(t)
  BY <1>3 DEF Sound, TasksTrue, Question, Pending, Hitl
<1>5. a.eq \in Eq /\ Kind(a.eq) \in Hitl
  BY <1>2, <1>3 DEF Typed, Tasks, TaskTable, SensibleTask, Question, Hitl
<1>6. CASE Decide(r, a, tasks)
  <2>1. a.hash = Inputs(a.eq, version[a.eq])
    BY <1>2, <1>3, <1>4 DEF True
  <2> QED
    BY <1>2, <1>3, <1>5, <1>6, <2>1, DecideFresh
<1>7. CASE answer' = [answer EXCEPT ![r] = a] /\ UNCHANGED <<mem, row, eval, loop>>
  <2>1. \A s \in Request : answer'[s] = answer[s] \/ answer'[s].pc # "finalize"
    BY <1>2, <1>7 DEF Typed, Answers
  <2>2. \A x \in Eq : Still(x) /\ Rests(x)
    BY <1>7 DEF Still, Rests
  <2> QED
    BY <1>7, <2>1, <2>2, NothingNew
<1> QED
  BY <1>1, <1>6, <1>7, Answering

LEMMA HandleFresh ==
    ASSUME NEW V, Typed(V), Asked, Sound, Values, Calm, Kept, NEW r \in Request, Handle(r)
    PROVE  Fresh /\ Counting
<1>0. answer[r] \in AnswerRow(V) /\ SensibleAnswer(answer[r])
  BY DEF Typed, Answers
<1>1. PICK a : a = answer[r]
  OBVIOUS
<1>2. CASE Promoted(r)
  <2>1. answer[r].pc = "promote" /\ Decide(r, a, tasks)
    BY <1>1, <1>2 DEF Promoted
  <2>2. /\ DOMAIN a = DOMAIN NoAnswer /\ a.eq \in Eq /\ a.task \in Task
        /\ Kind(a.eq) \in Hitl /\ a.pick \in Picks(a.eq) /\ a.pc # "finalize"
    BY <1>0, <1>1, <2>1 DEF AnswerRow, NoAnswer, SensibleAnswer
  <2>3. ASSUME mem[a.eq].status = "awaiting" PROVE a.hash = Inputs(a.eq, version[a.eq])
    <3>1. Tied(r) /\ Open(r)
      BY <2>1 DEF Asked, AnswersAreTied, Sound, Requests
    <3>2. Pending(a.task)
      BY <1>1, <2>3, <3>1 DEF Open
    <3>3. tasks[a.task].eq = a.eq /\ Question(a.task) /\ tasks[a.task].hash = a.hash
      BY <1>1, <3>1, <3>2 DEF Tied, Pending, NoTask
    <3>4. True(a.task)
      BY <2>2, <3>2 DEF Sound, TasksTrue
    <3> QED
      BY <3>3, <3>4 DEF True
  <2> QED
    BY <2>1, <2>2, <2>3, DecideFresh
<1>3. CASE AnswerOwned(r)
  <2>1. PICK e, v : e = answer[r].eq /\ v = answer[r].value
    OBVIOUS
  <2>2. /\ e \in Eq /\ mem[e].status = "awaiting" /\ Makes(e, v)
        /\ UNCHANGED eval /\ answer' = [answer EXCEPT ![r] = NoAnswer]
    BY <1>0, <1>3, <2>1 DEF AnswerOwned, SensibleAnswer, Sound, Requests, Sole, Values
  <2>3. SetResult(e, v) /\ EnsureActive
    <3>1. Allowed(mem[e].status, "completed")
      BY <2>2 DEF Allowed, Transitions
    <3> QED
      BY <1>3, <2>1, <3>1, NothingReplaced DEF Calm
  <2>4. \A s \in Request : answer'[s] = answer[s] \/ answer'[s].pc # "finalize"
    BY <2>2 DEF Typed, Answers, NoAnswer
  <2>5. loop' = loop \/ loop'.pc # "control"
    BY <2>3, AtGateLoop
  <2> QED
    BY <2>2, <2>3, <2>4, <2>5, ResultMade
<1>4. CASE Swap(r)
  BY <1>4 DEF Swap, Sound, Requests
<1> QED
  BY <1>2, <1>3, <1>4 DEF Handle

LEMMA ReselectFresh ==
    ASSUME NEW V, Typed(V), Sound, Calm, NEW r \in Request, NEW e \in Eq, NEW pick \in Pick,
           Reselect(r, e, pick)
    PROVE  Fresh /\ Counting
<1> DEFINE over(x, q) == [q EXCEPT !.status = "pending", !.result = NoValue, !.attempt = mem[x].attempt]
<1>1. PICK S, v : S = Descendants(e) /\ v = <<pick, mem[e].hash>>
  OBVIOUS
<1> DEFINE put(q) == [q EXCEPT !.result = v]
<1>2. /\ ~Suspends("reselect") /\ mem[e].status = "completed" /\ scenario.suspends = {}
      /\ Kind(e) = "select"
  BY DEF Reselect, Disturb, Calm, Suspends
<1>3. /\ mem' = [x \in Eq |-> IF x \in S THEN over(x, mem[x]) ELSE IF x = e THEN put(mem[x]) ELSE mem[x]]
      /\ row' = [x \in Eq |-> IF x \in S THEN over(x, row[x]) ELSE IF x = e THEN put(row[x]) ELSE row[x]]
      /\ eval' = Uncomputed(S) /\ UNCHANGED <<loop, answer>>
  BY <1>1, <1>2 DEF Reselect, Persist
<1>4. /\ \A x \in Eq : \A q \in EqRow(V) : over(x, q).status = "pending" /\ over(x, q).attempt = mem[x].attempt
      /\ \A q \in EqRow(V) : put(q).attempt = q.attempt /\ put(q).result = v
  BY DEF EqRow
<1> HIDE DEF over, put
<1>5. \A x \in Eq : mem[x] \in EqRow(V) /\ row[x] \in EqRow(V)
  BY DEF Typed, Rows
<1>6. Makes(e, v)
  <2>1. mem[e].hash = Inputs(e, version[e])
    BY <1>2 DEF Sound, Founded, FoundedAt, Shown, Hitl
  <2> QED
    BY <1>1, <1>2, <2>1 DEF Makes
<1>7. \A x \in Eq : x \in S => mem'[x].status = "pending" /\ eval'[x].pc = "none"
  BY <1>3, <1>4, <1>5 DEF Uncomputed, NoEval, Sound, Working
<1>8. \A x \in Eq : mem'[x].attempt = mem[x].attempt /\ row'[x].attempt \in {mem[x].attempt, row[x].attempt}
  BY <1>3, <1>4, <1>5
<1>9. \A x \in Eq : x \notin S => eval'[x] = eval[x] /\ (mem'[x] = mem[x] \/ (x = e /\ mem'[x].result = v))
  BY <1>3, <1>4, <1>5 DEF Uncomputed
<1>10. loop'.pc # "control" /\ \A s \in Request : answer'[s].pc = "idle"
  BY <1>2, <1>3, NothingWaits
<1>11. \A x \in Eq : x \notin S => Rests(x) \/ Makes(x, mem'[x].result)
  BY <1>6, <1>9 DEF Rests
<1>12. Fresh
  BY <1>7, <1>8, <1>9, <1>10, <1>11, OverFresh
<1> QED
  BY <1>8, <1>12 DEF Counting

LEMMA FreshStep ==
    ASSUME NEW V, Typed(V), Asked, Sound, Values, Calm, Kept, Once, Next
    PROVE  Fresh /\ Counting
<1>1. CASE Loop
  BY <1>1, LoopFresh
<1>2. CASE Read \/ Pause \/ Resume \/ Crash \/ Restart
  BY <1>2, StartFresh, ProcessFresh
<1>3. ASSUME NEW e \in Eq, Evaluate(e) \/ ToolsChanged(e) \/ Invalidate(e) \/ Edit(e) PROVE Fresh /\ Counting
  BY <1>3, EvalFresh, RedoFresh
<1>4. ASSUME NEW t \in Task, OnTask(t) PROVE Fresh /\ Counting
  BY <1>4, TaskFresh, AnswerFresh DEF OnTask
<1>5. ASSUME NEW r \in Request, Handle(r) \/ \E e \in Eq, p \in Pick : Reselect(r, e, p) PROVE Fresh /\ Counting
  BY <1>5, HandleFresh, ReselectFresh
<1> QED
  BY <1>1, <1>2, <1>3, <1>4, <1>5 DEF Next

\* What holds throughout a behaviour.
Lasting == Calm /\ Kept /\ Once /\ Sound /\ Values

LEMMA ValuesStep ==
    Types /\ Types' /\ Asked /\ Lasting /\ [Next]_<<scenario, vars>> => Lasting'
<1> SUFFICES ASSUME NEW V, Typed(V), Types', Asked, Lasting, [Next]_<<scenario, vars>> PROVE Lasting'
  BY DEF Types
<1>1. (Calm /\ Sound)'
  BY SoundKept DEF Lasting, Types
<1>2. CASE UNCHANGED <<scenario, vars>>
  <2>1. Kept' /\ Once'
    BY <1>2 DEF vars, Lasting, Kept, Once
  <2>2. Values'
    BY <1>2 DEF vars, Lasting, Values, Makes, Kind, Deps, Inputs
  <2> QED
    BY <1>1, <2>1, <2>2 DEF Lasting
<1>3. CASE Next
  <2>1. UNCHANGED scenario
    BY <1>3 DEF Next
  <2>2. Fresh /\ Counting
    BY <1>3, FreshStep DEF Lasting
  <2>3. Solid
    BY <1>3, SoundStep DEF Lasting
  <2>4. PICK W : Typed(W)'
    BY DEF Types
  <2>5. Values'
    BY <1>1, <2>1, <2>2, <2>3, <2>4, ValuesKept DEF Lasting
  <2>6. Kept' /\ Once'
    BY <2>1, <2>2 DEF Lasting, Kept, Once, Counting
  <2> QED
    BY <1>1, <2>5, <2>6 DEF Lasting
<1> QED
  BY <1>2, <1>3

LEMMA InitValues == Init /\ Calm /\ Kept => Lasting
<1> SUFFICES ASSUME Init, Calm, Kept PROVE Lasting
  OBVIOUS
<1>1. /\ \A e \in Eq : mem[e] = NewEq /\ row[e] = NewEq /\ eval[e] = NoEval
      /\ \A r \in Request : answer[r].pc = "idle"
      /\ loop.pc # "control"
  BY DEF Init, NoAnswer, AtGate, NoLoop
<1>2. NewEq.status = "pending" /\ NewEq.attempt = 1 /\ NoEval.pc = "none"
  BY DEF NewEq, NoEval
<1>3. Once /\ Values
  BY <1>1, <1>2 DEF Once, Values
<1> QED
  BY <1>3, InitSound DEF Lasting

\* In calm circumstances, what is completed has settled dependencies and the
\* result that its definition and attempt of now give to what they show now:
\* invalidation, rejection, re-picking and edits (while no evaluation, answer
\* or loop holds an equation) leave nothing stale behind them, although
\* evaluations, answers and the loop hold values while they wait.
THEOREM ResultsAreCurrent == Spec /\ Calm /\ Kept => []CompletedIsCurrent
<1>1. Types /\ Lasting => CompletedIsCurrent
  <2> SUFFICES ASSUME NEW V, Typed(V), Lasting, NEW e \in Eq, mem[e].status = "completed"
               PROVE  (\A d \in Deps(e) : Settled(d)) /\ Current(e)
    BY DEF Types, CompletedIsCurrent
  <2>1. \A d \in Deps(e) : Settled(d)
    BY DEF Lasting, Sound, Founded, FoundedAt, Built
  <2>2. Makes(e, mem[e].result)
    BY DEF Lasting, Values
  <2>3. Kind(e) \in {"tool", "select", "approve", "control"}
    BY Graphic DEF Kinds
  <2>4. Current(e)
    BY <2>2, <2>3 DEF Makes, Current
  <2> QED
    BY <2>1, <2>4
<1>2. Spec /\ Calm /\ Kept => []Lasting
  BY InitValues, ValuesStep, AlwaysTyped, AlwaysAsked, PTL DEF Spec
<1> QED
  BY <1>1, <1>2, AlwaysTyped, PTL
=============================================================================
