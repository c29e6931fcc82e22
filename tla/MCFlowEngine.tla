---------------------------- MODULE MCFlowEngine ----------------------------
(* Small instances of FlowEngine for TLC.                                     *)
EXTENDS FlowEngine

\* A candidate is generated, approved and used; the last step collects a loop
\* of one iteration.
Approval == [kind |-> <<"tool", "approve", "tool", "control">>,
             deps |-> <<{}, {1}, {2}, {3}>>,
             iteration |-> <<{1, 2, 3}, {1, 2, 3}, {1, 2, 3}, {}>>]

\* A loop generates two candidates; one is chosen.
Selection == [kind |-> <<"tool", "tool", "control", "select">>,
              deps |-> <<{}, {}, {1, 2}, {3}>>,
              iteration |-> <<{1}, {2}, {}, {}>>]

\* A candidate is generated and chosen; another step uses it.
Choice == [kind |-> <<"tool", "select", "tool", "control">>,
           deps |-> <<{}, {1}, {2}, {3}>>,
           iteration |-> <<{}, {}, {}, {}>>]

On(graphs, events, suspends, limit) ==
    {[graph |-> g, events |-> events, suspends |-> suspends, limit |-> limit] : g \in graphs}

\* No questions.
Pipeline == [kind |-> <<"tool", "tool", "control", "tool">>,
             deps |-> <<{}, {}, {1, 2}, {3}>>,
             iteration |-> <<{1}, {2}, {}, {}>>]

Graphs == {Approval, Selection, Choice}
Redone == {"invalidate", "reject"}
Failures == {"fail", "resource", "unavailable", "skip", "pause"}

\* Work is redone, re-picked and edited; or awaits suspend and the process
\* dies; or the program is edited under running evaluations and a suspended loop.
Circumstances ==
    On(Graphs, Redone \cup Failures \cup {"reselect", "quiet_edit"}, {}, 2)
        \cup On(Graphs, Failures \cup {"reselect", "quiet_edit", "crash"}, {}, 2)
        \cup On({Choice}, {"pause", "reselect", "quiet_edit", "crash"}, {}, 3)
        \cup On(Graphs, Failures \cup {"crash"}, Suspension, 3)
        \cup On({Approval}, Failures \cup {"reject"}, Suspension, 3)
        \cup On({Approval, Choice}, {"quiet_edit", "crash", "pause"}, Suspension \ {"reselect"}, 2)
        \cup On({Pipeline}, {"fail", "pause", "read", "busy_edit"}, {}, 2)
        \cup On({Pipeline}, {"pause", "busy_edit"}, {"control"}, 2)
        \cup On({Pipeline}, {"resource", "read", "pause"}, {}, 2)
        \cup On({Selection}, {"reselect", "crash", "fail", "pause"}, {"reselect"}, 3)

\* The flow is paused, the process dies, a question is answered, the flow resumed.
AnsweredOffline == On({Choice}, {"pause", "crash"}, {}, 2)

\* Instances in which a property fails as the code stands (README, section 5).
\* EveryReadyEquationSettles, were these circumstances not excluded: the flow
\* pauses itself for want of a resource and is read.
Starved == On({Pipeline}, {"resource", "read"}, {}, 2)
\* CompletedIsCurrent: a choice is changed while steps that depend on it can start.
RepickedSlowly == On({Choice}, {"reselect"}, {"reselect"}, 1)
\* DurableAgrees: the equation is redone while its new choice waits.
RepickedAndRedone == On({Choice}, {"invalidate", "reselect"}, {"reselect"}, 2)
\* CompletedIsCurrent and TasksAreTrue: an equation is redone while its answer waits.
RedoneUnderAnswer == On({Choice}, {"invalidate"}, {"answer"}, 1)
\* CompletedIsCurrent: a collection is redone while the loop waits for its media.
RedoneUnderLoop == On({Choice}, {"invalidate"}, {"control"}, 1)
\* CompletedIsCurrent, with two requests: a question is answered twice at once.
AnsweredTwice == On({Choice}, {}, {"promote", "answer"}, 0)
\* CompletedIsCurrent: the process dies before what was redone is evaluated.
RedoneThenDied == On({Choice}, {"invalidate", "crash"}, {}, 3)
\* CompletedIsCurrent, and TasksAreTrue if the second step asks: an iteration is
\* skipped while another of its steps is evaluated, and then redone.
TwoSteps(kind) == [Pipeline EXCEPT !.kind[2] = kind, !.iteration[1] = {1, 2}, !.iteration[2] = {1, 2}]
SkippedUnderWork == On({TwoSteps("tool")}, {"fail", "skip", "invalidate"}, {}, 3)
SkippedUnderQuestion == On({TwoSteps("select")}, {"fail", "skip"}, {}, 2)
\* DurableAgrees and TasksAreTrue, were these circumstances not excluded, and,
\* with questions, CompletedIsCurrent: the program is edited under evaluations.
EditedUnderWork == On({Pipeline}, {"busy_edit", "fail"}, {}, 2)
EditedUnderQuestions == On({Choice}, {"busy_edit"}, {}, 1)
\* AwaitingIsAsked, were these circumstances not excluded: the program is edited
\* while an answer waits for the ownership of its media.
EditedUnderAnswer == On({Choice}, {"busy_edit"}, {"answer"}, 1)
=============================================================================
