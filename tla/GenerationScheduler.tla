------------------------- MODULE GenerationScheduler -------------------------
(***************************************************************************)
(* The scheduler's choice among generator instances                        *)
(* (backend/generation_scheduler.py, assign_next_job), for one backend and *)
(* one profile: the generator after the one served last, in the order of   *)
(* their ids.  GenerationQueue, which models what becomes of the job, lets *)
(* the scheduler take any queued job.                                      *)
(***************************************************************************)
EXTENDS Integers

CONSTANTS
    N,              \* the number of generators, named by the order of their ids
    MaxConcurrent,  \* the backend's concurrency
    MaxQueued,      \* bound: queued jobs of one generator
    Backlogged      \* does every generator queue its next job before one of
                    \* its jobs is assigned?

ASSUME SchedulerAssumption ==
    /\ N \in Nat \ {0}
    /\ MaxConcurrent \in Nat \ {0}
    /\ MaxQueued \in Nat \ {0}
    /\ Backlogged \in BOOLEAN

VARIABLES
    queued,     \* the queued jobs of each generator
    running,    \* the jobs in the backend's slots
    last,       \* _last_served_generator, 0 = none
    overtaken   \* overtaken[g][h]: how often h was served since g is waiting;
                \* 2 stands for more (kept for the property)

vars == <<queued, running, last, overtaken>>

Generator == 1..N

\* Slots are taken under the scheduler's lock, never past the concurrency.
TypeOK ==
    /\ queued \in [Generator -> 0..MaxQueued]
    /\ running \in 0..MaxConcurrent
    /\ last \in 0..N
    /\ overtaken \in [Generator -> [Generator -> 0..2]]

Init ==
    /\ queued = [g \in Generator |-> 0]
    /\ running = 0
    /\ last = 0
    /\ overtaken = [g \in Generator |-> [h \in Generator |-> 0]]

Waiting == {g \in Generator : queued[g] > 0}

Accepts == running < MaxConcurrent

First(G) == CHOOSE g \in G : \A h \in G : g <= h

\* Variant with a fault: the generator served last is not remembered.
FirstWaiting(G) == First(G)

\* The generator after the last one among G, cyclically; the first one of G
\* when the last one is not among them.
NextGenerator(G) ==
    LET after == {g \in G : g > last}
    IN  IF last \in G /\ after # {} THEN First(after) ELSE First(G)

Submit(g) ==
    /\ queued[g] < MaxQueued
    /\ queued' = [queued EXCEPT ![g] = @ + 1]
    /\ UNCHANGED <<running, last, overtaken>>

\* A worker asks for a job.
Assign ==
    /\ Accepts
    /\ Waiting # {}
    /\ LET g == NextGenerator(Waiting)
       IN  /\ queued' = IF Backlogged THEN queued ELSE [queued EXCEPT ![g] = @ - 1]
           /\ last' = g
           /\ overtaken' = [w \in Generator |-> [h \in Generator |->
                  CASE w = g -> 0
                    [] w # g /\ w \in Waiting /\ h = g /\ overtaken[w][h] < 2 -> overtaken[w][h] + 1
                    [] OTHER -> overtaken[w][h]]]
    /\ running' = running + 1

\* A job leaves its slot.
Finish ==
    /\ running > 0
    /\ running' = running - 1
    /\ UNCHANGED <<queued, last, overtaken>>

Next == (\E g \in Generator : Submit(g)) \/ Assign \/ Finish

Spec == Init /\ [][Next]_vars

\* Workers keep asking, jobs end; nobody is bound to submit.
FairSpec == Spec /\ WF_vars(Assign) /\ WF_vars(Finish)

-----------------------------------------------------------------------------
(* Properties.                                                             *)

\* "Uses round-robin across generator instances to ensure fair distribution"
\* (generation_scheduler.py:61): nobody is served twice while another waits.
FairShare == \A g, h \in Generator : overtaken[g][h] <= 1

\* ... and whoever waits is served.
EveryGeneratorServed == \A g \in Generator : (queued[g] > 0) ~> (last = g)
=============================================================================
