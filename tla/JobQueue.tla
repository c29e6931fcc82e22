------------------------------ MODULE JobQueue ------------------------------
(***************************************************************************)
(* What the generation queue promises about a job, without workers, slots, *)
(* connections or post-processing: GenerationQueue implements it.          *)
(*                                                                         *)
(* A job that nobody interferes with is submitted, handed to a worker once *)
(* and ends once.  A job that is cancelled, retried, cut off from its      *)
(* provider or hit by a fault may move between the phases in any order;    *)
(* but it is never handed out more often than its rounds of attempts       *)
(* allow, never done without a product and never back once it is deleted.  *)
(***************************************************************************)
EXTENDS Integers

CONSTANTS
    Job,        \* jobs
    Attempts    \* times a job may be handed out before the user asks again

VARIABLES
    phase,      \* phase[j]
    handed,     \* handed[j]: times j was handed to a worker
    product,    \* product[j]: the product of j is kept
    disturbed,  \* the jobs something has interfered with
    rounds      \* times a user has asked for a retry

promise == <<phase, handed, product, disturbed, rounds>>

Phase == {"none", "waiting", "working", "done", "failed", "cancelled", "deleted"}

Init ==
    /\ phase = [j \in Job |-> "none"]
    /\ handed = [j \in Job |-> 0]
    /\ product = [j \in Job |-> FALSE]
    /\ disturbed = {} /\ rounds = 0

Move(j, p) == phase' = [phase EXCEPT ![j] = p]

Submit(j) ==
    /\ phase[j] = "none" /\ Move(j, "waiting")
    /\ UNCHANGED <<handed, product, disturbed, rounds>>

\* A worker is given the job; an undisturbed one has never been given before.
HandOut(j) ==
    /\ phase[j] = "waiting" \/ j \in disturbed
    /\ phase[j] \notin {"none", "deleted"} /\ Move(j, "working")
    /\ handed[j] < Attempts * (rounds + 1)
    /\ handed' = [handed EXCEPT ![j] = @ + 1]
    /\ UNCHANGED <<product, disturbed, rounds>>

Produce(j) ==
    /\ phase[j] = "working" \/ j \in disturbed
    /\ product' = [product EXCEPT ![j] = TRUE]
    /\ UNCHANGED <<phase, handed, disturbed, rounds>>

Finish(j) ==
    /\ phase[j] = "working" /\ product[j] /\ Move(j, "done")
    /\ UNCHANGED <<handed, product, disturbed, rounds>>

\* The execution of a job fails, or what follows its completion; a restart
\* fails every job it interrupts.
Fail(S) ==
    /\ \A j \in S : phase[j] \in {"waiting", "working", "done"}
    /\ phase' = [j \in Job |-> IF j \in S THEN "failed" ELSE phase[j]]
    /\ UNCHANGED <<handed, product, disturbed, rounds>>

Delete(j) ==
    /\ phase[j] \in {"failed", "cancelled"} /\ Move(j, "deleted")
    /\ UNCHANGED <<handed, product, disturbed, rounds>>

\* Something interferes with the jobs of S, or goes on interfering.
Interfere(S) ==
    /\ disturbed' = disturbed \cup S
    /\ rounds' \in {rounds, rounds + 1}
    /\ \E j \in disturbed' : \E p \in Phase \ {"none"}, made \in BOOLEAN :
          /\ phase[j] # "none" /\ (phase[j] = "deleted" => p = "deleted")
          /\ p = "done" => made
          /\ Move(j, p) /\ product' = [product EXCEPT ![j] = made]
    /\ UNCHANGED handed

Next ==
    \/ \E j \in Job : Submit(j) \/ HandOut(j) \/ Produce(j) \/ Finish(j) \/ Delete(j)
    \/ \E S \in SUBSET Job : Fail(S) \/ Interfere(S)

Spec == Init /\ [][Next]_promise
=============================================================================
