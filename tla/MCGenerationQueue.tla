------------------------- MODULE MCGenerationQueue -------------------------
(* Small instances of GenerationQueue for TLC.                             *)
EXTENDS GenerationQueue, TLC

CONSTANTS p1, p2, i1, i2, i3, b1, w1, w2, w3

\* Every job runs on one backend.
OneBackend == [j \in Job |-> b1]

\* No job belongs to a one-shot flow run; those numbered i2 do.
NoneEphemeral == {}
SomeEphemeral == {j \in Job : IdOf(j) = i2}

OneSlot == [b \in Backends |-> 1]
TwoSlots == [b \in Backends |-> 2]

\* Worker tasks run the same code; row ids are only compared for equality.
WorkerSymmetry == Permutations(Workers)
FullSymmetry == Permutations(Workers) \cup Permutations(JobIds)

=============================================================================
