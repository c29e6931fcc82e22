-------------------------- MODULE MCBatchCompletion --------------------------
(* Small instances of BatchCompletion for TLC.                                *)
EXTENDS BatchCompletion

Overlapping(faults) == [overlap |-> TRUE, faults |-> faults]
Serial(faults) == [overlap |-> FALSE, faults |-> faults]

\* Handlers overlap and jobs end in the ways whose handlers run; or handlers
\* follow each other and everything may go wrong.
OverlapOrFaults ==
    {Overlapping({"generation", "cancel"}), Overlapping({"generation", "retry"}),
     Serial(FaultKind)}

\* Instances in which a property fails as the code stands (README, section 5).
\* OneSet; and SetMatchesAsset, were overlapping handlers not excluded.
OverlapOnly == {Overlapping({})}
\* SetMatchesAsset, were retried and deleted rows not excluded.
RetriedLate == {Serial({"generation", "retry"})}
DeletedEarly == {Serial({"cancel", "delete"})}
\* SettledBatchAnnounced: a path on which rows settle without a handler.
Departing == {Serial({"depart"})}
BadFile == {Serial({"postprocess"})}
Dying == {Serial({"restart"})}
\* EveryBatchAnnounced, were its circumstances not restricted.
DeletedMeanwhile == {Serial({"generation", "delete"})}
HalfSubmitted == {Serial({"submission"})}
=============================================================================
