------------------------ MODULE MCGenerationScheduler ------------------------
(* Small instances of GenerationScheduler for TLC.                           *)
EXTENDS GenerationScheduler
=============================================================================
