------------------------ MODULE MCGenerationManager ------------------------
(* Small instances of GenerationManager for TLC. *)
EXTENDS GenerationManager

MCRevision == [g \in Generations |-> g]
============================================================================
