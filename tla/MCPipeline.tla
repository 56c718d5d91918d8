------------------------------ MODULE MCPipeline ------------------------------
(***************************************************************************)
(* Pipeline on small instances; the configurations give the constants.     *)
(***************************************************************************)
EXTENDS PipelineInv, TLC

\* Documents, workers and API processes are interchangeable where only safety is checked.
Symmetry == Permutations(Docs) \cup Permutations(Workers) \cup Permutations(Apis)
=============================================================================
