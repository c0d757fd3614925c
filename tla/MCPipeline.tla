------------------------------ MODULE MCPipeline ------------------------------
(* JobPipeline on small instances; the .cfg files give the constants.      *)
EXTENDS PipelineProperties, TLC

\* The request threads are alike; no liveness is checked with this symmetry.
Interchangeable == Permutations(Handlers)
=============================================================================
