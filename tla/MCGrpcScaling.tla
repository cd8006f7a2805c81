-------------------------- MODULE MCGrpcScaling --------------------------
(* Small instances of GrpcScaling for TLC. *)
EXTENDS GrpcScaling, TLC

\* Nodes, handlers and groups are interchangeable (for the runs without liveness).
ScalingSymmetry == Permutations(Nodes) \union Permutations(Calls) \union Permutations(Groups)
=============================================================================
