-------------------------- MODULE MCNodeLifecycle --------------------------
(* Small instances of NodeLifecycle for TLC. *)
EXTENDS NodeLifecycle, TLC

\* Slots are interchangeable (used by the runs without liveness properties).
SlotSymmetry == Permutations(Monitors)
=============================================================================
