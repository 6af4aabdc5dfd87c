------------------------- MODULE MCAutonomousStart --------------------------
(* Instances of AutonomousStart for TLC. *)
EXTENDS AutonomousStart, TLC

Interchangeable == Permutations(Attempts)
=============================================================================
