------------------------ MODULE MCAutonomousContinue ------------------------
(* Instances of AutonomousContinue for TLC. *)
EXTENDS AutonomousContinue, TLC

Interchangeable == Permutations(Attempts) \cup Permutations(Keys) \cup Permutations(Replies)
=============================================================================
