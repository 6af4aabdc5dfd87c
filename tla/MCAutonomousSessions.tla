------------------------ MODULE MCAutonomousSessions ------------------------
(* Instances of AutonomousSessions for TLC. *)
EXTENDS AutonomousSessions, TLC

Interchangeable == Permutations(Attempts) \cup Permutations(Responses)
                   \cup Permutations(Fingerprints) \cup Permutations(Conversations)
=============================================================================
