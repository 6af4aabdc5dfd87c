-------------------------- MODULE MCKnowledgeJobs --------------------------
(* Instances of KnowledgeJobs for TLC. *)
EXTENDS KnowledgeJobs, TLC

Interchangeable == Permutations(Documents) \cup Permutations(Configs)
=============================================================================
