--------------------------- MODULE MCLearnerMemory ---------------------------
(* Instances of LearnerMemory for TLC. *)
EXTENDS LearnerMemory, TLC

CONSTANTS s1, s2, o1, o2, o3

Interchangeable == Permutations(Attempts) \cup Permutations(Processes)

\* s1: a new question answered wrong; s2: the same mistake practised, right.
ThisReport == [s \in Sessions |-> [correct |-> s # s1, source |-> IF s = s1 THEN None ELSE s1]]

\* A memory with a few sessions already, and one that was never migrated.
SomeStores == {[EmptyStore EXCEPT !.briefs = <<o1, o2, o3>>],
               [EmptyStore EXCEPT !.legacy = <<o1>>]}
=============================================================================
