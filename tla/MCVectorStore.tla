---------------------------- MODULE MCVectorStore ----------------------------
(* Instances of VectorStore for TLC. *)
EXTENDS VectorStore, TLC

Interchangeable == Permutations(Calls) \cup Permutations(Documents)
=============================================================================
