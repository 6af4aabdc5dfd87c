---------------------------- MODULE SourceLibrary ----------------------------
(***************************************************************************)
(* What a knowledge base promises the conversations that cite it, whatever *)
(* its job queue, its index and its restarts do: the version of a document *)
(* that is published only moves forward, a deleted document never comes    *)
(* back, and a question is answered from all published versions or not at  *)
(* all.                                                                    *)
(***************************************************************************)
EXTENDS Naturals

CONSTANTS Documents,
          Versions,     \* in the order they were uploaded
          Gone,         \* a document that was deleted
          Unavailable   \* the base answers no question now

VARIABLES library,      \* library[d]: the version published, 0 before the first, or Gone
          answers       \* the versions a question is answered from, or Unavailable

Live(lib) == {v \in Versions : \E d \in Documents : lib[d] = v}

Init == /\ library = [d \in Documents |-> 0]
        /\ answers \in {Unavailable, {}}

\* Where the published version of a document may go.
Forward(old) == CASE old = Gone -> {Gone}
                  [] OTHER -> {Gone, old} \cup {v \in Versions : v > old}

Next == /\ \A d \in Documents : library'[d] \in Forward(library[d])
        /\ library' = [d \in Documents |-> library'[d]]
        /\ answers' \in {Unavailable, Live(library')}

Spec == Init /\ [][Next]_<<library, answers>>
=============================================================================
