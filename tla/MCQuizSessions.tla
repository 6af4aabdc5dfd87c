--------------------------- MODULE MCQuizSessions ---------------------------
(* Instances of QuizSessions for TLC. *)
EXTENDS QuizSessions, TLC

Interchangeable == Permutations(Attempts) \cup Permutations(Sessions)

\* Two questions, one stage: a quiz with one answer, given under a key or
\* not, a finished one, and one whose grade is waiting in its outbox.
Kinds == {r \in [stage : {0, 1}, short : BOOLEAN] : r.stage = 0 \/ ~ r.short}

FirstAnswer == [index |-> 1, choice |-> "wrong"]

Begun == {[FreshPayload(r) EXCEPT !.answers = <<"wrong">>,
                                  !.bound = [k \in Keys |-> IF r.stage = 0 THEN FirstAnswer ELSE None]] :
            r \in Kinds}

Finished == {[FreshPayload(r) EXCEPT !.answers = <<"right", "wrong">>] : r \in Kinds}

Waiting == {[FreshPayload(r) EXCEPT !.answers = <<"right", "right">>,
                                    !.grades = [q \in Questions |-> "exact"],
                                    !.reported = TRUE] : r \in {r \in Kinds : ~ r.short}}

OneSession ==
    {[s \in Sessions |-> IF s = t THEN row ELSE NoRow] : t \in Sessions,
        row \in {InitialRow(p, k) : p \in Begun, k \in Keys}
                \cup {InitialRow(p, None) : p \in Finished \cup {p \in Waiting : p.stage = 0}}}

\* Two quizzes of the same stage, one of them graded already.
Rivals ==
    {table \in [Sessions -> {InitialRow(p, None) : p \in {p \in Finished \cup Waiting :
                                                         p.stage = 1 /\ ~ p.short}}] :
        \E s, t \in Sessions : table[s].payload \in Waiting /\ table[t].payload \in Finished}

SomeTables == OneSession \cup Rivals \cup {[s \in Sessions |-> NoRow]}
=============================================================================
