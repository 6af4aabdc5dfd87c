------------------------- MODULE MCAdaptiveSessions -------------------------
(* Instances of AdaptiveSessions for TLC. *)
EXTENDS AdaptiveSessions, TLC

Interchangeable == Permutations(Attempts) \cup Permutations(Answers) \cup Permutations(Goals)

Ask(x) == [turn |-> 1, revision |-> 1, answers |-> x]

Verdict == [by |-> "nobody", gap |-> "clean"]

Opened == {InitialRow(Opening("nobody", act), 1) : act \in {"quiz", "teach"}}

\* A quiz whose first submit was cut off before or after it was graded.
Begun ==
    {InitialRow([Opening("nobody", "quiz") EXCEPT
                    !.pending = [key |-> k, ask |-> Ask(x), mastery |-> FALSE, next |-> None],
                    !.quiz = IF judged THEN "completed" ELSE "active",
                    !.judged = IF judged THEN Verdict ELSE None,
                    !.last = IF judged THEN [turn |-> 1, report |-> Verdict] ELSE None],
                IF judged THEN 4 ELSE 2) :
        k \in Keys \cup {None}, x \in Answers, judged \in BOOLEAN}

\* The second page, after a graded quiz.
Continued ==
    {LET page(why) == [turn |-> 2, shown |-> why, why |-> why, by |-> "nobody", report |-> Verdict]
     IN InitialRow(Turn(page(act), [turn |-> 1, report |-> Verdict],
                        [t \in 1..MaxTurns |-> IF t = 1 THEN Verdict ELSE None],
                        [k \in Keys |-> [ask |-> Ask(x), page |-> page(act)]]), 9) :
        act \in {"quiz", "teach"}, x \in Answers}

\* One session in a table with room for one; or an empty table for two.
SomeTables ==
    {[s \in Sessions |-> IF s = CHOOSE t \in Sessions : TRUE THEN row ELSE NoRow] :
        row \in Opened \cup Begun \cup Continued}
    \cup {[s \in Sessions |-> NoRow]}

CleanGaps == {"clean"}
AnyGaps == {"clean", "padded"}
=============================================================================
