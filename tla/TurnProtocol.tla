---------------------------- MODULE TurnProtocol -----------------------------
(***************************************************************************)
(* What an adaptive session promises, turn by turn: the learner's input is *)
(* bound once, judged once (unless the turn was a lesson), followed by one *)
(* decision, and only then does the session move on, under the receipt of  *)
(* the request whose input it was.  A finished session stays finished.     *)
(***************************************************************************)
EXTENDS Naturals

CONSTANTS Sessions, Keys, None

VARIABLE turns   \* turns[s]: where session s stands, or None

\* A session opens with a quiz or a lesson, or is finished at once.
Opened(turn) ==
    /\ turn.number = 1
    /\ turn.input = None /\ turn.verdict = None /\ turn.decision = None
    /\ turn.receipts = [k \in Keys |-> None]

\* Anywhere on its way.
Standing(turn) ==
    /\ turn.verdict # None => turn.input # None
    /\ turn.decision # None => turn.input # None /\ (turn.shown = "quiz" => turn.verdict # None)
    /\ turn.input # None => turn.shown # "done"

Init == \A s \in Sessions : turns[s] # None => Standing(turns[s])

Only(s) == \A t \in Sessions \ {s} : turns'[t] = turns[t]

Open(s) == turns[s] = None /\ turns'[s] # None /\ Opened(turns'[s])

Leave(s) == turns[s] # None /\ turns'[s] = None

\* input is a pair <<key, request>>.
Bind(s) ==
    LET old == turns[s]
        new == turns'[s]
    IN /\ old # None /\ new # None /\ old.shown # "done"
       /\ old.input = None /\ new.input # None
       /\ new = [old EXCEPT !.input = new.input]

Judge(s) ==
    LET old == turns[s]
        new == turns'[s]
    IN /\ old # None /\ new # None /\ old.shown = "quiz"
       /\ old.input # None /\ old.verdict = None
       /\ new = [old EXCEPT !.verdict = new.verdict]

Decide(s) ==
    LET old == turns[s]
        new == turns'[s]
    IN /\ old # None /\ new # None
       /\ old.shown = "quiz" => old.verdict # None
       /\ old.input # None /\ old.decision = None
       /\ new = [old EXCEPT !.decision = new.decision]

MoveOn(s) ==
    LET old == turns[s]
        new == turns'[s]
        key == old.input[1]
    IN /\ old # None /\ new # None /\ old.decision # None
       /\ new.number = old.number + (IF new.shown = "done" THEN 0 ELSE 1)
       /\ new.input = None /\ new.verdict = None /\ new.decision = None
       /\ new.receipts = [k \in Keys |-> IF k = key THEN old.input[2] ELSE old.receipts[k]]

Next == \/ \E s \in Sessions : Only(s) /\ (Bind(s) \/ Judge(s) \/ Decide(s) \/ MoveOn(s))
        \/ \A s \in Sessions : turns'[s] = turns[s] \/ Open(s) \/ Leave(s)

Spec == Init /\ [][Next]_turns
=============================================================================
