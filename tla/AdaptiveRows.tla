---------------------------- MODULE AdaptiveRows -----------------------------
(***************************************************************************)
(* One row of the table of services/adaptive_sessions.py, the aggregate it *)
(* stores (models/adaptive_session.py) and what each transaction of the    *)
(* store does to it, at the instant t it reads while it holds the row.     *)
(*                                                                         *)
(* Left out: text, scores and their ranges, the bound on receipts, and the *)
(* order in which finished rows are evicted (any order).  A quiz has one   *)
(* question; grading question by question is in QuizSessions.              *)
(***************************************************************************)
EXTENDS Integers, FiniteSets

CONSTANTS Attempts,      \* requests: each names what providers wrote in it
          Keys,          \* Idempotency-Keys
          Answers,       \* what a learner may answer to a quiz
          Goals,         \* what a start may ask for
          Gaps,          \* how a grader words a knowledge gap: "clean", "padded"
          MaxTurns,
          LeaseSeconds,  \* operation_lease_seconds
          TtlSeconds,    \* ttl_seconds
          None

ASSUME LeaseAssumption == LeaseSeconds \in Nat \ {0}
ASSUME TtlAssumption == TtlSeconds \in Nat \ {0}
ASSUME TurnsAssumption == MaxTurns \in Nat \ {0}
ASSUME GapsAssumption == Gaps \subseteq {"clean", "padded"}

Authors == Attempts \cup {"nobody"}

\* "quiz" stands for advance, remediate and continue; "finish" also for any
\* of these once the stored mastery has reached its target.
Acts == {"quiz", "teach", "plan", "finish"}

Reports == [by : Authors, gap : {"clean", "padded"}]

\* AdaptiveTurnArtifact: what the learner sees.
Pages == [turn : 1..MaxTurns, shown : {"quiz", "teach", "done"}, why : Acts,
          by : Authors, report : Reports \cup {None}]

\* AdaptiveSubmitRequest; answers None: the learner has read the lesson.
Submits == [turn : 1..MaxTurns, revision : Nat, answers : Answers \cup {None}]

Pendings == [key : Keys \cup {None}, ask : Submits, mastery : BOOLEAN,
             next : [act : Acts, by : Attempts] \cup {None}]

\* `judged` is the grading report of the current quiz, `last` last_report
\* with the turn it belongs to, `scores` the trajectory.
Payload == [page     : Pages,
            quiz     : {"none", "active", "completed"},
            judged   : Reports \cup {None},
            profile  : BOOLEAN,
            last     : [turn : 1..MaxTurns, report : Reports] \cup {None},
            scores   : [1..MaxTurns -> Reports \cup {None}],
            pending  : Pendings \cup {None},
            receipts : [Keys -> [ask : Submits, page : Pages] \cup {None}]]

Row == [there   : {"never", "stored", "gone"},
        key     : Keys \cup {None},
        goal    : Goals \cup {None},
        payload : Payload \cup {None},
        rev     : Nat,
        updated : Nat,
        expires : Nat,
        token   : Attempts \cup {None},
        lease   : Nat]

NoRow == [there |-> "never", key |-> None, goal |-> None, payload |-> None, rev |-> 0,
          updated |-> 0, expires |-> 0, token |-> None, lease |-> 0]

Stored(row) == row.there = "stored"

Done(payload) == payload.page.shown = "done"

FreeAt(row, t) == row.token = None \/ row.lease <= t

(***************************************************************************)
(* The aggregate                                                           *)
(***************************************************************************)
NoReport == [t \in 1..MaxTurns |-> None]

\* A freshly shown page and what belongs to it.
Turn(page, last, scores, receipts) ==
    [page |-> page, quiz |-> IF page.shown = "quiz" THEN "active" ELSE "none",
     judged |-> None, profile |-> FALSE, last |-> last, scores |-> scores,
     pending |-> None, receipts |-> receipts]

\* normalize_gaps strips what the public artifact shows of a report.
Projection(last) == IF last = None THEN None ELSE [last.report EXCEPT !.gap = "clean"]

\* _opening_state: quiz, lesson, or a session that ends at once.
Opening(a, act) ==
    Turn([turn |-> 1, shown |-> IF act \in {"plan", "finish"} THEN "done" ELSE act, why |-> act,
          by |-> a, report |-> None],
         None, NoReport, [k \in Keys |-> None])

\* validate_state_machine and validate_pending_decision.
Valid(p) ==
    LET page    == p.page
        pending == p.pending
    IN /\ pending # None =>
             /\ ~ Done(p) /\ pending.ask.turn = page.turn
             /\ pending.key # None => p.receipts[pending.key] = None
             /\ pending.next # None => pending.mastery
       /\ pending = None => page.report = (IF p.last = None THEN None ELSE p.last.report)
       /\ page.shown = "quiz" => p.quiz # "none" /\ (pending = None => p.quiz = "active")
       /\ page.shown = "teach" => p.quiz = "none" /\ (pending # None => pending.ask.answers = None)
       /\ page.shown = "quiz" /\ pending # None /\ (pending.mastery \/ pending.next # None) =>
             p.judged # None /\ p.profile
       /\ p.profile => p.judged # None
       /\ p.judged # None /\ (p.profile \/ Done(p)) =>
             p.last # None /\ p.last.report = p.judged /\ p.last.turn = page.turn
       /\ Done(p) /\ p.quiz # "none" => p.quiz = "completed" /\ p.profile
       /\ Done(p) /\ p.quiz = "none" => p.scores[page.turn] = None
       /\ \A k \in Keys : p.receipts[k] # None =>
             /\ p.receipts[k].ask.turn <= page.turn /\ p.receipts[k].page.turn <= page.turn
             /\ p.receipts[k].page.shown = "done" => p.receipts[k].page = page

(***************************************************************************)
(* claim, checkpoint, complete, release                                    *)
(***************************************************************************)
\* Mutant: a finished session can be claimed.
ClaimAnswerAgain(row, t) ==
    CASE ~ Stored(row)                              -> "missing"
      [] Stored(row) /\ row.expires <= t            -> "expired"
      [] Stored(row) /\ row.expires > t /\ FreeAt(row, t) -> "claimed"
      [] OTHER                                      -> "in_progress"

ClaimAnswer(row, t) ==
    CASE ~ Stored(row)                   -> "missing"
      [] Stored(row) /\ row.expires <= t -> "expired"
      [] Stored(row) /\ row.expires > t /\ Done(row.payload) -> "done"
      [] Stored(row) /\ row.expires > t /\ ~ Done(row.payload) /\ FreeAt(row, t) -> "claimed"
      [] OTHER                           -> "in_progress"

\* _claimed_expires_at: a claim never outlives the session it works on.
Outlives(t) == t + (IF TtlSeconds > LeaseSeconds THEN TtlSeconds ELSE LeaseSeconds)

ClaimRow(row, token, t) ==
    IF ClaimAnswer(row, t) = "claimed"
    THEN [row EXCEPT !.token = token, !.lease = t + LeaseSeconds, !.updated = t,
                     !.expires = Outlives(t)]
    ELSE row

Holds(row, token, rev, payload, t) ==
    /\ Stored(row) /\ row.token = token /\ row.rev = rev
    /\ row.lease > t /\ row.expires > t
    /\ Done(row.payload) => Done(payload)

CheckpointRow(row, token, rev, payload, t) ==
    IF Holds(row, token, rev, payload, t) /\ Valid(payload)
    THEN [row EXCEPT !.payload = payload, !.rev = @ + 1, !.updated = t,
                     !.lease = t + LeaseSeconds, !.expires = Outlives(t)]
    ELSE row

CompleteRow(row, token, rev, payload, t) ==
    IF Holds(row, token, rev, payload, t) /\ Valid(payload)
    THEN [row EXCEPT !.payload = payload, !.rev = @ + 1, !.updated = t,
                     !.expires = t + TtlSeconds, !.token = None, !.lease = 0]
    ELSE row

ReleaseRow(row, token, t) ==
    IF Stored(row) /\ row.token = token
    THEN [row EXCEPT !.token = None, !.lease = 0, !.updated = t]
    ELSE row

(***************************************************************************)
(* create                                                                  *)
(***************************************************************************)
\* rows[s]: the row of session s.
StartedUnder(rows, key) ==
    {s \in DOMAIN rows : key # None /\ Stored(rows[s]) /\ rows[s].key = key}

Lapsed(rows, t) ==
    {s \in DOMAIN rows : Stored(rows[s]) /\ rows[s].expires <= t /\ FreeAt(rows[s], t)}

Evictable(rows, t) ==
    {s \in DOMAIN rows \ Lapsed(rows, t) :
        Stored(rows[s]) /\ Done(rows[s].payload) /\ FreeAt(rows[s], t)}

\* The sets of rows _make_capacity may evict; none of them: capacity error.
Evictions(rows, capacity, t) ==
    LET count    == Cardinality({s \in DOMAIN rows : Stored(rows[s])} \ Lapsed(rows, t))
        required == IF count < capacity THEN 0 ELSE count - capacity + 1
    IN {out \in SUBSET Evictable(rows, t) : Cardinality(out) = required}

NewRow(key, goal, payload, t) ==
    [NoRow EXCEPT !.there = "stored", !.key = key, !.goal = goal, !.payload = payload, !.rev = 1,
                  !.updated = t, !.expires = t + TtlSeconds]

Removed(row) == [NoRow EXCEPT !.there = "gone"]

\* An error leaves even the purge undone: the transaction rolls back.
CreateRows(rows, s, key, goal, payload, out, t) ==
    [x \in DOMAIN rows |->
        IF x = s THEN NewRow(key, goal, payload, t)
        ELSE IF x \in Lapsed(rows, t) \cup out THEN Removed(rows[x]) ELSE rows[x]]
=============================================================================
