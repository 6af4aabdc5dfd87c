------------------------------ MODULE QuizRows -------------------------------
(***************************************************************************)
(* One row of the table of services/quiz_sessions.py, the aggregate it     *)
(* stores (models/session.py) and what each transaction of the store does  *)
(* to it.  A transaction is a function of the row it locked and of the     *)
(* instant t that its caller read BEFORE the worker thread started.        *)
(*                                                                         *)
(* Left out: the revision (returned, never compared), the order in which   *)
(* completed rows are evicted (any order), and the payload size limit.     *)
(* The immutable hash covers short, stage and the session's identity.      *)
(***************************************************************************)
EXTENDS Integers, Sequences, FiniteSets

CONSTANTS Attempts,      \* requests: each names the provider verdicts it obtains
          Keys,          \* Idempotency-Keys
          Total,         \* questions of a quiz
          TotalStages,   \* stages of the learning path
          LeaseSeconds,  \* operation_lease_seconds
          TtlSeconds,    \* ttl_seconds
          None

ASSUME LeaseAssumption == LeaseSeconds \in Nat \ {0}
ASSUME TtlAssumption == TtlSeconds \in Nat \ {0}
ASSUME TotalAssumption == Total \in Nat \ {0}
ASSUME StagesAssumption == TotalStages \in Nat \ {0}

Questions == 1..Total

\* For a choice question "right" is its stored answer.
Choices == {"right", "wrong"}

\* One request claims a session up to three times, under fresh tokens: for
\* its own work, and to repair the memory and the learning-path outbox.
Phases == {"main", "memory", "path"}

Tokens == Attempts \X Phases

\* "exact": graded by comparison; an attempt: the provider's verdict in it.
Grades == Attempts \cup {"exact", None}

StartRequests == [stage : 0..TotalStages, short : BOOLEAN]

\* `bound` is answer_request_hashes; stage 0 is an unbound quiz.
Payload == [short    : BOOLEAN,
            stage    : 0..TotalStages,
            answers  : UNION {[1..n -> Choices] : n \in 0..Total},
            bound    : [Keys -> [index : Questions, choice : Choices] \cup {None}],
            grades   : [Questions -> Grades],
            reported : BOOLEAN,
            learned  : Attempts \cup {None},
            profile  : BOOLEAN,
            progress : BOOLEAN]

ASSUME NoneAssumption ==
    /\ None \notin Attempts \cup Keys \cup Tokens \cup Payload
    /\ None \notin {"exact", "plain", "start", "answer", "view", "grade", "report",
                   "repair", "reread"}
    /\ "plain" \notin Attempts

Row == [there   : {"never", "stored", "gone"},
        key     : Keys \cup {None},
        payload : Payload \cup {None},
        token   : Tokens \cup {None},
        lease   : Nat,
        expires : Nat]

NoRow == [there |-> "never", key |-> None, payload |-> None, token |-> None,
          lease |-> 0, expires |-> 0]

FreshPayload(request) ==
    [short |-> request.short, stage |-> request.stage, answers |-> <<>>,
     bound |-> [k \in Keys |-> None], grades |-> [q \in Questions |-> None],
     reported |-> FALSE, learned |-> None, profile |-> FALSE, progress |-> FALSE]

Request(payload) == [stage |-> payload.stage, short |-> payload.short]

Stored(row) == row.there = "stored"

Completed(payload) == Len(payload.answers) = Total

FreeAt(row, t) == row.token = None \/ row.lease <= t

(***************************************************************************)
(* The aggregate                                                           *)
(***************************************************************************)
Missing(payload) == {q \in Questions : payload.grades[q] = None}

\* validate_state_machine: what a stored payload must satisfy to be read.
Valid(payload) ==
    /\ Cardinality({k \in Keys : payload.bound[k] # None}) <= Len(payload.answers)
    /\ \A k \in Keys : payload.bound[k] # None =>
           /\ payload.bound[k].index <= Len(payload.answers)
           /\ payload.answers[payload.bound[k].index] = payload.bound[k].choice
    /\ \A q \in Questions : payload.grades[q] # None => q <= Len(payload.answers)
    /\ payload.reported => Completed(payload) /\ Missing(payload) = {}
    /\ payload.learned # None => payload.reported
    /\ payload.progress => payload.stage # 0 /\ payload.reported /\ payload.profile

\* Mutant: a quiz of a stage goes to memory before it has been graded.
MemoryPendingBound(payload) ==
    /\ Completed(payload) /\ ~ payload.profile
    /\ payload.reported \/ ~ payload.short

\* Objective quizzes outside a path are final without a provider.
MemoryPending(payload) ==
    /\ Completed(payload) /\ ~ payload.profile
    /\ payload.reported \/ (payload.stage = 0 /\ ~ payload.short)

\* Mutant: the stage is published before the learner's memory holds the grade.
StagePendingEarly(payload) ==
    payload.stage # 0 /\ ~ payload.progress /\ payload.reported

StagePending(payload) ==
    payload.stage # 0 /\ ~ payload.progress /\ payload.reported /\ payload.profile

\* What is committed to memory: the canonical report, or the plain
\* comparison of write_objective_profile.
Report(payload) ==
    IF payload.reported THEN payload.grades ELSE [q \in Questions |-> "plain"]

\* Answers settled by comparison; the rest needs the provider.
ExactGrades(payload) ==
    [q \in Questions |->
        IF payload.grades[q] = None /\ ~ payload.short /\ payload.answers[q] = "right"
        THEN "exact" ELSE payload.grades[q]]

(***************************************************************************)
(* claim, checkpoint, complete, release                                    *)
(***************************************************************************)
\* Mutant: a claim is taken over whether or not its lease has lapsed.
ClaimAnswerTakesOver(row, t) ==
    CASE ~ Stored(row) -> "missing"
      [] Stored(row) /\ row.expires <= t -> "expired"
      [] OTHER -> "claimed"

ClaimAnswer(row, t) ==
    CASE ~ Stored(row) -> "missing"
      [] Stored(row) /\ row.expires <= t -> "expired"
      [] Stored(row) /\ row.expires > t /\ FreeAt(row, t) -> "claimed"
      [] OTHER -> "in_progress"

ClaimRow(row, token, t) ==
    IF ClaimAnswer(row, t) = "claimed"
    THEN [row EXCEPT !.token = token, !.lease = t + LeaseSeconds]
    ELSE row

\* Mutant: a checkpoint is accepted from whoever claimed the row once.
HoldsUnfenced(row, token, payload, t) == Stored(row) /\ row.expires > t

Holds(row, token, payload, t) ==
    /\ Stored(row) /\ row.token = token
    /\ row.lease > t /\ row.expires > t
    /\ Request(row.payload) = Request(payload)

CheckpointRow(row, token, payload, t) ==
    IF Holds(row, token, payload, t)
    THEN [row EXCEPT !.payload = payload, !.lease = t + LeaseSeconds]
    ELSE row

CompleteRow(row, token, payload, t) ==
    IF Holds(row, token, payload, t)
    THEN [row EXCEPT !.payload = payload, !.token = None, !.lease = 0,
                     !.expires = t + TtlSeconds]
    ELSE row

ReleaseRow(row, token) ==
    IF Stored(row) /\ row.token = token THEN [row EXCEPT !.token = None, !.lease = 0] ELSE row

(***************************************************************************)
(* create                                                                  *)
(***************************************************************************)
\* rows[s]: the row of session s.
StartedUnder(rows, key) ==
    {s \in DOMAIN rows : key # None /\ Stored(rows[s]) /\ rows[s].key = key}

Lapsed(rows, t) ==
    {s \in DOMAIN rows : Stored(rows[s]) /\ rows[s].expires <= t /\ FreeAt(rows[s], t)}

Evictable(rows, t) ==
    {s \in DOMAIN rows \ Lapsed(rows, t) :
        Stored(rows[s]) /\ Completed(rows[s].payload) /\ FreeAt(rows[s], t)}

\* The sets of rows _make_capacity may evict; none of them: capacity error.
Evictions(rows, capacity, t) ==
    LET count    == Cardinality({s \in DOMAIN rows : Stored(rows[s])} \ Lapsed(rows, t))
        required == IF count < capacity THEN 0 ELSE count - capacity + 1
    IN {out \in SUBSET Evictable(rows, t) : Cardinality(out) = required}

NewRow(key, request, t) ==
    [NoRow EXCEPT !.there = "stored", !.key = key, !.payload = FreshPayload(request),
                  !.expires = t + TtlSeconds]

Removed(row) == [NoRow EXCEPT !.there = "gone"]

\* An error leaves even the purge undone: the transaction rolls back.
CreateRows(rows, s, key, request, out, t) ==
    [x \in DOMAIN rows |->
        IF x = s THEN NewRow(key, request, t)
        ELSE IF x \in Lapsed(rows, t) \cup out THEN Removed(rows[x]) ELSE rows[x]]
=============================================================================
