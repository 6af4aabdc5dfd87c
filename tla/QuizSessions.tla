---------------------------- MODULE QuizSessions -----------------------------
(***************************************************************************)
(* The Web quiz of routers/session.py: start, answer, result, grade and    *)
(* report, served concurrently over the durable rows of QuizRows, the      *)
(* stages of one learning path (LearningPaths) and the learner's memory.   *)
(*                                                                         *)
(* A request runs its calls one after the other; each call to a store is   *)
(* one transaction in a worker thread, at an instant read before the       *)
(* thread was started.  A request may be cancelled, fail or die at any     *)
(* await, and the thread it was waiting for may still commit later.        *)
(*                                                                         *)
(* A completed quiz carries two outboxes: its grade must reach the         *)
(* learner's memory (`profile`), and then the stage of its path            *)
(* (`progress`).  Every later request that reads the row repairs them.     *)
(***************************************************************************)
EXTENDS QuizRows

CONSTANTS Sessions,
          InitialTables,  \* tables that earlier requests may have left
          MaxTime         \* bound of the clock

P == INSTANCE LearningPaths

ASSUME BoundAssumption == MaxTime \in Nat \ {0}
ASSUME SessionsAssumption == IsFiniteSet(Sessions)

VARIABLES now,
          maxCount, \* max_count of this deployment
          rows,    \* rows[s]
          path,    \* the completion rows of the learning path
          memory,  \* memory[s]: reports committed to the learner's memory
          req,     \* req[a]: a request, where it is and what it has in hand
          late     \* late[a]: the request as the thread it left behind knows it

vars == <<now, maxCount, rows, path, memory, req, late>>

Calls == {"find", "refind", "inspect", "claim", "create", "checkpoint", "complete"}

Places == Calls \cup {"idle", "bind", "rebind", "exact", "provider", "memory", "stage", "learn",
                      "release", "reread", "over"}

\* Where a request goes once its write is confirmed, or how it ends after a release.
Afters == {"provider", "graded", "failed", "repair", "reread", "stale", None}

\* `since`: when its previous call returned.
Requests == [pc      : Places,
             kind    : {"start", "answer", "grade", "report", "view", None},
             session : Sessions \cup {None},
             key     : Keys \cup {None},
             ask     : StartRequests \cup [index : Questions, choice : Choices] \cup {None},
             phase   : Phases,
             after   : Afters,
             draft   : Payload \cup {None},
             since   : Nat]

ASSUME RequestsAssumption == None \notin Requests

Idle == [pc |-> "idle", kind |-> None, session |-> None, key |-> None, ask |-> None,
         phase |-> "main", after |-> None, draft |-> None, since |-> 1]

\* What write_objective_profile puts into memory: the answers compared.
Plain == [q \in Questions |-> "plain"]

\* Types, and every stored aggregate can be read back: it satisfies the state
\* machine that _row_to_record validates.
TypeOK ==
    /\ now \in 1..MaxTime /\ maxCount \in Nat
    /\ rows \in [Sessions -> Row]
    /\ \A s \in Sessions : Stored(rows[s]) => Valid(rows[s].payload)
    /\ path \in Seq([quiz : Sessions, report : [Questions -> Grades]])
    /\ memory \in [Sessions -> SUBSET ([Questions -> Grades] \cup {Plain})]
    /\ req \in [Attempts -> Requests]
    /\ late \in [Attempts -> Requests \cup {None}]

(***************************************************************************)
(* Where it starts: an empty table, or one that is full              *)
(***************************************************************************)
\* None of them has reached the learner's memory yet.
\* Key None: no key, or one that no request here uses.
InitialRow(p, k) ==
    [NoRow EXCEPT !.there = "stored", !.payload = p, !.key = k, !.expires = 1 + TtlSeconds]

\* No stage of the path has been completed: quizzes are of its first or of none.
ASSUME TablesAssumption ==
    \A table \in InitialTables :
        /\ table \in [Sessions -> Row]
        /\ \A s \in Sessions : table[s] # NoRow =>
              LET p == table[s].payload
              IN /\ p \in Payload /\ table[s] = InitialRow(p, table[s].key)
                 /\ Valid(p) /\ IsFiniteSet({k \in Keys : p.bound[k] # None})
                 /\ p.stage <= 1 /\ ~ p.profile
        /\ \A s, t \in Sessions : table[s].key = table[t].key /\ table[s].key # None => s = t

Init ==
    /\ now = 1
    /\ rows \in InitialTables
    /\ LET stored == {s \in Sessions : Stored(rows[s])}
       IN maxCount = Cardinality(IF stored = {} THEN Sessions ELSE stored)
    /\ memory = [s \in Sessions |-> {}]
    /\ path = <<>>
    /\ req = [a \in Attempts |-> Idle]
    /\ late = [a \in Attempts |-> None]

-----------------------------------------------------------------------------
Instants(r) == r.since..now

Go(a, r) == req' = [req EXCEPT ![a] = r]

At(r, where) == [r EXCEPT !.pc = where, !.since = IF where \in Calls THEN now ELSE 1]

Gone == [Idle EXCEPT !.pc = "over"]

\* What the client keeps of the answers that later answers must agree with.
Answered(r) ==
    IF r.kind \in {"start", "grade", "report"}
    THEN [Gone EXCEPT !.kind = r.kind, !.session = r.session, !.key = r.key, !.draft = r.draft]
    ELSE Gone

Token(a, r) == <<a, r.phase>>

SetRow(r, row) == rows' = [rows EXCEPT ![r.session] = row]

\* The handler releases what it claimed, however it ends.
Ending(r, how) == At([r EXCEPT !.after = how], "release")

\* A write that was not confirmed: told "stale" by the request itself,
\* swallowed by a repair.
Lost(r) == Ending(r, IF r.phase = "main" THEN "stale" ELSE "failed")

\* With a record in hand: repair the outbox that is pending, memory before
\* stage, or answer.
Repaired(r, p) ==
    CASE r.phase = "main" /\ MemoryPending(p) ->
             At([r EXCEPT !.phase = "memory", !.draft = p, !.after = None], "claim")
      [] r.phase # "path" /\ StagePending(p) ->
             At([r EXCEPT !.phase = "path", !.draft = p, !.after = None], "claim")
      [] OTHER -> Answered([r EXCEPT !.draft = p])

Tick == now < MaxTime /\ now' = now + 1 /\ UNCHANGED <<maxCount, rows, path, memory, req, late>>

(***************************************************************************)
(* Requests                                                                *)
(***************************************************************************)
Receive(a, kind, s, k, ask, where) ==
    /\ req[a] = Idle
    /\ Go(a, [Idle EXCEPT !.pc = where, !.kind = kind, !.session = s, !.key = k, !.ask = ask])
    /\ UNCHANGED <<now, maxCount, rows, path, memory, late>>

\* A practice of a stage must carry a key.
ReceiveStart(a) ==
    \E k \in Keys \cup {None}, ask \in StartRequests :
        /\ ask.stage # 0 => k # None
        /\ Receive(a, "start", None, k, ask, IF k = None THEN "bind" ELSE "find")

\* A client answers the question it was shown, or sends the last answer again.
ReceiveAnswer(a) ==
    \E s \in Sessions, k \in Keys \cup {None}, i \in Questions, c \in Choices :
        /\ Stored(rows[s]) /\ i - Len(rows[s].payload.answers) \in {0, 1}
        /\ Receive(a, "answer", s, k, [index |-> i, choice |-> c], "inspect")

\* GET of the session or its result, POST of grade or report.
ReceiveOther(a) ==
    \E s \in Sessions, kind \in {"grade", "report", "view"} :
        /\ Stored(rows[s])
        /\ Receive(a, kind, s, None, None, IF kind = "view" THEN "inspect" ELSE "claim")

(***************************************************************************)
(* start                                                                   *)
(***************************************************************************)
\* find_start, before the provider is asked and after any failure.
FindStart(a) ==
    LET r == req[a]
        found == StartedUnder(rows, r.key)
    IN /\ r.pc \in {"find", "refind"}
       /\ \/ found = {} /\ Go(a, IF r.pc = "find" THEN At(r, "bind") ELSE Gone)
          \/ \E s \in found, t \in Instants(r) :
               Go(a, IF Request(rows[s].payload) = r.ask /\ rows[s].expires > t
                     THEN Answered([r EXCEPT !.session = s]) ELSE Gone)
       /\ UNCHANGED <<now, maxCount, rows, path, memory, late>>

\* Before and after the provider writes the questions, which may fail.
BindStage(a) ==
    LET r == req[a]
        open == r.ask.stage = 0 \/ P!StageOpen(path, r.ask.stage)
    IN /\ r.pc \in {"bind", "rebind"}
       /\ \/ open /\ Go(a, At(r, IF r.pc = "bind" THEN "rebind" ELSE "create"))
          \/ (~ open \/ r.pc = "rebind") /\ Go(a, At(r, "refind"))
       /\ UNCHANGED <<now, maxCount, rows, path, memory, late>>

\* Mutant: create() inserts without looking for the key under the lock.
CreateAsUnlooked(r, s, t) ==
    /\ rows[s] = NoRow
    /\ \E out \in Evictions(rows, maxCount, t) : rows' = CreateRows(rows, s, r.key, r.ask, out, t)

\* The transaction of create() when the key is free: make room and insert.
CreateAs(r, s, t) ==
    /\ StartedUnder(rows, r.key) = {}
    /\ rows[s] = NoRow
    /\ \E out \in Evictions(rows, maxCount, t) : rows' = CreateRows(rows, s, r.key, r.ask, out, t)

Create(a) ==
    LET r == req[a]
    IN /\ r.pc = "create"
       /\ \E s \in Sessions, t \in Instants(r) :
             CreateAs(r, s, t) /\ Go(a, Answered([r EXCEPT !.session = s]))
       /\ UNCHANGED <<now, maxCount, path, memory, late>>

\* The key was taken meanwhile, or every row is active.
CreateRefused(a) ==
    LET r == req[a]
    IN /\ r.pc = "create"
       /\ \/ StartedUnder(rows, r.key) # {}
          \/ \E t \in Instants(r) : Evictions(rows, maxCount, t) = {}
       /\ Go(a, At(r, "refind"))
       /\ UNCHANGED <<now, maxCount, rows, path, memory, late>>

(***************************************************************************)
(* answer                                                                  *)
(***************************************************************************)
BoundTo(r, p) == IF r.key = None THEN None ELSE p.bound[r.key]

\* _replay_bound_answer: the answer is already stored under this key.
Replay(r, p) == BoundTo(r, p) = r.ask

Conflict(r, p) == BoundTo(r, p) \notin {None, r.ask}

\* The read that result, snapshot and answer begin with.
Inspect(a) ==
    LET r   == req[a]
        row == rows[r.session]
    IN /\ r.pc = "inspect"
       /\ \E t \in Instants(r) :
            Go(a, IF ~ Stored(row) \/ row.expires <= t THEN Gone
                  ELSE IF r.kind = "view" \/ Replay(r, row.payload) THEN Repaired(r, row.payload)
                  ELSE IF Conflict(r, row.payload) THEN Gone
                  ELSE At(r, "claim"))
       /\ UNCHANGED <<now, maxCount, rows, path, memory, late>>

\* apply_answer_to_session: only the one next question of an active quiz.
Applicable(r, p) == ~ Completed(p) /\ r.ask.index = Len(p.answers) + 1

WithAnswer(r, p) ==
    [p EXCEPT !.answers = Append(@, r.ask.choice),
              !.bound = [k \in Keys |-> IF k = r.key THEN r.ask ELSE @[k]]]

AfterAnswerClaim(r, p) ==
    IF Replay(r, p) THEN Ending([r EXCEPT !.draft = p], "repair")
    ELSE IF Conflict(r, p) THEN Ending(r, "failed")
    ELSE IF Applicable(r, p) THEN At([r EXCEPT !.draft = WithAnswer(r, p)], "complete")
    ELSE Ending(r, "stale")

(***************************************************************************)
(* Claims and writes, the same for every operation                         *)
(***************************************************************************)
\* An outbox is looked at again under the claim before it is emptied.
StillPending(r, p) == IF r.phase = "memory" THEN MemoryPending(p) ELSE StagePending(p)

AfterClaim(r, p) ==
    CASE r.phase = "main" /\ r.kind = "answer" -> AfterAnswerClaim(r, p)
      [] r.phase = "main" /\ r.kind # "answer" ->
             IF Completed(p) THEN At([r EXCEPT !.draft = p], "exact") ELSE Ending(r, "failed")
      [] r.phase # "main" ->
             IF StillPending(r, p)
             THEN At([r EXCEPT !.draft = p], IF r.phase = "memory" THEN "memory" ELSE "stage")
             ELSE Ending(r, "reread")

Claim(a) ==
    LET r   == req[a]
        row == rows[r.session]
    IN /\ r.pc = "claim"
       /\ \E t \in Instants(r) :
            /\ ClaimAnswer(row, t) = "claimed"
            /\ SetRow(r, ClaimRow(row, Token(a, r), t))
       /\ Go(a, AfterClaim(r, row.payload))
       /\ UNCHANGED <<now, maxCount, path, memory, late>>

\* A repair that finds the row busy leaves it to whoever holds it.
ClaimRefused(a) ==
    LET r == req[a]
    IN /\ r.pc = "claim"
       /\ \E t \in Instants(r) : ClaimAnswer(rows[r.session], t) # "claimed"
       /\ Go(a, IF r.phase = "main" THEN Gone ELSE Repaired(r, r.draft))
       /\ UNCHANGED <<now, maxCount, rows, path, memory, late>>

\* What a grade still lacks, in the order the handlers supply it.
AfterGrading(r, p) ==
    CASE r.phase = "path"                  -> "complete"
      [] r.phase = "main" /\ ~ p.profile   -> "memory"
      [] r.phase = "main" /\ p.profile /\ p.stage # 0 /\ ~ p.progress -> "stage"
      [] OTHER -> IF r.kind = "report" THEN "learn" ELSE "complete"

AfterCheckpoint(r) ==
    CASE r.after = "graded"   -> At([r EXCEPT !.after = None], AfterGrading(r, r.draft))
      [] r.after = "provider" -> At([r EXCEPT !.after = None], "provider")
      [] r.after = "failed"   -> Ending(r, "failed")

Checkpoint(a) ==
    LET r   == req[a]
        row == rows[r.session]
    IN /\ r.pc = "checkpoint"
       /\ \E t \in Instants(r) :
            /\ SetRow(r, CheckpointRow(row, Token(a, r), r.draft, t))
            /\ Go(a, IF Holds(row, Token(a, r), r.draft, t) THEN AfterCheckpoint(r) ELSE Lost(r))
       /\ UNCHANGED <<now, maxCount, path, memory, late>>

Complete(a) ==
    LET r   == req[a]
        row == rows[r.session]
    IN /\ r.pc = "complete"
       /\ \E t \in Instants(r) :
            /\ SetRow(r, CompleteRow(row, Token(a, r), r.draft, t))
            /\ Go(a, IF Holds(row, Token(a, r), r.draft, t) THEN Repaired(r, r.draft) ELSE Lost(r))
       /\ UNCHANGED <<now, maxCount, path, memory, late>>

Release(a) ==
    LET r == req[a]
    IN /\ r.pc = "release"
       /\ SetRow(r, ReleaseRow(rows[r.session], Token(a, r)))
       /\ Go(a, CASE r.after = "repair" -> Repaired(r, r.draft)
                  [] r.after = "reread" -> At([r EXCEPT !.after = None], "reread")
                  [] OTHER              -> Gone)
       /\ UNCHANGED <<now, maxCount, path, memory, late>>

Reread(a) ==
    LET r == req[a]
    IN /\ r.pc = "reread"
       /\ Go(a, Repaired(r, IF Stored(rows[r.session]) THEN rows[r.session].payload ELSE r.draft))
       /\ UNCHANGED <<now, maxCount, rows, path, memory, late>>

(***************************************************************************)
(* grade and report                                                        *)
(***************************************************************************)
\* The cached report is used, or the answers that need no provider graded.
GradeExact(a) ==
    LET r      == req[a]
        graded == [r.draft EXCEPT !.grades = ExactGrades(r.draft)]
    IN /\ r.pc = "exact"
       /\ Go(a, IF r.draft.reported THEN At(r, AfterGrading(r, r.draft))
                ELSE IF graded # r.draft
                THEN At([r EXCEPT !.draft = graded, !.after = "provider"], "checkpoint")
                ELSE At(r, "provider"))
       /\ UNCHANGED <<now, maxCount, rows, path, memory, late>>

\* The provider is asked about all that is missing and may fail on some;
\* what it did answer is kept.  With nothing missing the report is made.
GradeByProvider(a) ==
    LET r       == req[a]
        missing == Missing(r.draft)
    IN /\ r.pc = "provider"
       /\ \/ /\ missing = {}
             /\ Go(a, At([r EXCEPT !.draft.reported = TRUE, !.after = "graded"], "checkpoint"))
          \/ \E graded \in SUBSET missing \ {{}} :
               Go(a, At([r EXCEPT !.draft.grades =
                             [q \in Questions |-> IF q \in graded THEN a ELSE @[q]],
                                  !.after = IF graded = missing THEN "provider" ELSE "failed"],
                        "checkpoint"))
       /\ UNCHANGED <<now, maxCount, rows, path, memory, late>>

Marked(r) ==
    IF r.phase = "main" THEN At([r EXCEPT !.draft.profile = TRUE, !.after = "graded"], "checkpoint")
                        ELSE At([r EXCEPT !.draft.profile = TRUE], "complete")

\* commit_learning_memory marks the draft; the next write makes it durable.
WriteMemory(a) ==
    LET r == req[a]
    IN /\ r.pc = "memory"
       /\ memory' = [memory EXCEPT ![r.session] = @ \cup {Report(r.draft)}]
       /\ Go(a, Marked(r))
       /\ UNCHANGED <<now, maxCount, rows, path, late>>

StageAnswer(r) == P!CompletionAnswer(path, r.draft.stage, r.session, r.draft.grades)

CompleteStage(a) ==
    LET r == req[a]
    IN /\ r.pc = "stage"
       /\ path' = P!CompleteStageRow(path, r.draft.stage, r.session, r.draft.grades)
       /\ Go(a, IF StageAnswer(r) \in P!Accepted
                THEN At([r EXCEPT !.draft.progress = TRUE, !.after = "graded"], "checkpoint")
                ELSE Ending(r, "failed"))
       /\ UNCHANGED <<now, maxCount, rows, memory, late>>

WriteReport(a) ==
    LET r == req[a]
    IN /\ r.pc = "learn"
       /\ Go(a, At([r EXCEPT !.draft.learned = IF @ = None THEN a ELSE @], "complete"))
       /\ UNCHANGED <<now, maxCount, rows, path, memory, late>>

(***************************************************************************)
(* Cancellations, failures, deaths and the threads that outlive them       *)
(***************************************************************************)
\* The thread of the call may not have run yet when its request is gone.
MayOutlive(a, r) ==
    \/ UNCHANGED late
    \/ \E t \in Instants(r) : late' = [late EXCEPT ![a] = [r EXCEPT !.since = t]]

\* A claimed session is released by the handler, cancelled or failed.
Interrupted(a) ==
    LET r == req[a]
    IN /\ r.pc \in {"checkpoint", "complete", "memory", "stage"}
       /\ MayOutlive(a, r)
       /\ Go(a, Ending(r, "failed"))
       /\ UNCHANGED <<now, maxCount, rows, path, memory>>

ProviderFails(a) ==
    LET r == req[a]
    IN /\ r.pc \in {"provider", "learn"}
       /\ Go(a, Ending(r, "failed"))
       /\ UNCHANGED <<now, maxCount, rows, path, memory, late>>

\* claim() releases a claim that was granted too late; an error of create()
\* looks for the row it may have left.
CallInterrupted(a) ==
    LET r == req[a]
    IN /\ r.pc \in {"claim", "create"}
       /\ MayOutlive(a, r)
       /\ Go(a, Gone) \/ (r.pc = "create" /\ Go(a, At(r, "refind")))
       /\ UNCHANGED <<now, maxCount, rows, path, memory>>

Die(a) ==
    /\ req[a].pc \notin {"idle", "over"} \/ late[a] # None
    /\ Go(a, IF req[a].pc \in {"idle", "over"} THEN req[a] ELSE Gone)
    /\ late' = [late EXCEPT ![a] = None]
    /\ UNCHANGED <<now, maxCount, rows, path, memory>>

AfterLateClaim(r) ==
    IF ClaimAnswer(rows[r.session], r.since) = "claimed" THEN [r EXCEPT !.pc = "release"] ELSE None

LateRow(a, r) ==
    LET row == rows[r.session]
    IN CASE r.pc = "claim"      -> ClaimRow(row, Token(a, r), r.since)
         [] r.pc = "checkpoint" -> CheckpointRow(row, Token(a, r), r.draft, r.since)
         [] r.pc = "complete"   -> CompleteRow(row, Token(a, r), r.draft, r.since)
         [] r.pc = "release"    -> ReleaseRow(row, Token(a, r))
         [] OTHER               -> row

LateThread(a) ==
    LET r == late[a]
    IN /\ r # None
       /\ late' = [late EXCEPT ![a] = IF r.pc = "claim" THEN AfterLateClaim(r) ELSE None]
       /\ IF r.pc = "create"
          THEN UNCHANGED rows \/ \E s \in Sessions : CreateAs(r, s, r.since)
          ELSE SetRow(r, LateRow(a, r))
       /\ path' = IF r.pc = "stage"
                  THEN P!CompleteStageRow(path, r.draft.stage, r.session, r.draft.grades) ELSE path
       /\ memory' = IF r.pc = "memory"
                    THEN [memory EXCEPT ![r.session] = @ \cup {Report(r.draft)}] ELSE memory
       /\ UNCHANGED <<now, maxCount, req>>

-----------------------------------------------------------------------------
Next ==
    \/ Tick
    \/ \E a \in Attempts :
        \/ ReceiveStart(a) \/ ReceiveAnswer(a) \/ ReceiveOther(a)
        \/ FindStart(a) \/ BindStage(a) \/ Create(a) \/ CreateRefused(a) \/ Inspect(a)
        \/ Claim(a) \/ ClaimRefused(a) \/ Checkpoint(a) \/ Complete(a) \/ Release(a) \/ Reread(a)
        \/ GradeExact(a) \/ GradeByProvider(a) \/ WriteMemory(a) \/ CompleteStage(a)
        \/ WriteReport(a)
        \/ Interrupted(a) \/ ProviderFails(a) \/ CallInterrupted(a) \/ Die(a) \/ LateThread(a)

Spec == Init /\ [][Next]_vars

-----------------------------------------------------------------------------
\* What is stored only grows.
Extends(old, new) ==
    /\ Len(new.answers) >= Len(old.answers)
    /\ SubSeq(new.answers, 1, Len(old.answers)) = old.answers
    /\ \A k \in Keys : old.bound[k] # None => new.bound[k] = old.bound[k]
    /\ \A q \in Questions : old.grades[q] # None => new.grades[q] = old.grades[q]
    /\ old.learned # None => new.learned = old.learned
    /\ old.reported => new.reported
    /\ old.profile => new.profile
    /\ old.progress => new.progress

(***************************************************************************)
(* The inductive invariant behind the safety properties                    *)
(***************************************************************************)
\* A request works under a claim of its own.
Working == {"exact", "provider", "checkpoint", "complete", "memory", "stage", "learn"}

Grading == {"grade", "report"}

\* The aggregate in hand is one that was stored.
Confirmed(r) ==
    /\ r.draft # None /\ r.pc \notin {"checkpoint", "complete"}
    /\ r.pc = "release" => r.after \in {"repair", "reread"}

\* An aggregate of session s, stored or in hand.
Sound(s, p) ==
    /\ p \in Payload /\ Valid(p) /\ IsFiniteSet({k \in Keys : p.bound[k] # None})
    /\ p.stage <= Len(path) + 1
    /\ p.profile => memory[s] # {}
    /\ p.progress => p.stage <= Len(path)

\* What a request carries at each place.
Shaped(r) ==
    /\ r.since <= now
    /\ r.pc = "idle" => r = Idle
    /\ r.pc \in {"find", "refind", "bind", "rebind", "create"} =>
           r.kind = "start" /\ r.ask \in StartRequests /\ r.draft = None
    /\ r.pc = "create" => r.ask.stage <= Len(path) + 1
    /\ r.pc \in Working \cup {"inspect", "claim", "release", "reread"} =>
           /\ r.kind \in {"answer", "view"} \cup Grading /\ r.session \in Sessions
           /\ rows[r.session].there # "never"
           /\ r.kind = "answer" => r.ask \in [index : Questions, choice : Choices]
    /\ r.pc \in {"inspect", "claim"} => r.after = None
    /\ r.pc = "inspect" => r.kind \in {"answer", "view"} /\ r.phase = "main" /\ r.draft = None
    /\ r.pc = "claim" => (r.phase = "main" <=> r.draft = None) /\ (r.phase = "main" => r.kind # "view")
    /\ r.pc \in Working \cup {"reread"} => r.draft # None
    /\ r.pc \in {"exact", "provider", "learn"} => r.phase = "main" /\ r.kind \in Grading
    /\ r.pc = "reread" => r.phase # "main"
    /\ r.pc = "release" /\ r.after \in {"repair", "reread"} => r.draft # None
    /\ r.pc = "release" /\ r.after = "reread" => r.phase # "main"
    /\ r.pc = "release" /\ r.after = "repair" => r.phase = "main" /\ r.kind = "answer"
    /\ r.pc = "over" =>
           /\ r.kind \in {None, "start"} \cup Grading
           /\ r.kind \in Grading <=> r.draft # None

\* How far the aggregate in hand has come.
Graded(r) ==
    /\ r.pc \in {"exact", "provider", "memory"} => Completed(r.draft)
    /\ r.pc = "checkpoint" =>
           /\ r.phase # "memory" /\ r.after \in {"provider", "failed", "graded"}
           /\ r.phase = "main" => r.kind \in Grading
           /\ r.phase = "path" => r.after = "graded"
           /\ IF r.after = "graded" THEN r.draft.reported ELSE Completed(r.draft)
    /\ r.pc = "memory" => r.phase # "path" /\ (r.draft.reported \/ (r.draft.stage = 0 /\ ~ r.draft.short))
    /\ r.pc = "stage" => r.phase # "memory" /\ r.draft.stage # 0 /\ r.draft.reported /\ r.draft.profile
    /\ r.pc \in {"memory", "stage"} /\ r.phase = "main" => r.kind \in Grading
    /\ /\ r.kind \in Grading /\ r.draft # None /\ (Confirmed(r) \/ r.pc = "complete")
       /\ r.pc \notin {"exact", "provider"}
       => r.draft.reported

\* What a request has in hand is what its session stored, or goes on from it
\* for as long as its claim is not lost.
InHand(a, r) ==
    r.draft # None =>
        /\ r.session \in Sessions /\ rows[r.session].there # "never"
        /\ Sound(r.session, r.draft)
        /\ Stored(rows[r.session]) =>
              /\ Request(r.draft) = Request(rows[r.session].payload)
              /\ Confirmed(r) => Extends(r.draft, rows[r.session].payload)
              /\ r.pc \in Working /\ rows[r.session].token = Token(a, r) =>
                     Extends(rows[r.session].payload, r.draft)

Fine(a, r) == Shaped(r) /\ Graded(r) /\ InHand(a, r)

\* A request that left a thread behind has nothing more to do than to let go.
Left(a) ==
    CASE late[a].pc \in {"claim", "release"} -> req[a].pc = "over"
      [] late[a].pc = "create" -> req[a].pc \in {"over", "refind"}
      [] OTHER -> /\ late[a].pc \in {"checkpoint", "complete", "memory", "stage"}
                  /\ \/ req[a].pc = "over"
                     \/ /\ req[a].pc = "release" /\ req[a].after = "failed"
                        /\ req[a].session = late[a].session /\ req[a].phase = late[a].phase

RequestsAreFine ==
    \A a \in Attempts :
        Fine(a, req[a]) /\ (late[a] # None => Fine(a, late[a]) /\ Left(a))

\* Every token stored is of the claim its request is at, or of one that is gone.
TokensAreOfClaims ==
    \A s \in Sessions, a \in Attempts, phase \in Phases :
        Stored(rows[s]) /\ rows[s].token = <<a, phase>> =>
            \/ req[a].pc = "over"
            \/ /\ req[a].pc \in Working \cup {"release"}
               /\ req[a].session = s /\ req[a].phase = phase

\* A session that is not stored yet, or not graded yet, has left no grade anywhere.
RowsAreSound ==
    \A s \in Sessions :
        /\ rows[s].there = "never" => memory[s] = {}
        /\ rows[s].there = "never" \/ (Stored(rows[s]) /\ ~ rows[s].payload.reported) =>
               /\ memory[s] \subseteq {Plain}
               /\ \A n \in DOMAIN path : path[n].quiz # s
        /\ Stored(rows[s]) =>
               /\ Sound(s, rows[s].payload)
               /\ Plain \in memory[s] => rows[s].payload.stage = 0 /\ ~ rows[s].payload.short

KeysAreOfOne ==
    /\ \A s, t \in Sessions :
          /\ Stored(rows[s]) /\ Stored(rows[t])
          /\ rows[s].key # None /\ rows[s].key = rows[t].key
          => s = t
    /\ \A a \in Attempts :
          req[a].pc = "over" /\ req[a].kind = "start" /\ req[a].key # None =>
              /\ req[a].session \in Sessions /\ rows[req[a].session].there # "never"
              /\ Stored(rows[req[a].session]) => rows[req[a].session].key = req[a].key

\* The one verdict of each session: its stage, and the grades of its report.
Verdicts == [Sessions -> [stage : 0..TotalStages, grades : [Questions -> Grades]]]

Says(verdicts, r) ==
    r.draft # None =>
        /\ r.draft.stage = verdicts[r.session].stage
        /\ Confirmed(r) /\ r.draft.reported => r.draft.grades = verdicts[r.session].grades

AllSay(verdicts) ==
    /\ \A s \in Sessions :
          /\ Stored(rows[s]) =>
                /\ rows[s].payload.stage = verdicts[s].stage
                /\ rows[s].payload.reported => rows[s].payload.grades = verdicts[s].grades
          /\ memory[s] \subseteq {verdicts[s].grades, Plain}
          /\ Plain \in memory[s] => verdicts[s].stage = 0
    /\ \A n \in DOMAIN path : verdicts[path[n].quiz] = [stage |-> n, grades |-> path[n].report]
    /\ \A a \in Attempts : Says(verdicts, req[a]) /\ (late[a] # None => Says(verdicts, late[a]))

OneVerdict == \E verdicts \in Verdicts : AllSay(verdicts)

StagesAreRemembered ==
    \A n \in DOMAIN path :
        /\ path[n].report \in memory[path[n].quiz]
        /\ Stored(rows[path[n].quiz]) => rows[path[n].quiz].payload.profile

StoredSessions == {s \in Sessions : Stored(rows[s])}

IInv == /\ TypeOK /\ RequestsAreFine /\ TokensAreOfClaims /\ RowsAreSound /\ KeysAreOfOne
        /\ OneVerdict /\ StagesAreRemembered /\ Cardinality(StoredSessions) <= maxCount

(***************************************************************************)
(* Properties                                                              *)
(***************************************************************************)
\* Nothing stored is lost to a request that read the row before: answers,
\* keys, grades, reports and outbox markers of a session only grow, whoever
\* writes and however late.
NothingStoredIsLost ==
    [][\A s \in Sessions : Stored(rows[s]) /\ Stored(rows'[s]) =>
          Extends(rows[s].payload, rows'[s].payload)]_vars

\* Starts of one key lead to one session for as long as it is stored, and
\* each grade or report that a client was given is the one verdict its
\* session keeps.
AnswersAgree ==
    /\ \A s, t \in Sessions :
          /\ Stored(rows[s]) /\ Stored(rows[t])
          /\ rows[s].key # None /\ rows[s].key = rows[t].key
          => s = t
    /\ \A a \in Attempts :
          LET r == req[a]
          IN /\ r.pc = "over" /\ r.kind = "start" /\ r.key # None /\ Stored(rows[r.session]) =>
                   StartedUnder(rows, r.key) = {r.session}
             /\ r.pc = "over" /\ r.kind \in {"grade", "report"} =>
                   /\ Stored(rows[r.session]) => Extends(r.draft, rows[r.session].payload)
                   /\ \A b \in Attempts :
                         /\ req[b].pc = "over" /\ req[b].kind \in {"grade", "report"}
                         /\ req[b].session = r.session
                         => req[b].draft.grades = r.draft.grades

\* The learner's memory gets one provider-made report per quiz, the one the
\* session stores; a comparison alone is never committed for a quiz with
\* free text or a stage; and a stored marker means the memory has it.
MemoryIsCanonical ==
    \A s \in Sessions :
        LET p == rows[s].payload
        IN /\ Cardinality(memory[s] \ {Plain}) <= 1
           /\ Stored(rows[s]) =>
                 /\ p.profile => memory[s] # {}
                 /\ p.reported => memory[s] \subseteq {p.grades, Plain}
                 /\ p.short \/ p.stage # 0 => Plain \notin memory[s]

\* A stage is completed by a quiz of that stage whose report the memory
\* already has, and the quiz it belongs to never finds it locked.
StageByItsGrade ==
    /\ \A n \in DOMAIN path :
          /\ path[n].report \in memory[path[n].quiz]
          /\ Stored(rows[path[n].quiz]) =>
                LET p == rows[path[n].quiz].payload
                IN p.stage = n /\ p.profile /\ p.grades = path[n].report
    /\ \A a \in Attempts : req[a].pc = "stage" => StageAnswer(req[a]) \in P!Accepted
    /\ \A s \in Sessions : Stored(rows[s]) /\ rows[s].payload.progress =>
          Len(path) >= rows[s].payload.stage

\* While a lease holds in real time nobody but its owner ends it, however
\* late the clock reading of a rival, a purge or an eviction.
LeaseEndsByItsOwner ==
    [][\A s \in Sessions :
          /\ Stored(rows[s]) /\ rows[s].token # None /\ rows[s].lease > now
          /\ rows'[s].token # rows[s].token
          => LET owner == rows[s].token[1]
             IN req[owner] # req'[owner] \/ late[owner] # late'[owner]]_vars

\* The table never outgrows its limit, and an unfinished quiz leaves it
\* only when it has expired.
ActiveSessionsStay ==
    [][/\ Cardinality({s \in Sessions : Stored(rows'[s])}) <= maxCount
       /\ \A s \in Sessions : Stored(rows[s]) /\ ~ Stored(rows'[s]) =>
             Completed(rows[s].payload) \/ rows[s].expires <= now]_vars

\* What a learner did stays: in its row, and the row in the table.
WorkIsKept == NothingStoredIsLost /\ ActiveSessionsStay
=============================================================================
