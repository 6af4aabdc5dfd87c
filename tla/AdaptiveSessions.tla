-------------------------- MODULE AdaptiveSessions ---------------------------
(***************************************************************************)
(* The adaptive loop of routers/adaptive.py: start, snapshot and submit,   *)
(* served concurrently over the durable rows of AdaptiveRows, the          *)
(* learner's memory and the store of published learning paths.             *)
(*                                                                         *)
(* One submit takes its turn through up to eight checkpoints; a retry of   *)
(* the same request resumes at the first one missing.  A request may be    *)
(* cancelled, fail or die at any await, and the thread it was waiting for  *)
(* may still commit later.                                                 *)
(***************************************************************************)
EXTENDS AdaptiveRows

CONSTANTS Sessions,
          Learners,      \* whether the learner has been graded on the document before
          InitialTables, \* tables that earlier requests may have left
          MaxTime        \* bound of the clock

P == INSTANCE LearningPaths WITH TotalStages <- 1

ASSUME BoundAssumption == MaxTime \in Nat /\ Learners \subseteq BOOLEAN

VARIABLES now,
          maxCount,  \* max_count of this deployment
          rows,      \* rows[s]
          memory,    \* memory[s][t]: reports of turn t in the learner's memory
          audit,     \* audit[s]: turns whose decision is in the decision log
          known,     \* whether get_mastery has an answer
          published, \* published[s]: the path under the creation key of session s
          req,       \* req[a]: a request, where it is and what it has in hand
          late       \* late[a]: the request as the thread it left behind knows it

vars == <<now, maxCount, rows, memory, audit, known, published, req, late>>

Places == {"idle", "find", "open", "create", "inspect", "claim", "reread", "checkpoint", "complete",
           "grade", "memory", "mastery", "decide", "next", "release", "lookup", "publish",
           "recheck", "over"}

\* `draft`, `rev` and `stamp`: the record in hand; `after`: the checkpoint
\* being written, or how the request goes on after a release.
Requests == [pc      : Places,
             kind    : {"start", "submit", "view", None},
             session : Sessions \cup {None},
             key     : Keys \cup {None},
             ask     : Submits \cup Goals \cup {None},
             after   : {"bound", "answered", "verdict", "graded", "marked", "weighed", "decided",
                        "replay", "failed", None},
             draft   : Payload \cup {None},
             rev     : Nat,
             stamp   : Nat,
             reply   : Pages \cup {None}]

Idle == [pc |-> "idle", kind |-> None, session |-> None, key |-> None, ask |-> None,
         after |-> None, draft |-> None, rev |-> 0, stamp |-> 0, reply |-> None]

TypeOK ==
    /\ now \in 1..MaxTime /\ maxCount \in Nat
    /\ rows \in [Sessions -> Row]
    /\ memory \in [Sessions -> [1..MaxTurns -> SUBSET Reports]]
    /\ audit \in [Sessions -> SUBSET (1..MaxTurns)]
    /\ known \in BOOLEAN
    /\ \A s \in Sessions : published[s] = P!NoPath \/ published[s].candidate \in Authors
    /\ req \in [Attempts -> Requests]
    /\ late \in [Attempts -> Requests \cup {None}]

\* A stored session, with no start key that a request here uses.
InitialRow(payload, rev) ==
    [NoRow EXCEPT !.there = "stored", !.payload = payload, !.rev = rev,
                  !.updated = 1, !.expires = 1 + TtlSeconds]

\* The turns of session s that were graded before.
Before(s, t) == Stored(rows[s]) /\ rows[s].payload.scores[t] # None

Init ==
    /\ now = 1
    /\ rows \in InitialTables
    /\ LET stored == {s \in Sessions : Stored(rows[s])}
       IN maxCount = Cardinality(IF stored = {} THEN Sessions ELSE stored)
    /\ memory = [s \in Sessions |-> [t \in 1..MaxTurns |->
                    IF Before(s, t) THEN {rows[s].payload.scores[t]} ELSE {}]]
    /\ audit = [s \in Sessions |-> {t \in 1..MaxTurns : Before(s, t)}]
    /\ \E learner \in Learners :
          known = (learner \/ \E s \in Sessions, t \in 1..MaxTurns : Before(s, t))
    /\ published = [s \in Sessions |-> P!NoPath]
    /\ req = [a \in Attempts |-> Idle]
    /\ late = [a \in Attempts |-> None]

-----------------------------------------------------------------------------
Go(a, r) == req' = [req EXCEPT ![a] = r]

At(r, where) == [r EXCEPT !.pc = where]

\* Nothing was answered, or only an error that the client may retry.
Gone == [Idle EXCEPT !.pc = "over"]

Ended(r) ==
    [Gone EXCEPT !.kind = r.kind, !.session = r.session, !.key = r.key, !.ask = r.ask,
                 !.reply = r.reply]

\* _response: the path of a plan is published before the client hears of it.
Respond(r, page, updated) ==
    LET answer == [Idle EXCEPT !.kind = r.kind, !.session = r.session, !.key = r.key,
                               !.ask = r.ask, !.reply = page, !.stamp = updated]
    IN IF page.why = "plan" THEN At(answer, "lookup") ELSE Ended(answer)

SetRow(r, row) == rows' = [rows EXCEPT ![r.session] = row]

Ending(r, how) == At([r EXCEPT !.after = how, !.draft = None, !.rev = 0], "release")

Live(row) == Stored(row) /\ row.expires > now

Others == <<now, maxCount, memory, audit, known, published, late>>

Tick ==
    /\ now < MaxTime /\ now' = now + 1
    /\ UNCHANGED <<maxCount, rows, memory, audit, known, published, req, late>>

(***************************************************************************)
(* Requests                                                                *)
(***************************************************************************)
Receive(a, kind, s, k, ask, where) ==
    /\ req[a] = Idle
    /\ Go(a, [Idle EXCEPT !.pc = where, !.kind = kind, !.session = s, !.key = k, !.ask = ask])
    /\ UNCHANGED <<rows, Others>>

ReceiveStart(a) ==
    \E k \in Keys \cup {None}, goal \in Goals :
        Receive(a, "start", None, k, goal, IF k = None THEN "open" ELSE "find")

ReceiveView(a) ==
    \E s \in Sessions : Stored(rows[s]) /\ Receive(a, "view", s, None, None, "inspect")

\* A client submits the page it was last shown, or sends a request again.
Shown(row, answers) ==
    [turn |-> row.payload.page.turn, revision |-> row.rev, answers |-> answers]

\* Requests of session s that are known to have been sent.
Sent(s) ==
    {<<req[b].key, req[b].ask>> : b \in {b \in Attempts : req[b].kind = "submit" /\ req[b].session = s}}
    \cup LET p == rows[s].payload
         IN {<<k, p.receipts[k].ask>> : k \in {k \in Keys : p.receipts[k] # None}}
            \cup (IF p.pending = None THEN {} ELSE {<<p.pending.key, p.pending.ask>>})

ReceiveSubmit(a) ==
    \E s \in {s \in Sessions : Stored(rows[s])} :
        \/ \E k \in Keys \cup {None}, answers \in Answers \cup {None} :
              Receive(a, "submit", s, k, Shown(rows[s], answers), "inspect")
        \/ \E again \in Sent(s) : Receive(a, "submit", s, again[1], again[2], "inspect")

(***************************************************************************)
(* start and snapshot                                                      *)
(***************************************************************************)
FindStart(a) ==
    LET r == req[a]
        found == StartedUnder(rows, r.key)
    IN /\ r.pc = "find"
       /\ \/ found = {} /\ Go(a, At(r, "open"))
          \/ \E s \in found :
               Go(a, IF Live(rows[s]) /\ rows[s].goal = r.ask
                     THEN Respond([r EXCEPT !.session = s], rows[s].payload.page, rows[s].updated)
                     ELSE Gone)
       /\ UNCHANGED <<rows, Others>>

\* _opening_state asks the provider for a decision and what follows from it.
Open(a) ==
    LET r == req[a]
    IN /\ r.pc = "open"
       /\ \/ Go(a, Gone)
          \/ \E act \in Acts : Go(a, At([r EXCEPT !.draft = Opening(a, act)], "create"))
       /\ UNCHANGED <<rows, Others>>

\* The transaction of create() when the key is free: make room and insert.
CreateAs(r, s) ==
    /\ StartedUnder(rows, r.key) = {}
    /\ rows[s] = NoRow
    /\ \E out \in Evictions(rows, maxCount, now) :
          rows' = CreateRows(rows, s, r.key, r.ask, r.draft, out, now)

Create(a) ==
    LET r == req[a]
    IN /\ r.pc = "create"
       /\ \E s \in Sessions :
             CreateAs(r, s) /\ Go(a, Respond([r EXCEPT !.session = s], r.draft.page, now))
       /\ UNCHANGED Others

\* The key was taken meanwhile: its session is the answer.
CreateFinds(a) ==
    LET r == req[a]
    IN /\ r.pc = "create"
       /\ \E s \in StartedUnder(rows, r.key) :
             Go(a, IF Live(rows[s]) /\ rows[s].goal = r.ask
                   THEN Respond([r EXCEPT !.session = s], rows[s].payload.page, rows[s].updated)
                   ELSE Gone)
       /\ UNCHANGED <<rows, Others>>

CreateRefused(a) ==
    LET r == req[a]
    IN /\ r.pc = "create"
       /\ StartedUnder(rows, r.key) = {} /\ Evictions(rows, maxCount, now) = {}
       /\ Go(a, Gone)
       /\ UNCHANGED <<rows, Others>>

(***************************************************************************)
(* submit: whose turn it is                                                *)
(***************************************************************************)
Receipt(r, p) == IF r.key = None THEN None ELSE p.receipts[r.key]

Replayable(r, p) == Receipt(r, p) # None /\ Receipt(r, p).ask = r.ask

Conflicts(r, p) == Receipt(r, p) # None /\ Receipt(r, p).ask # r.ask

\* Mutant: whoever comes next goes on with the turn another request began.
BindableAnyone(r, p, rev) ==
    /\ ~ Done(p) /\ r.ask.turn = p.page.turn
    /\ p.pending = None => r.ask.revision = rev

\* _validate_submit_binding: the turn is free and this is its page, or it is
\* this very request that began it.
Bindable(r, p, rev) ==
    /\ ~ Done(p)
    /\ IF p.pending = None
       THEN r.ask.turn = p.page.turn /\ r.ask.revision = rev
       ELSE p.pending.ask = r.ask /\ p.pending.key = r.key

Inspect(a) ==
    LET r   == req[a]
        row == rows[r.session]
        p   == row.payload
    IN /\ r.pc = "inspect"
       /\ Go(a, CASE ~ Live(row)                   -> Gone
                  [] Live(row) /\ r.kind = "view"  -> Respond(r, p.page, row.updated)
                  [] OTHER ->
                       IF Replayable(r, p) THEN Respond(r, Receipt(r, p).page, row.updated)
                       ELSE IF Conflicts(r, p) \/ ~ Bindable(r, p, row.rev) THEN Gone
                       ELSE At(r, "claim"))
       /\ UNCHANGED <<rows, Others>>

\* After a claim refused because the session had just ended, or released
\* because the turn had just been settled.
Reread(a) ==
    LET r   == req[a]
        row == rows[r.session]
    IN /\ r.pc = "reread"
       /\ Go(a, IF ~ Live(row) THEN Gone
                ELSE IF Replayable(r, row.payload)
                THEN Respond(r, Receipt(r, row.payload).page, row.updated) ELSE Ended(r))
       /\ UNCHANGED <<rows, Others>>

(***************************************************************************)
(* submit: the pipeline                                                    *)
(***************************************************************************)
\* The answers fit the page.
Fits(r, p) == (p.page.shown = "teach") <=> (r.ask.answers = None)

Weigh(r) == At(r, IF r.draft.pending.next = None THEN "mastery" ELSE "next")

\* The input is bound, the quiz answered, and the first step missing is next.
Resume(r) ==
    CASE r.draft.pending = None ->
             IF Fits(r, r.draft)
             THEN At([r EXCEPT !.after = "bound",
                               !.draft.pending = [key |-> r.key, ask |-> r.ask, mastery |-> FALSE,
                                                  next |-> None]], "checkpoint")
             ELSE Ending(r, "failed")
      [] r.draft.pending # None /\ r.draft.page.shown = "teach" -> Weigh(r)
      [] r.draft.pending # None /\ r.draft.quiz = "active" ->
             At([r EXCEPT !.after = "answered", !.draft.quiz = "completed"], "checkpoint")
      [] OTHER -> At(r, "grade")

AfterClaim(r, p, rev) ==
    IF Replayable(r, p) THEN Ending(r, "replay")
    ELSE IF Conflicts(r, p) \/ ~ Bindable(r, p, rev) THEN Ending(r, "failed")
    ELSE Resume([r EXCEPT !.draft = p, !.rev = rev])

Claim(a) ==
    LET r   == req[a]
        row == rows[r.session]
    IN /\ r.pc = "claim" /\ ClaimAnswer(row, now) = "claimed"
       /\ SetRow(r, ClaimRow(row, a, now))
       /\ Go(a, AfterClaim(r, row.payload, row.rev))
       /\ UNCHANGED Others

\* Mutant: a session found finished is taken for somebody else's doing.
AfterRefusalAtOnce(r, answer) == IF answer = "done" THEN Ended(r) ELSE Gone

\* The session may have ended with this very request since it was read.
AfterRefusal(r, answer) ==
    CASE answer = "done" -> IF r.key = None THEN Ended(r) ELSE At(r, "reread")
      [] OTHER           -> Gone

ClaimRefused(a) ==
    LET r == req[a]
        answer == ClaimAnswer(rows[r.session], now)
    IN /\ r.pc = "claim" /\ answer # "claimed"
       /\ Go(a, AfterRefusal(r, answer))
       /\ UNCHANGED <<rows, Others>>

Onward(r) ==
    CASE r.after = "bound"    -> Resume(r)
      [] r.after = "answered" -> At(r, "grade")
      [] r.after = "verdict"  -> At([r EXCEPT !.after = "graded"], "checkpoint")
      [] r.after = "graded"   -> IF r.draft.profile THEN Weigh(r) ELSE At(r, "memory")
      [] r.after = "marked"   -> Weigh(r)
      [] r.after = "weighed"  -> At(r, "decide")
      [] r.after = "decided"  -> At(r, "next")

\* An aggregate that fails its own validation is never stored.
Checkpoint(a) ==
    LET r   == req[a]
        row == rows[r.session]
    IN /\ r.pc = "checkpoint"
       /\ SetRow(r, CheckpointRow(row, a, r.rev, r.draft, now))
       /\ Go(a, IF Holds(row, a, r.rev, r.draft, now) /\ Valid(r.draft)
                THEN Onward([r EXCEPT !.rev = @ + 1]) ELSE Ending(r, "failed"))
       /\ UNCHANGED Others

\* Mutant: the memory is written before the report is stored.
GradedUnstored(r, report) ==
    At([r EXCEPT !.draft.judged = report,
                 !.draft.last = [turn |-> r.draft.page.turn, report |-> report]], "memory")

Graded(r, report) ==
    At([r EXCEPT !.draft.judged = report, !.after = "verdict",
                 !.draft.last = [turn |-> r.draft.page.turn, report |-> report]], "checkpoint")

\* The stored report is used, or the provider asked.
Grade(a) ==
    LET r == req[a]
    IN /\ r.pc = "grade"
       /\ IF r.draft.judged # None
          THEN Go(a, At([r EXCEPT !.after = "graded",
                                  !.draft.last = [turn |-> r.draft.page.turn, report |-> r.draft.judged]],
                        "checkpoint"))
          ELSE \E gap \in Gaps : Go(a, Graded(r, [by |-> a, gap |-> gap]))
       /\ UNCHANGED <<rows, Others>>

Remembered(r) ==
    /\ memory' = [memory EXCEPT ![r.session][r.draft.page.turn] = @ \cup {r.draft.judged}]
    /\ known' = TRUE

\* commit_learning_memory, and the decision of the turn that was answered;
\* without the latter the marker is not stored.
WriteMemory(a) ==
    LET r == req[a]
    IN /\ r.pc = "memory"
       /\ Remembered(r)
       /\ \/ /\ audit' = [audit EXCEPT ![r.session] = @ \cup {r.draft.page.turn}]
             /\ Go(a, At([r EXCEPT !.after = "marked", !.draft.profile = TRUE], "checkpoint"))
          \/ Go(a, Ending(r, "failed")) /\ UNCHANGED audit
       /\ UNCHANGED <<now, maxCount, rows, published, late>>

\* mastery FALSE: get_mastery had no answer, and None is stored.
ReadMastery(a) ==
    LET r == req[a]
        t == r.draft.page.turn
    IN /\ r.pc = "mastery"
       /\ Go(a, At([r EXCEPT !.after = "weighed", !.draft.pending.mastery = known,
                             !.draft.scores = IF r.draft.page.shown = "teach" THEN @
                                              ELSE [@ EXCEPT ![t] = r.draft.last.report]],
                   "checkpoint"))
       /\ UNCHANGED <<rows, Others>>

\* A lesson is not followed by a lesson.
Decide(a) ==
    LET r == req[a]
    IN /\ r.pc = "decide"
       /\ \E act \in (IF r.draft.page.shown = "teach" THEN Acts \ {"teach"} ELSE Acts) :
             Go(a, At([r EXCEPT !.after = "decided", !.draft.pending.next = [act |-> act, by |-> a]],
                      "checkpoint"))
       /\ UNCHANGED <<rows, Others>>

Ends(p) == p.pending.next.act \in {"plan", "finish"} \/ p.page.turn = MaxTurns

WithReceipt(r, page) ==
    [k \in Keys |-> IF k = r.key THEN [ask |-> r.ask, page |-> page] ELSE r.draft.receipts[k]]

Settled(a, r) ==
    LET p    == r.draft
        ends == Ends(p)
        act  == p.pending.next.act
        page == [turn   |-> IF ends THEN p.page.turn ELSE p.page.turn + 1,
                 shown  |-> IF ends THEN "done" ELSE act,
                 why    |-> act,
                 by     |-> a,
                 report |-> Projection(p.last)]
        receipts == WithReceipt(r, page)
    IN IF ends THEN [p EXCEPT !.page = page, !.pending = None, !.receipts = receipts]
       ELSE Turn(page, p.last, p.scores, receipts)

\* The next quiz, lesson or path is generated: the turn is settled with it.
NextArtifact(a) ==
    LET r == req[a]
    IN /\ r.pc = "next"
       /\ Go(a, At([r EXCEPT !.after = None, !.draft = Settled(a, r)], "complete"))
       /\ UNCHANGED <<rows, Others>>

Complete(a) ==
    LET r   == req[a]
        row == rows[r.session]
    IN /\ r.pc = "complete"
       /\ SetRow(r, CompleteRow(row, a, r.rev, r.draft, now))
       /\ Go(a, IF Holds(row, a, r.rev, r.draft, now) /\ Valid(r.draft)
                THEN Respond(r, r.draft.page, now) ELSE Ending(r, "failed"))
       /\ UNCHANGED Others

Release(a) ==
    LET r == req[a]
    IN /\ r.pc = "release"
       /\ SetRow(r, ReleaseRow(rows[r.session], a, now))
       /\ Go(a, IF r.after = "replay" THEN At([r EXCEPT !.after = None], "reread") ELSE Gone)
       /\ UNCHANGED Others

(***************************************************************************)
(* Publishing the path of a plan                                           *)
(***************************************************************************)
\* The fingerprint covers the session, its last write and the path.
Binding(r) == <<r.session, r.stamp, r.reply.by>>

LookUp(a) ==
    LET r == req[a]
        path == published[r.session]
    IN /\ r.pc \in {"lookup", "recheck"}
       /\ Go(a, CASE path = P!NoPath -> IF r.pc = "lookup" THEN At(r, "publish") ELSE Gone
                  [] path # P!NoPath -> IF path.binding = Binding(r) THEN Ended(r) ELSE Gone)
       /\ UNCHANGED <<rows, Others>>

Publish(a) ==
    LET r == req[a]
    IN /\ r.pc = "publish"
       /\ published' = [published EXCEPT ![r.session] = P!CreatePath(@, Binding(r), r.reply.by)]
       /\ Go(a, IF P!CreateAnswer(published[r.session], Binding(r)) = "payload_mismatch"
                THEN Gone ELSE Ended(r))
       /\ UNCHANGED <<now, maxCount, rows, memory, audit, known, late>>

(***************************************************************************)
(* Cancellations, failures, deaths and the threads that outlive them       *)
(***************************************************************************)
\* The thread of the call may not have run yet when its request is gone.
MayOutlive(a, r) == UNCHANGED late \/ late' = [late EXCEPT ![a] = r]

\* A claimed session is released by the handler, cancelled or failed.
Interrupted(a) ==
    LET r == req[a]
    IN /\ r.pc \in {"checkpoint", "complete", "memory"}
       /\ MayOutlive(a, r)
       /\ Go(a, Ending(r, "failed"))
       /\ UNCHANGED <<now, maxCount, rows, memory, audit, known, published>>

ProviderFails(a) ==
    LET r == req[a]
    IN /\ r.pc \in {"grade", "next"}
       /\ Go(a, Ending(r, "failed"))
       /\ UNCHANGED <<rows, Others>>

\* claim() releases a claim that was granted too late; a failed publication
\* is looked up once more.
CallInterrupted(a) ==
    LET r == req[a]
    IN /\ r.pc \in {"claim", "create", "publish"}
       /\ MayOutlive(a, r)
       /\ Go(a, Gone) \/ (r.pc = "publish" /\ Go(a, At(r, "recheck")))
       /\ UNCHANGED <<now, maxCount, rows, memory, audit, known, published>>

Die(a) ==
    /\ req[a].pc \notin {"idle", "over"} \/ late[a] # None
    /\ Go(a, IF req[a].pc \in {"idle", "over"} THEN req[a] ELSE Gone)
    /\ late' = [late EXCEPT ![a] = None]
    /\ UNCHANGED <<now, maxCount, rows, memory, audit, known, published>>

AfterLateClaim(r) ==
    IF ClaimAnswer(rows[r.session], now) = "claimed"
    THEN [Idle EXCEPT !.pc = "release", !.session = r.session] ELSE None

LateRow(a, r) ==
    LET row == rows[r.session]
    IN CASE r.pc = "claim"      -> ClaimRow(row, a, now)
         [] r.pc = "checkpoint" -> CheckpointRow(row, a, r.rev, r.draft, now)
         [] r.pc = "complete"   -> CompleteRow(row, a, r.rev, r.draft, now)
         [] r.pc = "release"    -> ReleaseRow(row, a, now)
         [] OTHER               -> row

LateThread(a) ==
    LET r == late[a]
    IN /\ r # None
       /\ late' = [late EXCEPT ![a] = IF r.pc = "claim" THEN AfterLateClaim(r) ELSE None]
       /\ IF r.pc = "create"
          THEN UNCHANGED rows \/ \E s \in Sessions : CreateAs(r, s)
          ELSE SetRow(r, LateRow(a, r))
       /\ published' = IF r.pc = "publish"
                       THEN [published EXCEPT ![r.session] = P!CreatePath(@, Binding(r), r.reply.by)]
                       ELSE published
       /\ IF r.pc = "memory" THEN Remembered(r) ELSE UNCHANGED <<memory, known>>
       /\ UNCHANGED <<now, maxCount, audit, req>>

-----------------------------------------------------------------------------
Next ==
    \/ Tick
    \/ \E a \in Attempts :
        \/ ReceiveStart(a) \/ ReceiveView(a) \/ ReceiveSubmit(a)
        \/ FindStart(a) \/ Open(a) \/ Create(a) \/ CreateFinds(a) \/ CreateRefused(a)
        \/ Inspect(a) \/ Reread(a) \/ Claim(a) \/ ClaimRefused(a)
        \/ Checkpoint(a) \/ Grade(a) \/ WriteMemory(a) \/ ReadMastery(a) \/ Decide(a)
        \/ NextArtifact(a) \/ Complete(a) \/ Release(a) \/ LookUp(a) \/ Publish(a)
        \/ Interrupted(a) \/ ProviderFails(a) \/ CallInterrupted(a) \/ Die(a) \/ LateThread(a)

Spec == Init /\ [][Next]_vars

-----------------------------------------------------------------------------
(***************************************************************************)
(* Properties                                                              *)
(***************************************************************************)
\* What a stored session shows of the turn protocol.
TurnOf(row) ==
    LET p == row.payload
    IN IF ~ Stored(row) THEN None
       ELSE [number   |-> p.page.turn,
             shown    |-> p.page.shown,
             input    |-> IF p.pending = None THEN None ELSE <<p.pending.key, p.pending.ask>>,
             verdict  |-> IF Done(p) THEN None ELSE p.judged,
             decision |-> IF p.pending = None THEN None ELSE p.pending.next,
             receipts |-> [k \in Keys |-> IF p.receipts[k] = None THEN None ELSE p.receipts[k].ask]]

Promise == INSTANCE TurnProtocol WITH turns <- [s \in Sessions |-> TurnOf(rows[s])]

\* Every turn is bound, judged and decided once and settles under the
\* receipt of the request that bound it, through any retries, takeovers and
\* late threads (TurnProtocol).
PromiseSpec == Promise!Spec

\* A start or a submit that is sent again under its key gets the answer the
\* first one got: one session per start, one next page per turn; and a retry
\* whose turn was settled is never told only that the session is over,
\* wherever it loses the race with the settlement.
RepliesAgree ==
    \A a, b \in Attempts :
        LET r == req[a]
            q == req[b]
        IN /\ /\ r.pc = "over" /\ q.pc = "over" /\ r.reply # None /\ q.reply # None
              /\ r.key # None /\ r.key = q.key /\ r.kind = q.kind /\ r.ask = q.ask
              => CASE r.kind = "submit" -> r.session = q.session => r.reply = q.reply
                   [] r.kind = "start"  -> r.session = q.session
           /\ r.pc = "over" /\ r.kind = "submit" /\ r.reply = None /\ Stored(rows[r.session])
              => ~ Replayable(r, rows[r.session].payload)

\* The learner's memory gets one report of a turn, the one its session
\* stores; a turn is settled only with that report and its decision there.
MemoryIsCanonical ==
    \A s \in Sessions :
        LET p == rows[s].payload
        IN /\ \A t \in 1..MaxTurns : Cardinality(memory[s][t]) <= 1
           /\ Stored(rows[s]) =>
                /\ memory[s][p.page.turn] \subseteq {p.judged}
                /\ p.profile => memory[s][p.page.turn] # {} /\ p.page.turn \in audit[s]
                /\ \A t \in 1..MaxTurns : p.scores[t] # None =>
                      memory[s][t] = {p.scores[t]} /\ t \in audit[s]

\* A session publishes one path, the one its last page holds, and every
\* answer that shows a plan, first or replayed, comes with that path.
OnePath ==
    \A s \in Sessions :
        /\ published[s] # P!NoPath /\ Stored(rows[s]) =>
              rows[s].payload.page.why = "plan" /\ published[s].candidate = rows[s].payload.page.by
        /\ \A a \in Attempts :
              LET r == req[a]
              IN r.session = s /\ r.reply # None /\ r.reply.why = "plan" =>
                    /\ r.pc = "over" => published[s].candidate = r.reply.by
                    /\ r.pc = "publish" =>
                          P!CreateAnswer(published[s], Binding(r)) # "payload_mismatch"

\* A page that is shown can be answered: what a submit has to store next
\* always passes the validation of the aggregate.
PagesCanBeAnswered ==
    \A a \in Attempts : req[a].pc \in {"checkpoint", "complete"} => Valid(req[a].draft)
=============================================================================
