------------------------------ MODULE AgentLoop ------------------------------
(***************************************************************************)
(* The rounds of a tool-calling agent: services/tool_loop.py under the     *)
(* loops of routers/autonomous.py and routers/chat.py, the policies of     *)
(* services/tool_registry.py and the snapshot of a pause                   *)
(* (services/autonomous_snapshot.py).                                      *)
(*                                                                         *)
(* In every round the model answers with text or with a batch of calls.    *)
(* What it sees next time is the transcript, which must hold one answer to *)
(* each call.  A handler that may not be repeated is kept from running     *)
(* twice by a reservation in the memory of the run, and from running at    *)
(* all once a suspicious text was read; both, like the rounds used, must   *)
(* survive the pauses in which the agent waits for the learner, after      *)
(* which another run goes on from the snapshot.                            *)
(*                                                                         *)
(* One conversation, and one run of it at a time: leases and receipts are  *)
(* in AutonomousStart and AutonomousContinue.  Left out: answers,          *)
(* citations, the knowledge base's registry, the wording that trips the    *)
(* leak check, and call ids that come back in a later round.               *)
(***************************************************************************)
EXTENDS Naturals, Sequences, FiniteSets

CONSTANTS Grades,          \* what a graded answer may say
          MaxRounds,       \* MAX_AUTONOMOUS_ROUNDS
          MaxChatRounds,   \* MAX_TOOL_ROUNDS
          MaxBatch,        \* bound of the calls in one answer of the model
          MaxReservations, \* _POLICY_MAX_RESERVATIONS
          None

ASSUME RoundsAssumption == MaxRounds \in Nat \ {0} /\ MaxChatRounds \in Nat \ {0}
ASSUME NoneAssumption == None \notin Grades

VARIABLES registry, \* the live tools, which a reconnecting server may replace
          kind,     \* which endpoint runs
          pc,
          run,      \* what the run has in hand
          policy,   \* what the registry remembers of the run
          talk,     \* the transcript and the trajectory
          stored,   \* the snapshot of the pause
          marked,   \* the claim of the pause has crossed the progress barrier
          wrote     \* how often each grade went into the learner's profile

vars == <<registry, kind, pc, run, policy, talk, stored, marked, wrote>>

(***************************************************************************)
(* Tools.  `profile` is read, but of unknown effect.                       *)
(***************************************************************************)
Business == {"search", "grade", "update", "profile"}
Controls == {"finalize", "ask_user"}
Modes == {"read_only", "non_idempotent", "unknown"}

NativeTools == [search |-> "read_only", grade |-> "read_only",
                update |-> "non_idempotent", profile |-> "unknown"]

Contract == registry.mode

Replayable(mode) == mode = "read_only"

\* What the model may ask for.  An update is of a grade.
Calls == {[tool |-> t, args |-> "fine"] : t \in {"search", "grade", "profile", "other"}}
    \cup {[tool |-> "update", args |-> x] : x \in Grades \cup {"missing", "broken"}}
    \cup {[tool |-> "search", args |-> "foreign"], [tool |-> "update", args |-> "foreign"]}
    \cup {[tool |-> t, args |-> x] : t \in Controls, x \in {"fine", "bad"}}

Batches == UNION {[1..n -> Calls] : n \in 1..MaxBatch}

(***************************************************************************)
(* State                                                                   *)
(***************************************************************************)
\* unanswered: calls in the transcript without an answer; grade: the last
\* grade that was answered; updates: those the trajectory says were carried
\* out; suspicious: whether some observation is.
NewTalk == [unanswered |-> 0, grade |-> None, updates |-> {}, suspicious |-> FALSE]

NewPolicy == [reserved |-> {}, tainted |-> FALSE, attempted |-> FALSE]

\* left: calls of the batch still to do; prior: the grade that was known
\* before the batch; allowed, bound: tools a restricted run may call, and
\* what they were when the round began; mode: of the tool in flight, read
\* once; dispatching, dispatched: some call was, in this or an earlier round.
NewRun == [round |-> 0, left |-> <<>>, prior |-> None, allowed |-> Business,
           bound |-> registry, mode |-> "read_only", dispatching |-> FALSE, dispatched |-> FALSE]

Running == {"round", "model", "batch", "barrier", "handler", "close"}

Registries == [mode : [Business -> Modes], version : Nat]

Talks == [unanswered : Nat, grade : Grades \cup {None},
          updates : SUBSET (Grades \cup {"missing"}), suspicious : BOOLEAN]

Policies == [reserved : SUBSET Grades, tainted : BOOLEAN, attempted : BOOLEAN]

Runs == [round : Nat, left : Seq(Calls), prior : Grades \cup {None},
         allowed : SUBSET Business, bound : Registries, mode : Modes,
         dispatching : BOOLEAN, dispatched : BOOLEAN]

Snapshots == [talk : Talks, round : Nat, contract : [Business -> Modes],
              reserved : SUBSET Grades, tainted : BOOLEAN]

TypeOK ==
    /\ registry \in Registries
    /\ kind \in {"agent", "resume", "chat", "reader"}
    /\ pc \in Running \cup {"idle", "paused", "over"}
    /\ run \in Runs /\ policy \in Policies /\ talk \in Talks
    /\ stored \in Snapshots \cup {None}
    /\ marked \in BOOLEAN
    /\ wrote \in [Grades -> Nat]

Init ==
    /\ registry = [mode |-> NativeTools, version |-> 0]
    /\ kind \in {"agent", "chat", "reader"}
    /\ pc = "idle"
    /\ run = NewRun /\ policy = NewPolicy /\ talk = NewTalk
    /\ stored = None /\ marked = FALSE
    /\ wrote = [g \in Grades |-> 0]

Restricted == kind = "reader"

Autonomous == kind \in {"agent", "resume"}

Rounds == IF Autonomous THEN MaxRounds ELSE MaxChatRounds

\* An MCP server comes back with other tools under a name already taken.
Replace ==
    /\ registry.version = 0
    /\ \E mode \in {"read_only", "unknown"} :
        registry' = [mode |-> [registry.mode EXCEPT !["search"] = mode], version |-> 1]
    /\ UNCHANGED <<kind, pc, run, policy, talk, stored, marked, wrote>>

(***************************************************************************)
(* How a run ends.  The memory of the registry goes with it.               *)
(***************************************************************************)
Leave(next) ==
    /\ pc' = next
    /\ run' = [NewRun EXCEPT !.bound = run.bound] /\ policy' = NewPolicy /\ talk' = NewTalk

\* The pause stays, to be continued again, if nothing happened since.
Return(clean) ==
    IF kind = "resume" /\ clean
    THEN /\ Leave("paused") /\ marked' = FALSE /\ UNCHANGED stored
    ELSE /\ Leave("over") /\ marked' = FALSE /\ stored' = None

\* An error, or the cancellation of the request.
Abort == Return(~ marked /\ ~ run.dispatched /\ ~ policy.attempted)

\* The claim or the receipt has passed to somebody else, or the process dies:
\* only what is durable counts.
Cut == Return(~ marked)

Answered == Leave("over") /\ stored' = None /\ marked' = FALSE

-----------------------------------------------------------------------------
(***************************************************************************)
(* A request, and the continuation of a pause                              *)
(***************************************************************************)
Begin ==
    /\ pc = "idle"
    /\ pc' = "round"
    /\ run' = [NewRun EXCEPT !.allowed = IF Restricted
                                         THEN {t \in Business : registry.mode[t] = "read_only"}
                                         ELSE Business]
    /\ UNCHANGED <<registry, kind, policy, talk, stored, marked, wrote>>

\* Mutant: the memory of the registry stays behind.
RestoredEmpty == NewPolicy

Restored == [NewPolicy EXCEPT !.reserved = stored.reserved, !.tainted = stored.tainted]

\* The reply is the answer the snapshot waits for; sanitizing it may have
\* taken the last grade out of the transcript.
Recalled == {[stored.talk EXCEPT !.unanswered = 0, !.grade = grade] :
                grade \in {stored.talk.grade, None}}

Resume ==
    /\ pc = "paused"
    /\ kind' = "resume"
    /\ IF stored.contract = Contract
       THEN /\ pc' = IF stored.round < MaxRounds THEN "round" ELSE "close"
            /\ run' = [NewRun EXCEPT !.round = stored.round]
            /\ policy' = Restored
            /\ talk' \in Recalled
            /\ UNCHANGED stored
       ELSE Leave("over") /\ stored' = None
    /\ UNCHANGED <<registry, marked, wrote>>

\* The claim's lease and the receipt are renewed before every round.
Ask ==
    /\ pc = "round"
    /\ \/ /\ pc' = "model"
          /\ run' = [run EXCEPT !.prior = talk.grade, !.bound = registry]
          /\ UNCHANGED <<policy, talk, stored, marked>>
       \/ Cut
    /\ UNCHANGED <<registry, kind, wrote>>

\* The provider fails, or the request is cancelled, wherever it waits.
Fail ==
    /\ pc \in Running
    /\ Abort
    /\ UNCHANGED <<registry, kind, wrote>>

Crash ==
    /\ pc \in Running
    /\ Cut
    /\ UNCHANGED <<registry, kind, wrote>>

NextRound ==
    IF run.round + 1 < Rounds THEN "round" ELSE IF Autonomous THEN "close" ELSE "over"

\* Mutant: a round in which nothing was done does not count.
EndRoundIfUsed ==
    /\ pc' = IF run.dispatching THEN NextRound ELSE "round"
    /\ run' = [run EXCEPT !.round = IF run.dispatching THEN @ + 1 ELSE @, !.left = <<>>,
                          !.dispatched = run.dispatched \/ run.dispatching, !.dispatching = FALSE]

EndRound ==
    /\ pc' = NextRound
    /\ run' = [run EXCEPT !.round = @ + 1, !.left = <<>>,
                          !.dispatched = run.dispatched \/ run.dispatching, !.dispatching = FALSE]

\* The model answers without a call, or after the last round, or the
\* question it wants to ask must not be shown.
Text ==
    /\ pc \in {"model", "close"}
    /\ Answered
    /\ UNCHANGED <<registry, kind, wrote>>

-----------------------------------------------------------------------------
(***************************************************************************)
(* A batch                                                                 *)
(***************************************************************************)
ControlTools == IF Autonomous THEN Controls ELSE {}

Mixed(batch) == Len(batch) > 1 /\ \E i \in DOMAIN batch : batch[i].tool \in ControlTools

\* The arguments name the request's document and learner.
InScope(c) == c.args # "foreign"

\* Mutant: it goes by the name.
SameName(t) == ~ Restricted \/ Replayable(run.bound.mode[t])

\* The tool is what it was before the model was asked.
SameTool(t) == ~ Restricted \/ (Replayable(run.bound.mode[t])
                                /\ (t = "search" => registry.version = run.bound.version))

\* An update is of the grade that was known before the batch, if one was.
Effective(c) ==
    IF c.tool = "update" /\ c.args \in Grades /\ run.prior # None
    THEN [c EXCEPT !.args = run.prior]
    ELSE c

\* Whether a call may get as far as its handler.
Passes(c) ==
    /\ c.args # "broken"
    /\ c.tool \in run.allowed
    /\ InScope(c) /\ SameTool(c.tool)

\* Calls that share an id, or have none: nothing of the batch is kept.
RefuseIds ==
    /\ pc = "model"
    /\ EndRound
    /\ UNCHANGED <<registry, kind, policy, talk, stored, marked, wrote>>

\* The claim is renewed once more if anything may be dispatched.
Take ==
    /\ pc = "model"
    /\ \E batch \in Batches :
        IF Mixed(batch)
        THEN EndRound /\ UNCHANGED talk    \* every call is answered: rejected
        ELSE /\ pc' = "batch"
             /\ run' = [run EXCEPT !.left = [i \in DOMAIN batch |-> Effective(batch[i])]]
             /\ talk' = [talk EXCEPT !.unanswered = Len(batch)]
    /\ UNCHANGED <<registry, kind, policy, stored, marked, wrote>>

Call == Head(run.left)

\* The call gets its answer, and the next one is up.
Reply(observed) ==
    /\ talk' = [observed EXCEPT !.unanswered = talk.unanswered - 1]
    /\ pc' = "batch"
    /\ run' = [run EXCEPT !.left = Tail(@)]

\* Mutant: a refusal is recorded for the caller only.
BlockUnanswered ==
    /\ pc' = "batch"
    /\ run' = [run EXCEPT !.left = Tail(@)]
    /\ UNCHANGED talk

\* Refused: the model and the caller are told why.
Block == Reply(talk)

Observe(observed) ==
    /\ talk' = [observed EXCEPT !.unanswered = talk.unanswered - 1]
    /\ pc' = "batch"
    /\ run' = [run EXCEPT !.left = Tail(@), !.mode = "read_only", !.dispatching = TRUE]

\* What the trajectory will say: carried out, unless a reason is noted.
Recorded == IF Call.tool = "update" THEN [talk EXCEPT !.updates = @ \cup {Call.args}] ELSE talk

\* An error the model is told of as the result of its call.
Spoiled(observed) == IF Call.tool = "grade" THEN [observed EXCEPT !.grade = None] ELSE observed

EndBatch ==
    /\ pc = "batch" /\ run.left = <<>>
    /\ EndRound
    /\ UNCHANGED <<registry, kind, policy, talk, stored, marked, wrote>>

Refuse ==
    /\ pc = "batch" /\ run.left # <<>>
    /\ Call.tool \notin ControlTools
    /\ ~ Passes(Call)
    /\ Block
    /\ UNCHANGED <<registry, kind, policy, stored, marked, wrote>>

\* Arguments its schema does not allow are answered by the registry itself.
Misfit ==
    /\ pc = "batch" /\ run.left # <<>>
    /\ Call.tool \in Business /\ Passes(Call) /\ Call.args = "missing"
    /\ Observe(Recorded)
    /\ UNCHANGED <<registry, kind, policy, stored, marked, wrote>>

Tainted(c) == policy.tainted /\ ~ Replayable(registry.mode[c.tool])

Reserves(c) == c.tool = "update"

Denied(c) ==
    \/ Tainted(c)
    \/ Reserves(c) /\ (c.args \in policy.reserved \/ Cardinality(policy.reserved) >= MaxReservations)

\* The policies of the registry, decided and noted without an await.
Dispatch ==
    /\ pc = "batch" /\ run.left # <<>>
    /\ Call.tool \in Business /\ Passes(Call) /\ Call.args # "missing"
    /\ IF Denied(Call)
       THEN Block /\ UNCHANGED policy
       ELSE /\ policy' = [policy EXCEPT !.reserved = IF Reserves(Call) THEN @ \cup {Call.args} ELSE @]
            /\ pc' = "barrier"
            /\ run' = [run EXCEPT !.mode = registry.mode[Call.tool]]
            /\ UNCHANGED talk
    /\ UNCHANGED <<registry, kind, stored, marked, wrote>>

\* Before any handler of a continuation its claim is marked; before one that
\* may not be repeated, the receipt.  A store that fails is a failed tool.
Barrier ==
    LET attempts == ~ Replayable(run.mode)
        released == IF Reserves(Call) THEN policy.reserved \ {Call.args} ELSE policy.reserved
    IN
    /\ pc = "barrier"
    /\ \/ /\ pc' = "handler"
          /\ marked' = (kind = "resume" \/ marked)
          /\ policy' = [policy EXCEPT !.attempted = @ \/ attempts]
          /\ UNCHANGED <<run, talk, stored>>
       \/ Cut                                 \* ownership is lost
       \/ /\ kind = "resume"                  \* the mark fails, or its answer is lost
          /\ marked' \in {marked, TRUE}
          /\ policy' = [policy EXCEPT !.reserved = released]
          /\ Observe(Spoiled(talk)) /\ UNCHANGED stored
       \/ /\ attempts /\ Restricted = FALSE   \* the receipt's mark fails
          /\ marked' = (kind = "resume" \/ marked)
          /\ policy' = [policy EXCEPT !.attempted = TRUE]
          /\ Observe(Spoiled(talk)) /\ UNCHANGED stored
    /\ UNCHANGED <<registry, kind, wrote>>

Effects(c) == IF c.tool = "update" THEN [wrote EXCEPT ![c.args] = @ + 1] ELSE wrote

Tainting(found) == [policy EXCEPT !.tainted = @ \/ found]

\* The handler answers; a search may find a suspicious text.
Handle ==
    /\ pc = "handler"
    /\ wrote' = Effects(Call)
    /\ CASE Call.tool = "search" ->
              \E found \in BOOLEAN :
                /\ Observe([talk EXCEPT !.suspicious = @ \/ found])
                /\ policy' = Tainting(found)
         [] Call.tool = "grade" ->
              (\E g \in Grades : Observe([talk EXCEPT !.grade = g])) /\ UNCHANGED policy
         [] OTHER -> Observe(Recorded) /\ UNCHANGED policy
    /\ UNCHANGED <<registry, kind, stored, marked>>

\* It fails or runs out of time: after retries, if it may be repeated, the
\* model is told; otherwise nobody knows what it did, and the run ends.
HandlerFails ==
    /\ pc = "handler"
    /\ IF Replayable(registry.mode[Call.tool])
       THEN /\ Observe(Spoiled(talk))
            /\ UNCHANGED <<policy, stored, marked, wrote>>
       ELSE wrote' \in {wrote, Effects(Call)} /\ Abort
    /\ UNCHANGED <<registry, kind>>

-----------------------------------------------------------------------------
(***************************************************************************)
(* The control tools, which always come alone                              *)
(***************************************************************************)
Control(tool) == /\ pc = "batch" /\ run.left # <<>> /\ Call.tool = tool
                 /\ tool \in ControlTools

BadControl ==
    /\ \E tool \in Controls : Control(tool)
    /\ Call.args = "bad"
    /\ Reply(talk)
    /\ UNCHANGED <<registry, kind, policy, stored, marked, wrote>>

Finalize ==
    /\ Control("finalize") /\ Call.args = "fine"
    /\ Answered
    /\ UNCHANGED <<registry, kind, wrote>>

\* Each update the trajectory says was carried out has its reservation.
Storable == talk.updates = policy.reserved

Snapshot == [talk |-> talk, round |-> run.round + 1, contract |-> Contract,
             reserved |-> policy.reserved, tainted |-> policy.tainted]

\* The snapshot is written by save() or by the hand-off of the claim.
Pause ==
    /\ Control("ask_user") /\ Call.args = "fine"
    /\ IF Storable
       THEN /\ stored' = Snapshot
            /\ marked' = FALSE
            /\ Leave("paused")
       ELSE Abort
    /\ UNCHANGED <<registry, kind, wrote>>

Next ==
    \/ Replace \/ Begin \/ Resume \/ Crash
    \/ Ask \/ Fail \/ Text
    \/ RefuseIds \/ Take \/ EndBatch \/ Refuse \/ Misfit \/ Dispatch \/ Barrier
    \/ Handle \/ HandlerFails
    \/ BadControl \/ Finalize \/ Pause

\* The loop takes its next step: providers and handlers have a time limit.
Works ==
    \/ Ask \/ Text
    \/ RefuseIds \/ Take \/ EndBatch \/ Refuse \/ Misfit \/ Dispatch \/ Barrier
    \/ Handle \/ HandlerFails
    \/ BadControl \/ Finalize \/ Pause

Spec == Init /\ [][Next]_vars /\ WF_vars(Works)

-----------------------------------------------------------------------------
(***************************************************************************)
(* What must hold                                                          *)
(***************************************************************************)
\* A grade goes into the profile once per conversation, however often the
\* model asks for it, in a batch, in later rounds, after a pause, after a
\* continuation that failed or after a handler of unknown outcome.
EachGradeIsWrittenOnce == \A g \in Grades : wrote[g] <= 1

\* No handler starts that the conversation does not allow: none that may not
\* be repeated after a suspicious text was read, in this run or before the
\* pause, and none but read-only ones without a receipt, whatever replaced
\* the tool since its name was offered.
OnlyAllowedHandlersStart ==
    [][pc # "handler" /\ pc' = "handler" =>
          \/ Replayable(run.mode)
          \/ ~ talk.suspicious /\ ~ Restricted]_vars

\* Whenever the model is asked, every call it ever made is answered once, and
\* a pause waits for exactly one answer; no conversation gets more rounds by
\* pausing.
TranscriptIsWhole ==
    /\ pc \in {"round", "model", "close"} => talk.unanswered = 0
    /\ pc = "batch" => talk.unanswered = Len(run.left)
    /\ stored # None => stored.talk.unanswered = 1 /\ stored.round <= MaxRounds
    /\ run.round <= Rounds

\* Every run ends, in an answer, an error or a pause, whatever the model asks
\* for.
RunsEnd == pc \in Running ~> pc \in {"paused", "over"}
=============================================================================
