--------------------------- MODULE AgentLoopProofs ---------------------------
(***************************************************************************)
(* Proofs about AgentLoop, for any grades, numbers of rounds, batches of   *)
(* any length and any room for reservations: its types, what keeps an      *)
(* update of a grade from being carried out twice, the transcript, and     *)
(* which handlers may start.                                               *)
(*                                                                         *)
(* A step either leaves the run (Leaves), answers a call of the batch      *)
(* (Answers), ends a round, or takes the next call towards its handler;    *)
(* each action is one of these, and each of these keeps the invariant.     *)
(***************************************************************************)
EXTENDS AgentLoop, TLAPS

(***************************************************************************)
(* The inductive invariant                                                 *)
(***************************************************************************)
Native == [mode |-> NativeTools, version |-> 0]

\* Only a search can be replaced, once, and a round knows the tools there
\* were before or those there are.
ToolsAreKnown ==
    /\ \A t \in Business : t # "search" => registry.mode[t] = NativeTools[t]
    /\ registry.version = 0 => registry = Native
    /\ run.bound \in {registry, Native}

\* The calls without an answer are those the batch has left; a control tool
\* comes alone; and there is a round for every batch.
CallsAreCounted ==
    /\ pc \in {"idle", "round", "model", "close"} => talk.unanswered = 0
    /\ pc \in {"batch", "barrier", "handler"} => talk.unanswered = Len(run.left)
    /\ pc \in {"barrier", "handler"} => run.left # <<>> /\ Call.tool \in Business
    /\ \A i \in DOMAIN run.left : run.left[i].tool \in ControlTools => Len(run.left) = 1
    /\ run.round <= Rounds
    /\ pc \in {"round", "model", "batch", "barrier", "handler"} => run.round < Rounds

\* A snapshot waits for the answer to one call, has a round left to give and
\* knows whether something suspicious was read.
Whole(snapshot) ==
    /\ snapshot \in Snapshots
    /\ snapshot.talk.unanswered = 1
    /\ snapshot.round \in 1..MaxRounds
    /\ snapshot.talk.suspicious => snapshot.tainted

\* There is one when the conversation waits, and while it is continued.
PausesAreWhole ==
    /\ stored = None \/ Whole(stored)
    /\ pc = "paused" \/ (kind = "resume" /\ pc \in Running) => Whole(stored)
    /\ pc = "idle" => kind # "resume"

\* Every grade written has its reservation: in the memory of the run, and in
\* the snapshot for as long as a continuation may fall back to it.
GradesAreReserved ==
    /\ \A g \in Grades : wrote[g] \in {0, 1}
    /\ pc = "idle" => \A g \in Grades : wrote[g] = 0
    /\ pc \in Running => \A g \in Grades : wrote[g] = 1 => g \in policy.reserved
    /\ pc \in {"barrier", "handler"} /\ Call.tool = "update" =>
           /\ Call.args \in Grades /\ Call.args \in policy.reserved
           /\ wrote[Call.args] = 0
    /\ pc = "handler" /\ kind = "resume" => marked
    /\ pc = "paused" \/ (kind = "resume" /\ pc \in Running /\ ~ marked) =>
           \A g \in Grades : wrote[g] = 1 => g \in stored.reserved

\* What was read taints the run, and a call on its way to its handler is one
\* that is allowed to get there.
CallsAreAllowed ==
    /\ pc \in Running \cup {"idle"} => (talk.suspicious => policy.tainted)
    /\ pc = "barrier" => \/ Replayable(run.mode)
                         \/ ~ talk.suspicious /\ ~ Restricted

LoopInv == /\ TypeOK
           /\ ToolsAreKnown
           /\ CallsAreCounted
           /\ PausesAreWhole
           /\ GradesAreReserved
           /\ CallsAreAllowed

-----------------------------------------------------------------------------
(***************************************************************************)
(* Facts about the model's data                                            *)
(***************************************************************************)
LEMMA ToolsTyped == /\ NativeTools \in [Business -> Modes]
                    /\ NativeTools["update"] = "non_idempotent"
BY DEF NativeTools, Business, Modes

\* A new exchange and a new policy are well typed, and nothing is suspicious yet.
LEMMA NewTyped ==
    /\ NewTalk \in Talks /\ NewTalk.unanswered = 0 /\ ~ NewTalk.suspicious
    /\ NewPolicy \in Policies /\ ~ NewPolicy.tainted
BY DEF NewTalk, Talks, NewPolicy, Policies

\* A new run is well typed, at its first round with no call outstanding.
LEMMA NewRunTyped ==
    ASSUME registry \in Registries
    PROVE  NewRun \in Runs /\ NewRun.left = <<>> /\ NewRun.round = 0
BY DEF NewRun, Runs, Modes

\* The next call of a batch, and what is left after it.
LEMMA NextCall ==
    ASSUME NEW left \in Seq(Calls), left # <<>>
    PROVE  /\ Head(left) \in Calls /\ Head(left) = left[1] /\ 1 \in DOMAIN left
           /\ Tail(left) \in Seq(Calls) /\ Len(Tail(left)) = Len(left) - 1
           /\ Len(left) \in Nat \ {0}
           /\ \A i \in DOMAIN Tail(left) : Tail(left)[i] = left[i + 1] /\ i + 1 \in DOMAIN left
OBVIOUS

\* What the calls are.
LEMMA CallsTyped ==
    /\ \A c \in Calls : c.tool = "update" =>
           c.args \in Grades \cup {"missing", "broken", "foreign"}
    /\ \A c \in Calls, g \in Grades : c.tool = "update" => [c EXCEPT !.args = g] \in Calls
    /\ \A c \in Calls, g \in Grades : [c EXCEPT !.args = g].tool = c.tool
<1>1. \A c \in Calls : c.tool = "update" =>
           c.args \in Grades \cup {"missing", "broken", "foreign"}
  BY DEF Calls, Controls
<1>2. \A c \in Calls, g \in Grades : c.tool = "update" => [c EXCEPT !.args = g] = [tool |-> "update", args |-> g]
  BY DEF Calls, Controls
<1>3. ASSUME NEW g \in Grades PROVE [tool |-> "update", args |-> g] \in Calls
  <2>1. [tool |-> "update", args |-> g]
            \in {[tool |-> "update", args |-> x] : x \in Grades \cup {"missing", "broken"}}
    OBVIOUS
  <2> QED
    BY <2>1 DEF Calls
<1>4. \A c \in Calls, g \in Grades : [c EXCEPT !.args = g].tool = c.tool
  BY DEF Calls, Controls
<1> QED
  BY <1>1, <1>2, <1>3, <1>4

\* A batch of the model, with the updates it is taken for.
LEMMA BatchesTyped ==
    ASSUME TypeOK, NEW batch \in Batches, NEW left,
           left = [i \in DOMAIN batch |-> Effective(batch[i])]
    PROVE  /\ left \in Seq(Calls) /\ Len(left) = Len(batch) /\ DOMAIN left = DOMAIN batch
           /\ Len(batch) \in Nat
           /\ \A i \in DOMAIN left : left[i].tool = batch[i].tool
<1>1. PICK n \in Nat : batch \in [1..n -> Calls]
  BY DEF Batches
<1>2. \A c \in Calls : Effective(c) \in Calls /\ Effective(c).tool = c.tool
  BY CallsTyped DEF Effective, TypeOK, Runs
<1>3. left \in [1..n -> Calls]
  BY <1>1, <1>2
<1>4. left \in Seq(Calls) /\ batch \in Seq(Calls) /\ Len(left) = n /\ Len(batch) = n
  BY <1>1, <1>3
<1> QED
  BY <1>1, <1>2, <1>4

-----------------------------------------------------------------------------
(***************************************************************************)
(* The steps, sorted by what they do to the run                            *)
(***************************************************************************)

\* The run is over, or the conversation waits with a snapshot of it.
Leaves ==
    /\ pc' \in {"over", "paused"} /\ Leave(pc')
    /\ UNCHANGED registry
    /\ kind' \in {"agent", "resume", "chat", "reader"}
    /\ marked' \in BOOLEAN
    /\ stored' = None \/ Whole(stored')
    /\ wrote' \in [Grades -> {0, 1}]
    /\ pc' = "paused" =>
           Whole(stored') /\ \A g \in Grades : wrote'[g] = 1 => g \in stored'.reserved

\* A call of the batch gets its answer.
Answers ==
    /\ pc \in {"batch", "barrier", "handler"} /\ run.left # <<>>
    /\ pc' = "batch"
    /\ UNCHANGED <<registry, kind, stored>>
    /\ marked' \in BOOLEAN /\ (marked => marked')
    /\ run' \in Runs /\ run'.left = Tail(run.left) /\ run'.bound = run.bound
    /\ run'.round = run.round
    /\ talk' \in Talks /\ talk'.unanswered = talk.unanswered - 1
    /\ policy' \in Policies
    /\ talk'.suspicious => policy'.tainted
    /\ wrote' \in [Grades -> {0, 1}]
    /\ \A g \in Grades : wrote'[g] = 1 => g \in policy'.reserved
    /\ kind = "resume" /\ ~ marked' => wrote' = wrote

\* All calls of the round are answered, or none of them was kept.
EndsRound ==
    /\ pc \in {"model", "batch"} /\ talk.unanswered = 0
    /\ EndRound
    /\ UNCHANGED <<registry, kind, policy, talk, stored, marked, wrote>>

\* The record of a run whose round is over.
LEMMA RunsAdvance ==
    ASSUME NEW r \in Runs, NEW next,
           next = [r EXCEPT !.round = @ + 1, !.left = <<>>,
                            !.dispatched = r.dispatched \/ r.dispatching, !.dispatching = FALSE]
    PROVE  /\ next \in Runs /\ next.left = <<>> /\ next.bound = r.bound
           /\ next.round = r.round + 1
<1>1. (r.dispatched \/ r.dispatching) \in BOOLEAN
  OBVIOUS
<1> DEFINE d == r.dispatched \/ r.dispatching
<1>2. d \in BOOLEAN
  BY <1>1
<1>3. next = [r EXCEPT !.round = @ + 1, !.left = <<>>, !.dispatched = d, !.dispatching = FALSE]
  OBVIOUS
<1> HIDE DEF d
<1>4. /\ next.round = r.round + 1 /\ next.left = <<>> /\ next.bound = r.bound
      /\ next.prior = r.prior /\ next.allowed = r.allowed /\ next.mode = r.mode
      /\ next.dispatched = d /\ next.dispatching = FALSE
  BY <1>3 DEF Runs
<1>5. r.round + 1 \in Nat /\ <<>> \in Seq(Calls)
  BY DEF Runs
<1>6. next \in Runs
  BY <1>2, <1>3, <1>5 DEF Runs
<1> QED
  BY <1>4, <1>6

\* A step that leaves the loop (Leaves) keeps the inductive invariant.
LEMMA LeavesKeeps ==
    ASSUME LoopInv, Leaves
    PROVE  LoopInv'
<1> USE DEF Leaves, Leave
<1>1. /\ run' = [NewRun EXCEPT !.bound = run.bound] /\ policy' = NewPolicy /\ talk' = NewTalk
      /\ pc' \notin Running \cup {"idle"} /\ TypeOK
  BY DEF LoopInv, Running
<1>2. run' \in Runs /\ run'.left = <<>> /\ run'.round = 0 /\ run'.bound = run.bound
  BY <1>1, NewRunTyped DEF TypeOK, Runs, NewRun
<1>3. TypeOK'
  BY <1>1, <1>2, NewTyped DEF TypeOK, Whole
<1>4. ToolsAreKnown'
  BY <1>2 DEF LoopInv, ToolsAreKnown
<1>5. CallsAreCounted'
  BY <1>1, <1>2, RoundsAssumption DEF CallsAreCounted, Running, Rounds
<1>6. PausesAreWhole'
  BY <1>1 DEF PausesAreWhole
<1>7. GradesAreReserved'
  BY <1>1 DEF GradesAreReserved, Running
<1>8. CallsAreAllowed'
  BY <1>1 DEF CallsAreAllowed, Running
<1> QED
  BY <1>3, <1>4, <1>5, <1>6, <1>7, <1>8 DEF LoopInv

\* A step that answers the call at the head of the batch (Answers) keeps it.
LEMMA AnswersKeeps ==
    ASSUME LoopInv, Answers
    PROVE  LoopInv'
<1> USE DEF Answers
<1>1. TypeOK /\ run.left \in Seq(Calls) /\ pc \in Running /\ run.left # <<>>
  BY DEF LoopInv, TypeOK, Runs, Running
<1>2. TypeOK'
  <2>1. wrote' \in [Grades -> Nat]
    OBVIOUS
  <2> QED
    BY <1>1, <2>1 DEF TypeOK, Running
<1>3. ToolsAreKnown'
  BY DEF LoopInv, ToolsAreKnown
<1>4. CallsAreCounted'
  <2>1. talk'.unanswered = Len(run'.left)
    BY <1>1, NextCall DEF LoopInv, CallsAreCounted
  <2>2. \A i \in DOMAIN run'.left : run'.left[i].tool \in ControlTools' => Len(run'.left) = 1
    <3>1. ControlTools' = ControlTools
      BY DEF ControlTools, Autonomous
    <3>2. ASSUME NEW i \in DOMAIN run'.left, run'.left[i].tool \in ControlTools PROVE FALSE
      BY <1>1, <3>2, NextCall DEF LoopInv, CallsAreCounted
    <3> QED
      BY <3>1, <3>2
  <2>3. run'.round <= Rounds' /\ run'.round < Rounds'
    BY DEF LoopInv, CallsAreCounted, Rounds, Autonomous
  <2> QED
    BY <2>1, <2>2, <2>3 DEF CallsAreCounted
<1>5. PausesAreWhole'
  BY <1>1 DEF LoopInv, PausesAreWhole
<1>6. GradesAreReserved'
  <2>1. kind = "resume" /\ ~ marked' =>
            ~ marked /\ \A g \in Grades : wrote'[g] = 1 => g \in stored'.reserved
    BY <1>1 DEF LoopInv, GradesAreReserved
  <2> QED
    BY <1>1, <2>1 DEF GradesAreReserved
<1>7. CallsAreAllowed'
  BY DEF CallsAreAllowed, Running
<1> QED
  BY <1>2, <1>3, <1>4, <1>5, <1>6, <1>7 DEF LoopInv

\* A step that closes a round (EndsRound) keeps it.
LEMMA EndsRoundKeeps ==
    ASSUME LoopInv, EndsRound
    PROVE  LoopInv'
<1> USE DEF EndsRound
<1>1. /\ TypeOK /\ pc \in Running /\ run.round \in Nat /\ run.round < Rounds /\ Rounds \in Nat
      /\ pc' = NextRound
      /\ run' = [run EXCEPT !.round = @ + 1, !.left = <<>>,
                            !.dispatched = run.dispatched \/ run.dispatching,
                            !.dispatching = FALSE]
  BY RoundsAssumption DEF LoopInv, TypeOK, CallsAreCounted, EndRound, Runs, Running, Rounds
<1>2. /\ run' \in Runs /\ run'.left = <<>> /\ run'.bound = run.bound
      /\ run'.round = run.round + 1
  BY <1>1, RunsAdvance DEF TypeOK
<1>3. pc' \in {"round", "close", "over"} /\ (pc' = "round" => run'.round < Rounds)
  BY <1>1, <1>2 DEF NextRound
<1>4. TypeOK'
  BY <1>1, <1>2, <1>3 DEF TypeOK, Running
<1>5. ToolsAreKnown'
  BY <1>2 DEF LoopInv, ToolsAreKnown
<1>6. CallsAreCounted'
  <2>1. Rounds' = Rounds
    BY DEF Rounds, Autonomous
  <2> QED
    BY <1>1, <1>2, <1>3, <2>1 DEF CallsAreCounted
<1>7. PausesAreWhole'
  BY <1>1, <1>3 DEF LoopInv, PausesAreWhole
<1>8. GradesAreReserved'
  BY <1>1, <1>3 DEF LoopInv, GradesAreReserved
<1>9. CallsAreAllowed'
  BY <1>1, <1>3 DEF LoopInv, CallsAreAllowed
<1> QED
  BY <1>4, <1>5, <1>6, <1>7, <1>8, <1>9 DEF LoopInv

-----------------------------------------------------------------------------
(***************************************************************************)
(* Each action is one of these steps                                       *)
(***************************************************************************)

\* A run that ends without an answer leaves the pause it went on from only if
\* nothing was written since.
LEMMA ReturnsLeave ==
    ASSUME LoopInv, pc \in Running, Cut \/ Abort, UNCHANGED <<registry, kind>>,
           wrote' \in [Grades -> {0, 1}],
           kind = "resume" /\ ~ marked => wrote' = wrote
    PROVE  Leaves
<1>1. TypeOK /\ PausesAreWhole /\ GradesAreReserved
  BY DEF LoopInv
<1>2. \/ Leave("over") /\ stored' = None /\ marked' = FALSE
      \/ /\ kind = "resume" /\ ~ marked
         /\ Leave("paused") /\ stored' = stored /\ marked' = FALSE
  BY DEF Cut, Abort, Return
<1>3. CASE Leave("over") /\ stored' = None /\ marked' = FALSE
  BY <1>1, <1>3 DEF Leaves, Leave, TypeOK
<1>4. CASE /\ kind = "resume" /\ ~ marked
           /\ Leave("paused") /\ stored' = stored /\ marked' = FALSE
  <2>1. Whole(stored) /\ \A g \in Grades : wrote'[g] = 1 => g \in stored.reserved
    BY <1>1, <1>4 DEF PausesAreWhole, GradesAreReserved
  <2> QED
    BY <1>1, <1>4, <2>1 DEF Leaves, Leave, TypeOK
<1> QED
  BY <1>2, <1>3, <1>4

\* What has been written so far.
LEMMA WroteTyped ==
    ASSUME LoopInv
    PROVE  wrote \in [Grades -> {0, 1}]
BY DEF LoopInv, TypeOK, GradesAreReserved

\* The run and the transcript when a call gets its answer.
LEMMA RepliesTyped ==
    ASSUME LoopInv, pc \in {"batch", "barrier", "handler"}, run.left # <<>>,
           NEW observed \in Talks, Reply(observed) \/ Observe(observed)
    PROVE  /\ pc' = "batch"
           /\ run' \in Runs /\ run'.left = Tail(run.left) /\ run'.bound = run.bound
           /\ run'.round = run.round
           /\ talk' \in Talks /\ talk'.unanswered = talk.unanswered - 1
           /\ talk'.suspicious = observed.suspicious
<1>1. run \in Runs /\ run.left \in Seq(Calls) /\ talk.unanswered = Len(run.left)
  BY DEF LoopInv, TypeOK, Runs, CallsAreCounted
<1>2. Tail(run.left) \in Seq(Calls) /\ talk.unanswered - 1 \in Nat
  BY <1>1, NextCall
<1>3. pc' = "batch" /\ talk' = [observed EXCEPT !.unanswered = talk.unanswered - 1]
  BY DEF Reply, Observe
<1>4. talk' \in Talks /\ talk'.unanswered = talk.unanswered - 1
      /\ talk'.suspicious = observed.suspicious
  BY <1>2, <1>3 DEF Talks
<1>5. \/ run' = [run EXCEPT !.left = Tail(run.left)]
      \/ run' = [run EXCEPT !.left = Tail(run.left), !.mode = "read_only", !.dispatching = TRUE]
  BY DEF Reply, Observe
<1>6. /\ run' \in Runs /\ run'.left = Tail(run.left) /\ run'.bound = run.bound
      /\ run'.round = run.round
  BY <1>1, <1>2, <1>5 DEF Runs, Modes
<1> QED
  BY <1>3, <1>4, <1>6

\* A call that is answered and writes nothing.
LEMMA RepliesAnswer ==
    ASSUME LoopInv, pc \in {"batch", "barrier", "handler"}, run.left # <<>>,
           NEW observed \in Talks, Reply(observed) \/ Observe(observed),
           UNCHANGED <<registry, kind, stored, wrote>>,
           marked' \in BOOLEAN, marked => marked',
           policy' \in Policies, observed.suspicious => policy'.tainted,
           \A g \in Grades : wrote[g] = 1 => g \in policy'.reserved
    PROVE  Answers
BY RepliesTyped, WroteTyped DEF Answers

\* What the trajectory and the transcript record of a call.
LEMMA RecordsTyped ==
    ASSUME LoopInv
    PROVE  /\ (Call.tool = "update" /\ Call.args \in Grades \cup {"missing"}) => Recorded \in Talks
           /\ Call.tool # "update" => Recorded \in Talks
           /\ Recorded.suspicious = talk.suspicious
           /\ Spoiled(talk) \in Talks /\ Spoiled(talk).suspicious = talk.suspicious
           /\ talk \in Talks
           /\ pc \in Running => (talk.suspicious => policy.tainted)
BY DEF LoopInv, TypeOK, Recorded, Spoiled, Talks, CallsAreAllowed

\* The reservations when nothing is written.
LEMMA ReservationsHold ==
    ASSUME LoopInv, pc \in Running
    PROVE  \A g \in Grades : wrote[g] = 1 => g \in policy.reserved
BY DEF LoopInv, GradesAreReserved

\* A call refused before it is dispatched is answered, with no effect.
LEMMA RefusalsAnswer ==
    ASSUME LoopInv, Refuse \/ Misfit \/ BadControl
    PROVE  Answers
<1>1. /\ pc = "batch" /\ run.left # <<>> /\ pc \in Running
      /\ UNCHANGED <<registry, kind, policy, stored, marked, wrote>>
  BY DEF Refuse, Misfit, BadControl, Control, Running
<1>2. policy \in Policies /\ marked \in BOOLEAN
  BY DEF LoopInv, TypeOK
<1>3. CASE Refuse \/ BadControl
  BY <1>1, <1>2, <1>3, RecordsTyped, ReservationsHold, RepliesAnswer
     DEF Refuse, BadControl, Block
<1>4. CASE Misfit
  BY <1>1, <1>2, <1>4, RecordsTyped, ReservationsHold, RepliesAnswer DEF Misfit
<1> QED
  BY <1>3, <1>4

\* The branches of the barrier: a call passes, the claim is lost, or a mark
\* fails and its call is answered with that.
Marks ==
    /\ pc' = "handler" /\ marked' = (kind = "resume" \/ marked)
    /\ policy' = [policy EXCEPT !.attempted = @ \/ ~ Replayable(run.mode)]
    /\ UNCHANGED <<run, talk, stored>>

MarkFails ==
    /\ marked' \in {marked, TRUE, kind = "resume" \/ marked}
    /\ \/ policy' = [policy EXCEPT !.reserved = IF Reserves(Call) THEN @ \ {Call.args} ELSE @]
       \/ policy' = [policy EXCEPT !.attempted = TRUE]
    /\ Observe(Spoiled(talk)) /\ UNCHANGED stored

\* The barrier of effects marks, is cut off by the wall clock, or fails to mark.
LEMMA BarrierCases ==
    ASSUME Barrier
    PROVE  /\ pc = "barrier" /\ UNCHANGED <<registry, kind, wrote>>
           /\ Marks \/ Cut \/ MarkFails
BY DEF Barrier, Marks, MarkFails

\* A barrier that could not be marked answers its call with a failure.
LEMMA BarriersAnswer ==
    ASSUME LoopInv, pc = "barrier", MarkFails, UNCHANGED <<registry, kind, wrote>>
    PROVE  Answers
<1>1. /\ pc \in Running /\ run.left # <<>> /\ policy \in Policies /\ marked \in BOOLEAN
      /\ Spoiled(talk) \in Talks /\ Observe(Spoiled(talk))
      /\ Spoiled(talk).suspicious => policy.tainted
  BY RecordsTyped DEF LoopInv, TypeOK, CallsAreCounted, MarkFails, Running
<1>2. marked' \in BOOLEAN /\ (marked => marked') /\ UNCHANGED stored
  BY <1>1 DEF MarkFails
<1>3. \A g \in Grades : wrote[g] = 1 =>
          /\ g \in policy.reserved
          /\ Call.tool = "update" => g # Call.args
  BY <1>1 DEF LoopInv, GradesAreReserved
<1>4. /\ policy' \in Policies /\ policy'.tainted = policy.tainted
      /\ \A g \in policy.reserved :
             g \in policy'.reserved \/ (Call.tool = "update" /\ g = Call.args)
  <2>1. CASE policy' = [policy EXCEPT !.attempted = TRUE]
    BY <1>1, <2>1 DEF Policies
  <2>2. CASE policy' = policy
    BY <1>1, <2>2
  <2>3. CASE Call.tool = "update" /\ policy' = [policy EXCEPT !.reserved = @ \ {Call.args}]
    BY <1>1, <2>3 DEF Policies
  <2>4. [policy EXCEPT !.reserved = @] = policy
    BY <1>1 DEF Policies
  <2> QED
    BY <2>1, <2>2, <2>3, <2>4 DEF MarkFails, Reserves
<1>5. \A g \in Grades : wrote[g] = 1 => g \in policy'.reserved
  BY <1>3, <1>4
<1> QED
  BY <1>1, <1>2, <1>4, <1>5, RepliesAnswer

\* A handler that returned or raised answers its call.
LEMMA HandlersAnswer ==
    ASSUME LoopInv, Handle
    PROVE  Answers
<1>1. /\ pc = "handler" /\ pc \in Running /\ run.left # <<>> /\ Call.tool \in Business
      /\ policy \in Policies /\ marked \in BOOLEAN /\ talk \in Talks
      /\ talk.suspicious => policy.tainted
      /\ UNCHANGED <<registry, kind, stored, marked>>
  BY RecordsTyped DEF LoopInv, TypeOK, CallsAreCounted, Handle, Running
<1>2. /\ wrote' = Effects(Call)
      /\ \/ \E found \in BOOLEAN :
               /\ Observe([talk EXCEPT !.suspicious = @ \/ found])
               /\ policy' = Tainting(found)
         \/ (\E g \in Grades : Observe([talk EXCEPT !.grade = g])) /\ UNCHANGED policy
         \/ Observe(Recorded) /\ UNCHANGED policy
  BY Zenon DEF Handle
<1>3. /\ wrote' \in [Grades -> {0, 1}]
      /\ \A g \in Grades : wrote'[g] = 1 => g \in policy.reserved
  BY <1>1, <1>2, WroteTyped DEF LoopInv, GradesAreReserved, Effects
<1>4. kind = "resume" => marked'
  BY <1>1 DEF LoopInv, GradesAreReserved
<1>5. ASSUME NEW observed \in Talks, Observe(observed), policy' \in Policies,
             observed.suspicious => policy'.tainted, policy'.reserved = policy.reserved
      PROVE  Answers
  BY <1>1, <1>3, <1>4, <1>5, RepliesTyped DEF Answers
<1>6. ASSUME NEW found \in BOOLEAN, Observe([talk EXCEPT !.suspicious = @ \/ found]),
             policy' = Tainting(found)
      PROVE  Answers
  <2>1. /\ policy' \in Policies /\ policy'.reserved = policy.reserved
        /\ policy'.tainted = (policy.tainted \/ found)
    BY <1>1, <1>6 DEF Tainting, Policies
  <2>2. /\ [talk EXCEPT !.suspicious = @ \/ found] \in Talks
        /\ [talk EXCEPT !.suspicious = @ \/ found].suspicious = (talk.suspicious \/ found)
    BY <1>1 DEF Talks
  <2> QED
    BY <1>1, <1>5, <1>6, <2>1, <2>2
<1>7. ASSUME NEW g \in Grades, Observe([talk EXCEPT !.grade = g]), UNCHANGED policy
      PROVE  Answers
  <2>1. /\ [talk EXCEPT !.grade = g] \in Talks
        /\ [talk EXCEPT !.grade = g].suspicious = talk.suspicious
    BY <1>1 DEF Talks
  <2> QED
    BY <1>1, <1>5, <1>7, <2>1
<1>8. CASE Observe(Recorded) /\ UNCHANGED policy
  <2>1. Recorded \in Talks /\ Recorded.suspicious = talk.suspicious
    BY <1>1, RecordsTyped DEF LoopInv, GradesAreReserved
  <2> QED
    BY <1>1, <1>5, <1>8, <2>1
<1> QED
  BY <1>2, <1>6, <1>7, <1>8

\* A handler that fails is answered like any other if it may be repeated, and
\* otherwise ends the run.
LEMMA FailuresAnswerOrLeave ==
    ASSUME LoopInv, HandlerFails
    PROVE  Answers \/ Leaves
<1>1. /\ pc = "handler" /\ pc \in Running /\ run.left # <<>> /\ Call.tool \in Business
      /\ policy \in Policies /\ marked \in BOOLEAN
      /\ UNCHANGED <<registry, kind>>
  BY DEF LoopInv, TypeOK, CallsAreCounted, HandlerFails, Running
<1>2. CASE Observe(Spoiled(talk)) /\ UNCHANGED <<policy, stored, marked, wrote>>
  BY <1>1, <1>2, RecordsTyped, ReservationsHold, RepliesAnswer
<1>3. CASE wrote' \in {wrote, Effects(Call)} /\ Abort
  <2>1. wrote' \in [Grades -> {0, 1}]
    BY <1>1, <1>3, WroteTyped DEF LoopInv, GradesAreReserved, Effects
  <2>2. kind = "resume" => marked
    BY <1>1 DEF LoopInv, GradesAreReserved
  <2> QED
    BY <1>1, <1>3, <2>1, <2>2, ReturnsLeave
<1> QED
  BY <1>2, <1>3 DEF HandlerFails

\* Asking the learner leaves a whole snapshot, or the run is aborted.
LEMMA PausesLeave ==
    ASSUME LoopInv, Pause
    PROVE  Leaves
<1>1. /\ pc = "batch" /\ pc \in Running /\ run.left # <<>> /\ Call.tool \in ControlTools
      /\ UNCHANGED <<registry, kind, wrote>>
      /\ TypeOK /\ run \in Runs /\ run.left \in Seq(Calls)
  BY DEF Pause, Control, LoopInv, TypeOK, Runs, Running
<1>2. Autonomous /\ Rounds = MaxRounds
  BY <1>1 DEF ControlTools, Rounds
<1>3. talk.unanswered = 1 /\ run.round + 1 \in 1..MaxRounds
  <2>1. Len(run.left) = 1
    BY <1>1, NextCall DEF LoopInv, CallsAreCounted, Call
  <2> QED
    BY <1>1, <1>2, <2>1, RoundsAssumption DEF LoopInv, CallsAreCounted, Runs
<1>4. CASE stored' = Snapshot /\ marked' = FALSE /\ Leave("paused")
  <2>1. Snapshot.reserved = policy.reserved /\ Whole(Snapshot)
    <3>1. /\ talk \in Talks /\ policy \in Policies /\ registry \in Registries
          /\ talk.suspicious => policy.tainted
      BY <1>1, RecordsTyped DEF TypeOK
    <3> QED
      BY <1>3, <3>1 DEF Whole, Snapshot, Snapshots, Contract, Policies, Registries
  <2>2. \A g \in Grades : wrote'[g] = 1 => g \in stored'.reserved
    BY <1>1, <1>4, <2>1, ReservationsHold
  <2>3. wrote' \in [Grades -> {0, 1}] /\ kind' \in {"agent", "resume", "chat", "reader"}
    BY <1>1, WroteTyped DEF TypeOK
  <2> QED
    BY <1>1, <1>4, <2>1, <2>2, <2>3 DEF Leaves, Leave
<1>5. CASE Abort
  BY <1>1, <1>5, WroteTyped, ReturnsLeave
<1> QED
  BY <1>4, <1>5 DEF Pause

\* An answer of the model, or the ask_user tool's rival finalize().
LEMMA AnswersLeave ==
    ASSUME LoopInv, UNCHANGED <<registry, kind, wrote>>, Answered
    PROVE  Leaves
<1>1. wrote' \in [Grades -> {0, 1}] /\ kind' \in {"agent", "resume", "chat", "reader"}
  BY WroteTyped DEF LoopInv, TypeOK
<1> QED
  BY <1>1 DEF Answered, Leaves, Leave

\* Replacing a registered tool keeps the inductive invariant.
LEMMA ReplaceKeeps ==
    ASSUME LoopInv, Replace
    PROVE  LoopInv'
<1>1. PICK mode \in {"read_only", "unknown"} :
          registry' = [mode |-> [registry.mode EXCEPT !["search"] = mode], version |-> 1]
  BY DEF Replace
<1>2. /\ registry.version = 0 /\ registry = Native /\ run.bound = Native
      /\ UNCHANGED <<kind, pc, run, policy, talk, stored, marked, wrote>>
  BY DEF LoopInv, ToolsAreKnown, Replace
<1>3. registry' \in Registries /\ registry'.version = 1
      /\ \A tool \in Business : tool # "search" => registry'.mode[tool] = NativeTools[tool]
  BY <1>1, <1>2 DEF LoopInv, TypeOK, Registries, Modes, Native, Business, ToolsAreKnown
<1>4. TypeOK'
  BY <1>2, <1>3 DEF LoopInv, TypeOK
<1>5. ToolsAreKnown'
  BY <1>2, <1>3 DEF ToolsAreKnown
<1>6. CallsAreCounted'
  BY <1>2 DEF LoopInv, CallsAreCounted, ControlTools, Autonomous, Rounds, Call
<1>7. PausesAreWhole' /\ GradesAreReserved'
  BY <1>2 DEF LoopInv, PausesAreWhole, GradesAreReserved, Call
<1>8. CallsAreAllowed'
  BY <1>2 DEF LoopInv, CallsAreAllowed, Restricted
<1> QED
  BY <1>4, <1>5, <1>6, <1>7, <1>8 DEF LoopInv

\* Starting a run keeps it.
LEMMA BeginKeeps ==
    ASSUME LoopInv, Begin
    PROVE  LoopInv'
<1>1. /\ pc = "idle" /\ pc' = "round"
      /\ UNCHANGED <<registry, kind, policy, talk, stored, marked, wrote>>
      /\ TypeOK
  BY DEF LoopInv, Begin
<1>2. PICK allowed \in SUBSET Business : run' = [NewRun EXCEPT !.allowed = allowed]
  BY DEF Begin
<1>3. /\ run' \in Runs /\ run'.left = <<>> /\ run'.round = 0 /\ run'.bound = registry
  BY <1>1, <1>2, NewRunTyped DEF TypeOK, Runs, NewRun
<1>4. TypeOK'
  BY <1>1, <1>3 DEF TypeOK, Running
<1>5. ToolsAreKnown'
  BY <1>1, <1>3 DEF LoopInv, ToolsAreKnown
<1>6. CallsAreCounted'
  BY <1>1, <1>3, RoundsAssumption DEF LoopInv, CallsAreCounted, ControlTools, Autonomous, Rounds
<1>7. PausesAreWhole'
  BY <1>1 DEF LoopInv, PausesAreWhole
<1>8. GradesAreReserved'
  BY <1>1 DEF LoopInv, GradesAreReserved
<1>9. CallsAreAllowed'
  BY <1>1 DEF LoopInv, CallsAreAllowed, Running
<1> QED
  BY <1>4, <1>5, <1>6, <1>7, <1>8, <1>9 DEF LoopInv

\* Resuming a stored pause, or refusing it, keeps it.
LEMMA ResumeKeeps ==
    ASSUME LoopInv, Resume
    PROVE  LoopInv'
<1>1. /\ TypeOK /\ pc = "paused" /\ kind' = "resume" /\ UNCHANGED <<registry, marked, wrote>>
      /\ Whole(stored) /\ \A g \in Grades : wrote[g] = 1 => g \in stored.reserved
  BY DEF LoopInv, Resume, PausesAreWhole, GradesAreReserved
<1>2. CASE Leave("over") /\ stored' = None
  <2>1. wrote' \in [Grades -> {0, 1}]
    BY <1>1, WroteTyped
  <2>2. Leaves
    BY <1>1, <1>2, <2>1 DEF Leaves, Leave, TypeOK
  <2> QED
    BY <2>2, LeavesKeeps
<1>3. CASE /\ pc' = IF stored.round < MaxRounds THEN "round" ELSE "close"
           /\ run' = [NewRun EXCEPT !.round = stored.round]
           /\ policy' = Restored
           /\ talk' \in Recalled
           /\ UNCHANGED stored
  <2>1. /\ run' \in Runs /\ run'.left = <<>> /\ run'.bound = registry
        /\ run'.round = stored.round /\ stored.round \in 1..MaxRounds
    BY <1>1, <1>3, NewRunTyped DEF TypeOK, Whole, Snapshots, NewRun, Runs
  <2>2. policy' \in Policies /\ policy'.reserved = stored.reserved /\ policy'.tainted = stored.tainted
    BY <1>1, <1>3, NewTyped DEF Restored, Whole, Snapshots, Policies, NewPolicy
  <2>3. talk' \in Talks /\ talk'.unanswered = 0 /\ talk'.suspicious = stored.talk.suspicious
    <3>1. stored.talk \in Talks
      BY <1>1 DEF Whole, Snapshots
    <3>2. PICK grade \in {stored.talk.grade, None} :
              talk' = [stored.talk EXCEPT !.unanswered = 0, !.grade = grade]
      BY <1>3 DEF Recalled
    <3>3. grade \in Grades \cup {None}
      BY <3>1 DEF Talks
    <3> QED
      BY <3>1, <3>2, <3>3 DEF Talks
  <2>4. pc' \in {"round", "close"} /\ (pc' = "round" => run'.round < MaxRounds)
    BY <1>3, <2>1
  <2>5. TypeOK'
    BY <1>1, <1>3, <2>1, <2>2, <2>3, <2>4 DEF TypeOK, Running
  <2>6. ToolsAreKnown'
    BY <1>1, <2>1 DEF LoopInv, ToolsAreKnown
  <2>7. CallsAreCounted'
    <3>1. Rounds' = MaxRounds
      BY <1>1 DEF Rounds, Autonomous
    <3> QED
      BY <2>1, <2>3, <2>4, <3>1, RoundsAssumption DEF CallsAreCounted
  <2>8. PausesAreWhole'
    BY <1>1, <1>3, <2>4 DEF PausesAreWhole
  <2>9. GradesAreReserved'
    BY <1>1, <1>3, <2>2, <2>4 DEF LoopInv, GradesAreReserved
  <2>10. CallsAreAllowed'
    BY <1>1, <2>2, <2>3, <2>4 DEF CallsAreAllowed, Whole
  <2> QED
    BY <2>5, <2>6, <2>7, <2>8, <2>9, <2>10 DEF LoopInv
<1> QED
  BY <1>2, <1>3 DEF Resume

\* Asking the model for a round keeps it.
LEMMA AskKeeps ==
    ASSUME LoopInv, Ask
    PROVE  LoopInv'
<1>1. /\ TypeOK /\ pc = "round" /\ pc \in Running /\ UNCHANGED <<registry, kind, wrote>>
  BY DEF LoopInv, Ask, Running
<1>2. CASE Cut
  BY <1>1, <1>2, WroteTyped, ReturnsLeave, LeavesKeeps
<1>3. CASE /\ pc' = "model"
           /\ run' = [run EXCEPT !.prior = talk.grade, !.bound = registry]
           /\ UNCHANGED <<policy, talk, stored, marked>>
  <2>1. /\ run' \in Runs /\ run'.left = run.left /\ run'.bound = registry
        /\ run'.round = run.round
    BY <1>1, <1>3 DEF TypeOK, Runs, Talks
  <2>2. TypeOK'
    BY <1>1, <1>3, <2>1 DEF TypeOK, Running
  <2>3. ToolsAreKnown'
    BY <1>1, <2>1 DEF LoopInv, ToolsAreKnown
  <2>4. CallsAreCounted'
    BY <1>1, <1>3, <2>1 DEF LoopInv, CallsAreCounted, ControlTools, Autonomous, Rounds
  <2>5. PausesAreWhole'
    BY <1>1, <1>3 DEF LoopInv, PausesAreWhole, Running
  <2>6. GradesAreReserved'
    BY <1>1, <1>3 DEF LoopInv, GradesAreReserved
  <2>7. CallsAreAllowed'
    BY <1>1, <1>3 DEF LoopInv, CallsAreAllowed
  <2> QED
    BY <2>2, <2>3, <2>4, <2>5, <2>6, <2>7 DEF LoopInv
<1> QED
  BY <1>2, <1>3 DEF Ask

\* A batch is taken: its calls are without an answer, and control tools alone.
LEMMA TakeKeeps ==
    ASSUME LoopInv, Take
    PROVE  LoopInv'
<1>1. /\ TypeOK /\ pc = "model" /\ pc \in Running
      /\ UNCHANGED <<registry, kind, policy, stored, marked, wrote>>
      /\ talk.unanswered = 0 /\ run \in Runs
  BY DEF LoopInv, TypeOK, Take, Running, CallsAreCounted
<1>2. CASE EndRound /\ UNCHANGED talk
  BY <1>1, <1>2, EndsRoundKeeps DEF EndsRound
<1>3. ASSUME NEW batch \in Batches, ~ Mixed(batch), pc' = "batch",
             run' = [run EXCEPT !.left = [i \in DOMAIN batch |-> Effective(batch[i])]],
             talk' = [talk EXCEPT !.unanswered = Len(batch)]
      PROVE  LoopInv'
  <2>1. PICK left : left = [i \in DOMAIN batch |-> Effective(batch[i])]
    OBVIOUS
  <2>2. /\ left \in Seq(Calls) /\ Len(left) = Len(batch) /\ DOMAIN left = DOMAIN batch
        /\ Len(batch) \in Nat
        /\ \A i \in DOMAIN left : left[i].tool = batch[i].tool
    BY <1>1, <2>1, BatchesTyped
  <2>3. /\ run' \in Runs /\ run'.left = left /\ run'.bound = run.bound /\ run'.round = run.round
    BY <1>1, <1>3, <2>1, <2>2 DEF Runs
  <2>4. talk' \in Talks /\ talk'.unanswered = Len(left) /\ talk'.suspicious = talk.suspicious
    BY <1>1, <1>3, <2>2 DEF TypeOK, Talks
  <2>5. \A i \in DOMAIN left : left[i].tool \in ControlTools' => Len(left) = 1
    <3>1. ControlTools' = ControlTools
      BY <1>1 DEF ControlTools, Autonomous
    <3>2. ASSUME NEW i \in DOMAIN left, left[i].tool \in ControlTools PROVE Len(left) = 1
      <4>1. i \in DOMAIN batch /\ batch[i].tool \in ControlTools
        BY <2>2, <3>2
      <4>2. Len(batch) >= 1
        BY <2>2
      <4> QED
        BY <1>3, <2>2, <4>1, <4>2 DEF Mixed
    <3> QED
      BY <3>1, <3>2
  <2>6. TypeOK'
    BY <1>1, <1>3, <2>3, <2>4 DEF TypeOK, Running
  <2>7. ToolsAreKnown'
    BY <1>1, <2>3 DEF LoopInv, ToolsAreKnown
  <2>8. CallsAreCounted'
    <3>1. Rounds' = Rounds
      BY <1>1 DEF Rounds, Autonomous
    <3> QED
      BY <1>1, <1>3, <2>3, <2>4, <2>5, <3>1 DEF LoopInv, CallsAreCounted
  <2>9. PausesAreWhole'
    BY <1>1, <1>3 DEF LoopInv, PausesAreWhole, Running
  <2>10. GradesAreReserved'
    BY <1>1, <1>3 DEF LoopInv, GradesAreReserved
  <2>11. CallsAreAllowed'
    BY <1>1, <1>3, <2>4 DEF LoopInv, CallsAreAllowed
  <2> QED
    BY <2>6, <2>7, <2>8, <2>9, <2>10, <2>11 DEF LoopInv
<1> QED
  BY <1>2, <1>3 DEF Take

\* The tool a restricted run has in hand is the one it was offered.
LEMMA SameToolIsReadOnly ==
    ASSUME LoopInv, NEW tool \in Business, SameTool(tool), Restricted
    PROVE  Replayable(registry.mode[tool])
<1>1. registry.version = run.bound.version => registry = run.bound
  BY DEF LoopInv, ToolsAreKnown, Native
<1>2. tool # "search" => registry.mode[tool] = run.bound.mode[tool]
  BY DEF LoopInv, ToolsAreKnown, Native
<1> QED
  BY <1>1, <1>2 DEF SameTool, Replayable

\* A call is denied, or starts towards its handler under a reservation.
LEMMA DispatchKeeps ==
    ASSUME LoopInv, Dispatch
    PROVE  LoopInv'
<1>1. /\ TypeOK /\ pc = "batch" /\ pc \in Running /\ run.left # <<>>
      /\ Call.tool \in Business /\ Passes(Call) /\ Call.args # "missing"
      /\ UNCHANGED <<registry, kind, stored, marked, wrote>>
      /\ run \in Runs /\ policy \in Policies /\ run.left \in Seq(Calls)
  BY DEF LoopInv, TypeOK, Dispatch, Running, Runs
<1>2. CASE Denied(Call) /\ Block /\ UNCHANGED policy
  <2>1. marked \in BOOLEAN
    BY <1>1 DEF TypeOK
  <2>2. Answers
    BY <1>1, <1>2, <2>1, RecordsTyped, ReservationsHold, RepliesAnswer DEF Block
  <2> QED
    BY <2>2, AnswersKeeps
<1>3. CASE /\ ~ Denied(Call)
           /\ policy' = [policy EXCEPT !.reserved = IF Reserves(Call) THEN @ \cup {Call.args} ELSE @]
           /\ pc' = "barrier"
           /\ run' = [run EXCEPT !.mode = registry.mode[Call.tool]]
           /\ UNCHANGED talk
  <2>1. Call.tool = "update" => Call.args \in Grades
    BY <1>1, NextCall, CallsTyped DEF Call, Passes, InScope
  <2>2. /\ policy' \in Policies /\ policy'.tainted = policy.tainted
        /\ policy.reserved \subseteq policy'.reserved
        /\ Call.tool = "update" => Call.args \in policy'.reserved
    BY <1>1, <1>3, <2>1 DEF Policies, Reserves
  <2>3. /\ run' \in Runs /\ run'.left = run.left /\ run'.bound = run.bound
        /\ run'.round = run.round /\ run'.mode = registry.mode[Call.tool]
        /\ Call' = Call
    BY <1>1, <1>3 DEF TypeOK, Runs, Registries, Call
  <2>4. Call.tool = "update" => wrote[Call.args] = 0
    BY <1>1, <1>3, <2>1, ReservationsHold DEF LoopInv, GradesAreReserved, Denied, Reserves
  <2>5. TypeOK'
    BY <1>1, <1>3, <2>2, <2>3 DEF TypeOK, Running
  <2>6. ToolsAreKnown'
    BY <1>1, <2>3 DEF LoopInv, ToolsAreKnown
  <2>7. CallsAreCounted'
    BY <1>1, <1>3, <2>3 DEF LoopInv, CallsAreCounted, ControlTools, Autonomous, Rounds
  <2>8. PausesAreWhole'
    BY <1>1, <1>3 DEF LoopInv, PausesAreWhole, Running
  <2>9. GradesAreReserved'
    BY <1>1, <1>3, <2>1, <2>2, <2>3, <2>4 DEF LoopInv, GradesAreReserved
  <2>10. CallsAreAllowed'
    <3>1. Restricted => Replayable(registry.mode[Call.tool])
      BY <1>1, SameToolIsReadOnly DEF Passes
    <3>2. Replayable(registry.mode[Call.tool]) \/ ~ policy.tainted
      BY <1>3 DEF Denied, Tainted
    <3>3. talk.suspicious => policy.tainted
      BY <1>1 DEF LoopInv, CallsAreAllowed
    <3> QED
      BY <1>1, <1>3, <2>2, <2>3, <3>1, <3>2, <3>3 DEF CallsAreAllowed, Restricted, Replayable
  <2> QED
    BY <2>5, <2>6, <2>7, <2>8, <2>9, <2>10 DEF LoopInv
<1> QED
  BY <1>2, <1>3 DEF Dispatch

\* The barrier lets a call through once its marks are durable.
LEMMA MarksKeep ==
    ASSUME LoopInv, Barrier, Marks
    PROVE  LoopInv'
<1>1. /\ TypeOK /\ pc = "barrier" /\ pc' = "handler" /\ pc \in Running
      /\ marked' = (kind = "resume" \/ marked)
      /\ UNCHANGED <<registry, kind, wrote, run, talk, stored>>
      /\ policy \in Policies
  BY BarrierCases DEF LoopInv, TypeOK, Marks, Running
<1>2. /\ policy' \in Policies /\ policy'.reserved = policy.reserved
      /\ policy'.tainted = policy.tainted
  BY <1>1 DEF Marks, Policies
<1>3. TypeOK'
  BY <1>1, <1>2 DEF TypeOK, Running
<1>4. ToolsAreKnown'
  BY <1>1 DEF LoopInv, ToolsAreKnown
<1>5. CallsAreCounted'
  BY <1>1 DEF LoopInv, CallsAreCounted, ControlTools, Autonomous, Rounds, Call
<1>6. PausesAreWhole'
  BY <1>1 DEF LoopInv, PausesAreWhole, Running
<1>7. GradesAreReserved'
  BY <1>1, <1>2 DEF LoopInv, GradesAreReserved, Call
<1>8. CallsAreAllowed'
  BY <1>1, <1>2 DEF LoopInv, CallsAreAllowed
<1> QED
  BY <1>3, <1>4, <1>5, <1>6, <1>7, <1>8 DEF LoopInv

\* The inductive invariant holds before the first run.
LEMMA InitEstablishesLoopInv ==
    ASSUME Init
    PROVE  LoopInv
<1>1. registry = Native /\ registry \in Registries
  BY ToolsTyped DEF Init, Native, Registries
<1>2. /\ run \in Runs /\ run.left = <<>> /\ run.round = 0 /\ run.bound = registry
  BY <1>1, NewRunTyped DEF Init, NewRun
<1>3. TypeOK
  BY <1>1, <1>2, NewTyped DEF Init, TypeOK
<1>4. ToolsAreKnown
  BY <1>1, <1>2 DEF ToolsAreKnown, Native
<1>5. CallsAreCounted
  BY <1>2, NewTyped, RoundsAssumption DEF Init, CallsAreCounted, Rounds
<1>6. PausesAreWhole
  BY DEF Init, PausesAreWhole, Running
<1>7. GradesAreReserved
  BY DEF Init, GradesAreReserved, Running
<1>8. CallsAreAllowed
  BY NewTyped DEF Init, CallsAreAllowed, Running
<1> QED
  BY <1>3, <1>4, <1>5, <1>6, <1>7, <1>8 DEF LoopInv

\* Every step of the loop keeps the inductive invariant.
LEMMA EveryStepKeeps ==
    ASSUME LoopInv, [Next]_vars
    PROVE  LoopInv'
<1>1. CASE UNCHANGED vars
  BY <1>1 DEF vars, LoopInv, TypeOK, ToolsAreKnown, CallsAreCounted, PausesAreWhole,
     GradesAreReserved, CallsAreAllowed, Call, ControlTools, Autonomous, Rounds, Restricted
<1>2. CASE Replace \/ Begin \/ Resume \/ Ask \/ Take \/ Dispatch
  BY <1>2, ReplaceKeeps, BeginKeeps, ResumeKeeps, AskKeeps, TakeKeeps, DispatchKeeps
<1>3. CASE Crash \/ Fail
  BY <1>3, WroteTyped, ReturnsLeave, LeavesKeeps DEF Crash, Fail
<1>4. CASE Text \/ Finalize
  BY <1>4, AnswersLeave, LeavesKeeps DEF Text, Finalize
<1>5. CASE RefuseIds \/ EndBatch
  <2>1. talk.unanswered = 0
    BY <1>5 DEF RefuseIds, EndBatch, LoopInv, CallsAreCounted
  <2> QED
    BY <1>5, <2>1, EndsRoundKeeps DEF RefuseIds, EndBatch, EndsRound
<1>6. CASE Refuse \/ Misfit \/ BadControl
  BY <1>6, RefusalsAnswer, AnswersKeeps
<1>7. CASE Barrier
  <2>1. CASE Marks
    BY <1>7, <2>1, MarksKeep
  <2>2. CASE MarkFails
    BY <1>7, <2>2, BarrierCases, BarriersAnswer, AnswersKeeps
  <2>3. CASE Cut
    BY <1>7, <2>3, BarrierCases, WroteTyped, ReturnsLeave, LeavesKeeps DEF Running
  <2> QED
    BY <1>7, <2>1, <2>2, <2>3, BarrierCases
<1>8. CASE Handle \/ HandlerFails
  BY <1>8, HandlersAnswer, FailuresAnswerOrLeave, AnswersKeeps, LeavesKeeps
<1>9. CASE Pause
  BY <1>9, PausesLeave, LeavesKeeps
<1> QED
  BY <1>1, <1>2, <1>3, <1>4, <1>5, <1>6, <1>7, <1>8, <1>9 DEF Next

-----------------------------------------------------------------------------
(***************************************************************************)
(* What follows from it                                                    *)
(***************************************************************************)

\* The inductive invariant holds in every reachable state.
THEOREM LoopInvariance == Spec => []LoopInv
<1>1. LoopInv /\ [Next]_vars => LoopInv'
  BY EveryStepKeeps
<1> QED
  BY InitEstablishesLoopInv, <1>1, PTL DEF Spec

\* Every reachable state of a tool-calling run is well typed.
THEOREM LoopTypeCorrect == Spec => []TypeOK
<1>1. LoopInv => TypeOK
  BY DEF LoopInv
<1> QED
  BY <1>1, LoopInvariance, PTL

\* An update of a grade is carried out once per conversation, whatever the
\* model repeats and wherever the runs of the conversation break off.
THEOREM GradesOnce == Spec => []EachGradeIsWrittenOnce
<1>1. LoopInv => EachGradeIsWrittenOnce
  BY DEF LoopInv, GradesAreReserved, EachGradeIsWrittenOnce
<1> QED
  BY <1>1, LoopInvariance, PTL

\* The model is asked only with a transcript in which each call has its one
\* answer, and no conversation gets rounds by pausing.
THEOREM WholeTranscript == Spec => []TranscriptIsWhole
<1>1. LoopInv => TranscriptIsWhole
  BY DEF LoopInv, CallsAreCounted, PausesAreWhole, Whole, TranscriptIsWhole
<1> QED
  BY <1>1, LoopInvariance, PTL

\* No handler starts that the conversation does not allow, whatever replaced
\* the tool since it was offered.
THEOREM AllowedHandlers == Spec => OnlyAllowedHandlersStart
<1>1. ASSUME LoopInv, [Next]_vars
      PROVE  [pc # "handler" /\ pc' = "handler" =>
                 \/ Replayable(run.mode)
                 \/ ~ talk.suspicious /\ ~ Restricted]_vars
  <2>1. pc' = "handler" => pc = "handler" \/ pc = "barrier"
    BY <1>1 DEF Next, vars, Replace, Begin, Resume, Leave, Ask, Cut, Abort, Return, Crash,
       Fail, Text, Answered, RefuseIds, EndRound, NextRound, Take, EndBatch, Refuse, Block,
       Reply, Misfit, Observe, Dispatch, Barrier, Handle, HandlerFails, BadControl, Finalize,
       Pause
  <2> QED
    BY <1>1, <2>1 DEF LoopInv, CallsAreAllowed
<1> QED
  BY <1>1, LoopInvariance, PTL DEF Spec, OnlyAllowedHandlersStart

=============================================================================
