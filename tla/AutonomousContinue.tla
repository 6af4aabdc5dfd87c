-------------------------- MODULE AutonomousContinue --------------------------
(***************************************************************************)
(* POST /agent/autonomous/continue with an Idempotency-Key: concurrent and *)
(* repeated replies to one paused conversation.  A request owns two leases *)
(* that neither begin, end nor lapse together: the receipt of its key and  *)
(* the claim on the pause.  The tombstone it leaves in the pause's row is  *)
(* the outcome of the conversation; receipts are completed from it.        *)
(*                                                                         *)
(* The rows are those of Receipts and PauseRows.  A run's next pause is    *)
(* drawn a fresh id, named here by the run; room in the table for it is    *)
(* AutonomousSessions' concern, and may be lacking at any time.            *)
(***************************************************************************)
EXTENDS Integers, FiniteSets

CONSTANTS Attempts, Keys, Replies, LeaseSeconds, TtlSeconds, OperationLeaseSeconds, None,
          MaxTime,    \* bound of the clock
          MaxFaults   \* bound of database errors and lost acknowledgements

ASSUME LimitsAssumption == {LeaseSeconds, TtlSeconds, OperationLeaseSeconds} \subseteq Nat \ {0}
ASSUME BoundsAssumption == MaxTime \in Nat /\ MaxFaults \in Nat

Final(a) == [kind |-> "final", author |-> a]
NextPause(a) == [kind |-> "pause", author |-> a]

Responses == {Final(a) : a \in Attempts} \cup {NextPause(a) : a \in Attempts}

ASSUME NoneAssumption == None \notin Attempts \cup Replies \cup Responses

R == INSTANCE Receipts WITH Bindings <- Replies
P == INSTANCE PauseRows WITH Conversations <- {"conversation"}, Fingerprints <- Replies,
                             MaxCount <- 1

VARIABLES now,
          receipts,     \* the rows of the keys
          pause,        \* the row of the conversation that is continued
          next,         \* next[a]: the pause a's run handed off to
          pc, key, reply,
          said,         \* said[a]: the response a is about to give
          errand,       \* errand[a]: what a stored response is checked for
          flags,        \* the handler's locals, see Flags
          late,         \* the store call of a cancelled request still under way
          dispatched,   \* attempts that dispatched a tool
          got,          \* got[a]: the response a returned
          outcomes,     \* responses ever journaled for the conversation
          faults

vars == <<now, receipts, pause, next, pc, key, reply, said, errand, flags, late, dispatched, got,
          outcomes, faults>>

PcStates == {"idle", "arrived", "turned", "claiming", "claimed", "round", "round2", "thinking",
             "calls", "calls2", "batch", "dispatching", "marked", "finishing", "handing",
             "completing", "checking", "reconciling", "recovering", "rechecking", "deciding",
             "letting_go", "undoing", "releasing", "consuming", "aborting", "over"}

Errands == {"none", "return", "complete", "reconcile"}

\* progress_started; outcome_committed; session_still_owned; and whether the
\* exception being handled is an IdempotencyConflictError.
Flags == {"progress", "committed", "owned", "conflict"}

TypeOK ==
    /\ now \in Nat
    /\ receipts \in [Keys -> R!Row]
    /\ pause \in P!Pause
    /\ next \in [Attempts -> {"absent", "paused", "away"}]
    /\ pc \in [Attempts -> PcStates]
    /\ key \in [Attempts -> Keys]
    /\ reply \in [Attempts -> Replies]
    /\ said \in [Attempts -> Responses \cup {None}]
    /\ errand \in [Attempts -> Errands]
    /\ flags \in [Attempts -> SUBSET Flags]
    /\ late \in [Attempts -> {"none", "abort", "outcome"}]
    /\ dispatched \in SUBSET Attempts
    /\ got \in [Attempts -> Responses \cup {None}]
    /\ outcomes \in SUBSET Responses
    /\ faults \in Nat

Init ==
    /\ now = 1
    /\ receipts = [k \in Keys |-> R!NoRow]
    /\ pause = P!NewPause(1)
    /\ next = [a \in Attempts |-> "absent"]
    /\ pc = [a \in Attempts |-> "idle"]
    /\ key \in [Attempts -> Keys]
    /\ reply \in [Attempts -> Replies]
    /\ said = [a \in Attempts |-> None]
    /\ errand = [a \in Attempts |-> "none"]
    /\ flags = [a \in Attempts |-> {}]
    /\ late = [a \in Attempts |-> "none"]
    /\ dispatched = {} /\ outcomes = {}
    /\ got = [a \in Attempts |-> None]
    /\ faults = 0

-----------------------------------------------------------------------------
Receipt(a) == receipts[key[a]]
Write(a, row) == receipts' = [receipts EXCEPT ![key[a]] = row]
Goto(a, where) == pc' = [pc EXCEPT ![a] = where]
Say(a, r) == said' = [said EXCEPT ![a] = r]
Return(a, r) == got' = [got EXCEPT ![a] = r] /\ Goto(a, "over")
Flag(a, f) == flags' = [flags EXCEPT ![a] = @ \cup f]
Fault == faults < MaxFaults /\ faults' = faults + 1

Tick == /\ now < MaxTime
        /\ now' = now + 1
        /\ UNCHANGED <<receipts, pause, next, pc, key, reply, said, errand, flags, late,
                       dispatched, got, outcomes, faults>>

\* A stored response is validated before it is used (Check).
Validate(a, r, for) == Say(a, r) /\ errand' = [errand EXCEPT ![a] = for] /\ Goto(a, "checking")

\* The outcome of the conversation, to those who made the reply it answers.
OutcomeFor(row, a) == row.outcome = "completed" /\ row.fingerprint = reply[a]

(***************************************************************************)
(* owned, begin, and an outcome found in place of a lease                  *)
(***************************************************************************)
Arrive(a) ==
    /\ pc[a] = "idle"
    /\ Goto(a, IF pause.state = "absent" THEN "over" ELSE "arrived")
    /\ UNCHANGED <<now, receipts, pause, next, key, reply, said, errand, flags, late, dispatched,
                   got, outcomes, faults>>

Begin(a) ==
    /\ pc[a] = "arrived"
    /\ Write(a, R!BeginRow(Receipt(a), reply[a], a, now))
    /\ LET verdict == R!BeginAnswer(Receipt(a), reply[a], now)
       IN CASE verdict = "claimed"  -> Goto(a, "claiming") /\ UNCHANGED <<said, errand>>
            [] verdict = "replayed" -> Validate(a, Receipt(a).response, "return")
            [] verdict \in {"in_progress", "ambiguous"} ->
                 Goto(a, "turned") /\ UNCHANGED <<said, errand>>
            [] OTHER -> Goto(a, "over") /\ UNCHANGED <<said, errand>>
    /\ UNCHANGED <<now, pause, next, key, reply, flags, late, dispatched, got, outcomes, faults>>

\* _recover_continue_outcome_from_session, for a request that was turned
\* away or for one that failed after it attempted to journal an outcome.
RecoverOutcome(a) ==
    /\ pc[a] \in {"turned", "recovering"}
    /\ pause' = P!SweptRow(pause, now)
    /\ IF OutcomeFor(pause', a)
       THEN Validate(a, pause'.response, "reconcile")
       ELSE /\ Goto(a, IF pc[a] = "turned" THEN "over" ELSE "rechecking")
            /\ UNCHANGED <<said, errand>>
    /\ UNCHANGED <<now, receipts, next, key, reply, flags, late, dispatched, got, outcomes, faults>>

Current(r) == r.kind = "pause" => next[r.author] = "paused"

\* _validate_replayed_response: the next pause must still wait.
Check(a) ==
    /\ pc[a] = "checking"
    /\ IF Current(said[a]) /\ errand[a] = "return"
       THEN Return(a, said[a])
       ELSE /\ Goto(a, CASE ~ Current(said[a]) -> "over"
                         [] Current(said[a]) /\ errand[a] = "complete" -> "completing"
                         [] OTHER -> "reconciling")
            /\ UNCHANGED got
    /\ UNCHANGED <<now, receipts, pause, next, key, reply, said, errand, flags, late, dispatched,
                   outcomes, faults>>

\* reconcile_completed with allow_effect_started.
Reconcile(a) ==
    /\ pc[a] = "reconciling"
    /\ Write(a, R!ReconcileRow(Receipt(a), reply[a], said[a], TRUE))
    /\ IF R!ReconcileAnswer(Receipt(a), reply[a], said[a], TRUE) \in {"agreed", "repaired"}
       THEN Return(a, said[a])
       ELSE Goto(a, "over") /\ UNCHANGED got
    /\ UNCHANGED <<now, pause, next, key, reply, said, errand, flags, late, dispatched, outcomes,
                   faults>>

(***************************************************************************)
(* claim                                                                   *)
(***************************************************************************)
Claim(a) ==
    /\ pc[a] = "claiming"
    /\ pause' = P!ClaimRow(pause, TRUE, a, reply[a], now)
    /\ LET verdict == P!ClaimAnswer(pause, TRUE, reply[a], now)
       IN CASE verdict = "claimed"   -> Goto(a, "claimed") /\ UNCHANGED <<said, errand>>
            [] verdict = "completed" -> Validate(a, pause.response, "complete")
            [] OTHER                 -> Goto(a, "aborting") /\ UNCHANGED <<said, errand>>
    /\ UNCHANGED <<now, receipts, next, key, reply, flags, late, dispatched, got, outcomes, faults>>

\* An error or a cancellation before or after the commit.
ClaimFails(a) ==
    /\ pc[a] = "claiming"
    /\ Fault
    /\ pause' \in {pause, P!ClaimRow(pause, TRUE, a, reply[a], now)}
    /\ Goto(a, "aborting")
    /\ UNCHANGED <<now, receipts, next, key, reply, said, errand, flags, late, dispatched, got,
                   outcomes>>

\* The reply does not pass the input check: the clean claim is released.
Reject(a) ==
    /\ pc[a] = "claimed"
    /\ pause' = P!CancelRow(pause, a, now)
    /\ Goto(a, "aborting")
    /\ UNCHANGED <<now, receipts, next, key, reply, said, errand, flags, late, dispatched, got,
                   outcomes, faults>>

\* The snapshot is unreadable or of another tool registry.
Terminate(a) ==
    /\ pc[a] = "claimed"
    /\ pause' = P!ConsumeRow(pause, a, now)
    /\ Goto(a, "aborting")
    /\ UNCHANGED <<now, receipts, next, key, reply, said, errand, flags, late, dispatched, got,
                   outcomes, faults>>

Resume(a) ==
    /\ pc[a] = "claimed"
    /\ Goto(a, "round")
    /\ UNCHANGED <<now, receipts, pause, next, key, reply, said, errand, flags, late, dispatched,
                   got, outcomes, faults>>

(***************************************************************************)
(* The run                                                                 *)
(***************************************************************************)
Running == {"round", "round2", "thinking", "calls", "calls2", "batch", "dispatching", "marked"}

\* renew_ownership, before every round and before every batch of tool calls,
\* renews the receipt and then the claim.
AfterReceipt == [round |-> "round2", calls |-> "calls2"]
AfterSession == [round2 |-> "thinking", calls2 |-> "batch"]

RenewReceipt(a) ==
    /\ pc[a] \in DOMAIN AfterReceipt
    /\ Write(a, R!RenewRow(Receipt(a), a, now))
    /\ IF R!RenewHolds(Receipt(a), a, now)
       THEN Goto(a, AfterReceipt[pc[a]]) /\ UNCHANGED flags
       ELSE Goto(a, "rechecking") /\ Flag(a, {"conflict"})
    /\ UNCHANGED <<now, pause, next, key, reply, said, errand, late, dispatched, got, outcomes,
                   faults>>

RenewSession(a) ==
    /\ pc[a] \in DOMAIN AfterSession
    /\ pause' = P!RenewRow(pause, a, now)
    /\ IF P!Owns(pause, a, now)
       THEN Goto(a, AfterSession[pc[a]]) /\ UNCHANGED flags
       ELSE Goto(a, "rechecking") /\ Flag(a, {"conflict"})
    /\ UNCHANGED <<now, receipts, next, key, reply, said, errand, late, dispatched, got, outcomes,
                   faults>>

\* The model calls tools, or its batch is over or was rejected as a whole.
NextCalls(a) ==
    /\ \/ pc[a] = "thinking" /\ Goto(a, "calls")
       \/ pc[a] \in {"thinking", "batch"} /\ Goto(a, "round")
    /\ UNCHANGED <<now, receipts, pause, next, key, reply, said, errand, flags, late, dispatched,
                   got, outcomes, faults>>

\* Mutant: the handler does not look at what mark_progress() returned.
MarkProgressUnchecked(a) ==
    /\ pc[a] = "batch"
    /\ pause' = P!MarkProgressRow(pause, a, now)
    /\ Goto(a, "dispatching") /\ Flag(a, {"progress"})
    /\ UNCHANGED <<now, receipts, next, key, reply, said, errand, late, dispatched, got, outcomes,
                   faults>>

\* Immediately before each handler.
MarkProgress(a) ==
    /\ pc[a] = "batch"
    /\ pause' = P!MarkProgressRow(pause, a, now)
    /\ IF P!Owns(pause, a, now)
       THEN Goto(a, "dispatching") /\ Flag(a, {"progress"})
       ELSE Goto(a, "rechecking") /\ Flag(a, {"conflict"})
    /\ UNCHANGED <<now, receipts, next, key, reply, said, errand, late, dispatched, got, outcomes,
                   faults>>

\* The mark commits and its acknowledgement is lost, or it does not commit.
MarkProgressFails(a) ==
    /\ pc[a] = "batch"
    /\ Fault
    /\ pause' \in {pause, P!MarkProgressRow(pause, a, now)}
    /\ Goto(a, "rechecking")
    /\ UNCHANGED <<now, receipts, next, key, reply, said, errand, flags, late, dispatched, got,
                   outcomes>>

\* A non-replayable tool; a refused marker is no IdempotencyConflictError.
MarkEffectStarted(a) ==
    /\ pc[a] = "dispatching"
    /\ Write(a, R!MarkEffectRow(Receipt(a), a, now))
    /\ Goto(a, IF R!MayWrite(Receipt(a), a, now) THEN "marked" ELSE "rechecking")
    /\ UNCHANGED <<now, pause, next, key, reply, said, errand, flags, late, dispatched, got,
                   outcomes, faults>>

\* A marked tool, or one that can be replayed and needs no mark.
Dispatch(a) ==
    /\ pc[a] \in {"dispatching", "marked"}
    /\ dispatched' = dispatched \cup {a}
    /\ Goto(a, "batch")
    /\ UNCHANGED <<now, receipts, pause, next, key, reply, said, errand, flags, late, got,
                   outcomes, faults>>

Conclude(a) ==
    /\ pc[a] = "thinking"
    /\ \E r \in {Final(a), NextPause(a)} : Say(a, r)
    /\ Goto(a, "finishing")
    /\ UNCHANGED <<now, receipts, pause, next, key, reply, errand, flags, late, dispatched, got,
                   outcomes, faults>>

Raise(a) ==
    /\ pc[a] \in Running
    /\ Goto(a, "rechecking")
    /\ UNCHANGED <<now, receipts, pause, next, key, reply, said, errand, flags, late, dispatched,
                   got, outcomes, faults>>

\* The client goes away.
CancelRun(a) ==
    /\ pc[a] \in Running
    /\ Goto(a, "undoing")
    /\ UNCHANGED <<now, receipts, pause, next, key, reply, said, errand, flags, late, dispatched,
                   got, outcomes, faults>>

(***************************************************************************)
(* The outcome: finish, or handoff to the next pause; then the receipt     *)
(***************************************************************************)
Journaled(a) ==
    /\ P!MayFinish(pause, a, now)
    /\ pause' = P!FinishRow(pause, a, said[a], now)
    /\ next' = [next EXCEPT ![a] = IF said[a].kind = "pause" THEN "paused" ELSE @]
    /\ outcomes' = outcomes \cup {said[a]}

\* The claim was lost, or there is no room for the next pause.
NotJournaled(a) ==
    /\ P!MayFinish(pause, a, now) => said[a].kind = "pause"
    /\ UNCHANGED <<pause, next, outcomes>>

\* Mutant: the handler does not look at what finish() or handoff() returned.
JournalUnchecked(a) ==
    /\ pc[a] = "finishing"
    /\ Journaled(a) \/ NotJournaled(a)
    /\ Goto(a, "completing") /\ Flag(a, {"committed"})
    /\ UNCHANGED <<now, receipts, key, reply, said, errand, late, dispatched, got, faults>>


Journal(a) ==
    /\ pc[a] = "finishing"
    /\ \/ Journaled(a) /\ Goto(a, "completing") /\ Flag(a, {"committed"})
       \/ NotJournaled(a) /\ Goto(a, "recovering") /\ UNCHANGED flags
    /\ UNCHANGED <<now, receipts, key, reply, said, errand, late, dispatched, got, faults>>

JournalFails(a) ==
    /\ pc[a] = "finishing"
    /\ Fault
    /\ Journaled(a) \/ UNCHANGED <<pause, next, outcomes>>
    /\ Goto(a, "recovering")
    /\ UNCHANGED <<now, receipts, key, reply, said, errand, flags, late, dispatched, got>>

\* The thread may journal after the request has undone itself.
CancelJournal(a) ==
    /\ pc[a] = "finishing"
    /\ late' = [late EXCEPT ![a] = "outcome"]
    /\ Goto(a, "undoing")
    /\ UNCHANGED <<now, receipts, pause, next, key, reply, said, errand, flags, dispatched, got,
                   outcomes, faults>>

AfterCompleteFails(a) == IF errand[a] = "complete" THEN "over" ELSE "recovering"

Complete(a) ==
    /\ pc[a] = "completing"
    /\ Write(a, R!CompleteRow(Receipt(a), a, said[a], now))
    /\ IF R!MayWrite(Receipt(a), a, now)
       THEN Return(a, said[a]) /\ UNCHANGED flags
       ELSE Goto(a, AfterCompleteFails(a)) /\ Flag(a, {"conflict"}) /\ UNCHANGED got
    /\ UNCHANGED <<now, pause, next, key, reply, said, errand, late, dispatched, outcomes, faults>>

\* An error or a cancellation before or after the commit.
CompleteFails(a) ==
    /\ pc[a] = "completing"
    /\ Fault
    /\ \E row \in {Receipt(a), R!CompleteRow(Receipt(a), a, said[a], now)} : Write(a, row)
    /\ Goto(a, AfterCompleteFails(a)) \/ Goto(a, "over")
    /\ UNCHANGED <<now, pause, next, key, reply, said, errand, flags, late, dispatched, got,
                   outcomes>>

(***************************************************************************)
(* The except-branch                                                       *)
(***************************************************************************)
\* A committed outcome is reconciled from memory, anything else undone.
Unresolved(a) == IF "committed" \in flags[a] THEN "reconciling" ELSE "undoing"

Recheck(a) ==
    /\ pc[a] = "rechecking"
    /\ pause' = P!RenewRow(pause, a, now)
    /\ IF P!Owns(pause, a, now)
       THEN /\ Flag(a, {"owned"})
            /\ Goto(a, IF "conflict" \in flags[a] THEN "deciding" ELSE Unresolved(a))
       ELSE Goto(a, "deciding") /\ UNCHANGED flags
    /\ UNCHANGED <<now, receipts, next, key, reply, said, errand, late, dispatched, got, outcomes,
                   faults>>

\* Ownership is gone or in doubt: what the pause's row says decides.
Decide(a) ==
    /\ pc[a] = "deciding"
    /\ pause' = P!SweptRow(pause, now)
    /\ LET active == P!Active(pause')
           mine   == pause'.fingerprint = reply[a]
       IN CASE OutcomeFor(pause', a) -> Validate(a, pause'.response, "reconcile")
            [] \/ pause'.outcome = "ambiguous"
               \/ active /\ pause'.state = "paused" /\ mine ->
                    Goto(a, "aborting") /\ UNCHANGED <<said, errand>>
            [] active /\ pause'.state = "in_flight" ->
                 /\ Goto(a, IF "owned" \in flags[a] /\ "progress" \notin flags[a]
                            THEN "letting_go" ELSE "over")
                 /\ UNCHANGED <<said, errand>>
            [] OTHER -> Goto(a, Unresolved(a)) /\ UNCHANGED <<said, errand>>
    /\ UNCHANGED <<now, receipts, next, key, reply, flags, late, dispatched, got, outcomes, faults>>

\* Any durable effect, this request's or a later owner's, counts as progress.
Undo(a) ==
    /\ pc[a] = "undoing"
    /\ Write(a, R!AbortRow(Receipt(a), a))
    /\ Goto(a, IF "progress" \in flags[a] \/ R!HasEffectStarted(Receipt(a))
               THEN "consuming" ELSE "releasing")
    /\ UNCHANGED <<now, pause, next, key, reply, said, errand, flags, late, dispatched, got,
                   outcomes, faults>>

\* The abort outlasts its drain deadline: an effect is assumed meanwhile.
AbortSlow(a) ==
    /\ pc[a] \in {"undoing", "aborting"} /\ late[a] = "none"
    /\ late' = [late EXCEPT ![a] = "abort"]
    /\ Goto(a, IF pc[a] = "undoing" THEN "consuming" ELSE "over")
    /\ UNCHANGED <<now, receipts, pause, next, key, reply, said, errand, flags, dispatched, got,
                   outcomes, faults>>

Release(a) ==
    /\ pc[a] \in {"releasing", "letting_go"}
    /\ pause' = P!CancelRow(pause, a, now)
    /\ Goto(a, IF pc[a] = "letting_go" \/ P!MayCancel(pause, a, now) THEN "over" ELSE "consuming")
    /\ UNCHANGED <<now, receipts, next, key, reply, said, errand, flags, late, dispatched, got,
                   outcomes, faults>>

Consume(a) ==
    /\ pc[a] = "consuming"
    /\ pause' = P!ConsumeRow(pause, a, now)
    /\ Goto(a, "over")
    /\ UNCHANGED <<now, receipts, next, key, reply, said, errand, flags, late, dispatched, got,
                   outcomes, faults>>

Abort(a) ==
    /\ pc[a] = "aborting"
    /\ Write(a, R!AbortRow(Receipt(a), a))
    /\ Goto(a, "over")
    /\ UNCHANGED <<now, pause, next, key, reply, said, errand, flags, late, dispatched, got,
                   outcomes, faults>>

\* The thread of a call whose request stopped waiting for it.
LateCall(a) ==
    /\ \/ late[a] = "abort" /\ Write(a, R!AbortRow(Receipt(a), a))
          /\ UNCHANGED <<pause, next, outcomes>>
       \/ late[a] = "outcome" /\ (Journaled(a) \/ NotJournaled(a)) /\ UNCHANGED receipts
    /\ late' = [late EXCEPT ![a] = "none"]
    /\ UNCHANGED <<now, pc, key, reply, said, errand, flags, dispatched, got, faults>>

\* The process dies, or an await outside the handlers fails.
Leave(a) ==
    /\ pc[a] \notin {"idle", "over"}
    /\ Goto(a, "over")
    /\ UNCHANGED <<now, receipts, pause, next, key, reply, said, errand, flags, late, dispatched,
                   got, outcomes, faults>>

(***************************************************************************)
(* Everyone else                                                           *)
(***************************************************************************)
\* DELETE, and eviction of a waiting pause.
Discard ==
    /\ pause.state = "paused"
    /\ pause' = P!DiscardRow(pause, now)
    /\ UNCHANGED <<now, receipts, next, pc, key, reply, said, errand, flags, late, dispatched, got,
                   outcomes, faults>>

\* The sweep of any other operation of the store.
Sweep ==
    /\ P!SweptRow(pause, now) # pause
    /\ pause' = P!SweptRow(pause, now)
    /\ UNCHANGED <<now, receipts, next, pc, key, reply, said, errand, flags, late, dispatched, got,
                   outcomes, faults>>

\* The next pause is continued, released again, or gone.
MoveNext(a) ==
    /\ next[a] # "absent"
    /\ next' = [next EXCEPT ![a] = IF @ = "paused" THEN "away" ELSE "paused"]
    /\ UNCHANGED <<now, receipts, pause, pc, key, reply, said, errand, flags, late, dispatched, got,
                   outcomes, faults>>

-----------------------------------------------------------------------------
Next ==
    \/ Tick \/ Discard \/ Sweep
    \/ \E a \in Attempts :
        \/ Arrive(a) \/ Begin(a) \/ RecoverOutcome(a) \/ Check(a) \/ Reconcile(a)
        \/ Claim(a) \/ ClaimFails(a) \/ Reject(a) \/ Terminate(a) \/ Resume(a)
        \/ RenewReceipt(a) \/ RenewSession(a) \/ NextCalls(a) \/ MarkProgress(a)
        \/ MarkProgressFails(a) \/ MarkEffectStarted(a) \/ Dispatch(a) \/ Conclude(a)
        \/ Raise(a) \/ CancelRun(a)
        \/ Journal(a) \/ JournalFails(a) \/ CancelJournal(a) \/ Complete(a) \/ CompleteFails(a)
        \/ Recheck(a) \/ Decide(a) \/ Undo(a) \/ AbortSlow(a) \/ Release(a) \/ Consume(a)
        \/ Abort(a) \/ LateCall(a) \/ Leave(a) \/ MoveNext(a)

Spec == Init /\ [][Next]_vars

-----------------------------------------------------------------------------
(***************************************************************************)
(* Properties                                                              *)
(***************************************************************************)

\* A conversation is continued once: one outcome is journaled, by the one
\* request whose tools ran, and every answer and every completed receipt,
\* under whatever key, carries it to a request that made the same reply.
OneOutcome ==
    LET answers  == {got[a] : a \in Attempts} \ {None}
        recorded == {receipts[k].response : k \in {j \in Keys : receipts[j].state = "completed"}}
    IN /\ \A r, s \in outcomes : r = s
       /\ answers \cup recorded \subseteq outcomes
       /\ \A a, b \in Attempts : got[a] # None /\ got[b] # None => reply[a] = reply[b]
       /\ \A a, b \in dispatched : a = b
       /\ \A a \in dispatched, r \in outcomes : r.author = a

\* Once a tool was dispatched, the pause is not offered to another request,
\* whatever failed, was cancelled, lapsed or came late.
NeverOfferedAgain ==
    dispatched # {} =>
        ~ (/\ P!Active(pause)
           /\ pause.state = "paused" \/ P!Replayable(pause))

\* No tool runs once the outcome of the conversation is journaled.
NothingRunsAfterTheOutcome ==
    [][outcomes # {} => dispatched' = dispatched]_vars
=============================================================================
