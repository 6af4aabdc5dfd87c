-------------------------- MODULE IdempotencyStore --------------------------
(***************************************************************************)
(* The receipt store of services/idempotency.py under concurrent attempts: *)
(* HTTP requests, retries of them and takeovers of abandoned ones, in one  *)
(* or several server processes sharing the database.                       *)
(*                                                                         *)
(* A store method runs its transaction in a thread.  While its caller      *)
(* awaits it the method is one atomic step.  A cancelled caller waits for  *)
(* the thread only until a deadline and then goes on, so from then on the  *)
(* thread commits at any later time: `late` holds such a thread.  begin()  *)
(* is always split into its thread and its return, because its             *)
(* cancellation has a protocol of its own.                                 *)
(***************************************************************************)
EXTENDS Receipts

CONSTANTS Keys,
          MaxTime,    \* bound of the clock
          MaxFaults   \* bound of database errors and process deaths

ASSUME BoundsAssumption == MaxTime \in Nat /\ MaxFaults \in Nat

VARIABLES now,       \* the clock every process reads
          receipts,  \* the table, by key
          pc,        \* where the coroutine serving an attempt is
          request,   \* request[a]: the key and binding of the attempt
          answer,    \* answer[a]: what its begin() thread answered
          late,      \* late[a]: operation of a thread its caller left behind
          ran,       \* ran[k]: attempts whose non-replayable handlers started
          got,       \* got[a]: the response the attempt can return
          told,      \* told[a]: what the attempt learned from abort()
          faults     \* how many faults have happened

vars == <<now, receipts, pc, request, answer, late, ran, got, told, faults>>

Answers == {"none", "claimed", "replayed", "payload_mismatch", "in_progress", "ambiguous", "error"}

PcStates == {"idle", "beginning", "settled", "holding", "marked", "aborting",
             "abandoning", "abandoned", "over", "dead"}

LateOps == {"none", "renew", "mark", "complete"}

TypeOK ==
    /\ now \in Nat
    /\ receipts \in [Keys -> Row]
    /\ pc \in [Attempts -> PcStates]
    /\ request \in [Attempts -> [key : Keys, binding : Bindings]]
    /\ answer \in [Attempts -> Answers]
    /\ late \in [Attempts -> LateOps]
    /\ ran \in [Keys -> SUBSET Attempts]
    /\ got \in [Attempts -> Responses \cup {None}]
    /\ told \in [Attempts -> {"nothing", "clean", "effect"}]
    /\ faults \in Nat

InitialRows == {NoRow} \cup {LegacyRow(s, b) : s \in {"pending", "effect_started"}, b \in Bindings}

Init ==
    /\ now = 1
    /\ receipts \in [Keys -> InitialRows]
    /\ pc = [a \in Attempts |-> "idle"]
    /\ request \in [Attempts -> [key : Keys, binding : Bindings]]
    /\ answer = [a \in Attempts |-> "none"]
    /\ late = [a \in Attempts |-> "none"]
    /\ ran = [k \in Keys |-> {}]
    /\ got = [a \in Attempts |-> None]
    /\ told = [a \in Attempts |-> "nothing"]
    /\ faults = 0

-----------------------------------------------------------------------------
KeyOf(a) == request[a].key
BindingOf(a) == request[a].binding
Receipt(a) == receipts[KeyOf(a)]

Store(a, row) == receipts' = [receipts EXCEPT ![KeyOf(a)] = row]
Goto(a, where) == pc' = [pc EXCEPT ![a] = where]
Fault == faults < MaxFaults /\ faults' = faults + 1

Tick == /\ now < MaxTime
        /\ now' = now + 1
        /\ UNCHANGED <<receipts, pc, request, answer, late, ran, got, told, faults>>

(***************************************************************************)
(* begin and its cancellation                                              *)
(***************************************************************************)
StartBegin(a) ==
    /\ pc[a] = "idle"
    /\ Goto(a, "beginning")
    /\ UNCHANGED <<now, receipts, request, answer, late, ran, got, told, faults>>

AfterThread == [beginning |-> "settled", abandoning |-> "abandoned"]

\* The thread commits, whether or not anyone still awaits it.
BeginThread(a) ==
    /\ pc[a] \in DOMAIN AfterThread
    /\ LET verdict == BeginAnswer(Receipt(a), BindingOf(a), now)
       IN /\ answer' = [answer EXCEPT ![a] = verdict]
          /\ got' = [got EXCEPT ![a] = IF verdict = "replayed" THEN Receipt(a).response ELSE @]
    /\ Store(a, BeginRow(Receipt(a), BindingOf(a), a, now))
    /\ Goto(a, AfterThread[pc[a]])
    /\ UNCHANGED <<now, request, late, ran, told, faults>>

\* The thread fails and its transaction is rolled back.
BeginThreadFails(a) ==
    /\ Fault
    /\ pc[a] \in DOMAIN AfterThread
    /\ answer' = [answer EXCEPT ![a] = "error"]
    /\ Goto(a, AfterThread[pc[a]])
    /\ UNCHANGED <<now, receipts, request, late, ran, got, told>>

BeginReturns(a) ==
    /\ pc[a] = "settled"
    /\ Goto(a, IF answer[a] = "claimed" THEN "holding" ELSE "over")
    /\ UNCHANGED <<now, receipts, request, answer, late, ran, got, told, faults>>

AfterCancel == [beginning |-> "abandoning", settled |-> "abandoned"]

CancelBegin(a) ==
    /\ pc[a] \in DOMAIN AfterCancel
    /\ Goto(a, AfterCancel[pc[a]])
    /\ UNCHANGED <<now, receipts, request, answer, late, ran, got, told, faults>>

\* Mutant: the cleanup of a cancelled begin ends without its abort.
CleanupBeginForgets(a) ==
    /\ pc[a] = "abandoned"
    /\ Goto(a, "over")
    /\ UNCHANGED <<now, receipts, request, answer, late, ran, got, told, faults>>

\* Within the drain deadline or in the background, the cleanup runs only
\* after the thread has settled, and aborts with the captured token.
CleanupBegin(a) ==
    /\ pc[a] = "abandoned"
    /\ Store(a, AbortRow(Receipt(a), a))
    /\ Goto(a, "over")
    /\ UNCHANGED <<now, request, answer, late, ran, got, told, faults>>

CleanupFails(a) ==
    /\ Fault
    /\ pc[a] = "abandoned"
    /\ Goto(a, "over")
    /\ UNCHANGED <<now, receipts, request, answer, late, ran, got, told>>

(***************************************************************************)
(* The owner of a claim                                                    *)
(***************************************************************************)
\* A refused renewal raises; some callers abort their claim then, the
\* autonomous routes leave it to its lease.
Renew(a) ==
    /\ pc[a] = "holding"
    /\ Store(a, RenewRow(Receipt(a), a, now))
    /\ IF RenewHolds(Receipt(a), a, now)
       THEN UNCHANGED pc
       ELSE \E where \in {"aborting", "over"} : Goto(a, where)
    /\ UNCHANGED <<now, request, answer, late, ran, got, told, faults>>

\* invoke() of a non-replayable tool: the durable marker, then the handler.
MarkEffectStarted(a) ==
    /\ pc[a] = "holding"
    /\ Store(a, MarkEffectRow(Receipt(a), a, now))
    /\ Goto(a, IF MayWrite(Receipt(a), a, now) THEN "marked" ELSE "aborting")
    /\ UNCHANGED <<now, request, answer, late, ran, got, told, faults>>

RunHandler(a) ==
    /\ pc[a] = "marked"
    /\ ran' = [ran EXCEPT ![KeyOf(a)] = @ \cup {a}]
    /\ Goto(a, "holding")
    /\ UNCHANGED <<now, receipts, request, answer, late, got, told, faults>>

Complete(a, r) ==
    /\ pc[a] = "holding"
    /\ Store(a, CompleteRow(Receipt(a), a, r, now))
    /\ IF MayWrite(Receipt(a), a, now)
       THEN got' = [got EXCEPT ![a] = r] /\ Goto(a, "over")
       ELSE Goto(a, "aborting") /\ UNCHANGED got
    /\ UNCHANGED <<now, request, answer, late, ran, told, faults>>

\* The provider, a tool or a store call raises, or the client is gone: the
\* caller aborts its claim, or leaves it to its lease (autonomous routes on
\* cancellation).
Raise(a) ==
    /\ pc[a] \in {"holding", "marked"}
    /\ \E where \in {"aborting", "over"} : Goto(a, where)
    /\ UNCHANGED <<now, receipts, request, answer, late, ran, got, told, faults>>

\* Cancelled inside a store call whose thread outlives the drain deadline.
CancelInCall(a, op) ==
    /\ pc[a] = "holding" /\ late[a] = "none" /\ op # "none"
    /\ late' = [late EXCEPT ![a] = op]
    /\ \E where \in {"aborting", "over"} : Goto(a, where)
    /\ UNCHANGED <<now, receipts, request, answer, ran, got, told, faults>>

LateThread(a) ==
    /\ late[a] # "none"
    /\ \/ late[a] = "renew" /\ Store(a, RenewRow(Receipt(a), a, now))
       \/ late[a] = "mark"  /\ Store(a, MarkEffectRow(Receipt(a), a, now))
       \/ late[a] = "complete"
          /\ \E r \in Responses : Store(a, CompleteRow(Receipt(a), a, r, now))
    /\ late' = [late EXCEPT ![a] = "none"]
    /\ UNCHANGED <<now, pc, request, answer, ran, got, told, faults>>

\* abort_idempotency_claim: the answer is the row's, unless the drain
\* deadline passed first (AbortDeadline) and "effect" was assumed.
Abort(a) ==
    /\ pc[a] = "aborting"
    /\ told' = [told EXCEPT ![a] = IF @ # "nothing" THEN @
                                   ELSE IF HasEffectStarted(Receipt(a)) THEN "effect" ELSE "clean"]
    /\ Store(a, AbortRow(Receipt(a), a))
    /\ Goto(a, "over")
    /\ UNCHANGED <<now, request, answer, late, ran, got, faults>>

AbortDeadline(a) ==
    /\ pc[a] = "aborting" /\ told[a] = "nothing"
    /\ told' = [told EXCEPT ![a] = "effect"]
    /\ UNCHANGED <<now, receipts, pc, request, answer, late, ran, got, faults>>

(***************************************************************************)
(* Repair from an outcome that is durable elsewhere                        *)
(***************************************************************************)
\* By an owner whose complete() failed, or by a request begin() turned away.
\* The outcome comes from another table and can be any response here.
ReconcileCompleted(a, r, allow) ==
    /\ \/ pc[a] = "holding"
       \/ pc[a] = "over" /\ answer[a] \in {"in_progress", "ambiguous"}
    /\ Store(a, ReconcileRow(Receipt(a), BindingOf(a), r, allow))
    /\ got' = [got EXCEPT ![a] =
                 IF ReconcileAnswer(Receipt(a), BindingOf(a), r, allow) \in {"agreed", "repaired"}
                 THEN r ELSE @]
    /\ Goto(a, "over")
    /\ UNCHANGED <<now, request, answer, late, ran, told, faults>>

\* The process serving the attempt dies, with its threads.
Die(a) ==
    /\ Fault
    /\ pc[a] \notin {"idle", "dead"}
    /\ Goto(a, "dead")
    /\ late' = [late EXCEPT ![a] = "none"]
    /\ UNCHANGED <<now, receipts, request, answer, ran, got, told>>

-----------------------------------------------------------------------------
Next ==
    \/ Tick
    \/ \E a \in Attempts :
        \/ StartBegin(a) \/ BeginThread(a) \/ BeginThreadFails(a) \/ BeginReturns(a)
        \/ CancelBegin(a) \/ CleanupBegin(a) \/ CleanupFails(a)
        \/ Renew(a) \/ MarkEffectStarted(a) \/ RunHandler(a) \/ Raise(a)
        \/ \E r \in Responses : Complete(a, r)
        \/ \E op \in LateOps : CancelInCall(a, op)
        \/ LateThread(a) \/ Abort(a) \/ AbortDeadline(a)
        \/ \E r \in Responses, allow \in BOOLEAN : ReconcileCompleted(a, r, allow)
        \/ Die(a)

Spec == Init /\ [][Next]_vars

-----------------------------------------------------------------------------
(***************************************************************************)
(* The inductive invariant behind the safety properties                    *)
(***************************************************************************)
\* The durable marker of a non-replayable handler of `a` is written.
Acted(a) == pc[a] = "marked" \/ a \in ran[KeyOf(a)]

\* No begin() can be granted the key of this row any more, and no attempt
\* but `a` can mark an effect under it.
ShutFor(row, a) ==
    \/ row.state \in {"ambiguous", "completed"}
    \/ row.state = "effect_started_v2" /\ row.owner = a

RowsAreTidy == \A k \in Keys :
    /\ receipts[k].state = "absent" => receipts[k] = NoRow
    /\ receipts[k].state # "completed" => receipts[k].response = None

ActorsAreRecorded ==
    /\ \A k \in Keys : \A a \in ran[k] : KeyOf(a) = k
    /\ \A a \in Attempts : Acted(a) => ShutFor(Receipt(a), a)
    /\ \A a, b \in Attempts : Acted(a) /\ Acted(b) /\ KeyOf(a) = KeyOf(b) => a = b

AnswersAreRecorded == \A a \in Attempts :
    got[a] # None => Receipt(a).state = "completed" /\ Receipt(a).response = got[a]

CleanAbortsAreOver == \A a \in Attempts :
    told[a] = "clean" =>
        /\ pc[a] \in {"over", "dead"}
        /\ a \in ran[KeyOf(a)] => Receipt(a).state = "completed"

IInv == /\ TypeOK /\ RowsAreTidy /\ ActorsAreRecorded
        /\ AnswersAreRecorded /\ CleanAbortsAreOver

(***************************************************************************)
(* Properties                                                              *)
(***************************************************************************)

\* The module's promise ("at-most-once guard"): over all retries, takeovers
\* and late threads, non-replayable handlers run for one attempt per key.
EffectsOfOneAttempt ==
    \A k \in Keys : \A a, b \in ran[k] : a = b

\* Every response an attempt may return for a key, by completing, replaying
\* or repairing the receipt, is the same one.
AnswersAgree ==
    \A a, b \in Attempts :
        KeyOf(a) = KeyOf(b) /\ got[a] # None /\ got[b] # None => got[a] = got[b]

\* abort() answers "no durable effect" to an attempt whose handler ran only
\* if a repair already recorded the outcome.
CleanAbortMeansNoEffect ==
    \A a \in Attempts :
        told[a] = "clean" /\ a \in ran[KeyOf(a)] => Receipt(a).state = "completed"

\* A claim, first or reclaimed, is never granted on a key whose handlers ran.
ClaimsAreClean ==
    [][\A a \in Attempts :
        answer[a] # "claimed" /\ answer'[a] = "claimed" => ran[KeyOf(a)] = {}]_vars

\* Takeovers keep the recovery token of the first claim for as long as the
\* receipt exists: the start endpoint derives its conversation id from it.
RecoveryTokenIsStable ==
    [][\A k \in Keys :
        receipts[k].recovery # None /\ receipts'[k].state # "absent"
            => receipts'[k].recovery = receipts[k].recovery]_vars

\* When the cleanup of a cancelled begin() is over the key is not claimed in
\* its name, even if its thread committed after the cancellation and after the
\* drain deadline, and nothing it left behind claims the key later.
CancelledBeginLetsGo ==
    [][\A a \in Attempts :
        /\ pc'[a] = "over" /\ faults' = faults
        /\ pc[a] = "abandoned" \/ (pc[a] = "over" /\ Receipt(a).owner # a)
        => Receipt(a)'.owner # a]_vars

\* The store implements the promise of an Idempotency-Key.
Promise == INSTANCE OneShotRequest WITH
    actor   <- [k \in Keys |-> IF ran[k] = {} THEN None ELSE CHOOSE a \in ran[k] : TRUE],
    verdict <- [k \in Keys |-> receipts[k].response]

PromiseSpec == Promise!Spec
=============================================================================
