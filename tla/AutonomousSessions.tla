------------------------- MODULE AutonomousSessions --------------------------
(***************************************************************************)
(* The pause store of services/autonomous_sessions.py under concurrent     *)
(* continuations of paused conversations, with starts that save pauses,    *)
(* readers that sweep and users that cancel.                               *)
(*                                                                         *)
(* As in IdempotencyStore, a method is one atomic step while its caller    *)
(* awaits it, a thread whose cancelled caller went on commits later        *)
(* (`late`), and claim() is split because its cancellation has a protocol. *)
(* Conversation ids are drawn fresh: each is inserted once (`spent`).      *)
(***************************************************************************)
EXTENDS PauseRows

CONSTANTS MaxTime,    \* bound of the clock
          MaxFaults   \* bound of database errors and process deaths

ASSUME BoundsAssumption == MaxTime \in Nat /\ MaxFaults \in Nat

VARIABLES now, pauses,
          spent,     \* conversation ids that have been inserted
          pc,        \* where the continuation serving an attempt is
          request,   \* request[a]: conversation, fingerprint, whether it is the owner's
          answer,    \* answer[a]: what its claim() thread answered
          late,      \* late[a]: operation of a thread its caller left behind
          ran,       \* ran[k]: attempts that had effects under a claim on k
          settled,   \* settled[k]: response and fingerprint journaled for k
          bound,     \* bound[k]: fingerprint last claimed and not cancelled
          got,       \* got[a]: the response the attempt can return
          faults

vars == <<now, pauses, spent, pc, request, answer, late, ran, settled, bound, got, faults>>

Answers == {"none", "claimed", "completed", "missing", "expired", "payload_mismatch",
            "in_progress", "ambiguous", "fenced", "error"}

PcStates == {"idle", "claiming", "settled", "holding", "marked", "releasing",
             "abandoning", "abandoned", "over", "dead"}

LateOps == {"none", "renew", "mark", "cancel", "consume", "finish", "handoff"}

Verdicts == [response : Responses, fingerprint : Fingerprints]

NoVerdict == [response |-> None, fingerprint |-> None]

TypeOK ==
    /\ now \in Nat
    /\ pauses \in [Conversations -> Pause]
    /\ spent \in SUBSET Conversations
    /\ pc \in [Attempts -> PcStates]
    /\ request \in [Attempts -> [key : Conversations, fingerprint : Fingerprints, owned : BOOLEAN]]
    /\ answer \in [Attempts -> Answers]
    /\ late \in [Attempts -> LateOps]
    /\ ran \in [Conversations -> SUBSET Attempts]
    /\ settled \in [Conversations -> Verdicts \cup {NoVerdict}]
    /\ bound \in [Conversations -> Fingerprints \cup {None}]
    /\ got \in [Attempts -> Responses \cup {None}]
    /\ faults \in Nat

Init ==
    /\ now = 1
    /\ pauses \in [Conversations -> {NoPause} \cup {LegacyPause(1, p) : p \in BOOLEAN}]
    /\ IsFiniteSet(ActiveKeys(pauses)) /\ Cardinality(ActiveKeys(pauses)) <= MaxCount
    /\ spent = ActiveKeys(pauses)
    /\ pc = [a \in Attempts |-> "idle"]
    /\ request \in [Attempts -> [key : Conversations, fingerprint : Fingerprints, owned : BOOLEAN]]
    /\ answer = [a \in Attempts |-> "none"]
    /\ late = [a \in Attempts |-> "none"]
    /\ ran = [k \in Conversations |-> {}]
    /\ settled = [k \in Conversations |-> NoVerdict]
    /\ bound = [k \in Conversations |-> None]
    /\ got = [a \in Attempts |-> None]
    /\ faults = 0

-----------------------------------------------------------------------------
KeyOf(a) == request[a].key
FingerprintOf(a) == request[a].fingerprint
PauseOf(a) == pauses[KeyOf(a)]

Store(a, row) == pauses' = [pauses EXCEPT ![KeyOf(a)] = row]
Goto(a, where) == pc' = [pc EXCEPT ![a] = where]
Fault == faults < MaxFaults /\ faults' = faults + 1
Verdict(a, r) == [response |-> r, fingerprint |-> FingerprintOf(a)]

Tick == /\ now < MaxTime
        /\ now' = now + 1
        /\ UNCHANGED <<pauses, spent, pc, request, answer, late, ran, settled, bound, got, faults>>

(***************************************************************************)
(* Operations that hold no claim                                           *)
(***************************************************************************)
\* A start that paused, or save() of a conversation imported with an id.
Save(k) ==
    /\ k \notin spent
    /\ pauses' \in Saved(pauses, k, now)
    /\ spent' = spent \cup {k}
    /\ UNCHANGED <<now, pc, request, answer, late, ran, settled, bound, got, faults>>

\* inspect() by the owner, or status() by anyone.
Inspect(k) ==
    /\ pauses' = [pauses EXCEPT ![k] = SweptRow(@, now)]
    /\ UNCHANGED <<now, spent, pc, request, answer, late, ran, settled, bound, got, faults>>

\* DELETE /agent/autonomous/{id} by the owner.
DiscardPaused(k) ==
    /\ pauses' = [pauses EXCEPT ![k] = DiscardRow(@, now)]
    /\ UNCHANGED <<now, spent, pc, request, answer, late, ran, settled, bound, got, faults>>

(***************************************************************************)
(* claim and its cancellation                                              *)
(***************************************************************************)
StartClaim(a) ==
    /\ pc[a] = "idle"
    /\ Goto(a, "claiming")
    /\ UNCHANGED <<now, pauses, spent, request, answer, late, ran, settled, bound, got, faults>>

AfterThread == [claiming |-> "settled", abandoning |-> "abandoned"]

ClaimThread(a) ==
    /\ pc[a] \in DOMAIN AfterThread
    /\ LET f       == FingerprintOf(a)
           verdict == ClaimAnswer(PauseOf(a), request[a].owned, f, now)
       IN /\ answer' = [answer EXCEPT ![a] = verdict]
          /\ got' = [got EXCEPT ![a] = IF verdict = "completed" THEN PauseOf(a).response ELSE @]
          /\ bound' = [bound EXCEPT ![KeyOf(a)] = IF verdict = "claimed" THEN f ELSE @]
          /\ Store(a, ClaimRow(PauseOf(a), request[a].owned, a, f, now))
    /\ Goto(a, AfterThread[pc[a]])
    /\ UNCHANGED <<now, spent, request, late, ran, settled, faults>>

ClaimThreadFails(a) ==
    /\ Fault
    /\ pc[a] \in DOMAIN AfterThread
    /\ answer' = [answer EXCEPT ![a] = "error"]
    /\ Goto(a, AfterThread[pc[a]])
    /\ UNCHANGED <<now, pauses, spent, request, late, ran, settled, bound, got>>

ClaimReturns(a) ==
    /\ pc[a] = "settled"
    /\ Goto(a, IF answer[a] = "claimed" THEN "holding" ELSE "over")
    /\ UNCHANGED <<now, pauses, spent, request, answer, late, ran, settled, bound, got, faults>>

AfterCancel == [claiming |-> "abandoning", settled |-> "abandoned"]

CancelClaim(a) ==
    /\ pc[a] \in DOMAIN AfterCancel
    /\ Goto(a, AfterCancel[pc[a]])
    /\ UNCHANGED <<now, pauses, spent, request, answer, late, ran, settled, bound, got, faults>>

Freed(a) == IF MayCancel(PauseOf(a), a, now)
            THEN bound' = [bound EXCEPT ![KeyOf(a)] = None] ELSE UNCHANGED bound

\* Mutant: the cleanup of a cancelled claim() ends without its release.
CleanupClaimForgets(a) ==
    /\ pc[a] = "abandoned"
    /\ Goto(a, "over")
    /\ UNCHANGED <<now, pauses, spent, request, answer, late, ran, settled, bound, got, faults>>

\* Runs only after the thread has settled, within the drain deadline or in
\* the background, and releases the captured token only.
CleanupClaim(a) ==
    /\ pc[a] = "abandoned"
    /\ Store(a, CancelRow(PauseOf(a), a, now))
    /\ Freed(a)
    /\ Goto(a, "over")
    /\ UNCHANGED <<now, spent, request, answer, late, ran, settled, got, faults>>

CleanupFails(a) ==
    /\ Fault
    /\ pc[a] = "abandoned"
    /\ Goto(a, "over")
    /\ UNCHANGED <<now, pauses, spent, request, answer, late, ran, settled, bound, got>>

(***************************************************************************)
(* The owner of a claim                                                    *)
(***************************************************************************)
\* A refused renewal or barrier ends the continuation with a conflict.
Renew(a) ==
    /\ pc[a] = "holding"
    /\ Store(a, RenewRow(PauseOf(a), a, now))
    /\ Goto(a, IF Owns(PauseOf(a), a, now) THEN "holding" ELSE "over")
    /\ UNCHANGED <<now, spent, request, answer, late, ran, settled, bound, got, faults>>

MarkProgress(a) ==
    /\ pc[a] = "holding"
    /\ Store(a, MarkProgressRow(PauseOf(a), a, now))
    /\ Goto(a, IF Owns(PauseOf(a), a, now) THEN "marked" ELSE "over")
    /\ UNCHANGED <<now, spent, request, answer, late, ran, settled, bound, got, faults>>

\* The model call or tool behind the barrier.
RunEffect(a) ==
    /\ pc[a] = "marked"
    /\ ran' = [ran EXCEPT ![KeyOf(a)] = @ \cup {a}]
    /\ Goto(a, "holding")
    /\ UNCHANGED <<now, pauses, spent, request, answer, late, settled, bound, got, faults>>

\* An error, a refused input or a disconnect: the continuation tries to
\* return its claim, or gives it up to its lease.
Raise(a) ==
    /\ pc[a] \in {"holding", "marked"}
    /\ \E where \in {"releasing", "over"} : Goto(a, where)
    /\ UNCHANGED <<now, pauses, spent, request, answer, late, ran, settled, bound, got, faults>>

Cancel(a) ==
    /\ pc[a] = "releasing"
    /\ Store(a, CancelRow(PauseOf(a), a, now))
    /\ Freed(a)
    /\ Goto(a, "over")
    /\ UNCHANGED <<now, spent, request, answer, late, ran, settled, got, faults>>

\* The claimed snapshot cannot be decoded.
Consume(a) ==
    /\ pc[a] = "holding"
    /\ Store(a, ConsumeRow(PauseOf(a), a, now))
    /\ Goto(a, "over")
    /\ UNCHANGED <<now, spent, request, answer, late, ran, settled, bound, got, faults>>

Finished(a, r) ==
    /\ Store(a, FinishRow(PauseOf(a), a, r, now))
    /\ settled' = IF MayFinish(PauseOf(a), a, now)
                  THEN [settled EXCEPT ![KeyOf(a)] = Verdict(a, r)] ELSE settled

Finish(a, r) ==
    /\ pc[a] = "holding"
    /\ Finished(a, r)
    /\ got' = IF MayFinish(PauseOf(a), a, now) THEN [got EXCEPT ![a] = r] ELSE got
    /\ Goto(a, "over")
    /\ UNCHANGED <<now, spent, request, answer, late, ran, bound, faults>>

\* Journals the response and inserts the pause it names, or neither; a lost
\* claim leaves only the sweep, exhausted capacity leaves nothing.
HandoffGranted(a, n, r) ==
    /\ MayFinish(PauseOf(a), a, now) /\ n \notin spent
    /\ pauses' \in HandedOff(pauses, KeyOf(a), a, r, n, now)
    /\ spent' = spent \cup {n}
    /\ settled' = [settled EXCEPT ![KeyOf(a)] = Verdict(a, r)]

HandoffRefused(a) ==
    /\ ~ MayFinish(PauseOf(a), a, now)
    /\ pauses' = Swept(pauses, now)
    /\ UNCHANGED <<spent, settled>>

Handoff(a) ==
    /\ pc[a] = "holding"
    /\ \/ \E n \in Conversations, r \in Responses :
            HandoffGranted(a, n, r) /\ got' = [got EXCEPT ![a] = r]
       \/ HandoffRefused(a) /\ UNCHANGED got
    /\ Goto(a, "over")
    /\ UNCHANGED <<now, request, answer, late, ran, bound, faults>>

\* Cancelled inside a store call whose thread outlives the drain deadline.
CancelInCall(a, op) ==
    /\ late[a] = "none"
    /\ \/ pc[a] = "holding" /\ op \in LateOps \ {"none", "cancel"}
       \/ pc[a] = "releasing" /\ op = "cancel"
    /\ late' = [late EXCEPT ![a] = op]
    /\ \E where \in {"releasing", "over"} : Goto(a, where)
    /\ UNCHANGED <<now, pauses, spent, request, answer, ran, settled, bound, got, faults>>

LateThread(a) ==
    /\ \/ late[a] = "renew" /\ Store(a, RenewRow(PauseOf(a), a, now))
          /\ UNCHANGED <<spent, settled, bound>>
       \/ late[a] = "mark" /\ Store(a, MarkProgressRow(PauseOf(a), a, now))
          /\ UNCHANGED <<spent, settled, bound>>
       \/ late[a] = "cancel" /\ Store(a, CancelRow(PauseOf(a), a, now)) /\ Freed(a)
          /\ UNCHANGED <<spent, settled>>
       \/ late[a] = "consume" /\ Store(a, ConsumeRow(PauseOf(a), a, now))
          /\ UNCHANGED <<spent, settled, bound>>
       \/ late[a] = "finish" /\ \E r \in Responses : Finished(a, r)
          /\ UNCHANGED <<spent, bound>>
       \/ late[a] = "handoff" /\ UNCHANGED bound
          /\ \/ \E n \in Conversations, r \in Responses : HandoffGranted(a, n, r)
             \/ HandoffRefused(a)
    /\ late' = [late EXCEPT ![a] = "none"]
    /\ UNCHANGED <<now, pc, request, answer, ran, got, faults>>

\* The process serving the attempt dies, with its threads.
Die(a) ==
    /\ Fault
    /\ pc[a] \notin {"idle", "dead"}
    /\ Goto(a, "dead")
    /\ late' = [late EXCEPT ![a] = "none"]
    /\ UNCHANGED <<now, pauses, spent, request, answer, ran, settled, bound, got>>

-----------------------------------------------------------------------------
Next ==
    \/ Tick
    \/ \E k \in Conversations : Save(k) \/ Inspect(k) \/ DiscardPaused(k)
    \/ \E a \in Attempts :
        \/ StartClaim(a) \/ ClaimThread(a) \/ ClaimThreadFails(a) \/ ClaimReturns(a)
        \/ CancelClaim(a) \/ CleanupClaim(a) \/ CleanupFails(a)
        \/ Renew(a) \/ MarkProgress(a) \/ RunEffect(a) \/ Raise(a)
        \/ Cancel(a) \/ Consume(a) \/ Handoff(a)
        \/ \E r \in Responses : Finish(a, r)
        \/ \E op \in LateOps : CancelInCall(a, op)
        \/ LateThread(a) \/ Die(a)

Spec == Init /\ [][Next]_vars

-----------------------------------------------------------------------------
(***************************************************************************)
(* Properties                                                              *)
(***************************************************************************)

\* A response is journaled by the attempt that had the effects, and every
\* attempt that returns one returns that, for the reply it was made to.
OutcomeOfTheSameReply ==
    \A a \in Attempts : got[a] # None => settled[KeyOf(a)] = Verdict(a, got[a])

\* The pauses that can still be continued never outnumber max_count.
WithinCapacity == Cardinality(ActiveKeys(pauses)) <= MaxCount

\* A live claim, and with it the pause, ends only by a step of its owner,
\* whatever other attempts, sweeps, cancellations and evictions do; and what a
\* lapsed claim was bound to stays bound, so that only an explicit cancel lets
\* a different reply take the pause.
LiveClaimsEndByTheirOwner ==
    [][\A a \in Attempts :
        /\ Owns(PauseOf(a), a, now) /\ PauseOf(a)'.token # a
              => pc'[a] # pc[a] \/ late'[a] # late[a]
        /\ answer[a] # "claimed" /\ answer'[a] = "claimed"
              => bound[KeyOf(a)] \in {None, FingerprintOf(a)}]_vars

\* A tombstone never changes its outcome; it goes only when its TTL is over.
TombstonesAreFinal ==
    [][\A k \in Conversations :
        pauses[k].outcome # "none" =>
            \/ /\ pauses'[k].outcome = pauses[k].outcome
               /\ pauses'[k].response = pauses[k].response
            \/ pauses'[k] = NoPause /\ Expired(pauses[k], now)]_vars

\* When the cleanup of a cancelled claim() is over the pause is not locked in
\* its name, even if its thread committed after the cancellation and after the
\* drain deadline, and no thread of it can lock the pause later.
CancelledClaimLetsGo ==
    [][\A a \in Attempts :
        pc'[a] = "over" /\ faults' = faults
            /\ (pc[a] = "abandoned" \/ (pc[a] = "over" /\ ~ Owns(PauseOf(a), a, now)))
        => ~ (Owns(PauseOf(a), a, now))']_vars

\* A pause ends rightly: by a step of its claim's owner, for good once it is
\* finished, and never locked by a claimant that was cancelled.
PausesEndRightly ==
    /\ LiveClaimsEndByTheirOwner
    /\ TombstonesAreFinal
    /\ CancelledClaimLetsGo

\* The store implements the promise of a one-shot request, per pause.
Promise == INSTANCE OneShotRequest WITH
    Keys    <- Conversations,
    actor   <- [k \in Conversations |-> IF ran[k] = {} THEN None ELSE CHOOSE a \in ran[k] : TRUE],
    verdict <- [k \in Conversations |-> settled[k].response]

PromiseSpec == Promise!Spec
=============================================================================
