--------------------------- MODULE AutonomousStart ----------------------------
(***************************************************************************)
(* POST /agent/autonomous with an Idempotency-Key: concurrent requests and *)
(* retries of one start, over the receipt of services/idempotency.py and   *)
(* the pauses of services/autonomous_sessions.py.                          *)
(*                                                                         *)
(* A run that asks the user saves a pause under a conversation id derived  *)
(* from the receipt's recovery token, then completes the receipt with the  *)
(* response that names it.  The two are separate transactions, so a death, *)
(* a lost acknowledgement or a takeover can fall between any two steps;    *)
(* the handler and later retries repair the receipt from the pause.        *)
(*                                                                         *)
(* One key and one payload: other keys touch other rows, and another       *)
(* payload is turned away by the binding (IdempotencyStore).  A            *)
(* conversation id is named by the attempt that drew its recovery token,   *)
(* and a response by the attempt whose run produced it: no two runs agree  *)
(* by chance.                                                              *)
(***************************************************************************)
EXTENDS Integers, FiniteSets

CONSTANTS Attempts, LeaseSeconds, None,
          MaxTime,    \* bound of the clock
          MaxFaults   \* bound of database errors and lost acknowledgements

ASSUME LeaseAssumption == LeaseSeconds \in Nat \ {0}
ASSUME BoundsAssumption == MaxTime \in Nat /\ MaxFaults \in Nat

Final(a) == [kind |-> "final", conv |-> None, author |-> a]
PauseResponse(k, a) == [kind |-> "pause", conv |-> k, author |-> a]

Responses == {Final(a) : a \in Attempts} \cup {PauseResponse(k, a) : k, a \in Attempts}

ASSUME NoneAssumption == None \notin Attempts \cup Responses

R == INSTANCE Receipts WITH Bindings <- {"start"}

VARIABLES now,
          receipt,    \* the row of the key
          pause,      \* pause[k]: the stored session of conversation k
          pc, errand, \* where an attempt is, and what it checks a pause for
          token,      \* token[a]: the conversation id the attempt derived
          said,       \* said[a]: the response it is about to give
          lateSaves,  \* attempts whose save() thread outlived their cancellation
          cancelled,  \* attempts whose client went away during save()
          ran,        \* attempts whose non-replayable tools ran
          got,        \* got[a]: the response the attempt returned
          everStored, \* responses whose pause was ever stored
          faults

vars == <<now, receipt, pause, pc, errand, token, said, lateSaves, cancelled, ran, got,
          everStored, faults>>

NoSession == [state |-> "absent", author |-> None]

PcStates == {"idle", "turned", "searching", "looking", "checking", "reconciling",
             "round", "running", "marked", "saving", "repairing", "completing", "settling", "aborting", "over"}

Errands == {"none", "replay", "turned", "claimed", "repair"}

TypeOK ==
    /\ now \in Nat
    /\ receipt \in R!Row
    /\ pause \in [Attempts -> [state  : {"absent", "paused", "in_flight", "completed"},
                               author : Attempts \cup {None}]]
    /\ pc \in [Attempts -> PcStates]
    /\ errand \in [Attempts -> Errands]
    /\ token \in [Attempts -> Attempts \cup {None}]
    /\ said \in [Attempts -> Responses \cup {None}]
    /\ lateSaves \in SUBSET Attempts
    /\ cancelled \in SUBSET Attempts
    /\ ran \in SUBSET Attempts
    /\ got \in [Attempts -> Responses \cup {None}]
    /\ everStored \in SUBSET Responses
    /\ faults \in Nat

Init ==
    /\ now = 1
    /\ receipt = R!NoRow
    /\ pause = [k \in Attempts |-> NoSession]
    /\ pc = [a \in Attempts |-> "idle"]
    /\ errand = [a \in Attempts |-> "none"]
    /\ token = [a \in Attempts |-> None]
    /\ said = [a \in Attempts |-> None]
    /\ lateSaves = {} /\ cancelled = {} /\ ran = {} /\ everStored = {}
    /\ got = [a \in Attempts |-> None]
    /\ faults = 0

-----------------------------------------------------------------------------
Goto(a, where) == pc' = [pc EXCEPT ![a] = where]
Say(a, r) == said' = [said EXCEPT ![a] = r]
Return(a, r) == got' = [got EXCEPT ![a] = r] /\ Goto(a, "over")
Fault == faults < MaxFaults /\ faults' = faults + 1

\* What a failed repair inside save_initial_pause leads to: a cancellation
\* and a conflict keep the receipt, any other error aborts it.
AfterFailure(a, keep) ==
    IF errand[a] = "repair" /\ a \notin cancelled /\ ~ keep THEN "aborting" ELSE "over"

Tick == /\ now < MaxTime
        /\ now' = now + 1
        /\ UNCHANGED <<receipt, pause, pc, errand, token, said, lateSaves, cancelled, ran, got,
                       everStored, faults>>

(***************************************************************************)
(* begin and the recovery of an earlier pause                              *)
(***************************************************************************)
Begin(a) ==
    /\ pc[a] = "idle"
    /\ receipt' = R!BeginRow(receipt, "start", a, now)
    /\ LET verdict == R!BeginAnswer(receipt, "start", now)
       IN CASE verdict = "claimed" ->
                 /\ token' = [token EXCEPT ![a] = receipt'.recovery]
                 /\ Goto(a, "looking") /\ UNCHANGED <<errand, said, got>>
            [] verdict = "replayed" /\ receipt.response.kind = "final" ->
                 Return(a, receipt.response) /\ UNCHANGED <<token, errand, said>>
            [] verdict = "replayed" /\ receipt.response.kind = "pause" ->
                 /\ Say(a, receipt.response) /\ Goto(a, "checking")
                 /\ errand' = [errand EXCEPT ![a] = "replay"]
                 /\ UNCHANGED <<token, got>>
            [] OTHER -> Goto(a, "turned") /\ UNCHANGED <<token, errand, said, got>>
    /\ UNCHANGED <<now, pause, lateSaves, cancelled, ran, everStored, faults>>

ReadRecoveryToken(a) ==
    /\ pc[a] = "turned"
    /\ token' = [token EXCEPT ![a] = receipt.recovery]
    /\ Goto(a, IF receipt.recovery = None THEN "over" ELSE "searching")
    /\ UNCHANGED <<now, receipt, pause, errand, said, lateSaves, cancelled, ran, got,
                   everStored, faults>>

\* Only a session that is paused is taken for the outcome of the start.
FindPause(a) ==
    /\ pc[a] \in {"searching", "looking"}
    /\ LET k == token[a]
       IN IF pause[k].state = "paused"
          THEN /\ Say(a, PauseResponse(k, pause[k].author))
               /\ errand' = [errand EXCEPT ![a] = IF pc[a] = "looking" THEN "claimed" ELSE "turned"]
               /\ Goto(a, "checking")
          ELSE /\ Goto(a, IF pc[a] = "looking" THEN "round" ELSE "over")
               /\ UNCHANGED <<said, errand>>
    /\ UNCHANGED <<now, receipt, pause, token, lateSaves, cancelled, ran, got, everStored, faults>>

\* _validate_replayed_response: a pause is returned only while it is stored
\* and asks the same question.
CheckPause(a) ==
    /\ pc[a] = "checking"
    /\ LET k == said[a].conv
       IN CASE pause[k] # [state |-> "paused", author |-> said[a].author] ->
                 Goto(a, AfterFailure(a, FALSE)) /\ UNCHANGED got
            [] /\ pause[k] = [state |-> "paused", author |-> said[a].author]
               /\ errand[a] = "replay" -> Return(a, said[a])
            [] OTHER -> Goto(a, "reconciling") /\ UNCHANGED got
    /\ UNCHANGED <<now, receipt, pause, errand, token, said, lateSaves, cancelled, ran,
                   everStored, faults>>

\* reconcile_completed without allow_effect_started.
Reconcile(a) ==
    /\ pc[a] = "reconciling"
    /\ receipt' = R!ReconcileRow(receipt, "start", said[a], FALSE)
    /\ LET verdict == R!ReconcileAnswer(receipt, "start", said[a], FALSE)
       IN CASE verdict \in {"agreed", "repaired"} /\ errand[a] # "repair" -> Return(a, said[a])
            [] verdict \in {"agreed", "repaired"} /\ errand[a] = "repair" ->
                 /\ Goto(a, IF a \in cancelled THEN "over" ELSE "completing")
                 /\ UNCHANGED got
            [] OTHER -> Goto(a, AfterFailure(a, verdict = "ambiguous")) /\ UNCHANGED got
    /\ UNCHANGED <<now, pause, errand, token, said, lateSaves, cancelled, ran, everStored, faults>>

(***************************************************************************)
(* The run                                                                 *)
(***************************************************************************)
\* Before every round; a refused renewal is a conflict and keeps the receipt.
Renew(a) ==
    /\ pc[a] = "round"
    /\ receipt' = R!RenewRow(receipt, a, now)
    /\ Goto(a, IF R!RenewHolds(receipt, a, now) THEN "running" ELSE "over")
    /\ UNCHANGED <<now, pause, errand, token, said, lateSaves, cancelled, ran, got,
                   everStored, faults>>

\* The model asks for replayable tools only, or for none it may have.
NextRound(a) ==
    /\ pc[a] = "running"
    /\ Goto(a, "round")
    /\ UNCHANGED <<now, receipt, pause, errand, token, said, lateSaves, cancelled, ran, got,
                   everStored, faults>>

\* A refused marker raises receipt_not_markable: not a kept conflict.
MarkEffectStarted(a) ==
    /\ pc[a] = "running"
    /\ receipt' = R!MarkEffectRow(receipt, a, now)
    /\ Goto(a, IF R!MayWrite(receipt, a, now) THEN "marked" ELSE "aborting")
    /\ UNCHANGED <<now, pause, errand, token, said, lateSaves, cancelled, ran, got,
                   everStored, faults>>

\* Another tool of the same batch comes after a renewal here: with the
\* effect marked, renewing changes nothing.
RunHandler(a) ==
    /\ pc[a] = "marked"
    /\ ran' = ran \cup {a}
    /\ Goto(a, "round")
    /\ UNCHANGED <<now, receipt, pause, errand, token, said, lateSaves, cancelled, got,
                   everStored, faults>>

\* The input check answers before the first round, the model after one.
Answer(a) ==
    /\ pc[a] \in {"round", "running"}
    /\ Say(a, Final(a))
    /\ Goto(a, "completing")
    /\ UNCHANGED <<now, receipt, pause, errand, token, lateSaves, cancelled, ran, got,
                   everStored, faults>>

\* ask_user: the fence immediately before the pause is published.
AskUser(a) ==
    /\ pc[a] = "running"
    /\ receipt' = R!RenewRow(receipt, a, now)
    /\ IF R!RenewHolds(receipt, a, now)
       THEN Say(a, PauseResponse(token[a], a)) /\ Goto(a, "saving")
       ELSE Goto(a, "over") /\ UNCHANGED said
    /\ UNCHANGED <<now, pause, errand, token, lateSaves, cancelled, ran, got, everStored, faults>>

\* The provider or a tool raises.
Fail(a) ==
    /\ pc[a] \in {"round", "running", "marked"}
    /\ Goto(a, "aborting")
    /\ UNCHANGED <<now, receipt, pause, errand, token, said, lateSaves, cancelled, ran, got,
                   everStored, faults>>

(***************************************************************************)
(* save_initial_pause                                                      *)
(***************************************************************************)
Insert(a) ==
    /\ pause[token[a]].state = "absent"
    /\ pause' = [pause EXCEPT ![token[a]] = [state |-> "paused", author |-> a]]
    /\ everStored' = everStored \cup {PauseResponse(token[a], a)}

StartRepair(a) == Goto(a, "repairing") /\ errand' = [errand EXCEPT ![a] = "repair"]

Save(a) ==
    /\ pc[a] = "saving"
    /\ Insert(a)
    /\ Goto(a, "completing")
    /\ UNCHANGED <<now, receipt, errand, token, said, lateSaves, cancelled, ran, got, faults>>

\* The insert commits and its acknowledgement is lost.
SaveAckLost(a) ==
    /\ pc[a] = "saving"
    /\ Fault
    /\ Insert(a)
    /\ StartRepair(a)
    /\ UNCHANGED <<now, receipt, token, said, lateSaves, cancelled, ran, got>>

\* Mutant: a failed save is answered like a committed one.
SaveFailsUnnoticed(a) ==
    /\ pc[a] = "saving"
    /\ \/ pause[token[a]].state # "absent" /\ UNCHANGED faults
       \/ Fault
    /\ Goto(a, "completing")
    /\ UNCHANGED <<now, receipt, pause, errand, token, said, lateSaves, cancelled, ran, got,
                   everStored>>

\* SessionAlreadyExistsError, or an error before the commit.
SaveFails(a) ==
    /\ pc[a] = "saving"
    /\ \/ pause[token[a]].state # "absent" /\ UNCHANGED faults
       \/ Fault
    /\ StartRepair(a)
    /\ UNCHANGED <<now, receipt, pause, token, said, lateSaves, cancelled, ran, got, everStored>>

\* The client goes away: the thread may commit at any later time.
CancelSave(a) ==
    /\ pc[a] = "saving"
    /\ lateSaves' = lateSaves \cup {a}
    /\ cancelled' = cancelled \cup {a}
    /\ StartRepair(a)
    /\ UNCHANGED <<now, receipt, pause, token, said, ran, got, everStored, faults>>

LateSave(a) ==
    /\ a \in lateSaves
    /\ lateSaves' = lateSaves \ {a}
    /\ Insert(a) \/ (pause[token[a]].state # "absent" /\ UNCHANGED <<pause, everStored>>)
    /\ UNCHANGED <<now, receipt, pc, errand, token, said, cancelled, ran, got, faults>>

\* recover_committed_pause, shielded from cancellation.
InspectPause(a) ==
    /\ pc[a] = "repairing"
    /\ LET found == pause[token[a]]
       IN CASE found.state = "paused" ->
                 Say(a, PauseResponse(token[a], found.author)) /\ Goto(a, "checking")
            [] found.state \in {"in_flight", "completed"} -> Goto(a, "over") /\ UNCHANGED said
            [] found.state = "absent" ->
                 Goto(a, AfterFailure(a, FALSE)) /\ UNCHANGED said
    /\ UNCHANGED <<now, receipt, pause, errand, token, lateSaves, cancelled, ran, got,
                   everStored, faults>>

RepairFails(a) ==
    /\ pc[a] \in {"repairing", "checking", "reconciling"} /\ errand[a] = "repair"
    /\ Fault
    /\ Goto(a, AfterFailure(a, FALSE))
    /\ UNCHANGED <<now, receipt, pause, errand, token, said, lateSaves, cancelled, ran, got,
                   everStored>>

(***************************************************************************)
(* complete, and the ends of the handler                                   *)
(***************************************************************************)
\* A durable pause is settled by reconciliation when complete() fails.
AfterCompleteFails(a) == IF said[a].kind = "pause" THEN "settling" ELSE "aborting"

Complete(a) ==
    /\ pc[a] = "completing"
    /\ receipt' = R!CompleteRow(receipt, a, said[a], now)
    /\ IF R!MayWrite(receipt, a, now)
       THEN Return(a, said[a])
       ELSE Goto(a, AfterCompleteFails(a)) /\ UNCHANGED got
    /\ UNCHANGED <<now, pause, errand, token, said, lateSaves, cancelled, ran, everStored, faults>>

\* An error before or after the commit.
CompleteFails(a) ==
    /\ pc[a] = "completing"
    /\ Fault
    /\ receipt' \in {receipt, R!CompleteRow(receipt, a, said[a], now)}
    /\ Goto(a, AfterCompleteFails(a))
    /\ UNCHANGED <<now, pause, errand, token, said, lateSaves, cancelled, ran, got, everStored>>

\* Any failure here ends in a conflict that keeps the receipt.
Settle(a) ==
    /\ pc[a] = "settling"
    /\ receipt' = R!ReconcileRow(receipt, "start", said[a], FALSE)
    /\ IF R!ReconcileAnswer(receipt, "start", said[a], FALSE) \in {"agreed", "repaired"}
       THEN Return(a, said[a])
       ELSE Goto(a, "over") /\ UNCHANGED got
    /\ UNCHANGED <<now, pause, errand, token, said, lateSaves, cancelled, ran, everStored, faults>>

Abort(a) ==
    /\ pc[a] = "aborting"
    /\ receipt' = R!AbortRow(receipt, a)
    /\ Goto(a, "over")
    /\ UNCHANGED <<now, pause, errand, token, said, lateSaves, cancelled, ran, got,
                   everStored, faults>>

\* The client goes away, the process dies or an unguarded call raises: the
\* receipt keeps its lease.  save() has its own protocol (CancelSave).
Leave(a) ==
    /\ pc[a] \notin {"idle", "over", "saving", "repairing"}
    /\ Goto(a, "over")
    /\ UNCHANGED <<now, receipt, pause, errand, token, said, lateSaves, cancelled, ran, got,
                   everStored, faults>>

(***************************************************************************)
(* What users who were given the conversation id do with it                *)
(***************************************************************************)
Known(k) == \E a \in Attempts : got[a] # None /\ got[a].conv = k

Moves == {<<"paused", "in_flight">>, <<"in_flight", "paused">>, <<"in_flight", "completed">>}

\* A continuation claims, releases or finishes the session.
Continue(k) ==
    /\ Known(k)
    /\ \E move \in Moves : /\ pause[k].state = move[1]
                           /\ pause' = [pause EXCEPT ![k].state = move[2]]
    /\ UNCHANGED <<now, receipt, pc, errand, token, said, lateSaves, cancelled, ran, got,
                   everStored, faults>>

\* The user cancels it, its TTL ends, or the sessions of others fill the
\* table and evict it.
Discard(k) ==
    /\ pause[k].state \in {"paused", "completed"}
    /\ pause' = [pause EXCEPT ![k] = NoSession]
    /\ UNCHANGED <<now, receipt, pc, errand, token, said, lateSaves, cancelled, ran, got,
                   everStored, faults>>

-----------------------------------------------------------------------------
Next ==
    \/ Tick
    \/ \E k \in Attempts : Continue(k) \/ Discard(k)
    \/ \E a \in Attempts :
        \/ Begin(a) \/ ReadRecoveryToken(a) \/ FindPause(a) \/ CheckPause(a) \/ Reconcile(a)
        \/ Renew(a) \/ NextRound(a) \/ MarkEffectStarted(a) \/ RunHandler(a) \/ Answer(a)
        \/ AskUser(a) \/ Fail(a)
        \/ Save(a) \/ SaveAckLost(a) \/ SaveFails(a) \/ CancelSave(a) \/ LateSave(a)
        \/ InspectPause(a) \/ RepairFails(a)
        \/ Complete(a) \/ CompleteFails(a) \/ Settle(a) \/ Abort(a) \/ Leave(a)

Spec == Init /\ [][Next]_vars

-----------------------------------------------------------------------------
(***************************************************************************)
(* Properties                                                              *)
(***************************************************************************)

\* Every request of the key that is answered is answered alike, whichever
\* run, retry or repair the answer came from, and an answer that names a
\* conversation came after the session it describes was stored under that id.
AnswersAgree ==
    \A a, b \in Attempts :
        /\ got[a] # None /\ got[b] # None => got[a] = got[b]
        /\ got[a] # None /\ got[a].kind = "pause" => got[a] \in everStored

\* Once a request of the key has been answered, no run of it starts a tool
\* whose effect cannot be replayed.
NoEffectAfterAnAnswer ==
    [][ran' # ran => \A a \in Attempts : got[a] = None]_vars

\* Effects are those of one run, and the answer then comes from that run.
EffectsMatchTheAnswer ==
    \A a, b \in Attempts :
        /\ a \in ran /\ b \in ran => a = b
        /\ a \in ran /\ got[b] # None => got[b].author = a

=============================================================================
