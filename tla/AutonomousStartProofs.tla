------------------------- MODULE AutonomousStartProofs -------------------------
(***************************************************************************)
(* What POST /agent/autonomous guarantees to the requests of one           *)
(* Idempotency-Key, for any number of them, any lease, and any number of   *)
(* faults.                                                                 *)
(***************************************************************************)
EXTENDS AutonomousStart, TLAPS

-----------------------------------------------------------------------------
(***************************************************************************)
(* The invariant                                                           *)
(***************************************************************************)
Records(row, r) == row.state = "completed" /\ row.response = r

Completed(r) == Records(receipt, r)

Owns(a) == receipt.state = "effect_started_v2" /\ receipt.owner = a

\* Every answer given, and every answer about to be replayed, is the one the
\* receipt recorded, and a repair replays nothing.
AnswersAreRecorded(a) ==
    /\ got[a] # None => Completed(got[a])
    /\ pc[a] = "checking" /\ errand[a] = "replay" => Completed(said[a])
    /\ pc[a] = "repairing" => errand[a] = "repair"

\* An attempt that may read or write a session knows its conversation id,
\* and its late thread finds the id it was started with.
TokenIsKnown(a) ==
    /\ \/ pc[a] \in {"searching", "looking", "round", "running", "marked", "saving", "repairing"}
       \/ a \in lateSaves
       => token[a] \in Attempts
    /\ a \in lateSaves => pc[a] \notin {"idle", "turned"}

\* What an attempt is about to say is a stored pause or its own answer.
SaidIsDurable(a) ==
    /\ pc[a] = "saving" => said[a] = PauseResponse(token[a], a)
    /\ pc[a] \in {"checking", "reconciling", "settling"} =>
           said[a] # None /\ said[a].kind = "pause"
    /\ pc[a] \in {"checking", "reconciling", "settling", "completing"} =>
           said[a] # None /\ (said[a].kind = "pause" => said[a] \in everStored)
    /\ pc[a] = "completing" => said[a].author = a \/ receipt.state = "completed"

\* An attempt past the marker owns the receipt, and the receipt remembers
\* whose effects there are until it says that they are in doubt.
EffectsAreOwned(a) ==
    /\ pc[a] = "marked" => Owns(a)
    /\ a \in ran => \/ Owns(a)
                    \/ receipt.state = "ambiguous"
                    \/ receipt.state = "completed" /\ receipt.response.author = a

AttemptInv(a) ==
    AnswersAreRecorded(a) /\ TokenIsKnown(a) /\ SaidIsDurable(a) /\ EffectsAreOwned(a)

\* A session is stored under the name of its conversation and of its author.
PausesAreStored ==
    \A k \in Attempts : pause[k].state # "absent" =>
        /\ pause[k].author \in Attempts
        /\ PauseResponse(k, pause[k].author) \in everStored

\* The receipt records a response, and no pause that was never stored.
ResponseIsDurable ==
    receipt.state = "completed" =>
        /\ receipt.response \in Responses
        /\ receipt.response.kind = "pause" => receipt.response \in everStored

\* Nobody is handed the key once an attempt is past the marker.
EffectsOfOne == \A a, b \in Attempts : a \in ran /\ b \in ran => a = b

StartInv ==
    /\ TypeOK
    /\ PausesAreStored
    /\ ResponseIsDurable
    /\ EffectsOfOne
    /\ \A a \in Attempts : AttemptInv(a)

-----------------------------------------------------------------------------
(***************************************************************************)
(* What a transaction on the receipt leaves                                *)
(***************************************************************************)
\* What a transaction of attempt a may make of a row: a completed or an
\* ambiguous receipt stays, and so does the receipt of an attempt past the
\* marker, unless that attempt itself completes or aborts it.
Allowed(row, next, a) ==
    /\ next \in R!Row
    /\ row.state \in {"completed", "ambiguous"} => next = row
    /\ row.state = "effect_started_v2" /\ row.owner # a => next = row
    /\ next.state = "effect_started_v2" /\ row.state # "effect_started_v2" =>
           next.owner = a /\ row.state = "pending_v2"

\* Everybody's response is a response, and nobody's is None.
LEMMA ResponsesAreSaid ==
    ASSUME NEW a \in Attempts, NEW k \in Attempts
    PROVE  /\ Final(a) \in Responses /\ PauseResponse(k, a) \in Responses
           /\ Final(a) # None /\ PauseResponse(k, a) # None
           /\ Final(a).kind = "final" /\ Final(a).author = a
           /\ PauseResponse(k, a).kind = "pause" /\ PauseResponse(k, a).author = a
           /\ PauseResponse(k, a).conv = k
<1>1. Final(a) \in Responses /\ PauseResponse(k, a) \in Responses
  BY DEF Responses
<1> QED
  BY <1>1, NoneAssumption DEF Final, PauseResponse

\* A pause names a conversation and an author.
LEMMA PausesNameThem ==
    ASSUME NEW r \in Responses, r.kind = "pause"
    PROVE  r.conv \in Attempts /\ r.author \in Attempts /\ r = PauseResponse(r.conv, r.author)
BY DEF Responses, Final, PauseResponse

\* begin() claims a fresh or a lapsed key, replays a recorded response, and
\* otherwise leaves the row alone.
LEMMA BeginLeaves ==
    ASSUME NEW row \in R!Row, NEW a \in Attempts, NEW t \in Nat,
           NEW next, next = R!BeginRow(row, "start", a, t)
    PROVE  /\ Allowed(row, next, a)
           /\ \/ R!BeginAnswer(row, "start", t) # "claimed" /\ next = row
              \/ /\ R!BeginAnswer(row, "start", t) = "claimed"
                 /\ next.state = "pending_v2" /\ next.recovery \in Attempts
                 /\ row.state \in {"absent", "pending_v2"}
           /\ R!BeginAnswer(row, "start", t) = "replayed" =>
                  row.state = "completed" /\ row.response \in Responses
<1>1. t + LeaseSeconds \in Nat
  BY LeaseAssumption
<1>2. /\ R!BeginAnswer(row, "start", t) = "claimed" =>
             row.state = "absent" \/ R!Reclaimable(row, t)
      /\ R!BeginAnswer(row, "start", t) = "replayed" =>
             row.state = "completed" /\ row.response # None
  BY Zenon DEF R!BeginAnswer
<1>3. R!BeginAnswer(row, "start", t) # "claimed" => next = row
  BY DEF R!BeginRow
<1>4. R!BeginAnswer(row, "start", t) = "claimed" /\ row.state = "absent" =>
          next \in R!Row /\ next.state = "pending_v2" /\ next.recovery = a
  BY <1>1 DEF R!BeginRow, R!Row, R!States
<1>5. R!BeginAnswer(row, "start", t) = "claimed" /\ row.state # "absent" =>
          /\ next = [row EXCEPT !.owner = a, !.expires = t + LeaseSeconds]
          /\ row.state = "pending_v2" /\ row.recovery # None
  BY <1>2 DEF R!BeginRow, R!Reclaimable
<1>6. R!BeginAnswer(row, "start", t) = "claimed" /\ row.state # "absent" =>
          /\ next \in R!Row /\ next.state = "pending_v2"
          /\ next.recovery = row.recovery /\ row.recovery \in Attempts
  BY <1>1, <1>5 DEF R!Row
<1> QED
  BY <1>2, <1>3, <1>4, <1>5, <1>6 DEF Allowed, R!Row, R!Reclaimable

\* A renewal moves the end of the lease and nothing else.
LEMMA RenewLeaves ==
    ASSUME NEW row \in R!Row, NEW a \in Attempts, NEW t \in Nat,
           NEW next, next = R!RenewRow(row, a, t)
    PROVE  /\ Allowed(row, next, a)
           /\ next.state = row.state /\ next.owner = row.owner /\ next.response = row.response
<1>1. t + LeaseSeconds \in Nat
  BY LeaseAssumption
<1>2. CASE next = row
  BY <1>2 DEF Allowed
<1>3. ASSUME NEW e \in Nat \cup {R!NoLease}, next = [row EXCEPT !.expires = e],
             row.state = "pending_v2"
      PROVE  /\ Allowed(row, next, a)
             /\ next.state = row.state /\ next.owner = row.owner
             /\ next.response = row.response
  <2>1. /\ next \in R!Row /\ next.state = row.state /\ next.owner = row.owner
        /\ next.response = row.response
    BY <1>3 DEF R!Row
  <2> QED
    BY <1>3, <2>1 DEF Allowed
<1>4. CASE next # row
  <2>1. /\ row.state = "pending_v2"
        /\ next = [row EXCEPT !.expires = IF @ >= t + LeaseSeconds THEN @ ELSE t + LeaseSeconds]
    BY <1>4 DEF R!RenewRow
  <2>2. row.expires \in Nat \cup {R!NoLease}
    BY DEF R!Row
  <2> DEFINE e == IF row.expires >= t + LeaseSeconds THEN row.expires ELSE t + LeaseSeconds
  <2>3. next = [row EXCEPT !.expires = e] /\ e \in Nat \cup {R!NoLease}
    BY <1>1, <2>1, <2>2
  <2> QED
    BY <1>3, <2>1, <2>3
<1> QED
  BY <1>2, <1>4

\* The marker is written for the owner only, who then owns it for good.
LEMMA MarkLeaves ==
    ASSUME NEW row \in R!Row, NEW a \in Attempts, NEW t \in Nat,
           NEW next, next = R!MarkEffectRow(row, a, t)
    PROVE  /\ Allowed(row, next, a)
           /\ R!MayWrite(row, a, t) => next.state = "effect_started_v2" /\ next.owner = a
           /\ ~ R!MayWrite(row, a, t) => next = row
           /\ next.response = row.response
<1>1. CASE R!MayWrite(row, a, t)
  <2>1. row.owner = a /\ row.state \in {"pending_v2", "effect_started_v2"}
    BY <1>1 DEF R!MayWrite
  <2>2. next = [row EXCEPT !.state = "effect_started_v2", !.expires = R!NoLease]
    BY <1>1 DEF R!MarkEffectRow
  <2>3. /\ next \in R!Row /\ next.state = "effect_started_v2" /\ next.owner = a
        /\ next.response = row.response
    BY <2>1, <2>2 DEF R!Row, R!States
  <2> QED
    BY <1>1, <2>1, <2>3 DEF Allowed
<1>2. CASE ~ R!MayWrite(row, a, t)
  BY <1>2 DEF R!MarkEffectRow, Allowed
<1> QED
  BY <1>1, <1>2

\* A completed row records the response.
LEMMA CompletedLeaves ==
    ASSUME NEW row \in R!Row, NEW r \in Responses
    PROVE  /\ R!CompletedRow(row, r) \in R!Row
           /\ R!CompletedRow(row, r).state = "completed"
           /\ R!CompletedRow(row, r).response = r
BY DEF R!CompletedRow, R!Row, R!States

\* complete() records the owner's response or leaves the row alone.
LEMMA CompleteLeaves ==
    ASSUME NEW row \in R!Row, NEW a \in Attempts, NEW r \in Responses, NEW t \in Nat,
           NEW next, next = R!CompleteRow(row, a, r, t)
    PROVE  /\ Allowed(row, next, a)
           /\ R!MayWrite(row, a, t) => next.state = "completed" /\ next.response = r
           /\ ~ R!MayWrite(row, a, t) => next = row
           /\ R!MayWrite(row, a, t) => row.state # "completed"
<1>1. R!MayWrite(row, a, t) =>
          row.owner = a /\ row.state \in {"pending_v2", "effect_started_v2"}
  BY DEF R!MayWrite
<1> QED
  BY <1>1, CompletedLeaves DEF R!CompleteRow, Allowed

\* abort() frees a claim and leaves an effect in doubt.
LEMMA AbortLeaves ==
    ASSUME NEW row \in R!Row, NEW a \in Attempts, NEW next, next = R!AbortRow(row, a)
    PROVE  /\ Allowed(row, next, a)
           /\ next = row \/ next.state \in {"absent", "ambiguous"}
           /\ row.state = "effect_started_v2" =>
                  next = row \/ next.state = "ambiguous"
<1>1. \/ next = row
      \/ row.owner = a /\ row.state = "pending_v2" /\ next = R!NoRow
      \/ /\ row.owner = a /\ row.state = "effect_started_v2"
         /\ next = [row EXCEPT !.state = "ambiguous", !.owner = None, !.expires = R!NoLease]
  BY Zenon DEF R!AbortRow
<1>2. R!NoRow \in R!Row /\ R!NoRow.state = "absent"
  BY DEF R!NoRow, R!Row, R!States
<1>3. [row EXCEPT !.state = "ambiguous", !.owner = None, !.expires = R!NoLease] \in R!Row
  BY DEF R!Row, R!States
<1>4. [row EXCEPT !.state = "ambiguous", !.owner = None, !.expires = R!NoLease].state
          = "ambiguous"
  BY DEF R!Row
<1> QED
  BY <1>1, <1>2, <1>3, <1>4 DEF Allowed

\* reconcile_completed() without allow_effect_started overrules a lease, never
\* a marker, and agrees only with what is recorded.
Reconciled(row, r) == R!ReconcileRow(row, "start", r, FALSE)
Agrees(row, r) == R!ReconcileAnswer(row, "start", r, FALSE) \in {"agreed", "repaired"}

\* A repair leaves the receipt as it was, or completed with the repaired answer.
LEMMA ReconcileLeaves ==
    ASSUME NEW row \in R!Row, NEW a \in Attempts, NEW r \in Responses
    PROVE  /\ Allowed(row, Reconciled(row, r), a)
           /\ Agrees(row, r) => Records(Reconciled(row, r), r)
           /\ Reconciled(row, r) = row \/ Records(Reconciled(row, r), r)
           /\ row.state = "effect_started_v2" => Reconciled(row, r) = row
<1> DEFINE next == Reconciled(row, r)
<1>1. /\ R!ReconcileAnswer(row, "start", r, FALSE) = "agreed" =>
             row.state = "completed" /\ row.response = r
      /\ R!ReconcileAnswer(row, "start", r, FALSE) = "repaired" =>
             row.state \in R!Repairable(FALSE)
  BY Zenon DEF R!ReconcileAnswer
<1>2. R!Repairable(FALSE) = {"pending_v2"}
  BY DEF R!Repairable
<1>3. R!ReconcileAnswer(row, "start", r, FALSE) = "repaired" =>
          row.state = "pending_v2" /\ next = R!CompletedRow(row, r)
  BY Zenon, <1>1, <1>2 DEF R!ReconcileRow, Reconciled
<1>4. R!ReconcileAnswer(row, "start", r, FALSE) # "repaired" => next = row
  BY Zenon DEF R!ReconcileRow, Reconciled
<1> HIDE DEF next
<1> DEFINE Leaves == /\ Allowed(row, next, a)
                     /\ Agrees(row, r) => Records(next, r)
                     /\ next = row \/ Records(next, r)
                     /\ row.state = "effect_started_v2" => next = row
<1>5. ASSUME R!ReconcileAnswer(row, "start", r, FALSE) = "repaired" PROVE Leaves
  <2>0. row.state = "pending_v2" /\ next = R!CompletedRow(row, r)
    BY <1>3, <1>5, Zenon
  <2>1. /\ R!CompletedRow(row, r) \in R!Row
        /\ R!CompletedRow(row, r).state = "completed"
        /\ R!CompletedRow(row, r).response = r
    BY CompletedLeaves
  <2> QED
    BY <2>0, <2>1 DEF Allowed, Records
<1>6. ASSUME R!ReconcileAnswer(row, "start", r, FALSE) # "repaired" PROVE Leaves
  <2>1. next = row
    BY <1>4, <1>6
  <2>2. Agrees(row, r) => Records(next, r)
    BY Zenon, <1>1, <1>6, <2>1 DEF Agrees, Records
  <2> QED
    BY <2>1, <2>2 DEF Allowed
<1>7. Leaves
  BY Zenon, <1>5, <1>6
<1> QED
  BY Zenon, <1>7 DEF next

-----------------------------------------------------------------------------
(***************************************************************************)
(* Types                                                                   *)
(***************************************************************************)
\* The initial state satisfies the invariant.
LEMMA StartInit == Init => StartInv
<1> SUFFICES ASSUME Init PROVE StartInv
  OBVIOUS
<1>1. receipt \in R!Row /\ receipt.state = "absent"
  BY DEF Init, R!NoRow, R!Row, R!States
<1>2. pause \in [Attempts -> [state : {"absent", "paused", "in_flight", "completed"},
                              author : Attempts \cup {None}]]
  BY DEF Init, NoSession
<1>3. TypeOK
  BY <1>1, <1>2 DEF Init, TypeOK, PcStates, Errands
<1>4. PausesAreStored
  BY DEF Init, PausesAreStored, NoSession
<1>5. ResponseIsDurable /\ EffectsOfOne
  BY <1>1 DEF Init, ResponseIsDurable, EffectsOfOne
<1>6. ASSUME NEW a \in Attempts PROVE AttemptInv(a)
  BY DEF Init, AttemptInv, AnswersAreRecorded, TokenIsKnown, SaidIsDurable, EffectsAreOwned
<1> QED
  BY <1>3, <1>4, <1>5, <1>6 DEF StartInv

-----------------------------------------------------------------------------
(***************************************************************************)
(* The steps of the others                                                 *)
(***************************************************************************)
\* Whatever attempt a does to the receipt, and whatever is stored, what holds
\* of every other attempt keeps holding.
LEMMA OthersKeep ==
    ASSUME StartInv, NEW a \in Attempts, NEW b \in Attempts, b # a,
           Allowed(receipt, receipt', a), everStored \subseteq everStored',
           pc'[b] = pc[b], errand'[b] = errand[b], token'[b] = token[b], said'[b] = said[b],
           got'[b] = got[b], b \in lateSaves' <=> b \in lateSaves, b \in ran' <=> b \in ran
    PROVE  AttemptInv(b)'
<1>1. AttemptInv(b)
  BY DEF StartInv
<1>2. AnswersAreRecorded(b)'
  BY <1>1 DEF AttemptInv, AnswersAreRecorded, Completed, Records, Allowed
<1>3. TokenIsKnown(b)'
  BY <1>1 DEF AttemptInv, TokenIsKnown
<1>4. SaidIsDurable(b)'
  BY <1>1 DEF AttemptInv, SaidIsDurable, Allowed
<1>5. EffectsAreOwned(b)'
  BY <1>1 DEF AttemptInv, EffectsAreOwned, Owns, Allowed
<1> QED
  BY <1>2, <1>3, <1>4, <1>5 DEF AttemptInv

\* A step of attempt a keeps the invariant when what it leaves of the receipt,
\* of the sessions and of the attempt itself does.
LEMMA OneActs ==
    ASSUME StartInv, TypeOK', NEW a \in Attempts,
           Allowed(receipt, receipt', a), everStored \subseteq everStored',
           \A b \in Attempts : b # a =>
               /\ pc'[b] = pc[b] /\ errand'[b] = errand[b] /\ token'[b] = token[b]
               /\ said'[b] = said[b] /\ got'[b] = got[b]
               /\ b \in lateSaves' <=> b \in lateSaves
               /\ b \in ran' <=> b \in ran,
           PausesAreStored', ResponseIsDurable', EffectsOfOne', AttemptInv(a)'
    PROVE  StartInv'
<1>1. ASSUME NEW b \in Attempts, b # a PROVE AttemptInv(b)'
  BY <1>1, OthersKeep
<1> QED
  BY <1>1 DEF StartInv

\* A step that leaves the receipt, the sessions and the effects alone needs a
\* look at its attempt only.
LEMMA OneMoves ==
    ASSUME StartInv, TypeOK', NEW a \in Attempts,
           UNCHANGED <<receipt, pause, everStored, lateSaves, ran>>,
           \A b \in Attempts : b # a =>
               /\ pc'[b] = pc[b] /\ errand'[b] = errand[b] /\ token'[b] = token[b]
               /\ said'[b] = said[b] /\ got'[b] = got[b],
           AttemptInv(a)'
    PROVE  StartInv'
<1>1. Allowed(receipt, receipt', a)
  BY DEF StartInv, TypeOK, Allowed
<1>2. PausesAreStored' /\ ResponseIsDurable' /\ EffectsOfOne'
  BY DEF StartInv, PausesAreStored, ResponseIsDurable, EffectsOfOne
<1> QED
  BY <1>1, <1>2, OneActs

-----------------------------------------------------------------------------
(***************************************************************************)
(* The steps                                                               *)
(***************************************************************************)
\* Before the run: begin(), the recovery of a pause and its validation.
LEMMA LookupKeeps ==
    ASSUME StartInv, NEW a \in Attempts,
           Begin(a) \/ ReadRecoveryToken(a) \/ FindPause(a) \/ CheckPause(a)
    PROVE  StartInv'
<1> USE DEF PcStates, Errands
<1>0. /\ TypeOK /\ AttemptInv(a) /\ PausesAreStored /\ ResponseIsDurable /\ EffectsOfOne
      /\ receipt \in R!Row
  BY DEF StartInv, TypeOK
<1>1. CASE Begin(a)
  <2> DEFINE verdict == R!BeginAnswer(receipt, "start", now)
  <2>1. /\ Allowed(receipt, receipt', a)
        /\ \/ verdict # "claimed" /\ receipt' = receipt
           \/ /\ verdict = "claimed" /\ receipt'.state = "pending_v2"
              /\ receipt'.recovery \in Attempts /\ receipt.state \in {"absent", "pending_v2"}
        /\ verdict = "replayed" => receipt.state = "completed" /\ receipt.response \in Responses
    BY <1>0, <1>1, BeginLeaves DEF Begin, TypeOK
  <2>2. \/ /\ verdict = "claimed"
           /\ token' = [token EXCEPT ![a] = receipt'.recovery]
           /\ Goto(a, "looking") /\ UNCHANGED <<errand, said, got>>
        \/ /\ verdict = "replayed" /\ receipt.response.kind = "final"
           /\ Return(a, receipt.response) /\ UNCHANGED <<token, errand, said>>
        \/ /\ verdict = "replayed" /\ receipt.response.kind = "pause"
           /\ Say(a, receipt.response) /\ Goto(a, "checking")
           /\ errand' = [errand EXCEPT ![a] = "replay"]
           /\ UNCHANGED <<token, got>>
        \/ Goto(a, "turned") /\ UNCHANGED <<token, errand, said, got>>
    BY <1>1, Zenon DEF Begin
  <2>3. UNCHANGED <<now, pause, lateSaves, cancelled, ran, everStored, faults>> /\ pc[a] = "idle"
    BY <1>1 DEF Begin
  <2> HIDE DEF verdict
  <2>4. receipt' \in R!Row
    BY <2>1 DEF Allowed
  <2>5. TypeOK'
    BY <1>0, <2>1, <2>2, <2>3, <2>4 DEF TypeOK, Goto, Say, Return
  <2>6. PausesAreStored' /\ EffectsOfOne'
    BY <1>0, <2>3 DEF PausesAreStored, EffectsOfOne
  <2>7. ResponseIsDurable'
    BY <1>0, <2>1, <2>3 DEF ResponseIsDurable
  <2>8. \A b \in Attempts : b # a =>
            /\ pc'[b] = pc[b] /\ errand'[b] = errand[b] /\ token'[b] = token[b]
            /\ said'[b] = said[b] /\ got'[b] = got[b]
    BY <1>0, <2>2 DEF TypeOK, Goto, Say, Return
  <2>9. AnswersAreRecorded(a)'
    BY <1>0, <2>1, <2>2, <2>3, NoneAssumption
       DEF TypeOK, AttemptInv, AnswersAreRecorded, Completed, Records, Allowed, Goto, Say,
           Return
  <2>10. TokenIsKnown(a)'
    BY <1>0, <2>1, <2>2, <2>3 DEF TypeOK, AttemptInv, TokenIsKnown, Goto, Say, Return
  <2>11. SaidIsDurable(a)'
    BY <1>0, <2>1, <2>2, <2>3, NoneAssumption
       DEF TypeOK, AttemptInv, SaidIsDurable, ResponseIsDurable, Goto, Say, Return
  <2>12. EffectsAreOwned(a)'
    BY <1>0, <2>1, <2>2, <2>3
       DEF TypeOK, AttemptInv, EffectsAreOwned, Owns, Allowed, Goto, Say, Return
  <2> QED
    BY <2>1, <2>3, <2>5, <2>6, <2>7, <2>8, <2>9, <2>10, <2>11, <2>12, OneActs DEF AttemptInv
<1>2. CASE ReadRecoveryToken(a)
  <2>1. receipt.recovery \in Attempts \cup {None}
    BY <1>0 DEF R!Row
  <2>2. TypeOK'
    BY <1>0, <1>2, <2>1 DEF TypeOK, ReadRecoveryToken, Goto
  <2>3. AttemptInv(a)'
    BY <1>0, <1>2, <2>1
       DEF TypeOK, ReadRecoveryToken, Goto, AttemptInv, AnswersAreRecorded, Completed, Records,
           TokenIsKnown, SaidIsDurable, EffectsAreOwned, Owns
  <2> QED
    BY <1>0, <1>2, <2>2, <2>3, OneMoves DEF TypeOK, ReadRecoveryToken, Goto
<1>3. CASE FindPause(a)
  <2> DEFINE k == token[a]
  <2>1. k \in Attempts
    BY <1>0, <1>3 DEF FindPause, AttemptInv, TokenIsKnown
  <2> HIDE DEF k
  <2>2. CASE pause[k].state = "paused"
    <3> DEFINE r == PauseResponse(k, pause[k].author)
    <3>1. /\ Say(a, r) /\ Goto(a, "checking")
          /\ errand' = [errand EXCEPT ![a] = IF pc[a] = "looking" THEN "claimed" ELSE "turned"]
      BY <1>3, <2>2 DEF FindPause, k
    <3>2. r \in Responses /\ r # None /\ r.kind = "pause" /\ r \in everStored
      BY <1>0, <2>1, <2>2, ResponsesAreSaid DEF PausesAreStored
    <3> HIDE DEF r
    <3>3. UNCHANGED <<now, receipt, pause, token, lateSaves, cancelled, ran, got, everStored,
                      faults>>
      BY <1>3 DEF FindPause
    <3>4. TypeOK'
      BY <1>0, <3>1, <3>2, <3>3 DEF TypeOK, Goto, Say
    <3>5. AnswersAreRecorded(a)' /\ TokenIsKnown(a)' /\ EffectsAreOwned(a)'
      BY <1>0, <1>3, <3>1, <3>3
         DEF TypeOK, Goto, Say, FindPause, AttemptInv, AnswersAreRecorded, Completed, Records,
             TokenIsKnown,
             EffectsAreOwned, Owns
    <3>6. SaidIsDurable(a)'
      BY <1>0, <3>1, <3>2, <3>3 DEF TypeOK, Goto, Say, SaidIsDurable
    <3> QED
      BY <1>0, <3>1, <3>3, <3>4, <3>5, <3>6, OneMoves DEF TypeOK, Goto, Say, AttemptInv
  <2>3. CASE pause[k].state # "paused"
    <3>1. /\ Goto(a, IF pc[a] = "looking" THEN "round" ELSE "over")
          /\ UNCHANGED <<said, errand>>
          /\ UNCHANGED <<now, receipt, pause, token, lateSaves, cancelled, ran, got, everStored,
                         faults>>
      BY <1>3, <2>3 DEF FindPause, k
    <3>2. TypeOK'
      BY <1>0, <3>1 DEF TypeOK, Goto
    <3>3. AttemptInv(a)'
      BY <1>0, <1>3, <2>1, <3>1
         DEF TypeOK, FindPause, Goto, AttemptInv, AnswersAreRecorded, Completed, Records,
             TokenIsKnown, SaidIsDurable, EffectsAreOwned, Owns, k
    <3> QED
      BY <1>0, <3>1, <3>2, <3>3, OneMoves DEF TypeOK, Goto
  <2> QED
    BY <2>2, <2>3
<1>4. CASE CheckPause(a)
  <2> DEFINE k == said[a].conv
             held == pause[k] = [state |-> "paused", author |-> said[a].author]
  <2>1. \/ Goto(a, AfterFailure(a, FALSE)) /\ UNCHANGED got
        \/ held /\ errand[a] = "replay" /\ Return(a, said[a])
        \/ ~ (held /\ errand[a] = "replay") /\ Goto(a, "reconciling") /\ UNCHANGED got
    BY <1>4, Zenon DEF CheckPause
  <2>2. /\ pc[a] = "checking"
        /\ UNCHANGED <<now, receipt, pause, errand, token, said, lateSaves, cancelled, ran,
                       everStored, faults>>
    BY <1>4 DEF CheckPause
  <2>3. AfterFailure(a, FALSE) \in {"aborting", "over"}
    BY DEF AfterFailure
  <2> HIDE DEF held, k
  <2>4. said[a] \in Responses
    BY <1>0, <2>2 DEF TypeOK, AttemptInv, SaidIsDurable
  <2>5. TypeOK'
    <3>1. pc' \in [Attempts -> PcStates]
      BY <1>0, <2>1, <2>3 DEF TypeOK, Goto, Return
    <3>2. got' \in [Attempts -> Responses \cup {None}]
      BY <1>0, <2>1, <2>4 DEF TypeOK, Return
    <3> QED
      BY <1>0, <2>2, <3>1, <3>2 DEF TypeOK
  <2>6. /\ pc'[a] \in {"aborting", "over", "reconciling"}
        /\ got'[a] = got[a] \/ (got'[a] = said[a] /\ errand[a] = "replay")
        /\ \A b \in Attempts : b # a => pc'[b] = pc[b] /\ got'[b] = got[b]
    BY <1>0, <2>1, <2>3 DEF TypeOK, Goto, Return
  <2>7. AnswersAreRecorded(a)'
    BY <1>0, <2>2, <2>6 DEF AttemptInv, AnswersAreRecorded, Completed, Records
  <2>8. TokenIsKnown(a)' /\ SaidIsDurable(a)' /\ EffectsAreOwned(a)'
    BY <1>0, <2>2, <2>6 DEF AttemptInv, TokenIsKnown, SaidIsDurable, EffectsAreOwned, Owns
  <2> QED
    BY <1>0, <2>2, <2>5, <2>6, <2>7, <2>8, OneMoves DEF AttemptInv
<1> QED
  BY <1>1, <1>2, <1>3, <1>4

\* The run, from a round to the answer or the question.
LEMMA RunKeeps ==
    ASSUME StartInv, NEW a \in Attempts,
           \/ Reconcile(a) \/ Renew(a) \/ NextRound(a) \/ MarkEffectStarted(a)
           \/ RunHandler(a) \/ Answer(a) \/ AskUser(a) \/ Fail(a)
    PROVE  StartInv'
<1> USE DEF PcStates, Errands
<1>0. /\ TypeOK /\ AttemptInv(a) /\ PausesAreStored /\ ResponseIsDurable /\ EffectsOfOne
      /\ receipt \in R!Row /\ now \in Nat
  BY DEF StartInv, TypeOK
<1>1. CASE Reconcile(a)
  <2> DEFINE verdict == R!ReconcileAnswer(receipt, "start", said[a], FALSE)
             agreed  == Agrees(receipt, said[a])
  <2>1. \/ agreed /\ Return(a, said[a])
        \/ /\ agreed /\ Goto(a, IF a \in cancelled THEN "over" ELSE "completing")
           /\ UNCHANGED got
        \/ Goto(a, AfterFailure(a, verdict = "ambiguous")) /\ UNCHANGED got
    BY <1>1, Zenon DEF Reconcile, Agrees
  <2>2. /\ pc[a] = "reconciling"
        /\ UNCHANGED <<now, pause, errand, token, said, lateSaves, cancelled, ran, everStored,
                       faults>>
    BY <1>1 DEF Reconcile
  <2>3. /\ said[a] \in Responses /\ said[a] # None
        /\ said[a].kind = "pause" => said[a] \in everStored
    BY <1>0, <2>2 DEF TypeOK, AttemptInv, SaidIsDurable
  <2>4. /\ Allowed(receipt, receipt', a)
        /\ agreed => Completed(said[a])'
        /\ receipt' = receipt \/ Completed(said[a])'
        /\ receipt.state = "effect_started_v2" => receipt' = receipt
    <3>1. receipt' = Reconciled(receipt, said[a]) /\ said'[a] = said[a]
      BY Zenon, <1>1, <2>2 DEF Reconcile, Reconciled
    <3>2. Completed(said[a])' <=> Records(receipt', said[a])
      BY <3>1 DEF Completed
    <3> QED
      BY <1>0, <2>3, <3>1, <3>2, ReconcileLeaves
  <2>5. AfterFailure(a, verdict = "ambiguous") \in {"aborting", "over"}
    BY DEF AfterFailure
  <2> HIDE DEF verdict, agreed
  <2>6. receipt' \in R!Row
    BY <2>4 DEF Allowed
  <2>7. TypeOK'
    BY <1>0, <2>1, <2>2, <2>3, <2>5, <2>6 DEF TypeOK, Goto, Return
  <2>8. PausesAreStored' /\ EffectsOfOne'
    BY <1>0, <2>2 DEF PausesAreStored, EffectsOfOne
  <2>9. ResponseIsDurable'
    BY <1>0, <2>2, <2>3, <2>4 DEF ResponseIsDurable, Completed, Records
  <2>10. AnswersAreRecorded(a)'
    BY <1>0, <2>1, <2>2, <2>4, <2>5
       DEF TypeOK, AttemptInv, AnswersAreRecorded, Completed, Records, Allowed, Goto, Return
  <2>11. TokenIsKnown(a)'
    BY <1>0, <2>1, <2>2, <2>5 DEF TypeOK, AttemptInv, TokenIsKnown, Goto, Return
  <2>12. SaidIsDurable(a)'
    BY <1>0, <2>1, <2>2, <2>3, <2>4, <2>5
       DEF TypeOK, AttemptInv, SaidIsDurable, Completed, Records, Goto, Return
  <2>13. EffectsAreOwned(a)'
    BY <1>0, <2>1, <2>2, <2>4, <2>5
       DEF TypeOK, AttemptInv, EffectsAreOwned, Owns, Allowed, Goto, Return
  <2>14. \A b \in Attempts : b # a => pc'[b] = pc[b] /\ got'[b] = got[b]
    BY <1>0, <2>1 DEF TypeOK, Goto, Return
  <2> QED
    BY <2>2, <2>4, <2>7, <2>8, <2>9, <2>10, <2>11, <2>12, <2>13, <2>14, OneActs DEF AttemptInv
<1>2. ASSUME NEW where \in {"running", "saving", "over"}, pc[a] \in {"round", "running"},
             receipt' = R!RenewRow(receipt, a, now),
             Goto(a, where), UNCHANGED said \/ Say(a, PauseResponse(token[a], a)),
             where = "saving" => Say(a, PauseResponse(token[a], a)),
             UNCHANGED <<now, pause, errand, token, lateSaves, cancelled, ran, got, everStored,
                         faults>>
      PROVE  StartInv'
  <2>1. token[a] \in Attempts
    BY <1>0, <1>2 DEF AttemptInv, TokenIsKnown
  <2>2. PauseResponse(token[a], a) \in Responses /\ PauseResponse(token[a], a) # None
    BY <2>1, ResponsesAreSaid
  <2>3. /\ Allowed(receipt, receipt', a) /\ receipt' \in R!Row
        /\ receipt'.state = receipt.state /\ receipt'.owner = receipt.owner
        /\ receipt'.response = receipt.response
    BY <1>0, <1>2, RenewLeaves DEF Allowed
  <2>4. TypeOK'
    BY <1>0, <1>2, <2>2, <2>3 DEF TypeOK, Goto, Say
  <2>5. PausesAreStored' /\ EffectsOfOne' /\ ResponseIsDurable'
    BY <1>0, <1>2, <2>3 DEF PausesAreStored, EffectsOfOne, ResponseIsDurable
  <2>6. AnswersAreRecorded(a)' /\ TokenIsKnown(a)' /\ EffectsAreOwned(a)'
    BY <1>0, <1>2, <2>1, <2>3
       DEF TypeOK, AttemptInv, AnswersAreRecorded, Completed, Records, TokenIsKnown,
           EffectsAreOwned, Owns,
           Goto
  <2>7. SaidIsDurable(a)'
    BY <1>0, <1>2 DEF TypeOK, SaidIsDurable, Goto, Say
  <2>8. \A b \in Attempts : b # a => pc'[b] = pc[b] /\ said'[b] = said[b]
    BY <1>0, <1>2 DEF TypeOK, Goto, Say
  <2> QED
    BY <1>2, <2>3, <2>4, <2>5, <2>6, <2>7, <2>8, OneActs DEF AttemptInv
<1>3. CASE Renew(a)
  BY <1>2, <1>3 DEF Renew
<1>4. CASE AskUser(a)
  BY <1>2, <1>4 DEF AskUser
<1>5. ASSUME NEW where \in {"round", "aborting"}, pc[a] \in {"round", "running", "marked"},
             Goto(a, where),
             UNCHANGED <<now, receipt, pause, errand, token, said, lateSaves, cancelled, ran,
                         got, everStored, faults>>
      PROVE  StartInv'
  <2>1. TypeOK'
    BY <1>0, <1>5 DEF TypeOK, Goto
  <2>2. AttemptInv(a)'
    BY <1>0, <1>5
       DEF TypeOK, Goto, AttemptInv, AnswersAreRecorded, Completed, Records, TokenIsKnown,
           SaidIsDurable,
           EffectsAreOwned, Owns
  <2> QED
    BY <1>0, <1>5, <2>1, <2>2, OneMoves DEF TypeOK, Goto
<1>6. CASE NextRound(a)
  BY <1>5, <1>6 DEF NextRound
<1>7. CASE Fail(a)
  BY <1>5, <1>7 DEF Fail
<1>8. CASE MarkEffectStarted(a)
  <2>1. /\ Allowed(receipt, receipt', a) /\ receipt' \in R!Row
        /\ R!MayWrite(receipt, a, now) =>
               receipt'.state = "effect_started_v2" /\ receipt'.owner = a
        /\ ~ R!MayWrite(receipt, a, now) => receipt' = receipt
        /\ receipt'.response = receipt.response
    BY <1>0, <1>8, MarkLeaves DEF MarkEffectStarted, Allowed
  <2>2. /\ pc[a] = "running"
        /\ Goto(a, IF R!MayWrite(receipt, a, now) THEN "marked" ELSE "aborting")
        /\ UNCHANGED <<now, pause, errand, token, said, lateSaves, cancelled, ran, got,
                       everStored, faults>>
    BY <1>8 DEF MarkEffectStarted
  <2>3. TypeOK'
    BY <1>0, <2>1, <2>2 DEF TypeOK, Goto
  <2>4. PausesAreStored' /\ EffectsOfOne' /\ ResponseIsDurable'
    BY <1>0, <2>1, <2>2 DEF PausesAreStored, EffectsOfOne, ResponseIsDurable
  <2>5. AnswersAreRecorded(a)' /\ TokenIsKnown(a)' /\ SaidIsDurable(a)'
    BY <1>0, <2>1, <2>2
       DEF TypeOK, AttemptInv, AnswersAreRecorded, Completed, Records, TokenIsKnown,
           SaidIsDurable,
           Allowed, Goto
  <2>6. EffectsAreOwned(a)'
    BY <1>0, <2>1, <2>2 DEF TypeOK, AttemptInv, EffectsAreOwned, Owns, Goto
  <2>7. \A b \in Attempts : b # a => pc'[b] = pc[b]
    BY <1>0, <2>2 DEF TypeOK, Goto
  <2> QED
    BY <2>1, <2>2, <2>3, <2>4, <2>5, <2>6, <2>7, OneActs DEF AttemptInv
<1>9. CASE RunHandler(a)
  <2>1. /\ pc[a] = "marked" /\ Owns(a) /\ ran' = ran \cup {a} /\ Goto(a, "round")
        /\ UNCHANGED <<now, receipt, pause, errand, token, said, lateSaves, cancelled, got,
                       everStored, faults>>
    BY <1>0, <1>9 DEF RunHandler, AttemptInv, EffectsAreOwned
  <2>2. Allowed(receipt, receipt', a)
    BY <1>0, <2>1 DEF Allowed
  <2>3. ASSUME NEW b \in ran PROVE b = a
    <3>1. b \in Attempts /\ EffectsAreOwned(b)
      BY <1>0 DEF TypeOK, StartInv, AttemptInv
    <3> QED
      BY <2>1, <3>1 DEF EffectsAreOwned, Owns
  <2>4. EffectsOfOne'
    BY <2>1, <2>3 DEF EffectsOfOne
  <2>5. TypeOK'
    BY <1>0, <2>1 DEF TypeOK, Goto
  <2>6. PausesAreStored' /\ ResponseIsDurable'
    BY <1>0, <2>1 DEF PausesAreStored, ResponseIsDurable
  <2>7. AttemptInv(a)'
    BY <1>0, <2>1
       DEF TypeOK, Goto, AttemptInv, AnswersAreRecorded, Completed, Records, TokenIsKnown,
           SaidIsDurable,
           EffectsAreOwned, Owns
  <2>8. \A b \in Attempts : b # a => pc'[b] = pc[b] /\ (b \in ran' <=> b \in ran)
    BY <1>0, <2>1 DEF TypeOK, Goto
  <2> QED
    BY <2>1, <2>2, <2>4, <2>5, <2>6, <2>7, <2>8, OneActs
<1>10. CASE Answer(a)
  <2>1. /\ pc[a] \in {"round", "running"} /\ Say(a, Final(a)) /\ Goto(a, "completing")
        /\ UNCHANGED <<now, receipt, pause, errand, token, lateSaves, cancelled, ran, got,
                       everStored, faults>>
    BY <1>10 DEF Answer
  <2>2. /\ Final(a) \in Responses /\ Final(a) # None
        /\ Final(a).kind = "final" /\ Final(a).author = a
    BY ResponsesAreSaid
  <2>3. TypeOK'
    BY <1>0, <2>1, <2>2 DEF TypeOK, Goto, Say
  <2>4. SaidIsDurable(a)'
    BY <1>0, <2>1, <2>2 DEF TypeOK, Goto, Say, SaidIsDurable
  <2>5. AnswersAreRecorded(a)' /\ TokenIsKnown(a)' /\ EffectsAreOwned(a)'
    BY <1>0, <2>1
       DEF TypeOK, Goto, AttemptInv, AnswersAreRecorded, Completed, Records, TokenIsKnown,
           EffectsAreOwned, Owns
  <2> QED
    BY <1>0, <2>1, <2>3, <2>4, <2>5, OneMoves DEF TypeOK, Goto, Say, AttemptInv
<1> QED
  BY <1>1, <1>3, <1>4, <1>6, <1>7, <1>8, <1>9, <1>10

\* save_initial_pause: the insert, its failures, its late thread and the repair.
LEMMA SaveKeeps ==
    ASSUME StartInv, NEW a \in Attempts,
           \/ Save(a) \/ SaveAckLost(a) \/ SaveFails(a) \/ CancelSave(a) \/ LateSave(a)
           \/ InspectPause(a) \/ RepairFails(a)
    PROVE  StartInv'
<1> USE DEF PcStates, Errands
<1>0. /\ TypeOK /\ AttemptInv(a) /\ PausesAreStored /\ ResponseIsDurable /\ EffectsOfOne
      /\ receipt \in R!Row /\ Allowed(receipt, receipt, a)
  BY DEF StartInv, TypeOK, Allowed
<1> DEFINE Written == pause' = [pause EXCEPT ![token[a]] = [state |-> "paused", author |-> a]]
           r == PauseResponse(token[a], a)
<1>1. ASSUME token[a] \in Attempts, Insert(a) \/ UNCHANGED <<pause, everStored>>
      PROVE  /\ pause' \in [Attempts ->
                               [state  : {"absent", "paused", "in_flight", "completed"},
                                author : Attempts \cup {None}]]
             /\ everStored' \in SUBSET Responses
             /\ everStored \subseteq everStored'
             /\ Insert(a) => r \in everStored'
             /\ PausesAreStored'
  <2>1. r \in Responses
    BY <1>1, ResponsesAreSaid
  <2>2. CASE UNCHANGED <<pause, everStored>> /\ ~ Insert(a)
    BY <1>0, <2>2 DEF TypeOK, PausesAreStored
  <2>3. CASE Insert(a)
    <3>1. Written /\ everStored' = everStored \cup {r}
      BY <2>3 DEF Insert
    <3>2. pause' \in [Attempts -> [state  : {"absent", "paused", "in_flight", "completed"},
                                   author : Attempts \cup {None}]]
      BY <1>0, <3>1 DEF TypeOK
    <3>3. ASSUME NEW k \in Attempts, pause'[k].state # "absent"
          PROVE  /\ pause'[k].author \in Attempts
                 /\ PauseResponse(k, pause'[k].author) \in everStored'
      <4>1. CASE k = token[a]
        BY <1>0, <3>1, <4>1 DEF TypeOK
      <4>2. CASE k # token[a]
        BY <1>0, <3>1, <3>3, <4>2 DEF TypeOK, PausesAreStored
      <4> QED
        BY <4>1, <4>2
    <3> QED
      BY <1>0, <2>1, <3>1, <3>2, <3>3 DEF TypeOK, PausesAreStored
  <2> QED
    BY <1>1, <2>2, <2>3
<1> HIDE DEF Written, r
<1>2. ASSUME pc[a] = "saving", NEW where \in {"completing", "repairing"}, Goto(a, where),
             Insert(a) \/ UNCHANGED <<pause, everStored>>,
             where = "completing" => Insert(a) /\ UNCHANGED errand,
             where = "repairing" => errand' = [errand EXCEPT ![a] = "repair"],
             lateSaves' \in {lateSaves, lateSaves \cup {a}},
             cancelled' \in {cancelled, cancelled \cup {a}},
             faults' \in Nat,
             UNCHANGED <<now, receipt, token, said, ran, got>>
      PROVE  StartInv'
  <2>1. token[a] \in Attempts /\ said[a] = r
    BY <1>0, <1>2 DEF AttemptInv, TokenIsKnown, SaidIsDurable, r
  <2>2. r \in Responses /\ r # None /\ r.author = a
    BY <2>1, ResponsesAreSaid DEF r
  <2>3. /\ pause' \in [Attempts -> [state  : {"absent", "paused", "in_flight", "completed"},
                                    author : Attempts \cup {None}]]
        /\ everStored' \in SUBSET Responses /\ everStored \subseteq everStored'
        /\ Insert(a) => r \in everStored'
        /\ PausesAreStored'
    BY <1>1, <1>2, <2>1
  <2>4. errand' \in [Attempts -> Errands] /\ \A b \in Attempts : b # a => errand'[b] = errand[b]
    BY <1>0, <1>2 DEF TypeOK
  <2>5. /\ lateSaves' \in SUBSET Attempts /\ cancelled' \in SUBSET Attempts
        /\ \A b \in Attempts : b # a => (b \in lateSaves' <=> b \in lateSaves)
    BY <1>0, <1>2 DEF TypeOK
  <2>6. TypeOK'
    BY <1>0, <1>2, <2>3, <2>4, <2>5 DEF TypeOK, Goto
  <2>7. ResponseIsDurable' /\ EffectsOfOne'
    BY <1>0, <1>2, <2>3 DEF ResponseIsDurable, EffectsOfOne
  <2>8. AnswersAreRecorded(a)' /\ EffectsAreOwned(a)'
    BY <1>0, <1>2
       DEF TypeOK, Goto, AttemptInv, AnswersAreRecorded, Completed, Records, EffectsAreOwned,
           Owns
  <2>9. TokenIsKnown(a)'
    BY <1>0, <1>2, <2>1 DEF TypeOK, Goto, TokenIsKnown
  <2>10. SaidIsDurable(a)'
    BY <1>0, <1>2, <2>1, <2>2, <2>3 DEF TypeOK, Goto, SaidIsDurable
  <2>11. \A b \in Attempts : b # a => pc'[b] = pc[b]
    BY <1>0, <1>2 DEF TypeOK, Goto
  <2> QED
    BY <1>0, <1>2, <2>3, <2>4, <2>5, <2>6, <2>7, <2>8, <2>9, <2>10, <2>11, OneActs
       DEF AttemptInv
<1>3. faults \in Nat /\ (Fault => faults' \in Nat)
  BY <1>0 DEF TypeOK, Fault
<1>4. CASE Save(a)
  BY <1>2, <1>3, <1>4 DEF Save
<1>5. CASE SaveAckLost(a)
  BY <1>2, <1>3, <1>5 DEF SaveAckLost, StartRepair
<1>6. CASE SaveFails(a)
  BY <1>2, <1>3, <1>6 DEF SaveFails, StartRepair
<1>7. CASE CancelSave(a)
  BY <1>2, <1>3, <1>7 DEF CancelSave, StartRepair
<1>8. CASE LateSave(a)
  <2>1. /\ a \in lateSaves /\ lateSaves' = lateSaves \ {a}
        /\ Insert(a) \/ UNCHANGED <<pause, everStored>>
        /\ UNCHANGED <<now, receipt, pc, errand, token, said, cancelled, ran, got, faults>>
    BY <1>8 DEF LateSave
  <2>2. token[a] \in Attempts
    BY <1>0, <2>1 DEF AttemptInv, TokenIsKnown
  <2>3. /\ pause' \in [Attempts -> [state  : {"absent", "paused", "in_flight", "completed"},
                                    author : Attempts \cup {None}]]
        /\ everStored' \in SUBSET Responses /\ everStored \subseteq everStored'
        /\ PausesAreStored'
    BY <1>1, <2>1, <2>2
  <2>4. TypeOK'
    BY <1>0, <2>1, <2>3 DEF TypeOK
  <2>5. ResponseIsDurable' /\ EffectsOfOne'
    BY <1>0, <2>1, <2>3 DEF ResponseIsDurable, EffectsOfOne
  <2>6. AnswersAreRecorded(a)' /\ EffectsAreOwned(a)' /\ TokenIsKnown(a)'
    BY <1>0, <2>1
       DEF AttemptInv, AnswersAreRecorded, Completed, Records, EffectsAreOwned, Owns,
           TokenIsKnown
  <2>7. SaidIsDurable(a)'
    BY <1>0, <2>1, <2>3 DEF AttemptInv, SaidIsDurable
  <2>8. \A b \in Attempts : b # a => (b \in lateSaves' <=> b \in lateSaves)
    BY <2>1
  <2> QED
    BY <1>0, <2>1, <2>3, <2>4, <2>5, <2>6, <2>7, <2>8, OneActs DEF AttemptInv
<1>9. CASE InspectPause(a)
  <2> DEFINE found == pause[token[a]]
             q     == PauseResponse(token[a], found.author)
  <2>1. /\ pc[a] = "repairing"
        /\ UNCHANGED <<now, receipt, pause, errand, token, lateSaves, cancelled, ran, got,
                       everStored, faults>>
    BY <1>9 DEF InspectPause
  <2>2. \/ found.state = "paused" /\ Say(a, q) /\ Goto(a, "checking")
        \/ Goto(a, "over") /\ UNCHANGED said
        \/ Goto(a, AfterFailure(a, FALSE)) /\ UNCHANGED said
    <3>1. token[a] \in Attempts
      BY <1>0, <1>9 DEF InspectPause, AttemptInv, TokenIsKnown
    <3>2. found.state \in {"absent", "paused", "in_flight", "completed"}
      BY <1>0, <3>1 DEF TypeOK
    <3> QED
      BY <1>9, <3>2 DEF InspectPause
  <2>3. AfterFailure(a, FALSE) \in {"aborting", "over"}
    BY DEF AfterFailure
  <2>4. token[a] \in Attempts
    BY <1>0, <2>1 DEF AttemptInv, TokenIsKnown
  <2>5. found.state = "paused" =>
            q \in Responses /\ q # None /\ q.kind = "pause" /\ q \in everStored
    BY <1>0, <2>4, ResponsesAreSaid DEF PausesAreStored
  <2> HIDE DEF found, q
  <2>6. /\ pc' \in [Attempts -> PcStates] /\ pc'[a] \in {"checking", "aborting", "over"}
        /\ \A b \in Attempts : b # a => pc'[b] = pc[b]
    BY <1>0, <2>2, <2>3 DEF TypeOK, Goto
  <2>7. /\ said' \in [Attempts -> Responses \cup {None}]
        /\ \A b \in Attempts : b # a => said'[b] = said[b]
    BY <1>0, <2>2, <2>5 DEF TypeOK, Say
  <2>8. pc'[a] = "checking" => said'[a] # None /\ said'[a].kind = "pause" /\ said'[a] \in everStored
    BY <1>0, <2>2, <2>3, <2>5 DEF TypeOK, Goto, Say
  <2>9. TypeOK'
    BY <1>0, <2>1, <2>6, <2>7 DEF TypeOK
  <2>10. AnswersAreRecorded(a)'
    BY <1>0, <2>1, <2>6 DEF AttemptInv, AnswersAreRecorded, Completed, Records
  <2>11. TokenIsKnown(a)' /\ EffectsAreOwned(a)'
    BY <1>0, <2>1, <2>4, <2>6 DEF AttemptInv, TokenIsKnown, EffectsAreOwned, Owns
  <2>12. SaidIsDurable(a)'
    BY <2>1, <2>6, <2>8 DEF SaidIsDurable
  <2> QED
    BY <2>1, <2>6, <2>7, <2>9, <2>10, <2>11, <2>12, OneMoves DEF AttemptInv
<1>10. CASE RepairFails(a)
  <2>1. /\ Goto(a, AfterFailure(a, FALSE)) /\ Fault
        /\ pc[a] \in {"repairing", "checking", "reconciling"}
        /\ UNCHANGED <<now, receipt, pause, errand, token, said, lateSaves, cancelled, ran, got,
                       everStored>>
    BY <1>10 DEF RepairFails
  <2>2. AfterFailure(a, FALSE) \in {"aborting", "over"}
    BY DEF AfterFailure
  <2>3. TypeOK'
    BY <1>0, <1>3, <2>1, <2>2 DEF TypeOK, Goto
  <2>4. AttemptInv(a)'
    BY <1>0, <2>1, <2>2
       DEF TypeOK, Goto, AttemptInv, AnswersAreRecorded, Completed, Records, TokenIsKnown,
           SaidIsDurable,
           EffectsAreOwned, Owns
  <2> QED
    BY <1>0, <2>1, <2>3, <2>4, OneMoves DEF TypeOK, Goto
<1> QED
  BY <1>4, <1>5, <1>6, <1>7, <1>8, <1>9, <1>10

\* The end of the handler: complete(), its failure, abort() and leaving.
LEMMA EndKeeps ==
    ASSUME StartInv, NEW a \in Attempts,
           Complete(a) \/ CompleteFails(a) \/ Settle(a) \/ Abort(a) \/ Leave(a)
    PROVE  StartInv'
<1> USE DEF PcStates, Errands
<1>0. /\ TypeOK /\ AttemptInv(a) /\ PausesAreStored /\ ResponseIsDurable /\ EffectsOfOne
      /\ receipt \in R!Row /\ now \in Nat /\ Allowed(receipt, receipt, a)
  BY DEF StartInv, TypeOK, Allowed
<1>1. ASSUME pc[a] \in {"completing", "settling"},
             Allowed(receipt, receipt', a),
             receipt' = receipt \/ Completed(said[a])',
             pc[a] = "settling" /\ receipt.state = "effect_started_v2" => receipt' = receipt,
             NEW where \in {"settling", "aborting", "over"},
             where = "settling" => pc[a] = "completing" /\ said[a].kind = "pause",
             \/ where = "over" /\ Return(a, said[a]) /\ Completed(said[a])'
             \/ Goto(a, where) /\ UNCHANGED got,
             faults' \in Nat,
             UNCHANGED <<now, pause, errand, token, said, lateSaves, cancelled, ran, everStored>>
      PROVE  StartInv'
  <2>1. /\ said[a] \in Responses /\ said[a] # None
        /\ said[a].kind = "pause" => said[a] \in everStored
        /\ pc[a] = "completing" => said[a].author = a \/ receipt.state = "completed"
    BY <1>0, <1>1 DEF TypeOK, AttemptInv, SaidIsDurable
  <2>2. receipt' \in R!Row
    BY <1>1 DEF Allowed
  <2>3. TypeOK'
    BY <1>0, <1>1, <2>1, <2>2 DEF TypeOK, Goto, Return
  <2>4. PausesAreStored' /\ EffectsOfOne'
    BY <1>0, <1>1 DEF PausesAreStored, EffectsOfOne
  <2>5. ResponseIsDurable'
    BY <1>0, <1>1, <2>1 DEF ResponseIsDurable, Completed, Records
  <2>6. \A b \in Attempts : b # a => pc'[b] = pc[b] /\ got'[b] = got[b]
    BY <1>0, <1>1 DEF TypeOK, Goto, Return
  <2>7. AnswersAreRecorded(a)'
    BY <1>0, <1>1
       DEF TypeOK, AttemptInv, AnswersAreRecorded, Completed, Records, Allowed, Goto, Return
  <2>8. TokenIsKnown(a)'
    BY <1>0, <1>1 DEF TypeOK, AttemptInv, TokenIsKnown, Goto, Return
  <2>9. SaidIsDurable(a)'
    BY <1>0, <1>1, <2>1 DEF TypeOK, SaidIsDurable, Goto, Return
  <2>10. EffectsAreOwned(a)'
    <3>1. pc'[a] # "marked"
      BY <1>0, <1>1 DEF TypeOK, Goto, Return
    <3>2. CASE receipt' = receipt
      BY <1>0, <1>1, <3>1, <3>2 DEF AttemptInv, EffectsAreOwned, Owns
    <3>3. CASE receipt' # receipt
      <4>1. receipt.state \notin {"completed", "ambiguous"} /\ Completed(said[a])'
        BY <1>1, <3>3 DEF Allowed
      <4>2. a \in ran => Owns(a) /\ pc[a] = "completing"
        BY <1>0, <1>1, <3>3, <4>1 DEF AttemptInv, EffectsAreOwned, Owns
      <4>3. a \in ran => receipt'.state = "completed" /\ receipt'.response.author = a
        BY <1>1, <2>1, <4>1, <4>2 DEF Completed, Records
      <4> QED
        BY <1>1, <3>1, <4>3 DEF EffectsAreOwned
    <3> QED
      BY <3>2, <3>3
  <2> QED
    BY <1>1, <2>3, <2>4, <2>5, <2>6, <2>7, <2>8, <2>9, <2>10, OneActs DEF AttemptInv
<1>2. pc[a] \in {"completing", "settling"} => said[a] \in Responses
  BY <1>0 DEF TypeOK, AttemptInv, SaidIsDurable
<1>3. /\ AfterCompleteFails(a) \in {"settling", "aborting"}
      /\ AfterCompleteFails(a) = "settling" => said[a].kind = "pause"
  BY DEF AfterCompleteFails
<1>4. faults \in Nat /\ (Fault => faults' \in Nat)
  BY <1>0 DEF TypeOK, Fault
<1>5. ASSUME NEW row, row = R!CompleteRow(receipt, a, said[a], now), pc[a] = "completing"
      PROVE  /\ Allowed(receipt, row, a)
             /\ R!MayWrite(receipt, a, now) => Records(row, said[a])
             /\ ~ R!MayWrite(receipt, a, now) => row = receipt
  BY <1>0, <1>2, <1>5, CompleteLeaves DEF Records
<1>6. CASE Complete(a)
  <2>1. /\ pc[a] = "completing" /\ receipt' = R!CompleteRow(receipt, a, said[a], now)
        /\ \/ R!MayWrite(receipt, a, now) /\ Return(a, said[a])
           \/ /\ ~ R!MayWrite(receipt, a, now)
              /\ Goto(a, AfterCompleteFails(a)) /\ UNCHANGED got
        /\ UNCHANGED <<now, pause, errand, token, said, lateSaves, cancelled, ran, everStored,
                       faults>>
    BY <1>6 DEF Complete
  <2>2. /\ Allowed(receipt, receipt', a)
        /\ R!MayWrite(receipt, a, now) => Completed(said[a])'
        /\ ~ R!MayWrite(receipt, a, now) => receipt' = receipt
    BY <1>5, <2>1 DEF Completed
  <2> QED
    BY <1>1, <1>3, <1>4, <2>1, <2>2
<1>7. CASE CompleteFails(a)
  <2>1. /\ pc[a] = "completing" /\ Fault
        /\ receipt' = receipt \/ receipt' = R!CompleteRow(receipt, a, said[a], now)
        /\ Goto(a, AfterCompleteFails(a))
        /\ UNCHANGED <<now, pause, errand, token, said, lateSaves, cancelled, ran, got,
                       everStored>>
    BY <1>7 DEF CompleteFails
  <2>2. Allowed(receipt, receipt', a) /\ (receipt' = receipt \/ Completed(said[a])')
    BY <1>0, <1>5, <2>1 DEF Completed
  <2> QED
    BY <1>1, <1>3, <1>4, <2>1, <2>2
<1>8. CASE Settle(a)
  <2> DEFINE agreed == Agrees(receipt, said[a])
  <2>1. /\ pc[a] = "settling" /\ receipt' = Reconciled(receipt, said[a])
        /\ \/ agreed /\ Return(a, said[a])
           \/ Goto(a, "over") /\ UNCHANGED got
        /\ UNCHANGED <<now, pause, errand, token, said, lateSaves, cancelled, ran, everStored,
                       faults>>
    BY Zenon, <1>8 DEF Settle, Agrees, Reconciled
  <2>2. Completed(said[a])' <=> Records(receipt', said[a])
    BY <2>1 DEF Completed
  <2>3. /\ Allowed(receipt, receipt', a)
        /\ agreed => Completed(said[a])'
        /\ receipt' = receipt \/ Completed(said[a])'
        /\ receipt.state = "effect_started_v2" => receipt' = receipt
    <3>1. receipt \in R!Row /\ said[a] \in Responses
      BY <1>0, <1>2, <2>1
    <3>2. /\ Allowed(receipt, receipt', a)
          /\ agreed => Records(receipt', said[a])
          /\ receipt' = receipt \/ Records(receipt', said[a])
          /\ receipt.state = "effect_started_v2" => receipt' = receipt
      BY <2>1, <3>1, ReconcileLeaves
    <3> QED
      BY <2>2, <3>2
  <2> HIDE DEF agreed
  <2> QED
    BY <1>1, <1>4, <2>1, <2>3
<1>9. CASE Abort(a)
  <2>1. /\ pc[a] = "aborting" /\ receipt' = R!AbortRow(receipt, a) /\ Goto(a, "over")
        /\ UNCHANGED <<now, pause, errand, token, said, lateSaves, cancelled, ran, got,
                       everStored, faults>>
    BY <1>9 DEF Abort
  <2>2. /\ Allowed(receipt, receipt', a) /\ receipt' \in R!Row
        /\ receipt' = receipt \/ receipt'.state \in {"absent", "ambiguous"}
        /\ receipt.state = "effect_started_v2" =>
               receipt' = receipt \/ receipt'.state = "ambiguous"
    BY <1>0, <2>1, AbortLeaves DEF Allowed
  <2>3. TypeOK'
    BY <1>0, <2>1, <2>2 DEF TypeOK, Goto
  <2>4. PausesAreStored' /\ EffectsOfOne' /\ ResponseIsDurable'
    BY <1>0, <2>1, <2>2 DEF PausesAreStored, EffectsOfOne, ResponseIsDurable
  <2>5. AnswersAreRecorded(a)' /\ TokenIsKnown(a)' /\ SaidIsDurable(a)'
    BY <1>0, <2>1, <2>2
       DEF TypeOK, AttemptInv, AnswersAreRecorded, Completed, Records, TokenIsKnown,
           SaidIsDurable, Allowed, Goto
  <2>6. EffectsAreOwned(a)'
    BY <1>0, <2>1, <2>2 DEF TypeOK, AttemptInv, EffectsAreOwned, Owns, Allowed, Goto
  <2>7. \A b \in Attempts : b # a => pc'[b] = pc[b]
    BY <1>0, <2>1 DEF TypeOK, Goto
  <2> QED
    BY <2>1, <2>2, <2>3, <2>4, <2>5, <2>6, <2>7, OneActs DEF AttemptInv
<1>10. CASE Leave(a)
  <2>1. TypeOK'
    BY <1>0, <1>10 DEF TypeOK, Leave, Goto
  <2>2. AttemptInv(a)'
    BY <1>0, <1>10
       DEF TypeOK, Leave, Goto, AttemptInv, AnswersAreRecorded, Completed, Records,
           TokenIsKnown,
           SaidIsDurable, EffectsAreOwned, Owns
  <2> QED
    BY <1>0, <1>10, <2>1, <2>2, OneMoves DEF TypeOK, Leave, Goto
<1> QED
  BY <1>6, <1>7, <1>8, <1>9, <1>10

\* What users do with a conversation changes no author and no receipt.
LEMMA UsersKeep ==
    ASSUME StartInv, NEW k \in Attempts, Continue(k) \/ Discard(k)
    PROVE  StartInv'
<1>0. TypeOK /\ PausesAreStored /\ ResponseIsDurable /\ EffectsOfOne
  BY DEF StartInv
<1>1. UNCHANGED <<now, receipt, pc, errand, token, said, lateSaves, cancelled, ran, got,
                  everStored, faults>>
  BY DEF Continue, Discard
<1>2. /\ pause' \in [Attempts -> [state  : {"absent", "paused", "in_flight", "completed"},
                                  author : Attempts \cup {None}]]
      /\ PausesAreStored'
  <2>1. CASE Discard(k)
    BY <1>0, <1>1, <2>1 DEF Discard, NoSession, TypeOK, PausesAreStored
  <2>2. CASE Continue(k)
    <3>1. PICK move \in Moves : /\ pause[k].state = move[1]
                                /\ pause' = [pause EXCEPT ![k].state = move[2]]
      BY <2>2 DEF Continue
    <3>2. move[1] \in {"paused", "in_flight"} /\ move[2] \in {"paused", "in_flight", "completed"}
      BY DEF Moves
    <3>3. \A j \in Attempts : /\ pause'[j].author = pause[j].author
                              /\ pause'[j].state # "absent" => pause[j].state # "absent"
      BY <1>0, <3>1, <3>2 DEF TypeOK
    <3>4. pause' \in [Attempts -> [state  : {"absent", "paused", "in_flight", "completed"},
                                   author : Attempts \cup {None}]]
      BY <1>0, <3>1, <3>2 DEF TypeOK
    <3> QED
      BY <1>0, <1>1, <3>3, <3>4 DEF PausesAreStored
  <2> QED
    BY <2>1, <2>2
<1>3. TypeOK'
  BY <1>0, <1>1, <1>2 DEF TypeOK
<1>4. ResponseIsDurable' /\ EffectsOfOne'
  BY <1>0, <1>1 DEF ResponseIsDurable, EffectsOfOne
<1>5. ASSUME NEW a \in Attempts PROVE AttemptInv(a)'
  <2>1. AttemptInv(a)
    BY DEF StartInv
  <2> QED
    BY <1>1, <2>1
       DEF AttemptInv, AnswersAreRecorded, Completed, Records, TokenIsKnown, SaidIsDurable,
           EffectsAreOwned, Owns
<1> QED
  BY <1>2, <1>3, <1>4, <1>5 DEF StartInv

\* Every step keeps the invariant.
LEMMA StartStep == StartInv /\ [Next]_vars => StartInv'
<1> SUFFICES ASSUME StartInv, [Next]_vars PROVE StartInv'
  OBVIOUS
<1>1. ASSUME UNCHANGED <<receipt, pause, pc, errand, token, said, lateSaves, cancelled, ran, got,
                         everStored, faults>>,
             now' \in Nat
      PROVE  StartInv'
  <2>1. TypeOK' /\ PausesAreStored' /\ ResponseIsDurable' /\ EffectsOfOne'
    BY <1>1 DEF StartInv, TypeOK, PausesAreStored, ResponseIsDurable, EffectsOfOne
  <2>2. ASSUME NEW a \in Attempts PROVE AttemptInv(a)'
    BY <1>1
       DEF StartInv, AttemptInv, AnswersAreRecorded, Completed, Records, TokenIsKnown,
           SaidIsDurable, EffectsAreOwned, Owns
  <2> QED
    BY <2>1, <2>2 DEF StartInv
<1>2. now \in Nat
  BY DEF StartInv, TypeOK
<1>3. CASE Tick
  BY <1>1, <1>2, <1>3 DEF Tick
<1>4. CASE UNCHANGED vars
  BY <1>1, <1>2, <1>4 DEF vars
<1>5. CASE \E k \in Attempts : Continue(k) \/ Discard(k)
  BY <1>5, UsersKeep
<1>6. ASSUME NEW a \in Attempts,
             \/ Begin(a) \/ ReadRecoveryToken(a) \/ FindPause(a) \/ CheckPause(a) \/ Reconcile(a)
             \/ Renew(a) \/ NextRound(a) \/ MarkEffectStarted(a) \/ RunHandler(a) \/ Answer(a)
             \/ AskUser(a) \/ Fail(a)
             \/ Save(a) \/ SaveAckLost(a) \/ SaveFails(a) \/ CancelSave(a) \/ LateSave(a)
             \/ InspectPause(a) \/ RepairFails(a)
             \/ Complete(a) \/ CompleteFails(a) \/ Settle(a) \/ Abort(a) \/ Leave(a)
      PROVE  StartInv'
  BY <1>6, LookupKeeps, RunKeeps, SaveKeeps, EndKeeps
<1> QED
  BY <1>3, <1>4, <1>5, <1>6 DEF Next

-----------------------------------------------------------------------------
(***************************************************************************)
(* Theorems                                                                *)
(***************************************************************************)

\* The inductive invariant: answers and effects are those of the receipt,
\* and what is said of a pause is said after it was stored.
THEOREM StartInvariance == Spec => []StartInv
<1>1. StartInv /\ [Next]_vars => StartInv'
  BY StartStep
<1> QED
  BY StartInit, <1>1, PTL DEF Spec

\* Every reachable state of a start is well typed.
THEOREM StartTypeCorrect == Spec => []TypeOK
<1>1. StartInv => TypeOK
  BY DEF StartInv
<1> QED
  BY StartInvariance, <1>1, PTL

\* All requests of one key are answered alike, and only with a pause that was
\* stored before, whatever repair, retry or takeover the answer came from.
THEOREM StartsAgree == Spec => []AnswersAgree
<1>1. StartInv => AnswersAgree
  <2> SUFFICES ASSUME StartInv, NEW a \in Attempts, NEW b \in Attempts, got[a] # None
               PROVE  /\ got[b] # None => got[a] = got[b]
                      /\ got[a].kind = "pause" => got[a] \in everStored
    BY DEF AnswersAgree
  <2>1. Completed(got[a]) /\ (got[b] # None => Completed(got[b])) /\ ResponseIsDurable
    BY DEF StartInv, AttemptInv, AnswersAreRecorded
  <2> QED
    BY <2>1 DEF Completed, Records, ResponseIsDurable
<1> QED
  BY StartInvariance, <1>1, PTL

\* The effects of a start are those of one run, and the answer is that run's.
THEOREM StartEffectsMatch == Spec => []EffectsMatchTheAnswer
<1>1. StartInv => EffectsMatchTheAnswer
  <2> SUFFICES ASSUME StartInv PROVE EffectsMatchTheAnswer
    OBVIOUS
  <2>1. ASSUME NEW a \in Attempts, NEW b \in Attempts, a \in ran, got[b] # None
        PROVE  got[b].author = a
    <3>1. Completed(got[b]) /\ EffectsAreOwned(a)
      BY <2>1 DEF StartInv, AttemptInv, AnswersAreRecorded
    <3> QED
      BY <2>1, <3>1 DEF Completed, Records, EffectsAreOwned, Owns
  <2> QED
    BY <2>1 DEF StartInv, EffectsOfOne, EffectsMatchTheAnswer
<1> QED
  BY StartInvariance, <1>1, PTL

\* No run starts a tool whose effect cannot be replayed once the key is answered.
THEOREM QuietAfterTheAnswer == Spec => NoEffectAfterAnAnswer
<1>1. StartInv /\ [Next]_vars => [ran' # ran => \A a \in Attempts : got[a] = None]_vars
  <2> SUFFICES ASSUME StartInv, [Next]_vars, ran' # ran, NEW b \in Attempts, got[b] # None
               PROVE  FALSE
    OBVIOUS
  <2>1. PICK a \in Attempts : RunHandler(a)
    BY DEF Next, vars, Tick, Continue, Discard, Begin, ReadRecoveryToken, FindPause, CheckPause,
           Reconcile, Renew, NextRound, MarkEffectStarted, Answer, AskUser, Fail, Save,
           SaveAckLost, SaveFails, CancelSave, LateSave, InspectPause, RepairFails, Complete,
           CompleteFails, Settle, Abort, Leave
  <2>2. Owns(a) /\ Completed(got[b])
    BY <2>1 DEF StartInv, AttemptInv, EffectsAreOwned, AnswersAreRecorded, RunHandler
  <2> QED
    BY <2>2 DEF Owns, Completed, Records
<1> QED
  BY StartInvariance, <1>1, PTL DEF Spec, NoEffectAfterAnAnswer
=============================================================================
