------------------------ MODULE AutonomousContinueProofs ------------------------
(***************************************************************************)
(* What POST /agent/autonomous/continue guarantees to the requests that    *)
(* reply to one paused conversation, for any number of requests, keys and  *)
(* replies, any lease and TTL, and any number of faults.                   *)
(***************************************************************************)
EXTENDS AutonomousContinue, TLAPS

-----------------------------------------------------------------------------
(***************************************************************************)
(* The invariant                                                           *)
(***************************************************************************)
\* r is the outcome, and a made the reply that it answers.
Answers(r, a) == r \in outcomes /\ reply[r.author] = reply[a]

\* A claim of the row is live work of the reply it is bound to, and a
\* tombstone is nobody's.
Tidy(row) ==
    /\ row.token # None => row.state = "in_flight" /\ row.outcome = "none"
    /\ row.state = "absent" => row.outcome = "none"

\* One outcome is journaled, by the owner of the claim; the row holds it
\* until it is purged, and is then never filled again.
PauseIsJournal ==
    /\ Tidy(pause)
    /\ pause.token # None => pause.fingerprint = reply[pause.token]
    /\ outcomes # {} => pause.outcome = "completed" \/ pause.state = "absent"
    /\ pause.outcome = "completed" =>
           /\ pause.response \in outcomes
           /\ pause.fingerprint = reply[pause.response.author]
    /\ \A r, s \in outcomes : r = s

\* A receipt is owned by a request that made its reply, and a completed one
\* records the outcome for those who did.
Recorded(row) ==
    /\ row.owner # None => row.binding = reply[row.owner]
    /\ row.state = "completed" =>
           row.response \in outcomes /\ row.binding = reply[row.response.author]

\* A request that may have dispatched, or is about to.
Acting(a) == a \in dispatched \/ pc[a] \in {"dispatching", "marked"}

\* What such a request leaves of the pause: its own claim, no longer clean, or
\* nothing that anyone can claim.
Burnt(a) ==
    \/ pause.state = "in_flight" /\ pause.outcome = "none" /\ pause.token = a /\ pause.progress
    \/ pause.outcome = "ambiguous"
    \/ pause.outcome = "completed" /\ pause.response.author = a
    \/ pause.state = "absent"

ActsAlone ==
    /\ \A a \in Attempts : Acting(a) => Burnt(a)
    /\ \A a, b \in Attempts : Acting(a) /\ Acting(b) => a = b
    /\ \A a \in Attempts : pc[a] \in {"dispatching", "marked"} => outcomes = {}
    /\ \A a \in dispatched, r \in outcomes : r.author = a

BeforeTheOutcome == {"idle", "arrived", "turned", "claiming", "claimed", "finishing"} \cup Running

\* What a request has in hand when it answers, or goes back to, is the outcome;
\* what it is about to journal is its own.
AttemptInv(a) ==
    /\ got[a] # None => Answers(got[a], a)
    /\ pc[a] \in {"completing", "checking", "reconciling"} => Answers(said[a], a)
    /\ "committed" \in flags[a] => Answers(said[a], a)
    /\ pc[a] \in BeforeTheOutcome => "committed" \notin flags[a] /\ late[a] # "outcome"
    /\ pc[a] = "finishing" \/ late[a] = "outcome" => said[a] \in {Final(a), NextPause(a)}
    /\ late[a] = "outcome" => pc[a] \in {"undoing", "consuming", "releasing", "over"}

ContinueInv ==
    /\ TypeOK
    /\ PauseIsJournal
    /\ \A k \in Keys : Recorded(receipts[k])
    /\ ActsAlone
    /\ \A a \in Attempts : AttemptInv(a)

-----------------------------------------------------------------------------
(***************************************************************************)
(* What a transaction on the pause leaves                                  *)
(***************************************************************************)
\* What a transaction of request a, with the reply f, may make of the row,
\* finish() and handoff() aside: it claims for itself only, an outcome stays
\* until it is purged, and what has progressed is never offered again.
Moves(row, new, a, f) ==
    /\ new \in P!Pause /\ Tidy(new)
    /\ row.state = "absent" => new.state = "absent"
    /\ row.outcome = "completed" => new = row \/ new.state = "absent"
    /\ new.outcome = "completed" => new = row
    /\ new.token # None => \/ new.token = row.token /\ new.fingerprint = row.fingerprint
                           \/ new.token = a /\ new.fingerprint = f
    /\ row.token # None /\ row.progress =>
           \/ new.token = row.token /\ new.progress
           \/ new.outcome = "ambiguous"
           \/ new.state = "absent"
    /\ row.outcome = "ambiguous" => new.outcome = "ambiguous" \/ new.state = "absent"

\* A row that is left alone, or deleted, moves.
LEMMA Stays ==
    ASSUME NEW row \in P!Pause, Tidy(row), NEW a, NEW f
    PROVE  Moves(row, row, a, f) /\ Moves(row, P!NoPause, a, f)
<1>1. /\ P!NoPause \in P!Pause /\ P!NoPause.state = "absent" /\ P!NoPause.outcome = "none"
      /\ P!NoPause.token = None
  BY DEF P!NoPause, P!Pause, P!NoLease
<1> QED
  BY <1>1 DEF Moves, Tidy

\* Two moves of one request are a move.
LEMMA MovesCompose ==
    ASSUME NEW row \in P!Pause, NEW mid, NEW new, NEW a, NEW f,
           Tidy(row), Moves(row, mid, a, f), Moves(mid, new, a, f)
    PROVE  Moves(row, new, a, f)
BY DEF Moves, Tidy

\* The owner of a claim holds its token, and the conversation has no outcome.
LEMMA OwnerHolds ==
    ASSUME NEW row \in P!Pause, NEW a \in Attempts, NEW t \in Nat, P!Owns(row, a, t)
    PROVE  row.state = "in_flight" /\ row.outcome = "none" /\ row.token = a /\ a # None
BY NoneAssumption DEF P!Owns

\* A row whose lease is moved is the same row.
LEMMA LeaseMoves ==
    ASSUME NEW row \in P!Pause, Tidy(row), NEW a, NEW f, NEW l \in Nat, NEW e \in Nat,
           row.outcome = "none", NEW new,
           new = [row EXCEPT !.lease = l, !.expires = e]
    PROVE  Moves(row, new, a, f)
<1>1. /\ new \in P!Pause /\ new.token = row.token /\ new.progress = row.progress
      /\ new.state = row.state /\ new.outcome = row.outcome
      /\ new.fingerprint = row.fingerprint
  BY DEF P!Pause
<1> QED
  BY <1>1 DEF Moves, Tidy

\* A tombstone of a claim whose effects are in doubt.
LEMMA FenceMoves ==
    ASSUME NEW row \in P!Pause, Tidy(row), NEW a, NEW f, NEW g \in Replies \cup {None},
           row.state = "in_flight", row.outcome = "none", NEW new,
           new = [P!Fenced(row) EXCEPT !.fingerprint = g]
    PROVE  Moves(row, new, a, f)
<1>1. /\ new \in P!Pause /\ new.token = None /\ new.outcome = "ambiguous"
      /\ new.state = "in_flight"
  BY DEF P!Pause, P!Fenced, P!NoLease
<1> QED
  BY <1>1 DEF Moves, Tidy

\* A clean claim that returns to paused.
LEMMA ReturnMoves ==
    ASSUME NEW row \in P!Pause, Tidy(row), NEW a, NEW f, NEW g \in Replies \cup {None},
           row.state = "in_flight", row.outcome = "none", ~ row.progress, NEW new,
           new = [row EXCEPT !.state = "paused", !.token = None, !.lease = P!NoLease,
                             !.fingerprint = g]
    PROVE  Moves(row, new, a, f)
<1>1. /\ new \in P!Pause /\ new.token = None /\ new.outcome = "none" /\ new.state = "paused"
  BY DEF P!Pause, P!NoLease
<1> QED
  BY <1>1 DEF Moves, Tidy

\* The sweep.
LEMMA SweepMoves ==
    ASSUME NEW row \in P!Pause, Tidy(row), NEW a, NEW f, NEW t \in Nat,
           NEW new, new = P!SweptRow(row, t)
    PROVE  Moves(row, new, a, f)
<1> DEFINE mid == P!ReapRow(row, t)
<1>1. \/ mid = row
      \/ /\ P!Stale(row, t) /\ P!Replayable(row)
         /\ mid = [row EXCEPT !.state = "paused", !.token = None, !.lease = P!NoLease]
      \/ P!Stale(row, t) /\ mid = P!Fenced(row)
  BY Zenon DEF P!ReapRow
<1>2. P!Stale(row, t) => row.state = "in_flight" /\ row.outcome = "none"
  BY DEF P!Stale
<1>3. P!Replayable(row) => ~ row.progress
  BY DEF P!Replayable
<1>4. row.fingerprint \in Replies \cup {None}
  BY DEF P!Pause
<1>5. [row EXCEPT !.state = "paused", !.token = None, !.lease = P!NoLease]
        = [row EXCEPT !.state = "paused", !.token = None, !.lease = P!NoLease,
                      !.fingerprint = row.fingerprint]
  BY DEF P!Pause
<1>6. P!Fenced(row) = [P!Fenced(row) EXCEPT !.fingerprint = row.fingerprint]
  BY DEF P!Pause, P!Fenced
<1>7. Moves(row, mid, a, f)
  <2>1. CASE mid = row
    BY <2>1, Stays
  <2>2. CASE /\ P!Stale(row, t) /\ P!Replayable(row)
             /\ mid = [row EXCEPT !.state = "paused", !.token = None, !.lease = P!NoLease]
    BY <2>2, <1>2, <1>3, <1>4, <1>5, ReturnMoves
  <2>3. CASE P!Stale(row, t) /\ mid = P!Fenced(row)
    BY <2>3, <1>2, <1>4, <1>6, FenceMoves
  <2> HIDE DEF mid
  <2> QED
    BY <1>1, <2>1, <2>2, <2>3
<1>8. new = P!NoPause \/ new = mid
  BY DEF P!SweptRow, P!PurgeRow
<1> HIDE DEF mid
<1>9. mid \in P!Pause /\ Tidy(mid)
  BY <1>7 DEF Moves
<1>10. Moves(mid, new, a, f)
  BY <1>8, <1>9, Stays
<1> QED
  BY <1>7, <1>10, MovesCompose

\* A row that is claimed.
LEMMA ClaimedTyped ==
    ASSUME NEW row \in P!Pause, NEW a \in Attempts, NEW f \in Replies, NEW t \in Nat,
           t + OperationLeaseSeconds \in Nat, P!ClaimedExpiry(t) \in Nat
    PROVE  /\ P!ClaimedRow(row, a, f, t) \in P!Pause
           /\ P!ClaimedRow(row, a, f, t).token = a
           /\ P!ClaimedRow(row, a, f, t).outcome = row.outcome
           /\ P!ClaimedRow(row, a, f, t).state = "in_flight"
           /\ P!ClaimedRow(row, a, f, t).fingerprint = f
<1> DEFINE new == P!ClaimedRow(row, a, f, t)
<1>1. new \in P!Pause
  BY DEF P!ClaimedRow, P!Pause
<1>2. new.token = a /\ new.outcome = row.outcome /\ new.state = "in_flight" /\ new.fingerprint = f
  BY DEF P!ClaimedRow, P!Pause
<1> QED
  BY <1>1, <1>2

\* A claim moves a row that is not marked.
LEMMA ClaimLeaves ==
    ASSUME NEW row \in P!Pause, Tidy(row), NEW a \in Attempts, NEW f \in Replies,
           row.state # "absent", row.outcome = "none", row.token = None \/ ~ row.progress,
           NEW new \in P!Pause, new.token = a, new.outcome = "none",
           new.state = "in_flight", new.fingerprint = f
    PROVE  Moves(row, new, a, f)
<1>1. Tidy(new)
  BY DEF Tidy
<1> QED
  BY <1>1 DEF Moves

\* claim() of a row that may be claimed.
LEMMA ClaimedMoves ==
    ASSUME NEW row \in P!Pause, Tidy(row), NEW a \in Attempts, NEW f \in Replies,
           NEW t \in Nat, row.state # "absent", row.outcome = "none",
           ~ (row.state = "in_flight" /\ ~ P!Replayable(row))
    PROVE  Moves(row, P!ClaimedRow(row, a, f, t), a, f)
<1> DEFINE new == P!ClaimedRow(row, a, f, t)
<1>1. t + OperationLeaseSeconds \in Nat /\ P!ClaimedExpiry(t) \in Nat
  BY LimitsAssumption DEF P!ClaimedExpiry
<1>2. /\ new \in P!Pause /\ new.token = a /\ new.outcome = row.outcome
      /\ new.state = "in_flight" /\ new.fingerprint = f
  BY <1>1, ClaimedTyped
<1>3. row.token = None \/ ~ row.progress
  BY DEF P!Replayable, Tidy
<1> HIDE DEF new
<1>4. new.outcome = "none"
  BY <1>2
<1>5. Moves(row, new, a, f)
  BY <1>2, <1>3, <1>4, ClaimLeaves
<1> QED
  BY Zenon, <1>5 DEF new

\* claim(), for the row of an owned conversation.
LEMMA ClaimMoves ==
    ASSUME NEW row \in P!Pause, Tidy(row), NEW a \in Attempts, NEW f \in Replies,
           NEW t \in Nat, NEW new, new = P!ClaimRow(row, TRUE, a, f, t)
    PROVE  /\ Moves(row, new, a, f)
           /\ P!ClaimAnswer(row, TRUE, f, t) = "completed" =>
                  row.outcome = "completed" /\ row.fingerprint = f
<1> DEFINE verdict == P!ClaimAnswer(row, TRUE, f, t)
<1>1. \/ row.state = "absent" /\ verdict = "missing"
      \/ row.state # "absent" /\ ~ P!Active(row) /\ verdict = P!TombstoneAnswer(row, f, t)
      \/ row.state # "absent" /\ P!Active(row) /\ verdict = P!PauseAnswer(row, f, t)
  BY Zenon DEF P!ClaimAnswer
<1>2. \/ P!TombstoneAnswer(row, f, t) \in {"expired", "ambiguous", "payload_mismatch"}
      \/ /\ P!TombstoneAnswer(row, f, t) = "completed"
         /\ row.outcome = "completed" /\ row.fingerprint = f
  BY Zenon DEF P!TombstoneAnswer
<1>3. /\ P!PauseAnswer(row, f, t) \in
            {"payload_mismatch", "in_progress", "expired", "fenced", "claimed"}
      /\ P!PauseAnswer(row, f, t) = "fenced" => row.state = "in_flight"
      /\ P!PauseAnswer(row, f, t) = "claimed" =>
             ~ (row.state = "in_flight" /\ ~ P!Replayable(row))
  BY Zenon DEF P!PauseAnswer
<1>4. P!Active(row) <=> row.state # "absent" /\ row.outcome = "none"
  BY DEF P!Active
<1>5. /\ verdict = "completed" => row.outcome = "completed" /\ row.fingerprint = f
      /\ verdict = "fenced" => row.state = "in_flight" /\ row.outcome = "none"
      /\ verdict = "claimed" => /\ row.state # "absent" /\ row.outcome = "none"
                                /\ ~ (row.state = "in_flight" /\ ~ P!Replayable(row))
  <2> HIDE DEF verdict
  <2> QED
    BY <1>1, <1>2, <1>3, <1>4
<1>6. \/ verdict = "claimed" /\ new = P!ClaimedRow(row, a, f, t)
      \/ /\ verdict = "fenced"
         /\ new = [P!Fenced(row) EXCEPT !.fingerprint = IF @ = None THEN f ELSE @]
      \/ new = P!NoPause
      \/ new = row
  BY Zenon DEF P!ClaimRow
<1> HIDE DEF verdict
<1>7. ASSUME verdict = "claimed", new = P!ClaimedRow(row, a, f, t)
      PROVE  Moves(row, new, a, f)
  <2>1. Moves(row, P!ClaimedRow(row, a, f, t), a, f)
    BY <1>5, <1>7, ClaimedMoves
  <2> QED
    BY Zenon, <1>7, <2>1
<1>8. ASSUME verdict = "fenced",
             new = [P!Fenced(row) EXCEPT !.fingerprint = IF @ = None THEN f ELSE @]
      PROVE  Moves(row, new, a, f)
  <2>1. P!Fenced(row) \in P!Pause
    BY DEF P!Fenced, P!Pause, P!NoLease
  <2>2. PICK g \in Replies \cup {None} : new = [P!Fenced(row) EXCEPT !.fingerprint = g]
    BY <1>8, <2>1 DEF P!Pause
  <2> QED
    BY <1>5, <1>8, <2>2, FenceMoves
<1>9. ASSUME new = P!NoPause \/ new = row PROVE Moves(row, new, a, f)
  BY <1>9, Stays
<1>10. Moves(row, new, a, f)
  BY <1>6, <1>7, <1>8, <1>9
<1> QED
  BY <1>5, <1>10 DEF verdict

\* The calls of an owner that is not done.
LEMMA OwnerMoves ==
    ASSUME NEW row \in P!Pause, Tidy(row), NEW a \in Attempts, NEW f \in Replies,
           NEW t \in Nat
    PROVE  /\ Moves(row, P!RenewRow(row, a, t), a, f)
           /\ Moves(row, P!MarkProgressRow(row, a, t), a, f)
           /\ Moves(row, P!CancelRow(row, a, t), a, f)
           /\ Moves(row, P!ConsumeRow(row, a, t), a, f)
           /\ P!Owns(row, a, t) => /\ P!MarkProgressRow(row, a, t).token = a
                                   /\ P!MarkProgressRow(row, a, t).progress
<1>1. CASE ~ P!Owns(row, a, t)
  BY <1>1, Stays DEF P!RenewRow, P!MarkProgressRow, P!CancelRow, P!MayCancel, P!ConsumeRow
<1>2. CASE P!Owns(row, a, t)
  <2>1. row.state = "in_flight" /\ row.outcome = "none" /\ row.token = a
    BY <1>2, OwnerHolds
  <2>2. /\ t + OperationLeaseSeconds \in Nat /\ P!ClaimedExpiry(t) \in Nat
        /\ P!LeaseLive(row, t)
    BY <1>2, LimitsAssumption DEF P!ClaimedExpiry, P!Owns
  <2>3. row.lease \in Nat /\ row.expires \in Nat
    BY <2>2 DEF P!LeaseLive, P!Pause
  <2>4. Moves(row, P!RenewRow(row, a, t), a, f)
    <3> DEFINE l == P!Later(row.lease, t + OperationLeaseSeconds)
               e == P!Later(row.expires, P!ClaimedExpiry(t))
    <3>1. l \in Nat /\ e \in Nat
      BY <2>2, <2>3 DEF P!Later
    <3>2. P!RenewRow(row, a, t) = [row EXCEPT !.lease = l, !.expires = e]
      BY <1>2 DEF P!RenewRow
    <3> HIDE DEF l, e
    <3> DEFINE new == P!RenewRow(row, a, t)
    <3> HIDE DEF new
    <3>3. new = [row EXCEPT !.lease = l, !.expires = e]
      BY <3>2 DEF new
    <3>4. Moves(row, new, a, f)
      BY <2>1, <3>1, <3>3, LeaseMoves
    <3> QED
      BY <3>4 DEF new
  <2>5. /\ Moves(row, P!MarkProgressRow(row, a, t), a, f)
        /\ P!MarkProgressRow(row, a, t).token = a
        /\ P!MarkProgressRow(row, a, t).progress
    <3> DEFINE new == P!MarkProgressRow(row, a, t)
    <3>1. new = [row EXCEPT !.progress = TRUE, !.lease = t + OperationLeaseSeconds,
                            !.expires = P!ClaimedExpiry(t)]
      BY <1>2 DEF P!MarkProgressRow
    <3> HIDE DEF new
    <3>2. /\ new \in P!Pause /\ new.token = row.token /\ new.progress
          /\ new.state = row.state /\ new.outcome = row.outcome
          /\ new.fingerprint = row.fingerprint
      BY <2>2, <3>1 DEF P!Pause
    <3>3. Moves(row, new, a, f)
      BY <2>1, <3>2 DEF Moves, Tidy
    <3> QED
      BY <2>1, <3>2, <3>3 DEF new
  <2>6. Moves(row, P!CancelRow(row, a, t), a, f)
    <3>1. CASE row.progress
      BY <3>1, Stays DEF P!CancelRow, P!MayCancel
    <3>2. CASE ~ row.progress
      <4>1. P!CancelRow(row, a, t) = [row EXCEPT !.state = "paused", !.token = None,
                                          !.lease = P!NoLease, !.fingerprint = None]
        BY <1>2, <3>2 DEF P!CancelRow, P!MayCancel
      <4> QED
        BY <2>1, <3>2, <4>1, ReturnMoves
    <3> QED
      BY <3>1, <3>2
  <2>7. Moves(row, P!ConsumeRow(row, a, t), a, f)
    BY <1>2, Stays DEF P!ConsumeRow
  <2> QED
    BY <2>4, <2>5, <2>6, <2>7
<1> QED
  BY <1>1, <1>2

\* DELETE and eviction.
LEMMA DiscardMoves ==
    ASSUME NEW row \in P!Pause, Tidy(row), NEW a, NEW f, NEW t \in Nat
    PROVE  Moves(row, P!DiscardRow(row, t), a, f)
<1> DEFINE mid == P!SweptRow(row, t)
<1>1. Moves(row, mid, a, f)
  BY SweepMoves
<1>2. P!DiscardRow(row, t) = P!NoPause \/ P!DiscardRow(row, t) = mid
  BY DEF P!DiscardRow
<1> HIDE DEF mid
<1>3. Moves(mid, P!DiscardRow(row, t), a, f)
  BY <1>1, <1>2, Stays DEF Moves
<1> QED
  BY <1>1, <1>3, MovesCompose

\* A row with the response of its owner.
Finished(row, r, t) ==
    [row EXCEPT !.token = None, !.lease = P!NoLease, !.progress = TRUE,
                !.outcome = "completed", !.response = r, !.expires = t + TtlSeconds]

\* finish() leaves a row that journals the outcome for the same reply.
LEMMA FinishedTyped ==
    ASSUME NEW row \in P!Pause, NEW r \in Responses, NEW t \in Nat
    PROVE  /\ Finished(row, r, t) \in P!Pause
           /\ Finished(row, r, t).token = None
           /\ Finished(row, r, t).outcome = "completed"
           /\ Finished(row, r, t).response = r
           /\ Finished(row, r, t).fingerprint = row.fingerprint
           /\ Finished(row, r, t).state = row.state
<1> DEFINE new == Finished(row, r, t)
<1>1. t + TtlSeconds \in Nat
  BY LimitsAssumption
<1>2. new \in P!Pause
  BY <1>1 DEF Finished, P!Pause, P!NoLease
<1>3. /\ new.token = None /\ new.outcome = "completed" /\ new.response = r
      /\ new.fingerprint = row.fingerprint /\ new.state = row.state
  BY DEF Finished, P!Pause
<1> QED
  BY <1>2, <1>3

\* finish() and handoff() journal the response of the owner.
LEMMA FinishLeaves ==
    ASSUME NEW row \in P!Pause, Tidy(row), NEW a \in Attempts, NEW r \in Responses,
           NEW t \in Nat, P!MayFinish(row, a, t), NEW new, new = P!FinishRow(row, a, r, t)
    PROVE  /\ row.state = "in_flight" /\ row.outcome = "none" /\ row.token = a /\ a # None
           /\ new \in P!Pause /\ Tidy(new)
           /\ new.token = None /\ new.outcome = "completed" /\ new.response = r
           /\ new.fingerprint = row.fingerprint
<1>1. row.state = "in_flight" /\ row.outcome = "none" /\ row.token = a /\ a # None
  BY OwnerHolds DEF P!MayFinish
<1>2. new = Finished(row, r, t)
  BY Zenon DEF P!FinishRow, Finished
<1>3. /\ new \in P!Pause /\ new.token = None /\ new.outcome = "completed"
      /\ new.response = r /\ new.fingerprint = row.fingerprint /\ new.state = row.state
  <2>1. /\ Finished(row, r, t) \in P!Pause
        /\ Finished(row, r, t).token = None /\ Finished(row, r, t).outcome = "completed"
        /\ Finished(row, r, t).response = r /\ Finished(row, r, t).state = row.state
        /\ Finished(row, r, t).fingerprint = row.fingerprint
    BY Zenon, FinishedTyped
  <2> QED
    BY Zenon, <1>2, <2>1
<1> QED
  BY <1>1, <1>3 DEF Tidy

-----------------------------------------------------------------------------
(***************************************************************************)
(* What a transaction on a receipt leaves                                  *)
(***************************************************************************)
\* A receipt stays one that records the outcome.
Keeps(row) == row \in R!Row /\ Recorded(row)

\* begin() binds the receipt to the reply of its owner, and replays the outcome
\* to the reply it is bound to.
LEMMA BeginKeeps ==
    ASSUME NEW row, Keeps(row), NEW a \in Attempts, reply[a] \in Replies, NEW t \in Nat
    PROVE  /\ Keeps(R!BeginRow(row, reply[a], a, t))
           /\ R!BeginAnswer(row, reply[a], t) = "replayed" =>
                  row.response \in Responses /\ Answers(row.response, a)
<1> DEFINE new == R!BeginRow(row, reply[a], a, t)
           verdict == R!BeginAnswer(row, reply[a], t)
<1>0. row \in R!Row /\ Recorded(row)
  BY DEF Keeps
<1>1. t + LeaseSeconds \in Nat
  BY LimitsAssumption
<1>2. /\ verdict = "claimed" /\ row.state # "absent" =>
             row.binding = reply[a] /\ R!Reclaimable(row, t)
      /\ verdict = "replayed" =>
             row.state = "completed" /\ row.binding = reply[a] /\ row.response # None
  BY Zenon DEF R!BeginAnswer
<1>3. R!Reclaimable(row, t) => row.state = "pending_v2"
  BY DEF R!Reclaimable
<1>4. \/ new = row
      \/ /\ verdict = "claimed" /\ row.state = "absent"
         /\ new = [state |-> "pending_v2", binding |-> reply[a], response |-> None,
                   owner |-> a, recovery |-> a, expires |-> t + LeaseSeconds]
      \/ /\ verdict = "claimed" /\ row.state # "absent"
         /\ new = [row EXCEPT !.owner = a, !.expires = t + LeaseSeconds]
  BY DEF R!BeginRow
<1> HIDE DEF verdict, new
<1>5. ASSUME verdict = "claimed", row.state = "absent",
             new = [state |-> "pending_v2", binding |-> reply[a], response |-> None,
                    owner |-> a, recovery |-> a, expires |-> t + LeaseSeconds]
      PROVE  Keeps(new)
  BY <1>1, <1>5 DEF Keeps, Recorded, R!Row, R!States
<1>6. ASSUME verdict = "claimed", row.state # "absent",
             new = [row EXCEPT !.owner = a, !.expires = t + LeaseSeconds]
      PROVE  Keeps(new)
  <2>1. /\ new \in R!Row /\ new.owner = a /\ new.binding = row.binding
        /\ new.state = row.state
    BY <1>0, <1>1, <1>6 DEF R!Row
  <2> QED
    BY <1>2, <1>3, <1>6, <2>1 DEF Keeps, Recorded
<1>7. Keeps(new)
  BY <1>4, <1>5, <1>6
<1>8. verdict = "replayed" => row.response \in Responses /\ Answers(row.response, a)
  BY <1>0, <1>2 DEF Recorded, Answers, R!Row
<1> QED
  BY <1>7, <1>8 DEF new, verdict

\* Renewing, marking and aborting record nothing.
LEMMA OwnersCallsKeep ==
    ASSUME NEW row, Keeps(row), NEW a \in Attempts, NEW t \in Nat
    PROVE  /\ Keeps(R!RenewRow(row, a, t))
           /\ Keeps(R!MarkEffectRow(row, a, t))
           /\ Keeps(R!AbortRow(row, a))
<1>0. row \in R!Row /\ Recorded(row)
  BY DEF Keeps
<1>1. Keeps(R!RenewRow(row, a, t))
  <2> DEFINE e == IF row.expires >= t + LeaseSeconds THEN row.expires ELSE t + LeaseSeconds
             new == R!RenewRow(row, a, t)
  <2>1. new = row \/ new = [row EXCEPT !.expires = e]
    BY DEF R!RenewRow
  <2>2. e \in Nat \cup {R!NoLease}
    BY <1>0, LimitsAssumption DEF R!Row
  <2> HIDE DEF e, new
  <2>3. CASE new = [row EXCEPT !.expires = e]
    <3>1. /\ new \in R!Row /\ new.state = row.state /\ new.owner = row.owner
          /\ new.binding = row.binding /\ new.response = row.response
      BY <1>0, <2>2, <2>3 DEF R!Row
    <3>2. Keeps(new)
      BY <1>0, <3>1 DEF Keeps, Recorded
    <3> QED
      BY <3>2 DEF new
  <2>4. CASE new = row
    BY <2>4 DEF new
  <2> QED
    BY <2>1, <2>3, <2>4
<1>2. Keeps(R!MarkEffectRow(row, a, t))
  <2> DEFINE new == R!MarkEffectRow(row, a, t)
  <2>1. \/ new = row
        \/ new = [row EXCEPT !.state = "effect_started_v2", !.expires = R!NoLease]
    BY DEF R!MarkEffectRow
  <2> HIDE DEF new
  <2>2. ASSUME new = [row EXCEPT !.state = "effect_started_v2", !.expires = R!NoLease]
        PROVE  Keeps(new)
    <3>1. /\ new \in R!Row /\ new.state = "effect_started_v2" /\ new.owner = row.owner
          /\ new.binding = row.binding
      BY <1>0, <2>2 DEF R!Row, R!States
    <3> QED
      BY <1>0, <3>1 DEF Keeps, Recorded
  <2>3. Keeps(new)
    BY <2>1, <2>2
  <2> QED
    BY <2>3 DEF new
<1>3. Keeps(R!AbortRow(row, a))
  <2> DEFINE new == R!AbortRow(row, a)
  <2>1. \/ new = row
        \/ new = R!NoRow
        \/ new = [row EXCEPT !.state = "ambiguous", !.owner = None, !.expires = R!NoLease]
    BY Zenon DEF R!AbortRow
  <2> HIDE DEF new
  <2>2. Keeps(R!NoRow)
    BY DEF R!NoRow, R!Row, R!States, Keeps, Recorded
  <2>3. ASSUME new = [row EXCEPT !.state = "ambiguous", !.owner = None, !.expires = R!NoLease]
        PROVE  Keeps(new)
    <3>1. new \in R!Row /\ new.state = "ambiguous" /\ new.owner = None
      BY <1>0, <2>3 DEF R!Row, R!States
    <3> QED
      BY <3>1 DEF Keeps, Recorded
  <2>4. Keeps(new)
    BY <2>1, <2>2, <2>3
  <2> QED
    BY <2>4 DEF new
<1> QED
  BY <1>1, <1>2, <1>3

\* complete() and reconcile_completed() record the outcome for the reply that the
\* receipt is bound to.
LEMMA OutcomeKeeps ==
    ASSUME NEW row, Keeps(row), NEW a \in Attempts, NEW t \in Nat,
           NEW r \in Responses, Answers(r, a)
    PROVE  /\ Keeps(R!CompleteRow(row, a, r, t))
           /\ Keeps(R!ReconcileRow(row, reply[a], r, TRUE))
<1>0. row \in R!Row /\ Recorded(row)
  BY DEF Keeps
<1>1. ASSUME row.binding = reply[a]
      PROVE  Keeps(R!CompletedRow(row, r))
  <2> DEFINE new == R!CompletedRow(row, r)
  <2>1. /\ new \in R!Row /\ new.response = r /\ new.owner = None
        /\ new.binding = row.binding
    BY <1>0 DEF R!Row, R!States, R!CompletedRow
  <2> HIDE DEF new
  <2>2. Keeps(new)
    BY <1>1, <2>1 DEF Keeps, Recorded, Answers
  <2> QED
    BY <2>2 DEF new
<1>2. R!MayWrite(row, a, t) => row.owner = a /\ a # None
  BY NoneAssumption DEF R!MayWrite
<1>3. R!MayWrite(row, a, t) => row.binding = reply[a]
  BY <1>0, <1>2 DEF Recorded
<1>4. Keeps(R!CompleteRow(row, a, r, t))
  BY <1>1, <1>3 DEF R!CompleteRow
<1>5. R!ReconcileAnswer(row, reply[a], r, TRUE) = "repaired" => row.binding = reply[a]
  BY Zenon DEF R!ReconcileAnswer
<1>6. Keeps(R!ReconcileRow(row, reply[a], r, TRUE))
  BY <1>1, <1>5 DEF R!ReconcileRow
<1> QED
  BY <1>4, <1>6

-----------------------------------------------------------------------------
(***************************************************************************)
(* One request acts                                                        *)
(***************************************************************************)
\* The types of what decides nothing about the outcome.
Rest ==
    /\ now \in Nat
    /\ receipts \in [Keys -> R!Row]
    /\ next \in [Attempts -> {"absent", "paused", "away"}]
    /\ errand \in [Attempts -> Errands]
    /\ flags \in [Attempts -> SUBSET Flags]
    /\ late \in [Attempts -> {"none", "abort", "outcome"}]
    /\ faults \in Nat

AtHandler == {"dispatching", "marked"}

\* What holds of the others keeps holding when the outcome stays.
LEMMA OthersKeep ==
    ASSUME ContinueInv, NEW b \in Attempts, outcomes \subseteq outcomes', reply' = reply,
           pc'[b] = pc[b], said'[b] = said[b], got'[b] = got[b], flags'[b] = flags[b],
           late'[b] = late[b]
    PROVE  AttemptInv(b)'
<1>1. AttemptInv(b)
  BY DEF ContinueInv
<1> QED
  BY <1>1 DEF AttemptInv, Answers

\* A receipt that records the outcome keeps recording it.
LEMMA RecordedKeeps ==
    ASSUME ContinueInv, outcomes \subseteq outcomes', reply' = reply,
           \A k \in Keys : receipts'[k] = receipts[k] \/ Keeps(receipts'[k])
    PROVE  \A k \in Keys : Recorded(receipts[k])'
<1> SUFFICES ASSUME NEW k \in Keys PROVE Recorded(receipts[k])'
  OBVIOUS
<1>1. Recorded(receipts'[k])
  BY DEF ContinueInv, Keeps
<1> QED
  BY <1>1 DEF Recorded

\* What a move of the pause leaves of the outcome and of those who act on it.
LEMMA PauseMoved ==
    ASSUME ContinueInv, NEW a, Moves(pause, pause', a, reply[a]),
           UNCHANGED <<reply, outcomes, dispatched>>,
           \A b \in Attempts : pc'[b] \in AtHandler => pc[b] \in AtHandler
    PROVE  PauseIsJournal' /\ ActsAlone'
<1>0. PauseIsJournal /\ ActsAlone /\ pause \in P!Pause
  BY DEF ContinueInv, TypeOK
<1>1. PauseIsJournal'
  BY <1>0 DEF PauseIsJournal, Moves, Tidy
<1>2. ASSUME NEW b \in Attempts, Acting(b)' PROVE Acting(b)
  BY <1>2 DEF Acting, AtHandler
<1>3. ASSUME NEW b \in Attempts, Burnt(b) PROVE Burnt(b)'
  <2>1. b # None
    BY NoneAssumption
  <2>2. CASE /\ pause.state = "in_flight" /\ pause.outcome = "none"
             /\ pause.token = b /\ pause.progress
    BY <2>1, <2>2, <1>0 DEF Moves, Burnt, Tidy
  <2>3. CASE pause.outcome \in {"ambiguous", "completed"} \/ pause.state = "absent"
    BY <1>3, <2>3, <1>0 DEF Moves, Burnt
  <2> QED
    BY <1>3, <2>2, <2>3 DEF Burnt
<1>4. ActsAlone'
  BY <1>0, <1>2, <1>3 DEF ActsAlone, AtHandler
<1> QED
  BY <1>1, <1>4

\* A step of request a keeps the invariant when what it leaves of the pause, of
\* the receipts and of the request itself does.
LEMMA OneActs ==
    ASSUME ContinueInv, TypeOK', NEW a \in Attempts,
           \A k \in Keys : receipts'[k] = receipts[k] \/ Keeps(receipts'[k]),
           Moves(pause, pause', a, reply[a]),
           UNCHANGED <<reply, outcomes, dispatched>>,
           \A b \in Attempts : b # a =>
               /\ pc'[b] = pc[b] /\ said'[b] = said[b] /\ got'[b] = got[b]
               /\ flags'[b] = flags[b] /\ late'[b] = late[b],
           pc'[a] \in AtHandler => pc[a] \in AtHandler,
           AttemptInv(a)'
    PROVE  ContinueInv'
<1>1. PauseIsJournal' /\ ActsAlone'
  BY PauseMoved
<1>2. \A k \in Keys : Recorded(receipts[k])'
  BY RecordedKeeps
<1>3. ASSUME NEW b \in Attempts, b # a PROVE AttemptInv(b)'
  BY <1>3, OthersKeep
<1> QED
  BY <1>1, <1>2, <1>3 DEF ContinueInv

\* What a step of request a does to receipts and pause, and leaves of the others.
Transacts(a) ==
    /\ Rest'
    /\ \A k \in Keys : receipts'[k] = receipts[k] \/ Keeps(receipts'[k])
    /\ Moves(pause, pause', a, reply[a])
    /\ UNCHANGED <<key, reply, dispatched, outcomes>>
    /\ \A b \in Attempts : b # a => flags'[b] = flags[b] /\ late'[b] = late[b]
    /\ "committed" \in flags'[a] => "committed" \in flags[a]

\* A request goes on and has nothing new in hand.
LEMMA Goes ==
    ASSUME ContinueInv, NEW a \in Attempts, Transacts(a), UNCHANGED <<said, got>>,
           NEW where \in PcStates \ {"finishing"}, Goto(a, where),
           where \in {"completing", "checking", "reconciling"} => Answers(said[a], a),
           where \in BeforeTheOutcome => pc[a] \in BeforeTheOutcome,
           late'[a] = "outcome" =>
               late[a] = "outcome" /\ where \in {"undoing", "consuming", "releasing", "over"},
           where \in AtHandler => pc[a] \in AtHandler
    PROVE  ContinueInv'
<1>0. TypeOK /\ AttemptInv(a)
  BY DEF ContinueInv
<1>1. TypeOK'
  BY <1>0 DEF TypeOK, Transacts, Rest, Goto, Moves
<1>2. pc' = [pc EXCEPT ![a] = where] /\ pc'[a] = where
  BY <1>0 DEF TypeOK, Goto
<1>3. AttemptInv(a)'
  BY <1>0, <1>2 DEF AttemptInv, Answers, Transacts
<1>4. \A b \in Attempts : b # a => pc'[b] = pc[b]
  BY <1>0, <1>2 DEF TypeOK
<1> QED
  BY <1>1, <1>2, <1>3, <1>4, OneActs DEF Transacts

\* A request finds a stored response and is about to check it.
LEMMA Finds ==
    ASSUME ContinueInv, NEW a \in Attempts, Transacts(a), UNCHANGED <<late, got>>,
           NEW r \in Responses, Answers(r, a), Say(a, r), Goto(a, "checking"),
           pc[a] # "finishing", late[a] # "outcome"
    PROVE  ContinueInv'
<1>0. TypeOK /\ AttemptInv(a)
  BY DEF ContinueInv
<1>1. TypeOK'
  BY <1>0 DEF TypeOK, Transacts, Rest, Goto, Say, Moves, PcStates
<1>2. pc'[a] = "checking" /\ said'[a] = r
  BY <1>0 DEF TypeOK, Goto, Say
<1>3. AttemptInv(a)'
  BY <1>0, <1>2 DEF AttemptInv, Answers, Transacts, BeforeTheOutcome, Running
<1>4. \A b \in Attempts : b # a => pc'[b] = pc[b] /\ said'[b] = said[b]
  BY <1>0 DEF TypeOK, Goto, Say
<1> QED
  BY <1>1, <1>2, <1>3, <1>4, OneActs DEF Transacts, AtHandler

\* A request answers with what it has in hand.
LEMMA Gives ==
    ASSUME ContinueInv, NEW a \in Attempts, Transacts(a), UNCHANGED <<late, said>>,
           pc[a] \in {"completing", "checking", "reconciling"}, Return(a, said[a])
    PROVE  ContinueInv'
<1>0. TypeOK /\ AttemptInv(a)
  BY DEF ContinueInv
<1>1. TypeOK'
  BY <1>0 DEF TypeOK, Transacts, Rest, Goto, Return, Moves, PcStates
<1>2. pc'[a] = "over" /\ got'[a] = said[a] /\ Answers(said[a], a)
  BY <1>0 DEF TypeOK, Goto, Return, AttemptInv
<1>3. AttemptInv(a)'
  BY <1>0, <1>2 DEF AttemptInv, Answers, Transacts, BeforeTheOutcome, Running
<1>4. \A b \in Attempts : b # a => pc'[b] = pc[b] /\ got'[b] = got[b]
  BY <1>0 DEF TypeOK, Goto, Return
<1> QED
  BY <1>1, <1>2, <1>3, <1>4, OneActs DEF Transacts, AtHandler

\* A step that touches no row at all.
LEMMA Waits ==
    ASSUME ContinueInv, NEW a \in Attempts, Rest',
           UNCHANGED <<receipts, pause, key, reply, dispatched, outcomes>>,
           \A b \in Attempts : b # a => flags'[b] = flags[b] /\ late'[b] = late[b],
           "committed" \in flags'[a] => "committed" \in flags[a]
    PROVE  Transacts(a)
<1>1. pause \in P!Pause /\ Tidy(pause)
  BY DEF ContinueInv, TypeOK, PauseIsJournal
<1>2. Moves(pause, pause', a, reply[a])
  BY <1>1, Stays
<1> QED
  BY <1>2 DEF Transacts

\* A step that writes the receipt of its key.
LEMMA Writes ==
    ASSUME ContinueInv, NEW a \in Attempts, NEW row, Keeps(row), Write(a, row),
           UNCHANGED <<now, pause, next, key, reply, dispatched, outcomes, late>>,
           errand' \in [Attempts -> Errands], faults' \in Nat,
           flags' \in [Attempts -> SUBSET Flags],
           \A b \in Attempts : b # a => flags'[b] = flags[b],
           "committed" \in flags'[a] => "committed" \in flags[a]
    PROVE  Transacts(a)
<1>1. pause \in P!Pause /\ Tidy(pause) /\ TypeOK
  BY DEF ContinueInv, TypeOK, PauseIsJournal
<1>2. Moves(pause, pause', a, reply[a])
  BY <1>1, Stays
<1>3. /\ receipts' \in [Keys -> R!Row]
      /\ \A k \in Keys : receipts'[k] = receipts[k] \/ Keeps(receipts'[k])
  BY <1>1 DEF TypeOK, Write, Keeps
<1>4. Rest'
  BY <1>1, <1>3 DEF TypeOK, Rest
<1> QED
  BY <1>2, <1>3, <1>4 DEF Transacts

\* A step that moves the pause.
LEMMA Touches ==
    ASSUME ContinueInv, NEW a \in Attempts, Moves(pause, pause', a, reply[a]),
           UNCHANGED <<now, receipts, next, key, reply, dispatched, outcomes, late>>,
           errand' \in [Attempts -> Errands], faults' \in Nat,
           flags' \in [Attempts -> SUBSET Flags],
           \A b \in Attempts : b # a => flags'[b] = flags[b],
           "committed" \in flags'[a] => "committed" \in flags[a]
    PROVE  Transacts(a)
<1>1. Rest'
  BY DEF ContinueInv, TypeOK, Rest
<1> QED
  BY <1>1 DEF Transacts

-----------------------------------------------------------------------------
(***************************************************************************)
(* The steps                                                               *)
(***************************************************************************)
\* What a request and its receipt and pause look like in an invariant state.
LEMMA InHand ==
    ASSUME ContinueInv, NEW a \in Attempts
    PROVE  /\ TypeOK /\ AttemptInv(a) /\ now \in Nat /\ reply[a] \in Replies
           /\ key[a] \in Keys /\ Keeps(Receipt(a))
           /\ pause \in P!Pause /\ Tidy(pause) /\ PauseIsJournal
           /\ pc[a] \in {"completing", "checking", "reconciling"} =>
                  said[a] \in Responses /\ Answers(said[a], a)
           /\ pause.outcome = "completed" => pause.response \in Responses
<1>1. TypeOK /\ AttemptInv(a) /\ PauseIsJournal /\ \A k \in Keys : Recorded(receipts[k])
  BY DEF ContinueInv
<1>2. outcomes \subseteq Responses
  BY <1>1 DEF TypeOK
<1> QED
  BY <1>1, <1>2 DEF TypeOK, PauseIsJournal, Keeps, Receipt, AttemptInv, Answers

\* The outcome in the row is the outcome for those who made its reply.
LEMMA OutcomeAnswers ==
    ASSUME ContinueInv, NEW a \in Attempts, NEW row \in {pause, pause'},
           Moves(pause, pause', a, reply[a]), OutcomeFor(row, a)
    PROVE  row.response \in Responses /\ Answers(row.response, a)
<1>1. row = pause /\ pause.outcome = "completed" /\ pause.fingerprint = reply[a]
  BY DEF OutcomeFor, Moves
<1>2. PauseIsJournal /\ outcomes \subseteq Responses
  BY DEF ContinueInv, TypeOK
<1> QED
  BY <1>1, <1>2 DEF PauseIsJournal, Answers

\* Until a receipt and a claim are held: owned, begin, claim, and what a request
\* that is turned away may find.
LEMMA EntryKeeps ==
    ASSUME ContinueInv, NEW a \in Attempts,
           \/ Arrive(a) \/ Begin(a) \/ RecoverOutcome(a) \/ Check(a) \/ Reconcile(a)
           \/ Claim(a) \/ ClaimFails(a) \/ Reject(a) \/ Terminate(a) \/ Resume(a)
    PROVE  ContinueInv'
<1> USE DEF PcStates, BeforeTheOutcome, Running, AtHandler
<1>0. /\ TypeOK /\ AttemptInv(a) /\ now \in Nat /\ reply[a] \in Replies
      /\ key[a] \in Keys /\ Keeps(Receipt(a))
      /\ pause \in P!Pause /\ Tidy(pause) /\ PauseIsJournal
      /\ pc[a] \in {"completing", "checking", "reconciling"} =>
             said[a] \in Responses /\ Answers(said[a], a)
      /\ pause.outcome = "completed" => pause.response \in Responses
  BY InHand
<1>1. CASE Arrive(a)
  <2>1. /\ Transacts(a) /\ UNCHANGED <<said, got, late>> /\ pc[a] = "idle"
    BY <1>0, <1>1, Waits DEF Arrive, TypeOK, Rest
  <2>2. PICK where \in {"over", "arrived"} : Goto(a, where)
    BY <1>1 DEF Arrive
  <2> QED
    BY <1>0, <2>1, <2>2, Goes DEF AttemptInv
<1>2. CASE Begin(a)
  <2> DEFINE verdict == R!BeginAnswer(Receipt(a), reply[a], now)
  <2>1. /\ Keeps(R!BeginRow(Receipt(a), reply[a], a, now))
        /\ verdict = "replayed" =>
               Receipt(a).response \in Responses /\ Answers(Receipt(a).response, a)
    BY <1>0, BeginKeeps
  <2>2. /\ Write(a, R!BeginRow(Receipt(a), reply[a], a, now)) /\ pc[a] = "arrived"
        /\ UNCHANGED <<now, pause, next, key, reply, flags, late, dispatched, got, outcomes,
                       faults>>
    BY <1>2 DEF Begin
  <2>3. \/ verdict = "replayed" /\ Validate(a, Receipt(a).response, "return")
        \/ /\ UNCHANGED <<said, errand>>
           /\ Goto(a, "claiming") \/ Goto(a, "turned") \/ Goto(a, "over")
    BY <1>2, Zenon DEF Begin
  <2> HIDE DEF verdict
  <2>4. Transacts(a)
    <3>1. errand' \in [Attempts -> Errands]
      BY <1>0, <2>3 DEF TypeOK, Errands, Validate
    <3> QED
      BY <1>0, <2>1, <2>2, <3>1, Writes DEF TypeOK
  <2>5. CASE verdict = "replayed" /\ Validate(a, Receipt(a).response, "return")
    BY <1>0, <2>1, <2>2, <2>4, <2>5, Finds DEF Validate, AttemptInv
  <2>6. CASE /\ UNCHANGED <<said, errand>>
             /\ Goto(a, "claiming") \/ Goto(a, "turned") \/ Goto(a, "over")
    <3>1. PICK where \in {"claiming", "turned", "over"} : Goto(a, where)
      BY <2>6
    <3> QED
      BY <1>0, <2>2, <2>4, <2>6, <3>1, Goes DEF AttemptInv
  <2> QED
    BY <2>3, <2>5, <2>6
<1>3. CASE RecoverOutcome(a)
  <2>1. /\ Moves(pause, pause', a, reply[a]) /\ pc[a] \in {"turned", "recovering"}
        /\ UNCHANGED <<now, receipts, next, key, reply, flags, late, dispatched, got, outcomes,
                       faults>>
    BY <1>0, <1>3, SweepMoves DEF RecoverOutcome
  <2>2. \/ /\ OutcomeFor(pause', a) /\ Say(a, pause'.response) /\ Goto(a, "checking")
           /\ errand' = [errand EXCEPT ![a] = "reconcile"]
        \/ UNCHANGED <<said, errand>> /\ (Goto(a, "over") \/ Goto(a, "rechecking"))
    BY <1>3, Zenon DEF RecoverOutcome, Validate
  <2>3. Transacts(a)
    <3>1. errand' \in [Attempts -> Errands]
      BY <1>0, <2>2 DEF TypeOK, Errands
    <3> QED
      BY <1>0, <2>1, <3>1, Touches DEF TypeOK
  <2>4. ASSUME OutcomeFor(pause', a), Say(a, pause'.response), Goto(a, "checking")
        PROVE  ContinueInv'
    <3>1. pause'.response \in Responses /\ Answers(pause'.response, a)
      BY <2>1, <2>4, OutcomeAnswers
    <3> QED
      BY <1>0, <2>1, <2>3, <2>4, <3>1, Finds DEF AttemptInv
  <2>5. ASSUME UNCHANGED <<said, errand>>, Goto(a, "over") \/ Goto(a, "rechecking")
        PROVE  ContinueInv'
    <3>1. PICK where \in {"over", "rechecking"} : Goto(a, where)
      BY <2>5
    <3> QED
      BY <1>0, <2>1, <2>3, <2>5, <3>1, Goes DEF AttemptInv
  <2> QED
    BY <2>2, <2>4, <2>5
<1>4. CASE Check(a)
  <2>1. Transacts(a) /\ pc[a] = "checking" /\ UNCHANGED <<said, late>>
    BY <1>0, <1>4, Waits DEF Check, TypeOK, Rest
  <2>2. \/ Return(a, said[a])
        \/ UNCHANGED got /\ (Goto(a, "over") \/ Goto(a, "completing") \/ Goto(a, "reconciling"))
    BY <1>4, Zenon DEF Check
  <2>3. CASE Return(a, said[a])
    BY <2>1, <2>3, Gives
  <2>4. ASSUME UNCHANGED got,
               Goto(a, "over") \/ Goto(a, "completing") \/ Goto(a, "reconciling")
        PROVE  ContinueInv'
    <3>1. PICK where \in {"over", "completing", "reconciling"} : Goto(a, where)
      BY <2>4
    <3> QED
      BY <1>0, <2>1, <2>4, <3>1, Goes DEF AttemptInv
  <2> QED
    BY <2>2, <2>3, <2>4
<1>5. CASE Reconcile(a)
  <2>1. /\ pc[a] = "reconciling" /\ Write(a, R!ReconcileRow(Receipt(a), reply[a], said[a], TRUE))
        /\ UNCHANGED <<now, pause, next, key, reply, said, errand, flags, late, dispatched,
                       outcomes, faults>>
        /\ Return(a, said[a]) \/ (Goto(a, "over") /\ UNCHANGED got)
    BY <1>5 DEF Reconcile
  <2>2. Transacts(a)
    BY <1>0, <2>1, OutcomeKeeps, Writes DEF TypeOK
  <2>3. CASE Return(a, said[a])
    BY <2>1, <2>2, <2>3, Gives
  <2>4. CASE Goto(a, "over") /\ UNCHANGED got
    BY <2>1, <2>2, <2>4, Goes
  <2> QED
    BY <2>1, <2>3, <2>4
<1>6. CASE Claim(a)
  <2> DEFINE verdict == P!ClaimAnswer(pause, TRUE, reply[a], now)
  <2>1. /\ Moves(pause, pause', a, reply[a]) /\ pc[a] = "claiming"
        /\ verdict = "completed" => OutcomeFor(pause, a)
        /\ UNCHANGED <<now, receipts, next, key, reply, flags, late, dispatched, got, outcomes,
                       faults>>
    BY <1>0, <1>6, ClaimMoves DEF Claim, OutcomeFor
  <2>2. \/ /\ verdict = "completed" /\ Say(a, pause.response) /\ Goto(a, "checking")
           /\ errand' = [errand EXCEPT ![a] = "complete"]
        \/ UNCHANGED <<said, errand>> /\ (Goto(a, "claimed") \/ Goto(a, "aborting"))
    BY <1>6, Zenon DEF Claim, Validate
  <2> HIDE DEF verdict
  <2>3. Transacts(a)
    <3>1. errand' \in [Attempts -> Errands]
      BY <1>0, <2>2 DEF TypeOK, Errands
    <3> QED
      BY <1>0, <2>1, <3>1, Touches DEF TypeOK
  <2>4. ASSUME verdict = "completed", Say(a, pause.response), Goto(a, "checking")
        PROVE  ContinueInv'
    <3>1. pause.response \in Responses /\ Answers(pause.response, a)
      BY <2>1, <2>4, OutcomeAnswers
    <3> QED
      BY <1>0, <2>1, <2>3, <2>4, <3>1, Finds DEF AttemptInv
  <2>5. ASSUME UNCHANGED <<said, errand>>, Goto(a, "claimed") \/ Goto(a, "aborting")
        PROVE  ContinueInv'
    <3>1. PICK where \in {"claimed", "aborting"} : Goto(a, where)
      BY <2>5
    <3> QED
      BY <1>0, <2>1, <2>3, <2>5, <3>1, Goes DEF AttemptInv
  <2> QED
    BY <2>2, <2>4, <2>5
<1>7. ASSUME NEW row, row = pause \/ Moves(pause, row, a, reply[a]), pause' = row,
             pc[a] \in {"claiming", "claimed"},
             NEW where \in {"aborting", "round"}, Goto(a, where), faults' \in Nat,
             UNCHANGED <<now, receipts, next, key, reply, said, errand, flags, late, dispatched,
                         got, outcomes>>
      PROVE  ContinueInv'
  <2>1. Moves(pause, pause', a, reply[a])
    BY <1>0, <1>7, Stays
  <2>2. Transacts(a)
    BY <1>0, <1>7, <2>1, Touches DEF TypeOK
  <2> QED
    BY <1>0, <1>7, <2>2, Goes DEF AttemptInv
<1>8. CASE ClaimFails(a)
  <2>1. Moves(pause, P!ClaimRow(pause, TRUE, a, reply[a], now), a, reply[a])
    BY <1>0, ClaimMoves
  <2>2. /\ pause' = pause \/ Moves(pause, pause', a, reply[a])
        /\ pc[a] = "claiming" /\ Goto(a, "aborting")
        /\ UNCHANGED <<now, receipts, next, key, reply, said, errand, flags, late, dispatched,
                       got, outcomes>>
    BY <1>8, <2>1 DEF ClaimFails
  <2>3. faults' \in Nat
    BY <1>0, <1>8 DEF ClaimFails, Fault, TypeOK
  <2> QED
    BY <1>7, <2>2, <2>3
<1>9. CASE Reject(a)
  BY <1>0, <1>7, <1>9, OwnerMoves DEF Reject, TypeOK
<1>10. CASE Terminate(a)
  BY <1>0, <1>7, <1>10, OwnerMoves DEF Terminate, TypeOK
<1>11. CASE Resume(a)
  BY <1>0, <1>7, <1>11 DEF Resume, TypeOK
<1> QED
  BY <1>1, <1>2, <1>3, <1>4, <1>5, <1>6, <1>8, <1>9, <1>10, <1>11

\* The run: renewals, tool calls and their marks, and what ends it.
LEMMA RunKeeps ==
    ASSUME ContinueInv, NEW a \in Attempts,
           \/ RenewReceipt(a) \/ RenewSession(a) \/ NextCalls(a) \/ MarkProgress(a)
           \/ MarkProgressFails(a) \/ MarkEffectStarted(a) \/ Dispatch(a) \/ Conclude(a)
           \/ Raise(a) \/ CancelRun(a)
    PROVE  ContinueInv'
<1> USE DEF PcStates, BeforeTheOutcome, Running, AtHandler
<1>0. /\ TypeOK /\ AttemptInv(a) /\ now \in Nat /\ reply[a] \in Replies
      /\ key[a] \in Keys /\ Keeps(Receipt(a))
      /\ pause \in P!Pause /\ Tidy(pause) /\ PauseIsJournal
  BY InHand
<1>1. ASSUME NEW where \in {"round2", "calls2", "thinking", "batch", "marked", "round", "calls",
                            "rechecking", "undoing"},
             pc[a] \in Running, where = "marked" => pc[a] = "dispatching",
             Transacts(a), UNCHANGED <<said, got, late>>, Goto(a, where)
      PROVE  ContinueInv'
  BY <1>0, <1>1, Goes DEF AttemptInv
<1>2. ASSUME flags' = flags \/ Flag(a, {"conflict"}) \/ Flag(a, {"progress"})
      PROVE  /\ flags' \in [Attempts -> SUBSET Flags]
             /\ \A b \in Attempts : b # a => flags'[b] = flags[b]
             /\ "committed" \in flags'[a] => "committed" \in flags[a]
  <2>1. CASE flags' = flags
    BY <1>0, <2>1 DEF TypeOK
  <2>2. CASE flags' # flags
    <3>1. PICK f \in {{"conflict"}, {"progress"}} : flags' = [flags EXCEPT ![a] = @ \cup f]
      BY <1>2, <2>2 DEF Flag
    <3> QED
      BY <1>0, <3>1 DEF TypeOK, Flags
  <2> QED
    BY <2>1, <2>2
<1>3. CASE RenewReceipt(a)
  <2>1. /\ pc[a] \in {"round", "calls"} /\ Write(a, R!RenewRow(Receipt(a), a, now))
        /\ UNCHANGED <<now, pause, next, key, reply, said, errand, late, dispatched, got, outcomes,
                       faults>>
        /\ \/ Goto(a, "round2") /\ UNCHANGED flags
           \/ Goto(a, "calls2") /\ UNCHANGED flags
           \/ Goto(a, "rechecking") /\ Flag(a, {"conflict"})
    BY <1>3 DEF RenewReceipt, AfterReceipt
  <2>2. Keeps(R!RenewRow(Receipt(a), a, now))
    BY <1>0, OwnersCallsKeep
  <2>3. Transacts(a)
    BY <1>0, <1>2, <2>1, <2>2, Writes DEF TypeOK
  <2> QED
    BY <1>1, <2>1, <2>3
<1>4. CASE RenewSession(a)
  <2>1. /\ pc[a] \in {"round2", "calls2"} /\ pause' = P!RenewRow(pause, a, now)
        /\ UNCHANGED <<now, receipts, next, key, reply, said, errand, late, dispatched, got,
                       outcomes, faults>>
        /\ \/ Goto(a, "thinking") /\ UNCHANGED flags
           \/ Goto(a, "batch") /\ UNCHANGED flags
           \/ Goto(a, "rechecking") /\ Flag(a, {"conflict"})
    BY <1>4 DEF RenewSession, AfterSession
  <2>2. Moves(pause, pause', a, reply[a])
    BY <1>0, <2>1, OwnerMoves
  <2>3. Transacts(a)
    BY <1>0, <1>2, <2>1, <2>2, Touches DEF TypeOK
  <2> QED
    BY <1>1, <2>1, <2>3
<1>5. CASE NextCalls(a)
  <2>1. Transacts(a) /\ UNCHANGED <<said, got, late>>
    BY <1>0, <1>5, Waits DEF NextCalls, TypeOK, Rest
  <2> QED
    BY <1>1, <1>5, <2>1 DEF NextCalls
<1>6. CASE Raise(a)
  <2>1. Transacts(a) /\ UNCHANGED <<said, got, late>>
    BY <1>0, <1>6, Waits DEF Raise, TypeOK, Rest
  <2> QED
    BY <1>1, <1>6, <2>1 DEF Raise
<1>7. CASE CancelRun(a)
  <2>1. Transacts(a) /\ UNCHANGED <<said, got, late>>
    BY <1>0, <1>7, Waits DEF CancelRun, TypeOK, Rest
  <2> QED
    BY <1>1, <1>7, <2>1 DEF CancelRun
<1>8. CASE MarkEffectStarted(a)
  <2>1. Keeps(R!MarkEffectRow(Receipt(a), a, now))
    BY <1>0, OwnersCallsKeep
  <2>2. Transacts(a)
    BY <1>0, <1>8, <2>1, Writes DEF MarkEffectStarted, TypeOK
  <2> QED
    BY <1>1, <1>8, <2>2 DEF MarkEffectStarted
<1>9. CASE MarkProgressFails(a)
  <2>1. Moves(pause, pause', a, reply[a])
    BY <1>0, <1>9, OwnerMoves, Stays DEF MarkProgressFails
  <2>2. faults' \in Nat
    BY <1>0, <1>9 DEF MarkProgressFails, Fault, TypeOK
  <2>3. Transacts(a)
    BY <1>0, <1>9, <2>1, <2>2, Touches DEF MarkProgressFails, TypeOK
  <2> QED
    BY <1>1, <1>9, <2>3 DEF MarkProgressFails
<1>10. CASE MarkProgress(a)
  <2>1. /\ pc[a] = "batch" /\ pause' = P!MarkProgressRow(pause, a, now)
        /\ UNCHANGED <<now, receipts, next, key, reply, said, errand, late, dispatched, got,
                       outcomes, faults>>
        /\ \/ P!Owns(pause, a, now) /\ Goto(a, "dispatching") /\ Flag(a, {"progress"})
           \/ ~ P!Owns(pause, a, now) /\ Goto(a, "rechecking") /\ Flag(a, {"conflict"})
    BY <1>10 DEF MarkProgress
  <2>2. Moves(pause, pause', a, reply[a])
    BY <1>0, <2>1, OwnerMoves
  <2>3. Transacts(a)
    BY <1>0, <1>2, <2>1, <2>2, Touches DEF TypeOK
  <2>4. CASE ~ P!Owns(pause, a, now)
    BY <1>1, <2>1, <2>3, <2>4
  <2>5. CASE P!Owns(pause, a, now)
    <3>1. /\ pause.state = "in_flight" /\ pause.outcome = "none" /\ pause.token = a
          /\ pause'.token = a /\ pause'.progress /\ a # None
      BY <1>0, <2>1, <2>5, OwnerHolds, OwnerMoves
    <3>2. outcomes = {}
      BY <1>0, <3>1 DEF PauseIsJournal
    <3>3. pc' = [pc EXCEPT ![a] = "dispatching"] /\ pc'[a] = "dispatching"
      BY <1>0, <2>1, <2>5 DEF TypeOK, Goto
    <3>4. TypeOK'
      BY <1>0, <2>1, <2>3, <3>3 DEF TypeOK, Transacts, Rest, Moves
    <3>5. AttemptInv(a)'
      BY <1>0, <2>1, <2>3, <3>3 DEF AttemptInv, Answers, Transacts
    <3>6. ASSUME NEW b \in Attempts, b # a PROVE AttemptInv(b)'
      BY <1>0, <2>1, <2>3, <3>3, <3>6, OthersKeep DEF TypeOK, Transacts
    <3>7. \A k \in Keys : Recorded(receipts[k])'
      BY <2>1, RecordedKeeps
    <3>8. PauseIsJournal'
      BY <1>0, <2>1, <2>2 DEF PauseIsJournal, Moves, Tidy
    <3>9. Burnt(a)'
      BY <2>2, <3>1 DEF Burnt, Moves, Tidy
    <3>10. \A b \in Attempts : Acting(b)' => b = a
      <4>1. ASSUME NEW b \in Attempts, b # a, Acting(b)' PROVE FALSE
        <5>1. Acting(b)
          BY <1>0, <2>1, <3>3, <4>1 DEF TypeOK, Acting
        <5>2. Burnt(b)
          BY <5>1 DEF ContinueInv, ActsAlone
        <5> QED
          BY <3>1, <4>1, <5>2 DEF Burnt
      <4> QED
        BY <4>1
    <3>11. ActsAlone'
      BY <2>1, <3>2, <3>9, <3>10 DEF ActsAlone
    <3> QED
      BY <3>4, <3>5, <3>6, <3>7, <3>8, <3>11 DEF ContinueInv
  <2> QED
    BY <2>4, <2>5
<1>11. CASE Dispatch(a)
  <2>1. /\ pc[a] \in AtHandler /\ dispatched' = dispatched \cup {a}
        /\ pc' = [pc EXCEPT ![a] = "batch"]
        /\ UNCHANGED <<now, receipts, pause, next, key, reply, said, errand, flags, late, got,
                       outcomes, faults>>
    BY <1>11 DEF Dispatch, Goto
  <2>2. TypeOK'
    BY <1>0, <2>1 DEF TypeOK
  <2>3. \A b \in Attempts : pc'[b] = IF b = a THEN "batch" ELSE pc[b]
    BY <1>0, <2>1 DEF TypeOK
  <2>4. AttemptInv(a)'
    BY <1>0, <2>1, <2>3 DEF AttemptInv, Answers
  <2>5. ASSUME NEW b \in Attempts, b # a PROVE AttemptInv(b)'
    BY <2>1, <2>3, <2>5, OthersKeep
  <2>6. \A k \in Keys : Recorded(receipts[k])'
    BY <2>1, RecordedKeeps
  <2>7. PauseIsJournal'
    BY <1>0, <2>1 DEF PauseIsJournal
  <2>8. ActsAlone /\ outcomes = {} /\ Acting(a)
    BY <2>1 DEF ContinueInv, ActsAlone, Acting
  <2>9. \A b \in Attempts : (Acting(b)' => Acting(b)) /\ (Burnt(b)' <=> Burnt(b))
    BY <2>1, <2>3, <2>8 DEF Acting, Burnt
  <2>10. ActsAlone'
    BY <2>1, <2>3, <2>8, <2>9 DEF ActsAlone
  <2> QED
    BY <2>2, <2>4, <2>5, <2>6, <2>7, <2>10 DEF ContinueInv
<1>12. CASE Conclude(a)
  <2>1. /\ pc[a] = "thinking" /\ pc' = [pc EXCEPT ![a] = "finishing"]
        /\ UNCHANGED <<now, receipts, pause, next, key, reply, errand, flags, late, dispatched,
                       got, outcomes, faults>>
    BY <1>12 DEF Conclude, Goto
  <2>2. PICK r \in {Final(a), NextPause(a)} : said' = [said EXCEPT ![a] = r]
    BY <1>12 DEF Conclude, Say
  <2>3. r \in Responses
    BY DEF Responses
  <2>4. TypeOK'
    BY <1>0, <2>1, <2>2, <2>3 DEF TypeOK
  <2>5. Transacts(a)
    BY <1>0, <2>1, Waits DEF TypeOK, Rest
  <2>6. AttemptInv(a)'
    BY <1>0, <2>1, <2>2 DEF TypeOK, AttemptInv, Answers
  <2>7. /\ \A b \in Attempts : b # a => pc'[b] = pc[b] /\ said'[b] = said[b]
        /\ pc'[a] = "finishing"
    BY <1>0, <2>1, <2>2 DEF TypeOK
  <2> QED
    BY <2>1, <2>4, <2>5, <2>6, <2>7, OneActs DEF Transacts
<1> QED
  BY <1>3, <1>4, <1>5, <1>6, <1>7, <1>8, <1>9, <1>10, <1>11, <1>12

\* The owner journals its response: nobody else has acted on the conversation,
\* and there was no outcome before.
LEMMA JournaledLeaves ==
    ASSUME ContinueInv, NEW a \in Attempts, Journaled(a),
           said[a] \in {Final(a), NextPause(a)}, pc[a] \notin AtHandler,
           UNCHANGED <<reply, said, dispatched>>,
           \A b \in Attempts : pc'[b] \in AtHandler => pc[b] \in AtHandler
    PROVE  /\ PauseIsJournal' /\ ActsAlone' /\ Answers(said[a], a)'
           /\ outcomes \subseteq outcomes' /\ outcomes' \in SUBSET Responses
           /\ pause' \in P!Pause /\ next' \in [Attempts -> {"absent", "paused", "away"}]
<1>0. /\ TypeOK /\ PauseIsJournal /\ ActsAlone /\ pause \in P!Pause /\ Tidy(pause)
      /\ now \in Nat
  BY DEF ContinueInv, TypeOK, PauseIsJournal
<1>1. said[a] \in Responses /\ said[a].author = a
  BY DEF Responses, Final, NextPause
<1>2. /\ P!MayFinish(pause, a, now) /\ pause' = P!FinishRow(pause, a, said[a], now)
      /\ outcomes' = outcomes \cup {said[a]}
      /\ next' = [next EXCEPT ![a] = IF said[a].kind = "pause" THEN "paused" ELSE @]
  BY DEF Journaled
<1>3. /\ pause.state = "in_flight" /\ pause.outcome = "none" /\ pause.token = a /\ a # None
      /\ pause' \in P!Pause /\ Tidy(pause')
      /\ pause'.token = None /\ pause'.outcome = "completed" /\ pause'.response = said[a]
      /\ pause'.fingerprint = pause.fingerprint
  BY <1>0, <1>1, <1>2, FinishLeaves
<1>4. outcomes = {} /\ outcomes' = {said[a]}
  BY <1>0, <1>2, <1>3 DEF PauseIsJournal
<1>5. PauseIsJournal'
  BY <1>0, <1>1, <1>3, <1>4 DEF PauseIsJournal, Tidy
<1>6. ASSUME NEW b \in Attempts, Acting(b) PROVE b = a
  BY <1>0, <1>3, <1>6 DEF ActsAlone, Burnt
<1>7. \A b \in Attempts : Acting(b)' => Acting(b) /\ b = a /\ b \in dispatched
  BY <1>6 DEF Acting, AtHandler
<1>8. Burnt(a)'
  BY <1>1, <1>3 DEF Burnt
<1>9. dispatched \subseteq {a}
  BY <1>0, <1>6 DEF Acting, TypeOK
<1>10. \A b \in Attempts : pc'[b] \notin AtHandler
  BY <1>6, <1>7 DEF Acting, AtHandler
<1>11. ActsAlone'
  BY <1>1, <1>4, <1>7, <1>8, <1>9, <1>10 DEF ActsAlone, AtHandler
<1>12. Answers(said[a], a)'
  BY <1>1, <1>4 DEF Answers
<1>13. next' \in [Attempts -> {"absent", "paused", "away"}]
  BY <1>0, <1>2 DEF TypeOK
<1> QED
  BY <1>0, <1>1, <1>3, <1>4, <1>5, <1>11, <1>12, <1>13 DEF TypeOK

\* finish() and handoff(), waited for or not.
LEMMA JournalKeeps ==
    ASSUME ContinueInv, NEW a \in Attempts,
           Journal(a) \/ JournalFails(a) \/ CancelJournal(a) \/ LateCall(a)
    PROVE  ContinueInv'
<1> USE DEF PcStates, BeforeTheOutcome, Running, AtHandler
<1>0. /\ TypeOK /\ AttemptInv(a) /\ now \in Nat /\ reply[a] \in Replies
      /\ key[a] \in Keys /\ Keeps(Receipt(a))
      /\ pause \in P!Pause /\ Tidy(pause) /\ PauseIsJournal
  BY InHand
<1>1. ASSUME Journaled(a), pc[a] = "finishing" \/ late[a] = "outcome",
             UNCHANGED <<now, receipts, key, reply, said, errand, dispatched, got>>,
             faults' \in Nat, flags' \in [Attempts -> SUBSET Flags],
             NEW where \in PcStates \ (BeforeTheOutcome \cup AtHandler), Goto(a, where),
             late'[a] # "outcome", late' \in [Attempts -> {"none", "abort", "outcome"}],
             \A b \in Attempts : b # a => flags'[b] = flags[b] /\ late'[b] = late[b]
      PROVE  ContinueInv'
  <2>1. said[a] \in {Final(a), NextPause(a)} /\ pc[a] \notin AtHandler
    BY <1>0, <1>1 DEF AttemptInv
  <2>2. pc' = [pc EXCEPT ![a] = where] /\ pc' \in [Attempts -> PcStates]
    BY <1>0, <1>1 DEF TypeOK, Goto
  <2>3. \A b \in Attempts : pc'[b] = IF b = a THEN where ELSE pc[b]
    BY <1>0, <2>2 DEF TypeOK
  <2>4. \A b \in Attempts : pc'[b] \in AtHandler => pc[b] \in AtHandler
    BY <1>1, <2>3
  <2>5. /\ PauseIsJournal' /\ ActsAlone' /\ Answers(said[a], a)'
        /\ outcomes \subseteq outcomes' /\ outcomes' \in SUBSET Responses
        /\ pause' \in P!Pause /\ next' \in [Attempts -> {"absent", "paused", "away"}]
    BY <1>1, <2>1, <2>4, JournaledLeaves
  <2>6. TypeOK'
    BY <1>0, <1>1, <2>2, <2>5 DEF TypeOK
  <2>7. AttemptInv(a)'
    BY <1>0, <1>1, <2>3, <2>5 DEF AttemptInv, Answers
  <2>8. ASSUME NEW b \in Attempts, b # a PROVE AttemptInv(b)'
    BY <1>1, <2>3, <2>5, <2>8, OthersKeep
  <2>9. \A k \in Keys : Recorded(receipts[k])'
    BY <1>1, <2>5, RecordedKeeps
  <2> QED
    BY <2>5, <2>6, <2>7, <2>8, <2>9 DEF ContinueInv
<1>2. ASSUME UNCHANGED <<now, receipts, pause, next, key, reply, said, errand, flags, dispatched,
                         got, outcomes>>, faults' \in Nat,
             NEW where \in {"recovering", pc[a]} \ {"finishing"}, Goto(a, where),
             pc[a] = "finishing" \/ late[a] = "outcome",
             late' = late \/ late' = [late EXCEPT ![a] = "none"], late'[a] # "outcome"
      PROVE  ContinueInv'
  <2>1. Transacts(a)
    BY <1>0, <1>2, Waits DEF TypeOK, Rest
  <2>2. /\ where \in PcStates \ {"finishing"} /\ where \notin BeforeTheOutcome
        /\ where \notin {"completing", "checking", "reconciling"} \cup AtHandler
    BY <1>0, <1>2 DEF TypeOK, AttemptInv
  <2> QED
    BY <1>0, <1>2, <2>1, <2>2, Goes DEF AttemptInv
<1>3. CASE Journal(a)
  <2>1. /\ pc[a] = "finishing"
        /\ UNCHANGED <<now, receipts, key, reply, said, errand, late, dispatched, got, faults>>
        /\ \/ Journaled(a) /\ Goto(a, "completing") /\ Flag(a, {"committed"})
           \/ UNCHANGED <<pause, next, outcomes>> /\ Goto(a, "recovering") /\ UNCHANGED flags
    BY <1>3 DEF Journal, NotJournaled
  <2>2. Flag(a, {"committed"}) => /\ flags' \in [Attempts -> SUBSET Flags]
                                 /\ \A b \in Attempts : b # a => flags'[b] = flags[b]
    BY <1>0 DEF TypeOK, Flag, Flags
  <2>3. late[a] # "outcome"
    BY <1>0, <2>1 DEF AttemptInv
  <2>4. CASE Journaled(a) /\ Goto(a, "completing") /\ Flag(a, {"committed"})
    BY <1>0, <1>1, <2>1, <2>2, <2>3, <2>4 DEF TypeOK
  <2>5. CASE UNCHANGED <<pause, next, outcomes>> /\ Goto(a, "recovering") /\ UNCHANGED flags
    BY <1>0, <1>2, <2>1, <2>3, <2>5 DEF TypeOK
  <2> QED
    BY <2>1, <2>4, <2>5
<1>4. CASE JournalFails(a)
  <2>1. /\ pc[a] = "finishing" /\ Goto(a, "recovering")
        /\ UNCHANGED <<now, receipts, key, reply, said, errand, flags, late, dispatched, got>>
        /\ Journaled(a) \/ UNCHANGED <<pause, next, outcomes>>
    BY <1>4 DEF JournalFails
  <2>2. faults' \in Nat
    BY <1>0, <1>4 DEF JournalFails, Fault, TypeOK
  <2>3. late[a] # "outcome"
    BY <1>0, <2>1 DEF AttemptInv
  <2>4. CASE Journaled(a)
    BY <1>0, <1>1, <2>1, <2>2, <2>3, <2>4 DEF TypeOK
  <2>5. CASE UNCHANGED <<pause, next, outcomes>>
    BY <1>0, <1>2, <2>1, <2>2, <2>3, <2>5 DEF TypeOK
  <2> QED
    BY <2>1, <2>4, <2>5
<1>5. CASE CancelJournal(a)
  <2>1. /\ pc[a] = "finishing" /\ late' = [late EXCEPT ![a] = "outcome"]
        /\ pc' = [pc EXCEPT ![a] = "undoing"]
        /\ UNCHANGED <<now, receipts, pause, next, key, reply, said, errand, flags, dispatched, got,
                       outcomes, faults>>
    BY <1>5 DEF CancelJournal, Goto
  <2>2. TypeOK'
    BY <1>0, <2>1 DEF TypeOK
  <2>3. Transacts(a)
    BY <1>0, <2>1, Waits DEF TypeOK, Rest
  <2>4. AttemptInv(a)'
    BY <1>0, <2>1 DEF TypeOK, AttemptInv, Answers
  <2>5. \A b \in Attempts : b # a => pc'[b] = pc[b]
    BY <1>0, <2>1 DEF TypeOK
  <2>6. pc'[a] = "undoing"
    BY <1>0, <2>1 DEF TypeOK
  <2> QED
    BY <2>1, <2>2, <2>3, <2>4, <2>5, <2>6, OneActs DEF Transacts
<1>6. CASE LateCall(a)
  <2>1. /\ late' = [late EXCEPT ![a] = "none"] /\ pc' = [pc EXCEPT ![a] = pc[a]]
        /\ UNCHANGED <<now, pc, key, reply, said, errand, flags, dispatched, got, faults>>
        /\ \/ /\ late[a] = "abort" /\ Write(a, R!AbortRow(Receipt(a), a))
              /\ UNCHANGED <<pause, next, outcomes>>
           \/ late[a] = "outcome" /\ Journaled(a) /\ UNCHANGED receipts
           \/ late[a] = "outcome" /\ UNCHANGED <<pause, next, outcomes, receipts>>
    BY <1>0, <1>6 DEF LateCall, NotJournaled, TypeOK
  <2>2. /\ late' \in [Attempts -> {"none", "abort", "outcome"}] /\ late'[a] = "none"
        /\ \A b \in Attempts : b # a => late'[b] = late[b]
    BY <1>0, <2>1 DEF TypeOK
  <2>3. CASE late[a] = "outcome" /\ Journaled(a) /\ UNCHANGED receipts
    <3>1. pc[a] \in PcStates \ (BeforeTheOutcome \cup AtHandler)
      BY <1>0, <2>3 DEF AttemptInv
    <3> QED
      BY <1>0, <1>1, <2>1, <2>2, <2>3, <3>1 DEF TypeOK, Goto
  <2>4. CASE late[a] = "outcome" /\ UNCHANGED <<pause, next, outcomes, receipts>>
    <3>1. pc[a] # "finishing"
      BY <1>0, <2>4 DEF AttemptInv
    <3> QED
      BY <1>0, <1>2, <2>1, <2>2, <2>4, <3>1 DEF TypeOK, Goto
  <2>5. CASE /\ late[a] = "abort" /\ Write(a, R!AbortRow(Receipt(a), a))
             /\ UNCHANGED <<pause, next, outcomes>>
    <3>1. Keeps(R!AbortRow(Receipt(a), a))
      BY <1>0, OwnersCallsKeep
    <3>2. /\ receipts' \in [Keys -> R!Row]
          /\ \A k \in Keys : receipts'[k] = receipts[k] \/ Keeps(receipts'[k])
      BY <1>0, <2>5, <3>1 DEF TypeOK, Write, Keeps
    <3>3. Moves(pause, pause', a, reply[a])
      BY <1>0, <2>5, Stays
    <3>4. TypeOK'
      BY <1>0, <2>1, <2>2, <2>5, <3>2 DEF TypeOK
    <3>5. AttemptInv(a)'
      BY <1>0, <2>1, <2>2, <2>5 DEF AttemptInv, Answers
    <3> QED
      BY <2>1, <2>2, <2>5, <3>2, <3>3, <3>4, <3>5, OneActs
  <2> QED
    BY <2>1, <2>3, <2>4, <2>5
<1> QED
  BY <1>3, <1>4, <1>5, <1>6

\* The receipt's completion, and what undoes a request that failed.
LEMMA EndKeeps ==
    ASSUME ContinueInv, NEW a \in Attempts,
           \/ Complete(a) \/ CompleteFails(a) \/ Recheck(a) \/ Decide(a) \/ Undo(a)
           \/ AbortSlow(a) \/ Release(a) \/ Consume(a) \/ Abort(a) \/ Leave(a) \/ MoveNext(a)
    PROVE  ContinueInv'
<1> USE DEF PcStates, BeforeTheOutcome, Running, AtHandler
<1>0. /\ TypeOK /\ AttemptInv(a) /\ now \in Nat /\ reply[a] \in Replies
      /\ key[a] \in Keys /\ Keeps(Receipt(a))
      /\ pause \in P!Pause /\ Tidy(pause) /\ PauseIsJournal
      /\ pc[a] \in {"completing", "checking", "reconciling"} =>
             said[a] \in Responses /\ Answers(said[a], a)
  BY InHand
<1>1. ASSUME flags' = flags \/ Flag(a, {"conflict"}) \/ Flag(a, {"owned"})
      PROVE  /\ flags' \in [Attempts -> SUBSET Flags]
             /\ \A b \in Attempts : b # a => flags'[b] = flags[b]
             /\ "committed" \in flags'[a] => "committed" \in flags[a]
  <2>1. CASE flags' = flags
    BY <1>0, <2>1 DEF TypeOK
  <2>2. CASE flags' # flags
    <3>1. PICK f \in {{"conflict"}, {"owned"}} : flags' = [flags EXCEPT ![a] = @ \cup f]
      BY <1>1, <2>2 DEF Flag
    <3> QED
      BY <1>0, <3>1 DEF TypeOK, Flags
  <2> QED
    BY <2>1, <2>2
<1>2. /\ Unresolved(a) \in {"reconciling", "undoing"}
      /\ Unresolved(a) = "reconciling" => Answers(said[a], a)
  BY <1>0 DEF Unresolved, AttemptInv
<1>3. ASSUME Transacts(a), UNCHANGED <<said, got, late>>,
             pc[a] \in {"completing", "rechecking", "deciding", "aborting", "letting_go"},
             NEW where \in {"over", "recovering", "deciding", "reconciling", "undoing",
                            "aborting", "letting_go"},
             Goto(a, where), where = "reconciling" => Answers(said[a], a)
      PROVE  ContinueInv'
  BY <1>0, <1>3, Goes DEF AttemptInv
<1>4. ASSUME Transacts(a), UNCHANGED <<said, got, late>>,
             pc[a] \in {"undoing", "releasing", "consuming"},
             NEW where \in {"over", "consuming", "releasing"}, Goto(a, where)
      PROVE  ContinueInv'
  BY <1>0, <1>4, Goes DEF AttemptInv
<1>5. CASE Complete(a)
  <2>1. /\ pc[a] = "completing" /\ Write(a, R!CompleteRow(Receipt(a), a, said[a], now))
        /\ UNCHANGED <<now, pause, next, key, reply, said, errand, late, dispatched, outcomes,
                       faults>>
        /\ \/ Return(a, said[a]) /\ UNCHANGED flags
           \/ Goto(a, AfterCompleteFails(a)) /\ Flag(a, {"conflict"}) /\ UNCHANGED got
    BY <1>5 DEF Complete
  <2>2. Keeps(R!CompleteRow(Receipt(a), a, said[a], now))
    BY <1>0, <2>1, OutcomeKeeps
  <2>3. Transacts(a)
    BY <1>0, <1>1, <2>1, <2>2, Writes DEF TypeOK
  <2>4. AfterCompleteFails(a) \in {"over", "recovering"}
    BY DEF AfterCompleteFails
  <2> QED
    BY <1>3, <2>1, <2>3, <2>4, Gives
<1>6. CASE CompleteFails(a)
  <2>1. /\ pc[a] = "completing" /\ Fault
        /\ UNCHANGED <<now, pause, next, key, reply, said, errand, flags, late, dispatched, got,
                       outcomes>>
        /\ Goto(a, AfterCompleteFails(a)) \/ Goto(a, "over")
    BY <1>6 DEF CompleteFails
  <2>2. PICK row \in {Receipt(a), R!CompleteRow(Receipt(a), a, said[a], now)} : Write(a, row)
    BY <1>6 DEF CompleteFails
  <2>3. Keeps(row)
    BY <1>0, <2>1, <2>2, OutcomeKeeps
  <2>4. faults' \in Nat
    BY <1>0, <2>1 DEF Fault, TypeOK
  <2>5. Transacts(a)
    BY <1>0, <2>1, <2>2, <2>3, <2>4, Writes DEF TypeOK
  <2>6. AfterCompleteFails(a) \in {"over", "recovering"}
    BY DEF AfterCompleteFails
  <2> QED
    BY <1>3, <2>1, <2>5, <2>6
<1>7. CASE Recheck(a)
  <2>1. /\ pc[a] = "rechecking" /\ pause' = P!RenewRow(pause, a, now)
        /\ UNCHANGED <<now, receipts, next, key, reply, said, errand, late, dispatched, got,
                       outcomes, faults>>
        /\ \/ Flag(a, {"owned"}) /\ Goto(a, "deciding")
           \/ Flag(a, {"owned"}) /\ Goto(a, Unresolved(a))
           \/ UNCHANGED flags /\ Goto(a, "deciding")
    BY <1>7 DEF Recheck
  <2>2. Moves(pause, pause', a, reply[a])
    BY <1>0, <2>1, OwnerMoves
  <2>3. Transacts(a)
    BY <1>0, <1>1, <2>1, <2>2, Touches DEF TypeOK
  <2> QED
    BY <1>2, <1>3, <2>1, <2>3
<1>8. CASE Decide(a)
  <2>1. /\ pc[a] = "deciding" /\ Moves(pause, pause', a, reply[a])
        /\ UNCHANGED <<now, receipts, next, key, reply, flags, late, dispatched, got, outcomes,
                       faults>>
    BY <1>0, <1>8, SweepMoves DEF Decide
  <2>2. \/ /\ OutcomeFor(pause', a) /\ Say(a, pause'.response) /\ Goto(a, "checking")
           /\ errand' = [errand EXCEPT ![a] = "reconcile"]
        \/ /\ UNCHANGED <<said, errand>>
           /\ \/ Goto(a, "aborting") \/ Goto(a, "letting_go") \/ Goto(a, "over")
              \/ Goto(a, Unresolved(a))
    BY <1>8, Zenon DEF Decide, Validate
  <2>3. Transacts(a)
    <3>1. errand' \in [Attempts -> Errands]
      BY <1>0, <2>2 DEF TypeOK, Errands
    <3> QED
      BY <1>0, <2>1, <3>1, Touches DEF TypeOK
  <2>4. ASSUME OutcomeFor(pause', a), Say(a, pause'.response), Goto(a, "checking")
        PROVE  ContinueInv'
    <3>1. pause'.response \in Responses /\ Answers(pause'.response, a)
      BY <2>1, <2>4, OutcomeAnswers
    <3> QED
      BY <1>0, <2>1, <2>3, <2>4, <3>1, Finds DEF AttemptInv
  <2>5. ASSUME UNCHANGED said,
               \/ Goto(a, "aborting") \/ Goto(a, "letting_go") \/ Goto(a, "over")
               \/ Goto(a, Unresolved(a))
        PROVE  ContinueInv'
    BY <1>2, <1>3, <2>1, <2>3, <2>5
  <2> QED
    BY <2>2, <2>4, <2>5
<1>9. ASSUME pc[a] \in {"undoing", "aborting"}, Write(a, R!AbortRow(Receipt(a), a)),
             UNCHANGED <<now, pause, next, key, reply, said, errand, flags, late, dispatched, got,
                         outcomes, faults>>
      PROVE  Transacts(a)
  <2>1. Keeps(R!AbortRow(Receipt(a), a))
    BY <1>0, OwnersCallsKeep
  <2> QED
    BY <1>0, <1>9, <2>1, Writes DEF TypeOK
<1>10. CASE Undo(a)
  BY <1>4, <1>9, <1>10 DEF Undo
<1>11. CASE Abort(a)
  BY <1>3, <1>9, <1>11 DEF Abort
<1>12. CASE Release(a)
  <2>1. /\ pc[a] \in {"releasing", "letting_go"} /\ pause' = P!CancelRow(pause, a, now)
        /\ UNCHANGED <<now, receipts, next, key, reply, said, errand, flags, late, dispatched, got,
                       outcomes, faults>>
        /\ \/ Goto(a, "over")
           \/ pc[a] = "releasing" /\ Goto(a, "consuming")
    BY <1>12 DEF Release
  <2>2. Moves(pause, pause', a, reply[a])
    BY <1>0, <2>1, OwnerMoves
  <2>3. Transacts(a)
    BY <1>0, <2>1, <2>2, Touches DEF TypeOK
  <2> QED
    BY <1>3, <1>4, <2>1, <2>3
<1>13. CASE Consume(a)
  <2>1. Moves(pause, pause', a, reply[a])
    BY <1>0, <1>13, OwnerMoves DEF Consume
  <2>2. Transacts(a)
    BY <1>0, <1>13, <2>1, Touches DEF Consume, TypeOK
  <2> QED
    BY <1>4, <1>13, <2>2 DEF Consume
<1>14. CASE AbortSlow(a)
  <2>1. /\ late' = [late EXCEPT ![a] = "abort"] /\ pc[a] \in {"undoing", "aborting"}
        /\ UNCHANGED <<now, receipts, pause, next, key, reply, said, errand, flags, dispatched, got,
                       outcomes, faults>>
    BY <1>14 DEF AbortSlow
  <2>2. PICK where \in {"consuming", "over"} : Goto(a, where)
    BY <1>14 DEF AbortSlow
  <2>3. Transacts(a)
    BY <1>0, <2>1, Waits DEF TypeOK, Rest
  <2> QED
    BY <1>0, <2>1, <2>2, <2>3, Goes DEF TypeOK
<1>15. CASE Leave(a)
  <2>1. Transacts(a)
    BY <1>0, <1>15, Waits DEF Leave, TypeOK, Rest
  <2> QED
    BY <1>0, <1>15, <2>1, Goes DEF Leave
<1>16. CASE MoveNext(a)
  <2>1. UNCHANGED <<now, receipts, pause, pc, key, reply, said, errand, flags, late, dispatched,
                    got, outcomes, faults>>
    BY <1>16 DEF MoveNext
  <2>2. next' \in [Attempts -> {"absent", "paused", "away"}]
    BY <1>0, <1>16 DEF MoveNext, TypeOK
  <2>3. Transacts(a)
    BY <1>0, <2>1, <2>2, Waits DEF TypeOK, Rest
  <2>4. TypeOK'
    BY <1>0, <2>1, <2>2 DEF TypeOK
  <2>5. AttemptInv(a)'
    BY <1>0, <2>1 DEF AttemptInv, Answers
  <2> QED
    BY <2>1, <2>3, <2>4, <2>5, OneActs DEF Transacts
<1> QED
  BY <1>5, <1>6, <1>7, <1>8, <1>10, <1>11, <1>12, <1>13, <1>14, <1>15, <1>16

\* What no request does: the clock, a discard, another operation's sweep.
LEMMA EveryoneKeeps ==
    ASSUME ContinueInv, Tick \/ Discard \/ Sweep \/ UNCHANGED vars
    PROVE  ContinueInv'
<1>0. TypeOK /\ PauseIsJournal /\ pause \in P!Pause /\ Tidy(pause) /\ now \in Nat
  BY DEF ContinueInv, TypeOK, PauseIsJournal
<1>1. /\ UNCHANGED <<receipts, next, pc, key, reply, said, errand, flags, late, dispatched, got,
                     outcomes, faults>>
      /\ now' \in Nat
  BY <1>0 DEF Tick, Discard, Sweep, vars
<1>2. Moves(pause, pause', None, reply[None])
  BY <1>0, Stays, DiscardMoves, SweepMoves DEF Tick, Discard, Sweep, vars
<1>3. TypeOK'
  BY <1>0, <1>1, <1>2 DEF TypeOK, Moves
<1>4. PauseIsJournal' /\ ActsAlone'
  BY <1>1, <1>2, PauseMoved
<1>5. \A k \in Keys : Recorded(receipts[k])'
  BY <1>1, RecordedKeeps
<1>6. ASSUME NEW b \in Attempts PROVE AttemptInv(b)'
  BY <1>1, <1>6, OthersKeep
<1> QED
  BY <1>3, <1>4, <1>5, <1>6 DEF ContinueInv

\* The initial state satisfies the invariant.
LEMMA ContinueInit == Init => ContinueInv
<1> SUFFICES ASSUME Init PROVE ContinueInv
  OBVIOUS
<1>1. R!NoRow \in R!Row /\ R!NoRow.state = "absent" /\ R!NoRow.owner = None
  BY DEF R!NoRow, R!Row, R!States
<1>2. /\ pause \in P!Pause /\ pause.state = "paused" /\ pause.outcome = "none"
      /\ pause.token = None
  <2>1. 1 + TtlSeconds \in Nat
    BY LimitsAssumption
  <2>2. pause = [P!NoPause EXCEPT !.state = "paused", !.expires = 1 + TtlSeconds, !.created = 1]
    BY DEF Init, P!NewPause
  <2> QED
    BY <2>1, <2>2 DEF P!NoPause, P!Pause, P!NoLease
<1>3. TypeOK
  BY <1>1, <1>2 DEF Init, TypeOK, PcStates, Errands, Flags
<1>4. PauseIsJournal
  BY <1>2 DEF Init, PauseIsJournal, Tidy
<1>5. \A k \in Keys : Recorded(receipts[k])
  BY <1>1 DEF Init, Recorded
<1>6. ActsAlone
  BY DEF Init, ActsAlone, Acting
<1>7. ASSUME NEW a \in Attempts PROVE AttemptInv(a)
  BY DEF Init, AttemptInv
<1> QED
  BY <1>3, <1>4, <1>5, <1>6, <1>7 DEF ContinueInv

\* Every step keeps the invariant.
LEMMA ContinueStep == ContinueInv /\ [Next]_vars => ContinueInv'
<1> SUFFICES ASSUME ContinueInv, [Next]_vars PROVE ContinueInv'
  OBVIOUS
<1>1. CASE Tick \/ Discard \/ Sweep \/ UNCHANGED vars
  BY <1>1, EveryoneKeeps
<1>2. ASSUME NEW a \in Attempts,
             \/ Arrive(a) \/ Begin(a) \/ RecoverOutcome(a) \/ Check(a) \/ Reconcile(a)
             \/ Claim(a) \/ ClaimFails(a) \/ Reject(a) \/ Terminate(a) \/ Resume(a)
             \/ RenewReceipt(a) \/ RenewSession(a) \/ NextCalls(a) \/ MarkProgress(a)
             \/ MarkProgressFails(a) \/ MarkEffectStarted(a) \/ Dispatch(a) \/ Conclude(a)
             \/ Raise(a) \/ CancelRun(a)
             \/ Journal(a) \/ JournalFails(a) \/ CancelJournal(a) \/ Complete(a)
             \/ CompleteFails(a) \/ Recheck(a) \/ Decide(a) \/ Undo(a) \/ AbortSlow(a)
             \/ Release(a) \/ Consume(a) \/ Abort(a) \/ LateCall(a) \/ Leave(a)
             \/ MoveNext(a)
      PROVE  ContinueInv'
  BY <1>2, EntryKeeps, RunKeeps, JournalKeeps, EndKeeps
<1> QED
  BY <1>1, <1>2 DEF Next

-----------------------------------------------------------------------------
(***************************************************************************)
(* Theorems                                                                *)
(***************************************************************************)

\* The inductive invariant: the pause's row is the journal of one outcome, what
\* is answered and recorded is that outcome, and who acts on it acts alone.
THEOREM ContinueInvariance == Spec => []ContinueInv
<1>1. ContinueInv /\ [Next]_vars => ContinueInv'
  BY ContinueStep
<1> QED
  BY ContinueInit, <1>1, PTL DEF Spec

\* Every reachable state of a continuation is well typed.
THEOREM ContinueTypeCorrect == Spec => []TypeOK
<1>1. ContinueInv => TypeOK
  BY DEF ContinueInv
<1> QED
  BY ContinueInvariance, <1>1, PTL

\* However many requests reply to a pause, under whatever keys, and whatever is
\* lost, late or cancelled: one outcome, by the one request whose tools ran,
\* and given only to those who made its reply.
THEOREM OutcomeIsOne == Spec => []OneOutcome
<1>1. ContinueInv => OneOutcome
  <2> SUFFICES ASSUME ContinueInv PROVE OneOutcome
    OBVIOUS
  <2>0. /\ PauseIsJournal /\ ActsAlone /\ dispatched \subseteq Attempts
        /\ \A k \in Keys : Recorded(receipts[k])
        /\ \A a \in Attempts : got[a] # None => Answers(got[a], a)
    BY DEF ContinueInv, TypeOK, AttemptInv
  <2>1. \A r, s \in outcomes : r = s
    BY <2>0 DEF PauseIsJournal
  <2>2. \A a \in Attempts : got[a] # None => got[a] \in outcomes
    BY <2>0 DEF Answers
  <2>3. \A k \in Keys : receipts[k].state = "completed" => receipts[k].response \in outcomes
    BY <2>0 DEF Recorded
  <2>4. \A a, b \in Attempts : got[a] # None /\ got[b] # None => reply[a] = reply[b]
    BY <2>0, <2>1 DEF Answers
  <2>5. \A a, b \in dispatched : a = b
    BY <2>0 DEF ActsAlone, Acting
  <2>6. \A a \in dispatched, r \in outcomes : r.author = a
    BY <2>0 DEF ActsAlone
  <2> QED
    BY <2>1, <2>2, <2>3, <2>4, <2>5, <2>6 DEF OneOutcome
<1> QED
  BY ContinueInvariance, <1>1, PTL

\* A pause whose reply dispatched a tool is never offered to another request.
THEOREM NeverOffered == Spec => []NeverOfferedAgain
<1>1. ContinueInv => NeverOfferedAgain
  <2> SUFFICES ASSUME ContinueInv, NEW a \in dispatched
               PROVE  ~ (/\ P!Active(pause)
                         /\ pause.state = "paused" \/ P!Replayable(pause))
    BY DEF NeverOfferedAgain
  <2>1. Burnt(a)
    BY DEF ContinueInv, TypeOK, ActsAlone, Acting
  <2> QED
    BY <2>1 DEF Burnt, P!Active, P!Replayable
<1> QED
  BY ContinueInvariance, <1>1, PTL

\* No tool runs once the outcome of the conversation is journaled.
THEOREM QuietAfterTheOutcome == Spec => NothingRunsAfterTheOutcome
<1>1. ContinueInv /\ [Next]_vars => [outcomes # {} => dispatched' = dispatched]_vars
  <2> SUFFICES ASSUME ContinueInv, [Next]_vars, outcomes # {}, dispatched' # dispatched
               PROVE  FALSE
    OBVIOUS
  <2>1. CASE Tick \/ Discard \/ Sweep \/ UNCHANGED vars
    BY Zenon, <2>1 DEF Tick, Discard, Sweep, vars
  <2>2. ASSUME NEW a \in Attempts, Dispatch(a) PROVE FALSE
    BY <2>2 DEF ContinueInv, ActsAlone, Dispatch
  <2>3. ASSUME NEW a \in Attempts,
               \/ Arrive(a) \/ Begin(a) \/ RecoverOutcome(a) \/ Check(a) \/ Reconcile(a)
               \/ Claim(a) \/ ClaimFails(a) \/ Reject(a) \/ Terminate(a) \/ Resume(a)
               \/ RenewReceipt(a) \/ RenewSession(a) \/ NextCalls(a) \/ MarkProgress(a)
        PROVE  FALSE
    BY Zenon, <2>3 DEF Arrive, Begin, RecoverOutcome, Check, Reconcile, Claim, ClaimFails, Reject,
           Terminate, Resume, RenewReceipt, RenewSession, NextCalls, MarkProgress
  <2>4. ASSUME NEW a \in Attempts,
               \/ MarkProgressFails(a) \/ MarkEffectStarted(a) \/ Conclude(a)
               \/ Raise(a) \/ CancelRun(a)
               \/ Journal(a) \/ JournalFails(a) \/ CancelJournal(a) \/ Complete(a) \/ CompleteFails(a)
        PROVE  FALSE
    BY Zenon, <2>4 DEF MarkProgressFails, MarkEffectStarted, Conclude, Raise, CancelRun, Journal,
           JournalFails, CancelJournal, Complete, CompleteFails
  <2>5. ASSUME NEW a \in Attempts,
               \/ Recheck(a) \/ Decide(a) \/ Undo(a) \/ AbortSlow(a) \/ Release(a) \/ Consume(a)
               \/ Abort(a) \/ LateCall(a) \/ Leave(a) \/ MoveNext(a)
        PROVE  FALSE
    BY Zenon, <2>5 DEF Recheck, Decide, Undo, AbortSlow, Release, Consume, Abort, LateCall, Leave,
           MoveNext
  <2> QED
    BY Zenon, <2>1, <2>2, <2>3, <2>4, <2>5 DEF Next
<1> QED
  BY ContinueInvariance, <1>1, PTL DEF Spec, NothingRunsAfterTheOutcome
=============================================================================
