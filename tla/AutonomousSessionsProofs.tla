----------------------- MODULE AutonomousSessionsProofs -----------------------
(***************************************************************************)
(* What services/autonomous_sessions.py guarantees for any number of       *)
(* conversations, attempts, replies and responses, any TTL, lease and      *)
(* capacity, any clock and any number of faults.                           *)
(***************************************************************************)
EXTENDS AutonomousSessions, FiniteSetTheorems, TLAPS

-----------------------------------------------------------------------------
(***************************************************************************)
(* What a transaction may do to one row                                    *)
(***************************************************************************)

\* The cases of a sweep.
LEMMA ReapCases ==
    ASSUME NEW row, NEW t
    PROVE  /\ ~ Stale(row, t) => ReapRow(row, t) = row
           /\ Stale(row, t) /\ ~ Replayable(row) => ReapRow(row, t) = Fenced(row)
           /\ Stale(row, t) /\ Replayable(row) =>
                  ReapRow(row, t) = [row EXCEPT !.state = "paused", !.token = None,
                                                !.lease = NoLease]
BY Zenon DEF ReapRow

\* The cases of a claim.
LEMMA ClaimCases ==
    ASSUME NEW row, NEW owned, NEW a, NEW f, NEW t,
           NEW verdict, verdict = ClaimAnswer(row, owned, f, t)
    PROVE  /\ verdict = "claimed" => ClaimRow(row, owned, a, f, t) = ClaimedRow(row, a, f, t)
           /\ verdict = "fenced" =>
                  ClaimRow(row, owned, a, f, t)
                      = [Fenced(row) EXCEPT !.fingerprint = IF @ = None THEN f ELSE @]
           /\ verdict = "expired" => ClaimRow(row, owned, a, f, t) = NoPause
           /\ verdict \notin {"claimed", "fenced", "expired"} =>
                  ClaimRow(row, owned, a, f, t) = row
BY Zenon DEF ClaimRow

\* A row holds nothing that belongs to another state than its own.
Tidy(row) ==
    /\ row.state = "absent" => row = NoPause
    /\ row.outcome # "none" => row.state = "in_flight" /\ row.token = None
    /\ row.outcome = "completed" => row.fingerprint # None
    /\ row.state = "paused" => row.token = None

\* A tombstone keeps its verdict until it is over, nothing becomes active
\* again, and a claim that had effects keeps its owner until it ends.
Evolves(row, next, t) ==
    /\ row.outcome # "none" =>
           \/ /\ next.outcome = row.outcome /\ next.response = row.response
              /\ next.fingerprint = row.fingerprint
           \/ next = NoPause /\ Expired(row, t)
    /\ row.state = "absent" => next = row
    /\ Active(next) => Active(row)
    /\ Active(row) /\ Active(next) /\ row.token # None /\ row.progress =>
           next.token = row.token /\ next.progress

\* No claim comes into being: who holds the row next holds it already.
NoNewClaim(row, next, t) ==
    /\ Active(next) /\ next.token # None =>
           next.token = row.token /\ next.fingerprint = row.fingerprint
    /\ \A a \in Attempts : Owns(next, a, t) => Owns(row, a, t)

\* No claim becomes one that had effects.
NoNewMark(row, next) ==
    Active(next) /\ next.token # None /\ next.progress =>
        Active(row) /\ next.token = row.token /\ row.progress

\* What sweeping, discarding and evicting may leave of a row.
Swepts(row, t) == {row, SweptRow(row, t), DiscardRow(row, t)}

\* The conversations a table may lose are those that nobody is continuing.
LEMMA SweptsEvolve ==
    ASSUME NEW row \in Pause, Tidy(row), NEW t \in Nat, NEW next \in Swepts(row, t)
    PROVE  /\ next \in Pause /\ Tidy(next) /\ Evolves(row, next, t)
           /\ NoNewClaim(row, next, t) /\ NoNewMark(row, next)
           /\ next.outcome = "completed" => row.outcome = "completed"
           /\ Active(next) => next.fingerprint = row.fingerprint
           /\ \A a \in Attempts : Owns(row, a, t) => next = row
<1> DEFINE Fine(n) ==
        /\ n \in Pause /\ Tidy(n) /\ Evolves(row, n, t) /\ NoNewClaim(row, n, t)
        /\ NoNewMark(row, n)
        /\ n.outcome = "completed" => row.outcome = "completed"
        /\ Active(n) => n.fingerprint = row.fingerprint
        /\ \A a \in Attempts : Owns(row, a, t) => n = row
<1>0. /\ ~ Stale(row, t) => ReapRow(row, t) = row
      /\ Stale(row, t) /\ ~ Replayable(row) => ReapRow(row, t) = Fenced(row)
      /\ Stale(row, t) /\ Replayable(row) =>
             ReapRow(row, t) = [row EXCEPT !.state = "paused", !.token = None, !.lease = NoLease]
  BY ReapCases
<1> USE DEF Evolves, NoNewClaim, NoNewMark, Tidy, Active, Pause, Owns, LeaseLive, Expired
<1>1. Fine(row)
  OBVIOUS
<1>2. NoPause \in Pause /\ Tidy(NoPause) /\ NoPause.state = "absent"
  BY DEF NoPause, NoLease
<1>3. ASSUME row.state = "paused" \/ ~ LeaseLive(row, t), Expired(row, t) PROVE Fine(NoPause)
  BY <1>2, <1>3, NoneAssumption DEF NoPause
<1>4. Fine(ReapRow(row, t))
  <2>1. CASE Stale(row, t)
    <3>1. CASE Replayable(row)
      <4>1. PICK n : n = ReapRow(row, t)
        OBVIOUS
      <4>2. /\ n \in Pause /\ n.state = "paused" /\ n.token = None
            /\ n.outcome = row.outcome /\ n.fingerprint = row.fingerprint
        BY <1>0, <2>1, <3>1, <4>1 DEF NoLease
      <4> QED
        BY <2>1, <3>1, <4>1, <4>2, NoneAssumption DEF Stale, Replayable
    <3>2. CASE ~ Replayable(row)
      <4>1. PICK n : n = ReapRow(row, t)
        OBVIOUS
      <4>2. /\ n \in Pause /\ n.state = row.state /\ n.token = None /\ n.outcome = "ambiguous"
        BY <1>0, <2>1, <3>2, <4>1 DEF Fenced, NoLease
      <4> QED
        BY <2>1, <3>2, <4>1, <4>2, NoneAssumption DEF Stale
    <3> QED
      BY <3>1, <3>2
  <2>2. CASE ~ Stale(row, t)
    BY <1>0, <1>1, <2>2
  <2> QED
    BY <2>1, <2>2
<1>5. Expired(row, t) => ReapRow(row, t) = row
  BY <1>0 DEF Stale
<1>6. Expired(ReapRow(row, t), t) => Expired(row, t)
  BY <1>0 DEF Stale, Replayable, Fenced
<1>7. Fine(SweptRow(row, t))
  <2> HIDE DEF Fine
  <2>1. CASE Expired(row, t)
    BY <1>1, <1>3, <1>5, <2>1 DEF SweptRow, PurgeRow
  <2>2. CASE ~ Expired(row, t)
    <3>1. SweptRow(row, t) = ReapRow(row, t)
      BY <1>6, <2>2 DEF SweptRow, PurgeRow
    <3> QED
      BY <1>4, <3>1
  <2> QED
    BY <2>1, <2>2
<1>8. ASSUME Active(SweptRow(row, t)), SweptRow(row, t).state = "paused"
      PROVE  Fine(NoPause)
  <2>1. ~ \E a \in Attempts : Owns(row, a, t)
    BY <1>7, <1>8
  <2>2. Active(row)
    BY <1>7, <1>8
  <2> QED
    BY <1>2, <2>1, <2>2, NoneAssumption DEF NoPause
<1>9. Fine(DiscardRow(row, t))
  BY <1>7, <1>8 DEF DiscardRow
<1> QED
  BY <1>1, <1>7, <1>9 DEF Swepts

\* A row that is claimed, fenced by a claim, or renewed by its owner.
LEMMA ClaimedTyped ==
    ASSUME NEW row \in Pause, NEW t \in Nat, NEW a \in Attempts, NEW f \in Fingerprints
    PROVE  /\ ClaimedRow(row, a, f, t) \in Pause
           /\ ClaimedRow(row, a, f, t).state = "in_flight"
           /\ ClaimedRow(row, a, f, t).outcome = row.outcome
           /\ ClaimedRow(row, a, f, t).token = a
           /\ ClaimedRow(row, a, f, t).fingerprint = f
           /\ ~ ClaimedRow(row, a, f, t).progress
<1> DEFINE new == ClaimedRow(row, a, f, t)
<1>1. ClaimedExpiry(t) \in Nat /\ t + OperationLeaseSeconds \in Nat
  BY LimitsAssumption DEF ClaimedExpiry
<1>2. new \in Pause
  BY <1>1 DEF ClaimedRow, Pause
<1>3. /\ new.state = "in_flight" /\ new.outcome = row.outcome
      /\ new.token = a /\ new.fingerprint = f /\ ~ new.progress
  BY DEF ClaimedRow, Pause
<1> QED
  BY <1>2, <1>3

FencedBy(row, f) == [Fenced(row) EXCEPT !.fingerprint = IF @ = None THEN f ELSE @]

\* A pause that is fenced is in doubt, keeps its state, and nobody owns it.
LEMMA FencedTyped ==
    ASSUME NEW row \in Pause, NEW f \in Fingerprints
    PROVE  /\ FencedBy(row, f) \in Pause /\ FencedBy(row, f).outcome = "ambiguous"
           /\ FencedBy(row, f).state = row.state /\ FencedBy(row, f).token = None
<1>1. Fenced(row) \in Pause
  BY DEF Fenced, Pause, NoLease
<1>2. /\ Fenced(row).outcome = "ambiguous" /\ Fenced(row).state = row.state
      /\ Fenced(row).token = None
  BY DEF Fenced, Pause
<1>3. PICK g \in Fingerprints \cup {None} : FencedBy(row, f) = [Fenced(row) EXCEPT !.fingerprint = g]
  <2>1. Fenced(row).fingerprint \in Fingerprints \cup {None}
    BY <1>1 DEF Pause
  <2> QED
    BY <2>1 DEF FencedBy
<1> QED
  BY <1>1, <1>2, <1>3 DEF Pause

\* A renewal and a progress mark keep owner, reply and outcome of a claim.
LEMMA RenewedTyped ==
    ASSUME NEW row \in Pause, NEW t \in Nat, NEW a \in Attempts, Owns(row, a, t),
           NEW next, next = RenewRow(row, a, t) \/ next = MarkProgressRow(row, a, t)
    PROVE  /\ next \in Pause /\ next.state = row.state /\ next.outcome = row.outcome
           /\ next.token = row.token /\ next.fingerprint = row.fingerprint
           /\ row.progress => next.progress
<1>1. ClaimedExpiry(t) \in Nat /\ t + OperationLeaseSeconds \in Nat
  BY LimitsAssumption DEF ClaimedExpiry
<1>2. row.lease \in Nat \cup {-1} /\ row.expires \in Nat
  BY DEF Pause, NoLease
<1>3. PICK l \in Nat \cup {-1}, e \in Nat :
          \/ next = [row EXCEPT !.lease = l, !.expires = e]
          \/ next = [row EXCEPT !.progress = TRUE, !.lease = l, !.expires = e]
  <2>1. CASE next = RenewRow(row, a, t)
    <3>1. /\ Later(row.lease, t + OperationLeaseSeconds) \in Nat \cup {-1}
          /\ Later(row.expires, ClaimedExpiry(t)) \in Nat
      BY <1>1, <1>2 DEF Later
    <3> QED
      BY Zenon, <2>1, <3>1 DEF RenewRow
  <2>2. CASE next = MarkProgressRow(row, a, t)
    <3>1. t + OperationLeaseSeconds \in Nat \cup {-1}
      BY <1>1
    <3> QED
      BY Zenon, <1>1, <2>2, <3>1 DEF MarkProgressRow
  <2> QED
    BY <2>1, <2>2
<1> DEFINE Renewed(r) == /\ r \in Pause /\ r.state = row.state /\ r.outcome = row.outcome
                         /\ r.token = row.token /\ r.fingerprint = row.fingerprint
                         /\ row.progress => r.progress
<1>4. Renewed([row EXCEPT !.lease = l, !.expires = e])
  BY DEF Pause, NoLease
<1>5. Renewed([row EXCEPT !.progress = TRUE, !.lease = l, !.expires = e])
  BY DEF Pause, NoLease
<1>6. Renewed(next)
  <2> HIDE DEF Renewed
  <2> QED
    BY Zenon, <1>3, <1>4, <1>5
<1> QED
  BY Zenon, <1>6

\* What claim() grants, on whose row.
LEMMA ClaimsEvolve ==
    ASSUME NEW row \in Pause, Tidy(row), NEW t \in Nat, NEW a \in Attempts,
           NEW f \in Fingerprints, NEW owned \in BOOLEAN,
           NEW next, next = ClaimRow(row, owned, a, f, t),
           NEW verdict, verdict = ClaimAnswer(row, owned, f, t)
    PROVE  /\ verdict \in Answers
           /\ next \in Pause /\ Tidy(next) /\ Evolves(row, next, t) /\ NoNewMark(row, next)
           /\ next.outcome = "completed" => row.outcome = "completed"
           /\ verdict = "completed" => row.outcome = "completed" /\ row.fingerprint = f
           /\ verdict # "claimed" =>
                  /\ NoNewClaim(row, next, t)
                  /\ Active(next) => next.fingerprint = row.fingerprint
           /\ verdict = "claimed" =>
                  /\ Active(row) /\ row.fingerprint \in {None, f}
                  /\ next.token = a /\ next.fingerprint = f /\ ~ next.progress
                  /\ row.token # None => ~ row.progress
           /\ \A b \in Attempts : Owns(row, b, t) => next = row
<1>0. /\ verdict = "claimed" => next = ClaimedRow(row, a, f, t)
      /\ verdict = "fenced" =>
             next = FencedBy(row, f)
      /\ verdict = "expired" => next = NoPause
      /\ verdict \notin {"claimed", "fenced", "expired"} => next = row
  BY ClaimCases DEF FencedBy
<1>a. verdict = "claimed" =>
          /\ next \in Pause /\ next.state = "in_flight" /\ next.outcome = row.outcome
          /\ next.token = a /\ next.fingerprint = f /\ ~ next.progress
  BY <1>0, ClaimedTyped
<1>b. verdict = "fenced" =>
          next \in Pause /\ next.outcome = "ambiguous" /\ next.state = row.state /\ next.token = None
  BY <1>0, FencedTyped
<1> USE DEF Evolves, NoNewClaim, NoNewMark, Tidy, Active, Pause, Owns, LeaseLive, Expired
<1>1. verdict \in {"missing", "expired", "ambiguous", "completed", "payload_mismatch",
                   "in_progress", "fenced", "claimed"}
  BY DEF ClaimAnswer, TombstoneAnswer, PauseAnswer
<1>2. verdict = "completed" =>
          row.state # "absent" /\ row.outcome = "completed" /\ row.fingerprint = f
  BY DEF ClaimAnswer, TombstoneAnswer, PauseAnswer
<1>3. verdict \in {"fenced", "claimed"} =>
          /\ Active(row) /\ row.fingerprint \in {None, f} /\ ~ LeaseLive(row, t)
          /\ verdict = "claimed" => ~ (row.state = "in_flight" /\ ~ Replayable(row))
          /\ verdict = "fenced" => row.state = "in_flight"
  BY DEF ClaimAnswer, TombstoneAnswer, PauseAnswer, Bound
<1>4. verdict = "expired" => row.state # "absent" /\ Expired(row, t)
  BY DEF ClaimAnswer, TombstoneAnswer, PauseAnswer
<1>5. CASE verdict = "claimed"
  BY <1>3, <1>5, <1>a, NoneAssumption DEF Answers, Replayable
<1>6. CASE verdict = "fenced"
  BY <1>3, <1>6, <1>b, NoneAssumption DEF Answers
<1>7. CASE verdict = "expired"
  <2>1. next = NoPause
    BY <1>0, <1>7
  <2>2. next \in Pause /\ next.state = "absent" /\ next.outcome = "none" /\ next.token = None
    BY <2>1 DEF NoPause, NoLease
  <2> QED
    BY <1>4, <1>7, <2>1, <2>2, NoneAssumption DEF Answers
<1>8. CASE verdict \notin {"claimed", "fenced", "expired"}
  <2>1. next = row
    BY <1>0, <1>8
  <2> QED
    BY <1>1, <1>2, <1>8, <2>1 DEF Answers
<1> QED
  BY <1>5, <1>6, <1>7, <1>8

\* What the owner of a claim may do to its row; nobody else does anything.
LEMMA OwnersEvolve ==
    ASSUME NEW row \in Pause, Tidy(row), NEW t \in Nat, NEW a \in Attempts,
           NEW next \in {RenewRow(row, a, t), MarkProgressRow(row, a, t), CancelRow(row, a, t),
                         ConsumeRow(row, a, t)} \cup {FinishRow(row, a, r, t) : r \in Responses}
    PROVE  /\ next \in Pause /\ Tidy(next) /\ Evolves(row, next, t)
           /\ NoNewClaim(row, next, t)
           /\ ~ Owns(row, a, t) => next = row
           /\ next \in {RenewRow(row, a, t), MarkProgressRow(row, a, t), ConsumeRow(row, a, t)} =>
                  /\ Active(next) => next.fingerprint = row.fingerprint
                  /\ next.outcome = "completed" => row.outcome = "completed"
<1>a. Owns(row, a, t) /\ (next = RenewRow(row, a, t) \/ next = MarkProgressRow(row, a, t)) =>
          /\ next \in Pause /\ next.state = row.state /\ next.outcome = row.outcome
          /\ next.token = row.token /\ next.fingerprint = row.fingerprint
          /\ row.progress => next.progress
  BY RenewedTyped
<1> USE DEF Evolves, NoNewClaim, Tidy, Active, Pause, Owns, LeaseLive, Expired
<1> DEFINE Fine == /\ next \in Pause /\ Tidy(next) /\ Evolves(row, next, t)
                   /\ NoNewClaim(row, next, t)
                   /\ ~ Owns(row, a, t) => next = row
<1>1. CASE next = row
  BY <1>1
<1>2. ASSUME Owns(row, a, t), next = RenewRow(row, a, t) \/ next = MarkProgressRow(row, a, t)
      PROVE  /\ next \in Pause /\ next.state = row.state /\ next.outcome = row.outcome
             /\ next.token = row.token /\ next.fingerprint = row.fingerprint
             /\ row.progress => next.progress
  BY Zenon, <1>2, <1>a
<1>3. ASSUME MayCancel(row, a, t), next = CancelRow(row, a, t)
      PROVE  /\ next \in Pause /\ next.state = "paused" /\ next.outcome = row.outcome
             /\ next.token = None /\ ~ row.progress
  BY <1>3 DEF CancelRow, MayCancel, NoLease
<1>4. ASSUME Owns(row, a, t), next = ConsumeRow(row, a, t)
      PROVE  /\ next \in Pause /\ next = NoPause /\ next.state = "absent"
             /\ next.outcome = "none" /\ next.token = None
  BY <1>4 DEF ConsumeRow, NoPause, NoLease
<1>5. ASSUME NEW r \in Responses, MayFinish(row, a, t), next = FinishRow(row, a, r, t)
      PROVE  /\ next \in Pause /\ next.state = row.state /\ next.outcome = "completed"
             /\ next.token = None /\ next.fingerprint # None
  <2>1. t + TtlSeconds \in Nat
    BY LimitsAssumption
  <2> QED
    BY <1>5, <2>1 DEF FinishRow, MayFinish, NoLease
<1>6. CASE Owns(row, a, t) /\ next \in {RenewRow(row, a, t), MarkProgressRow(row, a, t)}
  BY <1>2, <1>6, NoneAssumption
<1>7. ASSUME MayCancel(row, a, t), next = CancelRow(row, a, t) PROVE Fine
  BY <1>3, <1>7, NoneAssumption DEF MayCancel
<1>8. CASE Owns(row, a, t) /\ next = ConsumeRow(row, a, t)
  BY <1>4, <1>8, NoneAssumption
<1>9. ASSUME NEW r \in Responses, MayFinish(row, a, t), next = FinishRow(row, a, r, t)
      PROVE  Fine
  BY <1>5, <1>9, NoneAssumption DEF MayFinish
<1>10. \/ next = row
       \/ Owns(row, a, t) /\ next \in {RenewRow(row, a, t), MarkProgressRow(row, a, t)}
       \/ MayCancel(row, a, t) /\ next = CancelRow(row, a, t)
       \/ Owns(row, a, t) /\ next = ConsumeRow(row, a, t)
       \/ \E r \in Responses : MayFinish(row, a, t) /\ next = FinishRow(row, a, r, t)
  BY DEF RenewRow, MarkProgressRow, CancelRow, ConsumeRow, FinishRow
<1>11. Fine
  BY <1>1, <1>6, <1>7, <1>8, <1>9, <1>10
<1>12. ASSUME next \in {RenewRow(row, a, t), MarkProgressRow(row, a, t), ConsumeRow(row, a, t)}
       PROVE  /\ Active(next) => next.fingerprint = row.fingerprint
              /\ next.outcome = "completed" => row.outcome = "completed"
  <2>1. \/ next = row
        \/ Owns(row, a, t) /\ next \in {RenewRow(row, a, t), MarkProgressRow(row, a, t)}
        \/ Owns(row, a, t) /\ next = ConsumeRow(row, a, t)
    BY <1>12 DEF RenewRow, MarkProgressRow, ConsumeRow
  <2> QED
    BY <1>1, <1>6, <1>8, <2>1
<1> QED
  BY <1>11, <1>12

\* A refused request of an owner leaves the row as it is.
LEMMA RefusalsChangeNothing ==
    ASSUME NEW row, NEW t, NEW a, NEW r
    PROVE  /\ ~ MayCancel(row, a, t) => CancelRow(row, a, t) = row
           /\ ~ MayFinish(row, a, t) => FinishRow(row, a, r, t) = row
BY DEF CancelRow, FinishRow

\* A barrier that was granted is recorded in the row.
LEMMA BarriersAreRecorded ==
    ASSUME NEW row \in Pause, NEW a, NEW t, Owns(row, a, t)
    PROVE  /\ Active(MarkProgressRow(row, a, t))
           /\ MarkProgressRow(row, a, t).token = a /\ MarkProgressRow(row, a, t).progress
BY DEF MarkProgressRow, Owns, Active, Pause

\* A cancelled claim leaves the row unlocked and unbound.
LEMMA CancelsUnbind ==
    ASSUME NEW row \in Pause, NEW a, NEW t, MayCancel(row, a, t)
    PROVE  /\ Active(row) /\ CancelRow(row, a, t).state = "paused"
           /\ CancelRow(row, a, t).fingerprint = None
BY DEF CancelRow, MayCancel, Owns, Active, Pause

\* A finished claim is a completed tombstone of the reply it was claimed for.
LEMMA FinishesComplete ==
    ASSUME NEW row \in Pause, NEW a \in Attempts, NEW t \in Nat, NEW r \in Responses,
           MayFinish(row, a, t)
    PROVE  /\ Active(row) /\ row.token = a /\ row.fingerprint # None
           /\ FinishRow(row, a, r, t).outcome = "completed"
           /\ FinishRow(row, a, r, t).response = r
           /\ FinishRow(row, a, r, t).fingerprint = row.fingerprint
BY DEF FinishRow, MayFinish, Owns, Active, Pause

\* A new pause is active and nobody's.
LEMMA NewPausesAreFree ==
    ASSUME NEW t \in Nat
    PROVE  /\ NewPause(t) \in Pause /\ Tidy(NewPause(t)) /\ Active(NewPause(t))
           /\ NewPause(t).outcome = "none" /\ NewPause(t).token = None
           /\ NewPause(t).fingerprint = None
<1>1. t + TtlSeconds \in Nat
  BY LimitsAssumption
<1> QED
  BY <1>1 DEF NewPause, NoPause, NoLease, Pause, Tidy, Active

-----------------------------------------------------------------------------
(***************************************************************************)
(* What a transaction may do to the table                                  *)
(***************************************************************************)
TidyTable(table) == /\ table \in [Conversations -> Pause]
                    /\ \A k \in Conversations : Tidy(table[k])

\* A table holds finitely many active pauses, no more than it may.
Bounded(table) == /\ IsFiniteSet(ActiveKeys(table))
                  /\ Cardinality(ActiveKeys(table)) <= MaxCount

\* A table in which nothing became active is bounded as before.
LEMMA NothingNewIsBounded ==
    ASSUME NEW table, NEW next, Bounded(table),
           \A h \in Conversations : Active(next[h]) => Active(table[h])
    PROVE  Bounded(next)
<1>1. ActiveKeys(next) \in SUBSET ActiveKeys(table)
  BY DEF ActiveKeys
<1>2. /\ IsFiniteSet(ActiveKeys(next))
      /\ Cardinality(ActiveKeys(next)) <= Cardinality(ActiveKeys(table))
  BY <1>1, FS_Subset DEF Bounded
<1>3. Cardinality(ActiveKeys(next)) \in Nat /\ Cardinality(ActiveKeys(table)) \in Nat
  BY <1>2, FS_CardinalityType DEF Bounded
<1> QED
  BY <1>2, <1>3, LimitsAssumption DEF Bounded

\* Making room for a pause: it stays, and every other row is kept or was
\* discarded; what is left is within the capacity.
LEMMA EvictionsMakeRoom ==
    ASSUME NEW table, TidyTable(table), NEW k \in Conversations, NEW E \in Evictions(table, k)
    PROVE  /\ Without(table, E) \in [Conversations -> Pause]
           /\ \A h \in Conversations :
                 /\ h \notin E => Without(table, E)[h] = table[h]
                 /\ h \in E => /\ Without(table, E)[h] = NoPause /\ h # k
                               /\ Active(table[h]) /\ table[h].state = "paused"
           /\ IsFiniteSet(ActiveKeys(table)) => Bounded(Without(table, E))
<1>1. NoPause \in Pause /\ ~ Active(NoPause)
  BY DEF NoPause, Pause, NoLease, Active
<1>2. Without(table, E) \in [Conversations -> Pause]
  BY <1>1 DEF Without, TidyTable
<1>3. E \subseteq Evictable(table, k)
  BY DEF Evictions
<1>4. \A h \in Conversations :
          /\ h \notin E => Without(table, E)[h] = table[h]
          /\ h \in E => /\ Without(table, E)[h] = NoPause /\ h # k
                        /\ Active(table[h]) /\ table[h].state = "paused"
  BY <1>3 DEF Without, Evictable, ActiveKeys
<1>5. ASSUME IsFiniteSet(ActiveKeys(table))
      PROVE  Bounded(Without(table, E))
  <2> DEFINE A == ActiveKeys(table)
  <2>1. ActiveKeys(Without(table, E)) = A \ E
    BY <1>1, <1>4 DEF ActiveKeys
  <2>2. E \subseteq A
    BY <1>3 DEF Evictable, ActiveKeys
  <2>3. A \cap E = E /\ E \in SUBSET A /\ IsFiniteSet(A)
    BY <1>5, <2>2
  <2> HIDE DEF A
  <2>4. /\ IsFiniteSet(E) /\ IsFiniteSet(A \ E)
        /\ Cardinality(A \ E) = Cardinality(A) - Cardinality(E)
    <3>1. IsFiniteSet(E)
      BY <2>3, FS_Subset
    <3> QED
      BY <2>3, <3>1, FS_Difference
  <2>5. Cardinality(A) \in Nat /\ Cardinality(E) \in Nat
    BY <2>3, <2>4, FS_CardinalityType
  <2>6. Cardinality(E) = IF Cardinality(A) - MaxCount <= 0 THEN 0 ELSE Cardinality(A) - MaxCount
    BY DEF Evictions, A
  <2> QED
    BY <2>1, <2>4, <2>5, <2>6, LimitsAssumption DEF Bounded
<1> QED
  BY <1>2, <1>4, <1>5

\* A sweep of the table is one of every row.
LEMMA SweepsEvolve ==
    ASSUME NEW table, TidyTable(table), NEW t \in Nat
    PROVE  /\ TidyTable(Swept(table, t))
           /\ \A h \in Conversations : Swept(table, t)[h] = SweptRow(table[h], t)
           /\ ActiveKeys(Swept(table, t)) \subseteq ActiveKeys(table)
<1>1. \A h \in Conversations : Swept(table, t)[h] = SweptRow(table[h], t)
  BY DEF Swept
<1>2. ASSUME NEW h \in Conversations
      PROVE  /\ SweptRow(table[h], t) \in Pause /\ Tidy(SweptRow(table[h], t))
             /\ Active(SweptRow(table[h], t)) => Active(table[h])
  BY SweptsEvolve DEF TidyTable, Swepts, Evolves
<1> QED
  BY <1>1, <1>2 DEF TidyTable, Swept, ActiveKeys

\* Inserting a pause in a swept table whose other rows are as given.
LEMMA Insertions ==
    ASSUME NEW table, TidyTable(table), NEW t \in Nat, NEW n \in Conversations,
           NEW filled, TidyTable(filled), filled[n] = NewPause(t),
           NEW E \in Evictions(filled, n)
    PROVE  /\ Without(filled, E) \in [Conversations -> Pause]
           /\ Without(filled, E)[n] = NewPause(t)
           /\ \A h \in Conversations :
                 filled[h] = SweptRow(table[h], t) => Without(filled, E)[h] \in Swepts(table[h], t)
           /\ \A h \in Conversations : ~ Active(filled[h]) => Without(filled, E)[h] = filled[h]
           /\ /\ Bounded(table)
              /\ \A h \in Conversations : Active(filled[h]) => h = n \/ Active(table[h])
              => Bounded(Without(filled, E))
<1>1. /\ Without(filled, E) \in [Conversations -> Pause]
      /\ \A h \in Conversations :
            /\ h \notin E => Without(filled, E)[h] = filled[h]
            /\ h \in E => /\ Without(filled, E)[h] = NoPause /\ h # n
                          /\ Active(filled[h]) /\ filled[h].state = "paused"
  BY EvictionsMakeRoom
<1>2. ASSUME NEW h \in Conversations, filled[h] = SweptRow(table[h], t)
      PROVE  Without(filled, E)[h] \in Swepts(table[h], t)
  <2>1. CASE h \notin E
    BY <1>1, <1>2, <2>1 DEF Swepts
  <2>2. CASE h \in E
    BY <1>1, <1>2, <2>2 DEF Swepts, DiscardRow
  <2> QED
    BY <2>1, <2>2
<1>3. ASSUME Bounded(table),
             \A h \in Conversations : Active(filled[h]) => h = n \/ Active(table[h])
      PROVE  Bounded(Without(filled, E))
  <2>1. ActiveKeys(filled) \in SUBSET (ActiveKeys(table) \cup {n})
    BY <1>3 DEF ActiveKeys
  <2>2. IsFiniteSet(ActiveKeys(table) \cup {n})
    BY <1>3, FS_AddElement DEF Bounded
  <2>3. IsFiniteSet(ActiveKeys(filled))
    BY <2>1, <2>2, FS_Subset
  <2> QED
    BY <2>3, EvictionsMakeRoom
<1> QED
  BY <1>1, <1>2, <1>3

-----------------------------------------------------------------------------
(***************************************************************************)
(* What a step of the system may do to one conversation                    *)
(***************************************************************************)

\* The attempt owns a claim, or a thread of it still works on one.
Busy(a) == pc[a] \in {"holding", "marked", "releasing"} \/ late[a] # "none"

\* The step is one of the attempt's own.
Moves(a) == pc'[a] # pc[a] \/ late'[a] # late[a]

QuietKey(k) ==
    /\ pauses'[k] \in Swepts(pauses[k], now)
    /\ settled'[k] = settled[k] /\ bound'[k] = bound[k]

InsertedKey(k) ==
    /\ k \notin spent /\ k \in spent' /\ pauses'[k] = NewPause(now)
    /\ settled'[k] = settled[k] /\ bound'[k] = bound[k]

ClaimKey(k, a) ==
    /\ pauses'[k] = ClaimRow(pauses[k], request[a].owned, a, FingerprintOf(a), now)
    /\ settled'[k] = settled[k]
    /\ bound'[k] = IF ClaimAnswer(pauses[k], request[a].owned, FingerprintOf(a), now) = "claimed"
                   THEN FingerprintOf(a) ELSE bound[k]

OwnerKey(k, a) ==
    /\ Busy(a)
    /\ pauses'[k] \in {RenewRow(pauses[k], a, now), MarkProgressRow(pauses[k], a, now),
                       ConsumeRow(pauses[k], a, now)}
    /\ Moves(a) \/ pauses'[k] \in {RenewRow(pauses[k], a, now), MarkProgressRow(pauses[k], a, now)}
    /\ settled'[k] = settled[k] /\ bound'[k] = bound[k]

CancelKey(k, a) ==
    /\ Moves(a)
    /\ MayCancel(pauses[k], a, now)
    /\ pauses'[k] = CancelRow(pauses[k], a, now)
    /\ settled'[k] = settled[k] /\ bound'[k] = None

FinishKey(k, a, r) ==
    /\ Moves(a)
    /\ MayFinish(pauses[k], a, now)
    /\ pauses'[k] = FinishRow(pauses[k], a, r, now)
    /\ settled'[k] = Verdict(a, r) /\ bound'[k] = bound[k]

KeyStep(k) ==
    \/ QuietKey(k)
    \/ InsertedKey(k)
    \/ \E a \in Attempts : KeyOf(a) = k /\ ClaimThread(a) /\ ClaimKey(k, a)
    \/ \E a \in Attempts : KeyOf(a) = k /\ OwnerKey(k, a)
    \/ \E a \in Attempts : KeyOf(a) = k /\ CancelKey(k, a)
    \/ \E a \in Attempts, r \in Responses : KeyOf(a) = k /\ FinishKey(k, a, r)

TableStep == /\ TidyTable(pauses')
             /\ Bounded(pauses) => Bounded(pauses')
             /\ spent \subseteq spent'
             /\ \A k \in Conversations : KeyStep(k)

Ready == TypeOK /\ TidyTable(pauses)

\* The constants of a request are of their types.
LEMMA RequestsTyped ==
    ASSUME TypeOK, NEW a \in Attempts
    PROVE  /\ KeyOf(a) \in Conversations /\ FingerprintOf(a) \in Fingerprints
           /\ request[a].owned \in BOOLEAN /\ PauseOf(a) = pauses[KeyOf(a)]
           /\ PauseOf(a) \in Pause /\ now \in Nat
BY DEF TypeOK, KeyOf, FingerprintOf, PauseOf

\* A transaction on one row leaves the others alone.
LEMMA StoreTouchesOneRow ==
    ASSUME Ready, NEW a \in Attempts, NEW row \in Pause, Tidy(row), Store(a, row)
    PROVE  /\ TidyTable(pauses')
           /\ pauses'[KeyOf(a)] = row
           /\ \A k \in Conversations : k # KeyOf(a) => pauses'[k] = pauses[k]
BY RequestsTyped DEF Ready, TypeOK, TidyTable, Store

\* A conversation whose row and whose records stay is quiet.
LEMMA KeptIsQuiet ==
    ASSUME NEW k, pauses'[k] = pauses[k], settled'[k] = settled[k], bound'[k] = bound[k]
    PROVE  KeyStep(k)
BY DEF KeyStep, QuietKey, Swepts

\* A step on the conversation of one attempt.
LEMMA StepOfOneKey ==
    ASSUME Ready, NEW a \in Attempts, NEW row \in Pause, Tidy(row), Store(a, row),
           Evolves(PauseOf(a), row, now), UNCHANGED spent, KeyStep(KeyOf(a)),
           \A k \in Conversations : k # KeyOf(a) =>
               settled'[k] = settled[k] /\ bound'[k] = bound[k]
    PROVE  TableStep
<1>1. \A k \in Conversations : Active(pauses'[k]) => Active(pauses[k])
  BY StoreTouchesOneRow, RequestsTyped DEF Evolves, Ready
<1>2. Bounded(pauses) => Bounded(pauses')
  BY <1>1, NothingNewIsBounded
<1> QED
  BY <1>2, StoreTouchesOneRow, KeptIsQuiet DEF TableStep

\* claim()
LEMMA ClaimTableStep ==
    ASSUME Ready, NEW a \in Attempts, ClaimThread(a)
    PROVE  TableStep
<1> DEFINE k       == KeyOf(a)
           row     == ClaimRow(PauseOf(a), request[a].owned, a, FingerprintOf(a), now)
           verdict == ClaimAnswer(PauseOf(a), request[a].owned, FingerprintOf(a), now)
<1>1. /\ k \in Conversations /\ FingerprintOf(a) \in Fingerprints /\ now \in Nat
      /\ request[a].owned \in BOOLEAN /\ PauseOf(a) = pauses[k] /\ PauseOf(a) \in Pause
      /\ Tidy(PauseOf(a)) /\ bound \in [Conversations -> Fingerprints \cup {None}]
  BY RequestsTyped DEF Ready, TidyTable, TypeOK
<1>2. row \in Pause /\ Tidy(row) /\ Evolves(PauseOf(a), row, now)
  BY <1>1, ClaimsEvolve
<1>3. /\ Store(a, row) /\ UNCHANGED <<spent, settled>>
      /\ bound' = [bound EXCEPT ![k] = IF verdict = "claimed" THEN FingerprintOf(a) ELSE @]
  BY DEF ClaimThread
<1>4. pauses'[k] = row
  BY <1>2, <1>3, StoreTouchesOneRow
<1>5. ClaimKey(k, a)
  BY <1>1, <1>3, <1>4 DEF ClaimKey
<1>6. KeyStep(k)
  BY <1>5 DEF KeyStep
<1> QED
  BY <1>1, <1>2, <1>3, <1>6, StepOfOneKey

\* cancel(), and the cleanup of a cancelled claim().
LEMMA CancelTableStep ==
    ASSUME Ready, NEW a \in Attempts, Moves(a), Store(a, CancelRow(PauseOf(a), a, now)), Freed(a),
           UNCHANGED <<spent, settled>>
    PROVE  TableStep
<1> DEFINE k   == KeyOf(a)
           row == CancelRow(PauseOf(a), a, now)
<1>1. /\ k \in Conversations /\ now \in Nat /\ PauseOf(a) = pauses[k] /\ PauseOf(a) \in Pause
      /\ Tidy(PauseOf(a)) /\ bound \in [Conversations -> Fingerprints \cup {None}]
  BY RequestsTyped DEF Ready, TidyTable, TypeOK
<1>2. row \in Pause /\ Tidy(row) /\ Evolves(PauseOf(a), row, now)
  BY <1>1, OwnersEvolve
<1>3. pauses'[k] = row
  BY <1>2, StoreTouchesOneRow
<1>4. CASE MayCancel(PauseOf(a), a, now)
  <2>1. bound' = [bound EXCEPT ![k] = None]
    BY <1>4 DEF Freed
  <2>2. CancelKey(k, a)
    BY <1>1, <1>3, <1>4, <2>1 DEF CancelKey
  <2>3. KeyStep(k)
    BY <2>2 DEF KeyStep
  <2> QED
    BY <1>1, <1>2, <2>1, <2>3, StepOfOneKey
<1>5. CASE ~ MayCancel(PauseOf(a), a, now)
  <2>1. row = pauses[k] /\ UNCHANGED bound
    BY <1>1, <1>5, RefusalsChangeNothing DEF Freed
  <2>2. KeyStep(k)
    BY <1>3, <2>1, KeptIsQuiet
  <2> QED
    BY <1>1, <1>2, <2>1, <2>2, StepOfOneKey
<1> QED
  BY <1>4, <1>5

\* renew(), mark_progress() and consume()
LEMMA OwnerTableStep ==
    ASSUME Ready, NEW a \in Attempts, Busy(a), UNCHANGED <<spent, settled, bound>>,
           NEW row \in {RenewRow(PauseOf(a), a, now), MarkProgressRow(PauseOf(a), a, now),
                        ConsumeRow(PauseOf(a), a, now)},
           Moves(a) \/ row \in {RenewRow(PauseOf(a), a, now), MarkProgressRow(PauseOf(a), a, now)},
           Store(a, row)
    PROVE  TableStep
<1> DEFINE k == KeyOf(a)
<1>1. /\ k \in Conversations /\ now \in Nat /\ PauseOf(a) = pauses[k] /\ PauseOf(a) \in Pause
      /\ Tidy(PauseOf(a))
  BY RequestsTyped DEF Ready, TidyTable, TypeOK
<1>2. row \in Pause /\ Tidy(row) /\ Evolves(PauseOf(a), row, now)
  BY <1>1, OwnersEvolve
<1>3. pauses'[k] = row
  BY <1>2, StoreTouchesOneRow
<1>4. OwnerKey(k, a)
  BY <1>1, <1>3 DEF OwnerKey
<1>5. KeyStep(k)
  BY <1>4 DEF KeyStep
<1> QED
  BY <1>1, <1>2, <1>5, StepOfOneKey

\* finish()
LEMMA FinishTableStep ==
    ASSUME Ready, NEW a \in Attempts, NEW r \in Responses, Moves(a), Finished(a, r),
           UNCHANGED <<spent, bound>>
    PROVE  TableStep
<1> DEFINE k   == KeyOf(a)
           row == FinishRow(PauseOf(a), a, r, now)
<1>1. /\ k \in Conversations /\ now \in Nat /\ PauseOf(a) = pauses[k] /\ PauseOf(a) \in Pause
      /\ Tidy(PauseOf(a)) /\ DOMAIN settled = Conversations
      /\ settled \in [Conversations -> Verdicts \cup {NoVerdict}]
  BY RequestsTyped DEF Ready, TidyTable, TypeOK
<1>2. row \in Pause /\ Tidy(row) /\ Evolves(PauseOf(a), row, now)
  BY <1>1, OwnersEvolve
<1>3. Store(a, row)
  BY DEF Finished
<1>4. pauses'[k] = row
  BY <1>2, <1>3, StoreTouchesOneRow
<1>5. CASE MayFinish(PauseOf(a), a, now)
  <2>1. settled' = [settled EXCEPT ![k] = Verdict(a, r)]
    BY <1>5 DEF Finished
  <2>2. FinishKey(k, a, r)
    BY <1>1, <1>4, <1>5, <2>1 DEF FinishKey
  <2>3. KeyStep(k)
    BY <2>2 DEF KeyStep
  <2> QED
    BY <1>1, <1>2, <1>3, <2>1, <2>3, StepOfOneKey
<1>6. CASE ~ MayFinish(PauseOf(a), a, now)
  <2>1. row = pauses[k] /\ UNCHANGED settled
    BY <1>1, <1>6, RefusalsChangeNothing DEF Finished
  <2>2. KeyStep(k)
    BY <1>4, <2>1, KeptIsQuiet
  <2> QED
    BY <1>1, <1>2, <1>3, <2>1, <2>2, StepOfOneKey
<1> QED
  BY <1>5, <1>6

\* save()
LEMMA SaveTableStep ==
    ASSUME Ready, NEW n \in Conversations, Save(n)
    PROVE  TableStep
<1> DEFINE filled == [Swept(pauses, now) EXCEPT ![n] = NewPause(now)]
<1>1. /\ now \in Nat /\ TidyTable(pauses) /\ n \notin spent /\ spent' = spent \cup {n}
      /\ UNCHANGED <<settled, bound>>
  BY DEF Ready, TypeOK, Save
<1>2. PICK E \in Evictions(filled, n) : pauses' = Without(filled, E)
  BY DEF Save, Saved
<1>3. /\ TidyTable(filled) /\ filled[n] = NewPause(now)
      /\ \A h \in Conversations : h # n => filled[h] = SweptRow(pauses[h], now)
  BY <1>1, SweepsEvolve, NewPausesAreFree DEF TidyTable
<1> HIDE DEF filled
<1>5. /\ Without(filled, E) \in [Conversations -> Pause]
      /\ Without(filled, E)[n] = NewPause(now)
      /\ \A h \in Conversations : h # n => Without(filled, E)[h] \in Swepts(pauses[h], now)
  BY <1>1, <1>3, Insertions
<1>4. Bounded(pauses) => Bounded(pauses')
  <2>1. \A h \in Conversations : Active(filled[h]) => h = n \/ Active(pauses[h])
    BY <1>1, <1>3, SweptsEvolve DEF TidyTable, Swepts, Evolves
  <2> QED
    BY <1>1, <1>2, <1>3, <2>1, Insertions
<1>6. \A h \in Conversations : h # n => KeyStep(h)
  BY <1>1, <1>2, <1>5 DEF KeyStep, QuietKey
<1>7. KeyStep(n)
  BY <1>1, <1>2, <1>5 DEF KeyStep, InsertedKey
<1>8. \A h \in Conversations : Tidy(pauses'[h])
  BY <1>1, <1>2, <1>5, SweptsEvolve, NewPausesAreFree DEF TidyTable
<1> QED
  BY <1>1, <1>2, <1>4, <1>5, <1>6, <1>7, <1>8 DEF TableStep, TidyTable

\* handoff() by the owner of a claim
LEMMA HandoffTableStep ==
    ASSUME Ready, NEW a \in Attempts, NEW n \in Conversations, NEW r \in Responses,
           Moves(a), KeyOf(a) \in spent, HandoffGranted(a, n, r), UNCHANGED bound
    PROVE  TableStep
<1> DEFINE k      == KeyOf(a)
           swept  == Swept(pauses, now)
           filled == [swept EXCEPT ![k] = FinishRow(@, a, r, now), ![n] = NewPause(now)]
<1>1. /\ now \in Nat /\ TidyTable(pauses) /\ n \notin spent /\ spent' = spent \cup {n}
      /\ k \in Conversations /\ k # n /\ settled' = [settled EXCEPT ![k] = Verdict(a, r)]
      /\ MayFinish(pauses[k], a, now) /\ settled \in [Conversations -> Verdicts \cup {NoVerdict}]
  BY RequestsTyped DEF Ready, TypeOK, HandoffGranted
<1>2. PICK E \in Evictions(filled, n) : pauses' = Without(filled, E)
  BY DEF HandoffGranted, HandedOff
<1>3. /\ TidyTable(swept)
      /\ \A h \in Conversations : swept[h] = SweptRow(pauses[h], now)
  BY <1>1, SweepsEvolve
<1>4. swept[k] = pauses[k]
  <2>1. Owns(pauses[k], a, now)
    BY <1>1 DEF MayFinish
  <2> QED
    BY <1>1, <1>3, <2>1, SweptsEvolve DEF TidyTable, Swepts
<1> HIDE DEF swept
<1>5. FinishRow(pauses[k], a, r, now) \in Pause /\ Tidy(FinishRow(pauses[k], a, r, now))
  BY <1>1, OwnersEvolve DEF TidyTable
<1>6. /\ TidyTable(filled) /\ filled[n] = NewPause(now)
      /\ filled[k] = FinishRow(pauses[k], a, r, now)
      /\ \A h \in Conversations \ {k, n} : filled[h] = SweptRow(pauses[h], now)
  BY <1>1, <1>3, <1>4, <1>5, NewPausesAreFree DEF TidyTable
<1> HIDE DEF filled
<1>7. Bounded(pauses) => Bounded(pauses')
  <2>1. ASSUME NEW h \in Conversations, Active(filled[h]) PROVE h = n \/ Active(pauses[h])
    <3>1. h = k \/ h = n \/ h \in Conversations \ {k, n}
      OBVIOUS
    <3>2. Active(pauses[k])
      BY <1>1, FinishesComplete DEF TidyTable
    <3>3. CASE h \in Conversations \ {k, n}
      <4>1. filled[h] = SweptRow(pauses[h], now) /\ pauses[h] \in Pause /\ Tidy(pauses[h])
        BY <1>1, <1>6, <3>3 DEF TidyTable
      <4> QED
        BY <1>1, <2>1, <4>1, SweptsEvolve DEF Swepts, Evolves
    <3> QED
      BY <3>1, <3>2, <3>3
  <2> QED
    BY <1>1, <1>2, <1>6, <2>1, Insertions
<1>8. /\ Without(filled, E) \in [Conversations -> Pause]
      /\ Without(filled, E)[n] = NewPause(now)
      /\ \A h \in Conversations \ {k, n} : Without(filled, E)[h] \in Swepts(pauses[h], now)
      /\ \A h \in Conversations : ~ Active(filled[h]) => Without(filled, E)[h] = filled[h]
  BY <1>1, <1>6, Insertions
<1>9. pauses'[k] = FinishRow(pauses[k], a, r, now)
  <2>1. ~ Active(filled[k])
    BY <1>1, <1>6, FinishesComplete DEF TidyTable, Active
  <2> QED
    BY <1>1, <1>2, <1>6, <1>8, <2>1
<1>10. \A h \in Conversations \ {k, n} : KeyStep(h)
  BY <1>1, <1>2, <1>8 DEF KeyStep, QuietKey
<1>11. KeyStep(n)
  BY <1>1, <1>2, <1>8 DEF KeyStep, InsertedKey
<1>12. KeyStep(k)
  <2>1. FinishKey(k, a, r)
    BY <1>1, <1>9 DEF FinishKey
  <2> QED
    BY <2>1 DEF KeyStep
<1>13. \A h \in Conversations : Tidy(pauses'[h])
  BY <1>1, <1>2, <1>5, <1>8, <1>9, SweptsEvolve, NewPausesAreFree DEF TidyTable
<1> QED
  BY <1>1, <1>2, <1>7, <1>8, <1>10, <1>11, <1>12, <1>13 DEF TableStep, TidyTable

\* The sweep that comes before a refused handoff().
LEMMA SweepTableStep ==
    ASSUME Ready, pauses' = Swept(pauses, now), UNCHANGED <<spent, settled, bound>>
    PROVE  TableStep
<1>1. /\ TidyTable(pauses')
      /\ \A k \in Conversations : pauses'[k] = SweptRow(pauses[k], now)
  BY SweepsEvolve DEF Ready, TypeOK
<1>2. \A k \in Conversations : QuietKey(k)
  BY <1>1 DEF QuietKey, Swepts
<1>3. Bounded(pauses) => Bounded(pauses')
  <2>1. \A k \in Conversations : Active(pauses'[k]) => Active(pauses[k])
    BY <1>1, SweptsEvolve DEF Ready, TypeOK, TidyTable, Swepts, Evolves
  <2> QED
    BY <2>1, NothingNewIsBounded
<1> QED
  BY <1>1, <1>2, <1>3 DEF TableStep, KeyStep

\* A row is of an id that was inserted.
RowsAreSpent == \A k \in Conversations : pauses[k].state # "absent" => k \in spent

\* A thread that its cancelled caller left behind.
LEMMA LateTableStep ==
    ASSUME Ready, RowsAreSpent, NEW a \in Attempts, LateThread(a)
    PROVE  TableStep
<1>0. Moves(a)
  BY DEF LateThread, Moves, Ready, TypeOK
<1>1. CASE \/ late[a] = "renew" /\ Store(a, RenewRow(PauseOf(a), a, now))
              /\ UNCHANGED <<spent, settled, bound>>
           \/ late[a] = "mark" /\ Store(a, MarkProgressRow(PauseOf(a), a, now))
              /\ UNCHANGED <<spent, settled, bound>>
           \/ late[a] = "consume" /\ Store(a, ConsumeRow(PauseOf(a), a, now))
              /\ UNCHANGED <<spent, settled, bound>>
  <2>1. Busy(a)
    BY <1>1 DEF Busy
  <2> QED
    BY <1>0, <1>1, <2>1, OwnerTableStep
<1>2. CASE /\ Store(a, CancelRow(PauseOf(a), a, now)) /\ Freed(a)
           /\ UNCHANGED <<spent, settled>>
  BY <1>0, <1>2, CancelTableStep
<1>3. ASSUME NEW r \in Responses, Finished(a, r), UNCHANGED <<spent, bound>> PROVE TableStep
  BY <1>0, <1>3, FinishTableStep
<1>4. ASSUME NEW n \in Conversations, NEW r \in Responses, HandoffGranted(a, n, r),
             UNCHANGED bound
      PROVE  TableStep
  <2>1. KeyOf(a) \in spent
    BY <1>4, RequestsTyped DEF HandoffGranted, MayFinish, Owns, RowsAreSpent, Ready
  <2> QED
    BY <1>0, <1>4, <2>1, HandoffTableStep
<1>5. CASE HandoffRefused(a) /\ UNCHANGED bound
  BY <1>5, SweepTableStep DEF HandoffRefused
<1> QED
  BY <1>1, <1>2, <1>3, <1>4, <1>5 DEF LateThread

\* Every step of the system is one of these on every conversation.
LEMMA EveryTableStep ==
    ASSUME Ready, RowsAreSpent, [Next]_vars
    PROVE  TableStep
<1>1. ASSUME UNCHANGED <<pauses, spent, settled, bound>> PROVE TableStep
  BY <1>1, KeptIsQuiet DEF TableStep, Ready
<1>2. ASSUME NEW k \in Conversations, Save(k) PROVE TableStep
  BY <1>2, SaveTableStep
<1>3. ASSUME NEW k \in Conversations, Inspect(k) \/ DiscardPaused(k) PROVE TableStep
  <2>1. /\ now \in Nat /\ TidyTable(pauses) /\ UNCHANGED <<spent, settled, bound>>
        /\ \E row \in Swepts(pauses[k], now) : pauses' = [pauses EXCEPT ![k] = row]
    BY <1>3 DEF Ready, TypeOK, Inspect, DiscardPaused, Swepts
  <2>2. PICK row \in Swepts(pauses[k], now) : pauses' = [pauses EXCEPT ![k] = row]
    BY <2>1
  <2>3. row \in Pause /\ Tidy(row)
    BY <2>1, SweptsEvolve DEF TidyTable
  <2>4. /\ TidyTable(pauses') /\ pauses'[k] = row
        /\ \A h \in Conversations : h # k => pauses'[h] = pauses[h]
    BY <2>1, <2>2, <2>3 DEF TidyTable
  <2>5. KeyStep(k)
    BY <2>1, <2>4 DEF KeyStep, QuietKey
  <2>6. \A h \in Conversations : Active(pauses'[h]) => Active(pauses[h])
    BY <2>1, <2>4, SweptsEvolve DEF TidyTable, Evolves
  <2>7. Bounded(pauses) => Bounded(pauses')
    BY <2>6, NothingNewIsBounded
  <2> QED
    BY <2>1, <2>4, <2>5, <2>7, KeptIsQuiet DEF TableStep
<1>4. ASSUME NEW a \in Attempts, ClaimThread(a) PROVE TableStep
  BY <1>4, ClaimTableStep
<1>5. ASSUME NEW a \in Attempts, CleanupClaim(a) \/ Cancel(a) PROVE TableStep
  <2>1. Moves(a)
    BY <1>5 DEF CleanupClaim, Cancel, Goto, Moves, Ready, TypeOK
  <2> QED
    BY <1>5, <2>1, CancelTableStep DEF CleanupClaim, Cancel
<1>6. ASSUME NEW a \in Attempts, Renew(a) \/ MarkProgress(a) \/ Consume(a) PROVE TableStep
  <2>1. Consume(a) => Moves(a)
    BY DEF Consume, Goto, Moves, Ready, TypeOK
  <2> QED
    BY <1>6, <2>1, OwnerTableStep DEF Renew, MarkProgress, Consume, Busy
<1>7. ASSUME NEW a \in Attempts, NEW r \in Responses, Finish(a, r) PROVE TableStep
  <2>1. Moves(a)
    BY <1>7 DEF Finish, Goto, Moves, Ready, TypeOK
  <2> QED
    BY <1>7, <2>1, FinishTableStep DEF Finish
<1>8. ASSUME NEW a \in Attempts, Handoff(a) PROVE TableStep
  <2>0. Moves(a)
    BY <1>8 DEF Handoff, Goto, Moves, Ready, TypeOK
  <2>1. ASSUME NEW n \in Conversations, NEW r \in Responses, HandoffGranted(a, n, r),
               UNCHANGED bound
        PROVE  TableStep
    <3>1. KeyOf(a) \in spent
      BY <2>1, RequestsTyped DEF HandoffGranted, MayFinish, Owns, RowsAreSpent, Ready
    <3> QED
      BY <2>0, <2>1, <3>1, HandoffTableStep
  <2>2. CASE HandoffRefused(a) /\ UNCHANGED bound
    BY <2>2, SweepTableStep DEF HandoffRefused
  <2> QED
    BY <1>8, <2>1, <2>2 DEF Handoff
<1>9. ASSUME NEW a \in Attempts, LateThread(a) PROVE TableStep
  BY <1>9, LateTableStep
<1>10. ASSUME NEW a \in Attempts,
              \/ StartClaim(a) \/ ClaimThreadFails(a) \/ ClaimReturns(a) \/ CancelClaim(a)
              \/ CleanupFails(a) \/ RunEffect(a) \/ Raise(a) \/ Die(a)
              \/ \E op \in LateOps : CancelInCall(a, op)
       PROVE  TableStep
  BY <1>1, <1>10 DEF StartClaim, ClaimThreadFails, ClaimReturns, CancelClaim, CleanupFails,
       RunEffect, Raise, Die, CancelInCall
<1>11. CASE Tick \/ UNCHANGED vars
  BY <1>1, <1>11 DEF Tick, vars
<1> QED
  BY <1>2, <1>3, <1>4, <1>5, <1>6, <1>7, <1>8, <1>9, <1>10, <1>11 DEF Next

-----------------------------------------------------------------------------
(***************************************************************************)
(* The inductive invariant                                                 *)
(***************************************************************************)

\* What the store and the journals know of one conversation agree.
KeyIsRecorded(k) ==
    /\ pauses[k].state # "absent" \/ settled[k] # NoVerdict \/ bound[k] # None => k \in spent
    /\ Active(pauses[k]) => pauses[k].fingerprint = bound[k] /\ settled[k] = NoVerdict
    /\ pauses[k].outcome = "completed" =>
           settled[k] = [response    |-> pauses[k].response,
                         fingerprint |-> pauses[k].fingerprint]
    /\ \A a \in Attempts : Active(pauses[k]) /\ pauses[k].token = a =>
           KeyOf(a) = k /\ pauses[k].fingerprint = FingerprintOf(a)

KeysAreRecorded == \A k \in Conversations : KeyIsRecorded(k)

\* The attempt is past its barrier, or had effects.
Acted(a) == pc[a] = "marked" \/ a \in ran[KeyOf(a)]

\* Nobody but a can act under this row, now or later.
ShutFor(row, a) == Active(row) => row.token = a /\ row.progress

\* The effects of a conversation are those of one attempt, whose claim is
\* recorded or over.
ActorsAreRecorded ==
    /\ \A k \in Conversations : \A a \in ran[k] : KeyOf(a) = k
    /\ \A a \in Attempts : Acted(a) => KeyOf(a) \in spent /\ ShutFor(PauseOf(a), a)
    /\ \A a, b \in Attempts : Acted(a) /\ Acted(b) /\ KeyOf(a) = KeyOf(b) => a = b

\* An attempt whose claim() has not returned has marked nothing.
ClaimantsAreClean ==
    \A a \in Attempts :
        pc[a] \in {"idle", "claiming", "settled", "abandoning", "abandoned"} =>
            /\ late[a] = "none"
            /\ ~ (Active(PauseOf(a)) /\ PauseOf(a).token = a /\ PauseOf(a).progress)

IInv == /\ TypeOK
        /\ TidyTable(pauses)
        /\ Bounded(pauses)
        /\ KeysAreRecorded
        /\ OutcomeOfTheSameReply
        /\ ActorsAreRecorded
        /\ ClaimantsAreClean

\* The request an attempt serves never changes.
LEMMA RequestsAreFixed ==
    ASSUME [Next]_vars
    PROVE  /\ UNCHANGED request
           /\ \A a \in Attempts : KeyOf(a)' = KeyOf(a) /\ FingerprintOf(a)' = FingerprintOf(a)
<1>1. UNCHANGED request
  BY DEF Next, vars, Tick, Save, Inspect, DiscardPaused, StartClaim, ClaimThread,
     ClaimThreadFails, ClaimReturns, CancelClaim, CleanupClaim, CleanupFails, Renew, MarkProgress,
     RunEffect, Raise, Cancel, Consume, Handoff, Finish, CancelInCall, LateThread, Die
<1> QED
  BY <1>1 DEF KeyOf, FingerprintOf

\* The invariant in pieces, as the proofs take them.
LEMMA InvariantParts ==
    ASSUME IInv
    PROVE  /\ Ready /\ RowsAreSpent
           /\ \A k \in Conversations : /\ KeyIsRecorded(k)
                                       /\ pauses[k] \in Pause /\ Tidy(pauses[k])
           /\ now \in Nat
BY DEF IInv, Ready, RowsAreSpent, KeysAreRecorded, KeyIsRecorded, TidyTable, TypeOK

\* Every step keeps the records of a conversation in agreement.
LEMMA KeyStaysRecorded ==
    ASSUME IInv, [Next]_vars, NEW k \in Conversations
    PROVE  KeyIsRecorded(k)'
<1> DEFINE row  == pauses[k]
           next == pauses'[k]
           Recorded(x, s, b) ==
               /\ Active(x) => x.fingerprint = b /\ s = NoVerdict
               /\ x.outcome = "completed" =>
                      s = [response |-> x.response, fingerprint |-> x.fingerprint]
               /\ \A a \in Attempts : Active(x) /\ x.token = a =>
                      KeyOf(a) = k /\ x.fingerprint = FingerprintOf(a)
<1>1. /\ row \in Pause /\ Tidy(row) /\ KeyIsRecorded(k) /\ now \in Nat
      /\ TableStep
      /\ \A a \in Attempts : KeyOf(a)' = KeyOf(a) /\ FingerprintOf(a)' = FingerprintOf(a)
  BY InvariantParts, EveryTableStep, RequestsAreFixed
<1>2. Recorded(row, settled[k], bound[k])
  BY <1>1 DEF KeyIsRecorded
<1>3. SUFFICES /\ next.state # "absent" \/ settled'[k] # NoVerdict \/ bound'[k] # None => k \in spent'
               /\ Recorded(next, settled'[k], bound'[k])
  BY <1>1 DEF KeyIsRecorded
<1>4. CASE QuietKey(k)
  <2>1. /\ Evolves(row, next, now) /\ NoNewClaim(row, next, now)
        /\ next.outcome = "completed" => row.outcome = "completed"
        /\ Active(next) => next.fingerprint = row.fingerprint
    BY <1>1, <1>4, SweptsEvolve DEF QuietKey
  <2>2. settled'[k] = settled[k] /\ bound'[k] = bound[k]
    BY <1>4 DEF QuietKey
  <2> QED
    BY <1>1, <1>2, <2>1, <2>2, NoneAssumption
       DEF Evolves, NoNewClaim, KeyIsRecorded, TableStep, NoPause
<1>5. CASE InsertedKey(k)
  BY <1>1, <1>5, NewPausesAreFree, NoneAssumption DEF InsertedKey, KeyIsRecorded
<1>6. ASSUME NEW a \in Attempts, KeyOf(a) = k, ClaimKey(k, a)
      PROVE  /\ next.state # "absent" \/ settled'[k] # NoVerdict \/ bound'[k] # None => k \in spent'
             /\ Recorded(next, settled'[k], bound'[k])
  <2> DEFINE verdict == ClaimAnswer(row, request[a].owned, FingerprintOf(a), now)
  <2>1. /\ Evolves(row, next, now)
        /\ next.outcome = "completed" => row.outcome = "completed"
        /\ verdict # "claimed" =>
               /\ NoNewClaim(row, next, now)
               /\ Active(next) => next.fingerprint = row.fingerprint
        /\ verdict = "claimed" =>
               /\ Active(row) /\ next.token = a /\ next.fingerprint = FingerprintOf(a)
    BY <1>1, <1>6, RequestsTyped, ClaimsEvolve DEF ClaimKey, IInv
  <2>2. /\ settled'[k] = settled[k]
        /\ bound'[k] = IF verdict = "claimed" THEN FingerprintOf(a) ELSE bound[k]
    BY <1>6 DEF ClaimKey
  <2> HIDE DEF verdict
  <2> QED
    BY <1>1, <1>2, <1>6, <2>1, <2>2, NoneAssumption
       DEF Evolves, NoNewClaim, KeyIsRecorded, TableStep, NoPause, Active
<1>7. ASSUME NEW a \in Attempts, KeyOf(a) = k, OwnerKey(k, a)
      PROVE  /\ next.state # "absent" \/ settled'[k] # NoVerdict \/ bound'[k] # None => k \in spent'
             /\ Recorded(next, settled'[k], bound'[k])
  <2>1. /\ Evolves(row, next, now) /\ NoNewClaim(row, next, now)
        /\ next.outcome = "completed" => row.outcome = "completed"
        /\ Active(next) => next.fingerprint = row.fingerprint
        /\ ~ Owns(row, a, now) => next = row
    BY <1>1, <1>7, OwnersEvolve DEF OwnerKey
  <2>2. settled'[k] = settled[k] /\ bound'[k] = bound[k]
    BY <1>7 DEF OwnerKey
  <2>3. next.outcome = "completed" => next = row
    BY <1>1, <2>1 DEF Owns
  <2> QED
    BY <1>1, <1>2, <2>1, <2>2, <2>3, NoneAssumption
       DEF Evolves, NoNewClaim, KeyIsRecorded, TableStep
<1>8. ASSUME NEW a \in Attempts, KeyOf(a) = k, CancelKey(k, a)
      PROVE  /\ next.state # "absent" \/ settled'[k] # NoVerdict \/ bound'[k] # None => k \in spent'
             /\ Recorded(next, settled'[k], bound'[k])
  <2>1. /\ Active(row) /\ next.state = "paused" /\ next.fingerprint = None
        /\ next \in Pause /\ Tidy(next)
        /\ settled'[k] = settled[k] /\ bound'[k] = None
    BY <1>1, <1>8, CancelsUnbind, OwnersEvolve DEF CancelKey
  <2> QED
    BY <1>1, <1>2, <2>1, NoneAssumption DEF KeyIsRecorded, TableStep, Active, Tidy
<1>9. ASSUME NEW a \in Attempts, NEW r \in Responses, KeyOf(a) = k, FinishKey(k, a, r)
      PROVE  /\ next.state # "absent" \/ settled'[k] # NoVerdict \/ bound'[k] # None => k \in spent'
             /\ Recorded(next, settled'[k], bound'[k])
  <2>1. /\ Active(row) /\ row.token = a
        /\ next.outcome = "completed" /\ next.response = r /\ next.fingerprint = row.fingerprint
        /\ settled'[k] = Verdict(a, r) /\ bound'[k] = bound[k]
    BY <1>1, <1>9, FinishesComplete DEF FinishKey
  <2> QED
    BY <1>1, <1>2, <1>9, <2>1 DEF KeyIsRecorded, TableStep, Active, Verdict
<1> QED
  BY <1>1, <1>4, <1>5, <1>6, <1>7, <1>8, <1>9 DEF TableStep, KeyStep

\* What finish() and handoff() leave of their request.
LEMMA OwnersAnswer ==
    ASSUME NEW a \in Attempts, Handoff(a) \/ \E r \in Responses : Finish(a, r)
    PROVE  /\ got' = got \/ \E r \in Responses : got' = [got EXCEPT ![a] = r]
           /\ Goto(a, "over") /\ UNCHANGED <<now, answer, late, ran, faults>>
<1>1. CASE Handoff(a)
  BY Zenon, <1>1 DEF Handoff
<1>2. ASSUME NEW r \in Responses, Finish(a, r) PROVE got' = got \/ got' = [got EXCEPT ![a] = r]
  BY Zenon, <1>2 DEF Finish
<1>3. CASE \E r \in Responses : Finish(a, r)
  BY Zenon, <1>2, <1>3 DEF Finish
<1> QED
  BY Zenon, <1>1, <1>3

\* Every step leaves a well-typed state well typed.
LEMMA TypeStep ==
    ASSUME IInv, [Next]_vars
    PROVE  TypeOK'
<1>1. TypeOK /\ TableStep
  BY InvariantParts, EveryTableStep DEF IInv
<1>2. pauses' \in [Conversations -> Pause]
  BY <1>1 DEF TableStep, TidyTable
<1>3. \A a \in Attempts : /\ KeyOf(a) \in Conversations /\ FingerprintOf(a) \in Fingerprints
                         /\ PauseOf(a) \in Pause /\ request[a].owned \in BOOLEAN /\ now \in Nat
                         /\ \A r \in Responses : Verdict(a, r) \in Verdicts
  BY <1>1, RequestsTyped DEF Verdicts, Verdict
<1>4. bound' \in [Conversations -> Fingerprints \cup {None}]
  <2> USE <1>1, <1>3 DEF TypeOK
  <2>1. ASSUME NEW a \in Attempts, Freed(a)
        PROVE  bound' \in [Conversations -> Fingerprints \cup {None}]
    BY <2>1 DEF Freed
  <2>2. ASSUME NEW a \in Attempts, ClaimThread(a)
        PROVE  bound' \in [Conversations -> Fingerprints \cup {None}]
    BY <2>2 DEF ClaimThread
  <2>3. \/ \E a \in Attempts : ClaimThread(a) \/ Freed(a)
        \/ UNCHANGED bound
    BY DEF Next, vars, Tick, Save, Inspect, DiscardPaused, StartClaim, ClaimThreadFails,
       ClaimReturns, CancelClaim, CleanupClaim, CleanupFails, Renew, MarkProgress, RunEffect,
       Raise, Cancel, Consume, Handoff, Finish, CancelInCall, LateThread, Die
  <2> QED
    BY <2>1, <2>2, <2>3
<1>5. settled' \in [Conversations -> Verdicts \cup {NoVerdict}]
  <2> USE <1>1, <1>3 DEF TypeOK
  <2>1. ASSUME NEW a \in Attempts, NEW r \in Responses,
               settled' = [settled EXCEPT ![KeyOf(a)] = Verdict(a, r)]
        PROVE  settled' \in [Conversations -> Verdicts \cup {NoVerdict}]
    BY <2>1
  <2>2. \/ \E a \in Attempts, r \in Responses :
               settled' = [settled EXCEPT ![KeyOf(a)] = Verdict(a, r)]
        \/ UNCHANGED settled
    BY DEF Next, vars, Tick, Save, Inspect, DiscardPaused, StartClaim, ClaimThread,
       ClaimThreadFails, ClaimReturns, CancelClaim, CleanupClaim, CleanupFails, Renew,
       MarkProgress, RunEffect, Raise, Cancel, Consume, Handoff, Finish, Finished,
       HandoffGranted, HandoffRefused, CancelInCall, LateThread, Die
  <2> QED
    BY <2>1, <2>2
<1>6. spent' \in SUBSET Conversations
  <2>1. (\E n \in Conversations : spent' = spent \cup {n}) \/ UNCHANGED spent
    BY DEF Next, vars, Tick, Save, Inspect, DiscardPaused, StartClaim, ClaimThread,
       ClaimThreadFails, ClaimReturns, CancelClaim, CleanupClaim, CleanupFails, Renew,
       MarkProgress, RunEffect, Raise, Cancel, Consume, Handoff, Finish, HandoffGranted,
       HandoffRefused, CancelInCall, LateThread, Die
  <2> QED
    BY <1>1, <2>1 DEF TypeOK
<1>7. UNCHANGED request
  BY RequestsAreFixed
<1> DEFINE Rest == /\ now' \in Nat /\ faults' \in Nat /\ pc' \in [Attempts -> PcStates]
                   /\ answer' \in [Attempts -> Answers] /\ late' \in [Attempts -> LateOps]
                   /\ ran' \in [Conversations -> SUBSET Attempts]
                   /\ got' \in [Attempts -> Responses \cup {None}]
<1>8. Rest
  <2> USE <1>1, <1>3 DEF TypeOK, PcStates, Goto
  <2>1. ASSUME NEW k \in Conversations, Save(k) \/ Inspect(k) \/ DiscardPaused(k) PROVE Rest
    BY <2>1 DEF Save, Inspect, DiscardPaused
  <2>2. ASSUME NEW a \in Attempts, ClaimThread(a) PROVE Rest
    <3>1. answer' \in [Attempts -> Answers]
      BY <2>2, ClaimsEvolve DEF ClaimThread, IInv, TidyTable, PauseOf
    <3>2. got' \in [Attempts -> Responses \cup {None}]
      BY <2>2 DEF ClaimThread, Pause
    <3> QED
      BY <2>2, <3>1, <3>2 DEF ClaimThread, AfterThread
  <2>3. ASSUME NEW a \in Attempts, ClaimThreadFails(a) PROVE Rest
    BY <2>3 DEF ClaimThreadFails, AfterThread, Fault, Answers
  <2>4. ASSUME NEW a \in Attempts, StartClaim(a) PROVE Rest
    BY <2>4 DEF StartClaim
  <2>5. ASSUME NEW a \in Attempts, ClaimReturns(a) PROVE Rest
    BY <2>5 DEF ClaimReturns
  <2>6. ASSUME NEW a \in Attempts, CancelClaim(a) PROVE Rest
    BY <2>6 DEF CancelClaim, AfterCancel
  <2>7. ASSUME NEW a \in Attempts, CleanupClaim(a) PROVE Rest
    BY <2>7 DEF CleanupClaim
  <2>8. ASSUME NEW a \in Attempts, CleanupFails(a) PROVE Rest
    BY <2>8 DEF CleanupFails, Fault
  <2>9. ASSUME NEW a \in Attempts, Die(a) PROVE Rest
    BY <2>9 DEF Die, Fault, LateOps
  <2>10. ASSUME NEW a \in Attempts, Renew(a) PROVE Rest
    BY <2>10 DEF Renew
  <2>11. ASSUME NEW a \in Attempts, MarkProgress(a) PROVE Rest
    BY <2>11 DEF MarkProgress
  <2>12. ASSUME NEW a \in Attempts, RunEffect(a) PROVE Rest
    BY <2>12 DEF RunEffect
  <2>13. ASSUME NEW a \in Attempts, Raise(a) PROVE Rest
    BY <2>13 DEF Raise
  <2>14. ASSUME NEW a \in Attempts, Cancel(a) PROVE Rest
    BY <2>14 DEF Cancel
  <2>15. ASSUME NEW a \in Attempts, Consume(a) PROVE Rest
    BY <2>15 DEF Consume
  <2>16. ASSUME NEW a \in Attempts, Handoff(a) \/ \E r \in Responses : Finish(a, r) PROVE Rest
    BY <2>16, OwnersAnswer
  <2>17. ASSUME NEW a \in Attempts, NEW op \in LateOps, CancelInCall(a, op) PROVE Rest
    BY <2>17 DEF CancelInCall
  <2>18. ASSUME NEW a \in Attempts, LateThread(a) PROVE Rest
    <3>1. UNCHANGED <<now, pc, request, answer, ran, got, faults>>
      BY <2>18 DEF LateThread
    <3>2. late' \in [Attempts -> LateOps]
      BY <2>18 DEF LateThread, LateOps
    <3> QED
      BY <3>1, <3>2
  <2>19. CASE Tick \/ UNCHANGED vars
    BY <2>19 DEF Tick, vars
  <2> QED
    BY <2>1, <2>2, <2>3, <2>4, <2>5, <2>6, <2>7, <2>8, <2>9, <2>10, <2>11, <2>12, <2>13, <2>14, <2>15, <2>16, <2>17, <2>18, <2>19 DEF Next
<1> QED
  BY <1>1, <1>2, <1>4, <1>5, <1>6, <1>7, <1>8 DEF TypeOK

\* What an attempt can return stays the journaled outcome of its reply.
LEMMA OutcomesStay ==
    ASSUME IInv, [Next]_vars
    PROVE  OutcomeOfTheSameReply'
<1>1. /\ TypeOK /\ TableStep /\ OutcomeOfTheSameReply
      /\ \A a \in Attempts : /\ KeyOf(a) \in Conversations /\ FingerprintOf(a) \in Fingerprints
                            /\ KeyOf(a)' = KeyOf(a) /\ FingerprintOf(a)' = FingerprintOf(a)
                            /\ PauseOf(a) = pauses[KeyOf(a)] /\ now \in Nat
                            /\ PauseOf(a) \in Pause /\ Tidy(PauseOf(a))
                            /\ KeyIsRecorded(KeyOf(a)) /\ request[a].owned \in BOOLEAN
      /\ \A a \in Attempts : Verdict(a, got[a])' = Verdict(a, got'[a])
  BY InvariantParts, EveryTableStep, RequestsAreFixed, RequestsTyped DEF IInv, Verdict
<1>2. ASSUME NEW k \in Conversations, settled[k] # NoVerdict
      PROVE  settled'[k] = settled[k]
  <2>1. ~ Active(pauses[k])
    BY <1>2 DEF IInv, KeysAreRecorded, KeyIsRecorded
  <2>2. ~ \E a \in Attempts, r \in Responses : FinishKey(k, a, r)
    BY <2>1 DEF FinishKey, MayFinish, Owns, Active
  <2> QED
    BY <1>1, <2>2 DEF TableStep, KeyStep, QuietKey, InsertedKey, ClaimKey, OwnerKey, CancelKey
<1>3. ASSUME NEW c \in Attempts, got'[c] # None, got'[c] = got[c]
      PROVE  settled'[KeyOf(c)] = Verdict(c, got'[c])
  <2>1. settled[KeyOf(c)] = Verdict(c, got[c]) /\ got[c] # None
    BY <1>1, <1>3 DEF OutcomeOfTheSameReply
  <2>2. settled[KeyOf(c)] # NoVerdict
    BY <2>1 DEF Verdict, NoVerdict
  <2> QED
    BY <1>1, <1>2, <1>3, <2>1, <2>2
<1>4. ASSUME NEW c \in Attempts, got'[c] # None, got'[c] # got[c]
      PROVE  settled'[KeyOf(c)] = Verdict(c, got'[c])
  <2>1. ASSUME NEW a \in Attempts, ClaimThread(a)
        PROVE  settled'[KeyOf(c)] = Verdict(c, got'[c])
    <3> DEFINE verdict == ClaimAnswer(PauseOf(a), request[a].owned, FingerprintOf(a), now)
    <3>1. a = c /\ verdict = "completed" /\ got'[c] = PauseOf(a).response /\ UNCHANGED settled
      BY <1>1, <1>4, <2>1 DEF ClaimThread, TypeOK
    <3>2. PauseOf(a).outcome = "completed" /\ PauseOf(a).fingerprint = FingerprintOf(a)
      BY <1>1, <3>1, ClaimsEvolve
    <3>3. KeyIsRecorded(KeyOf(a)) /\ PauseOf(a) = pauses[KeyOf(a)]
      BY <1>1
    <3>4. settled[KeyOf(a)] = Verdict(a, PauseOf(a).response)
      BY <3>2, <3>3 DEF KeyIsRecorded, Verdict
    <3> QED
      BY <3>1, <3>4
  <2>2. ASSUME NEW a \in Attempts, NEW r \in Responses, Finish(a, r)
        PROVE  settled'[KeyOf(c)] = Verdict(c, got'[c])
    BY <1>1, <1>4, <2>2 DEF Finish, Finished, TypeOK
  <2>3. ASSUME NEW a \in Attempts, Handoff(a)
        PROVE  settled'[KeyOf(c)] = Verdict(c, got'[c])
    BY <1>1, <1>4, <2>3 DEF Handoff, HandoffGranted, TypeOK
  <2>4. \/ \E a \in Attempts : ClaimThread(a) \/ Handoff(a) \/ \E r \in Responses : Finish(a, r)
        \/ UNCHANGED got
    BY DEF Next, vars, Tick, Save, Inspect, DiscardPaused, StartClaim, ClaimThreadFails,
       ClaimReturns, CancelClaim, CleanupClaim, CleanupFails, Renew, MarkProgress, RunEffect,
       Raise, Cancel, Consume, CancelInCall, LateThread, Die
  <2> QED
    BY <1>4, <2>1, <2>2, <2>3, <2>4
<1> QED
  BY <1>1, <1>3, <1>4 DEF OutcomeOfTheSameReply, Verdict

\* The row of an id that was inserted only ever evolves.
LEMMA RowsEvolve ==
    ASSUME IInv, [Next]_vars, NEW k \in Conversations
    PROVE  /\ k \in spent => Evolves(pauses[k], pauses'[k], now)
           /\ k \notin spent => pauses[k] = NoPause
<1>1. /\ pauses[k] \in Pause /\ Tidy(pauses[k]) /\ now \in Nat /\ TypeOK
      /\ TableStep /\ KeyIsRecorded(k)
  BY InvariantParts, EveryTableStep DEF IInv
<1>2. k \notin spent => pauses[k] = NoPause
  BY <1>1 DEF KeyIsRecorded, Tidy
<1>3. CASE QuietKey(k)
  BY <1>1, <1>2, <1>3, SweptsEvolve DEF QuietKey
<1>4. CASE InsertedKey(k)
  BY <1>2, <1>4 DEF InsertedKey
<1>5. ASSUME NEW a \in Attempts, KeyOf(a) = k, ClaimKey(k, a)
      PROVE  Evolves(pauses[k], pauses'[k], now)
  BY <1>1, <1>5, RequestsTyped, ClaimsEvolve DEF ClaimKey
<1>6. ASSUME NEW a \in Attempts,
             OwnerKey(k, a) \/ CancelKey(k, a) \/ \E r \in Responses : FinishKey(k, a, r)
      PROVE  Evolves(pauses[k], pauses'[k], now)
  BY <1>1, <1>6, OwnersEvolve DEF OwnerKey, CancelKey, FinishKey
<1> QED
  BY <1>1, <1>2, <1>3, <1>4, <1>5, <1>6 DEF TableStep, KeyStep

\* Only a barrier that was granted makes an attempt one that acted.
LEMMA WhoActs ==
    ASSUME TypeOK, [Next]_vars, NEW c \in Attempts,
           pc'[c] = "marked" \/ \E k \in Conversations : c \in ran'[k] /\ c \notin ran[k]
    PROVE  \/ pc[c] = "marked"
           \/ MarkProgress(c) /\ Owns(PauseOf(c), c, now)
<1> USE DEF TypeOK, Goto
<1>1. ASSUME NEW a \in Attempts, RunEffect(a) PROVE pc[c] = "marked"
  BY <1>1 DEF RunEffect, KeyOf
<1>2. ASSUME NEW a \in Attempts, MarkProgress(a)
      PROVE  \/ pc[c] = "marked"
             \/ MarkProgress(c) /\ Owns(PauseOf(c), c, now)
  BY <1>2 DEF MarkProgress
<1>3. ASSUME NEW a \in Attempts,
             \/ StartClaim(a) \/ ClaimThread(a) \/ ClaimThreadFails(a) \/ ClaimReturns(a)
             \/ CancelClaim(a) \/ CleanupClaim(a) \/ CleanupFails(a)
             \/ Renew(a) \/ Raise(a) \/ Die(a)
      PROVE  pc[c] = "marked"
  BY <1>3 DEF StartClaim, ClaimThread, ClaimThreadFails, ClaimReturns, CancelClaim,
       CleanupClaim, CleanupFails, Renew, Raise, Die, AfterThread, AfterCancel
<1>4. ASSUME NEW a \in Attempts,
             \/ Cancel(a) \/ Consume(a) \/ Handoff(a) \/ LateThread(a)
             \/ \E r \in Responses : Finish(a, r)
             \/ \E op \in LateOps : CancelInCall(a, op)
      PROVE  pc[c] = "marked"
  BY <1>4 DEF Cancel, Consume, Handoff, LateThread, Finish, CancelInCall
<1>5. ASSUME \E k \in Conversations : Save(k) \/ Inspect(k) \/ DiscardPaused(k)
      PROVE  pc[c] = "marked"
  BY <1>5 DEF Save, Inspect, DiscardPaused
<1>6. CASE Tick \/ UNCHANGED vars
  BY <1>6 DEF Tick, vars
<1> QED
  BY <1>1, <1>2, <1>3, <1>4, <1>5, <1>6 DEF Next

\* The one attempt that acted on a conversation stays the one recorded.
LEMMA ActorsStayRecorded ==
    ASSUME IInv, [Next]_vars
    PROVE  ActorsAreRecorded'
<1> USE DEF ActorsAreRecorded
<1>1. /\ TypeOK /\ TableStep /\ ActorsAreRecorded
      /\ \A a \in Attempts : /\ KeyOf(a) \in Conversations /\ KeyOf(a)' = KeyOf(a)
                            /\ PauseOf(a) = pauses[KeyOf(a)] /\ PauseOf(a) \in Pause
                            /\ PauseOf(a)' = pauses'[KeyOf(a)]
      /\ RowsAreSpent
  BY InvariantParts, EveryTableStep, RequestsAreFixed, RequestsTyped DEF IInv, PauseOf
<1>2. \A k \in Conversations : \A c \in ran'[k] : c \in ran[k] \/ (pc[c] = "marked" /\ KeyOf(c) = k)
  <2>1. ASSUME NEW a \in Attempts, RunEffect(a)
        PROVE  \A k \in Conversations : \A c \in ran'[k] : c \in ran[k] \/ (c = a /\ KeyOf(a) = k)
    BY <1>1, <2>1 DEF RunEffect, TypeOK
  <2>2. (\E a \in Attempts : RunEffect(a)) \/ UNCHANGED ran
    BY DEF Next, vars, Tick, Save, Inspect, DiscardPaused, StartClaim, ClaimThread,
       ClaimThreadFails, ClaimReturns, CancelClaim, CleanupClaim, CleanupFails, Renew,
       MarkProgress, Raise, Cancel, Consume, Handoff, Finish, CancelInCall, LateThread, Die
  <2> QED
    BY <2>1, <2>2 DEF RunEffect
<1>3. \A k \in Conversations : \A c \in ran'[k] : c \in Attempts /\ KeyOf(c)' = k
  BY <1>1, <1>2, TypeStep DEF TypeOK
<1>4. ASSUME NEW c \in Attempts, Acted(c)'
      PROVE  \/ Acted(c)
             \/ MarkProgress(c) /\ Owns(PauseOf(c), c, now)
  <2>1. CASE pc'[c] = "marked"
    BY <1>1, <2>1, WhoActs DEF Acted
  <2>2. CASE c \in ran'[KeyOf(c)]
    BY <1>1, <1>2, <2>2 DEF Acted
  <2> QED
    BY <1>1, <1>4, <2>1, <2>2 DEF Acted
<1>5. ASSUME NEW c \in Attempts, Acted(c)
      PROVE  KeyOf(c) \in spent' /\ ShutFor(pauses'[KeyOf(c)], c)
  <2>1. /\ KeyOf(c) \in spent /\ ShutFor(PauseOf(c), c)
        /\ Evolves(PauseOf(c), pauses'[KeyOf(c)], now)
    BY <1>1, <1>5, RowsEvolve
  <2> QED
    BY <1>1, <2>1, NoneAssumption DEF ShutFor, Evolves, TableStep
<1>6. ASSUME NEW c \in Attempts, MarkProgress(c), Owns(PauseOf(c), c, now)
      PROVE  KeyOf(c) \in spent' /\ ShutFor(pauses'[KeyOf(c)], c)
  <2>1. KeyOf(c) \in spent
    BY <1>1, <1>6 DEF RowsAreSpent, Owns
  <2>2. Store(c, MarkProgressRow(PauseOf(c), c, now))
    BY <1>6 DEF MarkProgress
  <2>3. pauses'[KeyOf(c)] = MarkProgressRow(PauseOf(c), c, now)
    BY <1>1, <2>2 DEF Store, TypeOK
  <2> QED
    BY <1>1, <1>6, <2>1, <2>3, BarriersAreRecorded DEF ShutFor, TableStep
<1>7. \A c \in Attempts : Acted(c)' => KeyOf(c)' \in spent' /\ ShutFor(PauseOf(c)', c)
  BY <1>1, <1>4, <1>5, <1>6
<1>8. ASSUME NEW c \in Attempts, NEW d \in Attempts, KeyOf(c) = KeyOf(d), Acted(d),
             Owns(PauseOf(c), c, now)
      PROVE  c = d
  BY <1>1, <1>8 DEF ShutFor, Owns, Active, PauseOf
<1>9. ASSUME NEW c \in Attempts, NEW d \in Attempts, MarkProgress(c), MarkProgress(d)
      PROVE  c = d
  BY <1>1, <1>9 DEF MarkProgress, Goto, TypeOK
<1>10. \A c, d \in Attempts : Acted(c)' /\ Acted(d)' /\ KeyOf(c)' = KeyOf(d)' => c = d
  BY <1>1, <1>4, <1>8, <1>9
<1> QED
  BY <1>3, <1>7, <1>10 DEF ShutFor

\* An attempt whose claim() has not returned still has marked nothing.
LEMMA ClaimantsStayClean ==
    ASSUME IInv, [Next]_vars
    PROVE  ClaimantsAreClean'
<1> DEFINE Fresh == {"idle", "claiming", "settled", "abandoning", "abandoned"}
<1>1. /\ TypeOK /\ TableStep /\ ClaimantsAreClean
      /\ \A a \in Attempts : /\ KeyOf(a) \in Conversations /\ KeyOf(a)' = KeyOf(a)
                            /\ PauseOf(a) = pauses[KeyOf(a)] /\ PauseOf(a)' = pauses'[KeyOf(a)]
      /\ \A k \in Conversations : pauses[k] \in Pause /\ Tidy(pauses[k])
      /\ now \in Nat
  BY InvariantParts, EveryTableStep, RequestsAreFixed, RequestsTyped DEF IInv, PauseOf
<1>2. ASSUME NEW c \in Attempts, pc'[c] \in Fresh
      PROVE  pc[c] \in Fresh /\ (late[c] = "none" => late'[c] = "none")
  <2> USE <1>1, <1>2 DEF TypeOK, Goto
  <2>1. ASSUME NEW a \in Attempts,
               \/ StartClaim(a) \/ ClaimThread(a) \/ ClaimThreadFails(a) \/ ClaimReturns(a)
               \/ CancelClaim(a) \/ CleanupClaim(a) \/ CleanupFails(a)
        PROVE  pc[c] \in Fresh /\ UNCHANGED late
    BY <2>1 DEF StartClaim, ClaimThread, ClaimThreadFails, ClaimReturns, CancelClaim,
       CleanupClaim, CleanupFails, AfterThread, AfterCancel
  <2>2. ASSUME NEW a \in Attempts,
               \/ Renew(a) \/ MarkProgress(a) \/ RunEffect(a) \/ Raise(a) \/ Cancel(a)
               \/ Consume(a) \/ Handoff(a) \/ \E r \in Responses : Finish(a, r)
        PROVE  pc[c] \in Fresh /\ UNCHANGED late
    BY <2>2 DEF Renew, MarkProgress, RunEffect, Raise, Cancel, Consume, Handoff, Finish
  <2>3. ASSUME NEW a \in Attempts, Die(a) \/ LateThread(a)
        PROVE  pc[c] \in Fresh /\ (late[c] = "none" => late'[c] = "none")
    BY <2>3 DEF Die, LateThread
  <2>4. ASSUME NEW a \in Attempts, NEW op \in LateOps, CancelInCall(a, op)
        PROVE  pc[c] \in Fresh /\ (late[c] = "none" => late'[c] = "none")
    BY <2>4 DEF CancelInCall
  <2>5. ASSUME \E k \in Conversations : Save(k) \/ Inspect(k) \/ DiscardPaused(k)
        PROVE  pc[c] \in Fresh /\ UNCHANGED late
    BY <2>5 DEF Save, Inspect, DiscardPaused
  <2>6. CASE Tick \/ UNCHANGED vars
    BY <2>6 DEF Tick, vars
  <2> QED
    BY <2>1, <2>2, <2>3, <2>4, <2>5, <2>6 DEF Next
<1>3. ASSUME NEW c \in Attempts, pc'[c] \in Fresh,
             Active(PauseOf(c)'), PauseOf(c)'.token = c, PauseOf(c)'.progress
      PROVE  FALSE
  <2> DEFINE k    == KeyOf(c)
             next == pauses'[k]
  <2>1. /\ pc[c] \in Fresh /\ late[c] = "none"
        /\ ~ (Active(pauses[k]) /\ pauses[k].token = c /\ pauses[k].progress)
        /\ Active(next) /\ next.token = c /\ next.progress
        /\ k \in Conversations
    BY <1>1, <1>2, <1>3 DEF ClaimantsAreClean
  <2>2. ~ Busy(c)
    BY <2>1 DEF Busy
  <2>3. ~ NoNewMark(pauses[k], next)
    BY <2>1, NoneAssumption DEF NoNewMark
  <2>4. ASSUME NEW a \in Attempts, ClaimKey(k, a), KeyOf(a) = k PROVE FALSE
    BY <1>1, <2>1, <2>3, <2>4, RequestsTyped, ClaimsEvolve DEF ClaimKey
  <2>5. ASSUME NEW a \in Attempts, OwnerKey(k, a) PROVE FALSE
    <3>1. /\ NoNewClaim(pauses[k], next, now)
          /\ ~ Owns(pauses[k], a, now) => next = pauses[k]
          /\ a # c
      BY <1>1, <2>1, <2>2, <2>5, OwnersEvolve DEF OwnerKey
    <3> QED
      BY <2>1, <3>1, NoneAssumption DEF NoNewClaim, Owns
  <2>6. ASSUME NEW a \in Attempts, CancelKey(k, a) PROVE FALSE
    <3>1. next.state = "paused" /\ Tidy(next)
      BY <1>1, <2>1, <2>6, CancelsUnbind, OwnersEvolve DEF CancelKey
    <3> QED
      BY <2>1, <3>1, NoneAssumption DEF Tidy
  <2>7. ASSUME NEW a \in Attempts, NEW r \in Responses, FinishKey(k, a, r) PROVE FALSE
    <3>1. next.outcome = "completed"
      BY <1>1, <2>1, <2>7, FinishesComplete DEF FinishKey
    <3> QED
      BY <2>1, <3>1 DEF Active
  <2>8. ASSUME QuietKey(k) \/ InsertedKey(k) PROVE FALSE
    BY <1>1, <2>1, <2>3, <2>8, SweptsEvolve, NewPausesAreFree, NoneAssumption
       DEF QuietKey, InsertedKey
  <2> QED
    BY <1>1, <2>1, <2>4, <2>5, <2>6, <2>7, <2>8 DEF TableStep, KeyStep
<1> QED
  BY <1>1, <1>2, <1>3 DEF ClaimantsAreClean

\* The invariant holds initially.
LEMMA InitEstablishesIInv == Init => IInv
<1> SUFFICES ASSUME Init PROVE IInv
  OBVIOUS
<1>1. \A k \in Conversations :
          /\ pauses[k] \in Pause /\ Tidy(pauses[k])
          /\ pauses[k].token = None /\ pauses[k].outcome = "none"
          /\ pauses[k].fingerprint = None
          /\ Active(pauses[k]) <=> pauses[k].state # "absent"
  <2>1. 1 + TtlSeconds \in Nat /\ 1 + OperationLeaseSeconds \in Nat
    BY LimitsAssumption
  <2>2. \A row \in {NoPause} \cup {LegacyPause(1, p) : p \in BOOLEAN} :
            /\ row \in Pause /\ Tidy(row) /\ row.token = None /\ row.outcome = "none"
            /\ row.fingerprint = None
            /\ Active(row) <=> row.state # "absent"
    <3> USE DEF NoPause, NoLease, Pause, Tidy, Active
    <3>1. ASSUME NEW row, row = NoPause
          PROVE  /\ row \in Pause /\ Tidy(row) /\ row.token = None /\ row.outcome = "none"
                 /\ row.fingerprint = None
                 /\ Active(row) <=> row.state # "absent"
      BY <3>1
    <3>2. ASSUME NEW p \in BOOLEAN, NEW row, row = LegacyPause(1, p)
          PROVE  /\ row \in Pause /\ row.state = "in_flight"
                 /\ row.token = None /\ row.outcome = "none" /\ row.fingerprint = None
      BY <2>1, <3>2 DEF LegacyPause, NewPause
    <3> QED
      BY <3>1, <3>2
  <2> QED
    BY <2>2 DEF Init
<1>2. TidyTable(pauses) /\ Bounded(pauses)
  BY <1>1 DEF Init, TidyTable, Bounded
<1>3. TypeOK
  BY <1>2 DEF Init, TypeOK, TidyTable, PcStates, LateOps, Answers, ActiveKeys
<1>4. KeysAreRecorded
  BY <1>1, NoneAssumption DEF Init, KeysAreRecorded, KeyIsRecorded, ActiveKeys
<1>5. \A a \in Attempts : /\ KeyOf(a) \in Conversations /\ PauseOf(a) = pauses[KeyOf(a)]
                         /\ pc[a] = "idle" /\ late[a] = "none" /\ got[a] = None
                         /\ ran[KeyOf(a)] = {}
  BY <1>3, RequestsTyped DEF Init
<1>6. OutcomeOfTheSameReply /\ ActorsAreRecorded /\ ClaimantsAreClean
  BY <1>1, <1>5, NoneAssumption
     DEF Init, OutcomeOfTheSameReply, ActorsAreRecorded, ClaimantsAreClean, Acted
<1> QED
  BY <1>2, <1>3, <1>4, <1>6 DEF IInv

\* The inductive invariant holds in every reachable state.
THEOREM SessionInvariance == Spec => []IInv
<1>1. ASSUME IInv, [Next]_vars PROVE IInv'
  <2>1. TableStep /\ Bounded(pauses)
    BY <1>1, InvariantParts, EveryTableStep DEF IInv
  <2>2. TidyTable(pauses)' /\ Bounded(pauses)'
    BY <2>1 DEF TableStep, TidyTable, Bounded, ActiveKeys
  <2>3. KeysAreRecorded'
    BY <1>1, KeyStaysRecorded DEF KeysAreRecorded
  <2> QED
    BY <1>1, <2>2, <2>3, TypeStep, OutcomesStay, ActorsStayRecorded, ClaimantsStayClean DEF IInv
<1> QED
  BY <1>1, InitEstablishesIInv, PTL DEF Spec

\* The store's state stays within its types.
THEOREM SessionTypeCorrect == Spec => []TypeOK
<1>1. IInv => TypeOK
  BY DEF IInv
<1> QED
  BY <1>1, SessionInvariance, PTL

\* Whatever retries, takeovers and late threads there are, an attempt that
\* returns a response returns the one journaled for its own reply.
THEOREM SameReplySameOutcome == Spec => []OutcomeOfTheSameReply
<1>1. IInv => OutcomeOfTheSameReply
  BY DEF IInv
<1> QED
  BY <1>1, SessionInvariance, PTL

\* The pauses that can still be continued never outnumber max_count.
THEOREM CapacityHolds == Spec => []WithinCapacity
<1>1. IInv => WithinCapacity
  BY DEF IInv, Bounded, WithinCapacity
<1> QED
  BY <1>1, SessionInvariance, PTL

-----------------------------------------------------------------------------
(***************************************************************************)
(* How a pause ends                                                        *)
(***************************************************************************)
LetsGoOfClaim(a) ==
    pc'[a] = "over" /\ faults' = faults
        /\ (pc[a] = "abandoned" \/ (pc[a] = "over" /\ ~ Owns(PauseOf(a), a, now)))
    => ~ (Owns(PauseOf(a), a, now))'

KeepsClaim(a) ==
    /\ Owns(PauseOf(a), a, now) /\ PauseOf(a)'.token # a
          => pc'[a] # pc[a] \/ late'[a] # late[a]
    /\ answer[a] # "claimed" /\ answer'[a] = "claimed"
          => bound[KeyOf(a)] \in {None, FingerprintOf(a)}

KeepsTombstone(k) ==
    pauses[k].outcome # "none" =>
        \/ /\ pauses'[k].outcome = pauses[k].outcome
           /\ pauses'[k].response = pauses[k].response
        \/ pauses'[k] = NoPause /\ Expired(pauses[k], now)

\* Nobody but its owner takes a live claim from its row.
LEMMA LiveClaimsStay ==
    ASSUME IInv, [Next]_vars, NEW c \in Attempts, Owns(PauseOf(c), c, now),
           PauseOf(c)'.token # c
    PROVE  Moves(c)
<1> DEFINE k == KeyOf(c)
<1>1. /\ k \in Conversations /\ PauseOf(c) = pauses[k] /\ PauseOf(c)' = pauses'[k]
      /\ pauses[k] \in Pause /\ Tidy(pauses[k]) /\ now \in Nat /\ TypeOK
      /\ TableStep /\ pauses[k].token = c /\ pauses'[k] # pauses[k] /\ k \in spent
  BY InvariantParts, EveryTableStep, RequestsAreFixed, RequestsTyped
     DEF IInv, PauseOf, Owns, RowsAreSpent
<1>2. CASE QuietKey(k) \/ InsertedKey(k)
  BY <1>1, <1>2, SweptsEvolve DEF QuietKey, InsertedKey
<1>3. ASSUME NEW a \in Attempts, ClaimKey(k, a) PROVE FALSE
  BY <1>1, <1>3, RequestsTyped, ClaimsEvolve DEF ClaimKey
<1>4. ASSUME NEW a \in Attempts,
             OwnerKey(k, a) \/ CancelKey(k, a) \/ \E r \in Responses : FinishKey(k, a, r)
      PROVE  Moves(c)
  <2>1. Owns(pauses[k], a, now)
    BY <1>1, <1>4, OwnersEvolve DEF OwnerKey, CancelKey, FinishKey, MayCancel, MayFinish
  <2>2. a = c
    BY <1>1, <2>1 DEF Owns
  <2>3. \A next \in {RenewRow(pauses[k], a, now), MarkProgressRow(pauses[k], a, now)} :
            next.token = a
    BY <1>1, <2>2 DEF RenewRow, MarkProgressRow, Pause
  <2> QED
    BY <1>1, <1>4, <2>2, <2>3 DEF OwnerKey, CancelKey, FinishKey
<1> QED
  BY <1>1, <1>2, <1>3, <1>4 DEF TableStep, KeyStep

\* A claim is granted to the reply the pause is bound to, if it is to any.
LEMMA ClaimsAreBound ==
    ASSUME IInv, [Next]_vars, NEW c \in Attempts, answer[c] # "claimed", answer'[c] = "claimed"
    PROVE  bound[KeyOf(c)] \in {None, FingerprintOf(c)}
<1>1. /\ KeyOf(c) \in Conversations /\ PauseOf(c) = pauses[KeyOf(c)]
      /\ PauseOf(c) \in Pause /\ Tidy(PauseOf(c)) /\ now \in Nat /\ TypeOK
      /\ KeyIsRecorded(KeyOf(c))
  BY InvariantParts, RequestsTyped DEF IInv
<1>2. ClaimAnswer(PauseOf(c), request[c].owned, FingerprintOf(c), now) = "claimed"
  <2>1. ASSUME NEW a \in Attempts, ClaimThread(a)
        PROVE  ClaimAnswer(PauseOf(c), request[c].owned, FingerprintOf(c), now) = "claimed"
    BY <1>1, <2>1 DEF ClaimThread, TypeOK
  <2>2. ASSUME NEW a \in Attempts, ClaimThreadFails(a) PROVE FALSE
    BY <1>1, <2>2 DEF ClaimThreadFails, TypeOK
  <2>3. \/ \E a \in Attempts : ClaimThread(a) \/ ClaimThreadFails(a)
        \/ UNCHANGED answer
    BY DEF Next, vars, Tick, Save, Inspect, DiscardPaused, StartClaim, ClaimReturns,
       CancelClaim, CleanupClaim, CleanupFails, Renew, MarkProgress, RunEffect, Raise, Cancel,
       Consume, Handoff, Finish, CancelInCall, LateThread, Die
  <2> QED
    BY <2>1, <2>2, <2>3
<1>3. Active(PauseOf(c)) /\ PauseOf(c).fingerprint \in {None, FingerprintOf(c)}
  BY <1>1, <1>2, RequestsTyped, ClaimsEvolve
<1> QED
  BY <1>1, <1>3 DEF KeyIsRecorded

\* Nobody comes to own a claim but by a claim() of its own.
LEMMA OwnershipIsClaimed ==
    ASSUME IInv, [Next]_vars, NEW c \in Attempts, ~ ClaimThread(c),
           (Owns(PauseOf(c), c, now))'
    PROVE  Owns(PauseOf(c), c, now)
<1> DEFINE k    == KeyOf(c)
           next == pauses'[k]
<1>1. /\ k \in Conversations /\ PauseOf(c) = pauses[k] /\ PauseOf(c)' = pauses'[k]
      /\ pauses[k] \in Pause /\ Tidy(pauses[k]) /\ now \in Nat /\ TypeOK
      /\ TableStep /\ next \in Pause
  BY InvariantParts, EveryTableStep, RequestsAreFixed, RequestsTyped
     DEF IInv, PauseOf, TableStep, TidyTable
<1>2. now' \in Nat /\ now' >= now
  <2>1. Tick \/ now' = now
    BY DEF Next, vars, Save, Inspect, DiscardPaused, StartClaim, ClaimThread,
       ClaimThreadFails, ClaimReturns, CancelClaim, CleanupClaim, CleanupFails, Renew,
       MarkProgress, RunEffect, Raise, Cancel, Consume, Handoff, Finish, CancelInCall,
       LateThread, Die
  <2> QED
    BY <1>1, <2>1 DEF Tick
<1>3. Owns(next, c, now')
  BY <1>1 DEF Owns, LeaseLive, Expired
<1>4. Owns(next, c, now) /\ next.token = c /\ Active(next)
  BY <1>1, <1>2, <1>3 DEF Owns, LeaseLive, Expired, Active, Pause, NoLease
<1>5. ASSUME NoNewClaim(pauses[k], next, now) PROVE Owns(pauses[k], c, now)
  BY <1>4, <1>5 DEF NoNewClaim
<1>6. CASE QuietKey(k)
  BY <1>1, <1>5, <1>6, SweptsEvolve DEF QuietKey
<1>7. CASE InsertedKey(k)
  BY <1>1, <1>4, <1>7, NewPausesAreFree, NoneAssumption DEF InsertedKey
<1>8. ASSUME NEW a \in Attempts, ClaimThread(a), ClaimKey(k, a)
      PROVE  Owns(pauses[k], c, now)
  BY <1>1, <1>4, <1>5, <1>8, RequestsTyped, ClaimsEvolve DEF ClaimKey
<1>9. ASSUME NEW a \in Attempts,
             OwnerKey(k, a) \/ CancelKey(k, a) \/ \E r \in Responses : FinishKey(k, a, r)
      PROVE  Owns(pauses[k], c, now)
  BY <1>1, <1>5, <1>9, OwnersEvolve DEF OwnerKey, CancelKey, FinishKey
<1> QED
  BY <1>1, <1>6, <1>7, <1>8, <1>9 DEF TableStep, KeyStep

\* The cleanup of a cancelled claim() returns it.
LEMMA CleanupReturnsClaim ==
    ASSUME IInv, NEW c \in Attempts, CleanupClaim(c)
    PROVE  ~ (Owns(PauseOf(c), c, now))'
<1> DEFINE k == KeyOf(c)
<1>1. /\ k \in Conversations /\ PauseOf(c) = pauses[k] /\ TypeOK
      /\ pauses[k] \in Pause
  BY InvariantParts, RequestsTyped DEF IInv
<1>2. /\ pc[c] = "abandoned" /\ UNCHANGED <<now, request>>
      /\ Store(c, CancelRow(PauseOf(c), c, now))
  BY DEF CleanupClaim
<1>3. PauseOf(c)' = CancelRow(pauses[k], c, now)
  BY <1>1, <1>2 DEF PauseOf, KeyOf, Store, TypeOK
<1>4. Owns(pauses[k], c, now) => MayCancel(pauses[k], c, now)
  BY <1>1, <1>2 DEF IInv, ClaimantsAreClean, MayCancel, Owns, Active
<1>5. ~ Owns(CancelRow(pauses[k], c, now), c, now)
  <2>1. CASE MayCancel(pauses[k], c, now)
    BY <1>1, <2>1, CancelsUnbind DEF Owns
  <2>2. CASE ~ MayCancel(pauses[k], c, now)
    BY <1>4, <2>2, RefusalsChangeNothing
  <2> QED
    BY <2>1, <2>2
<1> QED
  BY <1>2, <1>3, <1>5 DEF Owns, LeaseLive, Expired

\* A cancelled claim() is let go, and stays so.
LEMMA CancelledClaimsAreLetGo ==
    ASSUME IInv, [Next]_vars, NEW c \in Attempts
    PROVE  LetsGoOfClaim(c)
<1> SUFFICES ASSUME pc'[c] = "over", faults' = faults,
                    pc[c] = "abandoned" \/ (pc[c] = "over" /\ ~ Owns(PauseOf(c), c, now))
             PROVE  ~ (Owns(PauseOf(c), c, now))'
  BY DEF LetsGoOfClaim
<1>1. TypeOK
  BY DEF IInv
<1>2. ~ ClaimThread(c)
  BY <1>1 DEF ClaimThread, Goto, AfterThread, TypeOK
<1>3. CASE pc[c] = "over" /\ ~ Owns(PauseOf(c), c, now)
  BY <1>2, <1>3, OwnershipIsClaimed
<1>4. CASE pc[c] = "abandoned"
  <2> USE <1>1, <1>4 DEF TypeOK, Goto
  <2>1. ASSUME NEW a \in Attempts,
               \/ StartClaim(a) \/ ClaimThread(a) \/ ClaimThreadFails(a) \/ ClaimReturns(a)
               \/ CancelClaim(a) \/ CleanupFails(a)
        PROVE  FALSE
    BY <2>1 DEF StartClaim, ClaimThread, ClaimThreadFails, ClaimReturns, CancelClaim,
       CleanupFails, Fault, AfterThread, AfterCancel
  <2>2. ASSUME NEW a \in Attempts,
               \/ Renew(a) \/ MarkProgress(a) \/ RunEffect(a) \/ Raise(a) \/ Cancel(a)
               \/ Consume(a) \/ Handoff(a) \/ \E r \in Responses : Finish(a, r)
        PROVE  FALSE
    BY <2>2 DEF Renew, MarkProgress, RunEffect, Raise, Cancel, Consume, Handoff, Finish
  <2>3. ASSUME NEW a \in Attempts,
               Die(a) \/ LateThread(a) \/ \E op \in LateOps : CancelInCall(a, op)
        PROVE  FALSE
    BY <2>3 DEF Die, LateThread, CancelInCall
  <2>4. ASSUME \E k \in Conversations : Save(k) \/ Inspect(k) \/ DiscardPaused(k)
        PROVE  FALSE
    BY <2>4 DEF Save, Inspect, DiscardPaused
  <2>5. ASSUME Tick \/ UNCHANGED vars PROVE FALSE
    BY <2>5 DEF Tick, vars
  <2>6. ASSUME NEW a \in Attempts, CleanupClaim(a) PROVE CleanupClaim(c)
    BY <2>6 DEF CleanupClaim
  <2>7. CleanupClaim(c)
    BY <2>1, <2>2, <2>3, <2>4, <2>5, <2>6 DEF Next
  <2> QED
    BY <2>7, CleanupReturnsClaim
<1> QED
  BY <1>3, <1>4

\* A live claim ends by a step of its owner, a tombstone is final until its
\* TTL is over, and a cancelled claim() locks nothing.
THEOREM PausesEnd == Spec => PausesEndRightly
<1>1. IInv /\ [Next]_vars => [\A a \in Attempts : KeepsClaim(a)]_vars
  BY LiveClaimsStay, ClaimsAreBound DEF KeepsClaim, Moves
<1>2. IInv /\ [Next]_vars => [\A k \in Conversations : KeepsTombstone(k)]_vars
  <2>1. ASSUME IInv, [Next]_vars, NEW k \in Conversations, pauses[k].outcome # "none"
        PROVE  \/ /\ pauses'[k].outcome = pauses[k].outcome
                  /\ pauses'[k].response = pauses[k].response
               \/ pauses'[k] = NoPause /\ Expired(pauses[k], now)
    <3>1. k \in spent
      BY <2>1, InvariantParts DEF RowsAreSpent, Tidy
    <3> QED
      BY <2>1, <3>1, RowsEvolve DEF Evolves
  <2> QED
    BY <2>1 DEF KeepsTombstone
<1>3. IInv /\ [Next]_vars => [\A a \in Attempts : LetsGoOfClaim(a)]_vars
  BY CancelledClaimsAreLetGo
<1>4. Spec => LiveClaimsEndByTheirOwner
  BY <1>1, SessionInvariance, PTL DEF Spec, LiveClaimsEndByTheirOwner, KeepsClaim
<1>5. Spec => TombstonesAreFinal
  BY <1>2, SessionInvariance, PTL DEF Spec, TombstonesAreFinal, KeepsTombstone
<1>6. Spec => CancelledClaimLetsGo
  BY <1>3, SessionInvariance, PTL DEF Spec, CancelledClaimLetsGo, LetsGoOfClaim
<1> QED
  BY <1>4, <1>5, <1>6 DEF PausesEndRightly

-----------------------------------------------------------------------------
(***************************************************************************)
(* The store implements OneShotRequest                                     *)
(***************************************************************************)
Actor(k) == IF ran[k] = {} THEN None ELSE CHOOSE a \in ran[k] : TRUE

\* An attempt having an effect is the one actor of its conversation.
LEMMA EffectsAct ==
    ASSUME IInv, [Next]_vars, NEW a \in Attempts, RunEffect(a),
           NEW k \in Conversations, k = KeyOf(a)
    PROVE  Promise!Act(k, a)
<1>1. ran \in [Conversations -> SUBSET Attempts]
  BY DEF IInv, TypeOK
<1>2. ran' = [ran EXCEPT ![k] = @ \cup {a}] /\ settled' = settled /\ pc[a] = "marked"
  BY DEF RunEffect
<1>3. \A b \in ran[k] : b = a
  BY <1>1, <1>2 DEF IInv, ActorsAreRecorded, Acted
<1>4. ran[k] \in {{}, {a}} /\ ran'[k] = {a}
  BY <1>1, <1>2, <1>3
<1>5. (CHOOSE b \in {a} : TRUE) = a
  OBVIOUS
<1>6. Actor(k) \in {None, a} /\ Actor(k)' = a
  BY <1>4, <1>5 DEF Actor
<1>7. [h \in Conversations |-> Actor(h)]' = [[h \in Conversations |-> Actor(h)] EXCEPT ![k] = a]
  <2>1. \A h \in Conversations : h # k => Actor(h)' = Actor(h)
    BY <1>1, <1>2 DEF Actor
  <2> QED
    BY <1>6, <2>1
<1> QED
  BY <1>1, <1>2, <1>6, <1>7 DEF Promise!Act, Actor

\* A journal is written by the owner of a claim, and once.
LEMMA JournalsAreWrittenOnce ==
    ASSUME IInv, [Next]_vars, NEW k \in Conversations
    PROVE  \/ settled'[k] = settled[k]
           \/ settled[k] = NoVerdict /\ \E r \in Responses : settled'[k].response = r
<1>1. TableStep /\ KeyIsRecorded(k)
  BY InvariantParts, EveryTableStep DEF IInv
<1>2. ASSUME NEW a \in Attempts, NEW r \in Responses, FinishKey(k, a, r)
      PROVE  settled[k] = NoVerdict /\ settled'[k].response = r
  BY <1>1, <1>2 DEF FinishKey, KeyIsRecorded, MayFinish, Owns, Active, Verdict
<1> QED
  BY <1>1, <1>2 DEF TableStep, KeyStep, QuietKey, InsertedKey, ClaimKey, OwnerKey, CancelKey

\* A step that has no effect settles one conversation or none.
LEMMA JournalsSettle ==
    ASSUME IInv, [Next]_vars, UNCHANGED ran
    PROVE  [Promise!Next]_<<[k \in Conversations |-> Actor(k)],
                            [k \in Conversations |-> settled[k].response]>>
<1>1. [k \in Conversations |-> Actor(k)]' = [k \in Conversations |-> Actor(k)]
  BY DEF Actor
<1>2. \/ UNCHANGED settled
      \/ \E k \in Conversations : \A h \in Conversations : h # k => settled'[h] = settled[h]
  <2>1. ASSUME NEW a \in Attempts, NEW r, settled' = [settled EXCEPT ![KeyOf(a)] = Verdict(a, r)]
        PROVE  \E k \in Conversations : \A h \in Conversations : h # k => settled'[h] = settled[h]
    BY <2>1, RequestsTyped DEF IInv, TypeOK
  <2>2. ASSUME NEW a \in Attempts, \E r \in Responses : Finished(a, r)
        PROVE  UNCHANGED settled \/ \E r : settled' = [settled EXCEPT ![KeyOf(a)] = Verdict(a, r)]
    BY <2>2 DEF Finished
  <2>3. ASSUME NEW a \in Attempts, NEW n, NEW r, HandoffGranted(a, n, r)
        PROVE  settled' = [settled EXCEPT ![KeyOf(a)] = Verdict(a, r)]
    BY <2>3 DEF HandoffGranted
  <2>4. ASSUME NEW a \in Attempts, \E r \in Responses : Finish(a, r)
        PROVE  UNCHANGED settled \/ \E r : settled' = [settled EXCEPT ![KeyOf(a)] = Verdict(a, r)]
    BY <2>2, <2>4 DEF Finish
  <2>5. ASSUME NEW a \in Attempts, Handoff(a) \/ LateThread(a)
        PROVE  UNCHANGED settled \/ \E r : settled' = [settled EXCEPT ![KeyOf(a)] = Verdict(a, r)]
    BY <2>2, <2>3, <2>5 DEF Handoff, LateThread, HandoffRefused
  <2>6. \/ UNCHANGED settled
        \/ \E a \in Attempts : Handoff(a) \/ LateThread(a) \/ \E r \in Responses : Finish(a, r)
    BY DEF Next, vars, Tick, Save, Inspect, DiscardPaused, StartClaim, ClaimThread,
       ClaimThreadFails, ClaimReturns, CancelClaim, CleanupClaim, CleanupFails, Renew,
       MarkProgress, RunEffect, Raise, Cancel, Consume, CancelInCall, Die
  <2> QED
    BY <2>1, <2>4, <2>5, <2>6
<1>3. CASE [k \in Conversations |-> settled[k].response]'
               = [k \in Conversations |-> settled[k].response]
  BY <1>1, <1>3
<1>4. CASE [k \in Conversations |-> settled[k].response]'
               # [k \in Conversations |-> settled[k].response]
  <2>1. PICK k \in Conversations : settled'[k].response # settled[k].response
    BY <1>4
  <2>2. \A h \in Conversations : h # k => settled'[h].response = settled[h].response
    BY <1>2, <2>1
  <2>3. PICK r \in Responses : settled[k] = NoVerdict /\ settled'[k].response = r
    BY <2>1, JournalsAreWrittenOnce
  <2>4. settled[k].response = None
    BY <2>3 DEF NoVerdict
  <2>5. [h \in Conversations |-> settled[h].response]'
            = [[h \in Conversations |-> settled[h].response] EXCEPT ![k] = r]
    BY <2>2, <2>3
  <2>6. Promise!Settle(k, r)
    BY <1>1, <2>4, <2>5 DEF Promise!Settle, Actor
  <2> QED
    BY <2>6 DEF Promise!Next
<1> QED
  BY <1>3, <1>4

\* The store keeps the promise of a one-shot request, per pause.
THEOREM SessionsKeepThePromise == Spec => PromiseSpec
<1>1. Init => Promise!Init
  BY DEF Init, Promise!Init, NoVerdict
<1>2. ASSUME IInv, [Next]_vars
      PROVE  [Promise!Next]_<<[k \in Conversations |-> Actor(k)],
                             [k \in Conversations |-> settled[k].response]>>
  <2>1. (\E a \in Attempts : RunEffect(a)) \/ UNCHANGED ran
    BY <1>2 DEF Next, vars, Tick, Save, Inspect, DiscardPaused, StartClaim, ClaimThread,
       ClaimThreadFails, ClaimReturns, CancelClaim, CleanupClaim, CleanupFails, Renew,
       MarkProgress, Raise, Cancel, Consume, Handoff, Finish, CancelInCall, LateThread, Die
  <2>2. ASSUME NEW a \in Attempts, RunEffect(a)
        PROVE  Promise!Next
    <3>1. PICK k \in Conversations : k = KeyOf(a)
      BY <1>2, RequestsTyped DEF IInv
    <3>2. Promise!Act(k, a)
      BY <1>2, <2>2, <3>1, EffectsAct
    <3> QED
      BY <3>2 DEF Promise!Next
  <2> QED
    BY <1>2, <2>1, <2>2, JournalsSettle
<1>3. ASSUME IInv, [Next]_vars
      PROVE  [Promise!Next]_<<[k \in Conversations |-> IF ran[k] = {} THEN None
                                                       ELSE CHOOSE a \in ran[k] : TRUE],
                             [k \in Conversations |-> settled[k].response]>>
  BY <1>2, <1>3 DEF Actor
<1> QED
  BY <1>1, <1>3, SessionInvariance, PTL DEF Spec, PromiseSpec, Promise!Spec

=============================================================================
