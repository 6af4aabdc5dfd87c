------------------------------ MODULE PauseRows ------------------------------
(***************************************************************************)
(* The table studyloop_autonomous_sessions of                              *)
(* services/autonomous_sessions.py: one row per paused conversation of the *)
(* autonomous agent, and what the statements of each transaction do to it. *)
(* A transaction holds the row's lock (SQLite: the database's) before it   *)
(* reads the clock, so each is a function of the table and that instant.   *)
(*                                                                         *)
(* payload_json, claimed_at and updated_at never decide anything and are   *)
(* left out.  The constant token of a tombstone matches no claim: None.    *)
(***************************************************************************)
EXTENDS Integers, FiniteSets

CONSTANTS Conversations,
          Attempts,               \* one per claim(): names the token it draws
          Fingerprints,           \* digests of (conversation, reply) requests
          Responses,
          TtlSeconds,             \* ttl_seconds
          OperationLeaseSeconds,  \* operation_lease_seconds
          MaxCount,               \* max_count
          None

ASSUME LimitsAssumption == /\ TtlSeconds \in Nat \ {0}
                           /\ OperationLeaseSeconds \in Nat \ {0}
                           /\ MaxCount \in Nat \ {0}
ASSUME NoneAssumption == None \notin Attempts \cup Fingerprints \cup Responses

NoLease == -1

Pause == [state       : {"absent", "paused", "in_flight"},
          outcome     : {"none", "ambiguous", "completed"},
          response    : Responses \cup {None},
          token       : Attempts \cup {None},
          lease       : Nat \cup {NoLease},
          expires     : Nat,
          progress    : BOOLEAN,
          fingerprint : Fingerprints \cup {None},
          created     : Nat]

NoPause == [state |-> "absent", outcome |-> "none", response |-> None, token |-> None,
            lease |-> NoLease, expires |-> 0, progress |-> FALSE,
            fingerprint |-> None, created |-> 0]

NewPause(now) == [NoPause EXCEPT !.state = "paused", !.expires = now + TtlSeconds,
                                 !.created = now]

\* An in-flight row of the release before leases: the migration gave it a
\* lease, and it has no fingerprint.
LegacyPause(now, progress) ==
    [NewPause(now) EXCEPT !.state = "in_flight", !.lease = now + OperationLeaseSeconds,
                          !.progress = progress]

ClaimedExpiry(now) ==
    now + (IF TtlSeconds >= OperationLeaseSeconds THEN TtlSeconds ELSE OperationLeaseSeconds)

Active(row) == row.state # "absent" /\ row.outcome = "none"

Expired(row, now) == row.expires <= now

LeaseLive(row, now) == row.lease # NoLease /\ row.lease > now

(***************************************************************************)
(* Sweeping                                                                *)
(***************************************************************************)
Fenced(row) == [row EXCEPT !.token = None, !.lease = NoLease, !.progress = TRUE,
                           !.outcome = "ambiguous"]

Stale(row, now) == /\ row.state = "in_flight" /\ row.outcome = "none"
                   /\ row.lease # NoLease /\ row.lease <= now
                   /\ ~ Expired(row, now)

Replayable(row) == ~ row.progress /\ row.fingerprint # None

\* A stale claim that may have had effects is fenced for good; a clean one
\* returns to paused and stays bound to the reply it was claimed for.
ReapRow(row, now) ==
    CASE Stale(row, now) /\ Replayable(row) ->
             [row EXCEPT !.state = "paused", !.token = None, !.lease = NoLease]
      [] Stale(row, now) /\ ~ Replayable(row) -> Fenced(row)
      [] OTHER -> row

PurgeRow(row, now) ==
    IF /\ Expired(row, now)
       /\ row.state = "paused" \/ ~ LeaseLive(row, now)
    THEN NoPause ELSE row

\* What inspect(), status() and discard_paused() do to the row first.
SweptRow(row, now) == PurgeRow(ReapRow(row, now), now)

\* What save() and handoff() do to the whole table first.
Swept(table, now) == [k \in Conversations |-> SweptRow(table[k], now)]

(***************************************************************************)
(* claim                                                                   *)
(***************************************************************************)
Bound(row, f) == row.fingerprint \in {None, f}

\* Mutant: a completed outcome is replayed to any reply.
TombstoneAnswerToAnyone(row, f, now) ==
    CASE Expired(row, now) -> "expired"
      [] ~ Expired(row, now) /\ row.outcome = "completed" -> "completed"
      [] OTHER -> "ambiguous"

TombstoneAnswer(row, f, now) ==
    CASE Expired(row, now) -> "expired"
      [] ~ Expired(row, now) /\ row.outcome = "ambiguous" /\ Bound(row, f) -> "ambiguous"
      [] ~ Expired(row, now) /\ row.outcome = "completed" /\ row.fingerprint = f -> "completed"
      [] OTHER -> "payload_mismatch"

PauseAnswer(row, f, now) ==
    CASE ~ Bound(row, f) -> "payload_mismatch"
      [] Bound(row, f) /\ LeaseLive(row, now) -> "in_progress"
      [] Bound(row, f) /\ ~ LeaseLive(row, now) /\ Expired(row, now) -> "expired"
      [] /\ Bound(row, f) /\ ~ LeaseLive(row, now) /\ ~ Expired(row, now)
         /\ row.state = "in_flight" /\ ~ Replayable(row) -> "fenced"
      [] OTHER -> "claimed"

ClaimAnswer(row, owned, f, now) ==
    CASE row.state = "absent" \/ ~ owned -> "missing"
      [] row.state # "absent" /\ owned /\ ~ Active(row) -> TombstoneAnswer(row, f, now)
      [] OTHER -> PauseAnswer(row, f, now)

ClaimedRow(row, a, f, now) ==
    [row EXCEPT !.state = "in_flight", !.token = a, !.fingerprint = f, !.progress = FALSE,
                !.lease = now + OperationLeaseSeconds, !.expires = ClaimedExpiry(now)]

ClaimRow(row, owned, a, f, now) ==
    LET verdict == ClaimAnswer(row, owned, f, now)
    IN CASE verdict = "claimed" -> ClaimedRow(row, a, f, now)
         [] verdict = "fenced"  -> [Fenced(row) EXCEPT !.fingerprint = IF @ = None THEN f ELSE @]
         [] verdict = "expired" -> NoPause
         [] OTHER               -> row

(***************************************************************************)
(* The owner of a claim                                                    *)
(***************************************************************************)
Owns(row, a, now) == /\ row.state = "in_flight" /\ row.outcome = "none" /\ row.token = a
                     /\ LeaseLive(row, now) /\ ~ Expired(row, now)

Later(s, t) == IF s >= t THEN s ELSE t

RenewRow(row, a, now) ==
    IF Owns(row, a, now)
    THEN [row EXCEPT !.lease = Later(@, now + OperationLeaseSeconds),
                     !.expires = Later(@, ClaimedExpiry(now))]
    ELSE row

\* Mutant: the barrier extends the lease but is not recorded.
MarkProgressRowUnrecorded(row, a, now) == RenewRow(row, a, now)

MarkProgressRow(row, a, now) ==
    IF Owns(row, a, now)
    THEN [row EXCEPT !.progress = TRUE, !.lease = now + OperationLeaseSeconds,
                     !.expires = ClaimedExpiry(now)]
    ELSE row

MayCancel(row, a, now) == Owns(row, a, now) /\ ~ row.progress

CancelRow(row, a, now) ==
    IF MayCancel(row, a, now)
    THEN [row EXCEPT !.state = "paused", !.token = None, !.lease = NoLease,
                     !.fingerprint = None]
    ELSE row

ConsumeRow(row, a, now) == IF Owns(row, a, now) THEN NoPause ELSE row

MayFinish(row, a, now) == Owns(row, a, now) /\ row.fingerprint # None

FinishRow(row, a, r, now) ==
    IF MayFinish(row, a, now)
    THEN [row EXCEPT !.token = None, !.lease = NoLease, !.progress = TRUE,
                     !.outcome = "completed", !.response = r, !.expires = now + TtlSeconds]
    ELSE row

DiscardRow(row, now) ==
    LET swept == SweptRow(row, now)
    IN IF Active(swept) /\ swept.state = "paused" THEN NoPause ELSE swept

(***************************************************************************)
(* Insertion and capacity                                                  *)
(***************************************************************************)
ActiveKeys(table) == {k \in Conversations : Active(table[k])}

Evictable(table, protected) ==
    {k \in ActiveKeys(table) \ {protected} : table[k].state = "paused"}

\* Mutant: room is made before the new pause is counted.
EvictionsOffByOne(table, protected) ==
    {E \in SUBSET Evictable(table, protected) :
        /\ Cardinality(E) = LET excess == Cardinality(ActiveKeys(table)) - MaxCount - 1
                            IN IF excess <= 0 THEN 0 ELSE excess
        /\ \A x \in E, y \in Evictable(table, protected) \ E : table[x].created <= table[y].created}

\* The oldest pauses whose removal brings the table down to max_count (the
\* order of equal created_at is that of random ids): none when too many are
\* in flight, and then the transaction is rolled back.
Evictions(table, protected) ==
    {E \in SUBSET Evictable(table, protected) :
        /\ Cardinality(E) = LET excess == Cardinality(ActiveKeys(table)) - MaxCount
                            IN IF excess <= 0 THEN 0 ELSE excess
        /\ \A x \in E, y \in Evictable(table, protected) \ E : table[x].created <= table[y].created}

Without(table, E) == [k \in Conversations |-> IF k \in E THEN NoPause ELSE table[k]]

\* The tables save() of a fresh id may leave.
Saved(table, k, now) ==
    LET filled == [Swept(table, now) EXCEPT ![k] = NewPause(now)]
    IN {Without(filled, E) : E \in Evictions(filled, k)}

\* The tables a handoff() by an owner of k may leave: its sweep comes before
\* the outcome is written.
HandedOff(table, k, a, r, n, now) ==
    LET swept  == Swept(table, now)
        filled == [swept EXCEPT ![k] = FinishRow(@, a, r, now), ![n] = NewPause(now)]
    IN {Without(filled, E) : E \in Evictions(filled, n)}
=============================================================================
