------------------------------ MODULE Receipts ------------------------------
(***************************************************************************)
(* One row of the table studyloop_idempotency_receipts and what every      *)
(* transaction of services/idempotency.py does to it: the row it leaves    *)
(* and the answer it gives.  Each method of IdempotencyStore runs one      *)
(* transaction (BEGIN IMMEDIATE on SQLite, SELECT ... FOR UPDATE on        *)
(* PostgreSQL) and reads the clock after it holds the lock, so a method is *)
(* a function of the row it locked and of the instant it read.             *)
(*                                                                         *)
(* created_at, updated_at and effect_tool are never read back and are left *)
(* out.  operation and request_fingerprint are only ever compared          *)
(* together: `binding` stands for the pair.                                *)
(***************************************************************************)
EXTENDS Integers

CONSTANTS Attempts,      \* one per begin(): names the tokens that call draws
          Bindings,      \* (operation, request fingerprint) pairs
          Responses,     \* serialised responses
          LeaseSeconds,  \* lease_seconds
          None           \* SQL NULL

ASSUME LeaseAssumption == LeaseSeconds \in Nat \ {0}
ASSUME NoneAssumption == None \notin Attempts \cup Bindings \cup Responses

NoLease == -1

\* "pending" and "effect_started" are rows of the release before leases.
States == {"absent", "pending", "pending_v2", "effect_started",
           "effect_started_v2", "ambiguous", "completed"}

Row == [state    : States,
        binding  : Bindings \cup {None},
        response : Responses \cup {None},
        owner    : Attempts \cup {None},
        recovery : Attempts \cup {None},
        expires  : Nat \cup {NoLease}]

NoRow == [state |-> "absent", binding |-> None, response |-> None,
          owner |-> None, recovery |-> None, expires |-> NoLease]

\* A row the release before leases left behind: ALTER TABLE ... ADD COLUMN
\* gives it NULL tokens and a NULL lease.
LegacyRow(s, b) == [NoRow EXCEPT !.state = s, !.binding = b]

Live(row, now) == row.expires # NoLease /\ row.expires > now

Lapsed(row, now) == row.expires # NoLease /\ row.expires <= now

(***************************************************************************)
(* begin                                                                   *)
(***************************************************************************)
Reclaimable(row, now) ==
    /\ row.state = "pending_v2"
    /\ row.owner # None /\ row.recovery # None
    /\ Lapsed(row, now)

BeginAnswer(row, b, now) ==
    CASE row.state = "absent"        -> "claimed"
      [] row.state # "absent" /\ row.binding # b -> "payload_mismatch"
      [] row.state = "completed" /\ row.binding = b /\ row.response # None -> "replayed"
      [] row.state = "pending" /\ row.binding = b -> "in_progress"
      [] row.binding = b /\ Reclaimable(row, now) -> "claimed"
      [] /\ row.state = "pending_v2" /\ row.binding = b
         /\ row.owner # None /\ row.recovery # None
         /\ Live(row, now)           -> "in_progress"
      [] OTHER                       -> "ambiguous"

\* A fresh key gets both tokens of this call; a lapsed claim changes owner
\* and keeps the recovery token of the call that first inserted it.
BeginRow(row, b, a, now) ==
    IF BeginAnswer(row, b, now) # "claimed" THEN row
    ELSE IF row.state = "absent"
         THEN [state |-> "pending_v2", binding |-> b, response |-> None,
               owner |-> a, recovery |-> a, expires |-> now + LeaseSeconds]
         ELSE [row EXCEPT !.owner = a, !.expires = now + LeaseSeconds]

(***************************************************************************)
(* The owner's transitions                                                 *)
(***************************************************************************)
\* Mutant: fenced by the lease alone, whoever holds it.
MayWriteAnyOwner(row, a, now) ==
    \/ row.state = "pending_v2" /\ Live(row, now)
    \/ row.state = "effect_started_v2"

MayWrite(row, a, now) ==
    /\ row.owner = a
    /\ \/ row.state = "pending_v2" /\ Live(row, now)
       \/ row.state = "effect_started_v2"

RenewHolds(row, a, now) == MayWrite(row, a, now) /\ row.recovery # None

RenewRow(row, a, now) ==
    IF RenewHolds(row, a, now) /\ row.state = "pending_v2"
    THEN [row EXCEPT !.expires = IF @ >= now + LeaseSeconds THEN @ ELSE now + LeaseSeconds]
    ELSE row

MarkEffectRow(row, a, now) ==
    IF MayWrite(row, a, now)
    THEN [row EXCEPT !.state = "effect_started_v2", !.expires = NoLease]
    ELSE row

CompletedRow(row, r) ==
    [row EXCEPT !.state = "completed", !.response = r, !.owner = None, !.expires = NoLease]

CompleteRow(row, a, r, now) ==
    IF MayWrite(row, a, now) THEN CompletedRow(row, r) ELSE row

AbortRow(row, a) ==
    CASE row.owner = a /\ row.state = "pending_v2" -> NoRow
      [] row.owner = a /\ row.state = "effect_started_v2" ->
             [row EXCEPT !.state = "ambiguous", !.owner = None, !.expires = NoLease]
      [] OTHER -> row

(***************************************************************************)
(* Token-free operations, from an outcome that is durable elsewhere        *)
(***************************************************************************)
\* Mutant: an attempt that may still act is overruled in every case.
RepairableAlways(allow) == {"pending_v2", "effect_started_v2", "ambiguous"}

Repairable(allow) ==
    IF allow THEN {"pending_v2", "effect_started_v2", "ambiguous"} ELSE {"pending_v2"}

\* Mutant: a completed receipt is taken to agree without being compared.
ReconcileAnswerTrusts(row, b, r, allow) ==
    CASE row.state = "absent"                         -> "receipt_missing"
      [] row.state # "absent" /\ row.binding # b      -> "payload_mismatch"
      [] row.state = "completed" /\ row.binding = b   -> "agreed"
      [] row.binding = b /\ row.state \in Repairable(allow) -> "repaired"
      [] OTHER                                        -> "ambiguous"

ReconcileAnswer(row, b, r, allow) ==
    CASE row.state = "absent"                         -> "receipt_missing"
      [] row.state # "absent" /\ row.binding # b      -> "payload_mismatch"
      [] row.state = "completed" /\ row.binding = b   ->
             IF row.response = r THEN "agreed" ELSE "disagrees"
      [] row.binding = b /\ row.state \in Repairable(allow) -> "repaired"
      [] OTHER                                        -> "ambiguous"

\* Mutant: the durable outcome overwrites a response already recorded.
ReconcileRowOverwrites(row, b, r, allow) ==
    IF ReconcileAnswer(row, b, r, allow) \in {"repaired", "disagrees"}
    THEN CompletedRow(row, r) ELSE row

ReconcileRow(row, b, r, allow) ==
    IF ReconcileAnswer(row, b, r, allow) = "repaired" THEN CompletedRow(row, r) ELSE row

\* Mutant: forgets the state that replaced effect_started.
HasEffectStartedLegacy(row) == row.state \in {"effect_started", "ambiguous"}

\* Also the answer of abort(): whether a durable effect must be assumed.
HasEffectStarted(row) ==
    row.state \in {"effect_started", "effect_started_v2", "ambiguous"}
=============================================================================
