---------------------------- MODULE LearnerMemory ----------------------------
(***************************************************************************)
(* The memory of one learner: services/memory.py over the LangGraph store, *)
(* its snapshot file (services/memory_persist.py) and the review schedule  *)
(* (services/srs.py).                                                      *)
(*                                                                         *)
(* The store has no transactions.  An operation reads the rows it needs    *)
(* and then puts or deletes rows one at a time, under a lock: of the       *)
(* learner in PostgreSQL (shared by all processes, lost with the process), *)
(* of the process when the store is in memory.  A process sends PostgreSQL *)
(* one operation at a time, through its gate, in a thread that cannot be   *)
(* cancelled.  Without PostgreSQL all there is after a restart is the last *)
(* snapshot.                                                               *)
(*                                                                         *)
(* A request commits the report of a session as several operations and     *)
(* then checkpoints a marker into the session's own table; until it is     *)
(* there, later requests of the session commit again.  A cancelled request *)
(* stops waiting after a deadline, and the commit goes on without it.      *)
(*                                                                         *)
(* Left out: scores, texts and dates, the decision log, preferences (kept  *)
(* like the review schedule), and the 20 weak points kept per document.    *)
(***************************************************************************)
EXTENDS Naturals, Sequences, FiniteSets, SequencesExt

CONSTANTS Attempts,         \* what a client waits for, and can repeat
          Processes,        \* that share one PostgreSQL; one of them if there is none
          Sessions,
          Tutored,          \* those of them the tutor holds, whose review it schedules
          OldSessions,      \* sessions of the learner from before these
          Report,           \* Report[s]: one question, new or a mistake practised again
          InitialStores,    \* what earlier requests may have left
          ArchiveThreshold, \* ARCHIVE_THRESHOLD
          None

ASSUME ThresholdAssumption == ArchiveThreshold \in Nat \ {0}
ASSUME TutoredAssumption == Tutored \subseteq Sessions
ASSUME ReportAssumption == Report \in [Sessions -> [correct : BOOLEAN, source : Sessions \cup {None}]]
ASSUME OldSessionsAssumption == Sessions \cap OldSessions = {}
ASSUME NoneAssumption == None \notin Attempts \cup Processes \cup Sessions \cup OldSessions

VARIABLES postgres, \* DATABASE_URL is set
          store,    \* the rows of this learner
          disk,     \* the snapshot file
          req,      \* req[a]: a request, the operation it is in and what that has in hand
          gate,     \* gate[p]: whose operation process p sends to PostgreSQL
          lock,     \* whose operation holds the lock
          dumping,  \* whose thread holds _SNAPSHOT_LOCK
          marked    \* sessions with the marker that their report is in the memory

vars == <<postgres, store, disk, req, gate, lock, dumping, marked>>

Ids == Sessions \cup OldSessions

(***************************************************************************)
(* Rows.  briefs in the order of their dates; ema: the scores folded into  *)
(* the mastery, in order, and applied, in the same row, the sessions whose *)
(* score is known to be there; likewise the review schedule.               *)
(***************************************************************************)
NoRow == [applied |-> {}, ema |-> <<>>]

Rows == [applied : SUBSET Sessions, ema : Seq(Ids)]

Stores == [briefs : Seq(Ids), archives : SUBSET SUBSET Ids, mastery : Rows, weak : SUBSET Ids,
           errors : [Sessions -> {"none", "open", "resolved"}], schedule : Rows,
           legacy : Seq(OldSessions)]

EmptyStore == [briefs |-> <<>>, archives |-> {}, mastery |-> NoRow, weak |-> {},
               errors |-> [s \in Sessions |-> "none"], schedule |-> NoRow, legacy |-> <<>>]

Archived(st) == UNION st.archives

\* The sessions that get_user_session_count counts and the history shows.
Counted(st) == Range(st.briefs) \cup Archived(st)

\* Each session has its score in the mastery once, its review in the schedule
\* once, and one archive that speaks for it.
CountsOnce(st) ==
    /\ IsInjective(st.mastery.ema) /\ IsInjective(st.schedule.ema)
    /\ \A s \in Sessions : /\ s \in st.mastery.applied <=> s \in Range(st.mastery.ema)
                           /\ s \in st.schedule.applied <=> s \in Range(st.schedule.ema)
    /\ \A x, y \in st.archives : x # y => x \cap y = {}

ASSUME InitialStoresAssumption == \A st \in InitialStores : st \in Stores /\ CountsOnce(st)

\* The briefs of these sessions, in the order they have.
Only(briefs, ids) ==
    LET kept[n \in 0..Len(briefs)] ==
            IF n = 0 THEN <<>>
            ELSE IF briefs[n] \in ids THEN Append(kept[n - 1], briefs[n]) ELSE kept[n - 1]
    IN kept[Len(briefs)]

\* One put or delete.
Puts == [op : {"brief", "delete"}, id : Ids] \cup [op : {"archive"}, ids : SUBSET Ids]
        \cup [op : {"error"}, id : Sessions, state : {"open", "resolved"}]
        \cup [op : {"weak"}, row : SUBSET Ids] \cup [op : {"mastery", "schedule"}, row : Rows]

Apply(st, w) ==
    CASE w.op = "brief"    -> [st EXCEPT !.briefs = IF w.id \in Range(@) THEN @ ELSE Append(@, w.id)]
      [] w.op = "delete"   -> [st EXCEPT !.briefs = Only(@, Ids \ {w.id})]
      [] w.op = "archive"  -> [st EXCEPT !.archives = @ \cup {w.ids}]
      [] w.op = "error"    -> [st EXCEPT !.errors[w.id] = w.state]
      [] w.op = "weak"     -> [st EXCEPT !.weak = w.row]
      [] w.op = "mastery"  -> [st EXCEPT !.mastery = w.row]
      [] w.op = "schedule" -> [st EXCEPT !.schedule = w.row]

Brief(id) == [op |-> "brief", id |-> id]
Delete(id) == [op |-> "delete", id |-> id]
Folded(row, s) == [applied |-> row.applied \cup {s}, ema |-> Append(row.ema, s)]

(***************************************************************************)
(* What each operation writes, in order, when it has read the rows of st   *)
(***************************************************************************)
\* A late retry must not bring an archived session back.
BriefWrites(st, s) == IF s \in Counted(st) THEN <<>> ELSE <<Brief(s)>>

\* A mistake is recorded once, and practising it can only resolve it.
AppendErrorWrites(st, id) ==
    IF st.errors[id] # "none" THEN <<>> ELSE <<[op |-> "error", id |-> id, state |-> "open"]>>

ResolveWrites(st, id) ==
    IF st.errors[id] # "open" THEN <<>> ELSE <<[op |-> "error", id |-> id, state |-> "resolved"]>>

\* The mistake a session is about: the one it practises, or its own.
MistakeOf(s) == IF Report[s].source = None THEN s ELSE Report[s].source

ErrorWrites(st, s) ==
    CASE ~ Report[s].correct          -> AppendErrorWrites(st, MistakeOf(s))
      [] Report[s].correct /\ Report[s].source # None -> ResolveWrites(st, MistakeOf(s))
      [] OTHER                        -> <<>>

\* Mutant: every commit folds the score in.
MasteryAgain(st, s) == <<[op |-> "mastery", row |-> Folded(st.mastery, s)]>>

MasteryWrites(st, s) ==
    IF s \in st.mastery.applied
    THEN <<>>
    ELSE <<[op |-> "mastery", row |-> Folded(st.mastery, s)]>>

WeakWrites(st, s) ==
    IF Report[s].correct THEN <<>> ELSE <<[op |-> "weak", row |-> st.weak \cup {s}]>>

ScheduleWrites(st, s) ==
    IF s \in st.schedule.applied
    THEN <<>>
    ELSE <<[op |-> "schedule", row |-> Folded(st.schedule, s)]>>

\* Mutant: the briefs go before the archive that speaks for them is there.
ArchiveDeletesFirst(st) ==
    LET oldest == SubSeq(st.briefs, 1, Len(st.briefs) \div 2)
    IN IF Len(st.briefs) <= ArchiveThreshold
       THEN <<>>
       ELSE [i \in DOMAIN oldest |-> Delete(oldest[i])]
            \o <<[op |-> "archive", ids |-> Range(oldest)]>>

\* Clears what an interrupted archiving left, then archives the oldest half.
ArchiveWrites(st) ==
    LET left == Only(st.briefs, Archived(st))
        raw == Only(st.briefs, Ids \ Archived(st))
        oldest == SubSeq(raw, 1, Len(raw) \div 2)
        deletes(ids) == [i \in DOMAIN ids |-> Delete(ids[i])]
    IN IF Len(raw) <= ArchiveThreshold
       THEN deletes(left)
       ELSE deletes(left) \o <<[op |-> "archive", ids |-> Range(oldest)]>> \o deletes(oldest)

\* Rows of the old namespaces, if no bank has any row yet.
MigrateWrites(st) ==
    IF \/ st.legacy = <<>>
       \/ Counted(st) # {} \/ st.mastery # NoRow \/ st.weak # {}
       \/ \E s \in Sessions : st.errors[s] # "none"
    THEN <<>>
    ELSE <<[op |-> "mastery", row |-> [applied |-> {}, ema |-> <<st.legacy[1]>>]],
           [op |-> "weak", row |-> {st.legacy[1]}]>>
         \o [i \in DOMAIN st.legacy |-> Brief(st.legacy[i])]

Writes(st, op, s) ==
    CASE op = "brief"    -> BriefWrites(st, s)
      [] op = "error"    -> ErrorWrites(st, s)
      [] op = "semantic" -> MasteryWrites(st, s) \o WeakWrites(st, s)
      [] op = "archive"  -> ArchiveWrites(st)
      [] op = "schedule" -> ScheduleWrites(st, s)
      [] op = "migrate"  -> MigrateWrites(st)

(***************************************************************************)
(* Requests                                                                *)
(***************************************************************************)
\* "commit": commit_learning_memory, then the marker; "review":
\* update_after_session; "read": get_user_profile, _sessions, _session_count.
First(kind) == CASE kind = "commit" -> "brief" [] kind = "review" -> "schedule" [] kind = "read" -> "migrate"

After(op) ==
    CASE op = "brief"                  -> "error"
      [] op = "error"                  -> "semantic"
      [] op = "semantic"               -> "archive"
      [] op \in {"archive", "schedule"} -> "snapshot"
      [] op = "migrate"                -> "idle"

\* stage: waiting for the gate, then for the lock; writing what is in hand.
\* "late": the gate came at the instant the wait for it ended.
\* For the snapshot: about to copy the store; the copy in hand, being written.
Idle == [kind |-> None, session |-> None, home |-> None, op |-> "idle", stage |-> "gate",
         hand |-> <<>>, copy |-> None]

Go(a, r) == req' = [req EXCEPT ![a] = r]

\* PostgreSQL needs no snapshot: persist_snapshot does nothing.
At(r, op) ==
    LET next == IF op # "snapshot" \/ ~ postgres THEN op
                ELSE IF r.kind = "commit" THEN "mark" ELSE "idle"
        stage == CASE next = "snapshot" -> "copy"
                   [] next = "mark"     -> "mark"
                   [] OTHER             -> IF postgres THEN "gate" ELSE "lock"
    IN IF next = "idle"
       THEN Idle
       ELSE [r EXCEPT !.op = next, !.stage = stage, !.hand = <<>>, !.copy = None]

Commits(r) == r.kind = "commit"

\* Archiving that fails is skipped.
Failed(r) == IF r.op = "archive" THEN At(r, "snapshot") ELSE Idle

-----------------------------------------------------------------------------
Stages == {"gate", "late", "lock", "write", "copy", "dump", "mark"}

InThread(r) == r.stage \in {"lock", "write"}

Ops == {"idle", "brief", "error", "semantic", "archive", "schedule", "migrate", "snapshot", "mark"}

Requests == [kind : {"commit", "review", "read", None}, session : Sessions \cup {None},
             home : Processes \cup {None}, op : Ops, stage : Stages,
             hand : Seq(Puts), copy : Stores \cup {None}]

TypeOK ==
    /\ postgres \in BOOLEAN
    /\ {store, disk} \subseteq Stores
    /\ req \in [Attempts -> Requests]
    /\ gate \in [Processes -> Attempts \cup {None}]
    /\ {lock, dumping} \subseteq Attempts \cup {None}
    /\ marked \subseteq Sessions

Init ==
    /\ postgres \in BOOLEAN
    /\ store \in InitialStores
    /\ disk = store
    /\ req = [a \in Attempts |-> Idle]
    /\ gate = [p \in Processes |-> None]
    /\ lock = None /\ dumping = None
    /\ marked = {}

\* A review is of a session whose report is known; a commit is one that no
\* marker was read for.
Start(a) ==
    /\ req[a] = Idle
    /\ \E p \in Processes, what \in {<<"commit", s>> : s \in Sessions \ marked}
                                 \cup {<<"review", s>> : s \in Tutored}
                                 \cup {<<"read", None>>} :
        /\ ~ postgres => \A b \in Attempts : req[b].home \in {p, None}
        /\ Go(a, At([Idle EXCEPT !.kind = what[1], !.session = what[2], !.home = p], First(what[1])))
    /\ UNCHANGED <<postgres, store, disk, gate, lock, dumping, marked>>

-----------------------------------------------------------------------------
(***************************************************************************)
(* One operation                                                           *)
(***************************************************************************)
SetGate(r, holder) == gate' = [gate EXCEPT ![r.home] = holder]

TakeGate(a) ==
    LET r == req[a] IN
    /\ postgres /\ r.op # "idle" /\ r.stage = "gate"
    /\ gate[r.home] = None
    /\ SetGate(r, a)
    /\ \E stage \in {"lock", "late"} : Go(a, [r EXCEPT !.stage = stage])
    /\ UNCHANGED <<postgres, store, disk, lock, dumping, marked>>

\* The wait ends, at its timeout or with a cancelled request.
LoseGate(a) ==
    LET r == req[a] IN
    /\ postgres /\ r.op # "idle" /\ r.stage = "gate"
    /\ gate[r.home] # None
    /\ Go(a, Failed(r))
    /\ UNCHANGED <<postgres, store, disk, gate, lock, dumping, marked>>

\* Mutant: nobody watches the task that acquired it.
LateGateKept(a) ==
    /\ req[a].stage = "late"
    /\ Go(a, Failed(req[a]))
    /\ UNCHANGED <<postgres, store, disk, gate, lock, dumping, marked>>

\* A gate that came too late is given back when its task is seen to be done.
ReturnLateGate(a) ==
    LET r == req[a] IN
    /\ r.stage = "late"
    /\ SetGate(r, None)
    /\ Go(a, Failed(r))
    /\ UNCHANGED <<postgres, store, disk, lock, dumping, marked>>

\* In memory, the coroutine of a commit runs from its first operation to the
\* snapshot without giving way; only the thread of a snapshot runs beside it.
LoopIsFree(a) ==
    \A b \in Attempts \ {a} :
        /\ req[b].op \notin {"error", "semantic", "archive"}
        /\ req[b].stage # "write"

\* The operation holds the lock and reads its rows.  In memory a migration
\* takes the lock for one row at a time.
TakeLock(a) ==
    LET r == req[a] IN
    /\ r.stage = "lock"
    /\ lock = None
    /\ ~ postgres => LoopIsFree(a)
    /\ lock' = IF postgres \/ r.op # "migrate" THEN a ELSE None
    /\ Go(a, [r EXCEPT !.stage = "write", !.hand = Writes(store, r.op, r.session)])
    /\ UNCHANGED <<postgres, store, disk, gate, dumping, marked>>

Write(a) ==
    LET r == req[a] IN
    /\ r.stage = "write" /\ r.hand # <<>>
    /\ store' = Apply(store, Head(r.hand))
    /\ Go(a, [r EXCEPT !.hand = Tail(@)])
    /\ UNCHANGED <<postgres, disk, gate, lock, dumping, marked>>

\* What the end of a thread gives back.
LetGo(a) ==
    /\ lock' = IF lock = a THEN None ELSE lock
    /\ gate' = [p \in Processes |-> IF gate[p] = a THEN None ELSE gate[p]]

Done(a) ==
    LET r == req[a] IN
    /\ r.stage = "write" /\ r.hand = <<>>
    /\ LetGo(a)
    /\ Go(a, At(r, After(r.op)))
    /\ UNCHANGED <<postgres, store, disk, dumping, marked>>

\* The lock is not there in time, or PostgreSQL fails between two rows.
Fail(a) ==
    LET r == req[a] IN
    /\ postgres /\ InThread(r)
    /\ LetGo(a)
    /\ Go(a, Failed(r))
    /\ UNCHANGED <<postgres, store, disk, dumping, marked>>

(***************************************************************************)
(* The snapshot                                                            *)
(***************************************************************************)
Copy(a) ==
    LET r == req[a] IN
    /\ r.stage = "copy"
    /\ dumping = None /\ lock = None
    /\ dumping' = a
    /\ Go(a, [r EXCEPT !.stage = "dump", !.copy = store])
    /\ UNCHANGED <<postgres, store, disk, gate, lock, marked>>

Dump(a) ==
    LET r == req[a] IN
    /\ r.stage = "dump"
    /\ disk' = r.copy
    /\ dumping' = None
    /\ Go(a, IF Commits(r) THEN At(r, "mark") ELSE Idle)
    /\ UNCHANGED <<postgres, store, gate, lock, marked>>

\* Mutant: a commit, too, does without its snapshot.
DumpFailureIgnored(a) ==
    /\ req[a].stage = "dump"
    /\ dumping' = None
    /\ Go(a, IF Commits(req[a]) THEN At(req[a], "mark") ELSE Idle)
    /\ UNCHANGED <<postgres, store, disk, gate, lock, marked>>

\* A commit fails with its snapshot; a review does without.
DumpFails(a) ==
    /\ req[a].stage = "dump"
    /\ dumping' = None
    /\ Go(a, Idle)
    /\ UNCHANGED <<postgres, store, disk, gate, lock, marked>>

-----------------------------------------------------------------------------
\* The request checkpoints the marker, unless it was cancelled long ago, has
\* lost its session's lease, or the checkpoint fails.
Mark(a) ==
    LET r == req[a] IN
    /\ r.stage = "mark"
    /\ marked' \in {marked, marked \cup {r.session}}
    /\ Go(a, Idle)
    /\ UNCHANGED <<postgres, store, disk, gate, lock, dumping>>

(***************************************************************************)
(* A process dies with its requests, threads and locks, or stops after one *)
(* more snapshot.  PostgreSQL stays; a store in memory is what the file    *)
(* holds when the process is back.                                         *)
(***************************************************************************)
Restart(p) ==
    /\ ~ postgres => \A a \in Attempts : req[a].home \in {p, None}
    /\ \/ UNCHANGED disk
       \/ ~ postgres /\ dumping = None /\ lock = None /\ disk' = store
    /\ store' = IF postgres THEN store ELSE disk'
    /\ req' = [a \in Attempts |-> IF req[a].home = p THEN Idle ELSE req[a]]
    /\ gate' = [gate EXCEPT ![p] = None]
    /\ lock' = IF lock # None /\ req[lock].home = p THEN None ELSE lock
    /\ dumping' = IF postgres THEN dumping ELSE None
    /\ UNCHANGED <<postgres, marked>>

-----------------------------------------------------------------------------
Next ==
    \/ \E a \in Attempts :
        \/ Start(a) \/ Mark(a)
        \/ TakeGate(a) \/ LoseGate(a) \/ ReturnLateGate(a)
        \/ TakeLock(a) \/ Write(a) \/ Done(a) \/ Fail(a)
        \/ Copy(a) \/ Dump(a) \/ DumpFails(a)
    \/ \E p \in Processes : Restart(p)

Spec == Init /\ [][Next]_vars

-----------------------------------------------------------------------------
(***************************************************************************)
(* What must hold                                                          *)
(***************************************************************************)
\* What would be there after a restart at this moment.
Durable == IF postgres THEN store ELSE disk

\* The marker of a session is only there when its brief, its score, its
\* mistake and its weak point would all survive a restart, whichever
\* attempts were cut off, repeated or overtaken on the way
\* (commit_learning_memory: on_core_written comes last).
MarkedIsDurable ==
    \A s \in marked :
        /\ s \in Counted(Durable)
        /\ s \in Range(Durable.mastery.ema)
        /\ ~ Report[s].correct =>
            /\ s \in Durable.weak
            /\ Durable.errors[MistakeOf(s)] # "none"

\* However often a report is committed or reviewed, its score is in the
\* mastery once, its review in the schedule once, and at most one archive
\* speaks for its session (_update_mastery_sync, update_after_session,
\* _archive_session_briefs_unlocked).
EachSessionCountsOnce == CountsOnce(store)

Forgets(st, later) ==
    \/ ~ (Counted(st) \subseteq Counted(later)) \/ ~ (st.weak \subseteq later.weak)
    \/ ~ IsPrefix(st.mastery.ema, later.mastery.ema)
    \/ ~ IsPrefix(st.schedule.ema, later.schedule.ema)
    \/ \E s \in Sessions : \/ st.errors[s] # "none" /\ later.errors[s] = "none"
                           \/ st.errors[s] = "resolved" /\ later.errors[s] # "resolved"

\* What would survive a restart is never lost again: no archiving that is cut
\* off drops a session, no snapshot overwrites a newer one, no lost update
\* drops a score, and a mistake once resolved is never open again.
NothingDurableIsForgotten == [][~ Forgets(Durable, Durable')]_vars

\* A process has at most one thread in PostgreSQL, abandoned ones included,
\* and its gate is held exactly by the request that owns that thread or is
\* about to give the gate back (_run_store_io).
OneThreadPerProcess ==
    postgres =>
        \A p \in Processes, a \in Attempts :
            gate[p] = a <=> /\ req[a].home = p /\ req[a].op # "idle"
                            /\ req[a].stage = "late" \/ InThread(req[a])
=============================================================================
