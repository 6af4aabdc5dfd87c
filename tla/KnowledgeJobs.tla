---------------------------- MODULE KnowledgeJobs ----------------------------
(***************************************************************************)
(* The knowledge graph service (graph_service/): one knowledge base, its   *)
(* documents and their uploaded versions, the files they were parsed from, *)
(* the queue of jobs that write the index, and the one worker that runs    *)
(* them, in one process that may die and come back with another index      *)
(* configuration.                                                          *)
(*                                                                         *)
(* A request checks the base and queues a job in one transaction, holding  *)
(* the base's write lock; the worker holds that lock from the first write  *)
(* to the index to the commit that publishes the job, and no longer.       *)
(* LightRAG's index is external: a write of it is whole when the call      *)
(* returns, and of unknown content for the versions it touched otherwise.  *)
(*                                                                         *)
(* The epoch of a base and its name are left out: the epoch repeats what   *)
(* status and revision say to every guard modelled here.                   *)
(***************************************************************************)
EXTENDS Naturals, Sequences, FiniteSets, FiniteSetsExt

CONSTANTS Documents,
          MaxVersions,    \* bound: uploads
          MaxJobs,        \* bound: jobs accepted
          MaxFixes,       \* bound: corrections recorded
          MaxRevision,    \* bound: revisions a rename may lead to
          Configs,        \* index configurations the process may be started with
          Faults,         \* what may go wrong: see FaultKinds
          MaxFaults,      \* bound: faults
          RetriesAnyJob,  \* clients retry any failed job, or only the last job
          Gone, Unavailable

FaultKinds == {"crash", "provider", "database", "files", "refusal", "lost finish", "lost begin"}

ASSUME Bounds == /\ {MaxVersions, MaxJobs, MaxFixes, MaxRevision, MaxFaults} \subseteq Nat
                 /\ Faults \subseteq FaultKinds
                 /\ RetriesAnyJob \in BOOLEAN
ASSUME GoneAssumption == Gone \notin Nat \cup Documents

VARIABLES kb,        \* the row of the base
          docs,      \* docs[d]: the row of document d
          versions,  \* versions[v]: the row of version v
          files,     \* the versions whose original is on disk
          fixes,     \* the corrections recorded: how many, and whether one renames or merges
          jobs,      \* the rows of the jobs, in the order they were accepted
          engine,    \* the index: what it holds, what is half written, fixes in it
          upload,    \* upload[v]: the request that uploads version v
          worker,    \* the worker's place in its loop, and its job
          config,    \* the index configuration of the running process
          faults     \* faults so far

rows == <<kb, docs, versions, fixes, jobs>>
vars == <<kb, docs, versions, files, fixes, jobs, engine, upload, worker, config, faults>>

Versions == 1..MaxVersions

Operations == {"ingest_document", "replace_document", "reuse_document", "delete_document",
               "correction", "rebuild", "delete_knowledge_base"}
Purging == {"delete_document", "delete_knowledge_base"}

\* A row of the queue: `of` is the job it retries, `at` the revision it was accepted for.
JobRows == [op       : Operations,
            doc      : Documents \cup {Gone},
            version  : {0} \cup Versions,
            previous : {0} \cup Versions,
            fix      : 0..MaxFixes,
            of       : Nat,
            at       : Nat,
            status   : {"queued", "running", "succeeded", "failed", "purged"}]

UploadRequests == [pc   : {"idle", "checked", "put", "same", "ended", "orphaned"},
                   doc  : Documents \cup {Gone},
                   at   : Nat,
                   twin : {0} \cup Versions]

DeletedKb == {"deleting", "deleted"}

(***************************************************************************)
(* Admission: begin_job                                                    *)
(***************************************************************************)

\* No job writes the index or publishes: the base's lock can be had.
LockFree == worker.pc \notin {"writing", "written"}
Serving == worker.pc # "down"

\* Mutant: whether a dirty base may be written is left to the caller.
AcceptsDirty(at, allowDirty, anyConfig) ==
    /\ Len(jobs) < MaxJobs
    /\ kb.status \in {"ready", "dirty"}
    /\ kb.revision = at
    /\ kb.config = config \/ anyConfig

\* Mutant: the revision the client saw is not compared.
AcceptsStale(at, allowDirty, anyConfig) ==
    /\ Len(jobs) < MaxJobs
    /\ kb.status \in {"ready"} \cup (IF allowDirty THEN {"dirty"} ELSE {})
    /\ kb.config = config \/ anyConfig

\* begin_job accepts a job for the revision the client saw.
Accepts(at, allowDirty, anyConfig) ==
    /\ Len(jobs) < MaxJobs
    /\ kb.status \in {"ready"} \cup (IF allowDirty THEN {"dirty"} ELSE {})
    /\ kb.revision = at
    /\ kb.config = config \/ anyConfig

Job(op, d, v, previous, fix, of) ==
    [op |-> op, doc |-> d, version |-> v, previous |-> previous, fix |-> fix,
     of |-> of, at |-> kb.revision, status |-> "queued"]

BeginJob(job) == /\ jobs' = Append(jobs, job)
                 /\ kb' = [kb EXCEPT !.status = "updating"]

Fault(kind) == /\ kind \in Faults
               /\ faults < MaxFaults
               /\ faults' = faults + 1

(***************************************************************************)
(* Uploads: ingest_document                                                *)
(***************************************************************************)

NextVersion == {v \in Versions : /\ upload[v].pc = "idle"
                                 /\ \A w \in Versions : w < v => upload[w].pc # "idle"}

InFlight(v) == upload[v].pc \in {"checked", "put", "same"}

\* A document id nobody uses: uuid4 for a new one.
Fresh(d) == /\ docs[d].status = "absent"
            /\ \A v \in Versions : ~(InFlight(v) /\ upload[v].doc = d)

\* The request passed get_kb: a new document, or a version of a known one.
StartUpload(v, d) ==
    /\ Serving /\ v \in NextVersion
    /\ kb.status \notin DeletedKb
    /\ Fresh(d) \/ docs[d].status # "absent"
    /\ upload' = [upload EXCEPT ![v] = [pc |-> "checked", doc |-> d, at |-> kb.revision,
                                        twin |-> 0]]
    /\ UNCHANGED <<rows, files, engine, worker, config, faults>>

\* The request carries the very bytes of a published version: nothing is stored.
StartDuplicate(v, d) ==
    /\ Serving /\ v \in NextVersion
    /\ kb.status \notin DeletedKb
    /\ docs[d].status = "active"
    /\ docs[d].current # 0
    /\ versions[docs[d].current].status = "active"
    /\ upload' = [upload EXCEPT ![v] = [pc |-> "same", doc |-> d, at |-> kb.revision,
                                        twin |-> docs[d].current]]
    /\ UNCHANGED <<rows, files, engine, worker, config, faults>>

\* materials.put, before the lock: written aside, then renamed.
Put(v) ==
    /\ upload[v].pc = "checked"
    /\ upload' = [upload EXCEPT ![v].pc = "put"]
    /\ files' = files \cup {v}
    /\ UNCHANGED <<rows, engine, worker, config, faults>>

Ended(v) == upload' = [upload EXCEPT ![v].pc = "ended"]

\* A document may be replaced while its row stands.
Replaceable(d) == docs[d].status \in {"pending", "active"}
IsNew(v) == docs[upload[v].doc].status = "absent"

\* The transaction of begin_job with ingest_document's setup.
UploadRows(v) ==
    LET d == upload[v].doc
    IN  /\ docs' = IF IsNew(v) THEN [docs EXCEPT ![d] = [status |-> "pending", current |-> 0]]
                   ELSE docs
        /\ versions' = [versions EXCEPT ![v] = [doc |-> d, status |-> "pending", path |-> TRUE]]
        /\ BeginJob(Job(IF IsNew(v) THEN "ingest_document" ELSE "replace_document",
                        d, v, docs[d].current, 0, 0))
        /\ UNCHANGED fixes

UploadAccepted(v) == Accepts(upload[v].at, FALSE, FALSE) /\ (IsNew(v) \/ Replaceable(upload[v].doc))

BeginUpload(v) ==
    /\ upload[v].pc = "put" /\ LockFree
    /\ UploadAccepted(v)
    /\ UploadRows(v)
    /\ Ended(v)
    /\ UNCHANGED <<files, engine, worker, config, faults>>

\* The base moved on, the key was used for another job, or the transaction
\* failed: the request takes its file away again.
RefuseUpload(v) ==
    /\ upload[v].pc = "put" /\ LockFree
    /\ \/ ~UploadAccepted(v) /\ UNCHANGED faults
       \/ Fault("database")
    /\ Ended(v)
    /\ files' = files \ {v}
    /\ UNCHANGED <<rows, engine, worker, config>>

\* The transaction commits, its acknowledgement is lost, and the request
\* takes the file away all the same.
LoseUpload(v) ==
    /\ upload[v].pc = "put" /\ LockFree
    /\ UploadAccepted(v)
    /\ UploadRows(v)
    /\ Ended(v)
    /\ files' = files \ {v}
    /\ Fault("lost begin")
    /\ UNCHANGED <<engine, worker, config>>

BeginReuse(v) ==
    /\ upload[v].pc = "same" /\ LockFree
    /\ \/ /\ Accepts(upload[v].at, FALSE, FALSE)
          /\ BeginJob(Job("reuse_document", upload[v].doc, upload[v].twin, 0, 0, 0))
       \/ /\ ~Accepts(upload[v].at, FALSE, FALSE)
          /\ UNCHANGED <<jobs, kb>>
    /\ Ended(v)
    /\ UNCHANGED <<docs, versions, fixes, files, engine, worker, config, faults>>

(***************************************************************************)
(* The other requests: one transaction each, under the lock                *)
(***************************************************************************)

Request(op, d, v, fix) ==
    /\ Serving /\ LockFree
    /\ Accepts(kb.revision, FALSE, FALSE)
    /\ BeginJob(Job(op, d, v, 0, fix, 0))
    /\ UNCHANGED <<docs, versions, files, engine, upload, worker, config, faults>>

DeleteDocument(d) == /\ docs[d].status \in {"pending", "active"}
                     /\ Request("delete_document", d, docs[d].current, 0)
                     /\ UNCHANGED fixes

Correct == /\ fixes.count < MaxFixes
           /\ \E identity \in BOOLEAN :
                fixes' = [count |-> fixes.count + 1, identity |-> fixes.identity \/ identity]
           /\ Request("correction", Gone, 0, fixes.count + 1)

DeleteBase == Request("delete_knowledge_base", Gone, 0, 0) /\ UNCHANGED fixes

\* A rename moves the revision and nothing else.
Rename == /\ Serving /\ LockFree
          /\ kb.status = "ready" /\ kb.revision < MaxRevision
          /\ kb' = [kb EXCEPT !.revision = @ + 1]
          /\ UNCHANGED <<docs, versions, fixes, jobs, files, engine, upload, worker, config, faults>>

Rebuild == /\ Serving /\ LockFree
           /\ Accepts(kb.revision, TRUE, TRUE)
           /\ BeginJob(Job("rebuild", Gone, 0, 0, 0, 0))
           /\ UNCHANGED <<docs, versions, fixes, files, engine, upload, worker, config, faults>>

\* retry_job: the failed job's operation and payload again.  Its key is
\* retry:<job>:<revision>, so at one revision a job is retried once.
Retry(j) ==
    /\ Serving /\ LockFree
    /\ jobs[j].status = "failed"
    /\ RetriesAnyJob \/ j = Len(jobs)
    /\ ~\E i \in DOMAIN jobs : jobs[i].of = j /\ jobs[i].at = kb.revision
    /\ Accepts(kb.revision, TRUE, FALSE)
    /\ BeginJob([jobs[j] EXCEPT !.status = "queued", !.of = j, !.at = kb.revision])
    /\ UNCHANGED <<docs, versions, fixes, files, engine, upload, worker, config, faults>>

(***************************************************************************)
(* The worker: process_one, _execute                                       *)
(***************************************************************************)

Job0 == jobs[worker.job]
SetJob(status) == jobs' = [jobs EXCEPT ![worker.job].status = status]
Goto(pc) == worker' = [worker EXCEPT !.pc = pc]

\* claim_job: the oldest queued job of the table.
Claim ==
    /\ worker.pc = "idle"
    /\ \E j \in DOMAIN jobs :
         /\ jobs[j].status = "queued"
         /\ \A i \in 1..(j - 1) : jobs[i].status # "queued"
         /\ worker' = [worker EXCEPT !.pc = "claimed", !.job = j]
         /\ jobs' = [jobs EXCEPT ![j].status = "running"]
    /\ UNCHANGED <<kb, docs, versions, fixes, files, engine, upload, config, faults>>

Of(d) == {v \in Versions : versions[v].doc = d /\ versions[v].status # "absent"}

\* _rebuild_inputs: the latest upload that waits, else the published version,
\* else the latest of all; without the document the job deletes, and with the
\* version it brings.
Chosen(d) == LET pending == {v \in Of(d) : versions[v].status = "pending"}
             IN  IF pending # {} THEN Max(pending)
                 ELSE IF docs[d].current \in Of(d) THEN docs[d].current ELSE Max(Of(d))

Selected(job) ==
    LET kept == {d \in Documents : /\ docs[d].status \in {"pending", "active"}
                                   /\ Of(d) # {}
                                   /\ ~(job.op \in Purging /\ job.doc \in {d, Gone})
                                   /\ ~(job.op = "replace_document" /\ job.doc = d)}
    IN  {Chosen(d) : d \in kept}
            \cup (IF job.op = "replace_document" THEN {job.version} ELSE {})

\* The jobs that drop the whole workspace and index it again: always, or
\* since a recorded rename or merge leaves no other way to remove a version.
Removing == {"replace_document", "delete_document"}
Rebuilds(job) == \/ job.op \in {"rebuild", "delete_knowledge_base"}
                 \/ job.op \in Removing /\ fixes.identity

\* The SDK may refuse to remove a version it knows, before its first write.
Refusable(job) == /\ job.op \in Removing
                  /\ (IF job.op = "delete_document" THEN job.version ELSE job.previous)
                        \in engine.index \cup engine.torn

Touched(job) == CASE job.op = "ingest_document"  -> {job.version}
                  [] job.op = "replace_document" -> {job.version, job.previous} \ {0}
                  [] job.op = "delete_document"  -> {job.version} \ {0}
                  [] OTHER -> {}

\* The text of a deleted document is blank and its row may be gone: LightRAG
\* has nothing to process.
Indexable(v) == versions[v].status # "absent" /\ docs[versions[v].doc].status # "deleted"

CanWrite(job) ==
    /\ job.op = "rebuild" \/ kb.config = config
    /\ job.op \in {"ingest_document", "replace_document"} => Indexable(job.version)

\* The worker has the lock and writes the index: all of it, the versions of
\* the job, or one correction.
Writing(whole) ==
    /\ worker.pc = "claimed" /\ CanWrite(Job0)
    /\ worker' = [worker EXCEPT !.pc = "writing", !.whole = whole]
    /\ engine' = CASE whole -> [index |-> {}, torn |-> Selected(Job0), applied |-> {}]
                   [] ~whole /\ Job0.op = "reuse_document" -> engine
                   [] ~whole /\ Job0.op = "correction" ->
                        [engine EXCEPT !.applied = @ \ {Job0.fix}]
                   [] OTHER -> [engine EXCEPT !.torn = @ \cup Touched(Job0), !.applied = {}]
    /\ UNCHANGED <<rows, files, upload, config>>

StartWrite == Writing(Rebuilds(Job0)) /\ UNCHANGED faults

\* DeletionRefused: the job rebuilds without the document instead.
StartRefused == /\ worker.pc = "claimed"
                /\ ~Rebuilds(Job0) /\ Refusable(Job0)
                /\ Writing(TRUE)
                /\ Fault("refusal")

\* What the index holds when the job's calls have all returned.
Written(job) ==
    IF worker.whole
    THEN [index |-> Selected(job), torn |-> {},
          applied |-> IF job.op = "delete_knowledge_base" THEN {} ELSE 1..fixes.count]
    ELSE CASE job.op \in {"ingest_document", "replace_document"} ->
                [index |-> (engine.index \ {job.previous}) \cup {job.version},
                 torn |-> engine.torn \ Touched(job), applied |-> 1..fixes.count]
           [] job.op = "delete_document" ->
                [index |-> engine.index \ {job.version},
                 torn |-> engine.torn \ Touched(job), applied |-> 1..fixes.count]
           [] job.op = "correction" -> [engine EXCEPT !.applied = @ \cup {job.fix}]
           [] OTHER -> engine

FinishWrite ==
    /\ worker.pc = "writing"
    /\ engine' = Written(Job0)
    /\ kb' = IF Job0.op = "rebuild" THEN [kb EXCEPT !.config = config] ELSE kb
    /\ Goto("written")
    /\ UNCHANGED <<docs, versions, fixes, jobs, files, upload, config, faults>>

\* The configuration or the version is not what the job needs, or the
\* provider fails, times out or refuses half-way.
FailWrite ==
    /\ \/ worker.pc = "claimed" /\ ~CanWrite(Job0) /\ UNCHANGED faults
       \/ worker.pc = "writing" /\ Fault("provider")
    /\ Goto("failing")
    /\ UNCHANGED <<rows, files, engine, upload, config>>

(***************************************************************************)
(* The worker: finish_job, fail_job                                        *)
(***************************************************************************)

PublishedVersions(job) ==
    CASE job.op = "rebuild" ->
           [v \in Versions |->
              CASE v \in Selected(job) -> [versions[v] EXCEPT !.status = "active"]
                [] v \notin Selected(job) /\ versions[v].status \in {"pending", "active"} ->
                     [versions[v] EXCEPT !.status = "superseded"]
                [] OTHER -> versions[v]]
      [] job.op \in {"ingest_document", "replace_document", "reuse_document", "delete_document"} ->
           [v \in Versions |->
              IF v = job.previous /\ job.op = "replace_document"
              THEN [versions[v] EXCEPT !.status = "superseded"]
              ELSE IF v = job.version
                   THEN [versions[v] EXCEPT !.status =
                           IF job.op = "delete_document" THEN "deleted" ELSE "active"]
                   ELSE versions[v]]
      [] OTHER -> versions

PublishedDocs(job) ==
    CASE job.op = "rebuild" ->
           [d \in Documents |->
              LET mine == Selected(job) \cap Of(d)
              IN  IF mine = {} THEN docs[d]
                  ELSE [status |-> "active", current |-> Max(mine)]]
      [] job.op = "delete_document" -> [docs EXCEPT ![job.doc].status = "deleted"]
      [] job.op = "delete_knowledge_base" ->
           [d \in Documents |-> IF docs[d].status = "absent" THEN docs[d]
                                ELSE [docs[d] EXCEPT !.status = "deleted"]]
      [] job.op \in {"ingest_document", "replace_document", "reuse_document"} ->
           [docs EXCEPT ![job.doc] = [status |-> "active", current |-> job.version]]
      [] OTHER -> docs

\* The base left 'updating', or the job names no version to delete.
CanFinish(job) == /\ kb.status = "updating"
                  /\ job.op = "delete_document" => job.version # 0

Publish(job) ==
    /\ kb' = [kb EXCEPT !.revision = @ + 1,
                        !.status = IF job.op = "delete_knowledge_base" THEN "deleting" ELSE "ready"]
    /\ versions' = PublishedVersions(job)
    /\ docs' = PublishedDocs(job)
    /\ SetJob("succeeded")
    /\ UNCHANGED fixes

FinishJob ==
    /\ worker.pc = "written" /\ CanFinish(Job0)
    /\ Publish(Job0)
    /\ Goto(IF Job0.op \in Purging THEN "sweep" ELSE "idle")
    /\ UNCHANGED <<files, engine, upload, config, faults>>

\* finish_job raises: refused, rolled back, or committed unheard.
LoseFinish ==
    /\ worker.pc = "written"
    /\ \/ ~CanFinish(Job0) /\ UNCHANGED <<rows, faults>>
       \/ Fault("database") /\ UNCHANGED rows
       \/ CanFinish(Job0) /\ Publish(Job0) /\ Fault("lost finish")
    /\ Goto("failing")
    /\ UNCHANGED <<files, engine, upload, config>>

\* fail_job, after the lock was let go: whatever the rows say by now.
FailJob ==
    /\ worker.pc = "failing"
    /\ \/ /\ SetJob("failed")
          /\ kb' = [kb EXCEPT !.status = "dirty"]
          /\ Goto("idle")
          /\ UNCHANGED faults
       \/ /\ Fault("database")
          /\ Goto("recover")
          /\ UNCHANGED <<jobs, kb>>
    /\ UNCHANGED <<docs, versions, fixes, files, engine, upload, config>>

\* mark_interrupted_dirty: at start, and before the next turn after an error.
Interrupted == {j \in DOMAIN jobs : jobs[j].status = "running"}
\* Mutant: the base is marked and its job forgotten.
JobsInterruptedForgotten == jobs

JobsInterrupted == [j \in DOMAIN jobs |-> IF j \in Interrupted
                                          THEN [jobs[j] EXCEPT !.status = "failed"] ELSE jobs[j]]

KbInterrupted == IF Interrupted = {} THEN kb ELSE [kb EXCEPT !.status = "dirty"]

Recover ==
    /\ worker.pc = "recover"
    /\ jobs' = JobsInterrupted
    /\ kb' = KbInterrupted
    /\ Goto("idle")
    /\ UNCHANGED <<docs, versions, fixes, files, engine, upload, config, faults>>

(***************************************************************************)
(* The sweep: purge_deleted_data                                           *)
(***************************************************************************)

\* Mutant: whatever is not published may go.
UnlinkableUnlessActive == {v \in Versions : /\ versions[v].path
                                            /\ versions[v].status # "active"}

\* Versions of deleted documents whose original is still recorded.
Unlinkable == {v \in Versions : /\ versions[v].path
                                /\ docs[versions[v].doc].status = "deleted"}

\* Mutant: the periodic sweep looks at documents only.
StartSweepDocuments ==
    /\ worker.pc = "idle"
    /\ Unlinkable # {}
    /\ Goto("sweep")
    /\ UNCHANGED <<rows, files, engine, upload, config, faults>>

\* The periodic sweep: once a minute, before the next job.
StartSweep ==
    /\ worker.pc = "idle"
    /\ kb.status = "deleting" \/ Unlinkable # {}
    /\ Goto("sweep")
    /\ UNCHANGED <<rows, files, engine, upload, config, faults>>

\* Files first, by recorded path: the rows are the only record of them.
PurgeFiles ==
    /\ worker.pc = "sweep"
    /\ \/ /\ kb.status = "deleting"
          /\ files' = files \ {v \in Versions : versions[v].path}
          /\ Goto("rows")
       \/ /\ kb.status # "deleting"
          /\ UNCHANGED files
          /\ Goto("unlink")
    /\ UNCHANGED <<rows, engine, upload, config, faults>>

PurgeRows ==
    /\ worker.pc = "rows"
    /\ docs' = [d \in Documents |-> [status |-> "absent", current |-> 0]]
    /\ versions' = [v \in Versions |-> [doc |-> Gone, status |-> "absent", path |-> FALSE]]
    /\ fixes' = [count |-> 0, identity |-> FALSE]
    /\ jobs' = [j \in DOMAIN jobs |-> IF jobs[j].op = "delete_knowledge_base" THEN jobs[j]
                                      ELSE [jobs[j] EXCEPT !.status = "purged"]]
    /\ Goto("directory")
    /\ UNCHANGED <<kb, files, engine, upload, config, faults>>

\* engine.forget, then the directory of the base with all it holds.
RemoveDirectory ==
    /\ worker.pc = "directory"
    /\ files' = {}
    /\ Goto("mark")
    /\ UNCHANGED <<rows, engine, upload, config, faults>>

MarkPurged ==
    /\ worker.pc = "mark"
    /\ kb' = [kb EXCEPT !.status = "deleted"]
    /\ Goto("unlink")
    /\ UNCHANGED <<docs, versions, fixes, jobs, files, engine, upload, config, faults>>

\* A step of the purge fails, or a request still holds the SDK instance: the
\* base waits for the next sweep.
DeferPurge ==
    /\ worker.pc \in {"sweep", "rows", "directory", "mark"}
    /\ Fault("files")
    /\ Goto("unlink")
    /\ UNCHANGED <<rows, files, engine, upload, config>>

\* Originals of deleted documents; one that cannot be removed stays recorded.
Unlink ==
    /\ worker.pc = "unlink"
    /\ \/ worker' = [worker EXCEPT !.pc = "unlinked", !.removed = Unlinkable] /\ UNCHANGED faults
       \/ /\ \E removed \in SUBSET Unlinkable \ {Unlinkable} :
               worker' = [worker EXCEPT !.pc = "unlinked", !.removed = removed]
          /\ Fault("files")
    /\ files' = files \ worker'.removed
    /\ UNCHANGED <<rows, engine, upload, config>>

\* mark_materials_purged, for those that were.
MarkUnlinked ==
    /\ worker.pc = "unlinked"
    /\ versions' = [v \in Versions |-> IF v \in worker.removed
                                       THEN [versions[v] EXCEPT !.path = FALSE] ELSE versions[v]]
    /\ worker' = [worker EXCEPT !.pc = "idle", !.removed = {}]
    /\ UNCHANGED <<kb, docs, fixes, jobs, files, engine, upload, config, faults>>

(***************************************************************************)
(* The process                                                             *)
(***************************************************************************)

\* The process dies: requests and the worker with it, files and rows stay.
\* An upload it takes along after the base was purged leaves an orphan.
Crash ==
    /\ Serving /\ Fault("crash")
    /\ worker' = [pc |-> "down", job |-> 0, whole |-> FALSE, removed |-> {}]
    /\ upload' = [v \in Versions |->
                    IF InFlight(v) THEN [upload[v] EXCEPT !.pc = IF kb.status = "deleted"
                                                                 THEN "orphaned" ELSE "ended"]
                    ELSE upload[v]]
    /\ UNCHANGED <<rows, files, engine, config>>

\* lifespan: interrupted jobs first, then bases indexed under other settings.
Restart(c) ==
    /\ worker.pc = "down"
    /\ config' = c
    /\ jobs' = JobsInterrupted
    /\ kb' = IF KbInterrupted.status = "ready" /\ kb.config # c
             THEN [kb EXCEPT !.status = "dirty"] ELSE KbInterrupted
    /\ Goto("idle")
    /\ UNCHANGED <<docs, versions, fixes, files, engine, upload, faults>>

(***************************************************************************)
(* The specification                                                       *)
(***************************************************************************)

Init ==
    /\ config \in Configs
    /\ kb = [status |-> "ready", revision |-> 0, config |-> config]
    /\ docs = [d \in Documents |-> [status |-> "absent", current |-> 0]]
    /\ versions = [v \in Versions |-> [doc |-> Gone, status |-> "absent", path |-> FALSE]]
    /\ files = {} /\ jobs = <<>>
    /\ fixes = [count |-> 0, identity |-> FALSE]
    /\ engine = [index |-> {}, torn |-> {}, applied |-> {}]
    /\ upload = [v \in Versions |-> [pc |-> "idle", doc |-> Gone, at |-> 0, twin |-> 0]]
    /\ worker = [pc |-> "idle", job |-> 0, whole |-> FALSE, removed |-> {}]
    /\ faults = 0

Uploads(v) == Put(v) \/ BeginUpload(v) \/ RefuseUpload(v) \/ LoseUpload(v) \/ BeginReuse(v)

Requests == \/ \E v \in Versions, d \in Documents : StartUpload(v, d) \/ StartDuplicate(v, d)
            \/ \E d \in Documents : DeleteDocument(d)
            \/ \E j \in DOMAIN jobs : Retry(j)
            \/ Correct \/ Rename \/ Rebuild \/ DeleteBase

WorkerTurn == \/ Claim \/ StartWrite \/ StartRefused \/ FinishWrite \/ FailWrite
              \/ FinishJob \/ LoseFinish \/ FailJob \/ Recover

Sweep == \/ StartSweep \/ PurgeFiles \/ PurgeRows \/ RemoveDirectory \/ MarkPurged
         \/ DeferPurge \/ Unlink \/ MarkUnlinked

Next == \/ \E v \in Versions : Uploads(v)
        \/ Requests \/ WorkerTurn \/ Sweep \/ Crash
        \/ \E c \in Configs : Restart(c)

\* The worker's loop runs, its periodic sweep comes round, and a process that
\* died is started again.
Fairness == /\ WF_vars(WorkerTurn)
            /\ WF_vars(PurgeFiles \/ PurgeRows \/ RemoveDirectory \/ MarkPurged
                         \/ Unlink \/ MarkUnlinked)
            /\ SF_vars(StartSweep)
            /\ WF_vars(\E c \in Configs : Restart(c))
            /\ \A v \in Versions : WF_vars(Uploads(v))

Spec == Init /\ [][Next]_vars /\ Fairness

(***************************************************************************)
(* Properties                                                              *)
(***************************************************************************)

\* The rows, the queue and the worker hold what their columns and its loop allow.
TypeOK ==
    /\ kb \in [status : {"ready", "updating", "dirty"} \cup DeletedKb,
               revision : Nat, config : Configs]
    /\ docs \in [Documents -> [status : {"absent", "pending", "active", "deleted"},
                               current : {0} \cup Versions]]
    /\ versions \in [Versions -> [doc : Documents \cup {Gone}, path : BOOLEAN,
                                  status : {"absent", "pending", "active", "superseded",
                                            "deleted"}]]
    /\ files \subseteq Versions
    /\ fixes \in [count : 0..MaxFixes, identity : BOOLEAN]
    /\ jobs \in Seq(JobRows)
    /\ engine \in [index : SUBSET Versions, torn : SUBSET Versions, applied : SUBSET (1..MaxFixes)]
    /\ upload \in [Versions -> UploadRequests]
    /\ worker \in [pc : {"down", "idle", "claimed", "writing", "written", "failing", "recover",
                         "sweep", "rows", "directory", "mark", "unlink", "unlinked"},
                   job : 0..Len(jobs), whole : BOOLEAN, removed : SUBSET Versions]
    /\ config \in Configs
    /\ faults \in Nat

Queryable == /\ Serving /\ LockFree
             /\ kb.status = "ready" /\ kb.config = config

Current(v) == /\ versions[v].status = "active"
              /\ docs[versions[v].doc].status = "active"
              /\ docs[versions[v].doc].current = v

\* A base that answers questions has an index that is whole: exactly the
\* published versions, none of them half written, with every recorded
\* correction applied.  Crashes, failures between two steps of a job and
\* retries must not let a partial write be marked ready.
ReadyIsWhole ==
    Queryable => /\ engine.torn = {}
                 /\ engine.index = {v \in Versions : Current(v)}
                 /\ engine.applied = 1..fixes.count

\* The disk matches the rows, although files are written before them and
\* removed after them: the original of every version that a citation can
\* still open is there, and a purged base leaves no file behind but those of
\* uploads under way when it was purged, whose requests take them away unless
\* they die.
FilesMatchRows ==
    /\ \A v \in Versions :
        (versions[v].status # "absent" /\ docs[versions[v].doc].status # "deleted") => v \in files
    /\ kb.status = "deleted" => \A v \in files : upload[v].pc \in {"put", "orphaned"}

Working(j) == j \in DOMAIN jobs /\ jobs[j].status \in {"queued", "running"}

\* Every accepted job ends, whatever fails, and the base is not left 'updating'.
AcceptedJobsEnd ==
    /\ \A j \in 1..MaxJobs : Working(j) ~> ~Working(j)
    /\ kb.status = "updating" ~> kb.status # "updating"

\* A deletion that was committed is carried out on disk, whatever step of the
\* purge fails or dies: the base is purged, unless its job is told it failed
\* after all, and the originals of deleted documents are removed.
DeletionsFinish ==
    /\ kb.status = "deleting" ~> kb.status \in {"deleted", "dirty"}
    /\ \A v \in Versions :
         (versions[v].path /\ docs[versions[v].doc].status = "deleted") ~> v \notin files

\* The job queue keeps the promise of a source library.
Promise == INSTANCE SourceLibrary WITH
    library <- [d \in Documents |->
                  IF kb.status \in DeletedKb \/ docs[d].status = "deleted" THEN Gone
                  ELSE docs[d].current],
    answers <- IF Queryable THEN {v \in engine.index \ engine.torn : Current(v)}
               ELSE Unavailable

\* Published versions only move forward, deleted documents stay deleted, and
\* questions are answered from all published versions or refused, through every
\* interleaving of uploads, jobs, retries, purges and restarts.
PromiseSpec == Promise!Spec
=============================================================================
