-------------------------- MODULE KnowledgeJobsProofs --------------------------
(***************************************************************************)
(* What the knowledge graph service guarantees for any number of           *)
(* documents, uploads, jobs, corrections and index configurations, and any *)
(* number of faults, as long as acknowledgements arrive and clients retry  *)
(* only the last job: the rows of a base, its files, and, if the SDK       *)
(* refuses no removal either, its index and what it promises.              *)
(***************************************************************************)
EXTENDS KnowledgeJobs, WellFoundedInduction, TLAPS

\* Commits are acknowledged, and clients retry what the UI offers them.
Acknowledged == /\ Faults \cap {"lost begin", "lost finish"} = {}
                /\ ~ RetriesAnyJob

\* LightRAG removes the versions it is asked to remove.
RefusesNothing == "refusal" \notin Faults

-----------------------------------------------------------------------------
(***************************************************************************)
(* The invariant of the rows                                               *)
(***************************************************************************)
LastJob == jobs[Len(jobs)]

\* The last job is still to end.
Live == jobs # <<>> /\ LastJob.status \in {"queued", "running"}

\* It may still be carried out: it did not end, or it failed and may be retried.
Open == Live \/ (jobs # <<>> /\ kb.status = "dirty" /\ LastJob.status = "failed")

AtWork == {"claimed", "writing", "written", "failing", "recover"}

\* One job at a time: the last, for which the base is 'updating'; and the purge
\* of a base is never disturbed.
OneJobAtATime ==
    /\ \A j \in DOMAIN jobs : j # Len(jobs) => jobs[j].status \notin {"queued", "running"}
    /\ kb.status = "updating" <=> Live
    /\ kb.status = "ready" /\ jobs # <<>> => LastJob.status = "succeeded"
    /\ worker.pc \in AtWork => Live /\ worker.job = Len(jobs)
    /\ Live => (LastJob.status = "running" <=> worker.pc \in AtWork) \/ worker.pc = "down"
    /\ worker.pc \in {"rows", "directory", "mark"} => kb.status = "deleting"

Stored(v) == versions[v].status # "absent"

\* The rows of a document and of its versions refer to each other.
RowsRefer ==
    /\ \A v \in Versions : Stored(v) => /\ versions[v].doc \in Documents
                                        /\ docs[versions[v].doc].status # "absent"
                                        /\ upload[v].pc = "ended"
    /\ \A v \in Versions : versions[v].path => Stored(v)
    /\ \A d \in Documents :
         /\ docs[d].status = "absent" => docs[d].current = 0
         /\ docs[d].current # 0 => docs[d].current \in Of(d)
         /\ docs[d].status = "pending" => Of(d) # {}
         /\ docs[d].status = "active" => docs[d].current # 0
    /\ \A v \in Versions : versions[v].status = "pending" => docs[versions[v].doc].current < v

\* Every document is published or gone, but the one that version w is uploaded to.
SettledBut(w) ==
    /\ \A v \in Versions : versions[v].status = "pending" => v = w
    /\ \A d \in Documents : docs[d].status = "pending" => w # 0 /\ d = versions[w].doc
    /\ \A d \in Documents : docs[d].status = "active" =>
         docs[d].current # 0 /\ versions[docs[d].current].status = "active"

Brings == {"ingest_document", "replace_document"}

\* The rows are still those that the job was accepted for.
JobFits(job) ==
    /\ job.op # "rebuild" => SettledBut(IF job.op \in Brings THEN job.version ELSE 0)
    /\ job.op \in Brings => /\ job.version \in Of(job.doc) /\ job.doc \in Documents
                            /\ versions[job.version].status = "pending"
                            /\ docs[job.doc].status \in {"pending", "active"}
                            /\ job.previous = docs[job.doc].current
    /\ job.op = "ingest_document" => docs[job.doc].current = 0
    /\ job.op = "reuse_document" => /\ job.doc \in Documents
                                    /\ docs[job.doc].status = "active"
                                    /\ job.version = docs[job.doc].current
    /\ job.op = "delete_document" => /\ job.doc \in Documents
                                     /\ docs[job.doc].status = "active"
                                     /\ job.version = docs[job.doc].current
    /\ job.op = "correction" => job.fix \in 1..fixes.count

JobsFit == /\ kb.status = "ready" => SettledBut(0)
           /\ Open => JobFits(LastJob)

\* Uploads are numbered as they start; one that may still be accepted is the
\* latest, has its original on disk, or repeats the published version.
UploadsFit ==
    /\ \A v, w \in Versions : v < w /\ upload[v].pc = "idle" => upload[w].pc = "idle"
    /\ \A v \in Versions :
         /\ InFlight(v) => upload[v].doc \in Documents /\ upload[v].at <= kb.revision
         /\ upload[v].pc = "put" /\ kb.status \notin DeletedKb => v \in files
         /\ upload[v].pc \in {"checked", "put"} /\ upload[v].at = kb.revision
              /\ kb.status = "ready" => \A w \in Versions : Stored(w) => w < v
         /\ upload[v].pc = "same" /\ upload[v].at = kb.revision /\ kb.status \notin DeletedKb =>
              /\ docs[upload[v].doc].status = "active"
              /\ upload[v].twin = docs[upload[v].doc].current

\* The purge of a base: its documents are deleted before their files are, its
\* rows are empty before its directory is, and that before it is marked.
PurgeInOrder ==
    /\ kb.status \in DeletedKb => \A d \in Documents : docs[d].status \in {"absent", "deleted"}
    /\ worker.pc \in {"directory", "mark"} \/ kb.status = "deleted" =>
         \A v \in Versions : ~ Stored(v)
    /\ worker.pc = "mark" => \A v \in files : upload[v].pc = "put"

RowsInv == /\ TypeOK
           /\ OneJobAtATime
           /\ RowsRefer
           /\ JobsFit
           /\ UploadsFit
           /\ PurgeInOrder
           /\ FilesMatchRows

-----------------------------------------------------------------------------
(***************************************************************************)
(* The invariant of the index                                              *)
(***************************************************************************)
Published == {v \in Versions : Current(v)}

IndexIs(published) ==
    /\ engine.torn = {}
    /\ engine.index = published
    /\ engine.applied = 1..fixes.count

\* What a job that does not index everything again leaves of the index,
\* wherever it is cut off: all but its own versions, or its own correction.
PartOf(job) ==
    IF job.op \in Removing \cup {"ingest_document"}
    THEN /\ engine.torn \subseteq Touched(job)
         /\ engine.index \ Touched(job) = Published \ Touched(job)
    ELSE IF job.op = "correction"
    THEN /\ engine.torn = {} /\ engine.index = Published
         /\ engine.applied \cup {job.fix} = 1..fixes.count
    ELSE IndexIs(Published)

\* What the job will have published.
Outcome(job) ==
    IF Rebuilds(job) THEN Selected(job)
    ELSE IF job.op \in Brings THEN (Published \ {job.previous}) \cup {job.version}
    ELSE IF job.op = "delete_document" THEN Published \ {job.version}
    ELSE Published

IndexInv ==
    /\ kb.status = "ready" => IndexIs(Published)
    /\ Open /\ ~ Rebuilds(LastJob) => PartOf(LastJob)
    /\ worker.pc \in {"writing", "written"} => worker.whole = Rebuilds(Job0)
    /\ worker.pc = "written" /\ Job0.op # "delete_knowledge_base" => IndexIs(Outcome(Job0))
-----------------------------------------------------------------------------
(***************************************************************************)
(* Operators                                                               *)
(***************************************************************************)

\* A set of versions that is not empty has a greatest element.
LEMMA MaxOfVersions ==
    ASSUME NEW S \in SUBSET Versions, S # {}
    PROVE  Max(S) \in S /\ \A v \in S : v <= Max(S)
<1>1. MaxVersions \in Nat /\ S \subseteq Nat
  BY Bounds DEF Versions
<1> DEFINE T == {MaxVersions - v : v \in S}
<1>2. T \subseteq Nat /\ T # {}
  <2>1. \A v \in S : v \in Nat /\ v <= MaxVersions
    BY <1>1 DEF Versions
  <2>2. \A v \in S : MaxVersions - v \in Nat
    BY <1>1, <2>1
  <2>3. PICK v \in S : TRUE
    OBVIOUS
  <2> QED
    BY <2>2, <2>3
<1>3. \E t \in T : \A u \in T : ~ (<<u, t>> \in OpToRel(<, Nat))
  BY <1>2, NatLessThanWellFounded, WFMin
<1>4. PICK t \in T : \A u \in T : ~ (u < t)
  BY <1>2, <1>3 DEF OpToRel
<1>5. PICK v \in S : t = MaxVersions - v
  OBVIOUS
<1>6. \A w \in S : v >= w
  <2>1. ASSUME NEW w \in S PROVE v >= w
    <3>1. MaxVersions - w \in T
      OBVIOUS
    <3>2. ~ (MaxVersions - w < MaxVersions - v)
      BY <1>4, <1>5, <3>1
    <3>3. v \in Nat /\ w \in Nat
      BY <1>1
    <3> QED
      BY <1>1, <3>2, <3>3
  <2> QED
    BY <2>1
<1>7. \E x \in S : \A y \in S : x >= y
  BY <1>6
<1>8. Max(S) \in S /\ \A y \in S : Max(S) >= y
  BY <1>7 DEF Max
<1> QED
  BY <1>1, <1>8

\* What a change of its status leaves of a job.
LEMMA Marked ==
    ASSUME NEW row \in JobRows, NEW new,
           NEW status \in {"queued", "running", "succeeded", "failed", "purged"},
           new = [row EXCEPT !.status = status]
    PROVE  /\ new \in JobRows /\ new.status = status /\ new.op = row.op /\ new.doc = row.doc
           /\ new.version = row.version /\ new.previous = row.previous /\ new.fix = row.fix
<1>1. /\ row = [op |-> row.op, doc |-> row.doc, version |-> row.version,
                 previous |-> row.previous, fix |-> row.fix, of |-> row.of, at |-> row.at,
                 status |-> row.status]
      /\ row.op \in Operations /\ row.doc \in Documents \cup {Gone}
      /\ row.version \in {0} \cup Versions /\ row.previous \in {0} \cup Versions
      /\ row.fix \in 0..MaxFixes /\ row.of \in Nat /\ row.at \in Nat
  BY DEF JobRows
<1>2. new = [op |-> row.op, doc |-> row.doc, version |-> row.version,
             previous |-> row.previous, fix |-> row.fix, of |-> row.of, at |-> row.at,
             status |-> status]
  BY <1>1
<1>3. /\ new.status = status /\ new.op = row.op /\ new.doc = row.doc
      /\ new.version = row.version /\ new.previous = row.previous /\ new.fix = row.fix
  BY <1>2
<1>4. new \in JobRows
  BY <1>1, <1>2 DEF JobRows
<1> QED
  BY <1>3, <1>4

\* The last of a queue that has another job appended, or one changed.
LEMMA Queues ==
    ASSUME TypeOK
    PROVE  /\ Len(jobs) \in Nat /\ DOMAIN jobs = 1..Len(jobs)
           /\ jobs # <<>> => LastJob \in JobRows /\ Len(jobs) \in DOMAIN jobs
           /\ jobs = <<>> <=> Len(jobs) = 0
           /\ \A j \in DOMAIN jobs : jobs[j] \in JobRows
BY DEF TypeOK, LastJob

\* A job is appended.
LEMMA Appends ==
    ASSUME TypeOK, NEW job \in JobRows, jobs' = Append(jobs, job)
    PROVE  /\ Len(jobs') = Len(jobs) + 1 /\ jobs' # <<>> /\ LastJob' = job
           /\ jobs' \in Seq(JobRows)
           /\ DOMAIN jobs' = 1..(Len(jobs) + 1)
           /\ \A j \in DOMAIN jobs : jobs'[j] = jobs[j]
BY DEF TypeOK, LastJob

\* The job that the worker is at is the last one.
LEMMA JobAtHand ==
    ASSUME TypeOK, OneJobAtATime, worker.pc \in AtWork
    PROVE  /\ Job0 = LastJob /\ worker.job = Len(jobs) /\ jobs # <<>> /\ Job0 \in JobRows
           /\ worker.job \in DOMAIN jobs
           /\ Live /\ Open /\ kb.status = "updating"
BY Queues DEF OneJobAtATime, Job0, LastJob, Live, Open

\* What the worker makes of the status of its job.
LEMMA SetsJob ==
    ASSUME TypeOK, OneJobAtATime, worker.pc \in AtWork,
           NEW status \in {"succeeded", "failed"}, SetJob(status)
    PROVE  /\ jobs' \in Seq(JobRows) /\ Len(jobs') = Len(jobs) /\ jobs' # <<>>
           /\ LastJob' = [LastJob EXCEPT !.status = status]
           /\ \A j \in DOMAIN jobs : j # Len(jobs) => jobs'[j] = jobs[j]
           /\ ~ Live'
<1>1. /\ worker.job = Len(jobs) /\ Len(jobs) \in DOMAIN jobs /\ jobs \in Seq(JobRows)
      /\ jobs' = [jobs EXCEPT ![Len(jobs)].status = status] /\ jobs # <<>>
  BY JobAtHand, Queues DEF SetJob, TypeOK
<1>2. [jobs[Len(jobs)] EXCEPT !.status = status] \in JobRows
  BY <1>1, Queues, Marked
<1>3. /\ jobs' \in Seq(JobRows) /\ Len(jobs') = Len(jobs)
      /\ jobs'[Len(jobs)] = [jobs[Len(jobs)] EXCEPT !.status = status]
      /\ \A j \in DOMAIN jobs : j # Len(jobs) => jobs'[j] = jobs[j]
  BY <1>1, <1>2
<1>4. jobs'[Len(jobs)].status = status
  BY <1>1, <1>2, <1>3 DEF JobRows
<1> QED
  BY <1>1, <1>3, <1>4 DEF LastJob, Live

\* The jobs of a process that died are failed.
LEMMA Interrupts ==
    ASSUME TypeOK, OneJobAtATime, jobs' = JobsInterrupted
    PROVE  /\ jobs' \in Seq(JobRows) /\ Len(jobs') = Len(jobs)
           /\ \A j \in DOMAIN jobs : j # Len(jobs) => jobs'[j] = jobs[j]
           /\ (jobs # <<>> /\ LastJob.status = "running") =>
                  /\ LastJob' = [LastJob EXCEPT !.status = "failed"]
                  /\ Interrupted # {} /\ ~ Live'
           /\ ~ (jobs # <<>> /\ LastJob.status = "running") =>
                  jobs' = jobs /\ Interrupted = {}
<1>1. \A j \in DOMAIN jobs : [jobs[j] EXCEPT !.status = "failed"] \in JobRows
  <2>1. ASSUME NEW j \in DOMAIN jobs PROVE [jobs[j] EXCEPT !.status = "failed"] \in JobRows
    <3>1. jobs[j] \in JobRows
      BY Queues
    <3> QED
      BY <3>1, Marked
  <2> QED
    BY <2>1
<1>2. /\ Len(jobs) \in Nat /\ DOMAIN jobs = 1..Len(jobs) /\ jobs \in Seq(JobRows)
      /\ jobs # <<>> => Len(jobs) \in DOMAIN jobs
      /\ jobs = <<>> <=> Len(jobs) = 0
  BY Queues DEF TypeOK
<1>3. \A j \in Interrupted : j = Len(jobs) /\ j \in DOMAIN jobs /\ jobs[j].status = "running"
  BY DEF Interrupted, OneJobAtATime
<1>4. /\ jobs' \in Seq(JobRows) /\ Len(jobs') = Len(jobs)
      /\ \A j \in DOMAIN jobs :
           jobs'[j] = IF j \in Interrupted THEN [jobs[j] EXCEPT !.status = "failed"] ELSE jobs[j]
  BY <1>1, <1>2 DEF JobsInterrupted
<1>5. ASSUME jobs # <<>>, LastJob.status = "running"
      PROVE  LastJob' = [LastJob EXCEPT !.status = "failed"] /\ Interrupted # {} /\ ~ Live'
  <2>1. Len(jobs) \in Interrupted
    BY <1>2, <1>5 DEF Interrupted, LastJob
  <2>2. LastJob' = [LastJob EXCEPT !.status = "failed"]
    BY <1>2, <1>4, <1>5, <2>1 DEF LastJob
  <2>3. LastJob.status # "failed" /\ LastJob \in JobRows
    BY <1>5, Queues
  <2> QED
    BY <2>1, <2>2, <2>3 DEF Live, JobRows
<1>6. ASSUME ~ (jobs # <<>> /\ LastJob.status = "running")
      PROVE  jobs' = jobs /\ Interrupted = {}
  <2>1. Interrupted = {}
    BY <1>2, <1>3, <1>6 DEF LastJob
  <2> QED
    BY <1>2, <1>4, <2>1
<1> QED
  BY <1>3, <1>4, <1>5, <1>6

-----------------------------------------------------------------------------
(***************************************************************************)
(* Types                                                                   *)
(***************************************************************************)
LEMMA JobTyped ==
    ASSUME TypeOK, NEW op \in Operations, NEW d \in Documents \cup {Gone},
           NEW v \in {0} \cup Versions, NEW w \in {0} \cup Versions, NEW fix \in 0..MaxFixes
    PROVE  LET job == Job(op, d, v, w, fix, 0)
           IN  /\ job \in JobRows /\ job.status = "queued" /\ job.op = op /\ job.doc = d
               /\ job.version = v /\ job.previous = w /\ job.fix = fix
<1> DEFINE job == Job(op, d, v, w, fix, 0)
<1>1. kb.revision \in Nat
  BY DEF TypeOK
<1>2. job = [op |-> op, doc |-> d, version |-> v, previous |-> w, fix |-> fix,
             of |-> 0, at |-> kb.revision, status |-> "queued"]
  BY DEF Job
<1> HIDE DEF job
<1>3. /\ job.status = "queued" /\ job.op = op /\ job.doc = d
      /\ job.version = v /\ job.previous = w /\ job.fix = fix
  BY <1>2
<1>4. job \in JobRows
  BY <1>1, <1>2 DEF JobRows
<1> QED
  BY <1>3, <1>4 DEF job

\* A retry carries the failed job's operation and payload.
RetryOf(row, j, t) == [row EXCEPT !.status = "queued", !.of = j, !.at = t]

\* A retry queues a job for the same operation, document and versions.
LEMMA RetryTyped ==
    ASSUME NEW row \in JobRows, NEW job, NEW j \in Nat, NEW t \in Nat,
           job = RetryOf(row, j, t)
    PROVE  /\ job \in JobRows /\ job.status = "queued" /\ job.op = row.op
           /\ job.doc = row.doc /\ job.version = row.version
           /\ job.previous = row.previous /\ job.fix = row.fix
<1>1. /\ row = [op |-> row.op, doc |-> row.doc, version |-> row.version,
                 previous |-> row.previous, fix |-> row.fix, of |-> row.of, at |-> row.at,
                 status |-> row.status]
      /\ row.op \in Operations /\ row.doc \in Documents \cup {Gone}
      /\ row.version \in {0} \cup Versions /\ row.previous \in {0} \cup Versions
      /\ row.fix \in 0..MaxFixes
  BY DEF JobRows
<1>2. job = [op |-> row.op, doc |-> row.doc, version |-> row.version,
             previous |-> row.previous, fix |-> row.fix, of |-> j, at |-> t,
             status |-> "queued"]
  BY <1>1 DEF RetryOf
<1>3. /\ job.status = "queued" /\ job.op = row.op
      /\ job.doc = row.doc /\ job.version = row.version
      /\ job.previous = row.previous /\ job.fix = row.fix
  BY <1>2
<1>4. job \in JobRows
  BY <1>1, <1>2 DEF JobRows
<1> QED
  BY <1>3, <1>4


\* What accepting a job does to the queue and to the base.
Admits(job) == /\ job \in JobRows /\ job.status = "queued"
               /\ BeginJob(job) /\ kb.status \in {"ready", "dirty"}
               /\ LockFree
               /\ UNCHANGED <<engine, worker, config>>

\* A request that asks for a job and writes no other row.
LEMMA RequestAdmits ==
    ASSUME TypeOK, NEW op \in Operations, NEW d \in Documents \cup {Gone},
           NEW v \in {0} \cup Versions, NEW fix \in 0..MaxFixes, Request(op, d, v, fix)
    PROVE  /\ kb.status = "ready"
           /\ \E job \in JobRows : /\ Admits(job) /\ job.op = op /\ job.doc = d
                                   /\ job.version = v /\ job.fix = fix
<1> DEFINE job == Job(op, d, v, 0, fix, 0)
<1>1. /\ job \in JobRows /\ job.status = "queued" /\ job.op = op /\ job.doc = d
      /\ job.version = v /\ job.fix = fix
  BY JobTyped
<1> HIDE DEF job
<1>2. kb.status = "ready" /\ BeginJob(job) /\ LockFree /\ UNCHANGED <<engine, worker, config>>
  BY DEF Request, Accepts, job
<1> QED
  BY <1>1, <1>2 DEF Admits

\* The rows and the queue stay typed when a job is accepted.
LEMMA AdmissionTyped ==
    ASSUME TypeOK, NEW job, Admits(job)
    PROVE  /\ jobs' \in Seq(JobRows)
           /\ kb' = [kb EXCEPT !.status = "updating"]
           /\ kb' \in [status : {"ready", "updating", "dirty"} \cup DeletedKb,
                       revision : Nat, config : Configs]
           /\ kb'.status = "updating" /\ kb'.revision = kb.revision /\ kb'.config = kb.config
           /\ worker' = worker /\ engine' = engine /\ config' = config
           /\ worker.job \in 0..Len(jobs')
<1>1. /\ job \in JobRows /\ jobs' = Append(jobs, job) /\ kb' = [kb EXCEPT !.status = "updating"]
      /\ worker' = worker /\ engine' = engine /\ config' = config
  BY DEF Admits, BeginJob
<1>2. jobs' \in Seq(JobRows) /\ Len(jobs') = Len(jobs) + 1 /\ Len(jobs) \in Nat
  BY <1>1, Appends, Queues
<1>3. worker.job \in 0..Len(jobs')
  BY <1>2 DEF TypeOK
<1>4. /\ kb' \in [status : {"ready", "updating", "dirty"} \cup DeletedKb,
                  revision : Nat, config : Configs]
      /\ kb'.status = "updating" /\ kb'.revision = kb.revision /\ kb'.config = kb.config
  BY <1>1 DEF TypeOK
<1> QED
  BY <1>1, <1>2, <1>3, <1>4

\* What an accepted upload writes.
LEMMA UploadAdmits ==
    ASSUME TypeOK, NEW v \in Versions, upload[v].pc = "put", upload[v].doc \in Documents,
           BeginUpload(v), NEW d, d = upload[v].doc, NEW job, job = jobs'[Len(jobs')]
    PROVE  /\ Admits(job) /\ kb.status = "ready" /\ upload[v].at = kb.revision
           /\ job.doc = d /\ job.version = v /\ job.previous = docs[d].current
           /\ job.op = (IF docs[d].status = "absent" THEN "ingest_document" ELSE "replace_document")
           /\ docs[d].status \in {"absent", "pending", "active"}
           /\ docs' = IF docs[d].status = "absent"
                      THEN [docs EXCEPT ![d] = [status |-> "pending", current |-> 0]] ELSE docs
           /\ versions' = [versions EXCEPT ![v] = [doc |-> d, status |-> "pending", path |-> TRUE]]
           /\ upload' = [upload EXCEPT ![v].pc = "ended"]
           /\ UNCHANGED <<fixes, files, faults>>
<1> DEFINE op == IF IsNew(v) THEN "ingest_document" ELSE "replace_document"
           new == Job(op, d, v, docs[d].current, 0, 0)
<1>1. /\ op \in Operations
      /\ docs[d].current \in {0} \cup Versions /\ 0 \in 0..MaxFixes
      /\ d \in Documents \cup {Gone} /\ v \in {0} \cup Versions
  BY Bounds DEF Operations, TypeOK
<1>3. op = IF docs[d].status = "absent" THEN "ingest_document" ELSE "replace_document"
  BY DEF IsNew
<1>4. UploadRows(v) /\ BeginJob(new) /\ new = Job(op, d, v, docs[d].current, 0, 0)
  BY DEF BeginUpload, UploadRows
<1> HIDE DEF op, new
<1>2. /\ new \in JobRows /\ new.status = "queued" /\ new.op = op /\ new.doc = d
      /\ new.version = v /\ new.previous = docs[d].current
  <2> DEFINE w == docs[d].current
  <2>1. w \in {0} \cup Versions /\ new = Job(op, d, v, w, 0, 0)
    BY <1>1, <1>4
  <2> HIDE DEF w
  <2>2. LET job1 == Job(op, d, v, w, 0, 0)
        IN  /\ job1 \in JobRows /\ job1.status = "queued" /\ job1.op = op /\ job1.doc = d
            /\ job1.version = v /\ job1.previous = w
    BY <1>1, <2>1, JobTyped
  <2> QED
    BY <2>1, <2>2 DEF w
<1>5. jobs' = Append(jobs, new)
  BY <1>4 DEF BeginJob
<1>6. jobs'[Len(jobs')] = new
  BY <1>2, <1>5, Appends DEF LastJob
<1>7. /\ kb.status = "ready" /\ upload[v].at = kb.revision /\ LockFree
      /\ IsNew(v) \/ Replaceable(d)
      /\ UNCHANGED <<engine, worker, config, files, faults>>
      /\ upload' = [upload EXCEPT ![v].pc = "ended"]
  BY DEF BeginUpload, UploadAccepted, Accepts, Ended
<1>8. /\ docs' = IF docs[d].status = "absent"
                 THEN [docs EXCEPT ![d] = [status |-> "pending", current |-> 0]] ELSE docs
      /\ versions' = [versions EXCEPT ![v] = [doc |-> d, status |-> "pending", path |-> TRUE]]
      /\ UNCHANGED fixes
  BY <1>4 DEF UploadRows, IsNew
<1> QED
  BY <1>2, <1>3, <1>4, <1>6, <1>7, <1>8 DEF Admits, IsNew, Replaceable

\* A request that was accepted for nothing but a job.
Asks(job) == /\ Admits(job)
             /\ UNCHANGED <<docs, versions, files, faults>>

\* The five kinds of request but the uploads.
LEMMA RequestsAsk ==
    ASSUME RowsInv, Acknowledged,
           \/ \E d \in Documents : DeleteDocument(d)
           \/ Correct \/ DeleteBase \/ Rebuild
           \/ \E j \in DOMAIN jobs : Retry(j)
    PROVE  \E job \in JobRows :
             /\ Asks(job) /\ upload' = upload
             /\ \/ /\ kb.status = "ready" /\ job.op = "delete_document" /\ fixes' = fixes
                   /\ job.doc \in Documents /\ docs[job.doc].status \in {"pending", "active"}
                   /\ job.version = docs[job.doc].current
                \/ /\ kb.status = "ready" /\ job.op = "correction"
                   /\ job.fix = fixes.count + 1 /\ fixes.count < MaxFixes
                   /\ \E identity \in BOOLEAN :
                        fixes' = [count |-> fixes.count + 1,
                                  identity |-> fixes.identity \/ identity]
                \/ kb.status = "ready" /\ job.op = "delete_knowledge_base" /\ fixes' = fixes
                \/ job.op = "rebuild" /\ fixes' = fixes
                \/ /\ Open /\ kb.status = "dirty" /\ fixes' = fixes
                   /\ job.op = LastJob.op /\ job.doc = LastJob.doc /\ job.fix = LastJob.fix
                   /\ job.version = LastJob.version /\ job.previous = LastJob.previous
<1> TypeOK /\ OneJobAtATime /\ 0 \in {0} \cup Versions /\ 0 \in 0..MaxFixes
    /\ Gone \in Documents \cup {Gone}
  BY Bounds DEF RowsInv
<1>1. ASSUME NEW d \in Documents, DeleteDocument(d)
      PROVE  \E job \in JobRows :
               /\ Asks(job) /\ upload' = upload
               /\ kb.status = "ready" /\ job.op = "delete_document" /\ fixes' = fixes
               /\ job.doc \in Documents /\ docs[job.doc].status \in {"pending", "active"}
               /\ job.version = docs[job.doc].current
  <2> DEFINE w == docs[d].current
  <2>1. /\ Request("delete_document", d, w, 0) /\ fixes' = fixes
        /\ docs[d].status \in {"pending", "active"} /\ w \in {0} \cup Versions
        /\ "delete_document" \in Operations /\ d \in Documents \cup {Gone}
    BY <1>1 DEF DeleteDocument, TypeOK, Operations
  <2>2. UNCHANGED <<docs, versions, files, faults, upload>>
    BY <2>1 DEF Request
  <2> HIDE DEF w
  <2>3. 0 \in 0..MaxFixes
    BY Bounds
  <2>4. PICK op \in Operations : op = "delete_document"
    BY <2>1
  <2>5. /\ kb.status = "ready"
        /\ \E job \in JobRows : /\ Admits(job) /\ job.op = op /\ job.doc = d
                                /\ job.version = w /\ job.fix = 0
    <3>1. Request(op, d, w, 0)
      BY <2>1, <2>4
    <3> QED
      BY <2>1, <2>3, <3>1, RequestAdmits
  <2> QED
    BY <2>1, <2>2, <2>4, <2>5 DEF Asks, w
<1>2. ASSUME Correct
      PROVE  \E job \in JobRows :
               /\ Asks(job) /\ upload' = upload
               /\ kb.status = "ready" /\ job.op = "correction"
               /\ job.fix = fixes.count + 1 /\ fixes.count < MaxFixes
               /\ \E identity \in BOOLEAN :
                    fixes' = [count |-> fixes.count + 1, identity |-> fixes.identity \/ identity]
  <2> DEFINE f == fixes.count + 1
  <2>1. /\ Request("correction", Gone, 0, f) /\ fixes.count < MaxFixes
        /\ f \in 0..MaxFixes /\ "correction" \in Operations
        /\ \E identity \in BOOLEAN :
             fixes' = [count |-> fixes.count + 1, identity |-> fixes.identity \/ identity]
    BY <1>2, Bounds DEF Correct, TypeOK, Operations
  <2>2. UNCHANGED <<docs, versions, files, faults, upload>>
    BY <2>1 DEF Request
  <2> HIDE DEF f
  <2>3. /\ kb.status = "ready"
        /\ \E job \in JobRows : /\ Admits(job) /\ job.op = "correction" /\ job.doc = Gone
                                /\ job.version = 0 /\ job.fix = f
    BY <2>1, RequestAdmits
  <2> QED
    BY <2>1, <2>2, <2>3 DEF Asks, f
<1>3. ASSUME DeleteBase
      PROVE  \E job \in JobRows :
               /\ Asks(job) /\ upload' = upload
               /\ kb.status = "ready" /\ job.op = "delete_knowledge_base" /\ fixes' = fixes
  <2>1. /\ Request("delete_knowledge_base", Gone, 0, 0) /\ fixes' = fixes
        /\ "delete_knowledge_base" \in Operations
    BY <1>3 DEF DeleteBase, Operations
  <2>2. UNCHANGED <<docs, versions, files, faults, upload>>
    BY <2>1 DEF Request
  <2>3. /\ kb.status = "ready"
        /\ \E job \in JobRows : /\ Admits(job) /\ job.op = "delete_knowledge_base"
                                /\ job.doc = Gone /\ job.version = 0 /\ job.fix = 0
    BY <2>1, RequestAdmits
  <2> QED
    BY <2>1, <2>2, <2>3 DEF Asks
<1>4. ASSUME Rebuild
      PROVE  \E job \in JobRows :
               Asks(job) /\ upload' = upload /\ job.op = "rebuild" /\ fixes' = fixes
  <2> DEFINE job == Job("rebuild", Gone, 0, 0, 0, 0)
  <2>1. "rebuild" \in Operations
    BY DEF Operations
  <2>2. job \in JobRows /\ job.status = "queued" /\ job.op = "rebuild"
    BY <2>1, JobTyped
  <2>3. /\ BeginJob(job) /\ kb.status \in {"ready", "dirty"} /\ LockFree
        /\ UNCHANGED <<docs, versions, fixes, files, engine, upload, worker, config, faults>>
    BY <1>4 DEF Rebuild, Accepts
  <2> HIDE DEF job
  <2> QED
    BY <2>2, <2>3 DEF Asks, Admits
<1>5. ASSUME NEW j \in DOMAIN jobs, Retry(j)
      PROVE  \E job \in JobRows :
               /\ Asks(job) /\ upload' = upload
               /\ Open /\ kb.status = "dirty" /\ fixes' = fixes
               /\ job.op = LastJob.op /\ job.doc = LastJob.doc /\ job.fix = LastJob.fix
               /\ job.version = LastJob.version /\ job.previous = LastJob.previous
  <2> DEFINE row == jobs[j]
             job == [row EXCEPT !.status = "queued", !.of = j, !.at = kb.revision]
  <2>1. /\ BeginJob(job) /\ kb.status \in {"ready", "dirty"} /\ LockFree
        /\ UNCHANGED <<docs, versions, fixes, files, engine, upload, worker, config, faults>>
        /\ j = Len(jobs) /\ jobs[j].status = "failed"
    BY <1>5 DEF Retry, Accepts, Acknowledged
  <2>2. row \in JobRows /\ j \in Nat /\ kb.revision \in Nat /\ row = LastJob /\ jobs # <<>>
    BY <2>1, Queues DEF TypeOK, LastJob
  <2> HIDE DEF row
  <2>3. /\ job \in JobRows /\ job.status = "queued" /\ job.op = row.op
        /\ job.doc = row.doc /\ job.version = row.version
        /\ job.previous = row.previous /\ job.fix = row.fix
    <3>1. job = RetryOf(row, j, kb.revision)
      BY Zenon DEF RetryOf
    <3> HIDE DEF job
    <3> QED
      BY <2>2, <3>1, RetryTyped
  <2> HIDE DEF job
  <2>4. kb.status = "dirty" /\ Open
    BY <2>1, <2>2 DEF OneJobAtATime, Open, row
  <2> QED
    BY <2>1, <2>2, <2>3, <2>4 DEF Asks, Admits
<1> QED
  BY <1>1, <1>2, <1>3, <1>4, <1>5

\* A request for the bytes that are published already.
LEMMA ReuseAsks ==
    ASSUME RowsInv, NEW v \in Versions, BeginReuse(v)
    PROVE  /\ upload[v].pc = "same" /\ upload' = [upload EXCEPT ![v].pc = "ended"]
           /\ fixes' = fixes
           /\ \/ /\ kb.status = "ready" /\ upload[v].at = kb.revision
                 /\ \E job \in JobRows : /\ Asks(job) /\ job.op = "reuse_document"
                                         /\ job.doc = upload[v].doc /\ job.version = upload[v].twin
              \/ UNCHANGED <<kb, docs, versions, jobs, files, engine, worker, config, faults>>
<1> TypeOK /\ 0 \in {0} \cup Versions /\ 0 \in 0..MaxFixes
  BY Bounds DEF RowsInv
<1>1. /\ upload[v].pc = "same" /\ LockFree /\ upload' = [upload EXCEPT ![v].pc = "ended"]
      /\ UNCHANGED <<docs, versions, fixes, files, engine, worker, config, faults>>
  BY DEF BeginReuse, Ended
<1> DEFINE d == upload[v].doc
           w == upload[v].twin
<1>2. d \in Documents \cup {Gone} /\ w \in {0} \cup Versions /\ "reuse_document" \in Operations
  BY DEF TypeOK, UploadRequests, Operations
<1> DEFINE job == Job("reuse_document", d, w, 0, 0, 0)
<1>3. \/ /\ kb.status = "ready" /\ upload[v].at = kb.revision /\ BeginJob(job)
      \/ UNCHANGED <<jobs, kb>>
  BY DEF BeginReuse, Accepts
<1> HIDE DEF d, w
<1>4. /\ job \in JobRows /\ job.status = "queued" /\ job.op = "reuse_document"
      /\ job.doc = d /\ job.version = w
  BY <1>2, JobTyped
<1> HIDE DEF job
<1>5. CASE kb.status = "ready" /\ upload[v].at = kb.revision /\ BeginJob(job)
  BY <1>1, <1>4, <1>5 DEF Asks, Admits, d, w
<1>6. CASE UNCHANGED <<jobs, kb>>
  BY <1>1, <1>6
<1> QED
  BY <1>3, <1>5, <1>6

\* What a request does to its own row, before its transaction or without one.
UploadMoves(v) ==
    /\ UNCHANGED <<kb, docs, versions, fixes, jobs, engine, worker, config>>
    /\ \/ \E d \in Documents :
            /\ upload[v].pc = "idle" /\ \A w \in Versions : w < v => upload[w].pc # "idle"
            /\ files' = files
            /\ \E pc \in {"checked", "same"}, twin \in {0} \cup Versions :
                 /\ upload' = [upload EXCEPT ![v] = [pc |-> pc, doc |-> d, at |-> kb.revision,
                                                     twin |-> twin]]
                 /\ pc = "same" => docs[d].status = "active" /\ twin = docs[d].current
       \/ /\ upload[v].pc = "checked" /\ files' = files \cup {v}
          /\ upload' = [upload EXCEPT ![v].pc = "put"]
       \/ /\ upload[v].pc = "put" /\ files' = files \ {v}
          /\ upload' = [upload EXCEPT ![v].pc = "ended"]
       \/ /\ upload[v].pc = "same" /\ files' = files
          /\ upload' = [upload EXCEPT ![v].pc = "ended"]

\* The steps of an upload's request that leave the rows.
LEMMA UploadsMove ==
    ASSUME RowsInv, NEW v \in Versions,
           \/ \E d \in Documents : StartUpload(v, d) \/ StartDuplicate(v, d)
           \/ Put(v) \/ RefuseUpload(v)
           \/ BeginReuse(v) /\ UNCHANGED <<kb, docs, versions, jobs, files, engine, worker, config, faults>>
    PROVE  UploadMoves(v) /\ (faults' = faults \/ faults' = faults + 1)
<1>1. ASSUME NEW d \in Documents, StartUpload(v, d)
      PROVE  UploadMoves(v) /\ faults' = faults
  <2>1. 0 \in {0} \cup Versions
    OBVIOUS
  <2> QED
    BY <1>1, <2>1 DEF StartUpload, UploadMoves, NextVersion, rows
<1>2. ASSUME NEW d \in Documents, StartDuplicate(v, d)
      PROVE  UploadMoves(v) /\ faults' = faults
  <2>1. docs[d].current \in {0} \cup Versions
    BY DEF RowsInv, TypeOK
  <2> QED
    BY <1>2, <2>1 DEF StartDuplicate, UploadMoves, NextVersion, rows
<1>3. CASE Put(v)
  BY <1>3 DEF Put, UploadMoves, rows
<1>4. CASE RefuseUpload(v)
  BY <1>4 DEF RefuseUpload, UploadMoves, Ended, Fault, rows
<1>5. CASE BeginReuse(v) /\ UNCHANGED <<kb, docs, versions, jobs, files, engine, worker, config, faults>>
  BY <1>5, ReuseAsks DEF UploadMoves
<1> QED
  BY <1>1, <1>2, <1>3, <1>4, <1>5

\* A step of the worker within a job, which changes no row of the base.
Toils == /\ UNCHANGED <<docs, versions, fixes, jobs, files, upload>>
         /\ kb'.status = kb.status /\ kb'.revision = kb.revision
         /\ worker.pc \in AtWork /\ worker'.pc \in AtWork /\ worker'.job = worker.job

\* The steps within a job leave the rows of the base.
LEMMA WorkersToil ==
    ASSUME TypeOK, Acknowledged,
           \/ StartWrite \/ StartRefused \/ FinishWrite \/ FailWrite
           \/ LoseFinish
           \/ FailJob /\ worker'.pc = "recover"
    PROVE  Toils
<1>1. CASE StartWrite \/ StartRefused
  BY <1>1 DEF StartWrite, StartRefused, Writing, Toils, AtWork, TypeOK, rows
<1>2. CASE FinishWrite
  BY <1>2 DEF FinishWrite, Goto, Toils, AtWork, TypeOK
<1>3. CASE FailWrite
  BY <1>3 DEF FailWrite, Goto, Toils, AtWork, TypeOK, rows
<1>4. CASE LoseFinish
  BY <1>4 DEF LoseFinish, Goto, Toils, AtWork, TypeOK, rows, Fault, Acknowledged
<1>5. CASE FailJob /\ worker'.pc = "recover"
  BY <1>5 DEF FailJob, Goto, Toils, AtWork, TypeOK
<1> QED
  BY <1>1, <1>2, <1>3, <1>4, <1>5

\* A job fails, now or because its process died; or the process starts again
\* with nothing interrupted, perhaps with another configuration.
Ends == /\ UNCHANGED <<docs, versions, fixes, files, upload, engine>>
        /\ worker' = [worker EXCEPT !.pc = "idle"] /\ kb'.revision = kb.revision
        /\ jobs' \in Seq(JobRows) /\ Len(jobs') = Len(jobs)
        /\ \A j \in DOMAIN jobs : j # Len(jobs) => jobs'[j] = jobs[j]
        /\ \/ /\ jobs # <<>> /\ LastJob.status = "running" /\ kb'.status = "dirty"
              /\ LastJob' = [LastJob EXCEPT !.status = "failed"] /\ ~ Live'
              /\ worker.pc \in AtWork \cup {"down"}
           \/ /\ jobs' = jobs /\ worker.pc = "down" /\ ~ (jobs # <<>> /\ LastJob.status = "running")
              /\ kb'.status = kb.status \/ (kb.status = "ready" /\ kb'.status = "dirty")

\* The ways a job ends without being published.
LEMMA JobsEnd ==
    ASSUME TypeOK, OneJobAtATime,
           \/ FailJob /\ worker'.pc # "recover"
           \/ Recover
           \/ \E c \in Configs : Restart(c)
    PROVE  Ends
<1>1. CASE FailJob /\ worker'.pc # "recover"
  <2>1. /\ SetJob("failed") /\ worker' = [worker EXCEPT !.pc = "idle"] /\ worker.pc \in AtWork
        /\ kb' = [kb EXCEPT !.status = "dirty"]
        /\ UNCHANGED <<docs, versions, fixes, files, upload, engine>>
    BY <1>1 DEF FailJob, Goto, TypeOK, AtWork
  <2>2. kb'.status = "dirty" /\ kb'.revision = kb.revision
    BY <2>1 DEF TypeOK
  <2>3. jobs # <<>> /\ LastJob.status = "running"
    BY <2>1 DEF OneJobAtATime, Live, AtWork
  <2> QED
    BY <2>1, <2>2, <2>3, SetsJob DEF Ends
<1>2. CASE Recover
  <2>1. /\ jobs' = JobsInterrupted /\ worker' = [worker EXCEPT !.pc = "idle"]
        /\ worker.pc \in AtWork /\ kb' = KbInterrupted
        /\ UNCHANGED <<docs, versions, fixes, files, upload, engine>>
    BY <1>2 DEF Recover, Goto, AtWork
  <2>2. jobs # <<>> /\ LastJob.status = "running"
    BY <2>1 DEF OneJobAtATime, Live, AtWork
  <2>3. Interrupted # {}
    BY <2>1, <2>2, Interrupts
  <2>4. kb'.status = "dirty" /\ kb'.revision = kb.revision
    BY <2>1, <2>3 DEF KbInterrupted, TypeOK
  <2> QED
    BY <2>1, <2>2, <2>4, Interrupts DEF Ends
<1>3. ASSUME NEW c \in Configs, Restart(c)
      PROVE  Ends
  <2>1. /\ jobs' = JobsInterrupted /\ worker' = [worker EXCEPT !.pc = "idle"]
        /\ worker.pc = "down"
        /\ UNCHANGED <<docs, versions, fixes, files, upload, engine>>
    BY <1>3 DEF Restart, Goto
  <2>2. /\ kb'.revision = kb.revision
        /\ Interrupted # {} => kb'.status = "dirty"
        /\ Interrupted = {} => kb'.status = kb.status \/ (kb.status = "ready" /\ kb'.status = "dirty")
    <3> DEFINE dirty == [kb EXCEPT !.status = "dirty"]
    <3>1. /\ kb' = IF KbInterrupted.status = "ready" /\ kb.config # c THEN dirty ELSE KbInterrupted
          /\ KbInterrupted = IF Interrupted = {} THEN kb ELSE dirty
      BY <1>3 DEF Restart, KbInterrupted
    <3>2. dirty.status = "dirty" /\ dirty.revision = kb.revision
      BY DEF TypeOK
    <3> HIDE DEF dirty
    <3> QED
      BY <3>1, <3>2
  <2> QED
    BY <2>1, <2>2, Interrupts DEF Ends
<1> QED
  BY <1>1, <1>2, <1>3

\* The claim of a job: it is the last.
LEMMA ClaimsTheLast ==
    ASSUME TypeOK, OneJobAtATime, Claim
    PROVE  /\ worker.pc = "idle" /\ jobs # <<>> /\ LastJob.status = "queued" /\ Live
           /\ worker'.pc = "claimed" /\ worker'.job = Len(jobs)
           /\ worker' = [worker EXCEPT !.pc = "claimed", !.job = Len(jobs)]
           /\ jobs' \in Seq(JobRows) /\ Len(jobs') = Len(jobs) /\ jobs' # <<>>
           /\ LastJob' = [LastJob EXCEPT !.status = "running"] /\ LastJob'.status = "running"
           /\ \A j \in DOMAIN jobs : j # Len(jobs) => jobs'[j] = jobs[j]
           /\ UNCHANGED <<kb, docs, versions, fixes, files, engine, upload, config, faults>>
<1>1. PICK j \in DOMAIN jobs : /\ jobs[j].status = "queued"
                               /\ worker' = [worker EXCEPT !.pc = "claimed", !.job = j]
                               /\ jobs' = [jobs EXCEPT ![j].status = "running"]
  BY DEF Claim
<1>2. /\ j = Len(jobs) /\ jobs # <<>> /\ Len(jobs) \in DOMAIN jobs /\ jobs \in Seq(JobRows)
      /\ jobs[j] = LastJob
  BY <1>1, Queues DEF OneJobAtATime, TypeOK, LastJob
<1>3. [jobs[j] EXCEPT !.status = "running"] \in JobRows
      /\ [jobs[j] EXCEPT !.status = "running"].status = "running"
  BY <1>2, Queues, Marked
<1>4. /\ jobs' \in Seq(JobRows) /\ Len(jobs') = Len(jobs) /\ jobs' # <<>>
      /\ jobs'[j] = [jobs[j] EXCEPT !.status = "running"]
      /\ \A i \in DOMAIN jobs : i # j => jobs'[i] = jobs[i]
  BY <1>1, <1>2, <1>3
<1>5. worker'.pc = "claimed" /\ worker'.job = j
  BY <1>1 DEF TypeOK
<1> QED
  BY <1>1, <1>2, <1>3, <1>4, <1>5 DEF Claim, LastJob, Live

\* A step of the sweep that leaves the rows but for the record of files.
Sweeps == /\ UNCHANGED <<docs, fixes, jobs, upload, kb, engine>>
          /\ \A v \in Versions : /\ versions'[v].status = versions[v].status
                                 /\ versions'[v].doc = versions[v].doc
                                 /\ versions'[v].path => versions[v].path
          /\ worker.pc \notin AtWork \cup {"down"} /\ worker'.pc \notin AtWork \cup {"down"}
          /\ worker'.job = worker.job
          /\ worker'.pc \in {"rows", "directory", "mark"} => kb.status = "deleting"
          /\ worker'.pc \in {"directory", "mark"} => worker.pc = "directory" /\ files' = {}
          /\ files' \subseteq files
          /\ \A v \in files : v \notin files' =>
               \/ kb.status = "deleting"
               \/ versions[v].path /\ docs[versions[v].doc].status = "deleted"

\* The steps of the sweep that leave the rows.
LEMMA SweepsGo ==
    ASSUME TypeOK, OneJobAtATime,
           \/ StartSweep \/ PurgeFiles \/ RemoveDirectory \/ DeferPurge \/ Unlink \/ MarkUnlinked
    PROVE  Sweeps
<1>1. CASE StartSweep
  BY <1>1 DEF StartSweep, Goto, Sweeps, AtWork, TypeOK, rows
<1>2. CASE PurgeFiles
  BY <1>2 DEF PurgeFiles, Goto, Sweeps, AtWork, TypeOK, rows
<1>3. CASE RemoveDirectory
  BY <1>3 DEF RemoveDirectory, Goto, Sweeps, AtWork, TypeOK, rows, OneJobAtATime
<1>4. CASE DeferPurge
  BY <1>4 DEF DeferPurge, Goto, Sweeps, AtWork, TypeOK, rows
<1>5. CASE Unlink
  <2>1. PICK removed \in SUBSET Unlinkable :
              worker' = [worker EXCEPT !.pc = "unlinked", !.removed = removed]
    BY <1>5 DEF Unlink
  <2>2. worker'.removed = removed /\ worker'.pc = "unlinked" /\ worker'.job = worker.job
    BY <2>1 DEF TypeOK
  <2> QED
    BY <1>5, <2>2 DEF Unlink, Unlinkable, Sweeps, AtWork, rows
<1>6. CASE MarkUnlinked
  <2>1. \A v \in Versions : /\ versions'[v].status = versions[v].status
                            /\ versions'[v].doc = versions[v].doc
                            /\ versions'[v].path => versions[v].path
    <3>1. ASSUME NEW v \in Versions
          PROVE  /\ versions'[v].status = versions[v].status
                 /\ versions'[v].doc = versions[v].doc
                 /\ versions'[v].path => versions[v].path
      <4>1. versions'[v] = IF v \in worker.removed
                           THEN [versions[v] EXCEPT !.path = FALSE] ELSE versions[v]
        BY <1>6 DEF MarkUnlinked
      <4>2. versions[v] \in [doc : Documents \cup {Gone}, path : BOOLEAN,
                             status : {"absent", "pending", "active", "superseded", "deleted"}]
        BY DEF TypeOK
      <4> QED
        BY <4>1, <4>2
    <3> QED
      BY <3>1
  <2> QED
    BY <1>6, <2>1 DEF MarkUnlinked, Sweeps, AtWork, TypeOK
<1> QED
  BY <1>1, <1>2, <1>3, <1>4, <1>5, <1>6

-----------------------------------------------------------------------------
(***************************************************************************)
(* What a publication makes of the rows                                    *)
(***************************************************************************)

\* The version a rebuild takes of a document is one of its own, and none that
\* was published before another.
LEMMA ChosenIsOwn ==
    ASSUME TypeOK, RowsRefer, NEW d \in Documents, Of(d) # {}
    PROVE  /\ Chosen(d) \in Of(d) /\ docs[d].current <= Chosen(d)
           /\ (\A v \in Of(d) : versions[v].status # "pending") /\ docs[d].current # 0 =>
                  Chosen(d) = docs[d].current
<1> DEFINE pending == {v \in Of(d) : versions[v].status = "pending"}
<1>1. /\ pending # {} => Chosen(d) = Max(pending)
      /\ pending = {} /\ docs[d].current \in Of(d) => Chosen(d) = docs[d].current
      /\ pending = {} /\ docs[d].current \notin Of(d) => Chosen(d) = Max(Of(d))
  BY DEF Chosen
<1>2. pending \in SUBSET Versions /\ Of(d) \in SUBSET Versions
  BY DEF Of
<1>3. docs[d].current # 0 => docs[d].current \in Of(d)
  BY DEF RowsRefer
<1>4. \A v \in pending : docs[d].current < v
  BY <1>2 DEF RowsRefer, Of
<1>5. \A v \in Versions : v \in Nat
  BY Bounds DEF Versions
<1>6. CASE pending # {}
  <2>1. Max(pending) \in pending
    BY <1>2, <1>6, MaxOfVersions
  <2> QED
    BY <1>1, <1>2, <1>4, <1>5, <1>6, <2>1 DEF TypeOK
<1>7. CASE pending = {} /\ docs[d].current \in Of(d)
  BY <1>1, <1>2, <1>5, <1>7
<1>8. CASE pending = {} /\ docs[d].current \notin Of(d)
  <2>1. Max(Of(d)) \in Of(d) /\ docs[d].current = 0
    BY <1>2, <1>3, <1>8, MaxOfVersions
  <2> QED
    BY <1>1, <1>2, <1>5, <1>8, <2>1
<1> QED
  BY <1>6, <1>7, <1>8

\* The documents that a job which indexes everything again keeps.
Kept(job, d) == /\ docs[d].status \in {"pending", "active"} /\ Of(d) # {}
                /\ ~ (job.op \in Purging /\ job.doc \in {d, Gone})
                /\ ~ (job.op = "replace_document" /\ job.doc = d)

\* It takes one version of each, and the one that the job brings.
LEMMA SelectedAre ==
    ASSUME TypeOK, RowsRefer, NEW job
    PROVE  /\ \A d \in Documents : Kept(job, d) => Chosen(d) \in Selected(job)
           /\ \A v \in Selected(job) :
                \/ v = job.version /\ job.op = "replace_document"
                \/ /\ v \in Versions /\ Stored(v) /\ versions[v].doc \in Documents
                   /\ v = Chosen(versions[v].doc) /\ Kept(job, versions[v].doc)
           /\ job.op = "replace_document" => job.version \in Selected(job)
<1>1. Selected(job) = {Chosen(d) : d \in {d \in Documents : Kept(job, d)}}
                          \cup (IF job.op = "replace_document" THEN {job.version} ELSE {})
  BY DEF Selected, Kept
<1>2. \A d \in Documents : Kept(job, d) =>
          /\ Chosen(d) \in Versions /\ Stored(Chosen(d)) /\ versions[Chosen(d)].doc = d
  BY ChosenIsOwn DEF Kept, Of, Stored
<1> QED
  BY <1>1, <1>2

\* What publishing means for each row.
Publishes(job) ==
    /\ kb'.status = (IF job.op = "delete_knowledge_base" THEN "deleting" ELSE "ready")
    /\ kb'.revision = kb.revision + 1
    /\ \A v \in Versions : /\ versions'[v].doc = versions[v].doc
                           /\ versions'[v].path = versions[v].path
                           /\ Stored(v)' <=> Stored(v)
                           /\ versions'[v].status = "pending" =>
                                /\ versions[v].status = "pending"
                                /\ docs'[versions[v].doc].current = docs[versions[v].doc].current
    /\ \A d \in Documents :
         /\ docs'[d].status = "absent" <=> docs[d].status = "absent"
         /\ docs'[d].status = "pending" => docs[d].status = "pending"
         /\ docs[d].status = "deleted" => docs'[d] = docs[d]
         /\ docs'[d].current \in {docs[d].current} \cup Of(d)
         /\ docs[d].current <= docs'[d].current
    /\ job.op # "delete_knowledge_base" => SettledBut(0)'
    /\ job.op = "delete_knowledge_base" =>
         \A d \in Documents : docs'[d].status \in {"absent", "deleted"}

PublishedTyped ==
    /\ docs' \in [Documents -> [status : {"absent", "pending", "active", "deleted"},
                               current : {0} \cup Versions]]
    /\ versions' \in [Versions -> [doc : Documents \cup {Gone}, path : BOOLEAN,
                                  status : {"absent", "pending", "active", "superseded",
                                            "deleted"}]]

\* The rows that publishing writes.
PublishesRows(job) ==
    /\ kb' = [kb EXCEPT !.revision = @ + 1,
                        !.status = IF job.op = "delete_knowledge_base" THEN "deleting" ELSE "ready"]
    /\ versions' = PublishedVersions(job)
    /\ docs' = PublishedDocs(job)

OfOneDocument == {"ingest_document", "replace_document", "reuse_document", "delete_document"}

\* What each kind of job publishes, row by row.
LEMMA RowsPublished ==
    ASSUME NEW job, PublishesRows(job)
    PROVE  /\ job.op \in OfOneDocument => \A v \in Versions :
                versions'[v] = IF v = job.previous /\ job.op = "replace_document"
                               THEN [versions[v] EXCEPT !.status = "superseded"]
                               ELSE IF v = job.version
                                    THEN [versions[v] EXCEPT !.status =
                                            IF job.op = "delete_document" THEN "deleted" ELSE "active"]
                                    ELSE versions[v]
           /\ job.op \in OfOneDocument =>
                docs' = IF job.op = "delete_document"
                        THEN [docs EXCEPT ![job.doc].status = "deleted"]
                        ELSE [docs EXCEPT ![job.doc] = [status |-> "active",
                                                        current |-> job.version]]
           /\ job.op = "rebuild" => \A v \in Versions :
                versions'[v] = IF v \in Selected(job) THEN [versions[v] EXCEPT !.status = "active"]
                               ELSE IF versions[v].status \in {"pending", "active"}
                                    THEN [versions[v] EXCEPT !.status = "superseded"]
                                    ELSE versions[v]
           /\ job.op = "rebuild" => \A d \in Documents :
                docs'[d] = IF Selected(job) \cap Of(d) = {} THEN docs[d]
                           ELSE [status |-> "active", current |-> Max(Selected(job) \cap Of(d))]
           /\ job.op \in {"correction", "delete_knowledge_base"} => versions' = versions
           /\ job.op = "correction" => docs' = docs
           /\ job.op = "delete_knowledge_base" => \A d \in Documents :
                docs'[d] = IF docs[d].status = "absent" THEN docs[d]
                           ELSE [docs[d] EXCEPT !.status = "deleted"]
           /\ versions' = PublishedVersions(job) /\ docs' = PublishedDocs(job)
<1>1. versions' = PublishedVersions(job) /\ docs' = PublishedDocs(job)
  BY DEF PublishesRows
<1>2. ASSUME job.op \in OfOneDocument
      PROVE  PublishedVersions(job) =
               [v \in Versions |->
                  IF v = job.previous /\ job.op = "replace_document"
                  THEN [versions[v] EXCEPT !.status = "superseded"]
                  ELSE IF v = job.version
                       THEN [versions[v] EXCEPT !.status =
                               IF job.op = "delete_document" THEN "deleted" ELSE "active"]
                       ELSE versions[v]]
  BY <1>2, Zenon DEF PublishedVersions, OfOneDocument
<1>3. ASSUME job.op \in OfOneDocument
      PROVE  PublishedDocs(job) = IF job.op = "delete_document"
                        THEN [docs EXCEPT ![job.doc].status = "deleted"]
                        ELSE [docs EXCEPT ![job.doc] = [status |-> "active",
                                                        current |-> job.version]]
  BY <1>3, Zenon DEF PublishedDocs, OfOneDocument
<1>4. ASSUME job.op = "rebuild", NEW v \in Versions
      PROVE  PublishedVersions(job)[v] =
                 IF v \in Selected(job) THEN [versions[v] EXCEPT !.status = "active"]
                 ELSE IF versions[v].status \in {"pending", "active"}
                      THEN [versions[v] EXCEPT !.status = "superseded"] ELSE versions[v]
  <2> DEFINE chosen == [versions[v] EXCEPT !.status = "active"]
             dropped == [versions[v] EXCEPT !.status = "superseded"]
  <2>1. PublishedVersions(job)[v] =
          CASE v \in Selected(job) -> chosen
            [] v \notin Selected(job) /\ versions[v].status \in {"pending", "active"} -> dropped
            [] OTHER -> versions[v]
    BY <1>4, Zenon DEF PublishedVersions
  <2> HIDE DEF chosen, dropped
  <2>2. PublishedVersions(job)[v] =
          IF v \in Selected(job) THEN chosen
          ELSE IF versions[v].status \in {"pending", "active"} THEN dropped ELSE versions[v]
    BY <2>1, Zenon
  <2> QED
    BY <2>2 DEF chosen, dropped
<1>5. ASSUME job.op = "rebuild", NEW d \in Documents
      PROVE  PublishedDocs(job)[d] =
                 IF Selected(job) \cap Of(d) = {} THEN docs[d]
                 ELSE [status |-> "active", current |-> Max(Selected(job) \cap Of(d))]
  BY <1>5, Zenon DEF PublishedDocs
<1>6. job.op \in {"correction", "delete_knowledge_base"} => PublishedVersions(job) = versions
  BY Zenon DEF PublishedVersions
<1>7. job.op = "correction" => PublishedDocs(job) = docs
  BY Zenon DEF PublishedDocs
<1>8. ASSUME job.op = "delete_knowledge_base", NEW d \in Documents
      PROVE  PublishedDocs(job)[d] = IF docs[d].status = "absent" THEN docs[d]
                                     ELSE [docs[d] EXCEPT !.status = "deleted"]
  BY <1>8, Zenon DEF PublishedDocs
<1>9. job.op \in OfOneDocument => \A v \in Versions :
                versions'[v] = IF v = job.previous /\ job.op = "replace_document"
                               THEN [versions[v] EXCEPT !.status = "superseded"]
                               ELSE IF v = job.version
                                    THEN [versions[v] EXCEPT !.status =
                                            IF job.op = "delete_document" THEN "deleted" ELSE "active"]
                                    ELSE versions[v]
  BY <1>1, <1>2, Zenon
<1>10. job.op \in OfOneDocument =>
                docs' = IF job.op = "delete_document"
                        THEN [docs EXCEPT ![job.doc].status = "deleted"]
                        ELSE [docs EXCEPT ![job.doc] = [status |-> "active",
                                                        current |-> job.version]]
  BY <1>1, <1>3, Zenon
<1>11. job.op = "rebuild" => \A v \in Versions :
                versions'[v] = IF v \in Selected(job) THEN [versions[v] EXCEPT !.status = "active"]
                               ELSE IF versions[v].status \in {"pending", "active"}
                                    THEN [versions[v] EXCEPT !.status = "superseded"]
                                    ELSE versions[v]
  BY <1>1, <1>4, Zenon
<1>12. job.op = "rebuild" => \A d \in Documents :
                docs'[d] = IF Selected(job) \cap Of(d) = {} THEN docs[d]
                           ELSE [status |-> "active", current |-> Max(Selected(job) \cap Of(d))]
  BY <1>1, <1>5, Zenon
<1>13. job.op = "delete_knowledge_base" => \A d \in Documents :
                docs'[d] = IF docs[d].status = "absent" THEN docs[d]
                           ELSE [docs[d] EXCEPT !.status = "deleted"]
  BY <1>1, <1>8, Zenon
<1>14. job.op \in {"correction", "delete_knowledge_base"} => versions' = versions
  BY <1>1, <1>6, Zenon
<1>15. job.op = "correction" => docs' = docs
  BY <1>1, <1>7, Zenon
<1> QED
  BY <1>1, <1>9, <1>10, <1>11, <1>12, <1>13, <1>14, <1>15, Zenon

\* Publishing a job of one document: it is active or deleted with the version
\* the job names, which no other version waits behind.
LEMMA PublishesOne ==
    ASSUME TypeOK, RowsRefer, NEW job \in JobRows, JobFits(job), PublishesRows(job),
           job.op \in OfOneDocument
    PROVE  Publishes(job) /\ PublishedTyped
<1> DEFINE D == job.doc
           w == job.version
           status == IF job.op = "delete_document" THEN "deleted" ELSE "active"
<1>1. /\ D \in Documents /\ w \in Versions /\ versions[w].doc = D /\ Stored(w)
      /\ docs[D].status \in {"pending", "active"}
      /\ docs[D].current <= w /\ w # 0
      /\ job.op \notin Brings => w = docs[D].current
      /\ job.op = "replace_document" => job.previous = docs[D].current /\ job.previous # w
  <2>1. w \in {0} \cup Versions /\ job.previous \in {0} \cup Versions
    BY DEF JobRows
  <2>2. \A v \in Versions : v \in Nat /\ v # 0
    BY Bounds DEF Versions
  <2>3. CASE job.op \in Brings
    BY <2>1, <2>2, <2>3 DEF JobFits, RowsRefer, Of, Stored, Brings
  <2>4. CASE job.op \notin Brings
    <3>1. /\ D \in Documents /\ w = docs[D].current /\ docs[D].status = "active"
      BY <2>4 DEF JobFits, OfOneDocument, Brings
    <3>2. w # 0 /\ w \in Of(D)
      BY <3>1 DEF RowsRefer
    <3>3. w \in Versions /\ versions[w].doc = D /\ Stored(w)
      BY <3>2 DEF Of, Stored
    <3>4. job.op # "replace_document"
      BY <2>4 DEF Brings
    <3> QED
      BY <2>2, <2>4, <3>1, <3>2, <3>3, <3>4
  <2> QED
    BY <2>3, <2>4
<1>2. SettledBut(IF job.op \in Brings THEN w ELSE 0)
  BY DEF JobFits, OfOneDocument
<1>3. docs' = [docs EXCEPT ![D] = [status |-> status, current |-> w]]
  <2>1. CASE job.op = "delete_document"
    <3>1. w = docs[D].current
      BY <1>1, <2>1 DEF Brings
    <3>2. docs' = [docs EXCEPT ![D].status = "deleted"]
      BY <2>1, RowsPublished
    <3>3. docs[D] \in [status : {"absent", "pending", "active", "deleted"},
                       current : {0} \cup Versions]
      BY <1>1 DEF TypeOK
    <3>4. [docs[D] EXCEPT !.status = "deleted"] = [status |-> "deleted", current |-> w]
      BY <3>1, <3>3
    <3> QED
      BY <2>1, <3>2, <3>4
  <2>2. CASE job.op # "delete_document"
    BY <2>2, RowsPublished DEF OfOneDocument
  <2> QED
    BY <2>1, <2>2
<1>4. \A v \in Versions :
        versions'[v] = IF v = w THEN [versions[v] EXCEPT !.status = status]
                       ELSE IF v = job.previous /\ job.op = "replace_document"
                            THEN [versions[v] EXCEPT !.status = "superseded"] ELSE versions[v]
  BY <1>1, RowsPublished
<1>5. status \in {"active", "deleted"} /\ (status = "deleted" <=> job.op = "delete_document")
  OBVIOUS
<1> HIDE DEF D, w, status
<1>6. /\ docs'[D].status = status /\ docs'[D].current = w
      /\ \A d \in Documents : d # D => docs'[d] = docs[d]
      /\ docs' \in [Documents -> [status : {"absent", "pending", "active", "deleted"},
                                  current : {0} \cup Versions]]
  BY <1>1, <1>3, <1>5 DEF TypeOK
<1>7. ASSUME NEW v \in Versions
      PROVE  /\ versions'[v].doc = versions[v].doc /\ versions'[v].path = versions[v].path
             /\ versions'[v].status \in {"absent", "pending", "active", "superseded", "deleted"}
             /\ versions'[v] = [doc |-> versions[v].doc, status |-> versions'[v].status,
                                path |-> versions[v].path]
             /\ v = w => versions'[v].status = status
             /\ v # w /\ ~ (v = job.previous /\ job.op = "replace_document") =>
                  versions'[v] = versions[v]
             /\ v # w /\ v = job.previous /\ job.op = "replace_document" =>
                  versions'[v].status = "superseded"
  <2>1. versions[v] \in [doc : Documents \cup {Gone}, path : BOOLEAN,
                         status : {"absent", "pending", "active", "superseded", "deleted"}]
    BY DEF TypeOK
  <2> QED
    BY <1>4, <1>5, <2>1
<1>8. ASSUME NEW v \in Versions, v = job.previous, job.op = "replace_document"
      PROVE  Stored(v) /\ versions[v].doc = D
  <2>1. v = docs[D].current /\ v # 0
    BY <1>1, <1>8, Bounds DEF Versions
  <2>2. v \in Of(D)
    BY <1>1, <2>1 DEF RowsRefer
  <2> QED
    BY <2>2 DEF Of, Stored
<1>9. ASSUME NEW v \in Versions
      PROVE  versions'[v].status # "pending" /\ (Stored(v)' <=> Stored(v))
  <2>1. versions[v].status = "pending" => v = w
    BY <1>1, <1>2, Bounds DEF SettledBut, Versions
  <2> QED
    BY <1>1, <1>5, <1>7, <1>8, <2>1 DEF Stored
<1>10. ASSUME NEW d \in Documents, d # D
       PROVE  docs[d].status # "pending"
  BY <1>1, <1>2, <1>10 DEF SettledBut
<1>11. ASSUME NEW d \in Documents, docs'[d].status = "active"
       PROVE  docs'[d].current # 0 /\ versions'[docs'[d].current].status = "active"
  <2>1. CASE d = D
    BY <1>1, <1>5, <1>6, <1>7, <1>11, <2>1
  <2>2. CASE d # D
    <3> DEFINE c == docs[d].current
    <3>1. docs'[d] = docs[d] /\ docs[d].status = "active" /\ c # 0 /\ c \in Of(d)
      BY <1>6, <1>11, <2>2 DEF RowsRefer
    <3>2. c \in Versions /\ versions[c].doc = d /\ versions[c].status = "active"
      BY <1>2, <3>1 DEF SettledBut, Of
    <3> HIDE DEF c
    <3>3. c # w /\ ~ (c = job.previous /\ job.op = "replace_document")
      BY <1>1, <1>8, <2>2, <3>2
    <3>4. versions'[c] = versions[c]
      BY <1>7, <3>2, <3>3
    <3> QED
      BY <3>1, <3>2, <3>4 DEF c
  <2> QED
    BY <2>1, <2>2
<1>12. SettledBut(0)'
  <2>1. ASSUME NEW d \in Documents PROVE docs'[d].status # "pending"
    BY <1>5, <1>6, <1>10, <2>1
  <2> QED
    BY <1>9, <1>11, <2>1 DEF SettledBut
<1>13. job.op \notin {"delete_knowledge_base"}
  BY DEF OfOneDocument
<1>14. kb'.status = "ready" /\ kb'.revision = kb.revision + 1
  BY <1>13 DEF PublishesRows, TypeOK
<1>15. ASSUME NEW d \in Documents
       PROVE  /\ docs'[d].status = "absent" <=> docs[d].status = "absent"
              /\ docs'[d].status = "pending" => docs[d].status = "pending"
              /\ docs[d].status = "deleted" => docs'[d] = docs[d]
              /\ docs'[d].current \in {docs[d].current} \cup Of(d)
              /\ docs[d].current <= docs'[d].current
  <2>1. CASE d = D
    <3>1. w \in Of(d)
      BY <1>1, <2>1 DEF Of, Stored
    <3> QED
      BY <1>1, <1>5, <1>6, <2>1, <3>1
  <2>2. CASE d # D
    <3>1. docs[d].current \in Nat
      BY Bounds DEF TypeOK, Versions
    <3> QED
      BY <1>6, <2>2, <3>1
  <2> QED
    BY <2>1, <2>2
<1>16. Publishes(job)
  BY <1>7, <1>9, <1>12, <1>13, <1>14, <1>15 DEF Publishes
<1>17. versions' \in [Versions -> [doc : Documents \cup {Gone}, path : BOOLEAN,
                                  status : {"absent", "pending", "active", "superseded",
                                            "deleted"}]]
  <2>1. \A v \in Versions : versions'[v] \in [doc : Documents \cup {Gone}, path : BOOLEAN,
                         status : {"absent", "pending", "active", "superseded", "deleted"}]
    <3>1. ASSUME NEW v \in Versions
          PROVE  versions'[v] \in [doc : Documents \cup {Gone}, path : BOOLEAN,
                         status : {"absent", "pending", "active", "superseded", "deleted"}]
      <4>1. versions[v].doc \in Documents \cup {Gone} /\ versions[v].path \in BOOLEAN
        BY DEF TypeOK
      <4>2. /\ versions'[v].status \in {"absent", "pending", "active", "superseded", "deleted"}
            /\ versions'[v] = [doc |-> versions[v].doc, status |-> versions'[v].status,
                               path |-> versions[v].path]
        BY <1>7
      <4> DEFINE s == versions'[v].status
                 x == versions[v].doc
                 y == versions[v].path
      <4>3. /\ versions'[v] = [doc |-> x, status |-> s, path |-> y]
            /\ s \in {"absent", "pending", "active", "superseded", "deleted"}
            /\ x \in Documents \cup {Gone} /\ y \in BOOLEAN
        BY <4>1, <4>2
      <4> HIDE DEF s, x, y
      <4> QED
        BY <4>3
    <3> QED
      BY <3>1
  <2>2. versions' = PublishedVersions(job)
    BY RowsPublished
  <2>3. versions' = [v \in Versions |-> versions'[v]]
    BY <2>2, Zenon DEF PublishedVersions, OfOneDocument
  <2> QED
    BY <2>1, <2>3
<1> QED
  BY <1>6, <1>16, <1>17 DEF PublishedTyped

\* A rebuild publishes one version of every document that is not deleted.
LEMMA PublishesAll ==
    ASSUME TypeOK, RowsRefer, NEW job \in JobRows, PublishesRows(job), job.op = "rebuild"
    PROVE  Publishes(job) /\ PublishedTyped
<1>1. /\ \A v \in Versions :
            versions'[v] = IF v \in Selected(job) THEN [versions[v] EXCEPT !.status = "active"]
                           ELSE IF versions[v].status \in {"pending", "active"}
                                THEN [versions[v] EXCEPT !.status = "superseded"]
                                ELSE versions[v]
      /\ \A d \in Documents :
            docs'[d] = IF Selected(job) \cap Of(d) = {} THEN docs[d]
                       ELSE [status |-> "active", current |-> Max(Selected(job) \cap Of(d))]
      /\ versions' = [v \in Versions |-> versions'[v]]
      /\ docs' = [d \in Documents |-> docs'[d]]
  <2>1. versions' = PublishedVersions(job) /\ docs' = PublishedDocs(job)
    BY RowsPublished
  <2>2. versions' = [v \in Versions |-> versions'[v]]
    BY <2>1, Zenon DEF PublishedVersions
  <2>3. docs' = [d \in Documents |-> docs'[d]]
    BY <2>1, Zenon DEF PublishedDocs
  <2>4. \A v \in Versions :
            versions'[v] = IF v \in Selected(job) THEN [versions[v] EXCEPT !.status = "active"]
                           ELSE IF versions[v].status \in {"pending", "active"}
                                THEN [versions[v] EXCEPT !.status = "superseded"]
                                ELSE versions[v]
    BY RowsPublished
  <2>5. \A d \in Documents :
            docs'[d] = IF Selected(job) \cap Of(d) = {} THEN docs[d]
                       ELSE [status |-> "active", current |-> Max(Selected(job) \cap Of(d))]
    BY RowsPublished
  <2> QED
    BY <2>2, <2>3, <2>4, <2>5
<1>2. \A v \in Selected(job) : /\ v \in Versions /\ Stored(v) /\ versions[v].doc \in Documents
                               /\ v = Chosen(versions[v].doc) /\ Kept(job, versions[v].doc)
  BY SelectedAre
<1>3. ASSUME NEW v \in Versions
      PROVE  /\ versions'[v] \in [doc : Documents \cup {Gone}, path : BOOLEAN,
                           status : {"absent", "pending", "active", "superseded", "deleted"}]
             /\ versions'[v].doc = versions[v].doc /\ versions'[v].path = versions[v].path
             /\ versions'[v].status # "pending"
             /\ v \in Selected(job) => versions'[v].status = "active"
             /\ Stored(v)' <=> Stored(v)
  <2> DEFINE active == [versions[v] EXCEPT !.status = "active"]
             superseded == [versions[v] EXCEPT !.status = "superseded"]
             rowTypes == [doc : Documents \cup {Gone}, path : BOOLEAN,
                          status : {"absent", "pending", "active", "superseded", "deleted"}]
  <2>1. /\ versions[v] \in rowTypes
        /\ versions'[v] = IF v \in Selected(job) THEN active
                          ELSE IF versions[v].status \in {"pending", "active"} THEN superseded
                               ELSE versions[v]
        /\ v \in Selected(job) => versions[v].status # "absent"
    BY <1>1, <1>2 DEF TypeOK, Stored
  <2>2. /\ active \in rowTypes /\ active.status = "active"
        /\ active.doc = versions[v].doc /\ active.path = versions[v].path
    BY <2>1
  <2>3. /\ superseded \in rowTypes /\ superseded.status = "superseded"
        /\ superseded.doc = versions[v].doc /\ superseded.path = versions[v].path
    BY <2>1
  <2> HIDE DEF active, superseded, rowTypes
  <2>4. /\ versions'[v] \in rowTypes
        /\ versions'[v].doc = versions[v].doc /\ versions'[v].path = versions[v].path
        /\ versions'[v].status # "pending"
        /\ v \in Selected(job) => versions'[v].status = "active"
        /\ versions'[v].status = "absent" <=> versions[v].status = "absent"
    BY <2>1, <2>2, <2>3
  <2> QED
    BY <2>4 DEF rowTypes, Stored
<1>4. ASSUME NEW d \in Documents, Kept(job, d)
      PROVE  /\ docs'[d] = [status |-> "active", current |-> Chosen(d)]
             /\ Chosen(d) \in Of(d) /\ Chosen(d) \in Selected(job) /\ docs[d].current <= Chosen(d)
  <2>1. Chosen(d) \in Of(d) /\ Chosen(d) \in Selected(job) /\ docs[d].current <= Chosen(d)
    BY <1>4, ChosenIsOwn, SelectedAre DEF Kept
  <2>2. \A v \in Selected(job) \cap Of(d) : v = Chosen(d)
    BY <1>2 DEF Of
  <2> DEFINE mine == Selected(job) \cap Of(d)
  <2>3. mine = {Chosen(d)} /\ mine \in SUBSET Versions /\ mine # {}
    BY <1>2, <2>1, <2>2
  <2>4. docs'[d] = IF mine = {} THEN docs[d] ELSE [status |-> "active", current |-> Max(mine)]
    BY <1>1
  <2> HIDE DEF mine
  <2>5. Max(mine) \in mine
    BY <2>3, MaxOfVersions
  <2> QED
    BY <2>1, <2>3, <2>4, <2>5
<1>5. ASSUME NEW d \in Documents, ~ Kept(job, d)
      PROVE  docs'[d] = docs[d] /\ docs[d].status \in {"absent", "deleted"}
  <2>1. \A v \in Selected(job) : v \notin Of(d)
    BY <1>2, <1>5 DEF Of
  <2>2. docs'[d] = docs[d]
    BY <1>1, <2>1
  <2>3. job.op \notin Purging /\ job.op # "replace_document"
    BY DEF Purging
  <2>4. docs[d].status \notin {"pending", "active"} \/ Of(d) = {}
    BY <1>5, <2>3 DEF Kept
  <2>5. docs[d].status \in {"pending", "active"} => Of(d) # {}
    BY DEF RowsRefer
  <2> QED
    BY <2>2, <2>4, <2>5 DEF TypeOK
<1>6. ASSUME NEW d \in Documents
      PROVE  /\ docs'[d] \in [status : {"absent", "pending", "active", "deleted"},
                              current : {0} \cup Versions]
             /\ docs'[d].status # "pending"
             /\ docs'[d].status = "absent" <=> docs[d].status = "absent"
             /\ docs[d].status = "deleted" => docs'[d] = docs[d]
             /\ docs'[d].current \in {docs[d].current} \cup Of(d)
             /\ docs[d].current <= docs'[d].current
             /\ docs'[d].status = "active" =>
                  docs'[d].current # 0 /\ versions'[docs'[d].current].status = "active"
  <2>1. CASE Kept(job, d)
    <3> DEFINE c == Chosen(d)
    <3>1. /\ docs'[d] = [status |-> "active", current |-> c] /\ c \in Of(d)
          /\ c \in Selected(job) /\ docs[d].current <= c /\ docs[d].status \in {"pending", "active"}
      BY <1>4, <2>1 DEF Kept
    <3>2. c \in Versions /\ c # 0 /\ versions'[c].status = "active"
      BY <1>2, <1>3, <3>1, Bounds DEF Versions
    <3> HIDE DEF c
    <3> QED
      BY <3>1, <3>2
  <2>2. CASE ~ Kept(job, d)
    <3>1. /\ docs'[d] = docs[d] /\ docs[d].status \in {"absent", "deleted"}
          /\ docs[d].current \in Nat /\ docs[d] \in [status : {"absent", "pending", "active", "deleted"},
                              current : {0} \cup Versions]
      BY <1>5, <2>2, Bounds DEF TypeOK, Versions
    <3> QED
      BY <3>1
  <2> QED
    BY <2>1, <2>2
<1>7. SettledBut(0)'
  BY <1>3, <1>6 DEF SettledBut
<1>8. kb'.status = "ready" /\ kb'.revision = kb.revision + 1
  BY DEF PublishesRows, TypeOK
<1>9. Publishes(job)
  BY <1>3, <1>6, <1>7, <1>8 DEF Publishes
<1> QED
  BY <1>1, <1>3, <1>6, <1>9 DEF PublishedTyped

\* A correction publishes no row.
LEMMA PublishesNone ==
    ASSUME TypeOK, RowsRefer, NEW job \in JobRows, JobFits(job), PublishesRows(job),
           job.op = "correction"
    PROVE  Publishes(job) /\ PublishedTyped
<1>1. docs' = docs /\ versions' = versions
  BY RowsPublished
<1>2. SettledBut(0)
  BY DEF JobFits, Brings
<1>3. SettledBut(0)'
  BY <1>1, <1>2 DEF SettledBut
<1>4. kb'.status = "ready" /\ kb'.revision = kb.revision + 1
  BY DEF PublishesRows, TypeOK
<1>5. \A d \in Documents : docs[d].current \in Nat
  BY Bounds DEF TypeOK, Versions
<1> QED
  BY <1>1, <1>3, <1>4, <1>5 DEF Publishes, PublishedTyped, Stored, TypeOK

\* The deletion of a base marks its documents.
LEMMA PublishesDeletion ==
    ASSUME TypeOK, RowsRefer, NEW job \in JobRows, JobFits(job), PublishesRows(job),
           job.op = "delete_knowledge_base"
    PROVE  Publishes(job) /\ PublishedTyped
<1>1. /\ versions' = versions
      /\ \A d \in Documents : docs'[d] = IF docs[d].status = "absent" THEN docs[d]
                                         ELSE [docs[d] EXCEPT !.status = "deleted"]
      /\ docs' = PublishedDocs(job)
  BY RowsPublished
<1>2. ASSUME NEW d \in Documents
      PROVE  /\ docs'[d] \in [status : {"absent", "pending", "active", "deleted"},
                              current : {0} \cup Versions]
             /\ docs'[d].status \in {"absent", "deleted"}
             /\ docs'[d].status = "absent" <=> docs[d].status = "absent"
             /\ docs[d].status = "deleted" => docs'[d] = docs[d]
             /\ docs'[d].current = docs[d].current
  <2>1. docs[d] \in [status : {"absent", "pending", "active", "deleted"},
                     current : {0} \cup Versions]
    BY DEF TypeOK
  <2> DEFINE deleted == [docs[d] EXCEPT !.status = "deleted"]
  <2>2. /\ deleted \in [status : {"absent", "pending", "active", "deleted"},
                        current : {0} \cup Versions]
        /\ deleted.status = "deleted" /\ deleted.current = docs[d].current
        /\ docs[d].status = "deleted" => deleted = docs[d]
    BY <2>1
  <2>3. docs'[d] = IF docs[d].status = "absent" THEN docs[d] ELSE deleted
    BY <1>1
  <2> HIDE DEF deleted
  <2> QED
    BY <2>1, <2>2, <2>3
<1>3. docs' = [d \in Documents |-> docs'[d]]
  BY <1>1, Zenon DEF PublishedDocs
<1>4. kb'.status = "deleting" /\ kb'.revision = kb.revision + 1
  BY DEF PublishesRows, TypeOK
<1>5. \A v \in Versions : versions[v].status # "pending"
  BY Bounds DEF JobFits, Brings, SettledBut, Versions
<1>6. \A d \in Documents : docs[d].current \in Nat
  BY Bounds DEF TypeOK, Versions
<1>7. Publishes(job)
  BY <1>1, <1>2, <1>4, <1>5, <1>6 DEF Publishes, Stored
<1>8. /\ versions' \in [Versions -> [doc : Documents \cup {Gone}, path : BOOLEAN,
                                  status : {"absent", "pending", "active", "superseded",
                                            "deleted"}]]
      /\ docs' \in [Documents -> [status : {"absent", "pending", "active", "deleted"},
                                  current : {0} \cup Versions]]
  BY <1>1, <1>2, <1>3 DEF TypeOK
<1> QED
  BY <1>7, <1>8 DEF PublishedTyped

\* Publishing keeps rows in order, whatever the job.
LEMMA JobsPublish ==
    ASSUME TypeOK, RowsRefer, NEW job \in JobRows, JobFits(job), PublishesRows(job)
    PROVE  Publishes(job) /\ PublishedTyped
<1>1. job.op \in OfOneDocument \cup {"rebuild", "correction", "delete_knowledge_base"}
  BY DEF JobRows, Operations, OfOneDocument
<1> QED
  BY <1>1, PublishesOne, PublishesAll, PublishesNone, PublishesDeletion

-----------------------------------------------------------------------------
(***************************************************************************)
(* Every step keeps the types                                              *)
(***************************************************************************)
LEMMA Counts ==
    ASSUME TypeOK, NEW kind
    PROVE  /\ Fault(kind) => faults' \in Nat /\ kind \in Faults
           /\ UNCHANGED faults => faults' \in Nat
BY DEF Fault, TypeOK

\* What a change of its state leaves of a request for an upload.
LEMMA UploadRow ==
    ASSUME NEW row \in UploadRequests,
           NEW pc \in {"idle", "checked", "put", "same", "ended", "orphaned"}
    PROVE  LET new == [row EXCEPT !.pc = pc]
           IN  /\ new \in UploadRequests /\ new.pc = pc
               /\ new.doc = row.doc /\ new.at = row.at /\ new.twin = row.twin
<1>1. /\ row = [pc |-> row.pc, doc |-> row.doc, at |-> row.at, twin |-> row.twin]
      /\ row.doc \in Documents \cup {Gone} /\ row.at \in Nat /\ row.twin \in {0} \cup Versions
  BY DEF UploadRequests
<1> DEFINE new == [row EXCEPT !.pc = pc]
<1>2. new = [pc |-> pc, doc |-> row.doc, at |-> row.at, twin |-> row.twin]
  BY <1>1
<1> HIDE DEF new
<1>3. new \in UploadRequests
  BY <1>1, <1>2 DEF UploadRequests
<1>4. new.pc = pc /\ new.doc = row.doc /\ new.at = row.at /\ new.twin = row.twin
  BY <1>2
<1> QED
  BY <1>3, <1>4 DEF new

\* A request for an upload stays one as it moves.
LEMMA UploadPc ==
    ASSUME TypeOK, NEW v \in Versions,
           NEW pc \in {"idle", "checked", "put", "same", "ended", "orphaned"},
           upload' = [upload EXCEPT ![v].pc = pc]
    PROVE  /\ upload' \in [Versions -> UploadRequests]
           /\ upload'[v].pc = pc /\ upload'[v].doc = upload[v].doc
           /\ upload'[v].at = upload[v].at /\ upload'[v].twin = upload[v].twin
           /\ \A w \in Versions : w # v => upload'[w] = upload[w]
<1> DEFINE row == upload[v]
           new == [row EXCEPT !.pc = pc]
<1>1. upload \in [Versions -> UploadRequests] /\ upload[v] \in UploadRequests
  BY DEF TypeOK
<1>2. upload' = [upload EXCEPT ![v] = new]
  BY <1>1
<1>3. /\ new \in UploadRequests /\ new.pc = pc
      /\ new.doc = upload[v].doc /\ new.at = upload[v].at /\ new.twin = upload[v].twin
  BY <1>1, UploadRow
<1> HIDE DEF new
<1> QED
  BY <1>1, <1>2, <1>3

\* Types: a request for an upload moves.
LEMMA MovesTyped ==
    ASSUME RowsInv, NEW v \in Versions, UploadMoves(v), faults' = faults \/ faults' = faults + 1
    PROVE  TypeOK'
<1> TypeOK
  BY DEF RowsInv
<1>1. faults' \in Nat
  BY DEF TypeOK
<1>2. files' \subseteq Versions
  BY DEF UploadMoves, TypeOK
<1>3. upload' \in [Versions -> UploadRequests]
  <2>1. \A pc \in {"idle", "checked", "put", "same", "ended", "orphaned"} :
          upload' = [upload EXCEPT ![v].pc = pc] => upload' \in [Versions -> UploadRequests]
    BY UploadPc
  <2>2. \A d \in Documents, pc \in {"checked", "same"}, twin \in {0} \cup Versions :
          [upload EXCEPT ![v] = [pc |-> pc, doc |-> d, at |-> kb.revision, twin |-> twin]]
             \in [Versions -> UploadRequests]
    BY DEF TypeOK, UploadRequests
  <2> QED
    BY <2>1, <2>2 DEF UploadMoves
<1> QED
  BY <1>1, <1>2, <1>3 DEF UploadMoves, TypeOK

\* The pending version and its document, as its upload writes them.
LEMMA UploadTyped ==
    ASSUME RowsInv, NEW v \in Versions, BeginUpload(v)
    PROVE  TypeOK'
<1> DEFINE d == upload[v].doc
           job == jobs'[Len(jobs')]
<1>1. TypeOK /\ upload[v].pc = "put" /\ d \in Documents
  BY DEF RowsInv, UploadsFit, InFlight, BeginUpload
<1>2. /\ Admits(job)
      /\ docs' = IF docs[d].status = "absent"
                 THEN [docs EXCEPT ![d] = [status |-> "pending", current |-> 0]] ELSE docs
      /\ versions' = [versions EXCEPT ![v] = [doc |-> d, status |-> "pending", path |-> TRUE]]
      /\ upload' = [upload EXCEPT ![v].pc = "ended"]
      /\ UNCHANGED <<fixes, files, faults>>
  BY <1>1, UploadAdmits
<1> HIDE DEF job
<1>3. docs' \in [Documents -> [status : {"absent", "pending", "active", "deleted"},
                               current : {0} \cup Versions]]
  BY <1>1, <1>2 DEF TypeOK
<1>4. versions' \in [Versions -> [doc : Documents \cup {Gone}, path : BOOLEAN,
                                  status : {"absent", "pending", "active", "superseded",
                                            "deleted"}]]
  BY <1>1, <1>2 DEF TypeOK
<1>5. upload' \in [Versions -> UploadRequests]
  BY <1>1, <1>2, UploadPc
<1>6. /\ jobs' \in Seq(JobRows)
      /\ kb' \in [status : {"ready", "updating", "dirty"} \cup DeletedKb,
                  revision : Nat, config : Configs]
      /\ worker' = worker /\ engine' = engine /\ config' = config
      /\ worker.job \in 0..Len(jobs')
  BY <1>1, <1>2, AdmissionTyped
<1> QED
  BY <1>1, <1>2, <1>3, <1>4, <1>5, <1>6 DEF TypeOK

\* Types: a job is accepted.
LEMMA AskTyped ==
    ASSUME TypeOK, NEW job, Asks(job), upload' \in [Versions -> UploadRequests],
           fixes' \in [count : 0..MaxFixes, identity : BOOLEAN]
    PROVE  TypeOK'
<1>1. /\ jobs' \in Seq(JobRows)
      /\ kb' \in [status : {"ready", "updating", "dirty"} \cup DeletedKb,
                  revision : Nat, config : Configs]
      /\ worker' = worker /\ engine' = engine /\ config' = config
      /\ worker.job \in 0..Len(jobs')
      /\ UNCHANGED <<docs, versions, files, faults>>
  BY AdmissionTyped DEF Asks
<1> QED
  BY <1>1 DEF TypeOK

\* What the jobs at hand select and bring are versions.
LEMMA JobsName ==
    ASSUME RowsInv, worker.pc \in AtWork
    PROVE  /\ Selected(Job0) \subseteq Versions /\ Touched(Job0) \subseteq Versions
           /\ Job0.op \in Brings => Job0.version \in Versions
           /\ Job0.op = "correction" => Job0.fix \in 1..fixes.count
           /\ JobFits(Job0) /\ Job0 \in JobRows
<1>1. TypeOK /\ OneJobAtATime /\ RowsRefer /\ JobFits(LastJob) /\ Job0 = LastJob /\ Job0 \in JobRows
  BY JobAtHand DEF RowsInv, JobsFit
<1> DEFINE job == Job0
<1>2. /\ job.version \in {0} \cup Versions /\ job.previous \in {0} \cup Versions
      /\ JobFits(job) /\ job \in JobRows
  BY <1>1 DEF JobRows
<1> HIDE DEF job
<1>3. job.op \in Brings => job.version \in Versions
  BY <1>2 DEF JobFits, Of
<1>4. Selected(job) \subseteq Versions
  BY <1>1, <1>2, <1>3, SelectedAre DEF Brings
<1>5. Touched(job) \subseteq Versions
  <2>1. \/ Touched(job) = {job.version} /\ job.op = "ingest_document"
        \/ Touched(job) = {job.version, job.previous} \ {0}
        \/ Touched(job) = {job.version} \ {0}
        \/ Touched(job) = {}
    BY Zenon DEF Touched
  <2> QED
    BY <1>2, <1>3, <2>1 DEF Brings
<1>6. job.op = "correction" => job.fix \in 1..fixes.count
  BY <1>2 DEF JobFits
<1> QED
  BY <1>2, <1>3, <1>4, <1>5, <1>6 DEF job

WorkerRows == [pc : {"down", "idle", "claimed", "writing", "written", "failing", "recover",
                     "sweep", "rows", "directory", "mark", "unlink", "unlinked"},
               job : 0..Len(jobs), whole : BOOLEAN, removed : SUBSET Versions]

\* The index, as a write of it begins.
LEMMA WritingTyped ==
    ASSUME RowsInv, NEW whole \in BOOLEAN, Writing(whole)
    PROVE  /\ engine' \in [index : SUBSET Versions, torn : SUBSET Versions,
                           applied : SUBSET (1..MaxFixes)]
           /\ worker' \in WorkerRows
<1> DEFINE job == Job0
<1>1. worker.pc \in AtWork /\ worker' = [worker EXCEPT !.pc = "writing", !.whole = whole]
  BY DEF Writing, AtWork
<1>2. Selected(job) \subseteq Versions /\ Touched(job) \subseteq Versions /\ TypeOK
  BY <1>1, JobsName DEF RowsInv
<1>3. \/ engine' = [index |-> {}, torn |-> Selected(job), applied |-> {}]
      \/ engine' = engine
      \/ engine' = [engine EXCEPT !.applied = @ \ {job.fix}]
      \/ engine' = [engine EXCEPT !.torn = @ \cup Touched(job), !.applied = {}]
  BY Zenon DEF Writing
<1> HIDE DEF job
<1>4. engine' \in [index : SUBSET Versions, torn : SUBSET Versions,
                   applied : SUBSET (1..MaxFixes)]
  <2> DEFINE selected == Selected(job)
             touched == Touched(job)
             fix == job.fix
  <2>1. /\ engine = [index |-> engine.index, torn |-> engine.torn, applied |-> engine.applied]
        /\ engine.index \subseteq Versions /\ engine.torn \subseteq Versions
        /\ engine.applied \subseteq 1..MaxFixes
    BY <1>2 DEF TypeOK
  <2>2. \/ engine' = [index |-> {}, torn |-> selected, applied |-> {}]
        \/ engine' = engine
        \/ engine' = [index |-> engine.index, torn |-> engine.torn,
                      applied |-> engine.applied \ {fix}]
        \/ engine' = [index |-> engine.index, torn |-> engine.torn \cup touched, applied |-> {}]
    BY <1>3, <2>1
  <2>3. selected \subseteq Versions /\ touched \subseteq Versions
    BY <1>2
  <2> HIDE DEF selected, touched, fix
  <2> QED
    BY <2>1, <2>2, <2>3
<1>5. worker' \in WorkerRows
  BY <1>1, <1>2 DEF TypeOK, WorkerRows
<1> QED
  BY <1>4, <1>5

\* What it holds when the write is done.
LEMMA WrittenTyped ==
    ASSUME RowsInv, worker.pc \in AtWork
    PROVE  Written(Job0) \in [index : SUBSET Versions, torn : SUBSET Versions,
                              applied : SUBSET (1..MaxFixes)]
<1> DEFINE job == Job0
           all == 1..fixes.count
<1>1. /\ Selected(job) \subseteq Versions /\ TypeOK
      /\ job.op \in Brings => job.version \in Versions
      /\ job.op = "correction" => job.fix \in all
      /\ all \subseteq 1..MaxFixes
  BY JobsName, Bounds DEF RowsInv, TypeOK
<1>2. /\ engine.index \subseteq Versions /\ engine.torn \subseteq Versions
      /\ engine.applied \subseteq 1..MaxFixes
      /\ engine \in [index : SUBSET Versions, torn : SUBSET Versions,
                     applied : SUBSET (1..MaxFixes)]
  BY <1>1 DEF TypeOK
<1>3. \/ \E applied \in {{}, all} :
           Written(job) = [index |-> Selected(job), torn |-> {}, applied |-> applied]
      \/ /\ job.op \in Brings
         /\ Written(job) = [index |-> (engine.index \ {job.previous}) \cup {job.version},
                            torn |-> engine.torn \ Touched(job), applied |-> all]
      \/ Written(job) = [index |-> engine.index \ {job.version},
                         torn |-> engine.torn \ Touched(job), applied |-> all]
      \/ /\ job.op = "correction"
         /\ Written(job) = [engine EXCEPT !.applied = @ \cup {job.fix}]
      \/ Written(job) = engine
  <2>1. CASE worker.whole
    BY <2>1, Zenon DEF Written
  <2>2. CASE ~ worker.whole
    BY <2>2, Zenon DEF Written, Brings
  <2> QED
    BY <2>1, <2>2
<1> HIDE DEF job, all
<1>4. [engine EXCEPT !.applied = @ \cup {job.fix}]
        = [index |-> engine.index, torn |-> engine.torn, applied |-> engine.applied \cup {job.fix}]
  BY <1>2
<1>5. Written(job) \in [index : SUBSET Versions, torn : SUBSET Versions,
                        applied : SUBSET (1..MaxFixes)]
  BY <1>1, <1>2, <1>3, <1>4
<1> QED
  BY <1>5 DEF job

\* What the publication of a job leaves.
LEMMA FinishesJob ==
    ASSUME RowsInv, FinishJob
    PROVE  /\ Publishes(LastJob) /\ PublishedTyped
           /\ worker.pc = "written" /\ Live /\ jobs # <<>> /\ kb.status = "updating"
           /\ LastJob \in JobRows /\ JobFits(LastJob) /\ Job0 = LastJob
           /\ PublishesRows(LastJob)
           /\ worker' = [worker EXCEPT !.pc = IF LastJob.op \in Purging THEN "sweep" ELSE "idle"]
           /\ jobs' \in Seq(JobRows) /\ Len(jobs') = Len(jobs) /\ jobs' # <<>>
           /\ LastJob' = [LastJob EXCEPT !.status = "succeeded"] /\ ~ Live'
           /\ LastJob'.status = "succeeded"
           /\ \A j \in DOMAIN jobs : j # Len(jobs) => jobs'[j] = jobs[j]
           /\ UNCHANGED <<fixes, files, engine, upload, config, faults>>
<1>1. /\ TypeOK /\ OneJobAtATime /\ RowsRefer /\ worker.pc = "written" /\ worker.pc \in AtWork
  BY DEF RowsInv, FinishJob, AtWork
<1>2. /\ Job0 = LastJob /\ Live /\ jobs # <<>> /\ kb.status = "updating" /\ Job0 \in JobRows
      /\ JobFits(Job0)
  BY <1>1, JobAtHand, JobsName
<1>3. /\ Publish(Job0) /\ UNCHANGED <<files, engine, upload, config, faults>>
      /\ worker' = [worker EXCEPT !.pc = IF LastJob.op \in Purging THEN "sweep" ELSE "idle"]
  BY <1>2 DEF FinishJob, Goto
<1>4. PublishesRows(Job0) /\ SetJob("succeeded") /\ fixes' = fixes
  BY <1>3 DEF Publish, PublishesRows
<1>5. Publishes(Job0) /\ PublishedTyped
  <2> DEFINE job == Job0
  <2>1. job \in JobRows /\ JobFits(job) /\ PublishesRows(job)
    BY <1>2, <1>4
  <2> HIDE DEF job
  <2>2. Publishes(job) /\ PublishedTyped
    BY <1>1, <2>1, JobsPublish
  <2> QED
    BY <2>2 DEF job
<1>6. /\ jobs' \in Seq(JobRows) /\ Len(jobs') = Len(jobs) /\ jobs' # <<>>
      /\ LastJob' = [LastJob EXCEPT !.status = "succeeded"] /\ ~ Live'
      /\ \A j \in DOMAIN jobs : j # Len(jobs) => jobs'[j] = jobs[j]
  BY <1>1, <1>4, SetsJob
<1>7. LastJob'.status = "succeeded"
  <2> DEFINE row == LastJob
             new == [row EXCEPT !.status = "succeeded"]
  <2>1. row \in JobRows
    BY <1>2
  <2> HIDE DEF row
  <2>2. new.status = "succeeded"
    BY <2>1, Marked
  <2> QED
    BY <1>6, <2>2 DEF row
<1> QED
  BY <1>1, <1>2, <1>3, <1>4, <1>5, <1>6, <1>7

\* Types: the worker's turn.
LEMMA WorkerTyped ==
    ASSUME RowsInv, Acknowledged, WorkerTurn
    PROVE  TypeOK'
<1> TypeOK /\ OneJobAtATime
  BY DEF RowsInv
<1>1. CASE Claim
  <2>1. worker' \in [pc : {"down", "idle", "claimed", "writing", "written", "failing", "recover",
                           "sweep", "rows", "directory", "mark", "unlink", "unlinked"},
                     job : 0..Len(jobs), whole : BOOLEAN, removed : SUBSET Versions]
    <3>1. worker' = [worker EXCEPT !.pc = "claimed", !.job = Len(jobs)]
      BY <1>1, ClaimsTheLast
    <3>2. Len(jobs) \in 0..Len(jobs)
      BY Queues
    <3> QED
      BY <3>1, <3>2 DEF TypeOK
  <2> QED
    BY <1>1, <2>1, ClaimsTheLast DEF TypeOK
<1>2. CASE StartWrite \/ StartRefused
  <2>1. PICK whole \in BOOLEAN : Writing(whole)
    <3>1. Rebuilds(Job0) \in BOOLEAN
      BY DEF Rebuilds, TypeOK
    <3> QED
      BY <1>2, <3>1 DEF StartWrite, StartRefused
  <2>2. /\ engine' \in [index : SUBSET Versions, torn : SUBSET Versions,
                        applied : SUBSET (1..MaxFixes)]
        /\ worker' \in WorkerRows
    BY <2>1, WritingTyped
  <2>3. UNCHANGED <<rows, files, upload, config>> /\ faults' \in Nat
    BY <1>2, <2>1, Counts DEF Writing, StartWrite, StartRefused
  <2> QED
    BY <2>2, <2>3 DEF TypeOK, WorkerRows, rows
<1>3. CASE FinishWrite
  <2>1. /\ worker.pc \in AtWork /\ engine' = Written(Job0)
        /\ worker' = [worker EXCEPT !.pc = "written"]
        /\ kb' = [kb EXCEPT !.config = config] \/ kb' = kb
        /\ UNCHANGED <<docs, versions, fixes, jobs, files, upload, config, faults>>
    BY <1>3 DEF FinishWrite, Goto, AtWork
  <2>2. engine' \in [index : SUBSET Versions, torn : SUBSET Versions,
                     applied : SUBSET (1..MaxFixes)]
    BY <2>1, WrittenTyped
  <2> QED
    BY <2>1, <2>2 DEF TypeOK
<1>4. CASE FailWrite
  <2>1. faults' \in Nat
    BY <1>4, Counts DEF FailWrite
  <2>2. worker' = [worker EXCEPT !.pc = "failing"] /\ UNCHANGED <<rows, files, engine, upload, config>>
    BY <1>4 DEF FailWrite, Goto
  <2>3. worker' \in WorkerRows
    BY <2>2 DEF TypeOK, WorkerRows
  <2> QED
    BY <2>1, <2>2, <2>3 DEF TypeOK, WorkerRows, rows
<1>5. CASE FinishJob
  <2>1. kb' \in [status : {"ready", "updating", "dirty"} \cup DeletedKb,
                 revision : Nat, config : Configs]
    <3>1. \E status \in {"ready", "deleting"} :
             kb' = [kb EXCEPT !.revision = @ + 1, !.status = status]
      BY <1>5, FinishesJob DEF PublishesRows
    <3>2. kb \in [status : {"ready", "updating", "dirty"} \cup DeletedKb,
                  revision : Nat, config : Configs]
      BY DEF TypeOK
    <3>3. kb = [status |-> kb.status, revision |-> kb.revision, config |-> kb.config]
      BY <3>2
    <3>4. PICK status \in {"ready", "deleting"} :
             kb' = [status |-> status, revision |-> kb.revision + 1, config |-> kb.config]
      BY <3>1, <3>3
    <3>5. kb.revision + 1 \in Nat /\ kb.config \in Configs
      BY <3>2
    <3> QED
      BY <3>4, <3>5 DEF DeletedKb
  <2>2. worker' \in [pc : {"down", "idle", "claimed", "writing", "written", "failing", "recover",
                           "sweep", "rows", "directory", "mark", "unlink", "unlinked"},
                     job : 0..Len(jobs'), whole : BOOLEAN, removed : SUBSET Versions]
    BY <1>5, FinishesJob DEF TypeOK
  <2> QED
    BY <1>5, <2>1, <2>2, FinishesJob DEF TypeOK, PublishedTyped
<1>6. CASE LoseFinish
  <2>1. faults' \in Nat
    BY <1>6, Counts DEF LoseFinish
  <2>2. UNCHANGED <<kb, docs, versions, fixes, jobs, files, engine, upload, config>>
        /\ worker' = [worker EXCEPT !.pc = "failing"]
    BY <1>6 DEF LoseFinish, Goto, Fault, Acknowledged, rows
  <2> QED
    BY <2>1, <2>2 DEF TypeOK
<1>7. CASE FailJob \/ Recover
  <2>1. /\ faults' \in Nat
        /\ UNCHANGED <<docs, versions, fixes, files, engine, upload, config>>
    BY <1>7, Counts DEF FailJob, Recover
  <2>2. jobs' \in Seq(JobRows) /\ Len(jobs') = Len(jobs)
    <3>1. CASE FailJob /\ jobs' = jobs
      BY <3>1 DEF TypeOK
    <3>2. CASE FailJob /\ SetJob("failed")
      <4>1. worker.pc \in AtWork
        BY <3>2 DEF FailJob, AtWork
      <4> QED
        BY <3>2, <4>1, SetsJob
    <3>3. CASE Recover
      BY <3>3, Interrupts DEF Recover
    <3> QED
      BY <1>7, <3>1, <3>2, <3>3 DEF FailJob
  <2>3. worker' = [worker EXCEPT !.pc = "idle"] \/ worker' = [worker EXCEPT !.pc = "recover"]
    BY <1>7 DEF FailJob, Recover, Goto
  <2>4. kb' = kb \/ kb' = [kb EXCEPT !.status = "dirty"]
    BY <1>7 DEF FailJob, Recover, KbInterrupted
  <2> QED
    BY <2>1, <2>2, <2>3, <2>4 DEF TypeOK
<1> QED
  BY <1>1, <1>2, <1>3, <1>4, <1>5, <1>6, <1>7 DEF WorkerTurn

\* Types: the sweep.
LEMMA SweepTyped ==
    ASSUME RowsInv, Sweep
    PROVE  TypeOK'
<1> TypeOK /\ OneJobAtATime
  BY DEF RowsInv
<1>1. CASE StartSweep
  BY <1>1 DEF StartSweep, Goto, TypeOK, rows
<1>2. CASE PurgeFiles
  BY <1>2 DEF PurgeFiles, Goto, TypeOK, rows
<1>3. CASE PurgeRows
  <2>1. jobs' \in Seq(JobRows) /\ Len(jobs') = Len(jobs)
    <3>1. \A j \in DOMAIN jobs : [jobs[j] EXCEPT !.status = "purged"] \in JobRows
      <4>1. ASSUME NEW j \in DOMAIN jobs PROVE [jobs[j] EXCEPT !.status = "purged"] \in JobRows
        <5> DEFINE row == jobs[j]
        <5>1. row \in JobRows
          BY Queues
        <5> HIDE DEF row
        <5>2. [row EXCEPT !.status = "purged"] \in JobRows
          BY <5>1, Marked
        <5> QED
          BY <5>2 DEF row
      <4> QED
        BY <4>1
    <3>2. jobs' = [j \in DOMAIN jobs |-> IF jobs[j].op = "delete_knowledge_base" THEN jobs[j]
                                         ELSE [jobs[j] EXCEPT !.status = "purged"]]
      BY <1>3 DEF PurgeRows
    <3>3. \A j \in DOMAIN jobs : jobs'[j] \in JobRows
      BY <3>1, <3>2, Queues
    <3>4. DOMAIN jobs = 1..Len(jobs) /\ Len(jobs) \in Nat
      BY Queues
    <3> QED
      BY <3>2, <3>3, <3>4
  <2>2. /\ UNCHANGED <<kb, files, engine, upload, config, faults>>
        /\ docs' = [d \in Documents |-> [status |-> "absent", current |-> 0]]
        /\ versions' = [v \in Versions |-> [doc |-> Gone, status |-> "absent", path |-> FALSE]]
        /\ fixes' = [count |-> 0, identity |-> FALSE]
        /\ worker' = [worker EXCEPT !.pc = "directory"]
    BY <1>3 DEF PurgeRows, Goto
  <2>3. docs' \in [Documents -> [status : {"absent", "pending", "active", "deleted"},
                                 current : {0} \cup Versions]]
    BY <2>2
  <2>4. versions' \in [Versions -> [doc : Documents \cup {Gone}, path : BOOLEAN,
                                    status : {"absent", "pending", "active", "superseded",
                                              "deleted"}]]
    BY <2>2
  <2>5. 0 \in 0..MaxFixes
    BY Bounds
  <2>6. fixes' \in [count : 0..MaxFixes, identity : BOOLEAN]
    BY <2>2, <2>5
  <2> QED
    BY <2>1, <2>2, <2>3, <2>4, <2>6 DEF TypeOK
<1>4. CASE RemoveDirectory
  BY <1>4 DEF RemoveDirectory, Goto, TypeOK, rows
<1>5. CASE MarkPurged
  BY <1>5 DEF MarkPurged, Goto, TypeOK, DeletedKb
<1>6. CASE DeferPurge
  <2>1. faults' \in Nat
    BY <1>6, Counts DEF DeferPurge
  <2> QED
    BY <1>6, <2>1 DEF DeferPurge, Goto, TypeOK, rows
<1>7. CASE Unlink
  <2>1. PICK removed \in SUBSET Unlinkable :
              worker' = [worker EXCEPT !.pc = "unlinked", !.removed = removed]
    BY <1>7 DEF Unlink
  <2>2. faults' \in Nat
    BY <1>7, Counts DEF Unlink
  <2>3. files' \subseteq files /\ UNCHANGED <<rows, engine, upload, config>>
    BY <1>7 DEF Unlink
  <2> QED
    BY <2>1, <2>2, <2>3 DEF TypeOK, rows, Unlinkable
<1>8. CASE MarkUnlinked
  <2>1. ASSUME NEW v \in Versions
        PROVE  [versions[v] EXCEPT !.path = FALSE]
                 \in [doc : Documents \cup {Gone}, path : BOOLEAN,
                      status : {"absent", "pending", "active", "superseded", "deleted"}]
    <3>1. /\ versions[v] \in [doc : Documents \cup {Gone}, path : BOOLEAN,
                       status : {"absent", "pending", "active", "superseded", "deleted"}]
          /\ FALSE \in BOOLEAN
      BY DEF TypeOK
    <3> QED
      BY <3>1
  <2> QED
    BY <1>8, <2>1 DEF MarkUnlinked, TypeOK
<1> QED
  BY <1>1, <1>2, <1>3, <1>4, <1>5, <1>6, <1>7, <1>8 DEF Sweep

\* Types: the process dies or starts.
LEMMA ProcessTyped ==
    ASSUME RowsInv, Crash \/ \E c \in Configs : Restart(c)
    PROVE  TypeOK'
<1> TypeOK /\ OneJobAtATime
  BY DEF RowsInv
<1>1. CASE Crash
  <2>1. faults' \in Nat
    BY <1>1, Counts DEF Crash
  <2>2. upload' \in [Versions -> UploadRequests]
    <3> DEFINE pc == IF kb.status = "deleted" THEN "orphaned" ELSE "ended"
    <3>1. \A v \in Versions : [upload[v] EXCEPT !.pc = pc] \in UploadRequests
      BY UploadRow DEF TypeOK
    <3>2. upload' = [v \in Versions |-> IF InFlight(v) THEN [upload[v] EXCEPT !.pc = pc]
                                        ELSE upload[v]]
      BY <1>1 DEF Crash
    <3> HIDE DEF pc
    <3> QED
      BY <3>1, <3>2 DEF TypeOK
  <2> QED
    BY <1>1, <2>1, <2>2 DEF Crash, TypeOK, rows
<1>2. ASSUME NEW c \in Configs, Restart(c)
      PROVE  TypeOK'
  <2>1. jobs' \in Seq(JobRows) /\ Len(jobs') = Len(jobs)
    BY <1>2, Interrupts DEF Restart
  <2>2. kb' = kb \/ kb' = [kb EXCEPT !.status = "dirty"]
    BY <1>2 DEF Restart, KbInterrupted
  <2>3. c \in Configs /\ config' = c /\ worker' = [worker EXCEPT !.pc = "idle"]
    BY <1>2 DEF Restart, Goto
  <2>4. UNCHANGED <<docs, versions, fixes, files, engine, upload, faults>>
    BY <1>2 DEF Restart
  <2>5. kb' \in [status : {"ready", "updating", "dirty"} \cup DeletedKb,
                 revision : Nat, config : Configs]
    BY <2>2 DEF TypeOK
  <2>6. worker' \in [pc : {"down", "idle", "claimed", "writing", "written", "failing", "recover",
                           "sweep", "rows", "directory", "mark", "unlink", "unlinked"},
                     job : 0..Len(jobs'), whole : BOOLEAN, removed : SUBSET Versions]
    BY <2>1, <2>3 DEF TypeOK
  <2> QED
    BY <2>1, <2>3, <2>4, <2>5, <2>6 DEF TypeOK
<1> QED
  BY <1>1, <1>2

\* Types: the requests.
LEMMA RequestTyped ==
    ASSUME RowsInv, Acknowledged, Requests
    PROVE  TypeOK'
<1> TypeOK
  BY DEF RowsInv
<1>1. ASSUME NEW v \in Versions, NEW d \in Documents, StartUpload(v, d) \/ StartDuplicate(v, d)
      PROVE  TypeOK'
  BY <1>1, UploadsMove, MovesTyped
<1>2. CASE \/ \E d \in Documents : DeleteDocument(d)
           \/ Correct \/ DeleteBase \/ Rebuild
           \/ \E j \in DOMAIN jobs : Retry(j)
  <2>1. PICK job \in JobRows :
          /\ Asks(job) /\ upload' = upload
          /\ \/ fixes' = fixes
             \/ /\ fixes.count < MaxFixes
                /\ \E identity \in BOOLEAN :
                     fixes' = [count |-> fixes.count + 1, identity |-> fixes.identity \/ identity]
    BY <1>2, RequestsAsk
  <2>2. fixes' \in [count : 0..MaxFixes, identity : BOOLEAN]
    <3>1. fixes \in [count : 0..MaxFixes, identity : BOOLEAN] /\ MaxFixes \in Nat
      BY Bounds DEF TypeOK
    <3>2. fixes.count < MaxFixes => fixes.count + 1 \in 0..MaxFixes
      BY <3>1
    <3>3. \A identity \in BOOLEAN : (fixes.identity \/ identity) \in BOOLEAN
      OBVIOUS
    <3> QED
      BY <2>1, <3>1, <3>2, <3>3
  <2>3. upload' \in [Versions -> UploadRequests]
    BY <2>1 DEF TypeOK
  <2> QED
    BY <2>1, <2>2, <2>3, AskTyped
<1>3. CASE Rename
  BY <1>3 DEF Rename, TypeOK
<1> QED
  BY <1>1, <1>2, <1>3 DEF Requests

\* Types: the steps of an upload.
LEMMA UploadsTyped ==
    ASSUME RowsInv, Acknowledged, NEW v \in Versions, Uploads(v)
    PROVE  TypeOK'
<1> TypeOK
  BY DEF RowsInv
<1>1. CASE Put(v) \/ RefuseUpload(v)
  BY <1>1, UploadsMove, MovesTyped
<1>2. CASE BeginUpload(v)
  BY <1>2, UploadTyped
<1>3. CASE LoseUpload(v)
  BY <1>3 DEF LoseUpload, Fault, Acknowledged
<1>4. CASE BeginReuse(v)
  <2>1. upload' \in [Versions -> UploadRequests]
    BY <1>4, ReuseAsks, UploadPc
  <2>2. fixes' \in [count : 0..MaxFixes, identity : BOOLEAN]
    BY <1>4, ReuseAsks DEF TypeOK
  <2>3. CASE UNCHANGED <<kb, docs, versions, jobs, files, engine, worker, config, faults>>
    BY <2>1, <2>2, <2>3 DEF TypeOK
  <2>4. CASE \E job \in JobRows : Asks(job)
    BY <2>1, <2>2, <2>4, AskTyped
  <2> QED
    BY <1>4, <2>3, <2>4, ReuseAsks
<1> QED
  BY <1>1, <1>2, <1>3, <1>4 DEF Uploads

\* Every step keeps the types.
LEMMA TypesKept ==
    ASSUME RowsInv, Acknowledged, [Next]_vars
    PROVE  TypeOK'
<1>1. CASE UNCHANGED vars
  BY <1>1 DEF vars, RowsInv, TypeOK
<1>2. CASE Next
  BY <1>2, UploadsTyped, RequestTyped, WorkerTyped, SweepTyped, ProcessTyped DEF Next
<1> QED
  BY <1>1, <1>2

-----------------------------------------------------------------------------
(***************************************************************************)
(* The kinds of step                                                       *)
(***************************************************************************)

\* A job is accepted; nothing else changes but the request for it.
AskedFor(job) ==
    /\ Asks(job)
    /\ \/ /\ upload' = upload
          /\ \/ /\ kb.status = "ready" /\ job.op = "delete_document" /\ fixes' = fixes
                /\ job.doc \in Documents /\ docs[job.doc].status \in {"pending", "active"}
                /\ job.version = docs[job.doc].current
             \/ /\ kb.status = "ready" /\ job.op = "correction"
                /\ job.fix = fixes.count + 1 /\ fixes.count < MaxFixes
                /\ \E identity \in BOOLEAN :
                     fixes' = [count |-> fixes.count + 1,
                               identity |-> fixes.identity \/ identity]
             \/ kb.status = "ready" /\ job.op = "delete_knowledge_base" /\ fixes' = fixes
             \/ job.op = "rebuild" /\ fixes' = fixes
             \/ /\ Open /\ kb.status = "dirty" /\ fixes' = fixes
                /\ job.op = LastJob.op /\ job.doc = LastJob.doc /\ job.fix = LastJob.fix
                /\ job.version = LastJob.version /\ job.previous = LastJob.previous
       \/ /\ kb.status = "ready" /\ fixes' = fixes /\ job.op = "reuse_document"
          /\ \E v \in Versions :
               /\ upload[v].pc = "same" /\ upload[v].at = kb.revision
               /\ upload' = [upload EXCEPT ![v].pc = "ended"]
               /\ job.doc = upload[v].doc /\ job.version = upload[v].twin

\* Every step is of one of these kinds.
LEMMA Steps ==
    ASSUME RowsInv, Acknowledged, [Next]_vars
    PROVE  \/ \E v \in Versions : UploadMoves(v)
           \/ \E v \in Versions : BeginUpload(v)
           \/ \E job \in JobRows : AskedFor(job)
           \/ Rename
           \/ WorkerTurn /\ Toils
           \/ Claim
           \/ FinishJob
           \/ Ends
           \/ Sweeps
           \/ PurgeRows
           \/ MarkPurged
           \/ Crash
           \/ UNCHANGED vars
<1> TypeOK /\ OneJobAtATime
  BY DEF RowsInv
<1>1. ASSUME NEW v \in Versions, Uploads(v)
      PROVE  \/ UploadMoves(v)
             \/ BeginUpload(v)
             \/ \E job \in JobRows : AskedFor(job)
  <2>1. CASE Put(v) \/ RefuseUpload(v)
    BY <2>1, UploadsMove
  <2>2. CASE LoseUpload(v)
    BY <2>2 DEF LoseUpload, Fault, Acknowledged
  <2>3. CASE BeginReuse(v)
    <3>1. CASE UNCHANGED <<kb, docs, versions, jobs, files, engine, worker, config, faults>>
      BY <2>3, <3>1, UploadsMove
    <3>2. ASSUME NEW job \in JobRows, Asks(job), kb.status = "ready", upload[v].at = kb.revision,
                 job.op = "reuse_document", job.doc = upload[v].doc, job.version = upload[v].twin
          PROVE  AskedFor(job)
      BY <2>3, <3>2, ReuseAsks DEF AskedFor
    <3> QED
      BY <2>3, <3>1, <3>2, ReuseAsks
  <2> QED
    BY <1>1, <2>1, <2>2, <2>3 DEF Uploads
<1>2. ASSUME Requests
      PROVE  \/ \E v \in Versions : UploadMoves(v)
             \/ \E job \in JobRows : AskedFor(job)
             \/ Rename
  <2>1. ASSUME NEW v \in Versions, NEW d \in Documents, StartUpload(v, d) \/ StartDuplicate(v, d)
        PROVE  UploadMoves(v)
    BY <2>1, UploadsMove
  <2>2. ASSUME \/ \E d \in Documents : DeleteDocument(d)
               \/ Correct \/ DeleteBase \/ Rebuild
               \/ \E j \in DOMAIN jobs : Retry(j)
        PROVE  \E job \in JobRows : AskedFor(job)
    BY <2>2, RequestsAsk DEF AskedFor
  <2> QED
    BY <1>2, <2>1, <2>2 DEF Requests
<1>3. ASSUME WorkerTurn
      PROVE  (WorkerTurn /\ Toils) \/ Claim \/ FinishJob \/ Ends
  BY <1>3, WorkersToil, JobsEnd DEF WorkerTurn
<1>4. ASSUME Sweep
      PROVE  Sweeps \/ PurgeRows \/ MarkPurged
  BY <1>4, SweepsGo DEF Sweep
<1>5. ASSUME NEW c \in Configs, Restart(c)
      PROVE  Ends
  BY <1>5, JobsEnd
<1> QED
  BY <1>1, <1>2, <1>3, <1>4, <1>5 DEF Next

-----------------------------------------------------------------------------
(***************************************************************************)
(* One job at a time                                                       *)
(***************************************************************************)
LEMMA OneJobKept ==
    ASSUME RowsInv, Acknowledged, [Next]_vars
    PROVE  OneJobAtATime'
<1> TypeOK /\ OneJobAtATime
  BY DEF RowsInv
<1> Len(jobs) \in Nat /\ DOMAIN jobs = 1..Len(jobs) /\ (jobs # <<>> <=> Len(jobs) # 0)
  BY Queues
<1>1. ASSUME NEW job, Admits(job)
      PROVE  OneJobAtATime'
  <2>1. /\ jobs' # <<>> /\ LastJob' = job /\ Len(jobs') = Len(jobs) + 1
        /\ DOMAIN jobs' = 1..(Len(jobs) + 1) /\ job.status = "queued"
        /\ \A j \in DOMAIN jobs : jobs'[j] = jobs[j]
    BY <1>1, Appends DEF Admits, BeginJob
  <2>2. ~ Live /\ kb.status \in {"ready", "dirty"} /\ kb'.status = "updating" /\ worker' = worker
    BY <1>1, AdmissionTyped DEF Admits, OneJobAtATime
  <2>3. /\ \A j \in DOMAIN jobs : jobs[j].status \notin {"queued", "running"}
        /\ worker.pc \notin AtWork \cup {"rows", "directory", "mark"}
    BY <2>2 DEF OneJobAtATime, Live, LastJob, DeletedKb
  <2>4. \A j \in DOMAIN jobs' : j # Len(jobs') => jobs'[j].status \notin {"queued", "running"}
    BY <2>1, <2>3
  <2> QED
    BY <2>1, <2>2, <2>3, <2>4 DEF OneJobAtATime, Live
<1>2. ASSUME jobs' = jobs, kb'.status = kb.status, worker' = worker
      PROVE  OneJobAtATime'
  BY <1>2 DEF OneJobAtATime, Live, LastJob
<1>3. CASE \E v \in Versions : UploadMoves(v)
  BY <1>2, <1>3 DEF UploadMoves
<1>4. ASSUME NEW v \in Versions, BeginUpload(v)
      PROVE  OneJobAtATime'
  <2> DEFINE d == upload[v].doc
             job == jobs'[Len(jobs')]
  <2>1. upload[v].pc = "put" /\ d \in Documents
    BY <1>4 DEF RowsInv, UploadsFit, InFlight, BeginUpload
  <2>2. Admits(job)
    BY <1>4, <2>1, UploadAdmits
  <2> QED
    BY <1>1, <2>2
<1>5. CASE \E job \in JobRows : AskedFor(job)
  BY <1>1, <1>5 DEF AskedFor, Asks
<1>6. CASE Rename
  <2>1. kb'.status = kb.status
    BY <1>6 DEF Rename, TypeOK
  <2> QED
    BY <1>2, <1>6, <2>1 DEF Rename
<1>7. CASE Toils
  BY <1>7 DEF Toils, OneJobAtATime, Live, LastJob, AtWork
<1>8. CASE Claim
  <2>1. DOMAIN jobs' = DOMAIN jobs /\ Live'
    BY <1>8, ClaimsTheLast DEF Live
  <2> QED
    BY <1>8, <2>1, ClaimsTheLast DEF OneJobAtATime, AtWork
<1>9. CASE FinishJob
  <2>1. /\ DOMAIN jobs' = DOMAIN jobs /\ worker'.pc \in {"sweep", "idle"}
        /\ kb'.status \in {"ready", "deleting"}
    BY <1>9, FinishesJob DEF TypeOK, Publishes
  <2> QED
    BY <1>9, <2>1, FinishesJob DEF OneJobAtATime, AtWork
<1>10. CASE Ends
  <2>1. DOMAIN jobs' = DOMAIN jobs /\ worker'.pc = "idle"
    BY <1>10 DEF Ends, TypeOK
  <2>2. CASE jobs' = jobs
    <3>1. Live' <=> Live
      BY <2>2 DEF Live, LastJob
    <3>2. LastJob' = LastJob
      BY <2>2 DEF LastJob
    <3>3. /\ \A j \in DOMAIN jobs' : j # Len(jobs') => jobs'[j].status \notin {"queued", "running"}
          /\ kb'.status = "updating" <=> Live'
          /\ kb'.status = "ready" /\ jobs' # <<>> => LastJob'.status = "succeeded"
          /\ Live' => LastJob'.status # "running"
      BY <1>10, <2>1, <2>2, <3>1, <3>2 DEF Ends, OneJobAtATime, Live
    <3> QED
      BY <2>1, <3>3 DEF OneJobAtATime, AtWork
  <2>3. CASE jobs' # jobs
    <3>1. /\ kb'.status = "dirty" /\ ~ Live'
          /\ \A j \in DOMAIN jobs' : j # Len(jobs') => jobs'[j].status \notin {"queued", "running"}
      BY <1>10, <2>1, <2>3 DEF Ends, OneJobAtATime
    <3> QED
      BY <2>1, <3>1 DEF OneJobAtATime, AtWork
  <2> QED
    BY <2>2, <2>3
<1>11. CASE Sweeps
  BY <1>11 DEF Sweeps, OneJobAtATime, Live, LastJob
<1>12. CASE PurgeRows
  <2>1. /\ worker.pc = "rows" /\ worker'.pc = "directory" /\ kb' = kb /\ kb.status = "deleting"
        /\ DOMAIN jobs' = DOMAIN jobs /\ Len(jobs') = Len(jobs)
    BY <1>12 DEF PurgeRows, Goto, TypeOK, OneJobAtATime
  <2>2. ~ Live
    BY <2>1 DEF OneJobAtATime
  <2>3. \A j \in DOMAIN jobs : jobs'[j].status \notin {"queued", "running"}
    <3>1. ASSUME NEW j \in DOMAIN jobs
          PROVE  jobs'[j].status \notin {"queued", "running"}
      <4> DEFINE row == jobs[j]
      <4>1. row \in JobRows /\ row.status \notin {"queued", "running"}
        BY <2>2, Queues DEF Live, OneJobAtATime, LastJob
      <4>2. jobs'[j] = row \/ jobs'[j] = [row EXCEPT !.status = "purged"]
        BY <1>12 DEF PurgeRows
      <4> HIDE DEF row
      <4>3. [row EXCEPT !.status = "purged"].status = "purged"
        BY <4>1, Marked
      <4> QED
        BY <4>1, <4>2, <4>3
    <3> QED
      BY <3>1
  <2>4. jobs' # <<>> => Len(jobs') \in DOMAIN jobs
    BY <2>1
  <2>5. ~ Live'
    BY <2>1, <2>3, <2>4 DEF Live, LastJob
  <2> QED
    BY <2>1, <2>3, <2>5 DEF OneJobAtATime, AtWork
<1>13. CASE MarkPurged
  <2>1. /\ worker.pc = "mark" /\ worker'.pc = "unlink" /\ kb.status = "deleting"
        /\ kb'.status = "deleted" /\ jobs' = jobs
    BY <1>13 DEF MarkPurged, Goto, TypeOK, OneJobAtATime
  <2>2. ~ Live /\ ~ Live'
    BY <2>1 DEF OneJobAtATime, Live, LastJob
  <2> QED
    BY <2>1, <2>2 DEF OneJobAtATime, AtWork
<1>14. CASE Crash
  <2>1. worker'.pc = "down" /\ jobs' = jobs /\ kb' = kb
    BY <1>14 DEF Crash, rows
  <2> QED
    BY <2>1 DEF OneJobAtATime, Live, LastJob, AtWork
<1>15. CASE UNCHANGED vars
  BY <1>2, <1>15 DEF vars
<1> QED
  BY <1>3, <1>4, <1>5, <1>6, <1>7, <1>8, <1>9, <1>10, <1>11, <1>12, <1>13, <1>14, <1>15, Steps

-----------------------------------------------------------------------------
(***************************************************************************)
(* Rows refer to each other                                                *)
(***************************************************************************)

\* Rows that keep their status and their document refer to each other still.
LEMMA ReferStill ==
    ASSUME RowsRefer, docs' = docs,
           \A v \in Versions : /\ versions'[v].status = versions[v].status
                               /\ versions'[v].doc = versions[v].doc
                               /\ versions'[v].path => versions[v].path
                               /\ upload[v].pc = "ended" => upload'[v].pc = "ended"
    PROVE  RowsRefer'
<1>1. ASSUME NEW d \in Documents PROVE Of(d)' = Of(d)
  BY DEF Of
<1>2. ASSUME NEW v \in Versions PROVE Stored(v)' <=> Stored(v)
  BY DEF Stored
<1> QED
  BY <1>1, <1>2 DEF RowsRefer

\* What accepting an upload makes of the rows, one by one.
LEMMA UploadWrites ==
    ASSUME RowsInv, NEW v \in Versions, BeginUpload(v), NEW d, d = upload[v].doc,
           NEW job, job = jobs'[Len(jobs')]
    PROVE  /\ d \in Documents /\ ~ Stored(v) /\ upload[v].pc = "put"
           /\ kb.status = "ready" /\ upload[v].at = kb.revision
           /\ kb'.status = "updating" /\ kb'.revision = kb.revision
           /\ Admits(job) /\ LastJob' = job /\ job \in JobRows
           /\ job.doc = d /\ job.version = v /\ job.previous = docs[d].current
           /\ job.op = (IF docs[d].status = "absent" THEN "ingest_document" ELSE "replace_document")
           /\ docs[d].status \in {"absent", "active"}
           /\ docs'[d].status = (IF docs[d].status = "absent" THEN "pending" ELSE "active")
           /\ docs'[d].current = docs[d].current
           /\ docs[d].status = "absent" => docs[d].current = 0
           /\ docs[d].current # v
           /\ \A c \in Documents : c # d => docs'[c] = docs[c]
           /\ versions'[v] = [doc |-> d, status |-> "pending", path |-> TRUE]
           /\ \A w \in Versions : w # v => versions'[w] = versions[w]
           /\ upload'[v].pc = "ended" /\ \A w \in Versions : w # v => upload'[w] = upload[w]
           /\ \A w \in Versions : Stored(w) => w < v
           /\ UNCHANGED <<fixes, files, worker, engine, config, faults>>
           /\ SettledBut(0)
<1>1. TypeOK /\ upload[v].pc = "put" /\ d \in Documents
  BY DEF RowsInv, UploadsFit, InFlight, BeginUpload
<1>2. /\ Admits(job) /\ kb.status = "ready" /\ upload[v].at = kb.revision
      /\ job.doc = d /\ job.version = v /\ job.previous = docs[d].current
      /\ job.op = (IF docs[d].status = "absent" THEN "ingest_document" ELSE "replace_document")
      /\ docs[d].status \in {"absent", "pending", "active"}
      /\ docs' = IF docs[d].status = "absent"
                 THEN [docs EXCEPT ![d] = [status |-> "pending", current |-> 0]] ELSE docs
      /\ versions' = [versions EXCEPT ![v] = [doc |-> d, status |-> "pending", path |-> TRUE]]
      /\ upload' = [upload EXCEPT ![v].pc = "ended"]
      /\ UNCHANGED <<fixes, files, faults>>
  BY <1>1, UploadAdmits
<1>3. /\ kb'.status = "updating" /\ kb'.revision = kb.revision
      /\ UNCHANGED <<worker, engine, config>> /\ LastJob' = job /\ job \in JobRows
  BY <1>1, <1>2, AdmissionTyped, Appends DEF Admits, BeginJob
<1>4. /\ SettledBut(0) /\ ~ Stored(v)
      /\ docs[d].status = "absent" => docs[d].current = 0
      /\ docs[d].current # 0 => docs[d].current \in Of(d)
      /\ \A w \in Versions : Stored(w) => w < v
  BY <1>1, <1>2 DEF RowsInv, JobsFit, RowsRefer, UploadsFit
<1>5. docs[d].status \in {"absent", "active"}
  BY <1>1, <1>2, <1>4 DEF SettledBut
<1>6. docs[d].current # v
  <2>1. v # 0
    BY Bounds DEF Versions
  <2>2. v \notin Of(d)
    BY <1>4 DEF Of, Stored
  <2> QED
    BY <1>4, <2>1, <2>2
<1>7. /\ docs'[d].status = (IF docs[d].status = "absent" THEN "pending" ELSE "active")
      /\ docs'[d].current = docs[d].current
      /\ \A c \in Documents : c # d => docs'[c] = docs[c]
  <2>1. CASE docs[d].status = "absent"
    BY <1>1, <1>2, <1>4, <2>1 DEF TypeOK
  <2>2. CASE docs[d].status # "absent"
    BY <1>2, <1>5, <2>2
  <2> QED
    BY <2>1, <2>2
<1>8. /\ versions'[v] = [doc |-> d, status |-> "pending", path |-> TRUE]
      /\ \A w \in Versions : w # v => versions'[w] = versions[w]
  BY <1>1, <1>2 DEF TypeOK
<1>9. upload'[v].pc = "ended" /\ \A w \in Versions : w # v => upload'[w] = upload[w]
  BY <1>1, <1>2, UploadPc
<1> HIDE DEF SettledBut
<1> QED
  BY <1>1, <1>2, <1>3, <1>4, <1>5, <1>6, <1>7, <1>8, <1>9

\* Every step keeps the references between rows.
LEMMA ReferKept ==
    ASSUME RowsInv, Acknowledged, [Next]_vars
    PROVE  RowsRefer'
<1> TypeOK /\ OneJobAtATime /\ RowsRefer
  BY DEF RowsInv
<1>1. ASSUME docs' = docs, versions' = versions, upload' = upload
      PROVE  RowsRefer'
  BY <1>1, ReferStill
<1>2. ASSUME NEW v \in Versions, UploadMoves(v)
      PROVE  RowsRefer'
  <2>1. \A w \in Versions : upload[w].pc = "ended" => upload'[w] = upload[w]
    BY <1>2 DEF UploadMoves, TypeOK
  <2> QED
    BY <1>2, <2>1, ReferStill DEF UploadMoves
<1>3. ASSUME NEW v \in Versions, BeginUpload(v)
      PROVE  RowsRefer'
  <2> DEFINE d == upload[v].doc
             job == jobs'[Len(jobs')]
  <2>1. /\ d \in Documents /\ ~ Stored(v) /\ docs[d].status \in {"absent", "active"}
        /\ docs'[d].status = (IF docs[d].status = "absent" THEN "pending" ELSE "active")
        /\ docs'[d].current = docs[d].current
        /\ docs[d].status = "absent" => docs[d].current = 0
        /\ docs[d].current # v
        /\ \A c \in Documents : c # d => docs'[c] = docs[c]
        /\ versions'[v] = [doc |-> d, status |-> "pending", path |-> TRUE]
        /\ \A w \in Versions : w # v => versions'[w] = versions[w]
        /\ upload'[v].pc = "ended" /\ \A w \in Versions : w # v => upload'[w] = upload[w]
        /\ \A w \in Versions : Stored(w) => w < v
    BY <1>3, UploadWrites
  <2> HIDE DEF d, job
  <2>2. \A w \in Versions : w \in Nat /\ w # 0
    BY Bounds DEF Versions
  <2>3. /\ Stored(v)' /\ versions'[v].doc = d /\ versions'[v].status = "pending"
        /\ \A w \in Versions : w # v => (Stored(w)' <=> Stored(w))
    BY <2>1 DEF Stored
  <2>4. \A c \in Documents : Of(c)' = IF c = d THEN Of(c) \cup {v} ELSE Of(c)
    BY <2>1, <2>3 DEF Of, Stored
  <2>5. ASSUME NEW w \in Versions, Stored(w)'
        PROVE  /\ versions'[w].doc \in Documents /\ docs'[versions'[w].doc].status # "absent"
               /\ upload'[w].pc = "ended"
    BY <2>1, <2>3, <2>5 DEF RowsRefer
  <2>6. \A w \in Versions : versions'[w].path => Stored(w)'
    BY <2>1, <2>3 DEF RowsRefer
  <2>7. \A c \in Documents : /\ docs'[c].status = "absent" => docs'[c].current = 0
                             /\ docs'[c].current # 0 => docs'[c].current \in Of(c)'
                             /\ docs'[c].status = "pending" => Of(c)' # {}
                             /\ docs'[c].status = "active" => docs'[c].current # 0
    BY <2>1, <2>4 DEF RowsRefer
  <2>8. ASSUME NEW w \in Versions, versions'[w].status = "pending"
        PROVE  docs'[versions'[w].doc].current < w
    <3>1. CASE w = v
      <4>1. docs[d].current = 0 \/ docs[d].current < v
        BY <2>1 DEF RowsRefer, Of, Stored
      <4> QED
        BY <2>1, <2>2, <2>3, <3>1, <4>1
    <3>2. CASE w # v
      <4>1. versions[w].status = "pending" /\ versions'[w] = versions[w] /\ Stored(w)
        BY <2>1, <2>8, <3>2 DEF Stored
      <4>2. versions[w].doc \in Documents /\ docs[versions[w].doc].current < w
        BY <4>1 DEF RowsRefer
      <4> QED
        BY <2>1, <4>1, <4>2
    <3> QED
      BY <3>1, <3>2
  <2> QED
    BY <2>5, <2>6, <2>7, <2>8 DEF RowsRefer
<1>4. ASSUME NEW job \in JobRows, AskedFor(job)
      PROVE  RowsRefer'
  <2>1. docs' = docs /\ versions' = versions
    BY <1>4 DEF AskedFor, Asks
  <2>2. \A w \in Versions : upload[w].pc = "ended" => upload'[w].pc = "ended"
    BY <1>4 DEF AskedFor, TypeOK
  <2> QED
    BY <2>1, <2>2, ReferStill
<1>5. CASE Rename \/ Claim \/ Ends \/ MarkPurged \/ Toils \/ UNCHANGED vars
  BY <1>1, <1>5 DEF Rename, Claim, Ends, MarkPurged, Toils, vars
<1>6. CASE FinishJob
  <2> DEFINE job == LastJob
  <2>1. Publishes(job) /\ upload' = upload
    BY <1>6, FinishesJob
  <2> HIDE DEF job
  <2>2. \A d \in Documents : Of(d)' = Of(d)
    BY <2>1 DEF Publishes, Of, Stored
  <2>3. \A v \in Versions : Stored(v)' => /\ versions'[v].doc \in Documents
                                          /\ docs'[versions'[v].doc].status # "absent"
                                          /\ upload'[v].pc = "ended"
    BY <2>1 DEF Publishes, RowsRefer
  <2>4. \A v \in Versions : versions'[v].path => Stored(v)'
    BY <2>1 DEF Publishes, RowsRefer
  <2>5. ASSUME NEW d \in Documents
        PROVE  /\ docs'[d].status = "absent" => docs'[d].current = 0
               /\ docs'[d].current # 0 => docs'[d].current \in Of(d)'
               /\ docs'[d].status = "pending" => Of(d)' # {}
               /\ docs'[d].status = "active" => docs'[d].current # 0
    <3>1. /\ docs'[d].status = "absent" <=> docs[d].status = "absent"
          /\ docs'[d].status = "pending" => docs[d].status = "pending"
          /\ docs'[d].current \in {docs[d].current} \cup Of(d)
          /\ Of(d)' = Of(d)
      BY <2>1, <2>2 DEF Publishes
    <3>2. /\ docs[d].current # 0 => docs[d].current \in Of(d)
          /\ docs[d].status = "absent" => docs[d].current = 0
          /\ docs[d].status = "pending" => Of(d) # {}
      BY DEF RowsRefer
    <3>3. docs[d].status = "absent" => Of(d) = {}
      BY DEF RowsRefer, Of, Stored
    <3>4. docs'[d].status = "active" => docs'[d].current # 0
      BY <2>1 DEF Publishes, SettledBut
    <3> QED
      BY <3>1, <3>2, <3>3, <3>4
  <2>6. \A v \in Versions : versions'[v].status = "pending" =>
          docs'[versions'[v].doc].current < v
    BY <2>1 DEF Publishes, RowsRefer
  <2> QED
    BY <2>3, <2>4, <2>5, <2>6 DEF RowsRefer
<1>7. CASE Sweeps
  BY <1>7, ReferStill DEF Sweeps
<1>8. CASE PurgeRows
  <2>1. /\ \A d \in Documents : docs'[d].status = "absent" /\ docs'[d].current = 0
        /\ \A v \in Versions : versions'[v].status = "absent" /\ versions'[v].path = FALSE
    BY <1>8 DEF PurgeRows
  <2> QED
    BY <2>1 DEF RowsRefer, Stored
<1>9. CASE Crash
  <2>1. \A v \in Versions : upload[v].pc = "ended" => upload'[v].pc = "ended"
    BY <1>9 DEF Crash, InFlight
  <2> QED
    BY <1>9, <2>1, ReferStill DEF Crash, rows
<1> QED
  BY <1>2, <1>3, <1>4, <1>5, <1>6, <1>7, <1>8, <1>9, Steps

-----------------------------------------------------------------------------
(***************************************************************************)
(* The rows that jobs were accepted for                                    *)
(***************************************************************************)

\* A job fits the rows as long as they keep their status and document.
LEMMA SettledStill ==
    ASSUME NEW w \in {0} \cup Versions, SettledBut(w), docs' = docs,
           \A v \in Versions : /\ versions'[v].status = versions[v].status
                               /\ versions'[v].doc = versions[v].doc,
           \A d \in Documents : docs[d].current \in {0} \cup Versions
    PROVE  SettledBut(w)'
<1>1. w' = w
  OBVIOUS
<1>2. \A v \in Versions : versions'[v].status = "pending" => v = w
  BY DEF SettledBut
<1>3. \A d \in Documents : docs'[d].status = "pending" => w # 0 /\ d = versions'[w].doc
  BY DEF SettledBut
<1>4. \A d \in Documents : docs'[d].status = "active" =>
         docs'[d].current # 0 /\ versions'[docs'[d].current].status = "active"
  BY DEF SettledBut
<1> QED
  BY <1>2, <1>3, <1>4 DEF SettledBut

\* A job still fits the rows that did not change.
LEMMA FitsStill ==
    ASSUME NEW job \in JobRows, NEW new, JobFits(job), docs' = docs, fixes' = fixes,
           \A d \in Documents : docs[d].current \in {0} \cup Versions,
           \A v \in Versions : /\ versions'[v].status = versions[v].status
                               /\ versions'[v].doc = versions[v].doc,
           new.op = job.op, new.doc = job.doc, new.version = job.version,
           new.previous = job.previous, new.fix = job.fix
    PROVE  JobFits(new)'
<1>1. \A d \in Documents : Of(d)' = Of(d)
  BY DEF Of
<1>2. job.version \in {0} \cup Versions
  BY DEF JobRows
<1> DEFINE w == IF job.op \in Brings THEN job.version ELSE 0
<1>3. w \in {0} \cup Versions
  BY <1>2
<1> HIDE DEF w
<1>4. SettledBut(w) => SettledBut(w)'
  BY <1>3, SettledStill
<1>5. (IF new.op \in Brings THEN new.version ELSE 0) = w
  BY DEF w
<1>6. job.op # "rebuild" => SettledBut(w)
  BY DEF JobFits, w
<1>7. new.op # "rebuild" => SettledBut(IF new.op \in Brings THEN new.version ELSE 0)'
  BY <1>4, <1>5, <1>6
<1>8. job.op \in Brings => job.version \in Versions
  BY DEF JobFits, Of
<1>9. new.op \in Brings =>
        /\ new.version \in Of(new.doc)' /\ new.doc \in Documents
        /\ versions'[new.version].status = "pending"
        /\ docs'[new.doc].status \in {"pending", "active"}
        /\ new.previous = docs'[new.doc].current
  BY <1>1, <1>8 DEF JobFits
<1>10. /\ new.op = "ingest_document" => docs'[new.doc].current = 0
       /\ new.op = "reuse_document" => /\ new.doc \in Documents
                                       /\ docs'[new.doc].status = "active"
                                       /\ new.version = docs'[new.doc].current
       /\ new.op = "delete_document" => /\ new.doc \in Documents
                                        /\ docs'[new.doc].status = "active"
                                        /\ new.version = docs'[new.doc].current
       /\ new.op = "correction" => new.fix \in 1..fixes'.count
  BY DEF JobFits
<1> QED
  BY <1>7, <1>9, <1>10 DEF JobFits

\* Every step keeps the jobs fitting the rows.
LEMMA FitKept ==
    ASSUME RowsInv, Acknowledged, [Next]_vars
    PROVE  JobsFit'
<1> TypeOK /\ OneJobAtATime /\ RowsRefer /\ JobsFit
  BY DEF RowsInv
<1> (jobs # <<>> => LastJob \in JobRows) /\ 0 \in {0} \cup Versions
  BY Queues
<1> \A d \in Documents : docs[d].current \in {0} \cup Versions
  BY DEF TypeOK
<1>1. ASSUME docs' = docs, fixes' = fixes, jobs' = jobs, kb'.status = kb.status,
             \A v \in Versions : /\ versions'[v].status = versions[v].status
                                 /\ versions'[v].doc = versions[v].doc
      PROVE  JobsFit'
  <2>1. LastJob' = LastJob /\ (Live' <=> Live) /\ (Open' <=> Open)
    BY <1>1 DEF LastJob, Live, Open
  <2>2. kb'.status = "ready" => SettledBut(0)'
    BY <1>1, SettledStill DEF JobsFit
  <2>3. ASSUME Open PROVE JobFits(LastJob)'
    <3>1. JobFits(LastJob) /\ jobs # <<>>
      BY <2>3 DEF JobsFit, Open, Live
    <3>2. /\ LastJob \in JobRows /\ LastJob'.op = LastJob.op /\ LastJob'.doc = LastJob.doc
          /\ LastJob'.version = LastJob.version /\ LastJob'.previous = LastJob.previous
          /\ LastJob'.fix = LastJob.fix
      BY <2>1, <3>1
    <3> QED
      BY <1>1, <3>1, <3>2, FitsStill
  <2> QED
    BY <2>1, <2>2, <2>3 DEF JobsFit
<1>2. CASE \E v \in Versions : UploadMoves(v)
  BY <1>1, <1>2 DEF UploadMoves
<1>3. ASSUME NEW v \in Versions, BeginUpload(v)
      PROVE  JobsFit'
  <2>0. PICK d, job : d = upload[v].doc /\ job = jobs'[Len(jobs')]
    OBVIOUS
  <2> DEFINE w == IF job.op \in Brings THEN job.version ELSE 0
  <2>1. /\ d \in Documents /\ ~ Stored(v) /\ docs[d].status \in {"absent", "active"}
        /\ kb'.status = "updating" /\ LastJob' = job /\ job \in JobRows
        /\ job.doc = d /\ job.version = v /\ job.previous = docs[d].current
        /\ job.op = (IF docs[d].status = "absent" THEN "ingest_document" ELSE "replace_document")
        /\ docs'[d].status = (IF docs[d].status = "absent" THEN "pending" ELSE "active")
        /\ docs'[d].current = docs[d].current
        /\ docs[d].status = "absent" => docs[d].current = 0
        /\ \A c \in Documents : c # d => docs'[c] = docs[c]
        /\ versions'[v] = [doc |-> d, status |-> "pending", path |-> TRUE]
        /\ \A u \in Versions : u # v => versions'[u] = versions[u]
        /\ SettledBut(0)
    BY <1>3, <2>0, UploadWrites
  <2>2. job.op \in Brings /\ w = v
    BY <2>1 DEF Brings
  <2> HIDE DEF w
  <2>3. /\ versions'[v].doc = d /\ versions'[v].status = "pending" /\ v # 0
        /\ \A u \in Versions : u # 0
    BY <2>1, Bounds DEF Versions
  <2>4. v \in Of(d)'
    <3>1. versions'[v].doc = d /\ versions'[v].status # "absent"
      BY <2>3
    <3> QED
      BY <3>1 DEF Of
  <2>5. SettledBut(v)'
    <3>1. \A u \in Versions : versions'[u].status = "pending" => u = v
      BY <2>1, <2>3 DEF SettledBut
    <3>2. \A c \in Documents : docs'[c].status = "pending" => c = versions'[v].doc
      BY <2>1, <2>3 DEF SettledBut
    <3>3. ASSUME NEW c \in Documents, docs'[c].status = "active"
          PROVE  docs'[c].current # 0 /\ versions'[docs'[c].current].status = "active"
      <4> DEFINE k == docs[c].current
      <4>1. docs[c].status = "active" /\ docs'[c].current = k
        BY <2>1, <3>3
      <4>2. k # 0 /\ k \in Of(c) /\ versions[k].status = "active"
        BY <2>1, <4>1 DEF SettledBut, RowsRefer
      <4>3. k \in Versions /\ k # v
        BY <2>1, <4>2 DEF Of, Stored
      <4> HIDE DEF k
      <4> QED
        BY <2>1, <4>1, <4>2, <4>3
    <3> QED
      BY <2>3, <3>1, <3>2, <3>3 DEF SettledBut
  <2>6. JobFits(job)'
    <3>1. job.op # "rebuild" /\ job.op \notin {"reuse_document", "delete_document", "correction"}
      BY <2>1
    <3> QED
      BY <2>1, <2>2, <2>3, <2>4, <2>5, <3>1 DEF JobFits, w
  <2>7. JobFits(LastJob)'
    BY <2>1, <2>6
  <2> QED
    BY <2>1, <2>7 DEF JobsFit
<1>4. ASSUME NEW job \in JobRows, AskedFor(job)
      PROVE  JobsFit'
  <2>1. /\ kb'.status = "updating" /\ LastJob' = job /\ docs' = docs /\ versions' = versions
    BY <1>4, AdmissionTyped, Appends DEF AskedFor, Asks, Admits, BeginJob
  <2>2. \A d \in Documents : Of(d)' = Of(d)
    BY <2>1 DEF Of
  <2>3. SettledBut(0) => SettledBut(0)'
    BY <2>1, SettledStill
  <2>4. kb.status = "ready" => SettledBut(0)'
    BY <2>3 DEF JobsFit
  <2>5. CASE /\ kb.status = "ready" /\ job.op = "delete_document"
             /\ job.doc \in Documents /\ docs[job.doc].status \in {"pending", "active"}
             /\ job.version = docs[job.doc].current
    <3>1. docs[job.doc].status = "active"
      BY <2>5 DEF JobsFit, SettledBut
    <3> QED
      BY <2>1, <2>4, <2>5, <3>1 DEF JobsFit, JobFits, Brings
  <2>6. CASE /\ kb.status = "ready" /\ job.op = "correction"
             /\ job.fix = fixes.count + 1 /\ fixes.count < MaxFixes
             /\ \E identity \in BOOLEAN :
                  fixes' = [count |-> fixes.count + 1, identity |-> fixes.identity \/ identity]
    <3>1. fixes'.count = fixes.count + 1 /\ fixes.count \in Nat
      BY <2>6, Bounds DEF TypeOK
    <3>2. job.fix \in 1..fixes'.count
      BY <2>6, <3>1
    <3> QED
      BY <2>1, <2>4, <2>6, <3>2 DEF JobsFit, JobFits, Brings
  <2>7. CASE kb.status = "ready" /\ job.op = "delete_knowledge_base"
    BY <2>1, <2>4, <2>7 DEF JobsFit, JobFits, Brings
  <2>8. CASE job.op = "rebuild"
    BY <2>1, <2>8 DEF JobsFit, JobFits, Brings
  <2>9. CASE /\ Open /\ kb.status = "dirty" /\ fixes' = fixes
             /\ job.op = LastJob.op /\ job.doc = LastJob.doc /\ job.fix = LastJob.fix
             /\ job.version = LastJob.version /\ job.previous = LastJob.previous
    <3>1. JobFits(LastJob) /\ LastJob \in JobRows
      BY <2>9 DEF JobsFit, Open, Live
    <3>2. JobFits(job)'
      BY <2>1, <2>9, <3>1, FitsStill
    <3>3. JobFits(LastJob)'
      BY <2>1, <3>2
    <3> QED
      BY <2>1, <3>3 DEF JobsFit
  <2>10. CASE /\ kb.status = "ready" /\ job.op = "reuse_document"
              /\ \E v \in Versions :
                   /\ upload[v].pc = "same" /\ upload[v].at = kb.revision
                   /\ job.doc = upload[v].doc /\ job.version = upload[v].twin
    <3>1. PICK v \in Versions : /\ upload[v].pc = "same" /\ upload[v].at = kb.revision
                                /\ job.doc = upload[v].doc /\ job.version = upload[v].twin
      BY <2>10
    <3>2. /\ job.doc \in Documents /\ docs[job.doc].status = "active"
          /\ job.version = docs[job.doc].current
      BY <2>10, <3>1 DEF RowsInv, UploadsFit, InFlight, DeletedKb
    <3> QED
      BY <2>1, <2>4, <2>10, <3>2 DEF JobsFit, JobFits, Brings
  <2> QED
    BY <1>4, <2>5, <2>6, <2>7, <2>8, <2>9, <2>10 DEF AskedFor
<1>5. CASE Rename
  <2>1. kb'.status = kb.status
    BY <1>5 DEF Rename, TypeOK
  <2> QED
    BY <1>1, <1>5, <2>1 DEF Rename
<1>6. CASE Toils
  BY <1>1, <1>6 DEF Toils
<1>7. ASSUME docs' = docs, versions' = versions, fixes' = fixes, Live,
             LastJob'.op = LastJob.op, LastJob'.doc = LastJob.doc,
             LastJob'.version = LastJob.version, LastJob'.previous = LastJob.previous,
             LastJob'.fix = LastJob.fix, kb'.status # "ready"
      PROVE  JobsFit'
  <2>1. JobFits(LastJob) /\ LastJob \in JobRows
    BY <1>7 DEF JobsFit, Open, Live
  <2>2. JobFits(LastJob)'
    BY <1>7, <2>1, FitsStill
  <2> QED
    BY <1>7, <2>2 DEF JobsFit
<1>8. CASE Claim
  <2>1. /\ LastJob \in JobRows /\ LastJob' = [LastJob EXCEPT !.status = "running"]
        /\ Live /\ kb' = kb /\ kb.status = "updating"
    BY <1>8, ClaimsTheLast DEF OneJobAtATime
  <2>2. /\ LastJob'.op = LastJob.op /\ LastJob'.doc = LastJob.doc
        /\ LastJob'.version = LastJob.version /\ LastJob'.previous = LastJob.previous
        /\ LastJob'.fix = LastJob.fix
    BY <2>1 DEF JobRows
  <2> QED
    BY <1>7, <1>8, <2>1, <2>2, ClaimsTheLast
<1>9. CASE FinishJob
  <2> DEFINE job == LastJob
  <2>1. Publishes(job) /\ ~ Live'
    BY <1>9, FinishesJob
  <2> HIDE DEF job
  <2>2. kb'.status = "ready" => SettledBut(0)'
    BY <2>1 DEF Publishes
  <2>3. ~ Open'
    BY <2>1 DEF Publishes, Open
  <2> QED
    BY <2>2, <2>3 DEF JobsFit
<1>10. CASE Ends
  <2>1. CASE jobs # <<>> /\ LastJob.status = "running"
    <3>1. /\ LastJob \in JobRows /\ LastJob' = [LastJob EXCEPT !.status = "failed"]
          /\ kb'.status = "dirty" /\ Live
          /\ docs' = docs /\ versions' = versions /\ fixes' = fixes
      BY <1>10, <2>1 DEF Ends, Live
    <3>2. /\ LastJob'.op = LastJob.op /\ LastJob'.doc = LastJob.doc
          /\ LastJob'.version = LastJob.version /\ LastJob'.previous = LastJob.previous
          /\ LastJob'.fix = LastJob.fix
      BY <3>1 DEF JobRows
    <3> QED
      BY <1>7, <3>1, <3>2
  <2>2. CASE jobs' = jobs /\ kb'.status = kb.status
    BY <1>1, <1>10, <2>2 DEF Ends
  <2>3. CASE jobs' = jobs /\ kb.status = "ready" /\ kb'.status = "dirty"
    <3>1. ~ Open'
      BY <2>3 DEF Open, Live, LastJob, OneJobAtATime
    <3> QED
      BY <2>3, <3>1 DEF JobsFit
  <2> QED
    BY <1>10, <2>1, <2>2, <2>3 DEF Ends
<1>11. CASE Sweeps
  BY <1>1, <1>11 DEF Sweeps
<1>12. CASE PurgeRows \/ MarkPurged
  <2>1. kb'.status \in {"deleting", "deleted"}
    BY <1>12 DEF PurgeRows, MarkPurged, OneJobAtATime, TypeOK
  <2>2. ~ Live'
    BY <2>1, OneJobKept DEF OneJobAtATime
  <2> QED
    BY <2>1, <2>2 DEF JobsFit, Open
<1>13. CASE Crash \/ UNCHANGED vars
  BY <1>1, <1>13 DEF Crash, rows, vars
<1> QED
  BY <1>2, <1>3, <1>4, <1>5, <1>6, <1>8, <1>9, <1>10, <1>11, <1>12, <1>13, Steps

-----------------------------------------------------------------------------
(***************************************************************************)
(* Requests under way, the purge, and the files                            *)
(***************************************************************************)

\* Requests, purge and files stay in order.
Orderly == UploadsFit /\ PurgeInOrder /\ FilesMatchRows

\* Uploads, purge and files stay in order as a request moves.
LEMMA MovesOrderly ==
    ASSUME RowsInv, NEW v \in Versions, UploadMoves(v)
    PROVE  Orderly'
<1> TypeOK /\ OneJobAtATime /\ RowsRefer /\ UploadsFit /\ PurgeInOrder /\ FilesMatchRows
  BY DEF RowsInv
<1>1. /\ \A w \in Versions : w # v => upload'[w] = upload[w]
      /\ upload[v].pc \in {"idle", "checked", "put", "same"} /\ ~ Stored(v)
      /\ UNCHANGED <<kb, docs, versions, fixes, jobs, engine, worker, config>>
      /\ files' \subseteq files \cup {v}
      /\ \A w \in files : w # v => w \in files'
      /\ kb.revision \in Nat /\ \A w \in Versions : w \in Nat
  BY Bounds DEF UploadMoves, TypeOK, RowsRefer, Versions
<1>2. \/ /\ upload[v].pc = "idle" /\ upload'[v].pc \in {"checked", "same"} /\ files' = files
         /\ \A w \in Versions : w < v => upload[w].pc # "idle"
         /\ upload'[v].doc \in Documents /\ upload'[v].at = kb.revision
         /\ upload'[v].pc = "same" => /\ docs[upload'[v].doc].status = "active"
                                      /\ upload'[v].twin = docs[upload'[v].doc].current
      \/ /\ upload[v].pc = "checked" /\ upload'[v].pc = "put" /\ v \in files'
         /\ upload'[v].doc = upload[v].doc /\ upload'[v].at = upload[v].at
      \/ upload[v].pc = "put" /\ upload'[v].pc = "ended" /\ v \notin files'
      \/ upload[v].pc = "same" /\ upload'[v].pc = "ended" /\ files' = files
  <2>1. \A pc \in {"put", "ended"} : upload' = [upload EXCEPT ![v].pc = pc] =>
          upload'[v].pc = pc /\ upload'[v].doc = upload[v].doc /\ upload'[v].at = upload[v].at
    BY UploadPc
  <2>2. \A pc, d, twin :
          upload' = [upload EXCEPT ![v] = [pc |-> pc, doc |-> d, at |-> kb.revision, twin |-> twin]]
            => /\ upload'[v].pc = pc /\ upload'[v].doc = d /\ upload'[v].at = kb.revision
               /\ upload'[v].twin = twin
    BY DEF TypeOK
  <2>3. CASE \E d \in Documents :
            /\ upload[v].pc = "idle" /\ \A w \in Versions : w < v => upload[w].pc # "idle"
            /\ files' = files
            /\ \E pc \in {"checked", "same"}, twin \in {0} \cup Versions :
                 /\ upload' = [upload EXCEPT ![v] = [pc |-> pc, doc |-> d, at |-> kb.revision,
                                                     twin |-> twin]]
                 /\ pc = "same" => docs[d].status = "active" /\ twin = docs[d].current
    <3>1. PICK d \in Documents, pc \in {"checked", "same"}, twin \in {0} \cup Versions :
            /\ upload[v].pc = "idle" /\ files' = files
            /\ \A w \in Versions : w < v => upload[w].pc # "idle"
            /\ upload' = [upload EXCEPT ![v] = [pc |-> pc, doc |-> d, at |-> kb.revision,
                                                twin |-> twin]]
            /\ pc = "same" => docs[d].status = "active" /\ twin = docs[d].current
      BY <2>3
    <3>2. /\ upload'[v].pc = pc /\ upload'[v].doc = d /\ upload'[v].at = kb.revision
          /\ upload'[v].twin = twin
      BY <2>2, <3>1
    <3> QED
      BY <3>1, <3>2
  <2> QED
    BY <2>1, <2>3 DEF UploadMoves
<1>3. UploadsFit'
  <2>1. \A x, y \in Versions : x < y /\ upload'[x].pc = "idle" => upload'[y].pc = "idle"
    <3>1. ASSUME NEW x \in Versions, NEW y \in Versions, x < y, upload'[x].pc = "idle"
          PROVE  upload'[y].pc = "idle"
      <4>1. x # v /\ upload[x].pc = "idle"
        BY <1>1, <1>2, <3>1
      <4>2. upload[y].pc = "idle"
        BY <3>1, <4>1 DEF UploadsFit
      <4> QED
        BY <1>1, <1>2, <3>1, <4>1, <4>2
    <3> QED
      BY <3>1
  <2>2. ASSUME NEW x \in Versions, x # v
        PROVE  /\ InFlight(x)' => upload'[x].doc \in Documents /\ upload'[x].at <= kb'.revision
               /\ upload'[x].pc = "put" /\ kb'.status \notin DeletedKb => x \in files'
               /\ upload'[x].pc \in {"checked", "put"} /\ upload'[x].at = kb'.revision
                    /\ kb'.status = "ready" => \A w \in Versions : Stored(w)' => w < x
               /\ upload'[x].pc = "same" /\ upload'[x].at = kb'.revision
                    /\ kb'.status \notin DeletedKb =>
                    /\ docs'[upload'[x].doc].status = "active"
                    /\ upload'[x].twin = docs'[upload'[x].doc].current
    BY <1>1, <2>2 DEF UploadsFit, InFlight, Stored
  <2>3. /\ InFlight(v)' => upload'[v].doc \in Documents /\ upload'[v].at <= kb'.revision
        /\ upload'[v].pc = "put" /\ kb'.status \notin DeletedKb => v \in files'
    BY <1>1, <1>2 DEF UploadsFit, InFlight
  <2>4. ASSUME upload'[v].pc \in {"checked", "put"}, upload'[v].at = kb'.revision,
               kb'.status = "ready", NEW w \in Versions, Stored(w)'
        PROVE  w < v
    <3>1. Stored(w) /\ upload[w].pc = "ended" /\ w # v
      BY <1>1, <2>4 DEF Stored, RowsRefer
    <3>2. CASE upload[v].pc = "idle"
      BY <1>1, <3>1, <3>2 DEF UploadsFit
    <3>3. CASE upload[v].pc = "checked"
      BY <1>1, <1>2, <2>4, <3>1, <3>3 DEF UploadsFit
    <3> QED
      BY <1>2, <2>4, <3>2, <3>3
  <2>5. upload'[v].pc = "same" => /\ docs'[upload'[v].doc].status = "active"
                                  /\ upload'[v].twin = docs'[upload'[v].doc].current
    BY <1>1, <1>2
  <2> QED
    BY <2>1, <2>2, <2>3, <2>4, <2>5 DEF UploadsFit
<1>4. PurgeInOrder'
  <2>1. ASSUME worker.pc = "mark", NEW w \in files'
        PROVE  upload'[w].pc = "put"
    <3>1. CASE w = v
      <4>1. v \in files => upload[v].pc = "put"
        BY <2>1 DEF PurgeInOrder
      <4> QED
        BY <1>2, <2>1, <3>1, <4>1
    <3>2. CASE w # v
      <4>1. w \in files /\ w \in Versions
        BY <1>1, <2>1, <3>2 DEF TypeOK
      <4> QED
        BY <1>1, <2>1, <3>2, <4>1 DEF PurgeInOrder
    <3> QED
      BY <3>1, <3>2
  <2> QED
    BY <1>1, <2>1 DEF PurgeInOrder, Stored
<1>5. FilesMatchRows'
  <2>1. ASSUME NEW w \in Versions, versions'[w].status # "absent",
               docs'[versions'[w].doc].status # "deleted"
        PROVE  w \in files'
    BY <1>1, <2>1 DEF FilesMatchRows, Stored
  <2>2. ASSUME kb'.status = "deleted", NEW w \in files'
        PROVE  upload'[w].pc \in {"put", "orphaned"}
    <3>1. CASE w = v
      <4>1. v \in files => upload[v].pc \in {"put", "orphaned"}
        BY <1>1, <2>2 DEF FilesMatchRows
      <4> QED
        BY <1>2, <2>2, <3>1, <4>1
    <3>2. CASE w # v
      <4>1. w \in files /\ w \in Versions
        BY <1>1, <2>2, <3>2 DEF TypeOK
      <4> QED
        BY <1>1, <2>2, <3>2, <4>1 DEF FilesMatchRows
    <3> QED
      BY <3>1, <3>2
  <2> QED
    BY <2>1, <2>2 DEF FilesMatchRows
<1> QED
  BY <1>3, <1>4, <1>5 DEF Orderly

\* They do as an upload is accepted.
LEMMA UploadOrderly ==
    ASSUME RowsInv, NEW v \in Versions, BeginUpload(v)
    PROVE  Orderly'
<1> TypeOK /\ OneJobAtATime /\ RowsRefer /\ UploadsFit /\ PurgeInOrder /\ FilesMatchRows
  BY DEF RowsInv
<1>0. PICK d, job : d = upload[v].doc /\ job = jobs'[Len(jobs')]
  OBVIOUS
<1>1. /\ d \in Documents /\ ~ Stored(v) /\ docs[d].status \in {"absent", "active"}
      /\ upload[v].pc = "put" /\ kb.status = "ready"
      /\ kb'.status = "updating" /\ kb'.revision = kb.revision
      /\ docs'[d].status = (IF docs[d].status = "absent" THEN "pending" ELSE "active")
      /\ docs'[d].current = docs[d].current
      /\ \A c \in Documents : c # d => docs'[c] = docs[c]
      /\ versions'[v] = [doc |-> d, status |-> "pending", path |-> TRUE]
      /\ \A w \in Versions : w # v => versions'[w] = versions[w]
      /\ upload'[v].pc = "ended" /\ \A w \in Versions : w # v => upload'[w] = upload[w]
  BY <1>0, UploadWrites
<1>2. files' = files /\ worker' = worker
  BY <1>0, UploadWrites
<1>3. UploadsFit'
  <2>1. \A x, y \in Versions : x < y /\ upload'[x].pc = "idle" => upload'[y].pc = "idle"
    BY <1>1 DEF UploadsFit
  <2>2. ASSUME NEW x \in Versions
        PROVE  /\ InFlight(x)' => upload'[x].doc \in Documents /\ upload'[x].at <= kb'.revision
               /\ upload'[x].pc = "put" /\ kb'.status \notin DeletedKb => x \in files'
    BY <1>1, <1>2 DEF UploadsFit, InFlight, DeletedKb
  <2>3. ASSUME NEW x \in Versions, upload'[x].pc = "same", upload'[x].at = kb'.revision
        PROVE  /\ docs'[upload'[x].doc].status = "active"
               /\ upload'[x].twin = docs'[upload'[x].doc].current
    <3>1. x # v /\ upload'[x] = upload[x]
      BY <1>1, <2>3
    <3>2. /\ docs[upload[x].doc].status = "active" /\ upload[x].doc \in Documents
          /\ upload[x].twin = docs[upload[x].doc].current
      BY <1>1, <2>3, <3>1 DEF UploadsFit, InFlight, DeletedKb
    <3> QED
      BY <1>1, <3>1, <3>2
  <2> QED
    BY <1>1, <2>1, <2>2, <2>3 DEF UploadsFit
<1>4. PurgeInOrder'
  <2>1. worker.pc \notin {"rows", "directory", "mark"}
    BY <1>1 DEF OneJobAtATime
  <2> QED
    BY <1>1, <1>2, <2>1 DEF PurgeInOrder, DeletedKb
<1>5. FilesMatchRows'
  <2>1. ASSUME NEW w \in Versions, versions'[w].status # "absent",
               docs'[versions'[w].doc].status # "deleted"
        PROVE  w \in files'
    <3>1. CASE w = v
      BY <1>1, <1>2, <3>1 DEF UploadsFit, DeletedKb
    <3>2. CASE w # v
      <4>1. versions'[w] = versions[w] /\ versions[w].status # "absent"
        BY <1>1, <2>1, <3>2
      <4>2. versions[w].doc \in Documents
        BY <4>1 DEF RowsRefer, Stored
      <4>3. docs[versions[w].doc].status # "deleted"
        BY <1>1, <2>1, <4>1, <4>2
      <4> QED
        BY <1>2, <4>1, <4>3 DEF FilesMatchRows
    <3> QED
      BY <3>1, <3>2
  <2> QED
    BY <1>1, <2>1 DEF FilesMatchRows
<1> QED
  BY <1>3, <1>4, <1>5 DEF Orderly

\* Steps that leave the rows of documents and the files alone, and let the
\* base go on, or requests end.
LEMMA OrderlyStill ==
    ASSUME RowsInv, docs' = docs, files' = files,
           \A v \in Versions : /\ Stored(v)' <=> Stored(v)
                               /\ versions'[v].doc = versions[v].doc,
           kb'.revision = kb.revision \/ kb'.revision = kb.revision + 1,
           kb'.status \in DeletedKb <=> kb.status \in DeletedKb,
           kb'.status \in DeletedKb => kb'.status = kb.status,
           kb'.status = "ready" => kb.status = "ready",
           worker'.pc = worker.pc \/ worker'.pc \notin {"directory", "mark"},
           \A v \in Versions : \/ upload'[v] = upload[v]
                               \/ /\ upload'[v].pc \in {"ended", "orphaned"}
                                  /\ upload[v].pc \in {"checked", "put", "same"}
                                  /\ upload[v].pc = "put" /\ kb.status = "deleted" =>
                                       upload'[v].pc = "orphaned"
                                  /\ upload[v].pc = "put" => worker'.pc # "mark"
    PROVE  Orderly'
<1> TypeOK /\ OneJobAtATime /\ RowsRefer /\ UploadsFit /\ PurgeInOrder /\ FilesMatchRows
  BY DEF RowsInv
<1> kb.revision \in Nat /\ \A v \in Versions : upload[v].at \in Nat
  BY DEF TypeOK, UploadRequests
<1>1. UploadsFit'
  <2>1. \A x, y \in Versions : x < y /\ upload'[x].pc = "idle" => upload'[y].pc = "idle"
    BY DEF UploadsFit
  <2>2. ASSUME NEW x \in Versions, upload'[x] = upload[x]
        PROVE  /\ InFlight(x)' => upload'[x].doc \in Documents /\ upload'[x].at <= kb'.revision
               /\ upload'[x].pc = "put" /\ kb'.status \notin DeletedKb => x \in files'
               /\ upload'[x].pc \in {"checked", "put"} /\ upload'[x].at = kb'.revision
                    /\ kb'.status = "ready" => \A w \in Versions : Stored(w)' => w < x
               /\ upload'[x].pc = "same" /\ upload'[x].at = kb'.revision
                    /\ kb'.status \notin DeletedKb =>
                    /\ docs'[upload'[x].doc].status = "active"
                    /\ upload'[x].twin = docs'[upload'[x].doc].current
    <3>1. InFlight(x) => upload[x].doc \in Documents /\ upload[x].at <= kb.revision
      BY DEF UploadsFit
    <3>2. InFlight(x) /\ upload[x].at = kb'.revision => kb'.revision = kb.revision
      BY <3>1
    <3>3. InFlight(x) <=> upload[x].pc \in {"checked", "put", "same"}
      BY DEF InFlight
    <3> QED
      BY <2>2, <3>1, <3>2, <3>3 DEF UploadsFit, InFlight
  <2>3. ASSUME NEW x \in Versions, upload'[x].pc \in {"ended", "orphaned"}
        PROVE  /\ ~ InFlight(x)'
               /\ upload'[x].pc \notin {"checked", "put", "same"}
    BY <2>3 DEF InFlight
  <2> QED
    BY <2>1, <2>2, <2>3 DEF UploadsFit
<1>2. PurgeInOrder'
  <2>1. kb'.status = "deleted" => kb.status = "deleted"
    BY DEF DeletedKb
  <2>2. ASSUME worker'.pc = "mark", NEW v \in files'
        PROVE  upload'[v].pc = "put"
    <3>1. v \in files /\ v \in Versions /\ worker.pc = "mark"
      BY <2>2 DEF TypeOK
    <3>2. upload[v].pc = "put"
      BY <3>1 DEF PurgeInOrder
    <3> QED
      BY <2>2, <3>1, <3>2
  <2> QED
    BY <2>1, <2>2 DEF PurgeInOrder
<1>3. FilesMatchRows'
  <2>1. ASSUME NEW v \in Versions, versions'[v].status # "absent",
               docs'[versions'[v].doc].status # "deleted"
        PROVE  v \in files'
    BY <2>1 DEF FilesMatchRows, Stored
  <2>2. ASSUME kb'.status = "deleted", NEW v \in files'
        PROVE  upload'[v].pc \in {"put", "orphaned"}
    <3>1. kb.status = "deleted" /\ v \in files /\ v \in Versions
      BY <2>2 DEF DeletedKb, TypeOK
    <3> QED
      BY <3>1 DEF FilesMatchRows
  <2> QED
    BY <2>1, <2>2 DEF FilesMatchRows
<1> QED
  BY <1>1, <1>2, <1>3 DEF Orderly

\* They do as another job is accepted.
LEMMA AsksOrderly ==
    ASSUME RowsInv, NEW job \in JobRows, AskedFor(job)
    PROVE  Orderly'
<1> TypeOK /\ OneJobAtATime
  BY DEF RowsInv
<1>1. /\ kb'.status = "updating" /\ kb'.revision = kb.revision /\ kb.status \in {"ready", "dirty"}
      /\ UNCHANGED <<docs, versions, files, worker>>
  BY AdmissionTyped DEF AskedFor, Asks, Admits
<1>2. worker.pc \notin {"rows", "directory", "mark"}
  BY <1>1 DEF OneJobAtATime
<1>3. \A v \in Versions : upload'[v] = upload[v] \/ (upload'[v].pc = "ended" /\ upload[v].pc = "same")
  BY UploadPc DEF AskedFor
<1> QED
  BY <1>1, <1>2, <1>3, OrderlyStill DEF DeletedKb, Stored

\* They do as a job is published.
LEMMA FinishOrderly ==
    ASSUME RowsInv, FinishJob
    PROVE  Orderly'
<1> TypeOK /\ OneJobAtATime /\ RowsRefer /\ UploadsFit /\ PurgeInOrder /\ FilesMatchRows
  BY DEF RowsInv
<1> DEFINE job == LastJob
<1>1. /\ Publishes(job) /\ kb.status = "updating" /\ upload' = upload /\ files' = files
      /\ worker'.pc \in {"sweep", "idle"} /\ kb'.status \in {"ready", "deleting"}
      /\ kb'.revision = kb.revision + 1
  BY FinishesJob DEF TypeOK, Publishes
<1> HIDE DEF job
<1>2. \A v \in Versions : /\ versions'[v].doc = versions[v].doc
                          /\ Stored(v)' <=> Stored(v)
  BY <1>1 DEF Publishes
<1>3. \A d \in Documents : docs[d].status = "deleted" => docs'[d] = docs[d]
  BY <1>1 DEF Publishes
<1>4. \A v \in Versions : InFlight(v) => upload[v].at <= kb.revision
  BY DEF UploadsFit
<1>5. kb.revision \in Nat /\ \A v \in Versions : upload[v].at \in Nat
  BY DEF TypeOK, UploadRequests
<1>6. \A v \in Versions : upload[v].pc \in {"checked", "put", "same"} => upload[v].at # kb'.revision
  BY <1>1, <1>4, <1>5 DEF InFlight
<1>7. UploadsFit'
  <2>1. \A x, y \in Versions : x < y /\ upload'[x].pc = "idle" => upload'[y].pc = "idle"
    BY <1>1 DEF UploadsFit
  <2>2. ASSUME NEW x \in Versions
        PROVE  /\ InFlight(x)' => upload'[x].doc \in Documents /\ upload'[x].at <= kb'.revision
               /\ upload'[x].pc = "put" /\ kb'.status \notin DeletedKb => x \in files'
               /\ upload'[x].pc \in {"checked", "put", "same"} => upload'[x].at # kb'.revision
    BY <1>1, <1>5, <1>6 DEF UploadsFit, InFlight, DeletedKb
  <2> QED
    BY <2>1, <2>2 DEF UploadsFit
<1>8. PurgeInOrder'
  <2>1. kb'.status \in DeletedKb => job.op = "delete_knowledge_base"
    BY <1>1 DEF Publishes, DeletedKb
  <2> QED
    BY <1>1, <2>1 DEF PurgeInOrder, Publishes
<1>9. FilesMatchRows'
  <2>1. ASSUME NEW v \in Versions, versions'[v].status # "absent",
               docs'[versions'[v].doc].status # "deleted"
        PROVE  v \in files'
    <3>1. Stored(v) /\ versions'[v].doc = versions[v].doc
      BY <1>2, <2>1 DEF Stored
    <3>2. versions[v].doc \in Documents
      BY <3>1 DEF RowsRefer
    <3>3. docs[versions[v].doc].status # "deleted"
      BY <1>3, <2>1, <3>1, <3>2
    <3> QED
      BY <1>1, <3>1, <3>3 DEF FilesMatchRows, Stored
  <2> QED
    BY <1>1, <2>1 DEF FilesMatchRows
<1> QED
  BY <1>7, <1>8, <1>9 DEF Orderly

\* They do as the sweep goes on.
LEMMA SweepsOrderly ==
    ASSUME RowsInv, Sweeps \/ PurgeRows \/ MarkPurged
    PROVE  Orderly'
<1> TypeOK /\ OneJobAtATime /\ RowsRefer /\ UploadsFit /\ PurgeInOrder /\ FilesMatchRows
  BY DEF RowsInv
<1>1. CASE Sweeps
  <2>1. /\ UNCHANGED <<docs, upload, kb>> /\ files' \subseteq files
        /\ \A v \in Versions : /\ versions'[v].doc = versions[v].doc
                               /\ Stored(v)' <=> Stored(v)
        /\ worker'.pc \in {"directory", "mark"} => worker.pc = "directory" /\ files' = {}
        /\ \A v \in files : v \notin files' =>
             \/ kb.status = "deleting"
             \/ versions[v].path /\ docs[versions[v].doc].status = "deleted"
    BY <1>1 DEF Sweeps, Stored
  <2>2. UploadsFit'
    <3>1. ASSUME NEW v \in Versions, upload[v].pc = "put", kb.status \notin DeletedKb
          PROVE  v \in files'
      <4>1. v \in files /\ kb.status # "deleting" /\ ~ versions[v].path
        BY <3>1 DEF UploadsFit, RowsRefer, DeletedKb
      <4> QED
        BY <2>1, <4>1
    <3> QED
      BY <2>1, <3>1 DEF UploadsFit, InFlight
  <2>3. PurgeInOrder'
    <3>1. worker'.pc \in {"directory", "mark"} \/ kb.status = "deleted" =>
            \A v \in Versions : ~ Stored(v)
      BY <2>1 DEF PurgeInOrder
    <3> QED
      BY <2>1, <3>1 DEF PurgeInOrder
  <2>4. FilesMatchRows'
    <3>1. ASSUME NEW v \in Versions, versions'[v].status # "absent",
                 docs'[versions'[v].doc].status # "deleted"
          PROVE  v \in files'
      <4>1. Stored(v) /\ docs[versions[v].doc].status # "deleted"
        BY <2>1, <3>1 DEF Stored
      <4>2. v \in files /\ versions[v].doc \in Documents
        BY <4>1 DEF FilesMatchRows, Stored, RowsRefer
      <4>3. kb.status # "deleting"
        BY <4>1, <4>2 DEF PurgeInOrder, RowsRefer, DeletedKb
      <4> QED
        BY <2>1, <4>1, <4>2, <4>3
    <3> QED
      BY <2>1, <3>1 DEF FilesMatchRows
  <2> QED
    BY <2>2, <2>3, <2>4 DEF Orderly
<1>2. CASE PurgeRows
  <2>1. /\ kb' = kb /\ kb.status = "deleting" /\ files' = files /\ upload' = upload
        /\ worker'.pc = "directory"
        /\ \A v \in Versions : ~ Stored(v)'
        /\ \A d \in Documents : docs'[d].status = "absent"
    BY <1>2 DEF PurgeRows, Goto, TypeOK, OneJobAtATime, Stored
  <2>2. UploadsFit'
    BY <2>1 DEF UploadsFit, InFlight, DeletedKb
  <2>3. PurgeInOrder'
    BY <2>1 DEF PurgeInOrder
  <2>4. FilesMatchRows'
    BY <2>1 DEF FilesMatchRows, Stored
  <2> QED
    BY <2>2, <2>3, <2>4 DEF Orderly
<1>3. CASE MarkPurged
  <2>1. /\ kb'.status = "deleted" /\ kb.status = "deleting" /\ kb'.revision = kb.revision
        /\ worker.pc = "mark" /\ worker'.pc = "unlink"
        /\ UNCHANGED <<docs, versions, files, upload>>
    BY <1>3 DEF MarkPurged, Goto, TypeOK, OneJobAtATime
  <2>2. UploadsFit'
    BY <2>1 DEF UploadsFit, InFlight, DeletedKb
  <2>3. PurgeInOrder'
    BY <2>1 DEF PurgeInOrder, DeletedKb, Stored
  <2>4. FilesMatchRows'
    BY <2>1 DEF FilesMatchRows, PurgeInOrder
  <2> QED
    BY <2>2, <2>3, <2>4 DEF Orderly
<1> QED
  BY <1>1, <1>2, <1>3

\* Every step keeps uploads, purge and files in order.
LEMMA OrderKept ==
    ASSUME RowsInv, Acknowledged, [Next]_vars
    PROVE  Orderly'
<1> TypeOK /\ OneJobAtATime
  BY DEF RowsInv
<1>1. CASE Rename
  <2>1. kb'.status = kb.status /\ kb'.revision = kb.revision + 1
    BY <1>1 DEF Rename, TypeOK
  <2> QED
    BY <1>1, <2>1, OrderlyStill DEF Rename, Stored
<1>2. CASE Toils
  <2>1. worker'.pc \notin {"directory", "mark"}
    BY <1>2 DEF Toils, AtWork
  <2> QED
    BY <1>2, <2>1, OrderlyStill DEF Toils, Stored
<1>3. CASE Claim
  <2>1. worker'.pc = "claimed"
    BY <1>3, ClaimsTheLast
  <2> QED
    BY <1>3, <2>1, ClaimsTheLast, OrderlyStill DEF Stored
<1>4. CASE Ends
  <2>1. /\ worker'.pc = "idle" /\ kb'.revision = kb.revision
        /\ UNCHANGED <<docs, versions, files, upload>>
    BY <1>4 DEF Ends, TypeOK
  <2>2. \/ kb'.status = "dirty" /\ kb.status = "updating"
        \/ kb'.status = kb.status
        \/ kb'.status = "dirty" /\ kb.status = "ready"
    BY <1>4 DEF Ends, OneJobAtATime, Live
  <2> QED
    BY <2>1, <2>2, OrderlyStill DEF Stored, DeletedKb
<1>5. CASE Crash
  <2>1. UNCHANGED <<kb, docs, versions, files>> /\ worker'.pc = "down"
    BY <1>5 DEF Crash, rows
  <2>2. ASSUME NEW v \in Versions
        PROVE  \/ upload'[v] = upload[v]
               \/ /\ upload'[v].pc \in {"ended", "orphaned"}
                  /\ upload[v].pc \in {"checked", "put", "same"}
                  /\ kb.status = "deleted" => upload'[v].pc = "orphaned"
    <3> DEFINE pc == IF kb.status = "deleted" THEN "orphaned" ELSE "ended"
               row == upload[v]
    <3>1. upload'[v] = IF InFlight(v) THEN [row EXCEPT !.pc = pc] ELSE row
      BY <1>5 DEF Crash
    <3>2. row \in UploadRequests /\ pc \in {"ended", "orphaned"}
          /\ (kb.status = "deleted" => pc = "orphaned")
      BY DEF TypeOK
    <3> HIDE DEF pc, row
    <3>3. [row EXCEPT !.pc = pc].pc = pc
      BY <3>2, UploadRow
    <3> QED
      BY <3>1, <3>2, <3>3 DEF InFlight, row
  <2> QED
    BY <2>1, <2>2, OrderlyStill DEF Stored
<1>6. CASE UNCHANGED vars
  BY <1>6, OrderlyStill DEF vars, Stored
<1> QED
  BY <1>1, <1>2, <1>3, <1>4, <1>5, <1>6, MovesOrderly, UploadOrderly, AsksOrderly, FinishOrderly,
     SweepsOrderly, Steps

-----------------------------------------------------------------------------
(***************************************************************************)
(* The rows and the files, in every behaviour                              *)
(***************************************************************************)
LEMMA RowsStart ==
    ASSUME Init
    PROVE  RowsInv
<1>1. /\ kb = [status |-> "ready", revision |-> 0, config |-> config] /\ config \in Configs
      /\ docs = [d \in Documents |-> [status |-> "absent", current |-> 0]]
      /\ versions = [v \in Versions |-> [doc |-> Gone, status |-> "absent", path |-> FALSE]]
      /\ files = {} /\ jobs = <<>> /\ fixes = [count |-> 0, identity |-> FALSE]
      /\ engine = [index |-> {}, torn |-> {}, applied |-> {}]
      /\ upload = [v \in Versions |-> [pc |-> "idle", doc |-> Gone, at |-> 0, twin |-> 0]]
      /\ worker = [pc |-> "idle", job |-> 0, whole |-> FALSE, removed |-> {}]
      /\ faults = 0 /\ 0 \in 0..MaxFixes
  BY Bounds DEF Init
<1>2. TypeOK
  <2>1. jobs \in Seq(JobRows) /\ Len(jobs) = 0
    BY <1>1
  <2>2. upload \in [Versions -> UploadRequests]
    BY <1>1 DEF UploadRequests
  <2>3. worker \in [pc : {"down", "idle", "claimed", "writing", "written", "failing", "recover",
                          "sweep", "rows", "directory", "mark", "unlink", "unlinked"},
                    job : 0..Len(jobs), whole : BOOLEAN, removed : SUBSET Versions]
    BY <1>1, <2>1
  <2>4. /\ docs \in [Documents -> [status : {"absent", "pending", "active", "deleted"},
                                   current : {0} \cup Versions]]
        /\ versions \in [Versions -> [doc : Documents \cup {Gone}, path : BOOLEAN,
                                      status : {"absent", "pending", "active", "superseded",
                                                "deleted"}]]
    BY <1>1
  <2>5. /\ kb \in [status : {"ready", "updating", "dirty"} \cup DeletedKb,
                   revision : Nat, config : Configs]
        /\ fixes \in [count : 0..MaxFixes, identity : BOOLEAN]
        /\ engine \in [index : SUBSET Versions, torn : SUBSET Versions,
                       applied : SUBSET (1..MaxFixes)]
        /\ files \subseteq Versions /\ config \in Configs /\ faults \in Nat
    BY <1>1
  <2> QED
    BY <2>1, <2>2, <2>3, <2>4, <2>5 DEF TypeOK
<1>3. /\ \A v \in Versions : /\ versions[v].status = "absent" /\ ~ versions[v].path
                             /\ upload[v].pc = "idle"
      /\ \A d \in Documents : docs[d].status = "absent" /\ docs[d].current = 0
      /\ kb.status = "ready" /\ worker.pc = "idle"
  BY <1>1
<1>4. OneJobAtATime
  BY <1>1, <1>3 DEF OneJobAtATime, Live, AtWork
<1>5. RowsRefer
  BY <1>3 DEF RowsRefer, Stored
<1>6. JobsFit
  BY <1>1, <1>3 DEF JobsFit, SettledBut, Open, Live
<1>7. UploadsFit
  BY <1>3 DEF UploadsFit, InFlight
<1>8. PurgeInOrder /\ FilesMatchRows
  BY <1>1, <1>3 DEF PurgeInOrder, FilesMatchRows, DeletedKb
<1> QED
  BY <1>2, <1>4, <1>5, <1>6, <1>7, <1>8 DEF RowsInv

\* Every step keeps the invariant of the rows.
LEMMA RowsKept ==
    ASSUME RowsInv, Acknowledged, [Next]_vars
    PROVE  RowsInv'
BY TypesKept, OneJobKept, ReferKept, FitKept, OrderKept DEF RowsInv, Orderly

\* With acknowledgements that arrive and retries of the last job only, the
\* rows of a base, its queue, its uploads and its purge stay in order through
\* every interleaving, crash and failure.
THEOREM RowsInOrder ==
    ASSUME Acknowledged
    PROVE  Spec => []RowsInv
<1>1. Init => RowsInv
  BY RowsStart
<1>2. RowsInv /\ [Next]_vars => RowsInv'
  BY RowsKept
<1> QED
  BY <1>1, <1>2, PTL DEF Spec

\* Every reachable state is well typed, for any bounds.
THEOREM TypesHold ==
    ASSUME Acknowledged
    PROVE  Spec => []TypeOK
<1>1. RowsInv => TypeOK
  BY DEF RowsInv
<1> QED
  BY <1>1, RowsInOrder, PTL

\* The files are those of the rows, whatever the index does.
THEOREM FilesOfTheRows ==
    ASSUME Acknowledged
    PROVE  Spec => []FilesMatchRows
<1>1. RowsInv => FilesMatchRows
  BY DEF RowsInv
<1> QED
  BY <1>1, RowsInOrder, PTL

-----------------------------------------------------------------------------
(***************************************************************************)
(* What a publication makes of the published versions                      *)
(***************************************************************************)

\* The published versions of the other documents.
Others(d) == {v \in Versions : Current(v) /\ versions[v].doc # d}

\* A published version is the current one of its document.
LEMMA PublishedAre ==
    ASSUME TypeOK, RowsRefer
    PROVE  /\ \A v \in Published : /\ v \in Versions /\ Stored(v) /\ v # 0
                                   /\ versions[v].doc \in Documents
                                   /\ docs[versions[v].doc].current = v
           /\ \A d \in Documents : Others(d) = Published \ {docs[d].current}
<1>1. ASSUME NEW v \in Published
      PROVE  /\ v \in Versions /\ Stored(v) /\ v # 0 /\ versions[v].doc \in Documents
             /\ docs[versions[v].doc].current = v
  BY Bounds DEF Published, Current, Stored, RowsRefer, Versions
<1>2. ASSUME NEW d \in Documents
      PROVE  Others(d) = Published \ {docs[d].current}
  <2>1. ASSUME NEW v \in Published, versions[v].doc # d PROVE v # docs[d].current
    BY <1>1, <2>1 DEF RowsRefer, Of
  <2> QED
    BY <1>1, <2>1 DEF Others, Published
<1> QED
  BY <1>1, <1>2

\* A job of one document publishes its version, or withdraws it.
LEMMA PublishedByOne ==
    ASSUME TypeOK, RowsRefer, NEW job \in JobRows, JobFits(job), PublishesRows(job),
           job.op \in OfOneDocument
    PROVE  /\ job.doc \in Documents /\ job.version \in Versions
           /\ Published' = Others(job.doc) \cup (IF job.op = "delete_document" THEN {}
                                                 ELSE {job.version})
<1> DEFINE D == job.doc
           w == job.version
           status == IF job.op = "delete_document" THEN "deleted" ELSE "active"
<1>1. /\ D \in Documents /\ w \in Versions /\ versions[w].doc = D
      /\ docs[D].status \in {"pending", "active"}
  <2>1. CASE job.op \in Brings
    BY <2>1 DEF JobFits, Of
  <2>2. CASE job.op \notin Brings
    <3>1. /\ D \in Documents /\ w = docs[D].current /\ docs[D].status = "active"
      BY <2>2 DEF JobFits, OfOneDocument, Brings
    <3> QED
      BY <3>1 DEF RowsRefer, Of
  <2> QED
    BY <2>1, <2>2
<1>0. job.op = "replace_document" => job.previous # w
  BY Bounds DEF JobFits, Brings, RowsRefer, Of, Versions
<1>2. \A v \in Versions :
        versions'[v] = IF v = w THEN [versions[v] EXCEPT !.status = status]
                       ELSE IF v = job.previous /\ job.op = "replace_document"
                            THEN [versions[v] EXCEPT !.status = "superseded"] ELSE versions[v]
  <2>1. \A v \in Versions :
          versions'[v] = IF v = job.previous /\ job.op = "replace_document"
                         THEN [versions[v] EXCEPT !.status = "superseded"]
                         ELSE IF v = w THEN [versions[v] EXCEPT !.status = status]
                              ELSE versions[v]
    BY RowsPublished
  <2> HIDE DEF w, status
  <2> QED
    BY <1>0, <2>1
<1>3. /\ docs'[D].status = status
      /\ job.op # "delete_document" => docs'[D].current = w
      /\ \A d \in Documents : d # D => docs'[d] = docs[d]
  <2>1. docs' = IF job.op = "delete_document"
                THEN [docs EXCEPT ![D].status = "deleted"]
                ELSE [docs EXCEPT ![D] = [status |-> "active", current |-> w]]
    BY RowsPublished
  <2> QED
    BY <1>1, <2>1 DEF TypeOK
<1>4. job.op = "replace_document" => job.previous = docs[D].current
  BY DEF JobFits, Brings
<1> HIDE DEF D, w, status
<1>5. ASSUME NEW v \in Versions
      PROVE  /\ versions'[v].doc = versions[v].doc
             /\ v = w => versions'[v].status = status
             /\ v # w /\ ~ (v = job.previous /\ job.op = "replace_document") =>
                  versions'[v] = versions[v]
  <2>1. versions[v] \in [doc : Documents \cup {Gone}, path : BOOLEAN,
                         status : {"absent", "pending", "active", "superseded", "deleted"}]
    BY DEF TypeOK
  <2> QED
    BY <1>2, <2>1
<1>6. ASSUME NEW v \in Versions, versions[v].doc # D
      PROVE  Current(v)' <=> Current(v)
  <2>1. v # w
    BY <1>1, <1>6
  <2>2. ~ (v = job.previous /\ job.op = "replace_document")
    <3>1. docs[D].current # 0 => versions[docs[D].current].doc = D
      BY <1>1 DEF RowsRefer, Of
    <3>2. v # 0
      BY Bounds DEF Versions
    <3> QED
      BY <1>4, <1>6, <3>1, <3>2
  <2>3. versions'[v] = versions[v]
    BY <1>5, <2>1, <2>2
  <2>4. CASE versions[v].status = "active"
    <3>1. versions[v].doc \in Documents
      BY <2>4 DEF RowsRefer, Stored
    <3>2. docs'[versions[v].doc] = docs[versions[v].doc]
      BY <1>3, <1>6, <3>1
    <3> QED
      BY <2>3, <3>2 DEF Current
  <2> QED
    BY <2>3, <2>4 DEF Current
<1>7. ASSUME NEW v \in Versions, versions[v].doc = D
      PROVE  Current(v)' <=> (v = w /\ job.op # "delete_document")
  <2>1. CASE job.op = "delete_document"
    <3>1. docs'[versions'[v].doc].status # "active"
      BY <1>3, <1>5, <1>7, <2>1 DEF status
    <3> QED
      BY <2>1, <3>1 DEF Current
  <2>2. CASE job.op # "delete_document"
    <3>1. /\ versions'[v].doc = D /\ docs'[D].status = "active" /\ docs'[D].current = w
          /\ v = w => versions'[v].status = "active"
      BY <1>3, <1>5, <1>7, <2>2 DEF status
    <3> QED
      BY <2>2, <3>1 DEF Current
  <2> QED
    BY <2>1, <2>2
<1>8. Published' = Others(D) \cup (IF job.op = "delete_document" THEN {} ELSE {w})
  <2>1. ASSUME NEW v
        PROVE  v \in Published' <=>
                 v \in Others(D) \cup (IF job.op = "delete_document" THEN {} ELSE {w})
    <3>1. v \in Published' <=> v \in Versions /\ Current(v)'
      BY DEF Published
    <3>2. v \in Others(D) <=> v \in Versions /\ Current(v) /\ versions[v].doc # D
      BY DEF Others
    <3>3. CASE v \in Versions /\ versions[v].doc = D
      BY <1>7, <3>1, <3>2, <3>3
    <3>4. CASE v \in Versions /\ versions[v].doc # D
      BY <1>1, <1>6, <3>1, <3>2, <3>4
    <3>5. CASE v \notin Versions
      BY <1>1, <3>1, <3>2, <3>5
    <3> QED
      BY <3>3, <3>4, <3>5
  <2> QED
    BY <2>1
<1> QED
  BY <1>1, <1>8 DEF D, w

\* Without uploads that wait, what an index of everything else holds is what
\* is published of the other documents.
LEMMA SelectedForOne ==
    ASSUME TypeOK, RowsRefer, NEW job \in JobRows, JobFits(job), job.op \in Removing
    PROVE  Selected(job) = Others(job.doc) \cup (IF job.op = "delete_document" THEN {}
                                                 ELSE {job.version})
<1> DEFINE D == job.doc
           w == IF job.op \in Brings THEN job.version ELSE 0
<1>1. /\ SettledBut(w) /\ D \in Documents /\ D # Gone
      /\ job.op \in {"replace_document", "delete_document"}
      /\ w # 0 => versions[w].doc = D /\ w \in Versions
  <2>1. job.op \in {"replace_document", "delete_document"}
    BY DEF Removing
  <2>2. job.op = "replace_document" <=> job.op \in Brings
    BY <2>1 DEF Brings
  <2> QED
    BY <2>1, <2>2, GoneAssumption DEF JobFits, Of
<1>2. \A d \in Documents : Kept(job, d) <=>
        d # D /\ docs[d].status \in {"pending", "active"} /\ Of(d) # {}
  BY <1>1 DEF Kept, Purging
<1>3. /\ \A d \in Documents : Kept(job, d) => Chosen(d) \in Selected(job)
      /\ \A v \in Selected(job) :
           \/ v = job.version /\ job.op = "replace_document"
           \/ /\ v \in Versions /\ Stored(v) /\ versions[v].doc \in Documents
              /\ v = Chosen(versions[v].doc) /\ Kept(job, versions[v].doc)
      /\ job.op = "replace_document" => job.version \in Selected(job)
  BY SelectedAre
<1> HIDE DEF D, w
<1>4. ASSUME NEW d \in Documents, d # D, docs[d].status \in {"pending", "active"}
      PROVE  /\ docs[d].status = "active" /\ docs[d].current # 0 /\ docs[d].current \in Of(d)
             /\ versions[docs[d].current].status = "active" /\ Chosen(d) = docs[d].current
  <2>1. docs[d].status = "active"
    BY <1>1, <1>4 DEF SettledBut
  <2>2. /\ docs[d].current # 0 /\ versions[docs[d].current].status = "active"
        /\ docs[d].current \in Of(d)
    BY <1>1, <2>1 DEF SettledBut, RowsRefer
  <2>3. \A v \in Of(d) : versions[v].status # "pending"
    <3>1. \A v \in Of(d) : v \in Versions /\ v # 0 /\ versions[v].doc = d
      BY Bounds DEF Of, Versions
    <3> QED
      BY <1>1, <1>4, <3>1 DEF SettledBut
  <2>4. Of(d) # {}
    BY <2>2
  <2> QED
    BY <2>1, <2>2, <2>3, <2>4, ChosenIsOwn
<1>5. ASSUME NEW v \in Others(D)
      PROVE  v \in Selected(job)
  <2>1. /\ v \in Versions /\ Current(v) /\ versions[v].doc # D /\ versions[v].doc \in Documents
        /\ docs[versions[v].doc].current = v /\ docs[versions[v].doc].status = "active"
    BY DEF Others, Current, RowsRefer, Stored
  <2>2. Chosen(versions[v].doc) = v /\ Of(versions[v].doc) # {}
    BY <1>4, <2>1
  <2> QED
    BY <1>2, <1>3, <2>1, <2>2
<1>6. ASSUME NEW v \in Selected(job), ~ (v = job.version /\ job.op = "replace_document")
      PROVE  v \in Others(D)
  <2>1. /\ v \in Versions /\ versions[v].doc \in Documents
        /\ v = Chosen(versions[v].doc) /\ Kept(job, versions[v].doc)
    BY <1>3, <1>6
  <2>2. versions[v].doc # D /\ docs[versions[v].doc].status \in {"pending", "active"}
    BY <1>2, <2>1
  <2>3. /\ docs[versions[v].doc].status = "active" /\ v = docs[versions[v].doc].current
        /\ versions[v].status = "active"
    BY <1>4, <2>1, <2>2
  <2> QED
    BY <2>1, <2>2, <2>3 DEF Others, Current
<1>7. Selected(job) = Others(D) \cup (IF job.op = "delete_document" THEN {} ELSE {job.version})
  <2>1. CASE job.op = "delete_document"
    BY <1>5, <1>6, <2>1
  <2>2. CASE job.op = "replace_document"
    BY <1>3, <1>5, <1>6, <2>2
  <2> QED
    BY <1>1, <2>1, <2>2
<1> QED
  BY <1>7 DEF D

\* A rebuild publishes what it took.
LEMMA PublishedByAll ==
    ASSUME TypeOK, RowsRefer, NEW job \in JobRows, PublishesRows(job), job.op = "rebuild"
    PROVE  Published' = Selected(job)
<1>1. /\ \A v \in Versions :
            versions'[v] = IF v \in Selected(job) THEN [versions[v] EXCEPT !.status = "active"]
                           ELSE IF versions[v].status \in {"pending", "active"}
                                THEN [versions[v] EXCEPT !.status = "superseded"]
                                ELSE versions[v]
      /\ \A d \in Documents :
            docs'[d] = IF Selected(job) \cap Of(d) = {} THEN docs[d]
                       ELSE [status |-> "active", current |-> Max(Selected(job) \cap Of(d))]
  BY RowsPublished
<1>2. \A v \in Selected(job) : /\ v \in Versions /\ Stored(v) /\ versions[v].doc \in Documents
                               /\ v = Chosen(versions[v].doc)
  BY SelectedAre
<1>3. ASSUME NEW v \in Versions
      PROVE  /\ versions'[v].doc = versions[v].doc
             /\ versions'[v].status = "active" <=> v \in Selected(job)
  <2>1. versions[v] \in [doc : Documents \cup {Gone}, path : BOOLEAN,
                         status : {"absent", "pending", "active", "superseded", "deleted"}]
    BY DEF TypeOK
  <2> QED
    BY <1>1, <2>1
<1>4. ASSUME NEW v \in Selected(job)
      PROVE  docs'[versions[v].doc].status = "active" /\ docs'[versions[v].doc].current = v
  <2> DEFINE d == versions[v].doc
             mine == Selected(job) \cap Of(d)
  <2>1. d \in Documents /\ v \in mine /\ mine \in SUBSET Versions
    BY <1>2 DEF Of, Stored
  <2>2. \A u \in mine : u = v
    BY <1>2 DEF Of
  <2>3. docs'[d] = [status |-> "active", current |-> Max(mine)]
    BY <1>1, <2>1
  <2> HIDE DEF mine, d
  <2>4. Max(mine) = v
    BY <2>1, <2>2, MaxOfVersions
  <2> QED
    BY <2>3, <2>4 DEF d
<1> QED
  BY <1>2, <1>3, <1>4 DEF Published, Current

\* What a job publishes is what it leaves in the index.
LEMMA OutcomeIsPublished ==
    ASSUME TypeOK, RowsRefer, NEW job \in JobRows, JobFits(job), PublishesRows(job),
           job.op # "delete_knowledge_base"
    PROVE  Outcome(job) = Published'
<1>1. /\ job.op \in OfOneDocument => SettledBut(IF job.op \in Brings THEN job.version ELSE 0)
      /\ job.op \in OfOneDocument \cup {"rebuild", "correction"}
  BY DEF JobFits, OfOneDocument, JobRows, Operations
<1>2. CASE job.op = "rebuild"
  <2>1. Outcome(job) = Selected(job)
    BY <1>2, Zenon DEF Outcome, Rebuilds
  <2> QED
    BY <1>2, <2>1, PublishedByAll
<1>3. CASE job.op = "correction"
  <2>1. Outcome(job) = Published
    BY <1>3, Zenon DEF Outcome, Rebuilds, Brings, Removing
  <2>2. docs' = docs /\ versions' = versions
    BY <1>3, RowsPublished
  <2> QED
    BY <2>1, <2>2 DEF Published, Current
<1>4. CASE job.op \in OfOneDocument
  <2>1. /\ job.doc \in Documents /\ job.version \in Versions
        /\ Published' = Others(job.doc) \cup (IF job.op = "delete_document" THEN {}
                                              ELSE {job.version})
    BY <1>4, PublishedByOne
  <2>2. /\ Others(job.doc) = Published \ {docs[job.doc].current}
        /\ 0 \notin Published
    BY <2>1, PublishedAre
  <2>3. CASE Rebuilds(job)
    <3>1. Outcome(job) = Selected(job)
      BY <2>3, Zenon DEF Outcome
    <3>2. job.op \in Removing
      BY <1>4, <2>3 DEF Rebuilds, OfOneDocument
    <3> QED
      BY <2>1, <3>1, <3>2, SelectedForOne
  <2>4. CASE ~ Rebuilds(job) /\ job.op \in Brings
    <3>1. Outcome(job) = (Published \ {job.previous}) \cup {job.version}
      BY <2>4, Zenon DEF Outcome, Brings
    <3>2. job.previous = docs[job.doc].current /\ job.op # "delete_document"
      BY <2>4 DEF JobFits, Brings
    <3> QED
      BY <2>1, <2>2, <3>1, <3>2
  <2>5. CASE ~ Rebuilds(job) /\ job.op = "delete_document"
    <3>1. Outcome(job) = Published \ {job.version}
      BY <2>5, Zenon DEF Outcome, Brings
    <3>2. job.version = docs[job.doc].current
      BY <2>5 DEF JobFits
    <3> QED
      BY <2>1, <2>2, <2>5, <3>1, <3>2
  <2>6. CASE ~ Rebuilds(job) /\ job.op = "reuse_document"
    <3>1. Outcome(job) = Published
      BY <2>6, Zenon DEF Outcome, Brings
    <3>2. /\ docs[job.doc].status = "active" /\ job.version = docs[job.doc].current
          /\ job.op # "delete_document"
      BY <2>6 DEF JobFits
    <3>3. job.version \in Published
      <4>1. SettledBut(0)
        BY <1>1, <2>6 DEF OfOneDocument, Brings
      <4>2. versions[job.version].status = "active" /\ job.version \in Of(job.doc)
        BY <2>1, <3>2, <4>1 DEF SettledBut, RowsRefer
      <4> QED
        BY <2>1, <3>2, <4>2 DEF Published, Current, Of
    <3> QED
      BY <2>1, <2>2, <3>1, <3>2, <3>3
  <2> QED
    BY <1>4, <2>3, <2>4, <2>5, <2>6 DEF OfOneDocument, Brings
<1> QED
  BY <1>1, <1>2, <1>3, <1>4

-----------------------------------------------------------------------------
(***************************************************************************)
(* The index                                                               *)
(***************************************************************************)

\* What a job that does not index everything leaves, by its kind.
LEMMA PartsAre ==
    ASSUME NEW job \in JobRows, ~ Rebuilds(job)
    PROVE  /\ job.op \in Removing \cup {"ingest_document"} =>
                (PartOf(job) <=> /\ engine.torn \subseteq Touched(job)
                                 /\ engine.index \ Touched(job) = Published \ Touched(job))
           /\ job.op = "correction" =>
                (PartOf(job) <=> /\ engine.torn = {} /\ engine.index = Published
                                 /\ engine.applied \cup {job.fix} = 1..fixes.count)
           /\ job.op = "reuse_document" => (PartOf(job) <=> IndexIs(Published))
           /\ job.op \in Removing \cup {"ingest_document", "correction", "reuse_document"}
           /\ job.op = "ingest_document" => Touched(job) = {job.version}
           /\ job.op = "replace_document" => Touched(job) = {job.version, job.previous} \ {0}
           /\ job.op = "delete_document" => Touched(job) = {job.version} \ {0}
<1>1. job.op \in Removing \cup {"ingest_document"} =>
        (PartOf(job) <=> /\ engine.torn \subseteq Touched(job)
                         /\ engine.index \ Touched(job) = Published \ Touched(job))
  BY Zenon DEF PartOf, Removing
<1>2. job.op = "correction" =>
        (PartOf(job) <=> /\ engine.torn = {} /\ engine.index = Published
                         /\ engine.applied \cup {job.fix} = 1..fixes.count)
  BY Zenon DEF PartOf, Removing
<1>3. job.op = "reuse_document" => (PartOf(job) <=> IndexIs(Published))
  BY Zenon DEF PartOf, Removing
<1>4. job.op \in Removing \cup {"ingest_document", "correction", "reuse_document"}
  BY DEF JobRows, Operations, Rebuilds, Removing
<1>5. /\ job.op = "ingest_document" => Touched(job) = {job.version}
      /\ job.op = "replace_document" => Touched(job) = {job.version, job.previous} \ {0}
      /\ job.op = "delete_document" => Touched(job) = {job.version} \ {0}
  BY Zenon DEF Touched
<1> QED
  BY <1>1, <1>2, <1>3, <1>4, <1>5

\* The published versions, as long as rows keep their status and document.
LEMMA PublishedStill ==
    ASSUME docs' = docs, \A v \in Versions : /\ versions'[v].status = versions[v].status
                                             /\ versions'[v].doc = versions[v].doc
    PROVE  Published' = Published
BY DEF Published, Current

\* A job's part of the index, as long as index, published versions and
\* corrections stay.
LEMMA PartStill ==
    ASSUME NEW job \in JobRows, NEW new \in JobRows,
           engine' = engine, Published' = Published, fixes' = fixes,
           new.op = job.op, new.doc = job.doc, new.version = job.version,
           new.previous = job.previous, new.fix = job.fix
    PROVE  /\ Rebuilds(new)' <=> Rebuilds(job)
           /\ ~ Rebuilds(job) => (PartOf(new)' <=> PartOf(job))
<1>1. Rebuilds(new)' <=> Rebuilds(job)
  BY DEF Rebuilds
<1>2. ASSUME ~ Rebuilds(job)
      PROVE  PartOf(new)' <=> PartOf(job)
  <2>1. job.op \in Removing \cup {"ingest_document", "correction", "reuse_document"}
    BY <1>2, PartsAre
  <2>2. ASSUME job.op \in Removing \cup {"ingest_document"}
        PROVE  PartOf(new)' <=> PartOf(job)
    <3>1. Touched(new) = Touched(job)
      <4>1. ~ Rebuilds(new)
        BY <1>2 DEF Rebuilds
      <4> QED
        BY <1>2, <2>2, <4>1, PartsAre DEF Removing
    <3>2. PartOf(job) <=> /\ engine.torn \subseteq Touched(job)
                          /\ engine.index \ Touched(job) = Published \ Touched(job)
      BY <1>2, <2>2, PartsAre
    <3>3. PartOf(new)' <=> /\ engine'.torn \subseteq Touched(new)
                           /\ engine'.index \ Touched(new) = Published' \ Touched(new)
      BY <2>2, Zenon DEF PartOf, Removing, Touched
    <3> QED
      BY <3>1, <3>2, <3>3
  <2>3. ASSUME job.op = "correction"
        PROVE  PartOf(new)' <=> PartOf(job)
    <3>1. PartOf(job) <=> /\ engine.torn = {} /\ engine.index = Published
                          /\ engine.applied \cup {job.fix} = 1..fixes.count
      BY <1>2, <2>3, PartsAre
    <3>2. PartOf(new)' <=> /\ engine'.torn = {} /\ engine'.index = Published'
                           /\ engine'.applied \cup {new.fix} = 1..fixes'.count
      BY <2>3, Zenon DEF PartOf, Removing
    <3> QED
      BY <3>1, <3>2
  <2>4. ASSUME job.op = "reuse_document"
        PROVE  PartOf(new)' <=> PartOf(job)
    <3>1. PartOf(job) <=> IndexIs(Published)
      BY <1>2, <2>4, PartsAre
    <3>2. PartOf(new)' <=> IndexIs(Published)'
      BY <2>4, Zenon DEF PartOf, Removing
    <3> QED
      BY <3>1, <3>2 DEF IndexIs
  <2> QED
    BY <2>1, <2>2, <2>3, <2>4
<1> QED
  BY <1>1, <1>2

\* Steps that leave the index, the published versions and the corrections.
LEMMA IndexStill ==
    ASSUME RowsInv, IndexInv, engine' = engine, Published' = Published, fixes' = fixes,
           kb'.status = "ready" => kb.status = "ready",
           \/ ~ Open'
           \/ /\ Open /\ LastJob' \in JobRows
              /\ LastJob'.op = LastJob.op /\ LastJob'.doc = LastJob.doc
              /\ LastJob'.version = LastJob.version /\ LastJob'.previous = LastJob.previous
              /\ LastJob'.fix = LastJob.fix,
           worker'.pc \notin {"writing", "written"}
    PROVE  IndexInv'
<1>1. kb'.status = "ready" => IndexIs(Published)'
  BY DEF IndexInv, IndexIs
<1>2. ASSUME Open', ~ Rebuilds(LastJob)'
      PROVE  PartOf(LastJob)'
  <2>1. /\ Open /\ LastJob' \in JobRows
        /\ LastJob'.op = LastJob.op /\ LastJob'.doc = LastJob.doc
        /\ LastJob'.version = LastJob.version /\ LastJob'.previous = LastJob.previous
        /\ LastJob'.fix = LastJob.fix
    BY <1>2
  <2>2. LastJob \in JobRows
    BY <2>1, Queues DEF RowsInv, Open, Live
  <2>3. Rebuilds(LastJob)' <=> Rebuilds(LastJob)
    BY <2>1 DEF Rebuilds
  <2>4. PartOf(LastJob)
    BY <1>2, <2>1, <2>3 DEF IndexInv
  <2> QED
    BY <1>2, <2>1, <2>2, <2>3, <2>4, PartStill
<1> QED
  BY <1>1, <1>2 DEF IndexInv

\* What a job is to publish, as long as the rows stay.
LEMMA OutcomeSame ==
    ASSUME UNCHANGED <<docs, versions, fixes>>, NEW job
    PROVE  /\ Published' = Published /\ Selected(job)' = Selected(job)
           /\ Rebuilds(job)' = Rebuilds(job) /\ Outcome(job)' = Outcome(job)
<1>1. Published' = Published
  BY DEF Published, Current
<1>2. Selected(job)' = Selected(job)
  <2>1. \A d : Of(d)' = Of(d)
    BY DEF Of
  <2>2. \A d : Chosen(d)' = Chosen(d)
    BY <2>1 DEF Chosen
  <2> QED
    BY <2>1, <2>2 DEF Selected
<1>3. Rebuilds(job)' = Rebuilds(job)
  BY Zenon DEF Rebuilds
<1>4. Outcome(job)' = Outcome(job)
  <2>1. CASE Rebuilds(job)
    BY <1>2, <1>3, <2>1 DEF Outcome
  <2>2. CASE ~ Rebuilds(job)
    BY <1>1, <1>3, <2>2 DEF Outcome
  <2> QED
    BY <2>1, <2>2
<1> QED
  BY <1>1, <1>2, <1>3, <1>4

\* Steps that have nothing to do with the index.
LEMMA IndexSame ==
    ASSUME IndexInv, UNCHANGED <<docs, versions, fixes, jobs, engine, worker>>,
           kb'.status = kb.status
    PROVE  IndexInv'
<1>1. /\ Published' = Published
      /\ LastJob' = LastJob /\ (Open' <=> Open) /\ Job0' = Job0
  BY DEF Published, Current, LastJob, Open, Live, Job0
<1>2. ASSUME NEW job
      PROVE  /\ Rebuilds(job)' = Rebuilds(job) /\ Outcome(job)' = Outcome(job)
             /\ PartOf(job)' <=> PartOf(job)
  <2>1. IndexIs(Published)' <=> IndexIs(Published)
    BY <1>1 DEF IndexIs
  <2>2. PartOf(job)' <=> PartOf(job)
    BY <1>1, <2>1 DEF PartOf
  <2> QED
    BY <2>2, OutcomeSame
<1>3. kb'.status = "ready" => IndexIs(Published)'
  BY <1>1 DEF IndexInv, IndexIs
<1>4. Open' /\ ~ Rebuilds(LastJob)' => PartOf(LastJob)'
  BY <1>1, <1>2 DEF IndexInv
<1>5. worker'.pc \in {"writing", "written"} => (worker'.whole = Rebuilds(Job0)')
  <2>1. Rebuilds(Job0)' = Rebuilds(Job0)
    BY <1>1, Zenon DEF Rebuilds, Removing
  <2> QED
    BY <2>1, Zenon DEF IndexInv
<1>6. worker'.pc = "written" /\ Job0'.op # "delete_knowledge_base" => IndexIs(Outcome(Job0))'
  BY <1>1, <1>2 DEF IndexInv, IndexIs
<1> QED
  BY <1>3, <1>4, <1>5, <1>6 DEF IndexInv

\* The acceptance of a job for a base whose index is whole.
LEMMA IndexAsked ==
    ASSUME RowsInv, IndexInv, kb.status = "ready", NEW job, Admits(job), LastJob' = job,
           Published' = Published,
           job.op # "correction" => fixes' = fixes,
           job.op = "correction" =>
             fixes'.count = fixes.count + 1 /\ job.fix = fixes.count + 1
    PROVE  IndexInv'
<1> TypeOK /\ OneJobAtATime
  BY DEF RowsInv
<1>1. /\ engine' = engine /\ worker' = worker /\ kb'.status = "updating" /\ job \in JobRows
      /\ worker.pc \notin {"writing", "written"}
      /\ engine.torn = {} /\ engine.index = Published /\ engine.applied = 1..fixes.count
      /\ fixes.count \in Nat
  BY AdmissionTyped, Bounds DEF Admits, LockFree, IndexInv, IndexIs, TypeOK
<1>2. ASSUME ~ Rebuilds(job)'
      PROVE  PartOf(job)'
  <2>1. job.op \in Removing \cup {"ingest_document", "correction", "reuse_document"}
    BY <1>1, <1>2 DEF JobRows, Operations, Rebuilds, Removing
  <2>2. CASE job.op \in Removing \cup {"ingest_document"}
    <3>1. PartOf(job)' <=> /\ engine'.torn \subseteq Touched(job)
                           /\ engine'.index \ Touched(job) = Published' \ Touched(job)
      BY <2>2, Zenon DEF PartOf, Removing, Touched
    <3> QED
      BY <1>1, <3>1
  <2>3. CASE job.op = "correction"
    <3>1. PartOf(job)' <=> /\ engine'.torn = {} /\ engine'.index = Published'
                           /\ engine'.applied \cup {job.fix} = 1..fixes'.count
      BY <2>3, Zenon DEF PartOf, Removing
    <3>2. (1..fixes.count) \cup {fixes.count + 1} = 1..(fixes.count + 1)
      BY <1>1
    <3> QED
      BY <1>1, <2>3, <3>1, <3>2
  <2>4. CASE job.op = "reuse_document"
    <3>1. PartOf(job)' <=> IndexIs(Published)'
      BY <2>4, Zenon DEF PartOf, Removing
    <3> QED
      BY <1>1, <2>4, <3>1 DEF IndexIs
  <2> QED
    BY <2>1, <2>2, <2>3, <2>4
<1>3. Open' /\ ~ Rebuilds(LastJob)' => PartOf(LastJob)'
  BY <1>2 DEF Rebuilds
<1> QED
  BY <1>1, <1>3 DEF IndexInv

\* The index after an upload was accepted.
LEMMA UploadIndexed ==
    ASSUME RowsInv, IndexInv, NEW v \in Versions, BeginUpload(v)
    PROVE  IndexInv'
<1>0. PICK d, job : d = upload[v].doc /\ job = jobs'[Len(jobs')]
  OBVIOUS
<1>1. /\ d \in Documents /\ ~ Stored(v) /\ docs[d].status \in {"absent", "active"}
      /\ kb.status = "ready" /\ Admits(job) /\ LastJob' = job
      /\ job.op = (IF docs[d].status = "absent" THEN "ingest_document" ELSE "replace_document")
      /\ docs'[d].status = (IF docs[d].status = "absent" THEN "pending" ELSE "active")
      /\ docs'[d].current = docs[d].current
      /\ \A c \in Documents : c # d => docs'[c] = docs[c]
      /\ versions'[v] = [doc |-> d, status |-> "pending", path |-> TRUE]
      /\ \A w \in Versions : w # v => versions'[w] = versions[w]
      /\ fixes' = fixes
  BY <1>0, UploadWrites
<1>2. ASSUME NEW w \in Versions
      PROVE  Current(w)' <=> Current(w)
  <2>1. CASE w = v
    BY <1>1, <2>1 DEF Current, Stored
  <2>2. CASE w # v
    <3>1. versions'[w] = versions[w]
      BY <1>1, <2>2
    <3>2. CASE versions[w].status = "active"
      <4>1. versions[w].doc \in Documents
        BY <3>2 DEF RowsInv, RowsRefer, Stored
      <4> QED
        BY <1>1, <3>1, <4>1 DEF Current
    <3>3. CASE versions[w].status # "active"
      BY <3>1, <3>3 DEF Current
    <3> QED
      BY <3>2, <3>3
  <2> QED
    BY <2>1, <2>2
<1>3. Published' = Published
  BY <1>2 DEF Published
<1>4. job.op # "correction"
  BY <1>1
<1> QED
  BY <1>1, <1>3, <1>4, IndexAsked

\* The index after another job was accepted.
LEMMA RequestIndexed ==
    ASSUME RowsInv, IndexInv, NEW job \in JobRows, AskedFor(job)
    PROVE  IndexInv'
<1> TypeOK /\ OneJobAtATime
  BY DEF RowsInv
<1>1. /\ Admits(job) /\ docs' = docs /\ versions' = versions /\ LastJob' = job
      /\ engine' = engine /\ worker' = worker /\ kb'.status = "updating"
      /\ worker.pc \notin {"writing", "written"}
  BY AdmissionTyped, Appends DEF AskedFor, Asks, Admits, BeginJob, LockFree
<1>2. Published' = Published
  BY <1>1, PublishedStill
<1>3. CASE kb.status = "ready" /\ job.op = "correction" /\ job.fix = fixes.count + 1
             /\ \E identity \in BOOLEAN :
                  fixes' = [count |-> fixes.count + 1, identity |-> fixes.identity \/ identity]
  <2>1. fixes'.count = fixes.count + 1
    BY <1>3
  <2> QED
    BY <1>1, <1>2, <1>3, <2>1, IndexAsked
<1>4. CASE kb.status = "ready" /\ job.op # "correction" /\ fixes' = fixes
  BY <1>1, <1>2, <1>4, IndexAsked
<1>5. CASE /\ Open /\ kb.status = "dirty" /\ fixes' = fixes
           /\ job.op = LastJob.op /\ job.doc = LastJob.doc /\ job.fix = LastJob.fix
           /\ job.version = LastJob.version /\ job.previous = LastJob.previous
  BY <1>1, <1>2, <1>5, IndexStill
<1>6. CASE job.op = "rebuild" /\ fixes' = fixes
  <2>1. Rebuilds(LastJob)'
    BY <1>1, <1>6 DEF Rebuilds
  <2> QED
    BY <1>1, <2>1 DEF IndexInv
<1>7. job.op = "delete_document" \/ job.op = "delete_knowledge_base" \/ job.op = "reuse_document"
        => job.op # "correction"
  OBVIOUS
<1> QED
  BY <1>3, <1>4, <1>5, <1>6, <1>7 DEF AskedFor

-----------------------------------------------------------------------------
(***************************************************************************)
(* The index: the steps of the worker                                      *)
(***************************************************************************)

\* A write begins: what it does not touch stays.
LEMMA WriteBegins ==
    ASSUME RowsInv, IndexInv, StartWrite
    PROVE  IndexInv'
<1> TypeOK /\ OneJobAtATime
  BY DEF RowsInv
<1>0. PICK job : job = LastJob
  OBVIOUS
<1>1. /\ worker.pc = "claimed" /\ worker.pc \in AtWork
      /\ Job0 = job /\ job \in JobRows /\ Open /\ kb.status = "updating"
  BY <1>0, JobAtHand DEF StartWrite, Writing, AtWork
<1>2. /\ UNCHANGED <<docs, versions, fixes, jobs>> /\ kb' = kb
      /\ worker' = [worker EXCEPT !.pc = "writing", !.whole = Rebuilds(Job0)]
      /\ LastJob' = job
  BY <1>0 DEF StartWrite, Writing, rows, LastJob
<1>3. worker'.pc = "writing" /\ worker'.whole = Rebuilds(Job0) /\ Job0' = Job0
  BY <1>2 DEF TypeOK, Job0
<1>4. Published' = Published /\ Rebuilds(job)' = Rebuilds(job)
  BY <1>2, OutcomeSame
<1>5. ASSUME ~ Rebuilds(job)
      PROVE  PartOf(job)'
  <2>1. PartOf(job) /\ ~ Rebuilds(Job0)
    BY <1>0, <1>1, <1>5 DEF IndexInv
  <2>2. job.op \in Removing \cup {"ingest_document", "correction", "reuse_document"}
    BY <1>1, <1>5, PartsAre
  <2>3. CASE job.op \in Removing \cup {"ingest_document"}
    <3>1. engine' = [engine EXCEPT !.torn = @ \cup Touched(job), !.applied = {}]
      BY <1>1, <2>1, <2>3, Zenon DEF StartWrite, Writing, Removing
    <3>2. engine'.torn = engine.torn \cup Touched(job) /\ engine'.index = engine.index
      BY <3>1 DEF TypeOK
    <3> QED
      BY <1>4, <2>1, <2>3, <3>2 DEF PartOf
  <2>4. CASE job.op = "correction"
    <3>1. engine' = [engine EXCEPT !.applied = @ \ {job.fix}]
      BY <1>1, <2>1, <2>4, Zenon DEF StartWrite, Writing
    <3>2. /\ engine'.torn = engine.torn /\ engine'.index = engine.index
          /\ engine'.applied = engine.applied \ {job.fix}
      BY <3>1 DEF TypeOK
    <3>3. engine'.applied \cup {job.fix} = engine.applied \cup {job.fix}
      BY <3>2
    <3> QED
      BY <1>2, <1>4, <2>1, <2>4, <3>2, <3>3 DEF PartOf, Removing
  <2>5. CASE job.op = "reuse_document"
    <3>1. engine' = engine
      BY <1>1, <2>1, <2>5, Zenon DEF StartWrite, Writing
    <3> QED
      BY <1>2, <1>4, <2>1, <2>5, <3>1 DEF PartOf, Removing, IndexIs
  <2> QED
    BY <2>2, <2>3, <2>4, <2>5
<1>6. ~ Rebuilds(LastJob)' => PartOf(LastJob)'
  BY <1>2, <1>4, <1>5
<1>7. worker'.whole = Rebuilds(Job0)'
  <2>1. Rebuilds(Job0)' = Rebuilds(job)'
    BY <1>1, <1>3, Zenon
  <2> QED
    BY <1>1, <1>3, <1>4, <2>1, Zenon
<1> QED
  BY <1>1, <1>2, <1>3, <1>6, <1>7 DEF IndexInv

\* A write is done: the index holds what the job will have published.
LEMMA WriteEnds ==
    ASSUME RowsInv, IndexInv, FinishWrite
    PROVE  IndexInv'
<1> TypeOK /\ OneJobAtATime
  BY DEF RowsInv
<1>0. PICK job, out : job = LastJob /\ out = Outcome(LastJob)
  OBVIOUS
<1>1. /\ worker.pc = "writing" /\ worker.pc \in AtWork
      /\ Job0 = job /\ job \in JobRows /\ Open /\ kb.status = "updating" /\ JobFits(job)
      /\ out = Outcome(job)
  BY <1>0, JobAtHand, JobsName DEF FinishWrite, AtWork
<1>2. /\ UNCHANGED <<docs, versions, fixes, jobs>> /\ kb'.status = kb.status
      /\ worker' = [worker EXCEPT !.pc = "written"]
      /\ LastJob' = job /\ engine' = Written(job)
  BY <1>0, <1>1 DEF FinishWrite, Goto, LastJob, TypeOK
<1>3. worker'.pc = "written" /\ worker'.whole = worker.whole /\ Job0' = job
  BY <1>1, <1>2 DEF TypeOK, Job0
<1>4. /\ Published' = Published /\ Rebuilds(job)' = Rebuilds(job)
      /\ Selected(job)' = Selected(job) /\ Outcome(job)' = out
  BY <1>1, <1>2, OutcomeSame
<1>5. worker.whole = Rebuilds(job)
  <2>1. worker.whole = Rebuilds(Job0)
    BY <1>1 DEF IndexInv
  <2> QED
    BY <1>1, <2>1, Zenon
<1>6. ASSUME Rebuilds(job), job.op # "delete_knowledge_base"
      PROVE  engine'.torn = {} /\ engine'.index = out /\ engine'.applied = 1..fixes.count
  <2>1. Written(job) = [index |-> Selected(job), torn |-> {}, applied |-> 1..fixes.count]
    BY <1>5, <1>6 DEF Written
  <2>2. out = Selected(job)
    BY <1>1, <1>6 DEF Outcome
  <2> QED
    BY <1>2, <2>1, <2>2
<1>7. ASSUME ~ Rebuilds(job)
      PROVE  /\ PartOf(job)'
             /\ engine'.torn = {} /\ engine'.index = out /\ engine'.applied = 1..fixes.count
  <2>1. PartOf(job) /\ ~ worker.whole
    BY <1>0, <1>1, <1>5, <1>7 DEF IndexInv
  <2>2. /\ job.op \in Removing \cup {"ingest_document", "correction", "reuse_document"}
        /\ job.op = "ingest_document" => Touched(job) = {job.version}
        /\ job.op = "replace_document" => Touched(job) = {job.version, job.previous} \ {0}
        /\ job.op = "delete_document" => Touched(job) = {job.version} \ {0}
    BY <1>1, <1>7, PartsAre
  <2>3. 0 \notin engine.index /\ 0 \notin Published
    BY Bounds DEF TypeOK, Published, Versions
  <2>4. CASE job.op \in Removing \cup {"ingest_document"}
    <3>1. /\ engine.torn \subseteq Touched(job)
          /\ engine.index \ Touched(job) = Published \ Touched(job)
      BY <2>1, <2>4 DEF PartOf
    <3>2. CASE job.op \in Brings
      <4>1. Written(job) = [index |-> (engine.index \ {job.previous}) \cup {job.version},
                            torn |-> engine.torn \ Touched(job), applied |-> 1..fixes.count]
        BY <2>1, <3>2, Zenon DEF Written, Brings
      <4>2. out = (Published \ {job.previous}) \cup {job.version}
        BY <1>1, <1>7, <3>2 DEF Outcome
      <4>3. job.op = "ingest_document" => job.previous = 0
        BY <1>1 DEF JobFits, Brings
      <4>4. (engine.index \ {job.previous}) \cup {job.version} = out
        BY <2>2, <2>3, <3>1, <3>2, <4>2, <4>3 DEF Brings
      <4>5. engine'.torn = {} /\ engine'.index = out /\ engine'.applied = 1..fixes.count
        BY <1>2, <3>1, <4>1, <4>4
      <4>6. out \ Touched(job) = Published \ Touched(job)
        <5>1. job.version # 0
          BY <1>1, <3>2, Bounds DEF JobFits, Of, Versions
        <5> QED
          BY <2>2, <2>3, <3>2, <4>2, <4>3, <5>1 DEF Brings
      <4> QED
        BY <1>4, <2>4, <4>5, <4>6 DEF PartOf
    <3>3. CASE job.op = "delete_document"
      <4>1. Written(job) = [index |-> engine.index \ {job.version},
                            torn |-> engine.torn \ Touched(job), applied |-> 1..fixes.count]
        BY <2>1, <3>3, Zenon DEF Written
      <4>2. out = Published \ {job.version}
        BY <1>1, <1>7, <3>3 DEF Outcome, Brings
      <4>3. engine.index \ {job.version} = out
        BY <2>2, <2>3, <3>1, <3>3, <4>2
      <4>4. engine'.torn = {} /\ engine'.index = out /\ engine'.applied = 1..fixes.count
        BY <1>2, <3>1, <4>1, <4>3
      <4>5. out \ Touched(job) = Published \ Touched(job)
        BY <2>2, <2>3, <3>3, <4>2
      <4> QED
        BY <1>4, <2>4, <4>4, <4>5 DEF PartOf
    <3> QED
      BY <2>4, <3>2, <3>3 DEF Removing, Brings
  <2>5. CASE job.op = "correction"
    <3>1. Written(job) = [engine EXCEPT !.applied = @ \cup {job.fix}]
      BY <2>1, <2>5, Zenon DEF Written
    <3>2. /\ engine.torn = {} /\ engine.index = Published
          /\ engine.applied \cup {job.fix} = 1..fixes.count
      BY <2>1, <2>5 DEF PartOf, Removing
    <3>3. /\ engine'.torn = engine.torn /\ engine'.index = engine.index
          /\ engine'.applied = engine.applied \cup {job.fix}
      BY <1>2, <3>1 DEF TypeOK
    <3>4. out = Published
      BY <1>1, <1>7, <2>5 DEF Outcome, Brings
    <3>5. engine'.applied \cup {job.fix} = 1..fixes.count
      BY <3>2, <3>3
    <3> QED
      BY <1>2, <1>4, <2>5, <3>2, <3>3, <3>4, <3>5 DEF PartOf, Removing
  <2>6. CASE job.op = "reuse_document"
    <3>1. Written(job) = engine
      BY <2>1, <2>6, Zenon DEF Written
    <3>2. IndexIs(Published)
      BY <2>1, <2>6 DEF PartOf, Removing
    <3>3. out = Published
      BY <1>1, <1>7, <2>6 DEF Outcome, Brings
    <3> QED
      BY <1>2, <1>4, <2>6, <3>1, <3>2, <3>3 DEF PartOf, Removing, IndexIs
  <2> QED
    BY <2>2, <2>4, <2>5, <2>6
<1>8. worker'.whole = Rebuilds(Job0)'
  <2>1. Rebuilds(Job0)' = Rebuilds(job)'
    BY <1>3, Zenon
  <2> QED
    BY <1>3, <1>4, <1>5, <2>1, Zenon
<1>9. job.op # "delete_knowledge_base" => IndexIs(Outcome(Job0))'
  BY <1>2, <1>3, <1>4, <1>6, <1>7 DEF IndexIs
<1>10. ~ Rebuilds(LastJob)' => PartOf(LastJob)'
  BY <1>2, <1>4, <1>7
<1> QED
  BY <1>1, <1>2, <1>3, <1>8, <1>9, <1>10 DEF IndexInv

\* Every step keeps the invariant of the index.
LEMMA IndexKept ==
    ASSUME RowsInv, IndexInv, Acknowledged, RefusesNothing, [Next]_vars
    PROVE  IndexInv'
<1> TypeOK /\ OneJobAtATime /\ RowsRefer
  BY DEF RowsInv
<1>1. ASSUME NEW v \in Versions, UploadMoves(v)
      PROVE  IndexInv'
  BY <1>1, IndexSame DEF UploadMoves
<1>2. ASSUME NEW v \in Versions, BeginUpload(v)
      PROVE  IndexInv'
  BY <1>2, UploadIndexed
<1>3. ASSUME NEW job \in JobRows, AskedFor(job)
      PROVE  IndexInv'
  BY <1>3, RequestIndexed
<1>4. CASE Rename
  BY <1>4, IndexSame DEF Rename, TypeOK
<1>5. ASSUME engine' = engine, docs' = docs, versions' = versions, fixes' = fixes, Live,
             LastJob' = [LastJob EXCEPT !.status = "running"] \/ LastJob' = LastJob
               \/ LastJob' = [LastJob EXCEPT !.status = "failed"],
             kb'.status # "ready", worker'.pc \notin {"writing", "written"}
      PROVE  IndexInv'
  <2>1. LastJob \in JobRows /\ Open
    BY <1>5, Queues DEF Live, Open
  <2>2. /\ LastJob' \in JobRows
        /\ LastJob'.op = LastJob.op /\ LastJob'.doc = LastJob.doc
        /\ LastJob'.version = LastJob.version /\ LastJob'.previous = LastJob.previous
        /\ LastJob'.fix = LastJob.fix
    BY <1>5, <2>1 DEF JobRows
  <2>3. Published' = Published
    BY <1>5 DEF Published, Current
  <2> QED
    BY <1>5, <2>1, <2>2, <2>3, IndexStill
<1>6. CASE Claim
  BY <1>5, <1>6, ClaimsTheLast DEF OneJobAtATime
<1>7. CASE FailWrite \/ LoseFinish \/ (FailJob /\ worker'.pc = "recover")
  <2>1. /\ UNCHANGED <<docs, versions, fixes, jobs, engine>>
        /\ worker' = [worker EXCEPT !.pc = "failing"] \/ worker' = [worker EXCEPT !.pc = "recover"]
        /\ worker.pc \in AtWork
    BY <1>7 DEF FailWrite, LoseFinish, FailJob, Goto, rows, Fault, Acknowledged, AtWork, TypeOK
  <2>2. /\ LastJob' = LastJob /\ kb'.status = kb.status
    BY <1>7, <2>1, WorkersToil DEF LastJob, Toils
  <2>3. worker'.pc \in {"failing", "recover"}
    BY <2>1 DEF TypeOK
  <2>4. Live /\ kb.status = "updating"
    BY <2>1, JobAtHand
  <2> QED
    BY <1>5, <2>1, <2>2, <2>3, <2>4
<1>8. CASE FinishJob
  <2>0. PICK job : job = LastJob
    OBVIOUS
  <2>1. /\ worker.pc = "written" /\ job \in JobRows /\ JobFits(job) /\ Job0 = job
        /\ PublishesRows(job) /\ Publishes(job) /\ ~ Live'
        /\ worker'.pc \in {"sweep", "idle"}
        /\ fixes' = fixes /\ engine' = engine
    <3>1. worker'.pc \in {"sweep", "idle"}
      BY <1>8, FinishesJob DEF TypeOK
    <3> QED
      BY <1>8, <2>0, <3>1, FinishesJob
  <2>2. kb'.status = IF job.op = "delete_knowledge_base" THEN "deleting" ELSE "ready"
    BY <2>1 DEF PublishesRows, TypeOK
  <2>3. ASSUME job.op # "delete_knowledge_base"
        PROVE  IndexIs(Published)'
    <3>1. Outcome(job) = Published'
      BY <2>1, <2>3, OutcomeIsPublished
    <3>2. IndexIs(Outcome(job))
      BY <2>1, <2>3 DEF IndexInv
    <3> QED
      BY <2>1, <3>1, <3>2 DEF IndexIs
  <2> QED
    BY <2>1, <2>2, <2>3 DEF IndexInv, Open
<1>9. ASSUME WorkerTurn
      PROVE  IndexInv' \/ Ends
  <2>1. CASE StartWrite \/ FinishWrite
    BY <2>1, WriteBegins, WriteEnds
  <2>2. ~ StartRefused
    BY DEF StartRefused, Fault, RefusesNothing
  <2>3. CASE (FailJob /\ worker'.pc # "recover") \/ Recover
    BY <2>3, JobsEnd
  <2> QED
    BY <1>6, <1>7, <1>8, <1>9, <2>1, <2>2, <2>3 DEF WorkerTurn
<1>10. CASE Ends
  <2>1. worker'.pc = "idle"
    BY <1>10 DEF Ends, TypeOK
  <2>2. CASE jobs # <<>> /\ LastJob.status = "running"
    BY <1>5, <1>10, <2>1, <2>2 DEF Ends, Live
  <2>3. CASE jobs' = jobs /\ kb'.status = kb.status
    <3>1. LastJob' = LastJob /\ (Open' <=> Open) /\ (Open => LastJob \in JobRows)
      BY <2>3, Queues DEF LastJob, Open, Live
    <3>2. Published' = Published
      BY <1>10 DEF Ends, Published, Current
    <3> QED
      BY <1>10, <2>1, <2>3, <3>1, <3>2, IndexStill DEF Ends
  <2>4. CASE jobs' = jobs /\ kb.status = "ready" /\ kb'.status = "dirty"
    <3>1. ~ Open'
      BY <2>4 DEF Open, Live, LastJob, OneJobAtATime
    <3>2. Published' = Published
      BY <1>10 DEF Ends, Published, Current
    <3> QED
      BY <1>10, <2>1, <2>4, <3>1, <3>2, IndexStill DEF Ends
  <2> QED
    BY <1>10, <2>2, <2>3, <2>4 DEF Ends
<1>11. ASSUME engine' = engine, docs' = docs, fixes' = fixes, jobs' = jobs,
              kb'.status = kb.status, worker'.pc \notin {"writing", "written"},
              \A v \in Versions : /\ versions'[v].status = versions[v].status
                                  /\ versions'[v].doc = versions[v].doc
       PROVE  IndexInv'
  <2>1. LastJob' = LastJob /\ (Open' <=> Open) /\ (Open => LastJob \in JobRows)
    BY <1>11, Queues DEF LastJob, Open, Live
  <2>2. Published' = Published
    BY <1>11, PublishedStill
  <2> QED
    BY <1>11, <2>1, <2>2, IndexStill
<1>12. CASE Sweeps
  BY <1>11, <1>12 DEF Sweeps, AtWork
<1>13. CASE PurgeRows \/ MarkPurged
  <2>1. kb'.status \in {"deleting", "deleted"} /\ worker'.pc \in {"directory", "unlink"}
    BY <1>13 DEF PurgeRows, MarkPurged, OneJobAtATime, TypeOK, Goto
  <2>2. ~ Live'
    BY <2>1, OneJobKept DEF OneJobAtATime
  <2> QED
    BY <2>1, <2>2 DEF IndexInv, Open
<1>14. CASE Crash
  <2>1. worker'.pc = "down"
    BY <1>14 DEF Crash
  <2> QED
    BY <1>11, <1>14, <2>1 DEF Crash, rows
<1>15. CASE UNCHANGED vars
  BY <1>15, IndexSame DEF vars
<1> QED
  BY <1>1, <1>2, <1>3, <1>4, <1>6, <1>8, <1>9, <1>10, <1>12, <1>13, <1>14, <1>15, Steps

\* The invariant of the index holds at first.
LEMMA IndexStart ==
    ASSUME Init
    PROVE  IndexInv
<1>1. Published = {} /\ fixes.count = 0 /\ jobs = <<>> /\ worker.pc = "idle"
      /\ engine = [index |-> {}, torn |-> {}, applied |-> {}]
  <2>1. \A v \in Versions : versions[v].status = "absent"
    BY DEF Init
  <2> QED
    BY <2>1 DEF Init, Published, Current
<1>2. 1..0 = {}
  OBVIOUS
<1>3. IndexIs(Published)
  BY <1>1, <1>2 DEF IndexIs
<1> QED
  BY <1>1, <1>3 DEF IndexInv, Open, Live

\* Wherever a job is cut off the index holds the published versions, but for
\* those of the job: the inductive invariant of the index.
THEOREM IndexInOrder ==
    ASSUME Acknowledged, RefusesNothing
    PROVE  Spec => []IndexInv
<1>1. Init => IndexInv
  BY IndexStart
<1>2. RowsInv /\ IndexInv /\ [Next]_vars => IndexInv'
  BY IndexKept
<1> QED
  BY <1>1, <1>2, RowsInOrder, PTL DEF Spec

\* A base that answers has a whole index of exactly the published versions,
\* however jobs fail, are cut off and are retried.
THEOREM ReadyIndexIsWhole ==
    ASSUME Acknowledged, RefusesNothing
    PROVE  Spec => []ReadyIsWhole
<1>1. IndexInv => ReadyIsWhole
  BY DEF IndexInv, IndexIs, ReadyIsWhole, Queryable, Published
<1> QED
  BY <1>1, IndexInOrder, PTL

-----------------------------------------------------------------------------
(***************************************************************************)
(* The abstract library                                                    *)
(***************************************************************************)

\* What conversations may cite of document d, and what questions are answered
\* from: the refinement mapping.
Cited(d) == IF kb.status \in DeletedKb \/ docs[d].status = "deleted" THEN Gone
            ELSE docs[d].current

Answers == IF Queryable THEN {v \in engine.index \ engine.torn : Current(v)} ELSE Unavailable

\* A base that is deleted stays deleted.
LEMMA DeletedForGood ==
    ASSUME RowsInv, Acknowledged, [Next]_vars, kb.status \in DeletedKb
    PROVE  kb'.status \in DeletedKb
<1> TypeOK /\ OneJobAtATime
  BY DEF RowsInv
<1>1. kb.status \in {"deleting", "deleted"} /\ ~ Live
  BY DEF DeletedKb, OneJobAtATime
<1>2. ASSUME NEW v \in Versions, BeginUpload(v) PROVE FALSE
  BY <1>1, <1>2, UploadWrites
<1>3. ASSUME NEW job \in JobRows, AskedFor(job) PROVE FALSE
  BY <1>1, <1>3 DEF AskedFor, Asks, Admits
<1>4. CASE Ends
  BY <1>1, <1>4 DEF Ends, OneJobAtATime, Live, DeletedKb
<1>5. CASE FinishJob
  BY <1>1, <1>5, FinishesJob
<1>6. CASE Claim
  BY <1>6, <1>1, ClaimsTheLast DEF DeletedKb
<1>7. CASE Rename
  BY <1>1, <1>7 DEF Rename
<1>8. CASE PurgeRows \/ MarkPurged
  BY <1>1, <1>8 DEF PurgeRows, MarkPurged, TypeOK, DeletedKb
<1>9. CASE Toils \/ Sweeps \/ Crash \/ UNCHANGED vars \/ \E v \in Versions : UploadMoves(v)
  BY <1>1, <1>9 DEF Toils, Sweeps, Crash, rows, vars, UploadMoves, DeletedKb
<1> QED
  BY <1>2, <1>3, <1>4, <1>5, <1>6, <1>7, <1>8, <1>9, Steps

\* The published version of a document moves forward, and a deleted document
\* stays deleted.
LEMMA DocumentsForward ==
    ASSUME RowsInv, Acknowledged, [Next]_vars, kb.status \notin DeletedKb, NEW d \in Documents
    PROVE  /\ docs[d].status = "deleted" => docs'[d].status = "deleted"
           /\ \/ docs'[d].current = docs[d].current
              \/ docs'[d].current \in Versions /\ docs[d].current < docs'[d].current
<1> TypeOK /\ OneJobAtATime
  BY DEF RowsInv
<1>1. ASSUME NEW v \in Versions, BeginUpload(v)
      PROVE  docs'[d].current = docs[d].current
               /\ (docs[d].status = "deleted" => docs'[d].status = "deleted")
  <2>1. docs' = IF IsNew(v) THEN [docs EXCEPT ![upload[v].doc] = [status |-> "pending",
                                                                 current |-> 0]] ELSE docs
    BY <1>1 DEF BeginUpload, UploadRows
  <2>2. IsNew(v) => docs[upload[v].doc].status = "absent"
    BY DEF IsNew
  <2>3. docs[d].status = "absent" => docs[d].current = 0
    BY DEF RowsInv, RowsRefer
  <2>4. docs \in [Documents -> [status : {"absent", "pending", "active", "deleted"},
                                current : {0} \cup Versions]]
    BY DEF TypeOK
  <2>5. docs'[d] = docs[d] \/ (docs[d].status = "absent" /\ docs'[d].status = "pending"
                                                        /\ docs'[d].current = 0)
    BY <2>1, <2>2, <2>4
  <2> QED
    BY <2>3, <2>5
<1>2. CASE FinishJob
  <2>1. PICK job : Publishes(job)
    BY <1>2, FinishesJob
  <2>2. /\ docs[d].status = "deleted" => docs'[d] = docs[d]
        /\ docs'[d].current \in {docs[d].current} \cup Of(d)
        /\ docs[d].current <= docs'[d].current
    BY <2>1 DEF Publishes
  <2>3. Of(d) \subseteq Versions /\ Versions \subseteq Nat /\ docs[d].current \in Nat
    BY Bounds DEF Of, Versions, TypeOK
  <2>4. PICK old, new : old = docs[d].current /\ new = docs'[d].current
    OBVIOUS
  <2>5. old \in Nat /\ (new = old \/ new \in Versions) /\ old <= new
    BY <2>2, <2>3, <2>4
  <2>6. new = old \/ (new \in Versions /\ old < new)
    <3>1. new \in Versions => new \in Nat
      BY <2>3
    <3> QED
      BY <2>5, <3>1
  <2> QED
    BY <2>2, <2>4, <2>6
<1>3. ASSUME NEW job \in JobRows, AskedFor(job)
      PROVE  docs' = docs
  BY <1>3 DEF AskedFor, Asks, Admits
<1>4. ~ PurgeRows
  BY DEF PurgeRows, OneJobAtATime, DeletedKb
<1>5. CASE \/ Toils \/ Sweeps \/ Crash \/ Rename \/ MarkPurged \/ UNCHANGED vars
           \/ \E v \in Versions : UploadMoves(v)
           \/ Ends
  BY <1>5 DEF Toils, Sweeps, Crash, rows, vars, UploadMoves, Rename, MarkPurged, Ends
<1>6. CASE Claim
  <2>1. docs' = docs
    BY <1>6, ClaimsTheLast
  <2> QED
    BY <2>1
<1> QED
  BY <1>1, <1>2, <1>3, <1>4, <1>5, <1>6, Steps

\* What is published is what may be cited, and a question is answered from all
\* of it or refused.
AnswersWhole == Answers \in {Unavailable, {v \in Versions : \E d \in Documents : Cited(d) = v}}

\* Answers are whole in every state the invariants allow.
LEMMA AnswersAreWhole ==
    ASSUME RowsInv, IndexInv
    PROVE  AnswersWhole
<1> TypeOK /\ RowsRefer
  BY DEF RowsInv
<1>1. CASE ~ Queryable
  BY <1>1 DEF Answers, AnswersWhole
<1>2. CASE Queryable
  <2>1. kb.status = "ready" /\ kb.status \notin DeletedKb /\ SettledBut(0) /\ IndexIs(Published)
    BY <1>2 DEF Queryable, DeletedKb, RowsInv, JobsFit, IndexInv
  <2>2. Answers = Published
    BY <1>2, <2>1 DEF Answers, IndexIs, Published
  <2>3. ASSUME NEW v \in Versions
        PROVE  Current(v) <=> \E d \in Documents : Cited(d) = v
    <3>1. v # 0 /\ v # Gone
      BY Bounds, GoneAssumption DEF Versions
    <3>2. ASSUME Current(v) PROVE \E d \in Documents : Cited(d) = v
      <4>1. versions[v].doc \in Documents
        BY <3>2 DEF Current, RowsRefer, Stored
      <4>2. Cited(versions[v].doc) = v
        BY <2>1, <3>2 DEF Cited, Current
      <4> QED
        BY <4>1, <4>2
    <3>3. ASSUME NEW d \in Documents, Cited(d) = v PROVE Current(v)
      <4>1. docs[d].status # "deleted" /\ docs[d].current = v
        BY <3>1, <3>3 DEF Cited
      <4>2. docs[d].status = "active"
        BY <2>1, <3>1, <4>1 DEF TypeOK, RowsRefer, SettledBut
      <4>3. versions[v].status = "active" /\ versions[v].doc = d
        BY <2>1, <3>1, <4>1, <4>2 DEF SettledBut, RowsRefer, Of
      <4> QED
        BY <4>1, <4>2, <4>3 DEF Current
    <3> QED
      BY <3>2, <3>3
  <2> QED
    BY <2>2, <2>3 DEF Published, AnswersWhole
<1> QED
  BY <1>1, <1>2

\* The service implements the abstract library: what it publishes only moves
\* forward, what is deleted stays deleted, and questions are answered from all
\* that is published or refused.
THEOREM ServiceKeepsThePromise ==
    ASSUME Acknowledged, RefusesNothing
    PROVE  Spec => PromiseSpec
<1>1. Init => Promise!Init
  <2> SUFFICES ASSUME Init PROVE Promise!Init
    OBVIOUS
  <2>1. kb.status \notin DeletedKb /\ (\A d \in Documents : docs[d].status # "deleted")
    BY DEF Init, DeletedKb
  <2>2. engine.index = {}
    BY DEF Init
  <2> QED
    BY <2>1, <2>2 DEF Init, Promise!Init
<1>2. ASSUME RowsInv, TypeOK', AnswersWhole', [Next]_vars
      PROVE  [Promise!Next]_<<[d \in Documents |-> Cited(d)], Answers>>
  <2>1. ASSUME NEW d \in Documents
        PROVE  Cited(d)' \in Promise!Forward(Cited(d))
    <3>0. TypeOK /\ TypeOK' /\ docs[d].current \in Nat /\ docs[d].current # Gone
      <4>1. TypeOK /\ TypeOK' /\ docs[d].current \in {0} \cup Versions
        BY <1>2 DEF RowsInv, TypeOK
      <4> QED
        BY <4>1, Bounds, GoneAssumption DEF Versions
    <3>1. CASE Cited(d) = Gone
      <4>1. kb.status \in DeletedKb \/ docs[d].status = "deleted"
        BY <3>0, <3>1 DEF Cited
      <4>2. kb'.status \in DeletedKb \/ docs'[d].status = "deleted"
        BY <1>2, <4>1, DeletedForGood, DocumentsForward
      <4>3. Promise!Forward(Cited(d)) = {Gone}
        BY <3>1, Zenon DEF Promise!Forward
      <4> QED
        BY <4>2, <4>3 DEF Cited
    <3>2. CASE Cited(d) # Gone
      <4>1. kb.status \notin DeletedKb /\ Cited(d) = docs[d].current
        BY <3>2 DEF Cited
      <4>2. Promise!Forward(Cited(d)) = {Gone, Cited(d)} \cup {v \in Versions : v > Cited(d)}
        BY <3>2, Zenon DEF Promise!Forward
      <4>3. \/ docs'[d].current = docs[d].current
            \/ docs'[d].current \in Versions /\ docs[d].current < docs'[d].current
        BY <1>2, <4>1, DocumentsForward
      <4>4. Cited(d)' = Gone \/ Cited(d)' = docs'[d].current
        BY DEF Cited
      <4> QED
        BY <3>0, <4>1, <4>2, <4>3, <4>4
    <3> QED
      BY <3>1, <3>2
  <2>2. Answers' \in {Unavailable, {v \in Versions : \E d \in Documents : Cited(d)' = v}}
    BY <1>2 DEF AnswersWhole
  <2> QED
    BY <2>1, <2>2 DEF Promise!Next, Promise!Live, Cited, Answers
<1>3. ASSUME RowsInv, TypeOK', AnswersWhole', [Next]_vars
      PROVE  [Promise!Next]_<<[d \in Documents |->
                                 IF kb.status \in DeletedKb \/ docs[d].status = "deleted"
                                 THEN Gone ELSE docs[d].current],
                              IF Queryable THEN {v \in engine.index \ engine.torn : Current(v)}
                              ELSE Unavailable>>
  BY <1>2, <1>3 DEF Cited, Answers
<1>4. RowsInv => TypeOK
  BY DEF RowsInv
<1>5. RowsInv /\ IndexInv => AnswersWhole
  BY AnswersAreWhole
<1> QED
  BY <1>1, <1>3, <1>4, <1>5, RowsInOrder, IndexInOrder, PTL DEF Spec, PromiseSpec, Promise!Spec
=============================================================================
