----------------------------- MODULE VectorStore -----------------------------
(***************************************************************************)
(* The documents of services/vectorstore.py: uploads, deletions, queries   *)
(* and the listing that cleans up, over the embedded Chroma store.         *)
(*                                                                         *)
(* Every call to Chroma is a job of one daemon thread.  A request takes a  *)
(* slot of a bounded queue, then the lock of the one active job, and hands *)
(* its job over; the thread gives the lock back before it publishes the    *)
(* result, and the slot returns with the result.  A job that runs cannot   *)
(* be stopped: a request that is cancelled or times out leaves it behind,  *)
(* and may only ask it to stop at its next check.                          *)
(*                                                                         *)
(* An upload is written under a staging name and then renamed.  A deletion *)
(* leaves a tombstone, and its name is never free again.  The chunks of a  *)
(* document are also cached, with their BM25 index, outside of Chroma.     *)
(*                                                                         *)
(* Left out: owners (part of a collection's name), embeddings and ranking, *)
(* and jobs that only search.  Staging collections have any age, and a     *)
(* cached document may be evicted at any time, to make room for another.   *)
(***************************************************************************)
EXTENDS Naturals, FiniteSets

CONSTANTS Calls,      \* requests; an upload brings the text it is named by
          Documents,     \* public document ids
          Old,           \* a text that an earlier release or process stored
          MaxPending,    \* CHROMA_IO_MAX_PENDING
          MaxGeneration, \* bound of the lifecycle generations
          Nothing

ASSUME PoolAssumption == MaxPending \in Nat \ {0} /\ MaxGeneration \in Nat \ {0}
ASSUME NothingAssumption == Nothing \notin Calls \cup Documents \cup {Old}

VARIABLES coll,       \* coll[d]: the collection of document d
          staging,    \* whose staging collection is in the catalog
          cache,      \* cache[d]: the text in the cached index of d, or NotCached
          version,    \* version[d]: fences of the cache that document d has seen
          free,       \* slots nobody holds
          active,     \* who holds the lock of the active job
          accepting, generation,
          worker,     \* whether the daemon thread is alive
          req         \* req[a]

vectorVars == <<coll, staging, cache, version, free, active, accepting, generation, worker, req>>
store == <<coll, staging>>
index == <<cache, version>>
channel == <<free, active>>
life == <<accepting, generation, worker>>

Texts == Calls \cup {Old, Nothing}
NotCached == "not cached"

\* "ghost": no status and no chunks; "legacy": no status, with chunks.
Collections == [status : {"none", "ghost", "legacy", "indexed", "deleting", "deleted"},
                text   : Texts]

Absent == [status |-> "none", text |-> Nothing]
Tombstone == [status |-> "deleted", text |-> Nothing]

\* A job asked to leave checks `asked`; nobody waits for it when `left`.
Idle == [pc |-> "idle", kind |-> Nothing, doc |-> Nothing, late |-> FALSE, job |-> Nothing, step |-> Nothing,
         gen |-> 0, asked |-> FALSE, left |-> FALSE, version |-> 0, reply |-> Nothing]

InChannel == {"queued", "running", "ending"}

Jobs == {"ensure", "deal", "delete", "list", "get", "build"}
Steps == {"ensure", "stage", "publish", "published", "fence", "mark", "purge", "finish",
          "list", "get", "build"}

\* What a request is told, unless it asked for a text.
Messages == {"shutting down", "busy", "cancelled", "failed", "exists", "go on", "indexed",
             "deleted", "listed", "not found", "lost"}

ASSUME NamesAssumption == (Messages \cup Steps) \cap (Calls \cup {Old, Nothing}) = {}

Requests == [pc      : InChannel \cup {"idle", "slot", "active", "discarded", "embed", "lookup", "over"},
             kind    : {"upload", "query", "delete", "list", Nothing},
             doc     : Documents \cup {Nothing},
             late    : BOOLEAN,
             job     : Jobs \cup {Nothing},
             step    : Steps \cup {Nothing},
             gen     : Nat,
             asked   : BOOLEAN,
             left    : BOOLEAN,
             version : Nat,
             reply   : Messages \cup Texts]

VectorTypeOK ==
    /\ coll \in [Documents -> Collections] /\ staging \subseteq Calls
    /\ cache \in [Documents -> Texts \cup {NotCached}]
    /\ version \in [Documents -> Nat]
    /\ free \in Nat /\ active \in Calls \cup {Nothing}
    /\ accepting \in BOOLEAN /\ worker \in BOOLEAN /\ generation \in 1..MaxGeneration
    /\ req \in [Calls -> Requests]
    /\ \A a \in Calls : req[a].pc # "idle" => req[a].doc \in Documents

VectorInit ==
    /\ coll \in [Documents -> {Absent, [status |-> "ghost", text |-> Nothing],
                               [status |-> "legacy", text |-> Old],
                               [status |-> "indexed", text |-> Old],
                               [status |-> "deleting", text |-> Old]}]
    /\ staging = {}
    /\ cache = [d \in Documents |-> NotCached] /\ version = [d \in Documents |-> 0]
    /\ free = MaxPending /\ active = Nothing
    /\ accepting = TRUE /\ generation = 1 /\ worker = FALSE
    /\ req = [a \in Calls |-> Idle]

Go(a, r) == req' = [req EXCEPT ![a] = r]

\* What is remembered of a request: whom it asked and what it was told.
Over(r, reply) == [Idle EXCEPT !.pc = "over", !.kind = r.kind, !.doc = r.doc, !.late = r.late,
                               !.reply = reply]

-----------------------------------------------------------------------------
(***************************************************************************)
(* The channel                                                             *)
(***************************************************************************)
\* A job is asked for under the generation that is open at that moment.
Ask(r, job) ==
    IF accepting
    THEN [r EXCEPT !.pc = "slot", !.job = job, !.gen = generation]
    ELSE Over(r, "shutting down")

FirstJob == [upload |-> "ensure", query |-> "get", delete |-> "delete", list |-> "list"]

Begin(a) ==
    /\ req[a].pc = "idle"
    /\ \E kind \in DOMAIN FirstJob, d \in Documents :
        Go(a, Ask([Idle EXCEPT !.kind = kind, !.doc = d, !.late = coll[d].status = "deleted"],
                  FirstJob[kind]))
    /\ UNCHANGED <<store, index, channel, life>>

TakeSlot(a) ==
    /\ req[a].pc = "slot"
    /\ free > 0
    /\ IF accepting
       THEN free' = free - 1 /\ Go(a, [req[a] EXCEPT !.pc = "active"])
       ELSE UNCHANGED free /\ Go(a, Over(req[a], "shutting down"))
    /\ UNCHANGED <<store, index, active, life>>

\* Mutant: whoever waited longer than a shutdown gets through.
SubmitAnyGeneration(a) ==
    /\ req[a].pc = "active" /\ active = Nothing /\ accepting
    /\ active' = a /\ worker' = TRUE
    /\ Go(a, [req[a] EXCEPT !.pc = "queued"])
    /\ UNCHANGED <<store, index, free, accepting, generation>>

\* A waiter of an earlier lifecycle is turned away, and its slot returns.
Submit(a) ==
    LET r == req[a] IN
    /\ r.pc = "active"
    /\ active = Nothing
    /\ IF accepting /\ r.gen = generation
       THEN /\ active' = a /\ worker' = TRUE /\ UNCHANGED free
            /\ Go(a, [r EXCEPT !.pc = "queued"])
       ELSE /\ free' = free + 1 /\ UNCHANGED <<active, worker>>
            /\ Go(a, Over(r, "shutting down"))
    /\ UNCHANGED <<store, index, accepting, generation>>

\* The wait in the queue times out or is cancelled.
GiveUp(a) ==
    LET r == req[a] IN
    /\ r.pc \in {"slot", "active"}
    /\ free' = IF r.pc = "active" THEN free + 1 ELSE free
    /\ Go(a, Over(r, "busy"))
    /\ UNCHANGED <<store, index, active, life>>

\* A job that did not start is cancelled: its result is final at once, and
\* the thread gives the lock back when it finds it in the queue.
CancelQueued(a) ==
    /\ req[a].pc = "queued"
    /\ free' = free + 1
    /\ Go(a, [req[a] EXCEPT !.pc = "discarded"])
    /\ UNCHANGED <<store, index, active, life>>

ThreadIsFree == \A a \in Calls : req[a].pc \notin {"running", "ending"}

Discard(a) ==
    /\ req[a].pc = "discarded" /\ ThreadIsFree
    /\ active' = Nothing
    /\ Go(a, Over(req[a], "cancelled"))
    /\ UNCHANGED <<store, index, free, life>>

FirstStep(job) == IF job = "deal" THEN "ensure" ELSE IF job = "delete" THEN "fence" ELSE job

Run(a) ==
    LET r == req[a] IN
    /\ r.pc = "queued" /\ ThreadIsFree
    /\ Go(a, [r EXCEPT !.pc = "running", !.step = FirstStep(r.job)])
    /\ UNCHANGED <<store, index, channel, life>>

\* The request is cancelled or its time is up while the job runs.
Leave(a) ==
    /\ req[a].pc \in {"running", "ending"} /\ ~ req[a].left
    /\ Go(a, [req[a] EXCEPT !.left = TRUE, !.asked = TRUE])
    /\ UNCHANGED <<store, index, channel, life>>

\* The thread is done with the job: the lock first, then the result.
End(a, reply) ==
    /\ active' = Nothing
    /\ Go(a, [req[a] EXCEPT !.pc = "ending", !.step = Nothing, !.reply = reply])

Step(a, next) == UNCHANGED active /\ Go(a, [req[a] EXCEPT !.step = next])

\* The result returns the slot and wakes the request, if it still waits.
Settle(a) ==
    LET r == req[a] IN
    /\ r.pc = "ending"
    /\ free' = free + 1
    /\ Go(a, CASE r.left                         -> Over(r, "cancelled")
               [] ~ r.left /\ r.reply = "go on" -> [r EXCEPT !.pc = "embed", !.reply = Nothing]
               [] OTHER                          -> Over(r, r.reply))
    /\ UNCHANGED <<store, index, active, life>>

-----------------------------------------------------------------------------
(***************************************************************************)
(* The cache                                                               *)
(***************************************************************************)
\* Mutant: builders are fenced off, the entry stays.
FenceBuilders(d) == version' = [version EXCEPT ![d] = @ + 1] /\ UNCHANGED cache

\* Dropped, and no builder that began before may store it again.
Fence(d) ==
    /\ version' = [version EXCEPT ![d] = @ + 1]
    /\ cache' = [cache EXCEPT ![d] = NotCached]

-----------------------------------------------------------------------------
(***************************************************************************)
(* The jobs, step by step in the one thread                                *)
(***************************************************************************)
Running(a, job, step) == /\ req[a].pc = "running"
                         /\ req[a].job = job /\ req[a].step = step

SetColl(d, c) == coll' = [coll EXCEPT ![d] = c]

\* Is the name free?  An empty ghost makes way.
EnsureSlot(a) ==
    LET d == req[a].doc
        there == coll[d].status \notin {"none", "ghost"}
        pass == ~ there
    IN
    /\ req[a].pc = "running" /\ req[a].step = "ensure"
    /\ IF coll[d].status = "ghost"
       THEN SetColl(d, Absent) /\ Fence(d)
       ELSE UNCHANGED <<coll, index>>
    /\ CASE ~ pass                         -> End(a, "exists")
         [] pass /\ req[a].job = "ensure" -> End(a, "go on")
         [] OTHER                          -> Step(a, "stage")
    /\ UNCHANGED <<staging, free, life>>

\* The texts go into a collection that only this upload knows the name of.
Stage(a) ==
    /\ Running(a, "deal", "stage")
    /\ IF req[a].asked
       THEN UNCHANGED staging /\ End(a, "cancelled")
       ELSE staging' = staging \cup {a} /\ Step(a, "publish")
    /\ UNCHANGED <<coll, index, free, life>>

\* The rename is refused when the name is taken.
Publish(a) ==
    LET d == req[a].doc IN
    /\ Running(a, "deal", "publish")
    /\ staging' = staging \ {a}
    /\ IF req[a].asked \/ coll[d].status # "none"
       THEN End(a, IF req[a].asked THEN "cancelled" ELSE "exists") /\ UNCHANGED coll
       ELSE Step(a, "published") /\ SetColl(d, [status |-> "indexed", text |-> a])
    /\ UNCHANGED <<index, free, life>>

\* Mutant: the cleanup of a cancelled upload deletes the collection by the
\* name it has by now.
PublishedCleanedUp(a) ==
    /\ Running(a, "deal", "published")
    /\ Fence(req[a].doc)
    /\ IF req[a].asked THEN SetColl(req[a].doc, Absent) ELSE UNCHANGED coll
    /\ End(a, IF req[a].asked THEN "cancelled" ELSE "indexed")
    /\ UNCHANGED <<staging, free, life>>

\* Cancelled or not, the new text is there to stay: the cleanup deletes the
\* staging name, which no longer exists.
Published(a) ==
    /\ Running(a, "deal", "published")
    /\ Fence(req[a].doc)
    /\ End(a, IF req[a].asked THEN "cancelled" ELSE "indexed")
    /\ UNCHANGED <<store, free, life>>

\* Chroma fails: a rename whose answer is lost is told as a conflict, and
\* the cleanup of the staging collection may fail as well.
DealFails(a) ==
    LET d == req[a].doc IN
    /\ req[a].pc = "running" /\ req[a].job = "deal" /\ req[a].step \in {"stage", "publish"}
    /\ \/ /\ staging' \in {staging, staging \ {a}, staging \cup {a}}
          /\ End(a, IF coll[d].status = "none" THEN "failed" ELSE "exists")
          /\ UNCHANGED <<coll, index>>
       \/ /\ req[a].step = "publish" /\ coll[d].status = "none"
          /\ SetColl(d, [status |-> "indexed", text |-> a]) /\ staging' = staging \ {a}
          /\ Fence(d)
          /\ End(a, "exists")
    /\ UNCHANGED <<free, life>>

\* A deletion of what was never there reserves the name as well.
DeleteFence(a) ==
    LET d == req[a].doc IN
    /\ Running(a, "delete", "fence")
    /\ Fence(d)
    /\ CASE coll[d].status = "none"    -> SetColl(d, Tombstone) /\ End(a, "deleted")
         [] coll[d].status = "deleted" -> UNCHANGED coll /\ End(a, "deleted")
         [] OTHER                      -> UNCHANGED coll /\ Step(a, "mark")
    /\ UNCHANGED <<staging, free, life>>

DeleteMark(a) ==
    /\ Running(a, "delete", "mark")
    /\ SetColl(req[a].doc, [coll[req[a].doc] EXCEPT !.status = "deleting"])
    /\ Step(a, "purge")
    /\ UNCHANGED <<staging, index, free, life>>

DeletePurge(a) ==
    /\ Running(a, "delete", "purge")
    /\ SetColl(req[a].doc, [coll[req[a].doc] EXCEPT !.text = Nothing])
    /\ Fence(req[a].doc)
    /\ Step(a, "finish")
    /\ UNCHANGED <<staging, free, life>>

DeleteFinish(a) ==
    /\ Running(a, "delete", "finish")
    /\ SetColl(req[a].doc, Tombstone)
    /\ End(a, "deleted")
    /\ UNCHANGED <<staging, index, free, life>>

\* Any other call that Chroma fails.
JobFails(a) ==
    /\ req[a].pc = "running" /\ req[a].job # "deal"
    /\ End(a, "failed")
    /\ UNCHANGED <<store, index, free, life>>

\* The listing finishes deletions and removes ghosts and staging collections
\* that are old; each of them may fail and waits for the next listing.
Swept(c) ==
    CASE c.status = "deleting" -> {c, [c EXCEPT !.text = Nothing], Tombstone}
      [] c.status = "ghost"    -> {c, Absent}
      [] OTHER                 -> {c}

List(a) ==
    LET dying == {d \in Documents : coll[d].status = "deleting"} IN
    /\ Running(a, "list", "list")
    /\ coll' \in {table \in [Documents -> UNION {Swept(coll[d]) : d \in Documents}] :
                    \A d \in Documents : table[d] \in Swept(coll[d])}
    /\ version' = [d \in Documents |-> IF d \in dying THEN version[d] + 1 ELSE version[d]]
    /\ cache' = [d \in Documents |-> IF d \in dying THEN NotCached ELSE cache[d]]
    /\ staging' \in SUBSET staging
    /\ End(a, "listed")
    /\ UNCHANGED <<free, life>>

\* Whether a query may see the document.
Found(d) == coll[d].status \notin {"none", "deleting", "deleted"}

Get(a) ==
    /\ Running(a, "get", "get")
    /\ End(a, IF Found(req[a].doc) THEN "go on" ELSE "not found")
    /\ UNCHANGED <<store, index, free, life>>

Build(a) ==
    LET r == req[a] IN
    /\ Running(a, "build", "build")
    /\ UNCHANGED version
    /\ CASE cache[r.doc] # NotCached -> UNCHANGED cache /\ End(a, cache[r.doc])
         [] cache[r.doc] = NotCached /\ (r.asked \/ ~ Found(r.doc) \/ r.version # version[r.doc]) ->
              UNCHANGED cache /\ End(a, "not found")
         [] OTHER ->
              /\ cache' = [cache EXCEPT ![r.doc] = coll[r.doc].text]
              /\ End(a, coll[r.doc].text)
    /\ UNCHANGED <<store, free, life>>

-----------------------------------------------------------------------------
(***************************************************************************)
(* Between two jobs                                                        *)
(***************************************************************************)
\* The provider computes embeddings, or does not.
Embed(a) ==
    LET r == req[a] IN
    /\ r.pc = "embed"
    /\ \/ Go(a, Over(r, "failed"))
       \/ r.kind = "upload" /\ Go(a, Ask(r, "deal"))
       \/ r.kind = "query" /\ Go(a, [r EXCEPT !.pc = "lookup"])
    /\ UNCHANGED <<store, index, channel, life>>

LookUp(a) ==
    LET r == req[a] IN
    /\ r.pc = "lookup"
    /\ Go(a, IF cache[r.doc] # NotCached
             THEN Over(r, cache[r.doc])
             ELSE Ask([r EXCEPT !.version = version[r.doc]], "build"))
    /\ UNCHANGED <<store, index, channel, life>>

Evict(d) ==
    /\ cache[d] # NotCached
    /\ cache' = [cache EXCEPT ![d] = NotCached]
    /\ UNCHANGED <<store, version, channel, life, req>>

(***************************************************************************)
(* The life of the channel, and of the process                             *)
(***************************************************************************)
ShutDown ==
    /\ accepting
    /\ accepting' = FALSE
    /\ UNCHANGED <<store, index, channel, generation, worker, req>>

\* The drain may also run out of time: then the thread stays.
StopThread ==
    /\ ~ accepting /\ worker
    /\ active = Nothing /\ \A a \in Calls : req[a].pc \notin InChannel
    /\ worker' = FALSE
    /\ UNCHANGED <<store, index, channel, accepting, generation, req>>

Reopen ==
    /\ ~ accepting /\ ~ worker
    /\ generation < MaxGeneration
    /\ accepting' = TRUE /\ generation' = generation + 1
    /\ UNCHANGED <<store, index, channel, worker, req>>

Crash ==
    /\ req' = [a \in Calls |-> IF req[a].pc \in {"idle", "over"} THEN req[a]
                                  ELSE Over(req[a], "lost")]
    /\ cache' = [d \in Documents |-> NotCached] /\ version' = [d \in Documents |-> 0]
    /\ free' = MaxPending /\ active' = Nothing
    /\ accepting' = TRUE /\ generation' = 1 /\ worker' = FALSE
    /\ UNCHANGED store

VectorNext ==
    \/ \E a \in Calls :
        \/ Begin(a) \/ TakeSlot(a) \/ Submit(a) \/ GiveUp(a) \/ CancelQueued(a) \/ Discard(a)
        \/ Run(a) \/ Leave(a) \/ Settle(a) \/ Embed(a) \/ LookUp(a)
        \/ EnsureSlot(a) \/ Stage(a) \/ Publish(a) \/ Published(a) \/ DealFails(a)
        \/ DeleteFence(a) \/ DeleteMark(a) \/ DeletePurge(a) \/ DeleteFinish(a)
        \/ JobFails(a) \/ List(a) \/ Get(a) \/ Build(a)
    \/ \E d \in Documents : Evict(d)
    \/ ShutDown \/ StopThread \/ Reopen \/ Crash

VectorSpec == VectorInit /\ [][VectorNext]_vectorVars

-----------------------------------------------------------------------------
(***************************************************************************)
(* What must hold                                                          *)
(***************************************************************************)
\* No slot and no lock is lost or given back twice, however waiters time
\* out, jobs are cancelled or abandoned and lifecycles end: a slot is out
\* exactly while somebody waits with it or its job has no result, and no
\* job of an earlier lifecycle is in the channel (_run_chroma_io).
ChannelIsSound ==
    /\ free + Cardinality({a \in Calls : req[a].pc \in InChannel \cup {"active"}}) = MaxPending
    /\ \A a \in Calls :
        /\ active = a <=> req[a].pc \in {"queued", "running", "discarded"}
        /\ req[a].pc \in InChannel => worker /\ req[a].gen = generation

\* Whatever is cached, or was told to a learner, is right: the cache holds
\* no text that its collection does not hold, not even after a deletion
\* that overtook the builder (only a rename is a moment ahead of its fence);
\* an upload that was told "indexed" owns the document unless it was
\* deleted; a query that began after a deletion gets no text.
ServedTextIsPublished ==
    /\ \A d \in Documents :
        cache[d] # NotCached =>
            \/ cache[d] = coll[d].text
            \/ \E a \in Calls : Running(a, "deal", "published") /\ req[a].doc = d
    /\ \A a \in Calls :
        /\ req[a].reply = "indexed" =>
              \/ coll[req[a].doc].text = a
              \/ coll[req[a].doc].status \in {"deleting", "deleted"}
        /\ req[a].kind = "query" /\ req[a].late =>
              req[a].reply \notin Calls \cup {Old}

\* A document with chunks ends only by being deleted, step by step, and a
\* tombstone is for ever: no cleanup, cancelled upload, listing, failure or
\* crash removes or replaces it, and a name once deleted is not used again
\* for another text (learning history is kept under it).
DocumentsEndOnlyByDeletion ==
    [][\A d \in Documents :
        coll'[d] # coll[d] =>
            \/ coll[d].status \in {"none", "ghost"}
            \/ coll[d].status \in {"legacy", "indexed"} /\ coll'[d] = [coll[d] EXCEPT !.status = "deleting"]
            \/ coll[d].status = "deleting" /\ coll'[d].status \in {"deleting", "deleted"}
                                           /\ coll'[d].text = Nothing]_vectorVars
=============================================================================
