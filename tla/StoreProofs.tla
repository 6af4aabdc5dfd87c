---------------------------- MODULE StoreProofs -----------------------------
(***************************************************************************)
(* What two stores that share nothing guarantee.  services/vectorstore.py: *)
(* for any number of requests and documents, any size of the queue, and    *)
(* any number of lifecycles.  services/idempotency.py: for any number of   *)
(* attempts, keys, payloads and responses, any lease, and any number of    *)
(* faults, whatever the handlers behind the receipts do.                   *)
(***************************************************************************)
EXTENDS VectorStore, IdempotencyStore, FiniteSetTheorems, TLAPS

-----------------------------------------------------------------------------
(***************************************************************************)
(* The documents of services/vectorstore.py                                *)
(***************************************************************************)

-----------------------------------------------------------------------------
(***************************************************************************)
(* Types                                                                   *)
(***************************************************************************)

\* A request that has asked for nothing yet.
LEMMA IdleRequest == Idle \in Requests
BY DEF Idle, Requests, InChannel, Texts

\* A request that begins.
LEMMA NewRequests ==
    ASSUME NEW kind \in {"upload", "query", "delete", "list"}, NEW d \in Documents
    PROVE  LET r == [Idle EXCEPT !.kind = kind, !.doc = d, !.late = coll[d].status = "deleted"]
           IN  r \in Requests /\ r.doc = d
<1> DEFINE ended == coll[d].status = "deleted"
<1>1. ended \in BOOLEAN
  OBVIOUS
<1> HIDE DEF ended
<1>2. [Idle EXCEPT !.kind = kind, !.doc = d, !.late = ended] \in Requests
  BY <1>1, IdleRequest DEF Requests
<1>3. [Idle EXCEPT !.kind = kind, !.doc = d, !.late = ended].doc = d
  BY DEF Idle
<1> QED
  BY Zenon, <1>2, <1>3 DEF ended

\* A request that is over remembers whom it asked.
LEMMA FinishedRequests ==
    ASSUME NEW r \in Requests, NEW reply \in Messages \cup Texts
    PROVE  /\ Over(r, reply) \in Requests
           /\ Over(r, reply).pc = "over" /\ Over(r, reply).doc = r.doc
           /\ Over(r, reply).late = r.late /\ Over(r, reply).kind = r.kind
           /\ Over(r, reply).reply = reply
BY IdleRequest DEF Over, Requests, InChannel

\* What is left of a request that is over, whatever it was.
LEMMA OverEnds ==
    ASSUME NEW r, NEW reply
    PROVE  /\ Over(r, reply).pc = "over" /\ Over(r, reply).doc = r.doc
           /\ Over(r, reply).late = r.late /\ Over(r, reply).kind = r.kind
           /\ Over(r, reply).reply = reply
<1> USE DEF Over, Idle
<1>1. Over(r, reply).pc = "over" /\ Over(r, reply).doc = r.doc
  OBVIOUS
<1>2. Over(r, reply).late = r.late /\ Over(r, reply).kind = r.kind
  OBVIOUS
<1>3. Over(r, reply).reply = reply
  OBVIOUS
<1> QED
  BY <1>1, <1>2, <1>3

\* A request that was told its reply is over.
LEMMA OverIsOver == \A r, reply : Over(r, reply).pc = "over"
BY OverEnds

\* Asking for a job leaves a well-typed request.
LEMMA AskedRequests ==
    ASSUME VectorTypeOK, NEW r \in Requests, NEW job \in Jobs
    PROVE  Ask(r, job) \in Requests /\ Ask(r, job).doc = r.doc
<1>1. generation \in Nat
  BY PoolAssumption DEF VectorTypeOK
<1>2. [r EXCEPT !.pc = "slot", !.job = job, !.gen = generation] \in Requests
  BY <1>1 DEF Requests
<1>3. "shutting down" \in Messages \cup Texts
  BY DEF Messages
<1>4. CASE accepting
  <2>1. Ask(r, job) = [r EXCEPT !.pc = "slot", !.job = job, !.gen = generation]
    BY <1>4 DEF Ask
  <2>2. Ask(r, job).doc = r.doc
    BY <2>1 DEF Requests
  <2> QED
    BY <1>2, <2>1, <2>2
<1>5. CASE ~ accepting
  BY <1>3, <1>5, FinishedRequests DEF Ask
<1> QED
  BY <1>4, <1>5

\* Whoever asks for a job waits for a slot, or is turned away.
LEMMA AskWaits ==
    ASSUME NEW r \in Requests, NEW job
    PROVE  Ask(r, job).pc \in {"slot", "over"}
<1>1. [r EXCEPT !.pc = "slot", !.job = job, !.gen = generation].pc = "slot"
  BY DEF Requests
<1>2. Over(r, "shutting down").pc = "over"
  BY OverIsOver
<1> QED
  BY Zenon, <1>1, <1>2 DEF Ask

\* The initial state is well typed.
LEMMA VectorTypeInit == VectorInit => VectorTypeOK
<1> SUFFICES ASSUME VectorInit PROVE VectorTypeOK
  OBVIOUS
<1>1. coll \in [Documents -> Collections]
  BY DEF VectorInit, Collections, Texts, Absent
<1>2. req \in [Calls -> Requests] /\ \A a \in Calls : req[a].pc = "idle"
  BY IdleRequest DEF VectorInit, Idle
<1>3. free \in Nat /\ generation \in 1..MaxGeneration
  BY PoolAssumption DEF VectorInit
<1>4. cache \in [Documents -> Texts \cup {NotCached}] /\ version \in [Documents -> Nat]
  BY DEF VectorInit
<1> QED
  BY <1>1, <1>2, <1>3, <1>4 DEF VectorInit, VectorTypeOK

\* What the types say of the requests.
RequestsTyped ==
    /\ req \in [Calls -> Requests]
    /\ \A b \in Calls : req[b].pc # "idle" => req[b].doc \in Documents

\* A step of one request keeps the types if its new record has them.
LEMMA GoTyped ==
    ASSUME VectorTypeOK, NEW a \in Calls, NEW r \in Requests, Go(a, r), r.doc \in Documents
    PROVE  RequestsTyped'
BY DEF VectorTypeOK, RequestsTyped, Go

\* A job that ends answers its request.
LEMMA EndTyped ==
    ASSUME VectorTypeOK, NEW a \in Calls, req[a].pc = "running",
           NEW reply \in Messages \cup Texts, End(a, reply)
    PROVE  /\ active' = Nothing
           /\ RequestsTyped'
<1> DEFINE r == [req[a] EXCEPT !.pc = "ending", !.step = Nothing, !.reply = reply]
<1>1. req[a] \in Requests /\ req[a].doc \in Documents
  BY DEF VectorTypeOK
<1>2. r \in Requests /\ r.doc = req[a].doc
  BY <1>1 DEF Requests, InChannel
<1> QED
  BY <1>1, <1>2, GoTyped DEF End

\* A job that goes on does so at one of its steps.
LEMMA StepTyped ==
    ASSUME VectorTypeOK, NEW a \in Calls, req[a].pc = "running", NEW next \in Steps, Step(a, next)
    PROVE  /\ active' = active
           /\ RequestsTyped'
<1> DEFINE r == [req[a] EXCEPT !.step = next]
<1>1. req[a] \in Requests /\ req[a].doc \in Documents
  BY DEF VectorTypeOK
<1>2. r \in Requests /\ r.doc = req[a].doc
  BY <1>1 DEF Requests
<1> QED
  BY <1>1, <1>2, GoTyped DEF Step

\* The collection of a document, and its fence.
LEMMA SetCollTyped ==
    ASSUME VectorTypeOK, NEW d \in Documents, NEW c \in Collections, SetColl(d, c)
    PROVE  coll' \in [Documents -> Collections]
BY DEF VectorTypeOK, SetColl

\* Raising the fence of a document keeps its version and its cache entry typed.
LEMMA FenceTyped ==
    ASSUME VectorTypeOK, NEW d \in Documents, Fence(d)
    PROVE  /\ version' \in [Documents -> Nat]
           /\ cache' \in [Documents -> Texts \cup {NotCached}]
BY DEF VectorTypeOK, Fence

\* Every step of the system leaves a well-typed state well typed.
LEMMA VectorTypeStep == VectorTypeOK /\ [VectorNext]_vectorVars => VectorTypeOK'
<1> SUFFICES ASSUME VectorTypeOK, [VectorNext]_vectorVars PROVE VectorTypeOK'
  OBVIOUS
<1> USE PoolAssumption DEF store, index, channel, life
<1>1. ASSUME NEW a \in Calls, Begin(a) PROVE VectorTypeOK'
  <2>1. PICK kind \in DOMAIN FirstJob, d \in Documents :
            Go(a, Ask([Idle EXCEPT !.kind = kind, !.doc = d, !.late = coll[d].status = "deleted"],
                      FirstJob[kind]))
    BY <1>1 DEF Begin
  <2> DEFINE r == [Idle EXCEPT !.kind = kind, !.doc = d, !.late = coll[d].status = "deleted"]
  <2>2. FirstJob[kind] \in Jobs /\ kind \in {"upload", "query", "delete", "list"}
    BY DEF FirstJob, Jobs
  <2>3. r \in Requests /\ r.doc = d
    BY Zenon, <2>2, NewRequests
  <2>4. Ask(r, FirstJob[kind]) \in Requests /\ Ask(r, FirstJob[kind]).doc = d
    BY <2>2, <2>3, AskedRequests
  <2>5. RequestsTyped'
    BY <2>1, <2>3, <2>4, GoTyped
  <2> QED
    BY <1>1, <2>5 DEF Begin, VectorTypeOK, RequestsTyped
<1>2. ASSUME NEW a \in Calls, TakeSlot(a) PROVE VectorTypeOK'
  <2>1. req[a] \in Requests /\ req[a].doc \in Documents
    BY <1>2 DEF TakeSlot, VectorTypeOK
  <2>2. [req[a] EXCEPT !.pc = "active"] \in Requests /\ [req[a] EXCEPT !.pc = "active"].doc = req[a].doc
    BY <2>1 DEF Requests
  <2>3. Over(req[a], "shutting down") \in Requests /\ Over(req[a], "shutting down").doc = req[a].doc
    BY <2>1, FinishedRequests DEF Messages
  <2>4. RequestsTyped'
    BY <1>2, <2>1, <2>2, <2>3, GoTyped DEF TakeSlot
  <2>5. free > 0 /\ free' \in {free, free - 1}
    BY <1>2 DEF TakeSlot
  <2>6. free' \in Nat
    BY <2>5 DEF VectorTypeOK
  <2> QED
    BY <1>2, <2>4, <2>6 DEF TakeSlot, VectorTypeOK, RequestsTyped
<1>3. ASSUME NEW a \in Calls, Submit(a) PROVE VectorTypeOK'
  <2>1. req[a] \in Requests /\ req[a].doc \in Documents
    BY <1>3 DEF Submit, VectorTypeOK
  <2>2. [req[a] EXCEPT !.pc = "queued"] \in Requests /\ [req[a] EXCEPT !.pc = "queued"].doc = req[a].doc
    BY <2>1 DEF Requests, InChannel
  <2>3. Over(req[a], "shutting down") \in Requests /\ Over(req[a], "shutting down").doc = req[a].doc
    BY <2>1, FinishedRequests DEF Messages
  <2>4. RequestsTyped'
    BY <1>3, <2>1, <2>2, <2>3, GoTyped DEF Submit
  <2>5. free' \in {free, free + 1}
    BY <1>3 DEF Submit
  <2>6. free' \in Nat
    BY <2>5 DEF VectorTypeOK
  <2> QED
    BY <1>3, <2>4, <2>6 DEF Submit, VectorTypeOK, RequestsTyped
<1>4. ASSUME NEW a \in Calls, GiveUp(a) PROVE VectorTypeOK'
  <2>1. req[a] \in Requests /\ req[a].doc \in Documents
    BY <1>4 DEF GiveUp, VectorTypeOK
  <2>2. Over(req[a], "busy") \in Requests /\ Over(req[a], "busy").doc = req[a].doc
    BY <2>1, FinishedRequests DEF Messages
  <2>3. RequestsTyped'
    BY <1>4, <2>1, <2>2, GoTyped DEF GiveUp
  <2> QED
    BY <1>4, <2>3 DEF GiveUp, VectorTypeOK, RequestsTyped
<1>5. ASSUME NEW a \in Calls, CancelQueued(a) PROVE VectorTypeOK'
  <2>1. req[a] \in Requests /\ req[a].doc \in Documents
    BY <1>5 DEF CancelQueued, VectorTypeOK
  <2>2. [req[a] EXCEPT !.pc = "discarded"] \in Requests /\ [req[a] EXCEPT !.pc = "discarded"].doc = req[a].doc
    BY <2>1 DEF Requests
  <2>3. RequestsTyped'
    BY <1>5, <2>1, <2>2, GoTyped DEF CancelQueued
  <2> QED
    BY <1>5, <2>3 DEF CancelQueued, VectorTypeOK, RequestsTyped
<1>6. ASSUME NEW a \in Calls, Discard(a) PROVE VectorTypeOK'
  <2>1. req[a] \in Requests /\ req[a].doc \in Documents
    BY <1>6 DEF Discard, VectorTypeOK
  <2>2. Over(req[a], "cancelled") \in Requests /\ Over(req[a], "cancelled").doc = req[a].doc
    BY <2>1, FinishedRequests DEF Messages
  <2>3. RequestsTyped'
    BY <1>6, <2>1, <2>2, GoTyped DEF Discard
  <2> QED
    BY <1>6, <2>3 DEF Discard, VectorTypeOK, RequestsTyped
<1>7. ASSUME NEW a \in Calls, Leave(a) PROVE VectorTypeOK'
  <2>1. req[a] \in Requests /\ req[a].doc \in Documents
    BY <1>7 DEF Leave, VectorTypeOK
  <2>2. [req[a] EXCEPT !.left = TRUE, !.asked = TRUE] \in Requests /\ [req[a] EXCEPT !.left = TRUE, !.asked = TRUE].doc = req[a].doc
    BY <2>1 DEF Requests
  <2>3. RequestsTyped'
    BY <1>7, <2>1, <2>2, GoTyped DEF Leave
  <2> QED
    BY <1>7, <2>3 DEF Leave, VectorTypeOK, RequestsTyped
<1>8. ASSUME NEW a \in Calls, Settle(a) PROVE VectorTypeOK'
  <2>1. req[a] \in Requests /\ req[a].doc \in Documents
    BY <1>8 DEF Settle, VectorTypeOK
  <2>2. Over(req[a], "cancelled") \in Requests /\ Over(req[a], "cancelled").doc = req[a].doc
    BY <2>1, FinishedRequests DEF Messages
  <2>3. Over(req[a], req[a].reply) \in Requests /\ Over(req[a], req[a].reply).doc = req[a].doc
    BY <2>1, FinishedRequests DEF Requests
  <2>4. [req[a] EXCEPT !.pc = "embed", !.reply = Nothing] \in Requests /\ [req[a] EXCEPT !.pc = "embed", !.reply = Nothing].doc = req[a].doc
    BY <2>1 DEF Requests, Texts
  <2>5. RequestsTyped'
    BY <1>8, <2>1, <2>2, <2>3, <2>4, GoTyped DEF Settle
  <2>6. free' = free + 1
    BY <1>8 DEF Settle
  <2>7. free' \in Nat
    BY <2>6 DEF VectorTypeOK
  <2> QED
    BY <1>8, <2>5, <2>7 DEF Settle, VectorTypeOK, RequestsTyped
<1>9. ASSUME NEW a \in Calls, Run(a) PROVE VectorTypeOK'
  <2>1. req[a] \in Requests /\ req[a].doc \in Documents /\ FirstStep(req[a].job) \in Steps \cup {Nothing}
    BY <1>9 DEF Run, VectorTypeOK, Requests, FirstStep, Steps, Jobs
  <2> DEFINE r == [req[a] EXCEPT !.pc = "running", !.step = FirstStep(req[a].job)]
  <2>2. r \in Requests /\ r.doc = req[a].doc
    BY <2>1 DEF Requests, InChannel
  <2>3. RequestsTyped'
    BY <1>9, <2>1, <2>2, GoTyped DEF Run
  <2> QED
    BY <1>9, <2>3 DEF Run, VectorTypeOK, RequestsTyped
<1>10. ASSUME NEW a \in Calls, Embed(a) PROVE VectorTypeOK'
  <2>1. req[a] \in Requests /\ req[a].doc \in Documents /\ "deal" \in Jobs
    BY <1>10 DEF Embed, VectorTypeOK, Jobs
  <2>2. Over(req[a], "failed") \in Requests /\ Over(req[a], "failed").doc = req[a].doc
    BY <2>1, FinishedRequests DEF Messages
  <2>3. Ask(req[a], "deal") \in Requests /\ Ask(req[a], "deal").doc = req[a].doc
    BY <2>1, AskedRequests
  <2>4. [req[a] EXCEPT !.pc = "lookup"] \in Requests /\ [req[a] EXCEPT !.pc = "lookup"].doc = req[a].doc
    BY <2>1 DEF Requests
  <2>5. RequestsTyped'
    BY <1>10, <2>1, <2>2, <2>3, <2>4, GoTyped DEF Embed
  <2> QED
    BY <1>10, <2>5 DEF Embed, VectorTypeOK, RequestsTyped
<1>11. ASSUME NEW a \in Calls, LookUp(a) PROVE VectorTypeOK'
  <2> DEFINE r == [req[a] EXCEPT !.version = version[req[a].doc]]
  <2>1. req[a] \in Requests /\ req[a].doc \in Documents /\ "build" \in Jobs
    BY <1>11 DEF LookUp, VectorTypeOK, Jobs
  <2>2. version[req[a].doc] \in Nat /\ cache[req[a].doc] \in Texts \cup {NotCached}
    BY <2>1 DEF VectorTypeOK
  <2>3. r \in Requests /\ r.doc = req[a].doc
    BY <2>1, <2>2 DEF Requests
  <2>4. Ask(r, "build") \in Requests /\ Ask(r, "build").doc = req[a].doc
    BY <2>1, <2>3, AskedRequests
  <2>5. CASE cache[req[a].doc] # NotCached
    <3>1. Go(a, Over(req[a], cache[req[a].doc]))
      BY <1>11, <2>5 DEF LookUp
    <3>2. RequestsTyped'
      BY <2>1, <2>2, <2>5, <3>1, FinishedRequests, GoTyped
    <3> QED
      BY <1>11, <3>2 DEF LookUp, VectorTypeOK, RequestsTyped
  <2>6. CASE cache[req[a].doc] = NotCached
    <3>1. Go(a, Ask(r, "build"))
      BY <1>11, <2>6 DEF LookUp
    <3>2. RequestsTyped'
      BY <2>1, <2>4, <3>1, GoTyped
    <3> QED
      BY <1>11, <3>2 DEF LookUp, VectorTypeOK, RequestsTyped
  <2> QED
    BY <2>5, <2>6
<1>12. ASSUME NEW a \in Calls, EnsureSlot(a) PROVE VectorTypeOK'
  <2>1. req[a].pc = "running" /\ req[a].doc \in Documents
    BY <1>12 DEF EnsureSlot, Running, VectorTypeOK
  <2>2. RequestsTyped' /\ active' \in {active, Nothing}
    BY <1>12, <2>1, EndTyped, StepTyped DEF EnsureSlot, Messages, Steps
  <2>3. Absent \in Collections
    BY DEF Absent, Collections, Texts
  <2>4. coll' \in [Documents -> Collections] /\ version' \in [Documents -> Nat]
        /\ cache' \in [Documents -> Texts \cup {NotCached}]
    <3>1. CASE coll[req[a].doc].status = "ghost"
      BY <1>12, <2>1, <2>3, <3>1, SetCollTyped, FenceTyped DEF EnsureSlot
    <3>2. CASE coll[req[a].doc].status # "ghost"
      BY <1>12, <3>2 DEF EnsureSlot, VectorTypeOK
    <3> QED
      BY <3>1, <3>2
  <2> QED
    BY <1>12, <2>2, <2>4 DEF EnsureSlot, VectorTypeOK, RequestsTyped
<1>13. ASSUME NEW a \in Calls, Stage(a) PROVE VectorTypeOK'
  <2>1. req[a].pc = "running" /\ req[a].doc \in Documents
    BY <1>13 DEF Stage, Running, VectorTypeOK
  <2>2. RequestsTyped' /\ active' \in {active, Nothing}
    BY <1>13, <2>1, EndTyped, StepTyped DEF Stage, Messages, Steps
  <2> QED
    BY <1>13, <2>2 DEF Stage, VectorTypeOK, RequestsTyped
<1>14. ASSUME NEW a \in Calls, Publish(a) PROVE VectorTypeOK'
  <2>1. req[a].pc = "running" /\ req[a].doc \in Documents
    BY <1>14 DEF Publish, Running, VectorTypeOK
  <2>2. RequestsTyped' /\ active' \in {active, Nothing}
    BY <1>14, <2>1, EndTyped, StepTyped DEF Publish, Messages, Steps
  <2>3. [status |-> "indexed", text |-> a] \in Collections
    BY DEF Collections, Texts
  <2>4. coll' \in [Documents -> Collections]
    BY <1>14, <2>1, <2>3, SetCollTyped DEF Publish, VectorTypeOK
  <2> QED
    BY <1>14, <2>2, <2>4 DEF Publish, VectorTypeOK, RequestsTyped
<1>15. ASSUME NEW a \in Calls, Published(a) PROVE VectorTypeOK'
  <2>1. req[a].pc = "running" /\ req[a].doc \in Documents
    BY <1>15 DEF Published, Running, VectorTypeOK
  <2>2. RequestsTyped' /\ active' \in {active, Nothing}
    BY <1>15, <2>1, EndTyped DEF Published, Messages
  <2>3. version' \in [Documents -> Nat] /\ cache' \in [Documents -> Texts \cup {NotCached}]
    BY <1>15, <2>1, FenceTyped DEF Published
  <2> QED
    BY <1>15, <2>2, <2>3 DEF Published, VectorTypeOK, RequestsTyped
<1>16. ASSUME NEW a \in Calls, DealFails(a) PROVE VectorTypeOK'
  <2>1. req[a].pc = "running" /\ req[a].doc \in Documents
    BY <1>16 DEF DealFails, Running, VectorTypeOK
  <2>2. RequestsTyped' /\ active' \in {active, Nothing}
    BY <1>16, <2>1, EndTyped DEF DealFails, Messages
  <2>3. [status |-> "indexed", text |-> a] \in Collections
    BY DEF Collections, Texts
  <2>4. /\ coll' \in [Documents -> Collections] /\ version' \in [Documents -> Nat]
        /\ cache' \in [Documents -> Texts \cup {NotCached}]
    BY <1>16, <2>1, <2>3, SetCollTyped, FenceTyped DEF DealFails, VectorTypeOK
  <2> QED
    BY <1>16, <2>2, <2>4 DEF DealFails, VectorTypeOK, RequestsTyped
<1>17. ASSUME NEW a \in Calls, DeleteFence(a) PROVE VectorTypeOK'
  <2>1. req[a].pc = "running" /\ req[a].doc \in Documents
    BY <1>17 DEF DeleteFence, Running, VectorTypeOK
  <2>2. RequestsTyped' /\ active' \in {active, Nothing}
    BY <1>17, <2>1, EndTyped, StepTyped DEF DeleteFence, Messages, Steps
  <2>3. Tombstone \in Collections
    BY DEF Tombstone, Collections, Texts
  <2>4. coll' \in [Documents -> Collections]
    BY <1>17, <2>1, <2>3, SetCollTyped DEF DeleteFence, VectorTypeOK
  <2>5. version' \in [Documents -> Nat] /\ cache' \in [Documents -> Texts \cup {NotCached}]
    BY <1>17, <2>1, FenceTyped DEF DeleteFence
  <2> QED
    BY <1>17, <2>2, <2>4, <2>5 DEF DeleteFence, VectorTypeOK, RequestsTyped
<1>18. ASSUME NEW a \in Calls, DeleteMark(a) PROVE VectorTypeOK'
  <2>1. req[a].pc = "running" /\ req[a].doc \in Documents
    BY <1>18 DEF DeleteMark, Running, VectorTypeOK
  <2>2. RequestsTyped' /\ active' = active
    BY <1>18, <2>1, StepTyped DEF DeleteMark, Steps
  <2>3. [coll[req[a].doc] EXCEPT !.status = "deleting"] \in Collections
    BY <2>1 DEF Collections, VectorTypeOK
  <2>4. coll' \in [Documents -> Collections]
    BY <1>18, <2>1, <2>3, SetCollTyped DEF DeleteMark
  <2> QED
    BY <1>18, <2>2, <2>4 DEF DeleteMark, VectorTypeOK, RequestsTyped
<1>19. ASSUME NEW a \in Calls, DeletePurge(a) PROVE VectorTypeOK'
  <2>1. req[a].pc = "running" /\ req[a].doc \in Documents
    BY <1>19 DEF DeletePurge, Running, VectorTypeOK
  <2>2. RequestsTyped' /\ active' = active
    BY <1>19, <2>1, StepTyped DEF DeletePurge, Steps
  <2>3. [coll[req[a].doc] EXCEPT !.text = Nothing] \in Collections
    BY <2>1 DEF Collections, VectorTypeOK, Texts
  <2>4. coll' \in [Documents -> Collections]
    BY <1>19, <2>1, <2>3, SetCollTyped DEF DeletePurge
  <2>5. version' \in [Documents -> Nat] /\ cache' \in [Documents -> Texts \cup {NotCached}]
    BY <1>19, <2>1, FenceTyped DEF DeletePurge
  <2> QED
    BY <1>19, <2>2, <2>4, <2>5 DEF DeletePurge, VectorTypeOK, RequestsTyped
<1>20. ASSUME NEW a \in Calls, DeleteFinish(a) PROVE VectorTypeOK'
  <2>1. req[a].pc = "running" /\ req[a].doc \in Documents
    BY <1>20 DEF DeleteFinish, Running, VectorTypeOK
  <2>2. RequestsTyped' /\ active' = Nothing
    BY <1>20, <2>1, EndTyped DEF DeleteFinish, Messages
  <2>3. Tombstone \in Collections
    BY DEF Tombstone, Collections, Texts
  <2>4. coll' \in [Documents -> Collections]
    BY <1>20, <2>1, <2>3, SetCollTyped DEF DeleteFinish
  <2> QED
    BY <1>20, <2>2, <2>4 DEF DeleteFinish, VectorTypeOK, RequestsTyped
<1>21. ASSUME NEW a \in Calls, JobFails(a) PROVE VectorTypeOK'
  <2>1. req[a].pc = "running" /\ req[a].doc \in Documents
    BY <1>21 DEF JobFails, Running, VectorTypeOK
  <2>2. RequestsTyped' /\ active' = Nothing
    BY <1>21, <2>1, EndTyped DEF JobFails, Messages
  <2> QED
    BY <1>21, <2>2 DEF JobFails, VectorTypeOK, RequestsTyped
<1>22. ASSUME NEW a \in Calls, List(a) PROVE VectorTypeOK'
  <2>1. req[a].pc = "running" /\ req[a].doc \in Documents
    BY <1>22 DEF List, Running, VectorTypeOK
  <2>2. RequestsTyped' /\ active' = Nothing
    BY <1>22, <2>1, EndTyped DEF List, Messages
  <2>3. ASSUME NEW d \in Documents PROVE Swept(coll[d]) \subseteq Collections
    BY DEF Swept, VectorTypeOK, Collections, Tombstone, Absent, Texts
  <2>4. coll' \in [Documents -> Collections]
    BY <1>22, <2>3 DEF List
  <2>5. version' \in [Documents -> Nat]
    BY <1>22 DEF List, VectorTypeOK
  <2>6. cache' \in [Documents -> Texts \cup {NotCached}]
    BY <1>22 DEF List, VectorTypeOK
  <2> QED
    BY <1>22, <2>2, <2>4, <2>5, <2>6 DEF List, VectorTypeOK, RequestsTyped
<1>23. ASSUME NEW a \in Calls, Get(a) PROVE VectorTypeOK'
  <2>1. req[a].pc = "running" /\ req[a].doc \in Documents
    BY <1>23 DEF Get, Running, VectorTypeOK
  <2>2. RequestsTyped' /\ active' = Nothing
    BY <1>23, <2>1, EndTyped DEF Get, Messages
  <2> QED
    BY <1>23, <2>2 DEF Get, VectorTypeOK, RequestsTyped
<1>24. ASSUME NEW a \in Calls, Build(a) PROVE VectorTypeOK'
  <2>1. req[a].pc = "running" /\ req[a].doc \in Documents
    BY <1>24 DEF Build, Running, VectorTypeOK
  <2>2. coll[req[a].doc].text \in Texts /\ cache[req[a].doc] \in Texts \cup {NotCached}
    BY <2>1 DEF VectorTypeOK, Collections
  <2>3. RequestsTyped' /\ active' = Nothing
    BY <1>24, <2>1, <2>2, EndTyped DEF Build, Messages
  <2>4. cache' \in [Documents -> Texts \cup {NotCached}]
    BY <1>24, <2>1, <2>2 DEF Build, VectorTypeOK
  <2> QED
    BY <1>24, <2>3, <2>4 DEF Build, VectorTypeOK, RequestsTyped
<1>25. ASSUME NEW d \in Documents, Evict(d) PROVE VectorTypeOK'
  BY <1>25 DEF Evict, VectorTypeOK
<1>26. CASE ShutDown
  BY <1>26 DEF ShutDown, VectorTypeOK
<1>27. CASE StopThread
  BY <1>27 DEF StopThread, VectorTypeOK
<1>28. CASE Reopen
  BY <1>28 DEF Reopen, VectorTypeOK
<1>29. CASE Crash
  <2>1. ASSUME NEW b \in Calls
        PROVE  Over(req[b], "lost") \in Requests /\ Over(req[b], "lost").doc = req[b].doc
    BY FinishedRequests DEF VectorTypeOK, Messages
  <2>2. ASSUME NEW b \in Calls
        PROVE  req'[b] \in Requests /\ (req'[b].pc # "idle" => req'[b].doc \in Documents)
    <3>1. req'[b] = IF req[b].pc \in {"idle", "over"} THEN req[b] ELSE Over(req[b], "lost")
      BY <1>29 DEF Crash
    <3> QED
      BY <2>1, <3>1 DEF VectorTypeOK
  <2>3. req' \in [Calls -> Requests]
    <3>1. req' = [b \in Calls |-> req'[b]]
      BY <1>29 DEF Crash
    <3> QED
      BY <2>2, <3>1
  <2>4. free' \in Nat /\ generation' \in 1..MaxGeneration
    BY <1>29 DEF Crash
  <2>5. cache' \in [Documents -> Texts \cup {NotCached}] /\ version' \in [Documents -> Nat]
    BY <1>29 DEF Crash
  <2> QED
    BY <1>29, <2>2, <2>3, <2>4, <2>5 DEF Crash, VectorTypeOK
<1>30. CASE UNCHANGED vectorVars
  BY <1>30 DEF vectorVars, VectorTypeOK
<1> QED
  BY <1>1, <1>2, <1>3, <1>4, <1>5, <1>6, <1>7, <1>8, <1>9, <1>10, <1>11, <1>12, <1>13, <1>14, <1>15, <1>16, <1>17, <1>18, <1>19, <1>20, <1>21, <1>22, <1>23, <1>24, <1>25, <1>26, <1>27, <1>28, <1>29, <1>30 DEF VectorNext
-----------------------------------------------------------------------------
(***************************************************************************)
(* The channel                                                             *)
(***************************************************************************)

\* Whoever has taken a slot that did not return.
Holding == {a \in Calls : req[a].pc \in InChannel \cup {"active"}}

\* The thread has at most one job in hand, results included.
OneAtATime ==
    \A a, b \in Calls : req[a].pc \in {"running", "ending"} /\ req[b].pc \in {"running", "ending"}
                               => a = b

\* The invariant of the channel; without the finite set of holders, and the
\* fact that a job in hand keeps others out, its accounts are not inductive.
Channel == IsFiniteSet(Holding) /\ ChannelIsSound /\ OneAtATime

\* A step of one request leaves the others as they are.
LEMMA OthersStay ==
    ASSUME VectorTypeOK, NEW a \in Calls, NEW r, Go(a, r)
    PROVE  req'[a] = r /\ \A b \in Calls : b # a => req'[b] = req[b]
BY DEF VectorTypeOK, Go

\* Slots are neither taken nor returned.
LEMMA NoSlotMoves ==
    ASSUME VectorTypeOK, Channel, NEW a \in Calls, NEW r, Go(a, r), free' = free,
           r.pc \in InChannel \cup {"active"} <=> req[a].pc \in InChannel \cup {"active"}
    PROVE  IsFiniteSet(Holding') /\ free' + Cardinality(Holding') = MaxPending
<1>1. Holding' = Holding
  BY OthersStay DEF Holding
<1> QED
  BY <1>1 DEF Channel, ChannelIsSound, Holding

\* One slot is taken.
LEMMA SlotIsTaken ==
    ASSUME VectorTypeOK, Channel, NEW a \in Calls, NEW r, Go(a, r), free' = free - 1,
           r.pc \in InChannel \cup {"active"}, req[a].pc \notin InChannel \cup {"active"}
    PROVE  IsFiniteSet(Holding') /\ free' + Cardinality(Holding') = MaxPending
<1>1. Holding' = Holding \cup {a} /\ a \notin Holding
  BY OthersStay DEF Holding
<1>2. IsFiniteSet(Holding) /\ free + Cardinality(Holding) = MaxPending /\ free \in Nat
  BY DEF Channel, ChannelIsSound, Holding, VectorTypeOK
<1>3. IsFiniteSet(Holding') /\ Cardinality(Holding') = Cardinality(Holding) + 1
  BY <1>1, <1>2, FS_AddElement
<1>4. Cardinality(Holding) \in Nat
  BY <1>2, FS_CardinalityType
<1> QED
  BY <1>2, <1>3, <1>4

\* One slot returns.
LEMMA SlotReturns ==
    ASSUME VectorTypeOK, Channel, NEW a \in Calls, NEW r, Go(a, r), free' = free + 1,
           r.pc \notin InChannel \cup {"active"}, req[a].pc \in InChannel \cup {"active"}
    PROVE  IsFiniteSet(Holding') /\ free' + Cardinality(Holding') = MaxPending
<1>1. Holding' = Holding \ {a} /\ a \in Holding
  BY OthersStay DEF Holding
<1>2. IsFiniteSet(Holding) /\ free + Cardinality(Holding) = MaxPending /\ free \in Nat
  BY DEF Channel, ChannelIsSound, Holding, VectorTypeOK
<1>3. IsFiniteSet(Holding') /\ Cardinality(Holding') = Cardinality(Holding) - 1
  BY <1>1, <1>2, FS_RemoveElement
<1>4. Cardinality(Holding) \in Nat
  BY <1>2, FS_CardinalityType
<1> QED
  BY <1>2, <1>3, <1>4

\* The rest of the invariant, given the accounts.
ChannelRest ==
    /\ \A a \in Calls :
        /\ active = a <=> req[a].pc \in {"queued", "running", "discarded"}
        /\ req[a].pc \in InChannel => worker /\ req[a].gen = generation
    /\ OneAtATime

\* The channel invariant, split into its count of held places and the rest.
LEMMA ChannelParts ==
    Channel <=> /\ IsFiniteSet(Holding) /\ free + Cardinality(Holding) = MaxPending
                /\ ChannelRest
BY DEF Channel, ChannelIsSound, ChannelRest, Holding

\* A request that is outside of the channel before and after changes nothing.
LEMMA OutsideStep ==
    ASSUME VectorTypeOK, Channel, NEW a \in Calls, NEW r, Go(a, r), UNCHANGED <<channel, life>>,
           req[a].pc \in {"idle", "slot", "embed", "lookup", "over"},
           r.pc \in {"slot", "embed", "lookup", "over"}
    PROVE  Channel'
<1>1. IsFiniteSet(Holding') /\ free' + Cardinality(Holding') = MaxPending
  BY NoSlotMoves DEF channel, InChannel
<1>2. ChannelRest'
  BY ChannelParts, OthersStay DEF ChannelRest, OneAtATime, channel, life, InChannel
<1> QED
  BY <1>1, <1>2, ChannelParts DEF Channel, ChannelIsSound, ChannelRest, Holding

\* The thread goes on with its job, or is done with it.
LEMMA JobStep ==
    ASSUME VectorTypeOK, Channel, NEW a \in Calls, req[a].pc = "running", UNCHANGED <<free, life>>,
           (\E reply : End(a, reply)) \/ (\E next : Step(a, next))
    PROVE  Channel'
<1>0. req[a] \in Requests
  BY DEF VectorTypeOK
<1>1. CASE \E reply : End(a, reply)
  <2>1. PICK reply : End(a, reply)
    BY <1>1
  <2> DEFINE r == [req[a] EXCEPT !.pc = "ending", !.step = Nothing, !.reply = reply]
  <2>2. Go(a, r) /\ r.pc = "ending" /\ r.gen = req[a].gen /\ active' = Nothing
    BY <1>0, <2>1 DEF End, Requests
  <2> HIDE DEF r
  <2>3. IsFiniteSet(Holding') /\ free' + Cardinality(Holding') = MaxPending
    BY <2>2, NoSlotMoves DEF InChannel
  <2>4. ChannelRest'
    BY <2>2, ChannelParts, OthersStay, NothingAssumption DEF ChannelRest, OneAtATime, life, InChannel
  <2> QED
    BY <2>3, <2>4 DEF Channel, ChannelIsSound, ChannelRest, Holding
<1>2. CASE \E next : Step(a, next)
  <2>1. PICK next : Step(a, next)
    BY <1>2
  <2> DEFINE r == [req[a] EXCEPT !.step = next]
  <2>2. Go(a, r) /\ r.pc = "running" /\ r.gen = req[a].gen /\ active' = active
    BY <1>0, <2>1 DEF Step, Requests
  <2> HIDE DEF r
  <2>3. IsFiniteSet(Holding') /\ free' + Cardinality(Holding') = MaxPending
    BY <2>2, NoSlotMoves DEF InChannel
  <2>4. ChannelRest'
    BY <2>2, ChannelParts, OthersStay DEF ChannelRest, OneAtATime, life, InChannel
  <2> QED
    BY <2>3, <2>4 DEF Channel, ChannelIsSound, ChannelRest, Holding
<1> QED
  BY <1>1, <1>2

\* In the initial state nobody is in the channel.
LEMMA ChannelInit == VectorInit => Channel
<1> SUFFICES ASSUME VectorInit PROVE Channel
  OBVIOUS
<1>1. \A a \in Calls : req[a].pc = "idle"
  BY DEF VectorInit, Idle
<1>2. Holding = {}
  BY <1>1 DEF Holding, InChannel
<1>3. IsFiniteSet(Holding) /\ free + Cardinality(Holding) = MaxPending
  BY <1>2, FS_EmptySet, PoolAssumption DEF VectorInit
<1>4. ChannelRest
  BY <1>1, NothingAssumption DEF ChannelRest, OneAtATime, InChannel, VectorInit
<1> QED
  BY <1>3, <1>4, ChannelParts

\* Every step of the system keeps the accounts of the channel.
LEMMA ChannelStep == VectorTypeOK /\ Channel /\ [VectorNext]_vectorVars => Channel'
<1> SUFFICES ASSUME VectorTypeOK, Channel, [VectorNext]_vectorVars PROVE Channel'
  OBVIOUS
<1>0. ASSUME NEW a \in Calls PROVE req[a] \in Requests
  BY DEF VectorTypeOK
<1>1. ASSUME NEW a \in Calls, Begin(a) PROVE Channel'
  <2>1. PICK kind \in DOMAIN FirstJob, d \in Documents :
            Go(a, Ask([Idle EXCEPT !.kind = kind, !.doc = d, !.late = coll[d].status = "deleted"],
                      FirstJob[kind]))
    BY <1>1 DEF Begin
  <2> DEFINE r == Ask([Idle EXCEPT !.kind = kind, !.doc = d, !.late = coll[d].status = "deleted"],
                      FirstJob[kind])
  <2>2. r.pc \in {"slot", "over"}
    BY DEF Ask, Over, Idle
  <2> HIDE DEF r
  <2> QED
    BY <1>1, <2>1, <2>2, OutsideStep DEF Begin, r
<1>2. ASSUME NEW a \in Calls, TakeSlot(a) PROVE Channel'
  <2>1. CASE accepting
    <3> DEFINE r == [req[a] EXCEPT !.pc = "active"]
    <3>1. Go(a, r) /\ r.pc = "active" /\ req[a].pc = "slot" /\ free' = free - 1
      BY <1>0, <1>2, <2>1 DEF TakeSlot, Requests
    <3> HIDE DEF r
    <3>2. IsFiniteSet(Holding') /\ free' + Cardinality(Holding') = MaxPending
      BY <3>1, SlotIsTaken DEF InChannel
    <3>3. UNCHANGED <<active, life>>
      BY <1>2 DEF TakeSlot
    <3>4. ChannelRest'
      BY <3>1, <3>3, ChannelParts, OthersStay DEF ChannelRest, OneAtATime, life, InChannel
    <3> QED
      BY <3>2, <3>4 DEF Channel, ChannelIsSound, ChannelRest, Holding
  <2>2. CASE ~ accepting
    <3> DEFINE r == Over(req[a], "shutting down")
    <3>1. r.pc = "over"
      BY Zenon, OverIsOver
    <3>2. Go(a, r) /\ req[a].pc = "slot" /\ UNCHANGED <<channel, life>>
      BY <1>2, <2>2 DEF TakeSlot, channel
    <3> HIDE DEF r
    <3> QED
      BY <3>1, <3>2, OutsideStep
  <2> QED
    BY <2>1, <2>2
<1>3. ASSUME NEW a \in Calls, Submit(a) PROVE Channel'
  <2>1. CASE accepting /\ req[a].gen = generation
    <3> DEFINE r == [req[a] EXCEPT !.pc = "queued"]
    <3>1. /\ Go(a, r) /\ r.pc = "queued" /\ r.gen = generation /\ req[a].pc = "active"
          /\ free' = free /\ active = Nothing /\ active' = a /\ worker' = TRUE
          /\ generation' = generation
      BY <1>0, <1>3, <2>1 DEF Submit, Requests
    <3> HIDE DEF r
    <3>2. IsFiniteSet(Holding') /\ free' + Cardinality(Holding') = MaxPending
      BY <3>1, NoSlotMoves DEF InChannel
    <3>3. ChannelRest'
      BY <3>1, ChannelParts, OthersStay, NothingAssumption DEF ChannelRest, OneAtATime, InChannel
    <3> QED
      BY <3>2, <3>3 DEF Channel, ChannelIsSound, ChannelRest, Holding
  <2>2. CASE ~ (accepting /\ req[a].gen = generation)
    <3> DEFINE r == Over(req[a], "shutting down")
    <3>0. r.pc = "over"
      BY Zenon, OverIsOver
    <3> HIDE DEF r
    <3>1. /\ Go(a, r) /\ req[a].pc = "active" /\ free' = free + 1
          /\ UNCHANGED <<active, worker, generation>>
      BY <1>3, <2>2 DEF Submit, r
    <3>2. IsFiniteSet(Holding') /\ free' + Cardinality(Holding') = MaxPending
      BY <3>0, <3>1, SlotReturns DEF InChannel
    <3>3. ChannelRest'
      BY <3>0, <3>1, ChannelParts, OthersStay DEF ChannelRest, OneAtATime, InChannel
    <3> QED
      BY <3>2, <3>3 DEF Channel, ChannelIsSound, ChannelRest, Holding
  <2> QED
    BY <2>1, <2>2
<1>4. ASSUME NEW a \in Calls, GiveUp(a) PROVE Channel'
  <2> DEFINE r == Over(req[a], "busy")
  <2>0. r.pc = "over"
    BY OverEnds
  <2> HIDE DEF r
  <2>1. /\ Go(a, r) /\ req[a].pc \in {"slot", "active"}
        /\ free' = IF req[a].pc = "active" THEN free + 1 ELSE free
        /\ UNCHANGED <<active, life>>
    BY <1>4 DEF GiveUp, r
  <2>2. CASE req[a].pc = "slot"
    BY <2>0, <2>1, <2>2, OutsideStep DEF channel
  <2>3. CASE req[a].pc = "active"
    <3>1. IsFiniteSet(Holding') /\ free' + Cardinality(Holding') = MaxPending
      BY <2>0, <2>1, <2>3, SlotReturns DEF InChannel
    <3>2. ChannelRest'
      BY <2>0, <2>1, <2>3, ChannelParts, OthersStay DEF ChannelRest, OneAtATime, life, InChannel
    <3> QED
      BY <3>1, <3>2 DEF Channel, ChannelIsSound, ChannelRest, Holding
  <2> QED
    BY <2>1, <2>2, <2>3
<1>5. ASSUME NEW a \in Calls, CancelQueued(a) PROVE Channel'
  <2> DEFINE r == [req[a] EXCEPT !.pc = "discarded"]
  <2>1. /\ Go(a, r) /\ r.pc = "discarded" /\ req[a].pc = "queued" /\ free' = free + 1
        /\ UNCHANGED <<active, life>>
    BY <1>0, <1>5 DEF CancelQueued, Requests
  <2> HIDE DEF r
  <2>2. IsFiniteSet(Holding') /\ free' + Cardinality(Holding') = MaxPending
    BY <2>1, SlotReturns DEF InChannel
  <2>3. ChannelRest'
    BY <2>1, ChannelParts, OthersStay DEF ChannelRest, OneAtATime, life, InChannel
  <2> QED
    BY <2>2, <2>3 DEF Channel, ChannelIsSound, ChannelRest, Holding
<1>6. ASSUME NEW a \in Calls, Discard(a) PROVE Channel'
  <2> DEFINE r == Over(req[a], "cancelled")
  <2>0. r.pc = "over"
    BY OverEnds
  <2> HIDE DEF r
  <2>1. /\ Go(a, r) /\ req[a].pc = "discarded" /\ active' = Nothing
        /\ UNCHANGED <<free, life>>
    BY <1>6 DEF Discard, r
  <2>2. IsFiniteSet(Holding') /\ free' + Cardinality(Holding') = MaxPending
    BY <2>0, <2>1, NoSlotMoves DEF InChannel
  <2>3. ChannelRest'
    BY <2>0, <2>1, ChannelParts, OthersStay, NothingAssumption
    DEF ChannelRest, OneAtATime, life, InChannel
  <2> QED
    BY <2>2, <2>3 DEF Channel, ChannelIsSound, ChannelRest, Holding
<1>7. ASSUME NEW a \in Calls, Run(a) PROVE Channel'
  <2> DEFINE r == [req[a] EXCEPT !.pc = "running", !.step = FirstStep(req[a].job)]
  <2>1. /\ Go(a, r) /\ r.pc = "running" /\ r.gen = req[a].gen /\ req[a].pc = "queued"
        /\ ThreadIsFree /\ UNCHANGED <<channel, life>>
    BY <1>0, <1>7 DEF Run, Requests
  <2> HIDE DEF r
  <2>2. IsFiniteSet(Holding') /\ free' + Cardinality(Holding') = MaxPending
    BY <2>1, NoSlotMoves DEF InChannel, channel
  <2>3. ChannelRest'
    BY <2>1, ChannelParts, OthersStay
    DEF ChannelRest, OneAtATime, ThreadIsFree, channel, life, InChannel
  <2> QED
    BY <2>2, <2>3 DEF Channel, ChannelIsSound, ChannelRest, Holding
<1>8. ASSUME NEW a \in Calls, Leave(a) PROVE Channel'
  <2> DEFINE r == [req[a] EXCEPT !.left = TRUE, !.asked = TRUE]
  <2>1. /\ Go(a, r) /\ r.pc = req[a].pc /\ r.gen = req[a].gen /\ UNCHANGED <<channel, life>>
    BY <1>0, <1>8 DEF Leave, Requests
  <2> HIDE DEF r
  <2>2. IsFiniteSet(Holding') /\ free' + Cardinality(Holding') = MaxPending
    BY <2>1, NoSlotMoves DEF channel
  <2>3. ChannelRest'
    BY <2>1, ChannelParts, OthersStay DEF ChannelRest, OneAtATime, channel, life
  <2> QED
    BY <2>2, <2>3 DEF Channel, ChannelIsSound, ChannelRest, Holding
<1>9. ASSUME NEW a \in Calls, Settle(a) PROVE Channel'
  <2> DEFINE r == CASE req[a].left -> Over(req[a], "cancelled")
                    [] ~ req[a].left /\ req[a].reply = "go on" ->
                         [req[a] EXCEPT !.pc = "embed", !.reply = Nothing]
                    [] OTHER       -> Over(req[a], req[a].reply)
  <2>1. /\ Over(req[a], "cancelled").pc = "over" /\ Over(req[a], req[a].reply).pc = "over"
        /\ [req[a] EXCEPT !.pc = "embed", !.reply = Nothing].pc = "embed"
    BY <1>0, OverEnds DEF Requests
  <2>2. /\ Go(a, r) /\ req[a].pc = "ending" /\ free' = free + 1 /\ UNCHANGED <<active, life>>
    BY <1>9 DEF Settle
  <2>3. r.pc \in {"over", "embed"}
    BY <2>1
  <2> HIDE DEF r
  <2>4. IsFiniteSet(Holding') /\ free' + Cardinality(Holding') = MaxPending
    BY <2>2, <2>3, SlotReturns DEF InChannel
  <2>5. ChannelRest'
    BY <2>2, <2>3, ChannelParts, OthersStay DEF ChannelRest, OneAtATime, life, InChannel
  <2> QED
    BY <2>4, <2>5 DEF Channel, ChannelIsSound, ChannelRest, Holding
<1>10. ASSUME NEW a \in Calls, Embed(a) PROVE Channel'
  <2>1. /\ Over(req[a], "failed").pc = "over" /\ Ask(req[a], "deal").pc \in {"slot", "over"}
        /\ [req[a] EXCEPT !.pc = "lookup"].pc = "lookup"
    <3>1. [req[a] EXCEPT !.pc = "lookup"].pc = "lookup"
      BY <1>0 DEF Requests
    <3> QED
      BY <1>0, <3>1, OverEnds, AskWaits
  <2> QED
    BY <1>10, <2>1, OutsideStep DEF Embed
<1>11. ASSUME NEW a \in Calls, LookUp(a) PROVE Channel'
  <2> DEFINE r == IF cache[req[a].doc] # NotCached
                  THEN Over(req[a], cache[req[a].doc])
                  ELSE Ask([req[a] EXCEPT !.version = version[req[a].doc]], "build")
  <2>1. Go(a, r) /\ req[a].pc = "lookup" /\ UNCHANGED <<channel, life>>
    BY <1>11 DEF LookUp
  <2>2. r.pc \in {"slot", "over"}
    BY <1>0 DEF Ask, Over, Idle, Requests
  <2> HIDE DEF r
  <2> QED
    BY <2>1, <2>2, OutsideStep
<1>12. ASSUME NEW a \in Calls,
              \/ EnsureSlot(a) \/ Stage(a) \/ Publish(a) \/ Published(a) \/ DealFails(a)
              \/ DeleteFence(a) \/ DeleteMark(a) \/ DeletePurge(a) \/ DeleteFinish(a)
              \/ JobFails(a) \/ List(a) \/ Get(a) \/ Build(a)
       PROVE  Channel'
  <2>1. req[a].pc = "running" /\ UNCHANGED <<free, life>>
    BY <1>12 DEF EnsureSlot, Stage, Publish, Published, DealFails, DeleteFence, DeleteMark,
                 DeletePurge, DeleteFinish, JobFails, List, Get, Build, Running
  <2>2. (\E reply : End(a, reply)) \/ (\E next : Step(a, next))
    <3>1. CASE EnsureSlot(a)
      BY <3>1 DEF EnsureSlot
    <3>2. CASE Stage(a) \/ Publish(a) \/ Published(a)
      BY <3>2 DEF Stage, Publish, Published
    <3>3. CASE DealFails(a)
      BY <3>3 DEF DealFails
    <3>4. CASE DeleteFence(a) \/ DeleteMark(a) \/ DeletePurge(a) \/ DeleteFinish(a)
      BY <3>4 DEF DeleteFence, DeleteMark, DeletePurge, DeleteFinish
    <3>5. CASE JobFails(a) \/ List(a) \/ Get(a)
      BY <3>5 DEF JobFails, List, Get
    <3>6. CASE Build(a)
      BY <3>6 DEF Build
    <3> QED
      BY <1>12, <3>1, <3>2, <3>3, <3>4, <3>5, <3>6
  <2> QED
    BY <2>1, <2>2, JobStep
<1>13. CASE \/ \E d \in Documents : Evict(d)
            \/ ShutDown
            \/ UNCHANGED vectorVars
  <2>1. UNCHANGED <<req, free, active, generation, worker>>
    BY <1>13 DEF Evict, ShutDown, vectorVars, channel, life
  <2> QED
    BY <2>1, ChannelParts DEF Channel, ChannelIsSound, OneAtATime, Holding
<1>14. CASE StopThread
  BY <1>14 DEF StopThread, Channel, ChannelIsSound, OneAtATime, Holding, channel
<1>15. CASE Reopen
  BY <1>15 DEF Reopen, Channel, ChannelIsSound, OneAtATime, Holding, channel
<1>16. CASE Crash
  <2>1. \A a \in Calls : req'[a].pc \in {"idle", "over"}
    BY <1>16, OverEnds DEF Crash
  <2>2. Holding' = {}
    BY <2>1 DEF Holding, InChannel
  <2>3. free' = MaxPending /\ active' = Nothing
    BY <1>16 DEF Crash
  <2>4. IsFiniteSet(Holding') /\ free' + Cardinality(Holding') = MaxPending
    BY <2>2, <2>3, FS_EmptySet, PoolAssumption
  <2>5. ChannelRest'
    BY <2>1, <2>3, NothingAssumption DEF ChannelRest, OneAtATime, InChannel
  <2> QED
    BY <2>4, <2>5 DEF Channel, ChannelIsSound, ChannelRest, Holding
<1> QED
  BY <1>1, <1>2, <1>3, <1>4, <1>5, <1>6, <1>7, <1>8, <1>9, <1>10, <1>11, <1>12, <1>13, <1>14,
     <1>15, <1>16 DEF VectorNext

-----------------------------------------------------------------------------
(***************************************************************************)
(* The documents                                                           *)
(***************************************************************************)

\* What a step may do to the collection of a document.
Ends(d) ==
    coll'[d] # coll[d] =>
        \/ coll[d].status \in {"none", "ghost"}
        \/ coll[d].status \in {"legacy", "indexed"} /\ coll'[d] = [coll[d] EXCEPT !.status = "deleting"]
        \/ coll[d].status = "deleting" /\ coll'[d].status \in {"deleting", "deleted"}
                                       /\ coll'[d].text = Nothing

\* What a job knows of its document at the step it is at.
InStep(b) ==
    req[b].pc = "running" =>
        /\ req[b].step = "published" =>
              req[b].job = "deal" /\ coll[req[b].doc] = [status |-> "indexed", text |-> b]
        /\ req[b].step = "mark" => coll[req[b].doc].status \notin {"none", "deleted"}
        /\ req[b].step \in {"purge", "finish"} => coll[req[b].doc].status = "deleting"
        /\ req[b].step = "finish" => coll[req[b].doc].text = Nothing

\* What a request was told.
Told(b) ==
    /\ req[b].pc = "idle" => req[b] = Idle
    /\ req[b].reply = "indexed" =>
          \/ coll[req[b].doc].text = b
          \/ coll[req[b].doc].status \in {"deleting", "deleted"}
    /\ req[b].late => /\ coll[req[b].doc].status = "deleted"
                      /\ req[b].reply \notin Calls \cup {Old}

AllTold == \A b \in Calls : InStep(b) /\ Told(b)

Empty == \A d \in Documents : coll[d].status \in {"none", "ghost", "deleted"} => coll[d].text = Nothing

Publishing(d) == \E b \in Calls : Running(b, "deal", "published") /\ req[b].doc = d

Cached == \A d \in Documents : cache[d] # NotCached => cache[d] = coll[d].text \/ Publishing(d)

\* The invariant of the documents.
Work == AllTold /\ Empty /\ Cached

\* A document stays with its upload until a deletion begins, and a tombstone
\* stays.
LEMMA DocumentStays ==
    ASSUME VectorTypeOK, Work, NEW d \in Documents, Ends(d), NEW b \in Calls
    PROVE  /\ coll[d].text = b \/ coll[d].status \in {"deleting", "deleted"} =>
                 coll'[d].text = b \/ coll'[d].status \in {"deleting", "deleted"}
           /\ coll[d].status = "deleted" => coll'[d].status = "deleted"
<1>1. coll[d] \in Collections
  BY DEF VectorTypeOK
<1>2. coll[d].status \in {"none", "ghost", "deleted"} => coll[d].text = Nothing
  BY DEF Work, Empty
<1>3. b # Nothing
  BY NothingAssumption
<1> QED
  BY <1>1, <1>2, <1>3 DEF Ends, Collections

\* A step of one request leaves what the others know and were told.
LEMMA OthersKeep ==
    ASSUME VectorTypeOK, Channel, Work, NEW a \in Calls, NEW r, Go(a, r),
           \A d \in Documents : Ends(d), coll' = coll \/ req[a].pc = "running",
           NEW b \in Calls, b # a
    PROVE  InStep(b)' /\ Told(b)'
<1>1. req'[b] = req[b] /\ InStep(b) /\ Told(b)
  BY OthersStay DEF Work, AllTold
<1>2. InStep(b)'
  <2>1. CASE coll' = coll
    BY <1>1, <2>1 DEF InStep
  <2>2. CASE req[a].pc = "running"
    BY <1>1, <2>2 DEF InStep, Channel, OneAtATime
  <2> QED
    BY <2>1, <2>2
<1>3. CASE req[b].pc = "idle"
  <2>1. req'[b] = Idle /\ Idle.reply = Nothing /\ Idle.late = FALSE /\ Nothing # "indexed"
    BY <1>1, <1>3, NamesAssumption DEF Told, Idle, Messages
  <2> QED
    BY <1>2, <2>1 DEF Told
<1>4. CASE req[b].pc # "idle"
  <2>1. req[b].doc \in Documents
    BY <1>4 DEF VectorTypeOK
  <2> QED
    BY <1>1, <1>2, <1>4, <2>1, DocumentStays DEF Told
<1> QED
  BY <1>3, <1>4

\* A step that tells its request no text, and nothing of a new document.
LEMMA QuietStep ==
    ASSUME VectorTypeOK, Channel, Work, NEW a \in Calls, NEW r, Go(a, r),
           \A d \in Documents : Ends(d), coll' = coll \/ req[a].pc = "running",
           req[a].pc # "idle", r.pc # "idle", r.doc = req[a].doc, r.late = req[a].late,
           r.reply \in {req[a].reply, Nothing} \cup (Messages \ {"indexed"}),
           r.pc = "running" =>
               \/ r.step \in {"ensure", "stage", "publish", "fence", "list", "get", "build"}
               \/ /\ coll' = coll /\ req[a].pc = "running"
                  /\ r.step = req[a].step /\ r.job = req[a].job
    PROVE  AllTold'
<1>1. req'[a] = r /\ req[a].doc \in Documents /\ InStep(a) /\ Told(a)
  BY OthersStay DEF VectorTypeOK, Work, AllTold
<1>2. InStep(a)'
  BY <1>1 DEF InStep
<1>3. r.reply = "indexed" => req[a].reply = "indexed"
  BY NamesAssumption DEF Messages
<1>4. r.reply \in Calls \cup {Old} => r.reply = req[a].reply
  BY NamesAssumption, NothingAssumption
<1>5. Told(a)'
  BY <1>1, <1>3, <1>4, DocumentStays DEF Told
<1> QED
  BY <1>2, <1>5, OthersKeep DEF AllTold

\* The collection of one document changes, the others do not.
LEMMA OneColl ==
    ASSUME VectorTypeOK, NEW d \in Documents, NEW c, SetColl(d, c)
    PROVE  coll'[d] = c /\ \A e \in Documents : e # d => coll'[e] = coll[e]
BY DEF VectorTypeOK, SetColl

\* No step changes a collection in another way, and what is not there, or is
\* deleted, holds no text.
LEMMA DocumentsStep ==
    VectorTypeOK /\ Channel /\ Work /\ [VectorNext]_vectorVars => (\A d \in Documents : Ends(d)) /\ Empty'
<1> SUFFICES ASSUME VectorTypeOK, Channel, Work, [VectorNext]_vectorVars
             PROVE  (\A d \in Documents : Ends(d)) /\ Empty'
  OBVIOUS
<1>0. ASSUME NEW d \in Documents, NEW c, SetColl(d, c),
             c.status \in {"none", "ghost", "deleted"} => c.text = Nothing,
             \/ coll[d].status \in {"none", "ghost"}
             \/ coll[d].status \in {"legacy", "indexed"} /\ c = [coll[d] EXCEPT !.status = "deleting"]
             \/ coll[d].status = "deleting" /\ c.status \in {"deleting", "deleted"} /\ c.text = Nothing
             \/ c = coll[d]
      PROVE  (\A e \in Documents : Ends(e)) /\ Empty'
  BY <1>0, OneColl DEF Ends, Work, Empty
<1>1. CASE UNCHANGED coll
  BY <1>1 DEF Ends, Work, Empty
<1>2. ASSUME NEW a \in Calls, EnsureSlot(a) PROVE (\A d \in Documents : Ends(d)) /\ Empty'
  <2>1. req[a].doc \in Documents
    BY <1>2 DEF EnsureSlot, VectorTypeOK
  <2>2. CASE coll[req[a].doc].status = "ghost"
    <3>1. SetColl(req[a].doc, Absent) /\ Absent.text = Nothing
      BY <1>2, <2>2 DEF EnsureSlot, Absent
    <3> QED
      BY <1>0, <2>1, <2>2, <3>1
  <2>3. CASE coll[req[a].doc].status # "ghost"
    BY <1>1, <1>2, <2>3 DEF EnsureSlot
  <2> QED
    BY <2>2, <2>3
<1>3. ASSUME NEW a \in Calls, Publish(a) \/ DealFails(a)
      PROVE  (\A d \in Documents : Ends(d)) /\ Empty'
  <2>1. req[a].doc \in Documents
    BY <1>3 DEF Publish, DealFails, Running, VectorTypeOK
  <2>2. \/ UNCHANGED coll
        \/ /\ coll[req[a].doc].status = "none"
           /\ SetColl(req[a].doc, [status |-> "indexed", text |-> a])
    BY <1>3 DEF Publish, DealFails
  <2> DEFINE c == [status |-> "indexed", text |-> a]
  <2>3. c.status = "indexed"
    OBVIOUS
  <2> HIDE DEF c
  <2>4. CASE coll[req[a].doc].status = "none" /\ SetColl(req[a].doc, c)
    BY <1>0, <2>1, <2>3, <2>4
  <2> QED
    BY <1>1, <2>2, <2>4 DEF c
<1>4. ASSUME NEW a \in Calls, DeleteFence(a) PROVE (\A d \in Documents : Ends(d)) /\ Empty'
  <2>1. req[a].doc \in Documents
    BY <1>4 DEF DeleteFence, Running, VectorTypeOK
  <2>2. \/ UNCHANGED coll
        \/ coll[req[a].doc].status = "none" /\ SetColl(req[a].doc, Tombstone)
    BY <1>4 DEF DeleteFence
  <2>3. Tombstone.text = Nothing
    BY DEF Tombstone
  <2> QED
    BY <1>0, <1>1, <2>1, <2>2, <2>3
<1>5. ASSUME NEW a \in Calls, DeleteMark(a) PROVE (\A d \in Documents : Ends(d)) /\ Empty'
  <2> DEFINE d == req[a].doc
             c == [coll[d] EXCEPT !.status = "deleting"]
  <2>1. d \in Documents /\ coll[d].status \notin {"none", "deleted"} /\ SetColl(d, c)
    BY <1>5 DEF DeleteMark, Running, VectorTypeOK, Work, AllTold, InStep
  <2>2. coll[d] \in Collections
    BY <2>1 DEF VectorTypeOK
  <2>3. c.status = "deleting" /\ (coll[d].status = "deleting" => c = coll[d])
    BY <2>2 DEF Collections
  <2>4. coll[d].status \in {"ghost", "legacy", "indexed", "deleting"}
    BY <2>1, <2>2 DEF Collections
  <2> HIDE DEF c, d
  <2> QED
    BY <1>0, <2>1, <2>3, <2>4 DEF c
<1>6. ASSUME NEW a \in Calls, DeletePurge(a) PROVE (\A d \in Documents : Ends(d)) /\ Empty'
  <2> DEFINE d == req[a].doc
             c == [coll[d] EXCEPT !.text = Nothing]
  <2>1. d \in Documents /\ coll[d].status = "deleting" /\ SetColl(d, c)
    BY <1>6 DEF DeletePurge, Running, VectorTypeOK, Work, AllTold, InStep
  <2>2. coll[d] \in Collections
    BY <2>1 DEF VectorTypeOK
  <2>3. c.status = "deleting" /\ c.text = Nothing
    BY <2>1, <2>2 DEF Collections
  <2> QED
    BY <1>0, <2>1, <2>3
<1>7. ASSUME NEW a \in Calls, DeleteFinish(a) PROVE (\A d \in Documents : Ends(d)) /\ Empty'
  <2>1. /\ req[a].doc \in Documents /\ coll[req[a].doc].status = "deleting"
        /\ SetColl(req[a].doc, Tombstone)
    BY <1>7 DEF DeleteFinish, Running, VectorTypeOK, Work, AllTold, InStep
  <2> QED
    BY <1>0, <2>1 DEF Tombstone
<1>8. ASSUME NEW a \in Calls, List(a) PROVE (\A d \in Documents : Ends(d)) /\ Empty'
  <2> SUFFICES ASSUME NEW d \in Documents
               PROVE  /\ Ends(d)
                      /\ coll'[d].status \in {"none", "ghost", "deleted"} => coll'[d].text = Nothing
    BY DEF Empty
  <2>1. coll'[d] \in Swept(coll[d])
    BY <1>8 DEF List
  <2>2. coll[d] \in Collections
    BY DEF VectorTypeOK
  <2>3. coll[d].status \in {"none", "ghost", "deleted"} => coll[d].text = Nothing
    BY DEF Work, Empty
  <2> QED
    BY <2>1, <2>2, <2>3 DEF Ends, Swept, Tombstone, Absent, Collections
<1>9. ASSUME NEW a \in Calls,
             \/ Begin(a) \/ TakeSlot(a) \/ Submit(a) \/ GiveUp(a) \/ CancelQueued(a) \/ Discard(a)
             \/ Run(a) \/ Leave(a) \/ Settle(a) \/ Embed(a) \/ LookUp(a)
             \/ Stage(a) \/ Published(a) \/ JobFails(a) \/ Get(a) \/ Build(a)
      PROVE  UNCHANGED coll
  BY <1>9 DEF Begin, TakeSlot, Submit, GiveUp, CancelQueued, Discard, Run, Leave, Settle, Embed,
              LookUp, Stage, Published, JobFails, Get, Build, store
<1>10. CASE \/ \E d \in Documents : Evict(d)
            \/ ShutDown \/ StopThread \/ Reopen \/ Crash \/ UNCHANGED vectorVars
  BY <1>1, <1>10 DEF Evict, ShutDown, StopThread, Reopen, Crash, store, vectorVars
<1> QED
  BY <1>1, <1>2, <1>3, <1>4, <1>5, <1>6, <1>7, <1>8, <1>9, <1>10 DEF VectorNext

\* The cached texts stay those of the collections: whoever changes a text
\* drops what is cached of it, or is about to.
LEMMA CachedStep == VectorTypeOK /\ Channel /\ Work /\ [VectorNext]_vectorVars => Cached'
<1> SUFFICES ASSUME VectorTypeOK, Channel, Work, [VectorNext]_vectorVars, NEW d \in Documents,
                    cache'[d] # NotCached
             PROVE  cache'[d] = coll'[d].text \/ Publishing(d)'
  BY DEF Cached
<1>0. /\ cache \in [Documents -> Texts \cup {NotCached}] /\ coll[d] \in Collections
      /\ cache[d] # NotCached => cache[d] = coll[d].text \/ Publishing(d)
  BY DEF VectorTypeOK, Work, Cached
<1>1. ASSUME NEW e \in Documents, Fence(e)
      PROVE  e # d /\ cache'[d] = cache[d]
  BY <1>0, <1>1 DEF Fence
<1>2. ASSUME NEW a \in Calls, req[a].pc = "running",
             Running(a, "deal", "published") => req[a].doc # d,
             cache'[d] = cache[d], coll'[d].text = coll[d].text
      PROVE  cache'[d] = coll'[d].text
  BY <1>0, <1>2 DEF Channel, OneAtATime, Publishing, Running
<1>3. ASSUME NEW a \in Calls, req[a].pc = "running",
             Running(a, "deal", "published") => req[a].doc # d,
             UNCHANGED coll, \/ UNCHANGED cache
                             \/ Fence(req[a].doc)
      PROVE  cache'[d] = coll'[d].text
  <2>1. req[a].doc \in Documents
    BY <1>3 DEF VectorTypeOK
  <2> QED
    BY <1>1, <1>2, <1>3, <2>1
<1>4. ASSUME NEW a \in Calls, NEW c, req[a].pc = "running",
             Running(a, "deal", "published") => req[a].doc # d,
             SetColl(req[a].doc, c), Fence(req[a].doc)
      PROVE  cache'[d] = coll'[d].text
  <2>1. req[a].doc \in Documents
    BY <1>4 DEF VectorTypeOK
  <2>2. coll'[d] = coll[d]
    BY <1>1, <1>4, <2>1, OneColl
  <2> QED
    BY <1>1, <1>2, <1>4, <2>1, <2>2
<1>5. ASSUME NEW a \in Calls, NEW c, req[a].pc = "running",
             Running(a, "deal", "published") => req[a].doc # d,
             SetColl(req[a].doc, c), UNCHANGED cache, c.text = coll[req[a].doc].text
      PROVE  cache'[d] = coll'[d].text
  <2>1. req[a].doc \in Documents
    BY <1>5 DEF VectorTypeOK
  <2>2. coll'[d].text = coll[d].text
    BY <1>5, <2>1, OneColl
  <2> QED
    BY <1>2, <1>5, <2>2
<1>6. ASSUME NEW a \in Calls, NEW r, Go(a, r), UNCHANGED <<coll, cache>>,
             req[a].pc = "running" =>
                 r.pc = "running" /\ r.job = req[a].job /\ r.step = req[a].step /\ r.doc = req[a].doc
      PROVE  cache'[d] = coll'[d].text \/ Publishing(d)'
  BY <1>0, <1>6, OthersStay DEF Publishing, Running
<1>7. ASSUME NEW a \in Calls,
             \/ Begin(a) \/ TakeSlot(a) \/ Submit(a) \/ GiveUp(a) \/ CancelQueued(a) \/ Discard(a)
             \/ Run(a) \/ Settle(a) \/ Embed(a) \/ LookUp(a)
      PROVE  cache'[d] = coll'[d].text \/ Publishing(d)'
  <2>1. req[a].pc # "running" /\ UNCHANGED <<coll, cache>>
    BY <1>7 DEF Begin, TakeSlot, Submit, GiveUp, CancelQueued, Discard, Run, Settle, Embed,
                LookUp, store, index
  <2>2. \E r : Go(a, r)
    <3>1. CASE Begin(a) \/ TakeSlot(a)
      BY <3>1 DEF Begin, TakeSlot
    <3>2. CASE Submit(a) \/ GiveUp(a) \/ CancelQueued(a) \/ Discard(a)
      BY <3>2 DEF Submit, GiveUp, CancelQueued, Discard
    <3>3. CASE Run(a) \/ Settle(a) \/ Embed(a) \/ LookUp(a)
      BY <3>3 DEF Run, Settle, Embed, LookUp
    <3> QED
      BY <1>7, <3>1, <3>2, <3>3
  <2> QED
    BY <1>6, <2>1, <2>2
<1>8. ASSUME NEW a \in Calls, Leave(a) PROVE cache'[d] = coll'[d].text \/ Publishing(d)'
  <2> DEFINE r == [req[a] EXCEPT !.left = TRUE, !.asked = TRUE]
  <2>1. req[a] \in Requests
    BY DEF VectorTypeOK
  <2>2. r.pc = req[a].pc /\ r.job = req[a].job /\ r.step = req[a].step /\ r.doc = req[a].doc
    BY <2>1 DEF Requests
  <2>3. Go(a, r) /\ UNCHANGED <<coll, cache>>
    BY <1>8 DEF Leave, store, index
  <2> HIDE DEF r
  <2> QED
    BY <1>6, <2>2, <2>3
<1>9. ASSUME NEW a \in Calls, EnsureSlot(a) PROVE cache'[d] = coll'[d].text
  <2>1. req[a].pc = "running" /\ ~ Running(a, "deal", "published")
    BY <1>9 DEF EnsureSlot, Running
  <2>2. \/ SetColl(req[a].doc, Absent) /\ Fence(req[a].doc)
        \/ UNCHANGED <<coll, cache>>
    BY <1>9 DEF EnsureSlot, index
  <2> QED
    BY <1>3, <1>4, <2>1, <2>2
<1>10. ASSUME NEW a \in Calls, Stage(a) \/ JobFails(a) \/ Get(a) PROVE cache'[d] = coll'[d].text
  <2>1. req[a].pc = "running" /\ ~ Running(a, "deal", "published") /\ UNCHANGED <<coll, cache>>
    BY <1>10 DEF Stage, JobFails, Get, Running, store, index
  <2> QED
    BY <1>3, <2>1
<1>11. ASSUME NEW a \in Calls, Publish(a) PROVE cache'[d] = coll'[d].text \/ Publishing(d)'
  <2>1. /\ req[a].pc = "running" /\ ~ Running(a, "deal", "published") /\ req[a] \in Requests
        /\ req[a].doc \in Documents /\ UNCHANGED cache
    BY <1>11 DEF Publish, Running, index, VectorTypeOK
  <2>2. CASE UNCHANGED coll
    BY <1>3, <2>1, <2>2
  <2>3. CASE /\ Step(a, "published")
             /\ SetColl(req[a].doc, [status |-> "indexed", text |-> a])
    <3>1. CASE req[a].doc = d
      <4> DEFINE r == [req[a] EXCEPT !.step = "published"]
      <4>1. r.pc = "running" /\ r.job = "deal" /\ r.step = "published" /\ r.doc = d
        BY <1>11, <2>1, <3>1 DEF Publish, Running, Requests
      <4>2. Go(a, r)
        BY <2>3 DEF Step
      <4> HIDE DEF r
      <4>3. req'[a] = r
        BY <4>2, OthersStay
      <4> QED
        BY <4>1, <4>3 DEF Publishing, Running
    <3>2. CASE req[a].doc # d
      BY <1>2, <2>1, <2>3, <3>2, OneColl
    <3> QED
      BY <3>1, <3>2
  <2> QED
    BY <1>11, <2>2, <2>3 DEF Publish
<1>12. ASSUME NEW a \in Calls, Published(a) PROVE cache'[d] = coll'[d].text
  <2>1. /\ req[a].pc = "running" /\ req[a].doc \in Documents
        /\ Fence(req[a].doc) /\ UNCHANGED coll
    BY <1>12 DEF Published, Running, store, VectorTypeOK
  <2> QED
    BY <1>1, <1>3, <2>1
<1>13. ASSUME NEW a \in Calls, DealFails(a) PROVE cache'[d] = coll'[d].text
  <2>1. req[a].pc = "running" /\ ~ Running(a, "deal", "published")
    BY <1>13 DEF DealFails, Running
  <2>2. \/ UNCHANGED <<coll, cache>>
        \/ /\ SetColl(req[a].doc, [status |-> "indexed", text |-> a])
           /\ Fence(req[a].doc)
    BY <1>13 DEF DealFails, index
  <2> QED
    BY <1>3, <1>4, <2>1, <2>2
<1>14. ASSUME NEW a \in Calls, DeleteFence(a) \/ DeletePurge(a) PROVE cache'[d] = coll'[d].text
  <2>1. req[a].pc = "running" /\ Fence(req[a].doc) /\ ~ Running(a, "deal", "published")
    BY <1>14 DEF DeleteFence, DeletePurge, Running
  <2>2. UNCHANGED coll \/ \E c : SetColl(req[a].doc, c)
    BY <1>14 DEF DeleteFence, DeletePurge
  <2> QED
    BY <1>3, <1>4, <2>1, <2>2
<1>15. ASSUME NEW a \in Calls, DeleteMark(a) PROVE cache'[d] = coll'[d].text
  <2> DEFINE c == [coll[req[a].doc] EXCEPT !.status = "deleting"]
  <2>1. req[a].pc = "running" /\ ~ Running(a, "deal", "published") /\ req[a].doc \in Documents
    BY <1>15 DEF DeleteMark, Running, VectorTypeOK
  <2>2. c.text = coll[req[a].doc].text
    BY <2>1 DEF VectorTypeOK, Collections
  <2>3. SetColl(req[a].doc, c) /\ UNCHANGED cache
    BY <1>15 DEF DeleteMark, index
  <2> HIDE DEF c
  <2> QED
    BY <1>5, <2>1, <2>2, <2>3
<1>16. ASSUME NEW a \in Calls, DeleteFinish(a) PROVE cache'[d] = coll'[d].text
  <2>1. req[a].pc = "running" /\ ~ Running(a, "deal", "published") /\ req[a].step = "finish"
    BY <1>16 DEF DeleteFinish, Running
  <2>2. Tombstone.text = coll[req[a].doc].text
    BY <2>1 DEF Work, AllTold, InStep, Tombstone
  <2>3. SetColl(req[a].doc, Tombstone) /\ UNCHANGED cache
    BY <1>16 DEF DeleteFinish, index
  <2> QED
    BY <1>5, <2>1, <2>2, <2>3
<1>17. ASSUME NEW a \in Calls, List(a) PROVE cache'[d] = coll'[d].text
  <2>1. req[a].pc = "running" /\ ~ Running(a, "deal", "published")
    BY <1>17 DEF List, Running
  <2>2. coll'[d] \in Swept(coll[d]) /\ cache'[d] = cache[d] /\ coll[d].status # "deleting"
    BY <1>17 DEF List
  <2>3. coll[d].status \in {"none", "ghost", "deleted"} => coll[d].text = Nothing
    BY DEF Work, Empty
  <2>4. coll'[d].text = coll[d].text
    BY <2>2, <2>3 DEF Swept, Absent
  <2> QED
    BY <1>2, <2>1, <2>2, <2>4
<1>18. ASSUME NEW a \in Calls, Build(a) PROVE cache'[d] = coll'[d].text
  <2>1. req[a].pc = "running" /\ ~ Running(a, "deal", "published") /\ UNCHANGED coll
    BY <1>18, NamesAssumption DEF Build, Running, store
  <2>2. CASE UNCHANGED cache
    BY <1>3, <2>1, <2>2
  <2>3. CASE cache' = [cache EXCEPT ![req[a].doc] = coll[req[a].doc].text]
    <3>1. CASE req[a].doc = d
      BY <1>0, <2>1, <2>3, <3>1
    <3>2. CASE req[a].doc # d
      BY <1>2, <2>1, <2>3, <3>2
    <3> QED
      BY <3>1, <3>2
  <2> QED
    BY <1>18, <2>2, <2>3 DEF Build
<1>19. CASE \/ \E e \in Documents : Evict(e)
            \/ ShutDown \/ StopThread \/ Reopen \/ UNCHANGED vectorVars
  <2>1. UNCHANGED <<coll, req>>
    BY <1>19 DEF Evict, ShutDown, StopThread, Reopen, store, vectorVars
  <2>2. cache'[d] = cache[d]
    BY <1>0, <1>19 DEF Evict, ShutDown, StopThread, Reopen, index, vectorVars
  <2> QED
    BY <1>0, <2>1, <2>2 DEF Publishing, Running
<1>20. ~ Crash
  BY DEF Crash
<1> QED
  BY <1>7, <1>8, <1>9, <1>10, <1>11, <1>12, <1>13, <1>14, <1>15, <1>16, <1>17, <1>18, <1>19,
     <1>20 DEF VectorNext

\* A request is told that nothing was done.
LEMMA OverQuiet ==
    ASSUME VectorTypeOK, Channel, Work, NEW a \in Calls, NEW reply \in Messages \ {"indexed"},
           Go(a, Over(req[a], reply)), req[a].pc # "idle", UNCHANGED coll,
           \A d \in Documents : Ends(d)
    PROVE  AllTold'
<1> DEFINE r == Over(req[a], reply)
<1>1. r.pc = "over" /\ r.doc = req[a].doc /\ r.late = req[a].late /\ r.reply = reply
  BY OverEnds
<1> HIDE DEF r
<1>2. Go(a, r)
  BY DEF r
<1> QED
  BY <1>1, <1>2, QuietStep

\* A job ends and says what it did, without a text.
LEMMA EndQuiet ==
    ASSUME VectorTypeOK, Channel, Work, NEW a \in Calls, NEW reply \in Messages \ {"indexed"},
           End(a, reply), req[a].pc = "running", \A d \in Documents : Ends(d)
    PROVE  AllTold'
<1> DEFINE r == [req[a] EXCEPT !.pc = "ending", !.step = Nothing, !.reply = reply]
<1>1. req[a] \in Requests
  BY DEF VectorTypeOK
<1>2. r.pc = "ending" /\ r.doc = req[a].doc /\ r.late = req[a].late /\ r.reply = reply
  BY <1>1 DEF Requests
<1>3. Go(a, r)
  BY DEF End
<1> HIDE DEF r
<1> QED
  BY <1>2, <1>3, QuietStep

\* A job goes on to a step at which it knows what it must.
LEMMA StepKnows ==
    ASSUME VectorTypeOK, Channel, Work, NEW a \in Calls, NEW next, Step(a, next),
           req[a].pc = "running", \A d \in Documents : Ends(d),
           next = "published" =>
               req[a].job = "deal" /\ coll'[req[a].doc] = [status |-> "indexed", text |-> a],
           next = "mark" => coll'[req[a].doc].status \notin {"none", "deleted"},
           next \in {"purge", "finish"} => coll'[req[a].doc].status = "deleting",
           next = "finish" => coll'[req[a].doc].text = Nothing
    PROVE  AllTold'
<1> DEFINE r == [req[a] EXCEPT !.step = next]
<1>1. req[a] \in Requests /\ req[a].doc \in Documents /\ Told(a)
  BY DEF VectorTypeOK, Work, AllTold
<1>2. /\ r.pc = "running" /\ r.doc = req[a].doc /\ r.late = req[a].late
      /\ r.reply = req[a].reply /\ r.step = next /\ r.job = req[a].job
  BY <1>1 DEF Requests
<1>3. Go(a, r)
  BY DEF Step
<1> HIDE DEF r
<1>4. req'[a] = r
  BY <1>3, OthersStay
<1>5. InStep(a)'
  BY <1>2, <1>4 DEF InStep
<1>6. Told(a)'
  BY <1>1, <1>2, <1>4, DocumentStays DEF Told
<1> QED
  BY <1>3, <1>5, <1>6, OthersKeep DEF AllTold

\* A request is told a text, which is not that of a deleted document.
LEMMA TextIsTold ==
    ASSUME VectorTypeOK, Channel, Work, NEW a \in Calls, NEW r, Go(a, r), UNCHANGED coll,
           \A d \in Documents : Ends(d), req[a].pc # "idle", r.pc \in {"over", "ending"},
           r.doc = req[a].doc, r.late = req[a].late, r.reply \in Texts,
           coll[req[a].doc].status = "deleted" => r.reply = Nothing
    PROVE  AllTold'
<1>1. req'[a] = r /\ Told(a)
  BY OthersStay DEF Work, AllTold
<1>2. r.reply # "indexed"
  BY NamesAssumption DEF Texts, Messages
<1>3. InStep(a)' /\ Told(a)'
  BY <1>1, <1>2, NothingAssumption DEF InStep, Told
<1> QED
  BY <1>3, OthersKeep DEF AllTold

\* A request that asks for a job takes along what it is and was told.
LEMMA AskTells ==
    ASSUME NEW q \in Requests, NEW job
    PROVE  /\ Ask(q, job).doc = q.doc /\ Ask(q, job).late = q.late
           /\ Ask(q, job).reply \in {q.reply, "shutting down"}
<1> DEFINE asked == [q EXCEPT !.pc = "slot", !.job = job, !.gen = generation]
           over  == Over(q, "shutting down")
<1>1. asked.doc = q.doc /\ asked.late = q.late /\ asked.reply = q.reply
  BY DEF Requests
<1>2. over.doc = q.doc /\ over.late = q.late /\ over.reply = "shutting down"
  BY OverEnds
<1>3. Ask(q, job) = asked \/ Ask(q, job) = over
  BY Zenon DEF Ask
<1> HIDE DEF asked, over
<1> QED
  BY <1>1, <1>2, <1>3

\* A request that is handed to the channel has been told nothing yet.
LEMMA AskQuiet ==
    ASSUME VectorTypeOK, Channel, Work, NEW a \in Calls, NEW q \in Requests, NEW job,
           q.doc = req[a].doc, q.late = req[a].late, q.reply = req[a].reply,
           Go(a, Ask(q, job)), req[a].pc # "idle", UNCHANGED coll,
           \A d \in Documents : Ends(d)
    PROVE  AllTold'
<1> DEFINE r == Ask(q, job)
<1>1. /\ r.pc \in {"slot", "over"} /\ r.doc = req[a].doc /\ r.late = req[a].late
      /\ r.reply \in {req[a].reply, "shutting down"} /\ Go(a, r)
  BY AskWaits, AskTells
<1> HIDE DEF r
<1>2. r.reply \in {req[a].reply, Nothing} \cup (Messages \ {"indexed"})
  BY <1>1 DEF Messages
<1> QED
  BY <1>1, <1>2, QuietStep

\* Nothing is cached of a deleted document.
LEMMA DeletedIsNotServed ==
    ASSUME Work, NEW d \in Documents, coll[d].status = "deleted", cache[d] # NotCached
    PROVE  cache[d] = Nothing
<1>1. ASSUME NEW b \in Calls, Running(b, "deal", "published"), req[b].doc = d PROVE FALSE
  <2>1. coll[d] = [status |-> "indexed", text |-> b]
    BY <1>1 DEF Running, Work, AllTold, InStep
  <2> QED
    BY <2>1
<1> QED
  BY <1>1 DEF Work, Cached, Empty, Publishing

\* Every step tells requests only what is true, and goes on where it may.
LEMMA ToldStep == VectorTypeOK /\ Channel /\ Work /\ [VectorNext]_vectorVars => AllTold'
<1> SUFFICES ASSUME VectorTypeOK, Channel, Work, [VectorNext]_vectorVars PROVE AllTold'
  OBVIOUS
<1>0. \A d \in Documents : Ends(d)
  BY DocumentsStep
<1>1. ASSUME NEW a \in Calls
      PROVE  req[a] \in Requests /\ InStep(a) /\ Told(a) /\ (req[a].pc # "idle" => req[a].doc \in Documents)
  BY DEF VectorTypeOK, Work, AllTold
<1>2. ASSUME NEW a \in Calls, Begin(a) PROVE AllTold'
  <2>1. PICK kind \in DOMAIN FirstJob, d \in Documents :
            Go(a, Ask([Idle EXCEPT !.kind = kind, !.doc = d, !.late = coll[d].status = "deleted"],
                      FirstJob[kind]))
    BY <1>2 DEF Begin
  <2> DEFINE q == [Idle EXCEPT !.kind = kind, !.doc = d, !.late = coll[d].status = "deleted"]
             r == Ask(q, FirstJob[kind])
  <2>2. kind \in {"upload", "query", "delete", "list"}
    BY DEF FirstJob
  <2>3. q \in Requests
    BY Zenon, <2>2, NewRequests
  <2>4. q.doc = d /\ q.late = (coll[d].status = "deleted") /\ q.reply = Nothing
    BY DEF Idle
  <2> HIDE DEF q
  <2>5. /\ r.pc \in {"slot", "over"} /\ r.doc = d /\ r.late = (coll[d].status = "deleted")
        /\ r.reply \in {Nothing, "shutting down"}
    BY <2>3, <2>4, AskWaits, AskTells
  <2>6. Go(a, r) /\ UNCHANGED coll
    BY <1>2, <2>1 DEF Begin, q, store
  <2> HIDE DEF r
  <2>7. req'[a] = r
    BY <2>6, OthersStay
  <2>8. Nothing # "indexed" /\ "shutting down" \notin Calls \cup {Old} /\ Nothing \notin Calls \cup {Old}
    BY NamesAssumption, NothingAssumption DEF Messages
  <2>9. InStep(a)' /\ Told(a)'
    BY <2>5, <2>6, <2>7, <2>8 DEF InStep, Told
  <2> QED
    BY <1>0, <2>6, <2>9, OthersKeep DEF AllTold
<1>3. ASSUME NEW a \in Calls, TakeSlot(a) PROVE AllTold'
  <2>1. UNCHANGED coll /\ req[a].pc = "slot"
    BY <1>3 DEF TakeSlot, store
  <2>2. CASE accepting
    <3> DEFINE r == [req[a] EXCEPT !.pc = "active"]
    <3>1. r.pc = "active" /\ r.doc = req[a].doc /\ r.late = req[a].late /\ r.reply = req[a].reply
      BY <1>1 DEF Requests
    <3>2. Go(a, r)
      BY <1>3, <2>2 DEF TakeSlot
    <3> HIDE DEF r
    <3> QED
      BY <1>0, <2>1, <3>1, <3>2, QuietStep
  <2>3. CASE ~ accepting
    BY <1>0, <1>3, <2>1, <2>3, OverQuiet DEF TakeSlot, Messages
  <2> QED
    BY <2>2, <2>3
<1>4. ASSUME NEW a \in Calls, Submit(a) PROVE AllTold'
  <2>1. UNCHANGED coll /\ req[a].pc = "active"
    BY <1>4 DEF Submit, store
  <2>2. CASE accepting /\ req[a].gen = generation
    <3> DEFINE r == [req[a] EXCEPT !.pc = "queued"]
    <3>1. r.pc = "queued" /\ r.doc = req[a].doc /\ r.late = req[a].late /\ r.reply = req[a].reply
      BY <1>1 DEF Requests
    <3>2. Go(a, r)
      BY <1>4, <2>2 DEF Submit
    <3> HIDE DEF r
    <3> QED
      BY <1>0, <2>1, <3>1, <3>2, QuietStep
  <2>3. CASE ~ (accepting /\ req[a].gen = generation)
    <3>1. Go(a, Over(req[a], "shutting down"))
      BY <1>4, <2>3 DEF Submit
    <3> QED
      BY <1>0, <2>1, <3>1, OverQuiet DEF Messages
  <2> QED
    BY <2>2, <2>3
<1>5. ASSUME NEW a \in Calls, GiveUp(a) \/ Discard(a) PROVE AllTold'
  <2>1. UNCHANGED coll /\ req[a].pc # "idle"
    BY <1>5 DEF GiveUp, Discard, store
  <2>2. Go(a, Over(req[a], "busy")) \/ Go(a, Over(req[a], "cancelled"))
    BY <1>5 DEF GiveUp, Discard
  <2> QED
    BY <1>0, <2>1, <2>2, OverQuiet DEF Messages
<1>6. ASSUME NEW a \in Calls, CancelQueued(a) PROVE AllTold'
  <2> DEFINE r == [req[a] EXCEPT !.pc = "discarded"]
  <2>1. r.pc = "discarded" /\ r.doc = req[a].doc /\ r.late = req[a].late /\ r.reply = req[a].reply
    BY <1>1 DEF Requests
  <2>2. Go(a, r) /\ UNCHANGED coll /\ req[a].pc = "queued"
    BY <1>6 DEF CancelQueued, store
  <2> HIDE DEF r
  <2> QED
    BY <1>0, <2>1, <2>2, QuietStep
<1>7. ASSUME NEW a \in Calls, Run(a) PROVE AllTold'
  <2> DEFINE step == FirstStep(req[a].job)
             r == [req[a] EXCEPT !.pc = "running", !.step = step]
  <2>1. /\ r.pc = "running" /\ r.doc = req[a].doc /\ r.late = req[a].late
        /\ r.reply = req[a].reply /\ r.step = step
    BY <1>1 DEF Requests
  <2>2. Go(a, r) /\ UNCHANGED coll /\ req[a].pc = "queued"
    BY <1>7 DEF Run, store
  <2>3. step \in {"ensure", "fence", "list", "get", "build", Nothing}
    BY <1>1 DEF FirstStep, Requests, Jobs
  <2> HIDE DEF r, step
  <2>4. req'[a] = r
    BY <2>2, OthersStay
  <2>5. step \notin {"published", "mark", "purge", "finish"}
    BY <2>3, NamesAssumption DEF Steps
  <2>6. InStep(a)'
    BY <2>1, <2>4, <2>5 DEF InStep
  <2>7. Told(a)'
    BY <1>1, <2>1, <2>2, <2>4 DEF Told
  <2> QED
    BY <1>0, <2>2, <2>6, <2>7, OthersKeep DEF AllTold
<1>8. ASSUME NEW a \in Calls, Leave(a) PROVE AllTold'
  <2> DEFINE r == [req[a] EXCEPT !.left = TRUE, !.asked = TRUE]
  <2>1. /\ r.pc = req[a].pc /\ r.doc = req[a].doc /\ r.late = req[a].late
        /\ r.reply = req[a].reply /\ r.step = req[a].step /\ r.job = req[a].job
    BY <1>1 DEF Requests
  <2>2. Go(a, r) /\ UNCHANGED coll /\ req[a].pc \in {"running", "ending"}
    BY <1>8 DEF Leave, store
  <2> HIDE DEF r
  <2> QED
    BY <1>0, <2>1, <2>2, QuietStep
<1>9. ASSUME NEW a \in Calls, Settle(a) PROVE AllTold'
  <2>1. UNCHANGED coll /\ req[a].pc = "ending"
    BY <1>9 DEF Settle, store
  <2>2. CASE Go(a, Over(req[a], "cancelled"))
    BY <1>0, <2>1, <2>2, OverQuiet DEF Messages
  <2>3. CASE Go(a, [req[a] EXCEPT !.pc = "embed", !.reply = Nothing])
    <3> DEFINE r == [req[a] EXCEPT !.pc = "embed", !.reply = Nothing]
    <3>1. r.pc = "embed" /\ r.doc = req[a].doc /\ r.late = req[a].late /\ r.reply = Nothing
      BY <1>1 DEF Requests
    <3>2. Go(a, r)
      BY <2>3
    <3> HIDE DEF r
    <3> QED
      BY <1>0, <2>1, <3>1, <3>2, QuietStep
  <2>4. CASE Go(a, Over(req[a], req[a].reply))
    <3> DEFINE r == Over(req[a], req[a].reply)
    <3>1. r.pc = "over" /\ r.doc = req[a].doc /\ r.late = req[a].late /\ r.reply = req[a].reply
      BY OverEnds
    <3>2. Go(a, r)
      BY <2>4
    <3> HIDE DEF r
    <3> QED
      BY <1>0, <2>1, <3>1, <3>2, QuietStep
  <2> QED
    BY <1>9, <2>2, <2>3, <2>4 DEF Settle
<1>10. ASSUME NEW a \in Calls, Embed(a) PROVE AllTold'
  <2>1. UNCHANGED coll /\ req[a].pc = "embed"
    BY <1>10 DEF Embed, store
  <2>2. CASE Go(a, Over(req[a], "failed"))
    BY <1>0, <2>1, <2>2, OverQuiet DEF Messages
  <2>3. CASE Go(a, Ask(req[a], "deal"))
    BY <1>0, <1>1, <2>1, <2>3, AskQuiet
  <2>4. CASE Go(a, [req[a] EXCEPT !.pc = "lookup"])
    <3> DEFINE r == [req[a] EXCEPT !.pc = "lookup"]
    <3>1. r.pc = "lookup" /\ r.doc = req[a].doc /\ r.late = req[a].late /\ r.reply = req[a].reply
      BY <1>1 DEF Requests
    <3>2. Go(a, r)
      BY <2>4
    <3> HIDE DEF r
    <3> QED
      BY <1>0, <2>1, <3>1, <3>2, QuietStep
  <2> QED
    BY <1>10, <2>2, <2>3, <2>4 DEF Embed
<1>11. ASSUME NEW a \in Calls, LookUp(a) PROVE AllTold'
  <2> DEFINE q == [req[a] EXCEPT !.version = version[req[a].doc]]
             r == Over(req[a], cache[req[a].doc])
  <2>1. UNCHANGED coll /\ req[a].pc = "lookup"
    BY <1>11 DEF LookUp, store
  <2>2. req[a].doc \in Documents
    BY <1>1, <2>1
  <2>3. version[req[a].doc] \in Nat /\ cache[req[a].doc] \in Texts \cup {NotCached}
    BY <2>2 DEF VectorTypeOK
  <2>4. CASE cache[req[a].doc] # NotCached
    <3>1. r.pc = "over" /\ r.doc = req[a].doc /\ r.late = req[a].late /\ r.reply = cache[req[a].doc]
      BY OverEnds
    <3>2. Go(a, r)
      BY <1>11, <2>4 DEF LookUp
    <3> HIDE DEF r
    <3>3. r.reply \in Texts /\ (coll[req[a].doc].status = "deleted" => r.reply = Nothing)
      BY <2>2, <2>3, <2>4, <3>1, DeletedIsNotServed
    <3> QED
      BY <1>0, <2>1, <3>1, <3>2, <3>3, TextIsTold
  <2>5. CASE cache[req[a].doc] = NotCached
    <3>1. q \in Requests /\ q.doc = req[a].doc /\ q.late = req[a].late /\ q.reply = req[a].reply
      BY <1>1, <2>3 DEF Requests
    <3>2. Go(a, Ask(q, "build"))
      BY <1>11, <2>5 DEF LookUp
    <3> HIDE DEF q
    <3> QED
      BY <1>0, <2>1, <3>1, <3>2, AskQuiet
  <2> QED
    BY <2>4, <2>5
<1>12. ASSUME NEW a \in Calls, EnsureSlot(a) PROVE AllTold'
  <2>1. req[a].pc = "running"
    BY <1>12 DEF EnsureSlot
  <2>2. End(a, "exists") \/ End(a, "go on") \/ Step(a, "stage")
    BY <1>12 DEF EnsureSlot
  <2> QED
    BY <1>0, <2>1, <2>2, EndQuiet, StepKnows DEF Messages
<1>13. ASSUME NEW a \in Calls, Stage(a) PROVE AllTold'
  <2>1. req[a].pc = "running"
    BY <1>13 DEF Stage, Running
  <2>2. End(a, "cancelled") \/ Step(a, "publish")
    BY <1>13 DEF Stage
  <2> QED
    BY <1>0, <2>1, <2>2, EndQuiet, StepKnows DEF Messages
<1>14. ASSUME NEW a \in Calls, Publish(a) PROVE AllTold'
  <2>1. req[a].pc = "running" /\ req[a].job = "deal" /\ req[a].doc \in Documents
    BY <1>1, <1>14 DEF Publish, Running
  <2>2. CASE End(a, "cancelled") \/ End(a, "exists")
    BY <1>0, <2>1, <2>2, EndQuiet DEF Messages
  <2>3. CASE Step(a, "published") /\ SetColl(req[a].doc, [status |-> "indexed", text |-> a])
    BY <1>0, <2>1, <2>3, OneColl, StepKnows
  <2> QED
    BY <1>14, <2>2, <2>3 DEF Publish
<1>15. ASSUME NEW a \in Calls, Published(a) PROVE AllTold'
  <2>1. /\ req[a].pc = "running" /\ UNCHANGED coll
        /\ coll[req[a].doc] = [status |-> "indexed", text |-> a]
    BY <1>1, <1>15 DEF Published, Running, InStep, store
  <2>2. CASE End(a, "cancelled")
    BY <1>0, <2>1, <2>2, EndQuiet DEF Messages
  <2>3. CASE End(a, "indexed")
    <3> DEFINE r == [req[a] EXCEPT !.pc = "ending", !.step = Nothing, !.reply = "indexed"]
    <3>1. r.pc = "ending" /\ r.doc = req[a].doc /\ r.late = req[a].late
      BY <1>1 DEF Requests
    <3>2. Go(a, r)
      BY <2>3 DEF End
    <3> HIDE DEF r
    <3>3. req'[a] = r
      BY <3>2, OthersStay
    <3>4. coll[req[a].doc].text = a /\ coll[req[a].doc].status # "deleted"
      BY <2>1
    <3>5. InStep(a)' /\ Told(a)'
      BY <1>1, <2>1, <3>1, <3>3, <3>4 DEF InStep, Told
    <3> QED
      BY <1>0, <2>1, <3>2, <3>5, OthersKeep DEF AllTold
  <2> QED
    BY <1>15, <2>2, <2>3 DEF Published
<1>16. ASSUME NEW a \in Calls, DealFails(a) \/ JobFails(a) \/ List(a) \/ Get(a) PROVE AllTold'
  <2>1. req[a].pc = "running"
    BY <1>16 DEF DealFails, JobFails, List, Get, Running
  <2>2. \E reply \in {"failed", "exists", "listed", "go on", "not found"} : End(a, reply)
    BY <1>16 DEF DealFails, JobFails, List, Get
  <2> QED
    BY <1>0, <2>1, <2>2, EndQuiet DEF Messages
<1>17. ASSUME NEW a \in Calls, DeleteFence(a) PROVE AllTold'
  <2>1. req[a].pc = "running"
    BY <1>17 DEF DeleteFence, Running
  <2>2. CASE End(a, "deleted")
    BY <1>0, <2>1, <2>2, EndQuiet DEF Messages
  <2>3. CASE Step(a, "mark") /\ UNCHANGED coll /\ coll[req[a].doc].status \notin {"none", "deleted"}
    BY <1>0, <2>1, <2>3, StepKnows
  <2> QED
    BY <1>17, <2>2, <2>3 DEF DeleteFence
<1>18. ASSUME NEW a \in Calls, DeleteMark(a) PROVE AllTold'
  <2>1. /\ req[a].pc = "running" /\ Step(a, "purge") /\ req[a].doc \in Documents
        /\ SetColl(req[a].doc, [coll[req[a].doc] EXCEPT !.status = "deleting"])
    BY <1>1, <1>18 DEF DeleteMark, Running
  <2>2. coll'[req[a].doc].status = "deleting"
    BY <2>1, OneColl DEF VectorTypeOK, Collections
  <2> QED
    BY <1>0, <2>1, <2>2, StepKnows
<1>19. ASSUME NEW a \in Calls, DeletePurge(a) PROVE AllTold'
  <2>1. /\ req[a].pc = "running" /\ Step(a, "finish") /\ req[a].doc \in Documents
        /\ SetColl(req[a].doc, [coll[req[a].doc] EXCEPT !.text = Nothing])
        /\ coll[req[a].doc].status = "deleting"
    BY <1>1, <1>19 DEF DeletePurge, Running, InStep
  <2>2. coll'[req[a].doc].status = "deleting" /\ coll'[req[a].doc].text = Nothing
    BY <2>1, OneColl DEF VectorTypeOK, Collections
  <2> QED
    BY <1>0, <2>1, <2>2, StepKnows
<1>20. ASSUME NEW a \in Calls, DeleteFinish(a) PROVE AllTold'
  BY <1>0, <1>20, EndQuiet DEF DeleteFinish, Running, Messages
<1>21. ASSUME NEW a \in Calls, Build(a) PROVE AllTold'
  <2>1. req[a].pc = "running" /\ UNCHANGED coll /\ req[a].doc \in Documents
    BY <1>1, <1>21 DEF Build, Running, store
  <2>2. CASE End(a, "not found")
    BY <1>0, <2>1, <2>2, EndQuiet DEF Messages
  <2>3. ASSUME NEW text \in Texts, End(a, text), coll[req[a].doc].status = "deleted" => text = Nothing
        PROVE  AllTold'
    <3> DEFINE r == [req[a] EXCEPT !.pc = "ending", !.step = Nothing, !.reply = text]
    <3>1. r.pc = "ending" /\ r.doc = req[a].doc /\ r.late = req[a].late /\ r.reply = text
      BY <1>1 DEF Requests
    <3>2. Go(a, r)
      BY <2>3 DEF End
    <3> HIDE DEF r
    <3> QED
      BY <1>0, <2>1, <2>3, <3>1, <3>2, TextIsTold
  <2>4. CASE cache[req[a].doc] # NotCached /\ End(a, cache[req[a].doc])
    BY <2>1, <2>3, <2>4, DeletedIsNotServed DEF VectorTypeOK
  <2>5. CASE End(a, coll[req[a].doc].text) /\ Found(req[a].doc)
    BY <2>1, <2>3, <2>5 DEF VectorTypeOK, Collections, Found
  <2> QED
    BY <1>21, <2>2, <2>4, <2>5 DEF Build
<1>22. CASE \/ \E d \in Documents : Evict(d)
            \/ ShutDown \/ StopThread \/ Reopen \/ UNCHANGED vectorVars
  <2>1. UNCHANGED <<coll, req>>
    BY <1>22 DEF Evict, ShutDown, StopThread, Reopen, store, vectorVars
  <2> QED
    BY <2>1 DEF Work, AllTold, InStep, Told
<1>23. CASE Crash
  <2> SUFFICES ASSUME NEW b \in Calls PROVE InStep(b)' /\ Told(b)'
    BY DEF AllTold
  <2>1. UNCHANGED coll
    BY <1>23 DEF Crash, store
  <2>2. CASE req'[b] = req[b]
    BY <1>1, <2>1, <2>2 DEF InStep, Told
  <2>3. CASE req'[b] = Over(req[b], "lost")
    <3>1. /\ req'[b].pc = "over" /\ req'[b].doc = req[b].doc /\ req'[b].late = req[b].late
          /\ req'[b].reply = "lost"
      BY <2>3, OverEnds
    <3>2. "lost" \notin Calls \cup {Old}
      BY NamesAssumption DEF Messages
    <3>3. InStep(b)'
      BY <3>1 DEF InStep
    <3>4. Told(b)'
      BY <1>1, <2>1, <3>1, <3>2 DEF Told
    <3> QED
      BY <3>3, <3>4
  <2> QED
    BY <1>23, <2>2, <2>3 DEF Crash
<1> QED
  BY <1>2, <1>3, <1>4, <1>5, <1>6, <1>7, <1>8, <1>9, <1>10, <1>11, <1>12, <1>13, <1>14, <1>15,
     <1>16, <1>17, <1>18, <1>19, <1>20, <1>21, <1>22, <1>23 DEF VectorNext

\* Nothing is under way in an initial state.
LEMMA WorkInit == VectorInit => Work
<1> SUFFICES ASSUME VectorInit PROVE Work
  OBVIOUS
<1>1. ASSUME NEW b \in Calls PROVE InStep(b) /\ Told(b)
  <2>1. req[b] = Idle
    BY DEF VectorInit
  <2>2. Idle.pc = "idle" /\ Idle.late = FALSE /\ Idle.reply = Nothing
    BY DEF Idle
  <2>3. Nothing # "indexed"
    BY NamesAssumption DEF Messages
  <2> QED
    BY <2>1, <2>2, <2>3 DEF InStep, Told
<1>2. Empty
  BY DEF VectorInit, Empty, Absent
<1>3. Cached
  BY DEF VectorInit, Cached
<1> QED
  BY <1>1, <1>2, <1>3 DEF Work, AllTold

-----------------------------------------------------------------------------
(***************************************************************************)
(* What the store guarantees                                               *)
(***************************************************************************)

\* The inductive invariant: the types, the accounts of the channel, and what
\* jobs, requests and the cache know of the documents.
VectorIInv == VectorTypeOK /\ Channel /\ Work

\* The inductive invariant holds in every reachable state.
LEMMA VectorInvariance == VectorSpec => []VectorIInv
<1>1. VectorInit => VectorIInv
  BY VectorTypeInit, ChannelInit, WorkInit DEF VectorIInv
<1>2. VectorIInv /\ [VectorNext]_vectorVars => VectorIInv'
  BY VectorTypeStep, ChannelStep, DocumentsStep, CachedStep, ToldStep DEF VectorIInv, Work
<1> QED
  BY <1>1, <1>2, PTL DEF VectorSpec

\* The state is always well typed: in particular no slot is counted below
\* zero, and whoever is past its first call asks for a document.
THEOREM VectorTypeCorrect == VectorSpec => []VectorTypeOK
<1>1. VectorIInv => VectorTypeOK
  BY DEF VectorIInv
<1> QED
  BY <1>1, VectorInvariance, PTL

\* The one thread, its lock and its bounded queue are accounted for, whoever
\* times out, is cancelled, leaves its job behind or waits across a shutdown.
THEOREM ChannelSound == VectorSpec => []ChannelIsSound
<1>1. VectorIInv => ChannelIsSound
  BY DEF VectorIInv, Channel
<1> QED
  BY <1>1, VectorInvariance, PTL

\* What the cache holds and learners are told is the text of the collection,
\* and a document once deleted serves none.
THEOREM ServedRight == VectorSpec => []ServedTextIsPublished
<1>1. VectorIInv => ServedTextIsPublished
  BY DEF VectorIInv, Work, AllTold, Told, Cached, Publishing, ServedTextIsPublished
<1> QED
  BY <1>1, VectorInvariance, PTL

\* Only the steps of a deletion end a document, and a tombstone stays.
THEOREM EndsByDeletion == VectorSpec => DocumentsEndOnlyByDeletion
<1>1. VectorIInv /\ [VectorNext]_vectorVars => [\A d \in Documents : Ends(d)]_vectorVars
  BY DocumentsStep DEF VectorIInv
<1> QED
  BY <1>1, VectorInvariance, PTL DEF VectorSpec, DocumentsEndOnlyByDeletion, Ends

-----------------------------------------------------------------------------
(***************************************************************************)
(* The receipts of services/idempotency.py                                 *)
(***************************************************************************)

-----------------------------------------------------------------------------
(***************************************************************************)
(* The transactions leave well-formed rows                                 *)
(***************************************************************************)

\* Every transaction of the store maps a row to a row.
LEMMA RowsStayRows ==
    ASSUME NEW row \in Row, NEW a \in Attempts, NEW t \in Nat
    PROVE  /\ \A b \in Bindings : BeginRow(row, b, a, t) \in Row
           /\ RenewRow(row, a, t) \in Row
           /\ MarkEffectRow(row, a, t) \in Row
           /\ \A r \in Responses : CompleteRow(row, a, r, t) \in Row
           /\ AbortRow(row, a) \in Row
           /\ \A b \in Bindings, r \in Responses, allow \in BOOLEAN :
                  ReconcileRow(row, b, r, allow) \in Row
<1>1. t + LeaseSeconds \in Nat /\ NoRow \in Row
  BY LeaseAssumption DEF NoRow, Row, States, NoLease
<1>2. ASSUME NEW b \in Bindings PROVE BeginRow(row, b, a, t) \in Row
  BY <1>1 DEF BeginRow, Row, States
<1>3. RenewRow(row, a, t) \in Row
  BY <1>1 DEF RenewRow, Row
<1>4. MarkEffectRow(row, a, t) \in Row
  BY DEF MarkEffectRow, Row, States
<1>5. ASSUME NEW r \in Responses PROVE CompletedRow(row, r) \in Row
  BY DEF CompletedRow, Row, States
<1>6. AbortRow(row, a) \in Row
  <2>1. [row EXCEPT !.state = "ambiguous", !.owner = None, !.expires = NoLease] \in Row
    BY DEF Row, States
  <2> QED
    BY <1>1, <2>1 DEF AbortRow
<1> QED
  BY <1>2, <1>3, <1>4, <1>5, <1>6 DEF CompleteRow, ReconcileRow

\* begin() gives one of its answers.
LEMMA BeginAnswers ==
    ASSUME NEW row, NEW b, NEW t
    PROVE  BeginAnswer(row, b, t) \in Answers
BY DEF BeginAnswer, Answers

\* A replay answers with the response of a completed row.
LEMMA ReplayHasResponse ==
    ASSUME NEW row \in Row, NEW b, NEW t, BeginAnswer(row, b, t) = "replayed"
    PROVE  row.state = "completed" /\ row.response \in Responses
BY DEF BeginAnswer, Row

\* Where a row stands after its key's lock is released is where it was put.
LEMMA StoreTouchesOneKey ==
    ASSUME TypeOK, NEW a \in Attempts, NEW row \in Row, Store(a, row)
    PROVE  /\ receipts' \in [Keys -> Row]
           /\ receipts'[KeyOf(a)] = row
           /\ \A k \in Keys : k # KeyOf(a) => receipts'[k] = receipts[k]
BY DEF TypeOK, Store, KeyOf

-----------------------------------------------------------------------------
(***************************************************************************)
(* Types                                                                   *)
(***************************************************************************)

\* The initial state is well typed.
LEMMA StoreTypeInit == Init => TypeOK
<1>1. InitialRows \subseteq Row
  <2>1. NoRow \in Row
    BY DEF NoRow, Row, States
  <2>2. \A s \in {"pending", "effect_started"}, b \in Bindings : LegacyRow(s, b) \in Row
    BY <2>1 DEF LegacyRow, Row, States
  <2> QED
    BY <2>1, <2>2 DEF InitialRows
<1>2. Init => receipts \in [Keys -> Row]
  BY <1>1 DEF Init
<1> QED
  BY <1>2 DEF Init, TypeOK, PcStates, LateOps, Answers

\* Every step of the system leaves a well-typed state well typed.
LEMMA StoreTypeStep == TypeOK /\ [Next]_vars => TypeOK'
<1> SUFFICES ASSUME TypeOK, [Next]_vars PROVE TypeOK'
  OBVIOUS
<1> USE DEF TypeOK, PcStates, Goto
<1>0. \A a \in Attempts : /\ Receipt(a) \in Row
                         /\ KeyOf(a) \in Keys /\ BindingOf(a) \in Bindings
  BY DEF Receipt, KeyOf, BindingOf
<1>1. CASE Tick
  BY <1>1 DEF Tick
<1>2. ASSUME NEW a \in Attempts, StartBegin(a) PROVE TypeOK'
  BY <1>2 DEF StartBegin
<1>3. ASSUME NEW a \in Attempts, BeginThread(a) PROVE TypeOK'
  <2>1. receipts' \in [Keys -> Row]
    BY <1>0, <1>3, RowsStayRows, StoreTouchesOneKey DEF BeginThread
  <2>2. answer' \in [Attempts -> Answers]
    BY <1>3, BeginAnswers DEF BeginThread
  <2>3. got' \in [Attempts -> Responses \cup {None}]
    BY <1>0, <1>3, ReplayHasResponse DEF BeginThread
  <2> QED
    BY <1>3, <2>1, <2>2, <2>3 DEF BeginThread, AfterThread
<1>4. ASSUME NEW a \in Attempts, BeginThreadFails(a) PROVE TypeOK'
  BY <1>4 DEF BeginThreadFails, AfterThread, Fault, Answers
<1>5. ASSUME NEW a \in Attempts, BeginReturns(a) PROVE TypeOK'
  BY <1>5 DEF BeginReturns
<1>6. ASSUME NEW a \in Attempts, CancelBegin(a) PROVE TypeOK'
  BY <1>6 DEF CancelBegin, AfterCancel
<1>7. ASSUME NEW a \in Attempts, CleanupBegin(a) PROVE TypeOK'
  <2>1. receipts' \in [Keys -> Row]
    BY <1>0, <1>7, StoreTouchesOneKey, RowsStayRows DEF CleanupBegin
  <2> QED
    BY <1>7, <2>1 DEF CleanupBegin
<1>8. ASSUME NEW a \in Attempts, CleanupFails(a) PROVE TypeOK'
  BY <1>8 DEF CleanupFails, Fault
<1>9. ASSUME NEW a \in Attempts, Renew(a) PROVE TypeOK'
  <2>1. receipts' \in [Keys -> Row]
    BY <1>0, <1>9, StoreTouchesOneKey, RowsStayRows DEF Renew
  <2> QED
    BY <1>9, <2>1 DEF Renew
<1>10. ASSUME NEW a \in Attempts, MarkEffectStarted(a) PROVE TypeOK'
  <2>1. receipts' \in [Keys -> Row]
    BY <1>0, <1>10, StoreTouchesOneKey, RowsStayRows DEF MarkEffectStarted
  <2> QED
    BY <1>10, <2>1 DEF MarkEffectStarted
<1>11. ASSUME NEW a \in Attempts, RunHandler(a) PROVE TypeOK'
  BY <1>0, <1>11 DEF RunHandler
<1>12. ASSUME NEW a \in Attempts, Raise(a) PROVE TypeOK'
  BY <1>12 DEF Raise
<1>13. ASSUME NEW a \in Attempts, NEW r \in Responses, Complete(a, r) PROVE TypeOK'
  <2>1. receipts' \in [Keys -> Row]
    BY <1>0, <1>13, StoreTouchesOneKey, RowsStayRows DEF Complete
  <2>2. /\ Goto(a, "over") \/ Goto(a, "aborting")
        /\ got' = [got EXCEPT ![a] = r] \/ got' = got
        /\ UNCHANGED <<now, request, answer, late, ran, told, faults>>
    BY Zenon, <1>13 DEF Complete
  <2>3. pc' \in [Attempts -> PcStates]
    BY <2>2
  <2>4. got' \in [Attempts -> Responses \cup {None}]
    BY <2>2
  <2> QED
    BY <2>1, <2>2, <2>3, <2>4
<1>14. ASSUME NEW a \in Attempts, NEW op \in LateOps, CancelInCall(a, op) PROVE TypeOK'
  BY <1>14 DEF CancelInCall
<1>15. ASSUME NEW a \in Attempts, LateThread(a) PROVE TypeOK'
  <2>1. receipts' \in [Keys -> Row]
    BY <1>0, <1>15, StoreTouchesOneKey, RowsStayRows DEF LateThread
  <2> QED
    BY <1>15, <2>1 DEF LateThread, LateOps
<1>16. ASSUME NEW a \in Attempts, Abort(a) PROVE TypeOK'
  <2>1. receipts' \in [Keys -> Row]
    BY <1>0, <1>16, StoreTouchesOneKey, RowsStayRows DEF Abort
  <2> QED
    BY <1>16, <2>1 DEF Abort
<1>17. ASSUME NEW a \in Attempts, AbortDeadline(a) PROVE TypeOK'
  BY <1>17 DEF AbortDeadline
<1>18. ASSUME NEW a \in Attempts, NEW r \in Responses, NEW allow \in BOOLEAN,
              ReconcileCompleted(a, r, allow)
       PROVE  TypeOK'
  <2>1. receipts' \in [Keys -> Row]
    BY <1>0, <1>18, StoreTouchesOneKey, RowsStayRows DEF ReconcileCompleted
  <2> QED
    BY <1>18, <2>1 DEF ReconcileCompleted
<1>19. ASSUME NEW a \in Attempts, Die(a) PROVE TypeOK'
  BY <1>19 DEF Die, Fault, LateOps
<1>20. CASE UNCHANGED vars
  BY <1>20 DEF vars
<1> QED
  BY <1>1, <1>2, <1>3, <1>4, <1>5, <1>6, <1>7, <1>8, <1>9, <1>10, <1>11, <1>12,
     <1>13, <1>14, <1>15, <1>16, <1>17, <1>18, <1>19, <1>20 DEF Next

\* The program's state stays within its types.
THEOREM StoreTypeCorrect == Spec => []TypeOK
BY StoreTypeInit, StoreTypeStep, PTL DEF Spec

-----------------------------------------------------------------------------
(***************************************************************************)
(* How one row may change                                                  *)
(***************************************************************************)

\* A completed receipt is final, a started effect is never forgotten and its
\* owner never replaced, and a recovery token lasts as long as its receipt.
RowEvolves(row, new) ==
    /\ row.state = "completed" => new = row
    /\ row.state = "ambiguous" => new.state \in {"ambiguous", "completed"}
    /\ row.state = "effect_started_v2" =>
           \/ new.state \in {"ambiguous", "completed"}
           \/ new.state = "effect_started_v2" /\ new.owner = row.owner
    /\ row.recovery # None /\ new.state # "absent" => new.recovery = row.recovery
    /\ row.response # None => new.response = row.response

RowTidy(row) == /\ row.state = "absent" => row = NoRow
                /\ row.state # "completed" => row.response = None

\* Every transaction leaves a tidy row an evolution of the tidy row it found.
LEMMA TransactionsEvolve ==
    ASSUME NEW row \in Row, RowTidy(row), NEW a \in Attempts, NEW t \in Nat
    PROVE  /\ \A b \in Bindings : /\ RowEvolves(row, BeginRow(row, b, a, t))
                                  /\ RowTidy(BeginRow(row, b, a, t))
           /\ RowEvolves(row, RenewRow(row, a, t)) /\ RowTidy(RenewRow(row, a, t))
           /\ RowEvolves(row, MarkEffectRow(row, a, t)) /\ RowTidy(MarkEffectRow(row, a, t))
           /\ \A r \in Responses : /\ RowEvolves(row, CompleteRow(row, a, r, t))
                                 /\ RowTidy(CompleteRow(row, a, r, t))
           /\ RowEvolves(row, AbortRow(row, a)) /\ RowTidy(AbortRow(row, a))
           /\ \A b \in Bindings, r \in Responses, allow \in BOOLEAN :
                  /\ RowEvolves(row, ReconcileRow(row, b, r, allow))
                  /\ RowTidy(ReconcileRow(row, b, r, allow))
<1> USE DEF RowEvolves, RowTidy, Row, NoRow
<1>1. ASSUME NEW b \in Bindings
      PROVE  RowEvolves(row, BeginRow(row, b, a, t)) /\ RowTidy(BeginRow(row, b, a, t))
  BY DEF BeginRow, BeginAnswer, Reclaimable, States
<1>2. RowEvolves(row, RenewRow(row, a, t)) /\ RowTidy(RenewRow(row, a, t))
  BY DEF RenewRow, RenewHolds, MayWrite
<1>3. RowEvolves(row, MarkEffectRow(row, a, t)) /\ RowTidy(MarkEffectRow(row, a, t))
  BY DEF MarkEffectRow, MayWrite
<1>4. ASSUME NEW r \in Responses, row.state # "completed"
      PROVE  RowEvolves(row, CompletedRow(row, r)) /\ RowTidy(CompletedRow(row, r))
  <2>1. row.state # "absent" \/ row.recovery = None
    OBVIOUS
  <2> QED
    BY <1>4, <2>1 DEF CompletedRow
<1>5. ASSUME NEW r \in Responses
      PROVE  RowEvolves(row, CompleteRow(row, a, r, t)) /\ RowTidy(CompleteRow(row, a, r, t))
  BY <1>4 DEF CompleteRow, MayWrite
<1>6. RowEvolves(row, AbortRow(row, a)) /\ RowTidy(AbortRow(row, a))
  BY DEF AbortRow
<1>7. ASSUME NEW b \in Bindings, NEW r \in Responses, NEW allow \in BOOLEAN
      PROVE  RowEvolves(row, ReconcileRow(row, b, r, allow)) /\ RowTidy(ReconcileRow(row, b, r, allow))
  <2>1. ReconcileAnswer(row, b, r, allow) = "repaired" => row.state # "completed"
    BY DEF ReconcileAnswer, Repairable
  <2> QED
    BY <1>4, <2>1 DEF ReconcileRow
<1> QED
  BY <1>1, <1>2, <1>3, <1>5, <1>6, <1>7

\* No step of the system makes any receipt change in another way.
LEMMA ReceiptsEvolve ==
    ASSUME TypeOK, RowsAreTidy, [Next]_vars
    PROVE  \A k \in Keys : RowEvolves(receipts[k], receipts'[k]) /\ RowTidy(receipts'[k])
<1> USE DEF TypeOK
<1>0. /\ \A k \in Keys : receipts[k] \in Row /\ RowTidy(receipts[k])
      /\ \A k \in Keys : RowEvolves(receipts[k], receipts[k])
      /\ \A a \in Attempts : /\ KeyOf(a) \in Keys /\ BindingOf(a) \in Bindings
                              /\ Receipt(a) = receipts[KeyOf(a)]
  BY DEF RowsAreTidy, RowTidy, RowEvolves, KeyOf, BindingOf, Receipt
<1>1. CASE UNCHANGED receipts
  BY <1>0, <1>1
<1>2. ASSUME NEW a \in Attempts, NEW row \in Row, Store(a, row),
             RowEvolves(Receipt(a), row), RowTidy(row)
      PROVE  \A k \in Keys : RowEvolves(receipts[k], receipts'[k]) /\ RowTidy(receipts'[k])
  BY <1>0, <1>2, StoreTouchesOneKey
<1>3. ASSUME NEW a \in Attempts
      PROVE  /\ Receipt(a) \in Row /\ RowTidy(Receipt(a)) /\ BindingOf(a) \in Bindings
             /\ now \in Nat
  BY <1>0
<1>4. ASSUME NEW a \in Attempts, BeginThread(a)
      PROVE  \A k \in Keys : RowEvolves(receipts[k], receipts'[k]) /\ RowTidy(receipts'[k])
  BY <1>2, <1>3, <1>4, TransactionsEvolve, RowsStayRows DEF BeginThread
<1>5. ASSUME NEW a \in Attempts, CleanupBegin(a) \/ Abort(a)
      PROVE  \A k \in Keys : RowEvolves(receipts[k], receipts'[k]) /\ RowTidy(receipts'[k])
  BY <1>2, <1>3, <1>5, TransactionsEvolve, RowsStayRows DEF CleanupBegin, Abort
<1>6. ASSUME NEW a \in Attempts, Renew(a) \/ MarkEffectStarted(a) \/ LateThread(a)
      PROVE  \A k \in Keys : RowEvolves(receipts[k], receipts'[k]) /\ RowTidy(receipts'[k])
  BY <1>2, <1>3, <1>6, TransactionsEvolve, RowsStayRows
     DEF Renew, MarkEffectStarted, LateThread
<1>7. ASSUME NEW a \in Attempts, NEW r \in Responses, Complete(a, r)
      PROVE  \A k \in Keys : RowEvolves(receipts[k], receipts'[k]) /\ RowTidy(receipts'[k])
  BY <1>2, <1>3, <1>7, TransactionsEvolve, RowsStayRows DEF Complete
<1>8. ASSUME NEW a \in Attempts, NEW r \in Responses, NEW allow \in BOOLEAN,
             ReconcileCompleted(a, r, allow)
      PROVE  \A k \in Keys : RowEvolves(receipts[k], receipts'[k]) /\ RowTidy(receipts'[k])
  BY <1>2, <1>3, <1>8, TransactionsEvolve, RowsStayRows DEF ReconcileCompleted
<1>9. ASSUME NEW a \in Attempts,
             \/ StartBegin(a) \/ BeginThreadFails(a) \/ BeginReturns(a) \/ CancelBegin(a)
             \/ CleanupFails(a) \/ RunHandler(a) \/ Raise(a) \/ AbortDeadline(a) \/ Die(a)
             \/ \E op \in LateOps : CancelInCall(a, op)
      PROVE  UNCHANGED receipts
  BY <1>9 DEF StartBegin, BeginThreadFails, BeginReturns, CancelBegin, CleanupFails,
              RunHandler, Raise, AbortDeadline, Die, CancelInCall
<1> QED
  BY <1>1, <1>4, <1>5, <1>6, <1>7, <1>8, <1>9 DEF Next, Tick, vars

-----------------------------------------------------------------------------
(***************************************************************************)
(* The inductive invariant                                                 *)
(***************************************************************************)

\* begin() grants a claim only on a key without a receipt or with a lapsed
\* one that no handler was marked under.
LEMMA ClaimsAreOfUnmarkedRows ==
    ASSUME NEW row, NEW b, NEW a \in Attempts, NEW t, BeginAnswer(row, b, t) = "claimed"
    PROVE  row.state \in {"absent", "pending_v2"}
BY DEF BeginAnswer, Reclaimable

\* A marker that its owner was allowed to write shuts the row for it.
LEMMA MarkShuts ==
    ASSUME NEW row \in Row, NEW a \in Attempts, NEW t, MayWrite(row, a, t)
    PROVE  ShutFor(MarkEffectRow(row, a, t), a)
BY DEF MayWrite, MarkEffectRow, ShutFor, Row

\* Evolution keeps a row shut for the attempt it is shut for.
LEMMA ShutStaysShut ==
    ASSUME NEW row, NEW new, NEW a, ShutFor(row, a), RowEvolves(row, new)
    PROVE  ShutFor(new, a)
BY DEF ShutFor, RowEvolves

\* The invariant holds initially.
LEMMA StoreInit == Init => IInv
<1> SUFFICES ASSUME Init PROVE IInv
  OBVIOUS
<1>1. TypeOK
  BY StoreTypeInit
<1>2. RowsAreTidy
  <2>1. \A row \in InitialRows : RowTidy(row)
    <3>1. RowTidy(NoRow)
      BY DEF RowTidy, NoRow
    <3>2. \A s \in {"pending", "effect_started"}, b \in Bindings : RowTidy(LegacyRow(s, b))
      BY DEF LegacyRow, NoRow, RowTidy
    <3> QED
      BY <3>1, <3>2 DEF InitialRows
  <2> QED
    BY <2>1 DEF Init, RowsAreTidy, RowTidy
<1>3. ActorsAreRecorded /\ AnswersAreRecorded /\ CleanAbortsAreOver
  <2>1. \A a \in Attempts : KeyOf(a) \in Keys
    BY <1>1 DEF TypeOK, KeyOf
  <2> QED
    BY <2>1, NoneAssumption
       DEF Init, ActorsAreRecorded, AnswersAreRecorded, CleanAbortsAreOver, Acted
<1> QED
  BY <1>1, <1>2, <1>3 DEF IInv

\* Only MarkEffectStarted makes an attempt one that acted, and RunHandler
\* runs the handlers of an attempt that already is.
LEMMA WhoActs ==
    ASSUME TypeOK, [Next]_vars, NEW c \in Attempts,
           pc'[c] = "marked" \/ \E k \in Keys : c \in ran'[k] /\ c \notin ran[k]
    PROVE  \/ pc[c] = "marked"
           \/ MarkEffectStarted(c) /\ MayWrite(Receipt(c), c, now)
<1> USE DEF TypeOK, Goto
<1>1. ASSUME NEW a \in Attempts, RunHandler(a) PROVE pc[c] = "marked"
  BY <1>1 DEF RunHandler, KeyOf
<1>2. ASSUME NEW a \in Attempts, MarkEffectStarted(a)
      PROVE  \/ pc[c] = "marked"
             \/ MarkEffectStarted(c) /\ MayWrite(Receipt(c), c, now)
  BY <1>2 DEF MarkEffectStarted
<1>3. ASSUME NEW a \in Attempts,
             \/ StartBegin(a) \/ BeginThread(a) \/ BeginThreadFails(a) \/ BeginReturns(a)
             \/ CancelBegin(a) \/ CleanupBegin(a) \/ CleanupFails(a)
             \/ Renew(a) \/ Raise(a) \/ Abort(a) \/ Die(a)
      PROVE  pc[c] = "marked"
  BY <1>3 DEF StartBegin, BeginThread, BeginThreadFails, BeginReturns, CancelBegin,
       CleanupBegin, CleanupFails, Renew, Raise, Abort, Die, AfterThread, AfterCancel
<1>4. ASSUME NEW a \in Attempts,
             \/ LateThread(a) \/ AbortDeadline(a)
             \/ \E op \in LateOps : CancelInCall(a, op)
             \/ \E r \in Responses : Complete(a, r)
             \/ \E r \in Responses, allow \in BOOLEAN : ReconcileCompleted(a, r, allow)
      PROVE  pc[c] = "marked"
  BY <1>4 DEF LateThread, AbortDeadline, CancelInCall, Complete, ReconcileCompleted
<1>5. CASE Tick \/ UNCHANGED vars
  BY <1>5 DEF Tick, vars
<1> QED
  BY <1>1, <1>2, <1>3, <1>4, <1>5 DEF Next

\* The request an attempt serves never changes.
LEMMA RequestsAreFixed ==
    ASSUME [Next]_vars
    PROVE  UNCHANGED request
BY DEF Next, vars, Tick, StartBegin, BeginThread, BeginThreadFails, BeginReturns, CancelBegin,
       CleanupBegin, CleanupFails, Renew, MarkEffectStarted, RunHandler, Raise, Complete,
       CancelInCall, LateThread, Abort, AbortDeadline, ReconcileCompleted, Die

\* The handlers of a key run on behalf of one attempt, the one its receipt
\* is shut for.
LEMMA ActorsStayRecorded ==
    ASSUME IInv, [Next]_vars
    PROVE  ActorsAreRecorded'
<1> USE DEF IInv, ActorsAreRecorded
<1>1. /\ \A a \in Attempts : /\ KeyOf(a) \in Keys /\ KeyOf(a)' = KeyOf(a)
                            /\ Receipt(a) \in Row
                            /\ Receipt(a)' = receipts'[KeyOf(a)]
      /\ TypeOK'
  BY RequestsAreFixed, StoreTypeStep DEF TypeOK, KeyOf, Receipt
<1>2. \A k \in Keys : RowEvolves(receipts[k], receipts'[k])
  BY ReceiptsEvolve
<1>3. \A k \in Keys : \A c \in ran'[k] : c \in ran[k] \/ (pc[c] = "marked" /\ KeyOf(c) = k)
  <2>1. ASSUME NEW a \in Attempts, RunHandler(a)
        PROVE  \A k \in Keys : \A c \in ran'[k] : c \in ran[k] \/ (c = a /\ KeyOf(a) = k)
    BY <2>1 DEF RunHandler, TypeOK
  <2>2. (\E a \in Attempts : RunHandler(a)) \/ UNCHANGED ran
    BY DEF Next, vars, Tick, StartBegin, BeginThread, BeginThreadFails, BeginReturns,
       CancelBegin, CleanupBegin, CleanupFails, Renew, MarkEffectStarted, Raise, Complete,
       CancelInCall, LateThread, Abort, AbortDeadline, ReconcileCompleted, Die
  <2> QED
    BY <2>1, <2>2 DEF RunHandler
<1>4. \A k \in Keys : \A c \in ran'[k] : KeyOf(c)' = k
  BY <1>1, <1>3 DEF TypeOK
<1>5. ASSUME NEW c \in Attempts, Acted(c)'
      PROVE  \/ Acted(c)
             \/ MarkEffectStarted(c) /\ MayWrite(Receipt(c), c, now)
  BY <1>1, <1>3, <1>5, WhoActs DEF Acted
<1>6. ASSUME NEW c \in Attempts, Acted(c)' PROVE ShutFor(Receipt(c)', c)
  <2>1. CASE Acted(c)
    BY <1>1, <1>2, <2>1, ShutStaysShut DEF Receipt
  <2>2. CASE MarkEffectStarted(c) /\ MayWrite(Receipt(c), c, now)
    <3>1. MarkEffectRow(Receipt(c), c, now) \in Row
      BY <1>1, RowsStayRows DEF TypeOK
    <3>2. Receipt(c)' = MarkEffectRow(Receipt(c), c, now)
      BY <1>1, <2>2, <3>1, StoreTouchesOneKey DEF MarkEffectStarted
    <3> QED
      BY <1>1, <2>2, <3>2, MarkShuts
  <2> QED
    BY <1>5, <1>6, <2>1, <2>2
<1>7. ASSUME NEW c \in Attempts, NEW d \in Attempts, KeyOf(c) = KeyOf(d), Acted(d),
             MayWrite(Receipt(c), c, now)
      PROVE  c = d
  BY <1>7 DEF ShutFor, MayWrite, Receipt
<1>8. ASSUME NEW c \in Attempts, NEW d \in Attempts, Acted(c)', Acted(d)',
             KeyOf(c)' = KeyOf(d)'
      PROVE  c = d
  <2>1. CASE Acted(c) /\ Acted(d)
    BY <1>1, <1>8, <2>1
  <2>2. CASE MarkEffectStarted(c) /\ MarkEffectStarted(d)
    BY <2>2 DEF MarkEffectStarted, Goto, TypeOK
  <2> QED
    BY <1>1, <1>5, <1>7, <1>8, <2>1, <2>2
<1> QED
  BY <1>1, <1>4, <1>6, <1>8

\* What an attempt was answered is what its receipt records for good.
LEMMA AnswersStayRecorded ==
    ASSUME IInv, [Next]_vars
    PROVE  AnswersAreRecorded'
<1> USE DEF IInv, AnswersAreRecorded
<1>1. /\ \A a \in Attempts : /\ KeyOf(a) \in Keys /\ KeyOf(a)' = KeyOf(a)
                            /\ Receipt(a) \in Row
                            /\ Receipt(a)' = receipts'[KeyOf(a)]
      /\ \A a \in Attempts : BindingOf(a) \in Bindings
  BY RequestsAreFixed DEF TypeOK, KeyOf, Receipt, BindingOf
<1>2. \A a \in Attempts : RowEvolves(Receipt(a), Receipt(a)')
  BY <1>1, ReceiptsEvolve DEF Receipt
<1>3. ASSUME NEW c \in Attempts, got'[c] = got[c], got[c] # None
      PROVE  Receipt(c)'.state = "completed" /\ Receipt(c)'.response = got'[c]
  BY <1>2, <1>3 DEF RowEvolves
<1>4. ASSUME NEW c \in Attempts, got'[c] # got[c], got'[c] # None
      PROVE  Receipt(c)'.state = "completed" /\ Receipt(c)'.response = got'[c]
  <2>1. ASSUME BeginThread(c), BeginAnswer(Receipt(c), BindingOf(c), now) = "replayed",
               got'[c] = Receipt(c).response
        PROVE  Receipt(c)'.state = "completed" /\ Receipt(c)'.response = got'[c]
    BY <1>1, <1>2, <2>1, ReplayHasResponse DEF RowEvolves
  <2>2. ASSUME NEW r \in Responses, Store(c, CompletedRow(Receipt(c), r)), got'[c] = r
        PROVE  Receipt(c)'.state = "completed" /\ Receipt(c)'.response = got'[c]
    <3>1. CompletedRow(Receipt(c), r) \in Row
      BY <1>1 DEF CompletedRow, Row, States
    <3>2. Receipt(c)' = CompletedRow(Receipt(c), r)
      BY <1>1, <2>2, <3>1, StoreTouchesOneKey
    <3> QED
      BY <1>1, <2>2, <3>2 DEF CompletedRow, Row
  <2>3. ASSUME NEW r \in Responses, Receipt(c).state = "completed", Receipt(c).response = r,
               got'[c] = r
        PROVE  Receipt(c)'.state = "completed" /\ Receipt(c)'.response = got'[c]
    BY <1>2, <2>3 DEF RowEvolves
  <2>4. ASSUME NEW a \in Attempts, BeginThread(a)
        PROVE  /\ a = c /\ BeginAnswer(Receipt(c), BindingOf(c), now) = "replayed"
               /\ got'[c] = Receipt(c).response
    BY <1>4, <2>4 DEF BeginThread, TypeOK
  <2>5. ASSUME NEW a \in Attempts, NEW r \in Responses, Complete(a, r)
        PROVE  Store(c, CompletedRow(Receipt(c), r)) /\ got'[c] = r
    BY <1>4, <2>5 DEF Complete, CompleteRow, TypeOK
  <2>6. ASSUME NEW a \in Attempts, NEW r \in Responses, NEW allow \in BOOLEAN,
               ReconcileCompleted(a, r, allow)
        PROVE  /\ got'[c] = r
               /\ \/ Store(c, CompletedRow(Receipt(c), r))
                  \/ Receipt(c).state = "completed" /\ Receipt(c).response = r
    <3>1. /\ a = c /\ got'[c] = r
          /\ ReconcileAnswer(Receipt(c), BindingOf(c), r, allow) \in {"agreed", "repaired"}
      BY <1>4, <2>6 DEF ReconcileCompleted, TypeOK
    <3>2. CASE ReconcileAnswer(Receipt(c), BindingOf(c), r, allow) = "repaired"
      BY <2>6, <3>1, <3>2 DEF ReconcileCompleted, ReconcileRow
    <3>3. CASE ReconcileAnswer(Receipt(c), BindingOf(c), r, allow) = "agreed"
      BY <3>1, <3>3 DEF ReconcileAnswer
    <3> QED
      BY <3>1, <3>2, <3>3
  <2>7. \/ \E a \in Attempts : BeginThread(a)
        \/ \E a \in Attempts, r \in Responses : Complete(a, r)
        \/ \E a \in Attempts, r \in Responses, allow \in BOOLEAN : ReconcileCompleted(a, r, allow)
        \/ UNCHANGED got
    BY DEF Next, vars, Tick, StartBegin, BeginThreadFails, BeginReturns, CancelBegin,
       CleanupBegin, CleanupFails, Renew, MarkEffectStarted, RunHandler, Raise,
       CancelInCall, LateThread, Abort, AbortDeadline, Die
  <2> QED
    BY <1>4, <2>1, <2>2, <2>3, <2>4, <2>5, <2>6, <2>7
<1> QED
  BY <1>3, <1>4

\* An attempt told that nothing durable happened never runs a handler after.
LEMMA CleanAbortsStayOver ==
    ASSUME IInv, [Next]_vars
    PROVE  CleanAbortsAreOver'
<1> USE DEF IInv, CleanAbortsAreOver
<1>1. \A a \in Attempts : /\ KeyOf(a) \in Keys /\ KeyOf(a)' = KeyOf(a)
                         /\ Receipt(a) \in Row
                         /\ Receipt(a)' = receipts'[KeyOf(a)]
  BY RequestsAreFixed DEF TypeOK, KeyOf, Receipt
<1>2. \A a \in Attempts : RowEvolves(Receipt(a), Receipt(a)')
  BY <1>1, ReceiptsEvolve DEF Receipt
<1>3. ASSUME NEW c \in Attempts, told[c] = "clean"
      PROVE  /\ pc'[c] \in {"over", "dead"}
             /\ c \in ran'[KeyOf(c)] => c \in ran[KeyOf(c)]
  <2> USE DEF TypeOK, Goto
  <2>1. pc[c] \in {"over", "dead"}
    BY <1>3
  <2>2. ASSUME NEW a \in Attempts,
               \/ StartBegin(a) \/ BeginThread(a) \/ BeginThreadFails(a) \/ BeginReturns(a)
               \/ CancelBegin(a) \/ CleanupBegin(a) \/ CleanupFails(a)
        PROVE  pc'[c] = pc[c] /\ UNCHANGED ran
    BY <2>1, <2>2 DEF StartBegin, BeginThread, BeginThreadFails, BeginReturns, CancelBegin,
       CleanupBegin, CleanupFails, AfterThread, AfterCancel
  <2>3. ASSUME NEW a \in Attempts,
               \/ Renew(a) \/ MarkEffectStarted(a) \/ Raise(a) \/ Abort(a)
               \/ LateThread(a) \/ AbortDeadline(a)
               \/ \E op \in LateOps : CancelInCall(a, op)
               \/ \E r \in Responses : Complete(a, r)
        PROVE  pc'[c] = pc[c] /\ UNCHANGED ran
    BY <2>1, <2>3 DEF Renew, MarkEffectStarted, Raise, Abort, LateThread, AbortDeadline,
       CancelInCall, Complete
  <2>4. ASSUME NEW a \in Attempts,
               \/ Die(a)
               \/ \E r \in Responses, allow \in BOOLEAN : ReconcileCompleted(a, r, allow)
        PROVE  pc'[c] \in {pc[c], "over", "dead"} /\ UNCHANGED ran
    BY <2>1, <2>4 DEF Die, ReconcileCompleted
  <2>5. ASSUME NEW a \in Attempts, RunHandler(a)
        PROVE  pc'[c] = pc[c] /\ (c \in ran'[KeyOf(c)] => c \in ran[KeyOf(c)])
    BY <1>1, <2>1, <2>5 DEF RunHandler
  <2>6. CASE Tick \/ UNCHANGED vars
    BY <2>1, <2>6 DEF Tick, vars
  <2> QED
    BY <2>1, <2>2, <2>3, <2>4, <2>5, <2>6 DEF Next
<1>4. ASSUME NEW c \in Attempts, told'[c] = "clean", told[c] # "clean"
      PROVE  /\ Abort(c) /\ pc'[c] = "over" /\ UNCHANGED ran
             /\ ~ HasEffectStarted(Receipt(c))
  <2>1. ASSUME NEW a \in Attempts, Abort(a)
        PROVE  /\ Abort(c) /\ pc'[c] = "over" /\ UNCHANGED ran
               /\ ~ HasEffectStarted(Receipt(c))
    BY <1>4, <2>1 DEF Abort, TypeOK, Goto
  <2>2. ASSUME NEW a \in Attempts, AbortDeadline(a) PROVE FALSE
    BY <1>4, <2>2 DEF AbortDeadline, TypeOK
  <2>3. \/ \E a \in Attempts : Abort(a) \/ AbortDeadline(a)
        \/ UNCHANGED told
    BY DEF Next, vars, Tick, StartBegin, BeginThread, BeginThreadFails, BeginReturns,
       CancelBegin, CleanupBegin, CleanupFails, Renew, MarkEffectStarted, RunHandler, Raise,
       Complete, CancelInCall, LateThread, ReconcileCompleted, Die
  <2> QED
    BY <1>4, <2>1, <2>2, <2>3
<1>5. ASSUME NEW c \in Attempts, told'[c] = "clean", c \in ran'[KeyOf(c)']
      PROVE  Receipt(c)'.state = "completed"
  <2>1. CASE told[c] = "clean"
    BY <1>1, <1>2, <1>3, <1>5, <2>1 DEF RowEvolves
  <2>2. CASE told[c] # "clean"
    <3>1. Receipt(c).state = "completed"
      BY <1>1, <1>4, <1>5, <2>2 DEF ActorsAreRecorded, Acted, ShutFor, HasEffectStarted
    <3> QED
      BY <1>2, <3>1 DEF RowEvolves
  <2> QED
    BY <2>1, <2>2
<1> QED
  BY <1>1, <1>3, <1>4, <1>5

\* The inductive invariant holds in every reachable state.
THEOREM StoreInvariance == Spec => []IInv
<1>1. IInv /\ [Next]_vars => RowsAreTidy'
  BY ReceiptsEvolve DEF IInv, RowsAreTidy, RowTidy
<1>2. IInv /\ [Next]_vars => IInv'
  BY <1>1, StoreTypeStep, ActorsStayRecorded, AnswersStayRecorded, CleanAbortsStayOver DEF IInv
<1> QED
  BY StoreInit, <1>2, PTL DEF Spec

-----------------------------------------------------------------------------
(***************************************************************************)
(* What follows from it                                                    *)
(***************************************************************************)

\* At most once: whatever the retries, takeovers, late threads and deaths,
\* non-replayable handlers run for one attempt per key.
THEOREM AtMostOnce == Spec => []EffectsOfOneAttempt
<1>1. IInv => EffectsOfOneAttempt
  BY DEF IInv, TypeOK, ActorsAreRecorded, EffectsOfOneAttempt, Acted
<1> QED
  BY <1>1, StoreInvariance, PTL

\* All the answers ever given for one key are one response.
THEOREM OneAnswer == Spec => []AnswersAgree
<1>1. IInv => AnswersAgree
  BY DEF IInv, AnswersAreRecorded, AnswersAgree, Receipt
<1> QED
  BY <1>1, StoreInvariance, PTL

\* A caller told by abort() that nothing durable happened can believe it.
THEOREM CleanAborts == Spec => []CleanAbortMeansNoEffect
<1>1. IInv => CleanAbortMeansNoEffect
  BY DEF IInv, CleanAbortsAreOver, CleanAbortMeansNoEffect
<1> QED
  BY <1>1, StoreInvariance, PTL

\* No claim is granted on a key whose handlers ran.
THEOREM CleanClaims == Spec => ClaimsAreClean
<1>1. ASSUME IInv, [Next]_vars
      PROVE  [\A a \in Attempts :
                 answer[a] # "claimed" /\ answer'[a] = "claimed" => ran[KeyOf(a)] = {}]_vars
  <2> SUFFICES ASSUME NEW c \in Attempts, answer[c] # "claimed", answer'[c] = "claimed"
               PROVE  ran[KeyOf(c)] = {}
    OBVIOUS
  <2> USE DEF IInv
  <2>1. ASSUME NEW a \in Attempts, BeginThread(a)
        PROVE  BeginAnswer(Receipt(c), BindingOf(c), now) = "claimed"
    BY <1>1, <2>1 DEF BeginThread, TypeOK
  <2>2. ASSUME NEW a \in Attempts, BeginThreadFails(a) PROVE FALSE
    BY <1>1, <2>2 DEF BeginThreadFails, TypeOK
  <2>3. BeginAnswer(Receipt(c), BindingOf(c), now) = "claimed"
    BY <1>1, <2>1, <2>2 DEF Next, vars, Tick, StartBegin, BeginReturns, CancelBegin,
       CleanupBegin, CleanupFails, Renew, MarkEffectStarted, RunHandler, Raise, Complete,
       CancelInCall, LateThread, Abort, AbortDeadline, ReconcileCompleted, Die
  <2>4. Receipt(c).state \in {"absent", "pending_v2"}
    BY <2>3, ClaimsAreOfUnmarkedRows
  <2>5. ASSUME NEW a \in ran[KeyOf(c)] PROVE FALSE
    <3>1. a \in Attempts /\ KeyOf(a) = KeyOf(c)
      BY <1>1, <2>5 DEF TypeOK, ActorsAreRecorded, KeyOf
    <3>2. ShutFor(Receipt(a), a)
      BY <1>1, <2>5, <3>1 DEF ActorsAreRecorded, Acted
    <3> QED
      BY <2>4, <3>1, <3>2 DEF ShutFor, Receipt
  <2> QED
    BY <2>5
<1> QED
  BY <1>1, StoreInvariance, PTL DEF Spec, ClaimsAreClean

\* The recovery token of a receipt outlives every takeover.
THEOREM StableRecoveryToken == Spec => RecoveryTokenIsStable
<1>1. IInv /\ [Next]_vars =>
          [\A k \in Keys :
              receipts[k].recovery # None /\ receipts'[k].state # "absent"
                  => receipts'[k].recovery = receipts[k].recovery]_vars
  BY ReceiptsEvolve DEF IInv, RowEvolves
<1> QED
  BY <1>1, StoreInvariance, PTL DEF Spec, RecoveryTokenIsStable

-----------------------------------------------------------------------------
(***************************************************************************)
(* The store implements OneShotRequest                                     *)
(***************************************************************************)
Actor(k) == IF ran[k] = {} THEN None ELSE CHOOSE a \in ran[k] : TRUE

\* An attempt running a handler is the one actor of its key.
LEMMA HandlersAct ==
    ASSUME IInv, [Next]_vars, NEW a \in Attempts, RunHandler(a), NEW k \in Keys, k = KeyOf(a)
    PROVE  Promise!Act(k, a)
<1>1. ran \in [Keys -> SUBSET Attempts]
  BY DEF IInv, TypeOK
<1>2. ran' = [ran EXCEPT ![k] = @ \cup {a}] /\ receipts' = receipts /\ pc[a] = "marked"
  BY DEF RunHandler
<1>3. \A b \in ran[k] : b = a
  BY <1>1, <1>2 DEF IInv, ActorsAreRecorded, Acted
<1>4. ran[k] \in {{}, {a}} /\ ran'[k] = {a}
  BY <1>1, <1>2, <1>3
<1>5. (CHOOSE b \in {a} : TRUE) = a
  OBVIOUS
<1>6. Actor(k) \in {None, a} /\ Actor(k)' = a
  BY <1>4, <1>5 DEF Actor
<1>7. [h \in Keys |-> Actor(h)]' = [[h \in Keys |-> Actor(h)] EXCEPT ![k] = a]
  <2>1. \A h \in Keys : h # k => Actor(h)' = Actor(h)
    BY <1>1, <1>2 DEF Actor
  <2> QED
    BY <1>6, <2>1
<1> QED
  BY <1>1, <1>2, <1>6, <1>7 DEF Promise!Act, Actor

\* A step on the table settles one key or none.
LEMMA ReceiptsSettle ==
    ASSUME IInv, [Next]_vars, UNCHANGED ran
    PROVE  [Promise!Next]_<<[k \in Keys |-> Actor(k)], [k \in Keys |-> receipts[k].response]>>
<1>1. \A k \in Keys : /\ RowEvolves(receipts[k], receipts'[k])
                     /\ receipts[k] \in Row /\ receipts'[k] \in Row
  BY ReceiptsEvolve, StoreTypeStep DEF IInv, TypeOK
<1>2. [k \in Keys |-> Actor(k)]' = [k \in Keys |-> Actor(k)]
  BY DEF Actor
<1>3. UNCHANGED receipts \/ \E k \in Keys : \A h \in Keys : h # k => receipts'[h] = receipts[h]
  <2>1. ASSUME NEW a \in Attempts, NEW row, Store(a, row)
        PROVE  \E k \in Keys : \A h \in Keys : h # k => receipts'[h] = receipts[h]
    BY <2>1 DEF Store, KeyOf, IInv, TypeOK
  <2> QED
    BY <2>1 DEF Next, vars, Tick, StartBegin, BeginThread, BeginThreadFails, BeginReturns,
       CancelBegin, CleanupBegin, CleanupFails, Renew, MarkEffectStarted, RunHandler, Raise,
       Complete, CancelInCall, LateThread, Abort, AbortDeadline, ReconcileCompleted, Die
<1>4. CASE [k \in Keys |-> receipts[k].response]' = [k \in Keys |-> receipts[k].response]
  BY <1>2, <1>4
<1>5. CASE [k \in Keys |-> receipts[k].response]' # [k \in Keys |-> receipts[k].response]
  <2>1. PICK k \in Keys : receipts'[k].response # receipts[k].response
    BY <1>5
  <2>2. \A h \in Keys : h # k => receipts'[h].response = receipts[h].response
    BY <1>3, <2>1
  <2>3. receipts[k].response = None /\ receipts'[k].response \in Responses
    BY <1>1, <2>1 DEF RowEvolves, Row
  <2>4. PICK r \in Responses : receipts'[k].response = r
    BY <2>3
  <2>5. Promise!Settle(k, r)
    BY <1>2, <2>2, <2>3, <2>4 DEF Promise!Settle, Actor
  <2>6. Promise!Next
    BY <2>5 DEF Promise!Next
  <2> QED
    BY <2>6
<1> QED
  BY <1>4, <1>5

\* The store keeps the promise of an Idempotency-Key.
THEOREM KeepsThePromise == Spec => PromiseSpec
<1>1. Init => Promise!Init
  <2> SUFFICES ASSUME Init PROVE Promise!Init
    OBVIOUS
  <2>1. \A row \in InitialRows : row.response = None
    <3>1. \A s \in {"pending", "effect_started"}, b \in Bindings :
              LegacyRow(s, b).response = None
      BY DEF LegacyRow, NoRow
    <3> QED
      BY <3>1 DEF InitialRows, NoRow
  <2> QED
    BY <2>1 DEF Init, Promise!Init
<1>2. ASSUME IInv, [Next]_vars
      PROVE  [Promise!Next]_<<[k \in Keys |-> Actor(k)], [k \in Keys |-> receipts[k].response]>>
  <2>1. (\E a \in Attempts : RunHandler(a)) \/ UNCHANGED ran
    BY <1>2 DEF Next, vars, Tick, StartBegin, BeginThread, BeginThreadFails, BeginReturns,
       CancelBegin, CleanupBegin, CleanupFails, Renew, MarkEffectStarted, Raise, Complete,
       CancelInCall, LateThread, Abort, AbortDeadline, ReconcileCompleted, Die
  <2>2. \A a \in Attempts : KeyOf(a) \in Keys
    BY <1>2 DEF IInv, TypeOK, KeyOf
  <2>3. ASSUME NEW a \in Attempts, RunHandler(a)
        PROVE  Promise!Next
    <3>1. PICK k \in Keys : k = KeyOf(a)
      BY <2>2
    <3>2. Promise!Act(k, a)
      BY <1>2, <2>3, <3>1, HandlersAct
    <3> QED
      BY <3>2 DEF Promise!Next
  <2> QED
    BY <1>2, <2>1, <2>3, ReceiptsSettle
<1>3. ASSUME IInv, [Next]_vars
      PROVE  [Promise!Next]_<<[k \in Keys |-> IF ran[k] = {} THEN None
                                              ELSE CHOOSE a \in ran[k] : TRUE],
                             [k \in Keys |-> receipts[k].response]>>
  BY <1>2, <1>3 DEF Actor
<1> QED
  BY <1>1, <1>3, StoreInvariance, PTL DEF Spec, PromiseSpec, Promise!Spec

=============================================================================
