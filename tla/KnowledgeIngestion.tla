-------------------------- MODULE KnowledgeIngestion --------------------------
(***************************************************************************)
(* One knowledge source from its upload to a searchable index: the API     *)
(* stores the file, inserts the row and enqueues a job; knowledge workers  *)
(* claim the source, embed it batch by batch outside any transaction, and  *)
(* replace its chunks.  Administrators reindex it.  Which model embeds a   *)
(* batch is up to the gateway and to the tenant's profile at that moment.  *)
(*                                                                         *)
(* Source: knowledge.py (upload, reindex), knowledge_runtime.py            *)
(* (process_knowledge_source), worker.process_knowledge_job.  The queue is *)
(* the one of JobQueue, at the grain of its entries.                       *)
(***************************************************************************)
EXTENDS Naturals, Sequences, FiniteSets

CONSTANTS
    Workers,
    Signatures,    \* embedding provider, model and dimension
    None,          \* SQL NULL
    Batches,       \* embedding requests one source takes
    MaxReindexes,  \* bound: reindex requests
    MaxAttempts,   \* worker_max_delivery_attempts
    MaxFaults,     \* bound: crashes, Redis, storage and provider errors
    MaxStalls      \* bound: claims that age under a worker that still runs

ASSUME IngestionAssumption ==
    /\ None \notin Signatures
    /\ Batches \in Nat \ {0}
    /\ MaxReindexes \in Nat
    /\ MaxAttempts \in Nat \ {0}
    /\ MaxFaults \in Nat
    /\ MaxStalls \in Nat

VARIABLES
    status,     \* KnowledgeSource.status; "none" without a row
    recent,     \* updated_at lies within _PROCESSING_STALE_AFTER
    signature,  \* its embedding_provider, _model_id and _dimension
    chunks,     \* signatures of its stored chunks, batch by batch
    object,     \* the file is in object storage
    upload,     \* where the upload request is
    reindex,    \* where the last reindex request is
    reindexes,
    entries,    \* live stream entries; 0 from the upload
    tries,      \* deliveries of each entry
    dropped,    \* the last job was dead-lettered, refused or never enqueued
    pc,         \* where each worker is in process_knowledge_source
    job,        \* its entry
    vectors,    \* signatures of the batches it has embedded
    overtaken,  \* a claim was taken over while its worker was at work
    faults,
    stalls

sourceVars == <<status, recent, signature, chunks, object>>
apiVars    == <<upload, reindex, reindexes>>
queueVars  == <<entries, tries, dropped>>
workerVars == <<pc, job, vectors>>
vars == <<sourceVars, apiVars, queueVars, workerVars, overtaken,
          faults, stalls>>

Entries   == 0..MaxReindexes
Statuses  == {"none", "queued", "processing", "ready", "failed"}
UploadPcs == {"put", "insert", "enqueue", "undo", "drop", "done"}
WorkerPcs == {"idle", "claim", "read", "embed", "persist", "requeue", "fail", "ack"}
Working   == {w \in Workers : pc[w] \in {"read", "embed", "persist", "requeue", "fail"}}

\* Every variable has its type; stored chunks are those of all batches.
TypeOK ==
    /\ status \in Statuses
    /\ recent \in BOOLEAN
    /\ signature \in Signatures \cup {None}
    /\ chunks \in Seq(Signatures)
    /\ Len(chunks) \in {0, Batches}
    /\ object \in BOOLEAN
    /\ upload \in UploadPcs
    /\ reindex \in {"idle", "enqueue"}
    /\ reindexes \in 0..MaxReindexes
    /\ entries \subseteq Entries
    /\ tries \in [Entries -> 0..MaxAttempts]
    /\ dropped \in BOOLEAN
    /\ pc \in [Workers -> WorkerPcs]
    /\ job \in [Workers -> Entries]
    /\ vectors \in [Workers -> Seq(Signatures)]
    /\ overtaken \in BOOLEAN
    /\ faults \in 0..MaxFaults
    /\ stalls \in 0..MaxStalls

\* The upload passed its checks: no source with this content was found.
Init ==
    /\ status = "none"
    /\ recent = FALSE
    /\ signature = None
    /\ chunks = <<>>
    /\ object = FALSE
    /\ upload = "put"
    /\ reindex = "idle"
    /\ reindexes = 0
    /\ entries = {}
    /\ tries = [e \in Entries |-> 0]
    /\ dropped = FALSE
    /\ pc = [w \in Workers |-> "idle"]
    /\ job = [w \in Workers |-> 0]
    /\ vectors = [w \in Workers |-> <<>>]
    /\ overtaken = FALSE
    /\ faults = 0
    /\ stalls = 0

Fault == faults < MaxFaults /\ faults' = faults + 1

-----------------------------------------------------------------------------
(* upload_knowledge_source.                                                 *)

UploadGoto(from, to) == upload = from /\ upload' = to

\* put_bytes; an error ends the request with 503, and with nothing stored.
PutObject ==
    /\ UploadGoto("put", "insert")
    /\ object' = TRUE
    /\ UNCHANGED <<status, recent, signature, chunks, reindex, reindexes,
                   queueVars, workerVars, overtaken, faults, stalls>>

\* The row and its audit event in one commit.
InsertSource ==
    /\ UploadGoto("insert", "enqueue")
    /\ status' = "queued"
    /\ UNCHANGED <<recent, signature, chunks, object, reindex, reindexes,
                   queueVars, workerVars, overtaken, faults, stalls>>

\* Another upload of the same content won uq_knowledge_sources_base_sha256.
InsertConflicts ==
    /\ UploadGoto("insert", "drop")
    /\ UNCHANGED <<sourceVars, reindex, reindexes, queueVars, workerVars,
                   overtaken, faults, stalls>>

\* queue.enqueue, and 202.
EnqueueUpload ==
    /\ UploadGoto("enqueue", "done")
    /\ entries' = entries \cup {0}
    /\ UNCHANGED <<sourceVars, reindex, reindexes, tries, dropped,
                   workerVars, overtaken, faults, stalls>>

\* RedisError; added tells whether the XADD took effect all the same.
EnqueueUploadFails(added) ==
    /\ UploadGoto("enqueue", "undo")
    /\ Fault
    /\ entries' = IF added THEN entries \cup {0} ELSE entries
    /\ UNCHANGED <<sourceVars, reindex, reindexes, tries, dropped,
                   workerVars, overtaken, stalls>>

\* Mutant: the file is removed before its row.
UndoDropsObjectFirst ==
    /\ UploadGoto("undo", "drop")
    /\ object' = FALSE
    /\ UNCHANGED <<status, recent, signature, chunks, reindex, reindexes,
                   queueVars, workerVars, overtaken, faults, stalls>>

\* The row is deleted again, its chunks with it (ON DELETE CASCADE).
UndoUpload ==
    /\ UploadGoto("undo", "drop")
    /\ status' = "none"
    /\ signature' = None
    /\ chunks' = <<>>
    /\ UNCHANGED <<recent, object, reindex, reindexes, queueVars,
                   workerVars, overtaken, faults, stalls>>

\* delete_object, errors suppressed: 409 or 503.
DropObject(removed) ==
    /\ UploadGoto("drop", "done")
    /\ object' = (object /\ ~removed)
    /\ UNCHANGED <<status, recent, signature, chunks, reindex, reindexes,
                   queueVars, workerVars, overtaken, faults, stalls>>

\* The API process dies.
UploadDies ==
    /\ upload \notin {"put", "done"}
    /\ Fault
    /\ upload' = "done"
    /\ dropped' = TRUE
    /\ UNCHANGED <<sourceVars, reindex, reindexes, entries, tries,
                   workerVars, overtaken, stalls>>

-----------------------------------------------------------------------------
(* reindex_knowledge_source.                                                *)

\* Under the row lock; a source in processing is refused with 409.  The old
\* chunks and their signature stay until the new index is persisted.
Reindex ==
    /\ reindex = "idle"
    /\ reindexes < MaxReindexes
    /\ status \notin {"none", "processing"}
    /\ reindexes' = reindexes + 1
    /\ reindex' = "enqueue"
    /\ status' = "queued"
    /\ UNCHANGED <<recent, signature, chunks, object, upload, queueVars,
                   workerVars, overtaken, faults, stalls>>

EnqueueReindex ==
    /\ reindex = "enqueue"
    /\ reindex' = "idle"
    /\ entries' = entries \cup {reindexes}
    /\ dropped' = FALSE
    /\ UNCHANGED <<sourceVars, upload, reindexes, tries, workerVars,
                   overtaken, faults, stalls>>

\* RedisError, or the API dies: the source stays queued.
EnqueueReindexFails(added) ==
    /\ reindex = "enqueue"
    /\ Fault
    /\ reindex' = "idle"
    /\ entries' = IF added THEN entries \cup {reindexes} ELSE entries
    /\ dropped' = ~added
    /\ UNCHANGED <<sourceVars, upload, reindexes, tries, workerVars,
                   overtaken, stalls>>

-----------------------------------------------------------------------------
(* process_knowledge_job.                                                   *)

Goto(w, from, to) ==
    /\ pc[w] = from
    /\ pc' = [pc EXCEPT ![w] = to]

\* The attempt is over: what was embedded is forgotten.
Leave(w, from, to) ==
    /\ Goto(w, from, to)
    /\ vectors' = [vectors EXCEPT ![w] = <<>>]
    /\ job' = [job EXCEPT ![w] = IF to = "idle" THEN 0 ELSE @]

\* Mutant: the delivery limit is not applied.
StartWithoutLimit(w, e) ==
    /\ e \in entries
    /\ tries' = [tries EXCEPT ![e] = @ + 1]
    /\ Goto(w, "idle", "claim")
    /\ job' = [job EXCEPT ![w] = e]
    /\ UNCHANGED <<sourceVars, apiVars, entries, dropped, vectors, overtaken,
                   faults, stalls>>

\* The stream delivers an entry, or dead-letters it past its budget.
StartJob(w, e) ==
    /\ pc[w] = "idle"
    /\ e \in entries
    /\ \/ /\ tries[e] = MaxAttempts
          /\ entries' = entries \ {e}
          /\ dropped' = TRUE
          /\ UNCHANGED <<tries, workerVars>>
       \/ /\ tries[e] < MaxAttempts
          /\ tries' = [tries EXCEPT ![e] = @ + 1]
          /\ Goto(w, "idle", "claim")
          /\ job' = [job EXCEPT ![w] = e]
          /\ UNCHANGED <<vectors, entries, dropped>>
    /\ UNCHANGED <<sourceVars, apiVars, overtaken, faults, stalls>>

\* Mutant: a source in processing is not busy.
ClaimWithoutBusy(w) ==
    /\ \/ /\ status \in {"none", "ready", "failed"}
          /\ Leave(w, "claim", "ack")
          /\ UNCHANGED <<status, recent>>
       \/ /\ status \in {"queued", "processing"}
          /\ Leave(w, "claim", "read")
          /\ status' = "processing"
          /\ recent' = TRUE
    /\ UNCHANGED <<signature, chunks, object, apiVars, queueVars, overtaken, faults, stalls>>

\* _claim_source.  Taking over a source that has been processing for long
\* assigns the values its columns already have: no UPDATE, and updated_at
\* stays as old as it was.
ClaimSource(w) ==
    /\ \/ /\ status \in {"none", "ready", "failed"}
          /\ Leave(w, "claim", "ack")
          /\ UNCHANGED <<status, recent, overtaken>>
       \/ /\ status = "processing"
          /\ recent
          /\ Leave(w, "claim", "idle")
          /\ UNCHANGED <<status, recent, overtaken>>
       \/ /\ status = "queued"
          /\ Leave(w, "claim", "read")
          /\ status' = "processing"
          /\ recent' = TRUE
          /\ UNCHANGED overtaken
       \/ /\ status = "processing"
          /\ ~recent
          /\ Leave(w, "claim", "read")
          /\ overtaken' = (overtaken \/ Working # {})
          /\ UNCHANGED <<status, recent>>
    /\ UNCHANGED <<signature, chunks, object, apiVars, queueVars, faults, stalls>>

\* The object is fetched, its digest compared, parsed and chunked.
ReadObject(w) ==
    /\ Goto(w, "read", "embed")
    /\ object
    /\ UNCHANGED <<sourceVars, apiVars, queueVars, job, vectors,
                   overtaken, faults, stalls>>

\* A storage error may be worth a retry; a missing object, a wrong digest
\* and a file that cannot be parsed are not.
ReadFails(w, retryable) ==
    /\ Leave(w, "read", IF retryable THEN "requeue" ELSE "fail")
    /\ IF retryable THEN Fault ELSE UNCHANGED faults
    /\ UNCHANGED <<sourceVars, apiVars, queueVars, overtaken, stalls>>

\* Mutant: the signatures of the batches are not compared.
EmbedWithoutComparison(w, s) ==
    /\ pc[w] = "embed"
    /\ vectors' = [vectors EXCEPT ![w] = Append(@, s)]
    /\ Goto(w, "embed", IF Len(vectors[w]) + 1 = Batches THEN "persist" ELSE "embed")
    /\ UNCHANGED <<sourceVars, apiVars, queueVars, job, overtaken, faults, stalls>>

\* _embed_chunks, one batch: the gateway answers with the signature s of the
\* model it routed to (the profile may have changed, or a fallback applied),
\* which must be the one of the batches so far.
EmbedBatch(w, s) ==
    /\ pc[w] = "embed"
    /\ \/ /\ \A i \in DOMAIN vectors[w] : vectors[w][i] = s
          /\ vectors' = [vectors EXCEPT ![w] = Append(@, s)]
          /\ Goto(w, "embed",
                  IF Len(vectors[w]) + 1 = Batches THEN "persist" ELSE "embed")
          /\ UNCHANGED job
       \/ /\ \E i \in DOMAIN vectors[w] : vectors[w][i] # s
          /\ Leave(w, "embed", "requeue")
    /\ UNCHANGED <<sourceVars, apiVars, queueVars, overtaken, faults, stalls>>

\* AIRoutingError, a wrong count or dimension, an invalid vector.
EmbedFails(w, retryable) ==
    /\ Leave(w, "embed", IF retryable THEN "requeue" ELSE "fail")
    /\ IF retryable THEN Fault ELSE UNCHANGED faults
    /\ UNCHANGED <<sourceVars, apiVars, queueVars, overtaken, stalls>>

\* _persist_index: under the row lock, and only while the source is in
\* processing, the chunks are replaced and the source becomes ready.
PersistIndex(w) ==
    /\ pc[w] = "persist"
    /\ \/ /\ status = "processing"
          /\ status' = "ready"
          /\ chunks' = vectors[w]
          /\ signature' = Head(vectors[w])
          /\ Leave(w, "persist", "ack")
       \/ /\ status # "processing"
          /\ Leave(w, "persist", IF status = "none" THEN "fail" ELSE "requeue")
          /\ UNCHANGED <<status, chunks, signature>>
    /\ UNCHANGED <<recent, object, apiVars, queueVars, overtaken, faults, stalls>>

\* Mutant: a retryable error acknowledges the entry as well.
ReportErrorAndAck(w) ==
    /\ \/ /\ Leave(w, "requeue", "ack")
          /\ status' = IF status = "none" THEN "none" ELSE "queued"
       \/ /\ Leave(w, "fail", "ack")
          /\ status' = IF status = "none" THEN "none" ELSE "failed"
    /\ signature' = None
    /\ UNCHANGED <<recent, chunks, object, apiVars, queueVars, overtaken, faults, stalls>>

\* _set_source_state, whatever the status is by now: queued again after a
\* retryable error, whose entry stays pending, and failed after any other.
ReportError(w) ==
    /\ \/ /\ Leave(w, "requeue", "idle")
          /\ status' = IF status = "none" THEN "none" ELSE "queued"
       \/ /\ Leave(w, "fail", "ack")
          /\ status' = IF status = "none" THEN "none" ELSE "failed"
    /\ signature' = None
    /\ UNCHANGED <<recent, chunks, object, apiVars, queueVars, overtaken, faults, stalls>>

Acknowledge(w) ==
    /\ Leave(w, "ack", "idle")
    /\ entries' = entries \ {job[w]}
    /\ UNCHANGED <<sourceVars, apiVars, tries, dropped, overtaken, faults, stalls>>

\* The worker dies, or meets an error process_knowledge_source does not know.
Crash(w) ==
    /\ pc[w] # "idle"
    /\ Fault
    /\ Leave(w, pc[w], "idle")
    /\ UNCHANGED <<sourceVars, apiVars, queueVars, overtaken, stalls>>

\* _PROCESSING_STALE_AFTER passes: by itself once nobody works on the source.
ClaimAges ==
    /\ status = "processing"
    /\ recent
    /\ recent' = FALSE
    /\ \/ Working = {} /\ UNCHANGED stalls
       \/ Working # {} /\ stalls < MaxStalls /\ stalls' = stalls + 1
    /\ UNCHANGED <<status, signature, chunks, object, apiVars, queueVars,
                   workerVars, overtaken, faults>>

-----------------------------------------------------------------------------
UploadStep ==
    \/ PutObject
    \/ InsertSource
    \/ InsertConflicts
    \/ EnqueueUpload
    \/ \E added \in BOOLEAN : EnqueueUploadFails(added)
    \/ UndoUpload
    \/ \E removed \in BOOLEAN : DropObject(removed)

ReindexStep ==
    \/ EnqueueReindex
    \/ \E added \in BOOLEAN : EnqueueReindexFails(added)

WorkerStep(w) ==
    \/ ClaimSource(w)
    \/ ReadObject(w)
    \/ \E s \in Signatures : EmbedBatch(w, s)
    \/ \E retryable \in BOOLEAN : ReadFails(w, retryable) \/ EmbedFails(w, retryable)
    \/ PersistIndex(w)
    \/ ReportError(w)
    \/ Acknowledge(w)

Next ==
    \/ UploadStep
    \/ UploadDies
    \/ Reindex
    \/ ReindexStep
    \/ \E w \in Workers :
          \/ \E e \in Entries : StartJob(w, e)
          \/ WorkerStep(w)
          \/ Crash(w)
    \/ ClaimAges

Spec == Init /\ [][Next]_vars

\* Requests and workers that are not killed go on, and the loop of the worker
\* takes up every entry that stays pending.
Fairness ==
    /\ WF_vars(UploadStep)
    /\ WF_vars(ReindexStep)
    /\ \A w \in Workers : WF_vars(WorkerStep(w))
    /\ \A e \in Entries : WF_vars(\E w \in Workers : StartJob(w, e))

FairSpec == Spec /\ Fairness

-----------------------------------------------------------------------------
(* Properties.                                                              *)

\* "Every embedding in one successful source index must have the same
\* provider/model/dimension" (MILESTONE-9): a searchable source has all its
\* chunks, in the one vector space it claims, although the profile changes
\* between two batches and several workers may have embedded it.
SearchableIndexIsWhole ==
    status = "ready" =>
        /\ Len(chunks) = Batches
        /\ \A i \in 1..Batches : chunks[i] = signature

\* As long as there is a row, the file it was made from can be read again:
\* the cleanup of a failed upload removes the row first.
SourceHasObject == status # "none" => object

\* A source that became searchable stays so until an administrator reindexes
\* it, or the upload that created it is undone ("return idempotently for
\* already-ready source unless explicitly requeued", MILESTONE-9), unless a
\* worker was overtaken while it was at work.
ReadyUntilReindexed ==
    [][status = "ready" /\ status' # "ready" =>
          reindexes' > reindexes \/ status' = "none" \/ overtaken]_vars

\* A source does not stay queued or processing: it becomes ready or failed, or
\* is deleted, unless its job was dead-lettered, refused or never enqueued, or
\* a worker was overtaken.
QueuedIsSettled ==
    status \in {"queued", "processing"} ~>
        status \in {"none", "ready", "failed"} \/ dropped \/ overtaken

=============================================================================
