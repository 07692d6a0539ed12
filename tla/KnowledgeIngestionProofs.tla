------------------------ MODULE KnowledgeIngestionProofs ------------------------
(***************************************************************************)
(* Proofs about KnowledgeIngestion for any number of workers, batches and  *)
(* embedding models, and any values of the bounds.                         *)
(***************************************************************************)
EXTENDS KnowledgeIngestion, TLAPS

-----------------------------------------------------------------------------
(* The inductive invariant.                                                 *)

\* While it embeds, a worker has the vectors of some batches, at the end of all
\* of them, and they are of one model.
VectorsFit ==
    \A w \in Workers :
        /\ pc[w] = "embed" => Len(vectors[w]) < Batches
        /\ pc[w] = "persist" => Len(vectors[w]) = Batches
        /\ pc[w] \notin {"embed", "persist"} => vectors[w] = <<>>
        /\ \A i, j \in DOMAIN vectors[w] : vectors[w][i] = vectors[w][j]

\* The row exists between its insert and its undo, and the file all that time.
UploadFits ==
    /\ upload \in {"put", "insert", "drop"} => status = "none"
    /\ upload \in {"insert", "enqueue", "undo"} => object
    /\ upload \in {"put", "insert"} => Working = {}
    /\ status # "none" => object

\* As long as no worker was overtaken, at most one works on the source, which
\* is in processing then unless its upload was undone.
OneAtWork ==
    ~overtaken =>
        /\ \A v, w \in Working : v = w
        /\ Working # {} => status \in {"processing", "none"}

IInv ==
    /\ TypeOK
    /\ VectorsFit
    /\ UploadFits
    /\ OneAtWork
    /\ SearchableIndexIsWhole

-----------------------------------------------------------------------------
\* Leaving an attempt preserves the types.
LEMMA LeaveTypes ==
    ASSUME TypeOK, NEW w \in Workers, NEW from, NEW to \in WorkerPcs, Leave(w, from, to)
    PROVE  /\ pc' \in [Workers -> WorkerPcs]
           /\ job' \in [Workers -> Entries]
           /\ vectors' \in [Workers -> Seq(Signatures)]
  <1> USE DEF TypeOK, Leave, Goto
  <1>1 pc' \in [Workers -> WorkerPcs]
    OBVIOUS
  <1>2 job' \in [Workers -> Entries]
    BY IngestionAssumption DEF Entries
  <1>3 vectors' \in [Workers -> Seq(Signatures)]
    OBVIOUS
  <1> QED
    BY <1>1, <1>2, <1>3

\* Whoever leaves for something else than embedding has forgotten the vectors.
LEMMA LeaveFits ==
    ASSUME TypeOK, VectorsFit, NEW w \in Workers, NEW from,
           NEW to \in WorkerPcs \ {"embed", "persist"}, Leave(w, from, to)
    PROVE  VectorsFit'
  <1> SUFFICES ASSUME NEW v \in Workers
      PROVE  /\ pc'[v] = "embed" => Len(vectors'[v]) < Batches
             /\ pc'[v] = "persist" => Len(vectors'[v]) = Batches
             /\ pc'[v] \notin {"embed", "persist"} => vectors'[v] = <<>>
             /\ \A i, j \in DOMAIN vectors'[v] : vectors'[v][i] = vectors'[v][j]
    BY DEF VectorsFit
  <1>1 CASE v = w
    BY <1>1 DEF TypeOK, Leave, Goto
  <1>2 CASE v # w
    <2>1 pc'[v] = pc[v] /\ vectors'[v] = vectors[v]
      BY <1>2 DEF TypeOK, Leave, Goto
    <2> QED
      BY <2>1 DEF VectorsFit
  <1> QED
    BY <1>1, <1>2

\* Unless it was overtaken, a worker that leaves its work leaves nobody there.
LEMMA LastOneLeaves ==
    ASSUME TypeOK, OneAtWork, ~overtaken, NEW w \in Working,
           NEW to \in {"idle", "ack", "fail", "requeue"}, Leave(w, pc[w], to)
    PROVE  /\ \A v \in Working' : v = w
           /\ to \in {"idle", "ack"} => Working' = {}
  <1>1 \A v \in Working : v = w
    BY DEF OneAtWork
  <1>2 \A v \in Workers \ {w} : pc'[v] = pc[v]
    BY DEF TypeOK, Leave, Goto
  <1>3 pc'[w] = to
    BY DEF TypeOK, Leave, Goto, Working
  <1> QED
    BY <1>1, <1>2, <1>3 DEF Working

\* A step preserves the types.
LEMMA TypeStep == IInv /\ [Next]_vars => TypeOK'
  <1> SUFFICES ASSUME IInv, [Next]_vars PROVE TypeOK'
    OBVIOUS
  <1> USE IngestionAssumption DEF IInv
  <1>1 CASE UploadStep
    <2>1 CASE PutObject
      BY <2>1 DEF TypeOK, UploadPcs, PutObject, UploadGoto, queueVars, workerVars
    <2>2 CASE InsertSource
      BY <2>2 DEF TypeOK, Statuses, UploadPcs, InsertSource, UploadGoto, queueVars,
         workerVars
    <2>3 CASE InsertConflicts
      BY <2>3 DEF TypeOK, UploadPcs, InsertConflicts, UploadGoto, sourceVars, queueVars,
         workerVars
    <2>4 CASE EnqueueUpload
      BY <2>4 DEF TypeOK, Entries, UploadPcs, EnqueueUpload, UploadGoto, sourceVars,
         workerVars
    <2>5 CASE \E added \in BOOLEAN : EnqueueUploadFails(added)
      BY <2>5 DEF TypeOK, Entries, UploadPcs, EnqueueUploadFails, UploadGoto, Fault,
         sourceVars, workerVars
    <2>6 CASE UndoUpload
      BY <2>6 DEF TypeOK, Statuses, UploadPcs, UndoUpload, UploadGoto, queueVars,
         workerVars
    <2>7 CASE \E removed \in BOOLEAN : DropObject(removed)
      BY <2>7 DEF TypeOK, UploadPcs, DropObject, UploadGoto, queueVars, workerVars
    <2> QED
      BY <1>1, <2>1, <2>2, <2>3, <2>4, <2>5, <2>6, <2>7 DEF UploadStep
  <1>2 CASE UploadDies
    BY <1>2 DEF TypeOK, UploadPcs, UploadDies, Fault, sourceVars, workerVars
  <1>3 CASE Reindex
    BY <1>3 DEF TypeOK, Statuses, Reindex, queueVars, workerVars
  <1>4 CASE ReindexStep
    <2>1 CASE EnqueueReindex
      BY <2>1 DEF TypeOK, Entries, EnqueueReindex, sourceVars, workerVars
    <2>2 CASE \E added \in BOOLEAN : EnqueueReindexFails(added)
      BY <2>2 DEF TypeOK, Entries, EnqueueReindexFails, Fault, sourceVars, workerVars
    <2> QED
      BY <1>4, <2>1, <2>2 DEF ReindexStep
  <1>5 ASSUME NEW w \in Workers, NEW e \in Entries, StartJob(w, e) PROVE TypeOK'
    <2>1 /\ entries' \subseteq Entries
         /\ tries' \in [Entries -> 0..MaxAttempts]
         /\ dropped' \in BOOLEAN
      <3>1 CASE tries[e] = MaxAttempts
        <4>1 ~(tries[e] < MaxAttempts)
          BY <3>1
        <4>2 entries' = entries \ {e} /\ dropped' = TRUE /\ tries' = tries
          BY <1>5, <4>1 DEF StartJob
        <4> QED
          BY <4>2 DEF TypeOK
      <3>2 CASE tries[e] # MaxAttempts
        <4>1 /\ tries' = [tries EXCEPT ![e] = @ + 1]
             /\ tries[e] < MaxAttempts
             /\ UNCHANGED <<entries, dropped>>
          BY <1>5, <3>2 DEF StartJob
        <4>2 tries[e] + 1 \in 0..MaxAttempts
          BY <4>1 DEF TypeOK
        <4> QED
          BY <4>1, <4>2 DEF TypeOK
      <3> QED
        BY <3>1, <3>2
    <2>2 /\ pc' \in [Workers -> WorkerPcs]
         /\ job' \in [Workers -> Entries]
         /\ vectors' \in [Workers -> Seq(Signatures)]
      BY <1>5 DEF TypeOK, WorkerPcs, StartJob, Goto, workerVars
    <2> QED
      BY <1>5, <2>1, <2>2 DEF TypeOK, StartJob, sourceVars, apiVars
  <1>6 ASSUME NEW w \in Workers, WorkerStep(w) PROVE TypeOK'
    <2>1 CASE ClaimSource(w)
      <3>1 /\ pc' \in [Workers -> WorkerPcs]
           /\ job' \in [Workers -> Entries]
           /\ vectors' \in [Workers -> Seq(Signatures)]
        <4>1 \E to \in {"ack", "idle", "read"} : Leave(w, "claim", to)
          BY <2>1 DEF ClaimSource
        <4> QED
          BY <4>1, LeaveTypes DEF WorkerPcs
      <3>2 status' \in Statuses /\ recent' \in BOOLEAN /\ overtaken' \in BOOLEAN
        BY <2>1 DEF TypeOK, ClaimSource, Statuses
      <3> QED
        BY <2>1, <3>1, <3>2 DEF TypeOK, ClaimSource, apiVars, queueVars
    <2>2 CASE ReadObject(w)
      BY <2>2 DEF TypeOK, WorkerPcs, ReadObject, Goto, sourceVars, apiVars, queueVars
    <2>3 CASE \E s \in Signatures : EmbedBatch(w, s)
      <3>1 PICK s \in Signatures : EmbedBatch(w, s)
        BY <2>3
      <3>2 /\ pc' \in [Workers -> WorkerPcs]
           /\ job' \in [Workers -> Entries]
           /\ vectors' \in [Workers -> Seq(Signatures)]
        <4>1 CASE Leave(w, "embed", "requeue")
          BY <4>1, LeaveTypes DEF WorkerPcs
        <4>2 CASE ~Leave(w, "embed", "requeue")
          <5>1 /\ vectors' = [vectors EXCEPT ![w] = Append(@, s)]
               /\ job' = job
               /\ \E to \in {"persist", "embed"} : Goto(w, "embed", to)
            BY <3>1, <4>2 DEF EmbedBatch
          <5> QED
            BY <5>1 DEF TypeOK, WorkerPcs, Goto
        <4> QED
          BY <4>1, <4>2
      <3> QED
        BY <3>1, <3>2 DEF TypeOK, EmbedBatch, sourceVars, apiVars, queueVars
    <2>4 CASE \E retryable \in BOOLEAN : ReadFails(w, retryable)
      <3>1 PICK retryable \in BOOLEAN : ReadFails(w, retryable)
        BY <2>4
      <3>2 /\ pc' \in [Workers -> WorkerPcs]
           /\ job' \in [Workers -> Entries]
           /\ vectors' \in [Workers -> Seq(Signatures)]
        BY <3>1, LeaveTypes DEF ReadFails, WorkerPcs
      <3>3 faults' \in 0..MaxFaults
        BY <3>1 DEF TypeOK, ReadFails, Fault
      <3> QED
        BY <3>1, <3>2, <3>3 DEF TypeOK, ReadFails, sourceVars, apiVars, queueVars
    <2>5 CASE \E retryable \in BOOLEAN : EmbedFails(w, retryable)
      <3>1 PICK retryable \in BOOLEAN : EmbedFails(w, retryable)
        BY <2>5
      <3>2 /\ pc' \in [Workers -> WorkerPcs]
           /\ job' \in [Workers -> Entries]
           /\ vectors' \in [Workers -> Seq(Signatures)]
        BY <3>1, LeaveTypes DEF EmbedFails, WorkerPcs
      <3>3 faults' \in 0..MaxFaults
        BY <3>1 DEF TypeOK, EmbedFails, Fault
      <3> QED
        BY <3>1, <3>2, <3>3 DEF TypeOK, EmbedFails, sourceVars, apiVars, queueVars
    <2>6 CASE PersistIndex(w)
      <3>1 /\ pc' \in [Workers -> WorkerPcs]
           /\ job' \in [Workers -> Entries]
           /\ vectors' \in [Workers -> Seq(Signatures)]
        <4>1 \E to \in {"ack", "fail", "requeue"} : Leave(w, "persist", to)
          BY <2>6 DEF PersistIndex
        <4> QED
          BY <4>1, LeaveTypes DEF WorkerPcs
      <3>2 /\ status' \in Statuses
           /\ signature' \in Signatures \cup {None}
           /\ chunks' \in Seq(Signatures)
           /\ Len(chunks') \in {0, Batches}
        <4>1 vectors[w] \in Seq(Signatures) /\ Len(vectors[w]) = Batches
          BY <2>6 DEF TypeOK, VectorsFit, PersistIndex
        <4>2 Head(vectors[w]) \in Signatures
          BY <4>1
        <4> QED
          BY <2>6, <4>1, <4>2 DEF TypeOK, Statuses, PersistIndex
      <3> QED
        BY <2>6, <3>1, <3>2 DEF TypeOK, PersistIndex, apiVars, queueVars
    <2>7 CASE ReportError(w)
      <3>1 /\ pc' \in [Workers -> WorkerPcs]
           /\ job' \in [Workers -> Entries]
           /\ vectors' \in [Workers -> Seq(Signatures)]
        <4>1 \E from \in {"requeue", "fail"}, to \in {"idle", "ack"} : Leave(w, from, to)
          BY <2>7 DEF ReportError
        <4> QED
          BY <4>1, LeaveTypes DEF WorkerPcs
      <3>2 status' \in Statuses
        BY <2>7 DEF Statuses, ReportError
      <3> QED
        BY <2>7, <3>1, <3>2 DEF TypeOK, ReportError, apiVars, queueVars
    <2>8 CASE Acknowledge(w)
      <3>1 /\ pc' \in [Workers -> WorkerPcs]
           /\ job' \in [Workers -> Entries]
           /\ vectors' \in [Workers -> Seq(Signatures)]
        BY <2>8, LeaveTypes DEF Acknowledge, WorkerPcs
      <3> QED
        BY <2>8, <3>1 DEF TypeOK, Acknowledge, sourceVars, apiVars
    <2> QED
      BY <1>6, <2>1, <2>2, <2>3, <2>4, <2>5, <2>6, <2>7, <2>8 DEF WorkerStep
  <1>7 ASSUME NEW w \in Workers, Crash(w) PROVE TypeOK'
    BY <1>7 DEF TypeOK, Entries, WorkerPcs, Crash, Goto, Leave, Fault, sourceVars,
       apiVars, queueVars
  <1>8 CASE ClaimAges
    <2>1 stalls' \in 0..MaxStalls
      <3>1 stalls \in 0..MaxStalls
        BY DEF TypeOK
      <3>2 stalls' = stalls \/ (stalls < MaxStalls /\ stalls' = stalls + 1)
        BY <1>8 DEF ClaimAges
      <3> QED
        BY <3>1, <3>2
    <2> QED
      BY <1>8, <2>1 DEF TypeOK, ClaimAges, apiVars, queueVars, workerVars
  <1>9 CASE UNCHANGED vars
    BY <1>9 DEF TypeOK, vars, sourceVars, apiVars, queueVars, workerVars
  <1> QED
    BY <1>1, <1>2, <1>3, <1>4, <1>5, <1>6, <1>7, <1>8, <1>9 DEF Next

\* What a worker has embedded fits where it is, and is of one model.
LEMMA VectorsStep == IInv /\ [Next]_vars => VectorsFit'
  <1> SUFFICES ASSUME IInv, [Next]_vars PROVE VectorsFit'
    OBVIOUS
  <1> USE IngestionAssumption DEF IInv
  <1>1 CASE UploadStep
    <2>1 CASE PutObject
      BY <2>1 DEF VectorsFit, PutObject, UploadGoto, workerVars
    <2>2 CASE InsertSource
      BY <2>2 DEF VectorsFit, InsertSource, UploadGoto, workerVars
    <2>3 CASE InsertConflicts
      BY <2>3 DEF VectorsFit, InsertConflicts, UploadGoto, workerVars
    <2>4 CASE EnqueueUpload
      BY <2>4 DEF VectorsFit, EnqueueUpload, UploadGoto, workerVars
    <2>5 CASE \E added \in BOOLEAN : EnqueueUploadFails(added)
      BY <2>5 DEF VectorsFit, EnqueueUploadFails, UploadGoto, Fault, workerVars
    <2>6 CASE UndoUpload
      BY <2>6 DEF VectorsFit, UndoUpload, UploadGoto, workerVars
    <2>7 CASE \E removed \in BOOLEAN : DropObject(removed)
      BY <2>7 DEF VectorsFit, DropObject, UploadGoto, workerVars
    <2> QED
      BY <1>1, <2>1, <2>2, <2>3, <2>4, <2>5, <2>6, <2>7 DEF UploadStep
  <1>2 CASE UploadDies
    BY <1>2 DEF VectorsFit, UploadDies, Fault, workerVars
  <1>3 CASE Reindex
    BY <1>3 DEF VectorsFit, Reindex, workerVars
  <1>4 CASE ReindexStep
    <2>1 CASE EnqueueReindex
      BY <2>1 DEF VectorsFit, EnqueueReindex, workerVars
    <2>2 CASE \E added \in BOOLEAN : EnqueueReindexFails(added)
      BY <2>2 DEF VectorsFit, EnqueueReindexFails, Fault, workerVars
    <2> QED
      BY <1>4, <2>1, <2>2 DEF ReindexStep
  <1>5 ASSUME NEW w \in Workers, NEW e \in Entries, StartJob(w, e) PROVE VectorsFit'
    BY <1>5 DEF VectorsFit, TypeOK, StartJob, Goto, workerVars
  <1>6 ASSUME NEW w \in Workers, WorkerStep(w) PROVE VectorsFit'
    <2>1 CASE ClaimSource(w)
      BY <2>1 DEF VectorsFit, TypeOK, ClaimSource, Goto, Leave
    <2>2 CASE ReadObject(w)
      BY <2>2 DEF VectorsFit, ReadObject, Goto
    <2>3 CASE \E s \in Signatures : EmbedBatch(w, s)
      <3>1 PICK s \in Signatures : EmbedBatch(w, s)
        BY <2>3
      <3>2 CASE Leave(w, "embed", "requeue")
        BY <3>2, LeaveFits DEF WorkerPcs
      <3>3 CASE ~Leave(w, "embed", "requeue")
        <4>1 /\ pc[w] = "embed"
             /\ vectors' = [vectors EXCEPT ![w] = Append(@, s)]
             /\ pc' = [pc EXCEPT ![w] = IF Len(vectors[w]) + 1 = Batches
                                        THEN "persist" ELSE "embed"]
             /\ \A i \in DOMAIN vectors[w] : vectors[w][i] = s
          BY <3>1, <3>3 DEF EmbedBatch, Goto
        <4>2 /\ vectors[w] \in Seq(Signatures)
             /\ Len(vectors[w]) < Batches
          BY <4>1 DEF TypeOK, VectorsFit
        <4>3 /\ vectors'[w] = Append(vectors[w], s)
             /\ Len(vectors'[w]) = Len(vectors[w]) + 1
             /\ \A i \in DOMAIN vectors'[w] : vectors'[w][i] = s
          BY <4>1, <4>2 DEF TypeOK
        <4>4 pc'[w] = IF Len(vectors[w]) + 1 = Batches THEN "persist" ELSE "embed"
          BY <4>1 DEF TypeOK
        <4>5 \A v \in Workers \ {w} : pc'[v] = pc[v] /\ vectors'[v] = vectors[v]
          BY <4>1 DEF TypeOK
        <4>6 /\ pc'[w] = "embed" => Len(vectors'[w]) < Batches
             /\ pc'[w] = "persist" => Len(vectors'[w]) = Batches
             /\ pc'[w] \in {"embed", "persist"}
             /\ \A i, j \in DOMAIN vectors'[w] : vectors'[w][i] = vectors'[w][j]
          BY <4>2, <4>3, <4>4
        <4> QED
          BY <4>5, <4>6 DEF VectorsFit
      <3> QED
        BY <3>2, <3>3
    <2>4 CASE \E retryable \in BOOLEAN : ReadFails(w, retryable)
      BY <2>4 DEF VectorsFit, ReadFails, Goto, Leave, Fault
    <2>5 CASE \E retryable \in BOOLEAN : EmbedFails(w, retryable)
      BY <2>5 DEF VectorsFit, TypeOK, EmbedFails, Goto, Leave, Fault
    <2>6 CASE PersistIndex(w)
      <3>1 \E to \in {"ack", "fail", "requeue"} : Leave(w, "persist", to)
        BY <2>6 DEF PersistIndex
      <3> QED
        BY <3>1, LeaveFits DEF WorkerPcs
    <2>7 CASE ReportError(w)
      <3>1 \E from \in {"requeue", "fail"}, to \in {"idle", "ack"} : Leave(w, from, to)
        BY <2>7 DEF ReportError
      <3> QED
        BY <3>1, LeaveFits DEF WorkerPcs
    <2>8 CASE Acknowledge(w)
      BY <2>8 DEF VectorsFit, Acknowledge, Goto, Leave
    <2> QED
      BY <1>6, <2>1, <2>2, <2>3, <2>4, <2>5, <2>6, <2>7, <2>8 DEF WorkerStep
  <1>7 ASSUME NEW w \in Workers, Crash(w) PROVE VectorsFit'
    BY <1>7 DEF VectorsFit, TypeOK, Crash, Goto, Leave, Fault
  <1>8 CASE ClaimAges
    BY <1>8 DEF VectorsFit, ClaimAges, workerVars
  <1>9 CASE UNCHANGED vars
    BY <1>9 DEF VectorsFit, vars, workerVars
  <1> QED
    BY <1>1, <1>2, <1>3, <1>4, <1>5, <1>6, <1>7, <1>8, <1>9 DEF Next

\* No step takes the file away from a row, or makes a row without one.
LEMMA UploadStepFits == IInv /\ [Next]_vars => UploadFits'
  <1> SUFFICES ASSUME IInv, [Next]_vars PROVE UploadFits'
    OBVIOUS
  <1> USE IngestionAssumption DEF IInv
  <1>1 CASE UploadStep
    <2>1 CASE PutObject
      BY <2>1 DEF UploadFits, Working, PutObject, UploadGoto, workerVars
    <2>2 CASE InsertSource
      BY <2>2 DEF UploadFits, Working, InsertSource, UploadGoto, workerVars
    <2>3 CASE InsertConflicts
      BY <2>3 DEF UploadFits, Working, InsertConflicts, UploadGoto, sourceVars,
         workerVars
    <2>4 CASE EnqueueUpload
      BY <2>4 DEF UploadFits, Working, EnqueueUpload, UploadGoto, sourceVars, workerVars
    <2>5 CASE \E added \in BOOLEAN : EnqueueUploadFails(added)
      BY <2>5 DEF UploadFits, Working, EnqueueUploadFails, UploadGoto, Fault,
         sourceVars, workerVars
    <2>6 CASE UndoUpload
      BY <2>6 DEF UploadFits, Working, UndoUpload, UploadGoto, workerVars
    <2>7 CASE \E removed \in BOOLEAN : DropObject(removed)
      BY <2>7 DEF UploadFits, Working, DropObject, UploadGoto, workerVars
    <2> QED
      BY <1>1, <2>1, <2>2, <2>3, <2>4, <2>5, <2>6, <2>7 DEF UploadStep
  <1>2 CASE UploadDies
    BY <1>2 DEF UploadFits, Working, UploadDies, Fault, sourceVars, workerVars
  <1>3 CASE Reindex
    BY <1>3 DEF UploadFits, Working, Reindex, workerVars
  <1>4 CASE ReindexStep
    <2>1 CASE EnqueueReindex
      BY <2>1 DEF UploadFits, Working, EnqueueReindex, sourceVars, workerVars
    <2>2 CASE \E added \in BOOLEAN : EnqueueReindexFails(added)
      BY <2>2 DEF UploadFits, Working, EnqueueReindexFails, Fault, sourceVars,
         workerVars
    <2> QED
      BY <1>4, <2>1, <2>2 DEF ReindexStep
  <1>5 ASSUME NEW w \in Workers, NEW e \in Entries, StartJob(w, e) PROVE UploadFits'
    BY <1>5 DEF UploadFits, Working, TypeOK, StartJob, Goto, sourceVars, apiVars,
       workerVars
  <1>6 ASSUME NEW w \in Workers, WorkerStep(w) PROVE UploadFits'
    <2>1 CASE ClaimSource(w)
      BY <2>1 DEF UploadFits, Working, TypeOK, ClaimSource, Goto, Leave, apiVars
    <2>2 CASE ReadObject(w)
      BY <2>2 DEF UploadFits, Working, ReadObject, Goto, sourceVars, apiVars
    <2>3 CASE \E s \in Signatures : EmbedBatch(w, s)
      BY <2>3 DEF UploadFits, Working, EmbedBatch, Goto, Leave, sourceVars, apiVars
    <2>4 CASE \E retryable \in BOOLEAN : ReadFails(w, retryable)
      BY <2>4 DEF UploadFits, Working, ReadFails, Goto, Leave, Fault, sourceVars,
         apiVars
    <2>5 CASE \E retryable \in BOOLEAN : EmbedFails(w, retryable)
      BY <2>5 DEF UploadFits, Working, EmbedFails, Goto, Leave, Fault, sourceVars,
         apiVars
    <2>6 CASE PersistIndex(w)
      BY <2>6 DEF UploadFits, Working, PersistIndex, Goto, Leave, apiVars
    <2>7 CASE ReportError(w)
      BY <2>7 DEF UploadFits, Working, ReportError, Goto, Leave, apiVars
    <2>8 CASE Acknowledge(w)
      BY <2>8 DEF UploadFits, Working, Acknowledge, Goto, Leave, sourceVars, apiVars
    <2> QED
      BY <1>6, <2>1, <2>2, <2>3, <2>4, <2>5, <2>6, <2>7, <2>8 DEF WorkerStep
  <1>7 ASSUME NEW w \in Workers, Crash(w) PROVE UploadFits'
    BY <1>7 DEF UploadFits, Working, Crash, Goto, Leave, Fault, sourceVars, apiVars
  <1>8 CASE ClaimAges
    BY <1>8 DEF UploadFits, Working, ClaimAges, apiVars, workerVars
  <1>9 CASE UNCHANGED vars
    BY <1>9 DEF UploadFits, Working, vars, sourceVars, apiVars, workerVars
  <1> QED
    BY <1>1, <1>2, <1>3, <1>4, <1>5, <1>6, <1>7, <1>8, <1>9 DEF Next

\* A second worker gets the source only by overtaking the first.
LEMMA OneAtWorkStep == IInv /\ [Next]_vars => OneAtWork'
  <1> SUFFICES ASSUME IInv, [Next]_vars PROVE OneAtWork'
    OBVIOUS
  <1> USE IngestionAssumption DEF IInv
  <1>1 CASE UploadStep
    <2>1 CASE PutObject
      BY <2>1 DEF OneAtWork, Working, PutObject, UploadGoto, workerVars
    <2>2 CASE InsertSource
      BY <2>2 DEF OneAtWork, Working, TypeOK, UploadFits, InsertSource, UploadGoto,
         workerVars
    <2>3 CASE InsertConflicts
      BY <2>3 DEF OneAtWork, Working, InsertConflicts, UploadGoto, sourceVars,
         workerVars
    <2>4 CASE EnqueueUpload
      BY <2>4 DEF OneAtWork, Working, EnqueueUpload, UploadGoto, sourceVars, workerVars
    <2>5 CASE \E added \in BOOLEAN : EnqueueUploadFails(added)
      BY <2>5 DEF OneAtWork, Working, EnqueueUploadFails, UploadGoto, Fault, sourceVars,
         workerVars
    <2>6 CASE UndoUpload
      BY <2>6 DEF OneAtWork, Working, UndoUpload, UploadGoto, workerVars
    <2>7 CASE \E removed \in BOOLEAN : DropObject(removed)
      BY <2>7 DEF OneAtWork, Working, DropObject, UploadGoto, workerVars
    <2> QED
      BY <1>1, <2>1, <2>2, <2>3, <2>4, <2>5, <2>6, <2>7 DEF UploadStep
  <1>2 CASE UploadDies
    BY <1>2 DEF OneAtWork, Working, UploadDies, Fault, sourceVars, workerVars
  <1>3 CASE Reindex
    BY <1>3 DEF OneAtWork, Working, Reindex, workerVars
  <1>4 CASE ReindexStep
    <2>1 CASE EnqueueReindex
      BY <2>1 DEF OneAtWork, Working, EnqueueReindex, sourceVars, workerVars
    <2>2 CASE \E added \in BOOLEAN : EnqueueReindexFails(added)
      BY <2>2 DEF OneAtWork, Working, EnqueueReindexFails, Fault, sourceVars, workerVars
    <2> QED
      BY <1>4, <2>1, <2>2 DEF ReindexStep
  <1>5 ASSUME NEW w \in Workers, NEW e \in Entries, StartJob(w, e) PROVE OneAtWork'
    BY <1>5 DEF OneAtWork, Working, TypeOK, StartJob, Goto, sourceVars, workerVars
  <1>6 ASSUME NEW w \in Workers, WorkerStep(w) PROVE OneAtWork'
    <2>1 CASE ClaimSource(w)
      BY <2>1 DEF OneAtWork, Working, TypeOK, UploadFits, ClaimSource, Goto, Leave
    <2>2 CASE ReadObject(w)
      BY <2>2 DEF OneAtWork, Working, ReadObject, Goto, sourceVars
    <2>3 CASE \E s \in Signatures : EmbedBatch(w, s)
      BY <2>3 DEF OneAtWork, Working, TypeOK, EmbedBatch, Goto, Leave, sourceVars
    <2>4 CASE \E retryable \in BOOLEAN : ReadFails(w, retryable)
      BY <2>4 DEF OneAtWork, Working, ReadFails, Goto, Leave, Fault, sourceVars
    <2>5 CASE \E retryable \in BOOLEAN : EmbedFails(w, retryable)
      BY <2>5 DEF OneAtWork, Working, EmbedFails, Goto, Leave, Fault, sourceVars
    <2>6 CASE PersistIndex(w)
      <3>1 CASE overtaken
        BY <2>6, <3>1 DEF OneAtWork, PersistIndex
      <3>2 CASE ~overtaken
        <4>1 w \in Working
          BY <2>6 DEF Working, PersistIndex
        <4>2 CASE status = "processing"
          <5>1 Leave(w, pc[w], "ack")
            BY <2>6, <4>2 DEF PersistIndex, Leave, Goto
          <5>2 Working' = {}
            BY <3>2, <4>1, <5>1, LastOneLeaves
          <5> QED
            BY <5>2 DEF OneAtWork
        <4>3 CASE status # "processing"
          <5>1 status = "none" /\ status' = "none" /\ Leave(w, pc[w], "fail")
            BY <2>6, <3>2, <4>1, <4>3 DEF OneAtWork, PersistIndex, Leave, Goto
          <5>2 \A v \in Working' : v = w
            BY <3>2, <4>1, <5>1, LastOneLeaves
          <5> QED
            BY <5>1, <5>2 DEF OneAtWork
        <4> QED
          BY <4>2, <4>3
      <3> QED
        BY <3>1, <3>2
    <2>7 CASE ReportError(w)
      <3>1 CASE overtaken
        BY <2>7, <3>1 DEF OneAtWork, ReportError
      <3>2 CASE ~overtaken
        <4>1 w \in Working /\ \E to \in {"idle", "ack"} : Leave(w, pc[w], to)
          BY <2>7 DEF Working, ReportError, Leave, Goto
        <4>2 Working' = {}
          BY <3>2, <4>1, LastOneLeaves
        <4> QED
          BY <4>2 DEF OneAtWork
      <3> QED
        BY <3>1, <3>2
    <2>8 CASE Acknowledge(w)
      BY <2>8 DEF OneAtWork, Working, Acknowledge, Goto, Leave, sourceVars
    <2> QED
      BY <1>6, <2>1, <2>2, <2>3, <2>4, <2>5, <2>6, <2>7, <2>8 DEF WorkerStep
  <1>7 ASSUME NEW w \in Workers, Crash(w) PROVE OneAtWork'
    BY <1>7 DEF OneAtWork, Working, Crash, Goto, Leave, Fault, sourceVars
  <1>8 CASE ClaimAges
    BY <1>8 DEF OneAtWork, Working, ClaimAges, workerVars
  <1>9 CASE UNCHANGED vars
    BY <1>9 DEF OneAtWork, Working, vars, sourceVars, workerVars
  <1> QED
    BY <1>1, <1>2, <1>3, <1>4, <1>5, <1>6, <1>7, <1>8, <1>9 DEF Next

\* A source becomes ready with all its chunks, and they stay as they are.
LEMMA IndexStep == IInv /\ [Next]_vars => SearchableIndexIsWhole'
  <1> SUFFICES ASSUME IInv, [Next]_vars PROVE SearchableIndexIsWhole'
    OBVIOUS
  <1> USE IngestionAssumption DEF IInv
  <1>1 CASE UploadStep
    <2>1 CASE PutObject
      BY <2>1 DEF SearchableIndexIsWhole, PutObject, UploadGoto
    <2>2 CASE InsertSource
      BY <2>2 DEF SearchableIndexIsWhole, InsertSource, UploadGoto
    <2>3 CASE InsertConflicts
      BY <2>3 DEF SearchableIndexIsWhole, InsertConflicts, UploadGoto, sourceVars
    <2>4 CASE EnqueueUpload
      BY <2>4 DEF SearchableIndexIsWhole, EnqueueUpload, UploadGoto, sourceVars
    <2>5 CASE \E added \in BOOLEAN : EnqueueUploadFails(added)
      BY <2>5 DEF SearchableIndexIsWhole, EnqueueUploadFails, UploadGoto, Fault,
         sourceVars
    <2>6 CASE UndoUpload
      BY <2>6 DEF SearchableIndexIsWhole, UndoUpload, UploadGoto
    <2>7 CASE \E removed \in BOOLEAN : DropObject(removed)
      BY <2>7 DEF SearchableIndexIsWhole, DropObject, UploadGoto
    <2> QED
      BY <1>1, <2>1, <2>2, <2>3, <2>4, <2>5, <2>6, <2>7 DEF UploadStep
  <1>2 CASE UploadDies
    BY <1>2 DEF SearchableIndexIsWhole, UploadDies, Fault, sourceVars
  <1>3 CASE Reindex
    BY <1>3 DEF SearchableIndexIsWhole, Reindex
  <1>4 CASE ReindexStep
    <2>1 CASE EnqueueReindex
      BY <2>1 DEF SearchableIndexIsWhole, EnqueueReindex, sourceVars
    <2>2 CASE \E added \in BOOLEAN : EnqueueReindexFails(added)
      BY <2>2 DEF SearchableIndexIsWhole, EnqueueReindexFails, Fault, sourceVars
    <2> QED
      BY <1>4, <2>1, <2>2 DEF ReindexStep
  <1>5 ASSUME NEW w \in Workers, NEW e \in Entries, StartJob(w, e) PROVE SearchableIndexIsWhole'
    BY <1>5 DEF SearchableIndexIsWhole, StartJob, Goto, sourceVars
  <1>6 ASSUME NEW w \in Workers, WorkerStep(w) PROVE SearchableIndexIsWhole'
    <2>1 CASE ClaimSource(w)
      BY <2>1 DEF SearchableIndexIsWhole, ClaimSource, Goto, Leave
    <2>2 CASE ReadObject(w)
      BY <2>2 DEF SearchableIndexIsWhole, ReadObject, Goto, sourceVars
    <2>3 CASE \E s \in Signatures : EmbedBatch(w, s)
      BY <2>3 DEF SearchableIndexIsWhole, EmbedBatch, Goto, Leave, sourceVars
    <2>4 CASE \E retryable \in BOOLEAN : ReadFails(w, retryable)
      BY <2>4 DEF SearchableIndexIsWhole, ReadFails, Goto, Leave, Fault, sourceVars
    <2>5 CASE \E retryable \in BOOLEAN : EmbedFails(w, retryable)
      BY <2>5 DEF SearchableIndexIsWhole, EmbedFails, Goto, Leave, Fault, sourceVars
    <2>6 CASE PersistIndex(w)
      BY <2>6 DEF SearchableIndexIsWhole, VectorsFit, PersistIndex, Goto, Leave
    <2>7 CASE ReportError(w)
      BY <2>7 DEF SearchableIndexIsWhole, ReportError, Goto, Leave
    <2>8 CASE Acknowledge(w)
      BY <2>8 DEF SearchableIndexIsWhole, Acknowledge, Goto, Leave, sourceVars
    <2> QED
      BY <1>6, <2>1, <2>2, <2>3, <2>4, <2>5, <2>6, <2>7, <2>8 DEF WorkerStep
  <1>7 ASSUME NEW w \in Workers, Crash(w) PROVE SearchableIndexIsWhole'
    BY <1>7 DEF SearchableIndexIsWhole, Crash, Goto, Leave, Fault, sourceVars
  <1>8 CASE ClaimAges
    BY <1>8 DEF SearchableIndexIsWhole, ClaimAges
  <1>9 CASE UNCHANGED vars
    BY <1>9 DEF SearchableIndexIsWhole, vars, sourceVars
  <1> QED
    BY <1>1, <1>2, <1>3, <1>4, <1>5, <1>6, <1>7, <1>8, <1>9 DEF Next

-----------------------------------------------------------------------------
LEMMA InitIInv == Init => IInv
  <1> SUFFICES ASSUME Init PROVE IInv
    OBVIOUS
  <1> USE IngestionAssumption
  <1>1 TypeOK
    <2>1 /\ faults \in 0..MaxFaults
         /\ stalls \in 0..MaxStalls
         /\ reindexes \in 0..MaxReindexes
      BY DEF Init
    <2>2 /\ chunks \in Seq(Signatures)
         /\ Len(chunks) = 0
         /\ vectors \in [Workers -> Seq(Signatures)]
      BY DEF Init
    <2>3 /\ tries \in [Entries -> 0..MaxAttempts]
         /\ job \in [Workers -> Entries]
         /\ pc \in [Workers -> WorkerPcs]
      BY DEF Init, Entries, WorkerPcs
    <2> QED
      BY <2>1, <2>2, <2>3 DEF Init, TypeOK, Statuses, UploadPcs
  <1>2 VectorsFit /\ UploadFits
    BY DEF Init, VectorsFit, UploadFits, Working
  <1>3 OneAtWork /\ SearchableIndexIsWhole
    BY DEF Init, OneAtWork, Working, SearchableIndexIsWhole
  <1> QED
    BY <1>1, <1>2, <1>3 DEF IInv

\* The inductive invariant holds in every reachable state.
THEOREM Invariance == Spec => []IInv
  <1>1 IInv /\ [Next]_vars => IInv'
    BY TypeStep, VectorsStep, UploadStepFits, OneAtWorkStep, IndexStep DEF IInv
  <1> QED
    BY InitIInv, <1>1, PTL DEF Spec

\* Every reachable state has the declared types.
THEOREM TypeCorrect == Spec => []TypeOK
  <1>1 IInv => TypeOK
    BY DEF IInv
  <1> QED
    BY Invariance, <1>1, PTL

\* A ready source has all its chunks in the one vector space it claims, however
\* many workers embedded it and whatever models answered.
THEOREM IndexIsWhole == Spec => []SearchableIndexIsWhole
  <1>1 IInv => SearchableIndexIsWhole
    BY DEF IInv
  <1> QED
    BY Invariance, <1>1, PTL

\* A source that has a row has its file.
THEOREM FileIsKept == Spec => []SourceHasObject
  <1>1 IInv => SourceHasObject
    BY DEF IInv, UploadFits, SourceHasObject
  <1> QED
    BY Invariance, <1>1, PTL

-----------------------------------------------------------------------------
\* Only a worker at work reports an error, and then the source is not ready.
LEMMA ReadyStep ==
    IInv /\ [Next]_vars =>
        (status = "ready" /\ status' # "ready" =>
            reindexes' > reindexes \/ status' = "none" \/ overtaken)
  <1> SUFFICES ASSUME IInv, [Next]_vars, status = "ready", status' # "ready", ~overtaken
               PROVE  reindexes' > reindexes \/ status' = "none"
    OBVIOUS
  <1>0 Working = {}
    BY DEF IInv, OneAtWork
  <1>1 CASE UploadStep
    <2>1 CASE UndoUpload
      BY <2>1 DEF UndoUpload
    <2>2 CASE InsertSource
      BY <2>2 DEF InsertSource, UploadGoto, IInv, UploadFits
    <2> QED
      BY <1>1, <2>1, <2>2 DEF UploadStep, PutObject, InsertConflicts, EnqueueUpload,
         EnqueueUploadFails, DropObject, sourceVars
  <1>2 CASE UploadDies \/ ReindexStep
    BY <1>2 DEF UploadDies, ReindexStep, EnqueueReindex, EnqueueReindexFails, sourceVars
  <1>3 CASE Reindex
    BY <1>3 DEF Reindex, IInv, TypeOK
  <1>4 ASSUME NEW w \in Workers, NEW e \in Entries, StartJob(w, e) PROVE FALSE
    BY <1>4 DEF StartJob, sourceVars
  <1>5 ASSUME NEW w \in Workers, WorkerStep(w) PROVE FALSE
    <2>1 pc[w] \notin {"persist", "requeue", "fail"}
      BY <1>0 DEF Working
    <2>2 ~PersistIndex(w) /\ ~ReportError(w)
      BY <2>1 DEF PersistIndex, ReportError, Leave, Goto
    <2> QED
      BY <1>5, <2>2 DEF WorkerStep, ClaimSource, ReadObject, EmbedBatch, ReadFails,
         EmbedFails, Acknowledge, sourceVars
  <1>6 ASSUME NEW w \in Workers, Crash(w) PROVE FALSE
    BY <1>6 DEF Crash, sourceVars
  <1>7 CASE ClaimAges
    BY <1>7 DEF ClaimAges
  <1>8 CASE UNCHANGED vars
    BY <1>8 DEF vars, sourceVars
  <1> QED
    BY <1>1, <1>2, <1>3, <1>4, <1>5, <1>6, <1>7, <1>8 DEF Next

\* A ready source stays ready until it is reindexed or its upload is undone, as
\* long as no worker was overtaken.
THEOREM ReadyIsKept == Spec => ReadyUntilReindexed
  <1>1 IInv /\ [Next]_vars =>
          [status = "ready" /\ status' # "ready" =>
              reindexes' > reindexes \/ status' = "none" \/ overtaken]_vars
    BY ReadyStep
  <1> QED
    BY Invariance, <1>1, PTL DEF Spec, ReadyUntilReindexed

=============================================================================
