---------------------------- MODULE CustomerMemory ----------------------------
(***************************************************************************)
(* What is remembered of one contact under one key: workers extract an item*)
(* from customer messages, operators create, correct, verify and delete it,*)
(* and the agent gets what is eligible.                                    *)
(*                                                                         *)
(* Source: memory_runtime.py, memory.py, memory_models.py.                 *)
(*                                                                         *)
(* An extraction and an operator's PATCH read the row without a lock and,  *)
(* when they commit, write the columns whose new value differs from the one*)
(* they loaded, on whatever the row is by then.  The order of the messages *)
(* stands for Message.occurred_at.  Left out: expires_at, which only takes *)
(* items out of the context, and a PATCH that moves an item to another key.*)
(***************************************************************************)
EXTENDS Naturals, Sequences, FiniteSets

CONSTANTS
    Extractors,    \* workers that run extract_customer_memory_from_event
    Sources,       \* customer messages, numbered by occurred_at: 1..n
    Values,        \* values of the key, equal up to case when equal
    NoRow,         \* no active row
    Operators,     \* requests of operators that may overlap
    Omitted,       \* a field that a PATCH does not carry
    Payloads,      \* bodies of PATCH requests
    MaxRows,       \* bound: rows ever created for the key
    MaxRuns,       \* bound: extractions started
    MaxOperations  \* bound: operator requests

\* Columns of CustomerMemoryItem, and its history: `by` wrote the value last,
\* calling it what `given` says (a fact or an inference); `marked` is the value
\* an operator last wrote or verified; `passed` tells that since then a request
\* or an extraction wrote over a row that had changed since it was loaded.
Kinds == {"fact", "inference"}
Row   == [value : Values, kind : Kinds, sure : BOOLEAN, manual : BOOLEAN,
          observed : Nat, verified : BOOLEAN, deleted : BOOLEAN,
          by : {"operator", "customer"}, given : Kinds,
          marked : Values \cup {NoRow}, passed : BOOLEAN]

\* What an extraction or a POST brings, and the fields of a PATCH.
Candidates == [value : Values, kind : Kinds, sure : BOOLEAN]
Patches    == [value : Values \cup {Omitted}, kind : Kinds \cup {Omitted},
               sure : BOOLEAN \cup {Omitted}, verified : BOOLEAN \cup {Omitted}]

ASSUME MemoryAssumption ==
    /\ Sources \subseteq Nat \ {0} /\ NoRow \notin Nat
    /\ Payloads \subseteq Patches
    /\ MaxRows \in Nat /\ MaxRuns \in Nat /\ MaxOperations \in Nat

VARIABLES
    rows,          \* CustomerMemoryItem rows of the key, oldest first
    markers,       \* messages with a CustomerMemoryExtraction row
    applied,       \* committed extractions of each message
    xpc, xmsg,     \* where each extraction is, and its message
    xitem,         \* the candidate it parsed: [value, kind, sure]
    xrow,          \* id of the active row it read, or NoRow
    xload,         \* the columns it loaded from that row
    runs,
    opc, orow,     \* where each request is, and the id of its row
    oload, opatch, \* the row it loaded, and what it carries
    operations

extractionVars == <<xpc, xmsg, xitem, xrow, xload, runs>>
requestVars == <<opc, orow, oload, opatch>>
memoryVars == <<rows, markers, applied, extractionVars, requestVars, operations>>

Live      == {i \in 1..Len(rows) : ~rows[i].deleted}
ActiveRow == IF Live = {} THEN NoRow ELSE CHOOSE i \in Live : TRUE

MemoryTypeOK ==
    /\ rows \in Seq(Row) /\ Len(rows) <= MaxRows
    /\ Cardinality(Live) <= 1
    /\ markers \subseteq Sources
    /\ applied \in [Sources -> Nat]
    /\ xpc \in [Extractors -> {"idle", "generate", "load", "commit"}]
    /\ opc \in [Operators -> {"idle", "patch", "delete"}]
    /\ runs \in 0..MaxRuns /\ operations \in 0..MaxOperations

AnItem  == CHOOSE c \in Candidates : TRUE
ARow    == [value |-> AnItem.value, kind |-> "fact", sure |-> TRUE,
            manual |-> FALSE, observed |-> 0, verified |-> FALSE,
            deleted |-> FALSE, by |-> "customer", given |-> "fact",
            marked |-> NoRow, passed |-> FALSE]
NoPatch == [value |-> Omitted, kind |-> Omitted, sure |-> Omitted,
            verified |-> Omitted]

MemoryInit ==
    /\ rows = <<>> /\ markers = {} /\ applied = [m \in Sources |-> 0]
    /\ xpc = [e \in Extractors |-> "idle"]
    /\ xmsg = [e \in Extractors |-> CHOOSE m \in Sources : TRUE]
    /\ xitem = [e \in Extractors |-> AnItem]
    /\ xrow = [e \in Extractors |-> NoRow]
    /\ xload = [e \in Extractors |-> ARow]
    /\ opc = [o \in Operators |-> "idle"]
    /\ orow = [o \in Operators |-> NoRow]
    /\ oload = [o \in Operators |-> ARow]
    /\ opatch = [o \in Operators |-> NoPatch]
    /\ runs = 0 /\ operations = 0

\* The row is not what it was when it was loaded, in a column that says what the
\* value is worth.
Overtaken(row, load) ==
    \/ row.value # load.value
    \/ row.kind # load.kind
    \/ row.verified # load.verified

-----------------------------------------------------------------------------
(* extract_customer_memory_from_event.                                     *)

LeaveExtraction(e) ==
    /\ xpc' = [xpc EXCEPT ![e] = "idle"]
    /\ xmsg' = [xmsg EXCEPT ![e] = CHOOSE m \in Sources : TRUE]
    /\ xitem' = [xitem EXCEPT ![e] = AnItem]
    /\ xrow' = [xrow EXCEPT ![e] = NoRow]
    /\ xload' = [xload EXCEPT ![e] = ARow]

StartExtraction(e, m) ==
    /\ xpc[e] = "idle" /\ runs < MaxRuns /\ m \notin markers
    /\ runs' = runs + 1
    /\ xpc' = [xpc EXCEPT ![e] = "generate"]
    /\ xmsg' = [xmsg EXCEPT ![e] = m]
    /\ UNCHANGED <<rows, markers, applied, xitem, xrow, xload, requestVars,
                   operations>>

\* One parsed candidate for the key; a routing error, an invalid payload or a
\* dying process ends the attempt, and the worker acknowledges the job.
GenerateCandidate(e, c) ==
    /\ xpc[e] = "generate"
    /\ xpc' = [xpc EXCEPT ![e] = "load"]
    /\ xitem' = [xitem EXCEPT ![e] = c]
    /\ UNCHANGED <<rows, markers, applied, xmsg, xrow, xload, runs, requestVars,
                   operations>>

ExtractionFails(e) ==
    /\ xpc[e] \in {"generate", "load", "commit"}
    /\ LeaveExtraction(e)
    /\ UNCHANGED <<rows, markers, applied, runs, requestVars, operations>>

\* The second transaction looks for the marker and reads the active row.
LoadRow(e) ==
    /\ xpc[e] = "load"
    /\ IF xmsg[e] \in markers
       THEN LeaveExtraction(e)
       ELSE /\ xpc' = [xpc EXCEPT ![e] = "commit"]
            /\ xrow' = [xrow EXCEPT ![e] = ActiveRow]
            /\ xload' = [xload EXCEPT ![e] =
                             IF ActiveRow = NoRow THEN ARow ELSE rows[ActiveRow]]
            /\ UNCHANGED <<xmsg, xitem>>
    /\ UNCHANGED <<rows, markers, applied, runs, requestVars, operations>>

\* Mutant: only the age of the item is looked at.
SkipsNewer(e) == xrow[e] # NoRow /\ xload[e].observed > xmsg[e]

\* A manual item, and one observed later, are left alone.
Skips(e) == xrow[e] # NoRow /\ (xload[e].manual \/ xload[e].observed > xmsg[e])

\* Columns that do not differ from the loaded ones are not part of the UPDATE.
UpdatedColumn(column, loaded, new) == IF loaded = new THEN column ELSE new

\* The mark survives when value and kind are what the extraction loaded, and
\* also when it loaded none: then the column is not part of its UPDATE.
Preserves(e) == xload[e].value = xitem[e].value /\ xload[e].kind = xitem[e].kind
UpdatedRow(e, row) ==
    LET load == xload[e]  item == xitem[e]
        value == UpdatedColumn(row.value, load.value, item.value)
        reset == load.verified /\ ~Preserves(e)
    IN  [row EXCEPT
            !.value = value,
            !.kind = UpdatedColumn(@, load.kind, item.kind),
            !.sure = UpdatedColumn(@, load.sure, item.sure),
            !.observed = xmsg[e],
            !.verified = @ /\ ~reset,
            !.by = "customer",
            !.given = IF value = item.value THEN item.kind ELSE @,
            !.passed = @ \/ Overtaken(row, load)]

InsertedRow(e) ==
    [ARow EXCEPT !.value = xitem[e].value, !.kind = xitem[e].kind,
                 !.sure = xitem[e].sure, !.observed = xmsg[e],
                 !.given = xitem[e].kind]

\* Mutant: no unique index on active rows.
ConflictsOnMarker(e) == xmsg[e] \in markers

\* The unique index on active rows and the unique marker: the loser of either
\* race is rolled back as a whole.
Conflicts(e) == xmsg[e] \in markers \/ (xrow[e] = NoRow /\ ActiveRow # NoRow)

CommitExtraction(e) ==
    /\ xpc[e] = "commit"
    /\ IF Conflicts(e)
       THEN UNCHANGED <<rows, markers, applied>>
       ELSE /\ markers' = markers \cup {xmsg[e]}
            /\ applied' = [applied EXCEPT ![xmsg[e]] = @ + 1]
            /\ rows' = IF Skips(e) THEN rows
                       ELSE IF xrow[e] = NoRow THEN Append(rows, InsertedRow(e))
                       ELSE [rows EXCEPT ![xrow[e]] = UpdatedRow(e, rows[xrow[e]])]
    /\ (xrow[e] = NoRow => Len(rows) < MaxRows)
    /\ LeaveExtraction(e)
    /\ UNCHANGED <<runs, requestVars, operations>>

-----------------------------------------------------------------------------
(* The operators.                                                          *)

Operate == operations < MaxOperations /\ operations' = operations + 1

\* POST: one INSERT, which the unique index on active rows may refuse.
CreateMemory(c) ==
    /\ Operate
    /\ ActiveRow = NoRow /\ Len(rows) < MaxRows
    /\ rows' = Append(rows, [ARow EXCEPT !.value = c.value, !.kind = c.kind,
                  !.sure = c.sure, !.manual = TRUE, !.verified = TRUE,
                  !.by = "operator", !.given = c.kind, !.marked = c.value])
    /\ UNCHANGED <<markers, applied, extractionVars, requestVars>>

\* PATCH and DELETE load the row without a lock; on a deleted one they end.
LoadMemory(o, request, p) ==
    /\ Operate
    /\ opc[o] = "idle" /\ ActiveRow # NoRow
    /\ opc' = [opc EXCEPT ![o] = request]
    /\ orow' = [orow EXCEPT ![o] = ActiveRow]
    /\ oload' = [oload EXCEPT ![o] = rows[ActiveRow]]
    /\ opatch' = [opatch EXCEPT ![o] = p]
    /\ UNCHANGED <<rows, markers, applied, extractionVars>>

LeaveRequest(o) ==
    /\ opc' = [opc EXCEPT ![o] = "idle"]
    /\ orow' = [orow EXCEPT ![o] = NoRow]
    /\ oload' = [oload EXCEPT ![o] = ARow]
    /\ opatch' = [opatch EXCEPT ![o] = NoPatch]

\* The value as the request sees it, and whether the operator stands for it.
ValueSeen(o) == IF opatch[o].value = Omitted THEN oload[o].value ELSE opatch[o].value
Stands(o)    == opatch[o].value # Omitted \/ opatch[o].verified = TRUE

\* source_type stays as it is.  verified_at is always new when it is set, and
\* part of the UPDATE when it is cleared only if it was loaded set.
PatchedRow(o, row) ==
    LET load == oload[o]  p == opatch[o]
    IN  [row EXCEPT
            !.value = UpdatedColumn(@, load.value, ValueSeen(o)),
            !.kind = IF p.kind = Omitted THEN @ ELSE UpdatedColumn(@, load.kind, p.kind),
            !.sure = IF p.sure = Omitted THEN @ ELSE UpdatedColumn(@, load.sure, p.sure),
            !.verified = p.verified = TRUE \/ (@ /\ ~(p.verified = FALSE /\ load.verified)),
            !.by = IF load.value = ValueSeen(o) THEN @ ELSE "operator",
            !.given = IF p.kind = Omitted THEN @ ELSE p.kind,
            !.marked = IF Stands(o) THEN ValueSeen(o) ELSE @,
            !.passed = Overtaken(row, load) \/ (@ /\ ~Stands(o))]

\* The UPDATE finds the row by its id, deleted or not.
CommitPatch(o) ==
    /\ opc[o] = "patch"
    /\ rows' = [rows EXCEPT ![orow[o]] = PatchedRow(o, @)]
    /\ LeaveRequest(o)
    /\ UNCHANGED <<markers, applied, extractionVars, operations>>

CommitDelete(o) ==
    /\ opc[o] = "delete"
    /\ rows' = [rows EXCEPT ![orow[o]].deleted = TRUE]
    /\ LeaveRequest(o)
    /\ UNCHANGED <<markers, applied, extractionVars, operations>>

\* A lost connection or a dying process rolls the request back.
RequestFails(o) ==
    /\ opc[o] # "idle"
    /\ LeaveRequest(o)
    /\ UNCHANGED <<rows, markers, applied, extractionVars, operations>>

OperatorStep ==
    \/ \E c \in Candidates : CreateMemory(c)
    \/ \E o \in Operators :
          \/ \E p \in Payloads : LoadMemory(o, "patch", p)
          \/ LoadMemory(o, "delete", NoPatch)
          \/ CommitPatch(o) \/ CommitDelete(o) \/ RequestFails(o)

ExtractionStep(e) ==
    \/ \E m \in Sources : StartExtraction(e, m)
    \/ \E c \in Candidates : GenerateCandidate(e, c)
    \/ LoadRow(e) \/ CommitExtraction(e) \/ ExtractionFails(e)

MemoryNext == OperatorStep \/ \E e \in Extractors : ExtractionStep(e)

MemorySpec == MemoryInit /\ [][MemoryNext]_memoryVars

-----------------------------------------------------------------------------
(* Properties.                                                             *)

\* build_customer_memory_context: stated facts the model is sure of, and
\* whatever an operator verified.
InContext(i) ==
    /\ ~rows[i].deleted
    /\ (rows[i].kind = "fact" /\ rows[i].sure) \/ rows[i].verified

\* However often a message is delivered, its memory is applied once.
AppliedOnce == \A m \in Sources : applied[m] <= 1 /\ (applied[m] = 1 <=> m \in markers)

\* A value an operator entered as a new item is never replaced by extraction.
ManualStaysHuman == \A i \in 1..Len(rows) : rows[i].manual => rows[i].by = "operator"

\* What the agent gets of an inference is a value that an operator verified or
\* wrote: a value called an inference by who gave it never counts as a fact, nor
\* does a mark move to another value.  Except when a request or an extraction
\* wrote over a row that had changed since it was loaded.
Inferred(i) == rows[i].kind = "inference" \/ rows[i].given = "inference"
InferencesAreApproved ==
    \A i \in 1..Len(rows) :
        InContext(i) /\ Inferred(i) => rows[i].value = rows[i].marked \/ rows[i].passed

\* Extraction respects the operators: a message counts once, human items stay
\* human, and unverified inferences are not used (memory_runtime.py, memory.py).
MemoryRespectsOperators ==
    AppliedOnce /\ ManualStaysHuman /\ InferencesAreApproved

\* The same without the exception, which is what ADR-018 and MILESTONE-12 say.
OnlyApprovedInferences ==
    \A i \in 1..Len(rows) :
        InContext(i) /\ Inferred(i) => rows[i].value = rows[i].marked
=============================================================================
