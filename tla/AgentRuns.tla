------------------------------ MODULE AgentRuns ------------------------------
(***************************************************************************)
(* The durable AgentRun of one conversation: several channel workers claim *)
(* a run with a lease, generate a reply, persist it, and dispatch it, while*)
(* operators hand the conversation to a human and back.                    *)
(*                                                                         *)
(* Source: agent_runtime.py, handoff_runtime.py, channel_runtime.py        *)
(* (dispatch_text), and the acknowledge decisions of worker.process_job.   *)
(*                                                                         *)
(* One action is one database transaction, one external call, or one Redis *)
(* command; a worker may be overtaken, stalled or killed between any two.  *)
(* All tables touched are scoped by (tenant, conversation), so a single    *)
(* conversation is modelled.  lease_token is a fresh UUID per claim and a  *)
(* worker has one claim at a time, so the worker itself stands for it.     *)
(***************************************************************************)
EXTENDS Naturals, FiniteSets

CONSTANTS
    Workers,       \* worker processes consuming the channel stream
    Runs,          \* inbound customer messages; a run is keyed by its message
    Texts,         \* replies the model may produce
    None,          \* SQL NULL
    MaxHandoffs,   \* bound: handoff rows created for the conversation
    MaxResumes,    \* bound: resets of a run to pending by a resume
    MaxAttempts,   \* worker_max_delivery_attempts
    MaxFaults,     \* bound: crashes, retryable failures, lost enqueues
    MaxStalls      \* bound: leases expiring under a worker that still runs

ASSUME NoneAssumption == None \notin Workers \cup Runs \cup Texts
ASSUME BoundAssumption ==
    /\ MaxHandoffs \in Nat
    /\ MaxResumes \in Nat
    /\ MaxAttempts \in Nat \ {0}
    /\ MaxFaults \in Nat
    /\ MaxStalls \in Nat

VARIABLES
    status,     \* AgentRun.status; "none" before the row exists
    text,       \* AgentRun.generated_text
    lease,      \* AgentRun.lease_token
    live,       \* lease_until has not passed
    outbound,   \* AgentRun.outbound_message_id
    msg,        \* text of the canonical Message with key agent:<run>
    delivered,  \* sendMessage calls the channel provider accepted
    lost,       \* of these, the ones whose transaction never committed
    hstatus,    \* ConversationHandoff.status ("active" = queued or claimed)
    source,     \* ConversationHandoff.source_agent_run_id
    hcount,     \* handoff rows created so far
    entries,    \* live stream entries: <<run, n>>, n = 0 from the webhook
    tries,      \* deliveries of each entry, counted in the attempt hash
    dropped,    \* why the last job of a run was given up, if it was
    resumes,    \* resets by resolve_handoff(resume_ai)
    pc,         \* where each worker is in process_agent_event
    job,        \* the stream entry it works on
    draft,      \* its local generated_text
    terminal,   \* the terminal flag of a pending _release_run_error
    convLock,   \* holder of the Conversation row lock across a dispatch
    faults,
    stalls

runVars     == <<status, text, lease, live, outbound>>
msgVars     == <<msg, delivered, lost>>
handoffVars == <<hstatus, source, hcount>>
queueVars   == <<entries, tries, dropped, resumes>>
workerVars  == <<pc, job, draft, terminal>>
vars == <<runVars, msgVars, handoffVars, queueVars, workerVars, convLock,
          faults, stalls>>

Open      == {"pending", "generated"}
Statuses  == {"none", "pending", "generated", "paused", "succeeded", "failed"}
Reasons   == {"no", "no_agent", "handoff", "dead_letter", "refused"}
HStatuses == {"none", "active", "resolved", "cancelled"}
Handoffs  == 1..MaxHandoffs
Entries   == Runs \X (0..MaxResumes)
Pcs == {"idle", "resolve", "claim", "snapshot", "generate", "persist", "guard",
        "dispatch", "commit", "complete", "release", "ack"}

RunOf(w) == job[w][1]
Active   == {h \in Handoffs : hstatus[h] = "active"}
Resolved == {h \in Handoffs : hstatus[h] = "resolved"}
\* At most one handoff is active at a time, so ids are ordered by closed_at.
LastResolved(h) == h \in Resolved /\ \A g \in Resolved : g <= h

RunTypes ==
    /\ status \in [Runs -> Statuses]
    /\ text \in [Runs -> Texts \cup {None}]
    /\ lease \in [Runs -> Workers \cup {None}]
    /\ live \in [Runs -> BOOLEAN]
    /\ outbound \in [Runs -> Texts \cup {None}]
    /\ msg \in [Runs -> Texts \cup {None}]
    /\ delivered \in [Runs -> Nat]
    /\ lost \in [Runs -> Nat]

HandoffTypes ==
    /\ hstatus \in [Handoffs -> HStatuses]
    /\ source \in [Handoffs -> Runs \cup {None}]
    /\ hcount \in 0..MaxHandoffs

QueueTypes ==
    /\ entries \subseteq Entries
    /\ tries \in [Entries -> 0..MaxAttempts]
    /\ dropped \in [Runs -> Reasons]
    /\ resumes \in 0..MaxResumes
    /\ faults \in 0..MaxFaults
    /\ stalls \in 0..MaxStalls

WorkerTypes ==
    /\ pc \in [Workers -> Pcs]
    /\ job \in [Workers -> Entries \cup {None}]
    /\ \A w \in Workers : pc[w] # "idle" => job[w] \in Entries
    /\ draft \in [Workers -> Texts \cup {None}]
    /\ terminal \in [Workers -> BOOLEAN]
    /\ convLock \in Workers \cup {None}

\* Every variable has its type; no entry is delivered beyond the limit, and a
\* worker that is busy has a job.
TypeOK == RunTypes /\ HandoffTypes /\ QueueTypes /\ WorkerTypes

Init ==
    /\ status = [r \in Runs |-> "none"]
    /\ text = [r \in Runs |-> None]
    /\ lease = [r \in Runs |-> None]
    /\ live = [r \in Runs |-> FALSE]
    /\ outbound = [r \in Runs |-> None]
    /\ msg = [r \in Runs |-> None]
    /\ delivered = [r \in Runs |-> 0]
    /\ lost = [r \in Runs |-> 0]
    /\ hstatus = [h \in Handoffs |-> "none"]
    /\ source = [h \in Handoffs |-> None]
    /\ hcount = 0
    /\ entries = Runs \X {0}
    /\ tries = [e \in Entries |-> 0]
    /\ dropped = [r \in Runs |-> "no"]
    /\ resumes = 0
    /\ pc = [w \in Workers |-> "idle"]
    /\ job = [w \in Workers |-> None]
    /\ draft = [w \in Workers |-> None]
    /\ terminal = [w \in Workers |-> FALSE]
    /\ convLock = None
    /\ faults = 0
    /\ stalls = 0

-----------------------------------------------------------------------------
(* Worker steps.  Goto leaves the job and the draft as they are.            *)

Goto(w, from, to) ==
    /\ pc[w] = from
    /\ pc' = [pc EXCEPT ![w] = to]

\* A worker that ends an attempt: "ack" goes on to acknowledge the entry,
\* "idle" returns and leaves the entry pending for XAUTOCLAIM.
Leave(w, to) ==
    /\ pc' = [pc EXCEPT ![w] = to]
    /\ draft' = [draft EXCEPT ![w] = None]
    /\ UNCHANGED <<job, terminal>>

\* Mutant: the delivery limit is not applied.
StartWithoutLimit(w, e) ==
    /\ pc[w] = "idle"
    /\ e \in entries
    /\ tries' = [tries EXCEPT ![e] = @ + 1]
    /\ job' = [job EXCEPT ![w] = e]
    /\ pc' = [pc EXCEPT ![w] = "resolve"]
    /\ UNCHANGED <<runVars, msgVars, handoffVars, entries, dropped, resumes,
                   draft, terminal, convLock, faults, stalls>>

\* XREADGROUP or XAUTOCLAIM delivers an entry, to several workers if it stays
\* pending.  Past the limit it is dead-lettered; with an active handoff (read
\* without a lock) process_agent_event returns and the job is acknowledged.
StartEvent(w, e) ==
    /\ pc[w] = "idle"
    /\ e \in entries
    /\ \/ /\ tries[e] = MaxAttempts
          /\ entries' = entries \ {e}
          /\ dropped' = [dropped EXCEPT ![e[1]] = "dead_letter"]
          /\ UNCHANGED <<tries, job, pc>>
       \/ /\ tries[e] < MaxAttempts
          /\ tries' = [tries EXCEPT ![e] = @ + 1]
          /\ job' = [job EXCEPT ![w] = e]
          /\ pc' = [pc EXCEPT ![w] = IF Active # {} THEN "ack" ELSE "resolve"]
          /\ dropped' = [dropped EXCEPT ![e[1]] =
                            IF Active # {} THEN "handoff" ELSE @]
          /\ UNCHANGED entries
    /\ UNCHANGED <<runVars, msgVars, handoffVars, resumes, draft, terminal,
                   convLock, faults, stalls>>

\* No active assigned agent, or no published prompt: no run, job acknowledged.
SkipEvent(w) ==
    /\ Goto(w, "resolve", "ack")
    /\ status[RunOf(w)] = "none"
    /\ dropped' = [dropped EXCEPT ![RunOf(w)] = "no_agent"]
    /\ UNCHANGED <<runVars, msgVars, handoffVars, entries, tries, resumes, job,
                   draft, terminal, convLock, faults, stalls>>

\* Finds the run of this inbound message or inserts it.  The loser of a racing
\* insert fails on the event its rollback has expired, and its delivery comes
\* back, as after a Crash.
ResolveOrCreateRun(w) ==
    /\ Goto(w, "resolve", "claim")
    /\ status' = [status EXCEPT ![RunOf(w)] = IF @ = "none" THEN "pending" ELSE @]
    /\ UNCHANGED <<text, lease, live, outbound, msgVars, handoffVars, queueVars,
                   job, draft, terminal, convLock, faults, stalls>>

Claimable(r) == status[r] \in Open /\ (lease[r] = None \/ ~live[r])

\* Mutant: a run leased by another worker ends the job as well.
ClaimAcksBusy(w) ==
    LET r == RunOf(w) IN
    /\ pc[w] = "claim"
    /\ \/ /\ Claimable(r)
          /\ lease' = [lease EXCEPT ![r] = w]
          /\ live' = [live EXCEPT ![r] = TRUE]
          /\ Goto(w, "claim", "snapshot")
       \/ /\ ~Claimable(r)
          /\ Goto(w, "claim", "ack")
          /\ UNCHANGED <<lease, live>>
    /\ UNCHANGED <<status, text, outbound, msgVars, handoffVars, queueVars,
                   job, draft, terminal, convLock, faults, stalls>>

\* One UPDATE: take the lease if it is free or expired; a finished run ends
\* the job, anything else (leased, or paused) is agent_run_busy, retryable.
ClaimRun(w) ==
    LET r == RunOf(w) IN
    /\ pc[w] = "claim"
    /\ \/ /\ Claimable(r)
          /\ lease' = [lease EXCEPT ![r] = w]
          /\ live' = [live EXCEPT ![r] = TRUE]
          /\ Goto(w, "claim", "snapshot")
       \/ /\ ~Claimable(r)
          /\ pc' = [pc EXCEPT ![w] =
                      IF status[r] \in {"succeeded", "failed"} THEN "ack" ELSE "idle"]
          /\ UNCHANGED <<lease, live>>
    /\ UNCHANGED <<status, text, outbound, msgVars, handoffVars, queueVars,
                   job, draft, terminal, convLock, faults, stalls>>

\* Re-reads the run under its token: a pending run is generated, a generated
\* one is dispatched from its stored text, a lost lease ends the attempt.
LoadRunSnapshot(w) ==
    LET r == RunOf(w) IN
    /\ pc[w] = "snapshot"
    /\ \/ /\ lease[r] # w
          /\ Leave(w, "idle")
       \/ /\ lease[r] = w
          /\ status[r] = "pending"
          /\ Goto(w, "snapshot", "generate")
          /\ UNCHANGED <<job, draft, terminal>>
       \/ /\ lease[r] = w
          /\ status[r] = "generated"
          /\ Goto(w, "snapshot", "guard")
          /\ draft' = [draft EXCEPT ![w] = text[r]]
          /\ UNCHANGED <<job, terminal>>
    /\ UNCHANGED <<runVars, msgVars, handoffVars, queueVars, convLock, faults,
                   stalls>>

\* The channel account was deactivated: a terminal error at the snapshot.
SnapshotRejected(w) ==
    /\ Goto(w, "snapshot", "release")
    /\ lease[RunOf(w)] = w
    /\ terminal' = [terminal EXCEPT ![w] = TRUE]
    /\ UNCHANGED <<runVars, msgVars, handoffVars, queueVars, job, draft,
                   convLock, faults, stalls>>

\* The renewal tick while generation, retrieval or a tool call is in flight.
RenewRunLease(w) ==
    /\ pc[w] = "generate"
    /\ \/ /\ lease[RunOf(w)] = w
          /\ live' = [live EXCEPT ![RunOf(w)] = TRUE]
          /\ UNCHANGED workerVars
       \/ /\ lease[RunOf(w)] # w
          /\ Leave(w, "idle")
          /\ UNCHANGED live
    /\ UNCHANGED <<status, text, lease, outbound, msgVars, handoffVars,
                   queueVars, convLock, faults, stalls>>

\* The gateway returned a final answer that passed validate_customer_response.
GenerateReply(w, t) ==
    /\ Goto(w, "generate", "persist")
    /\ draft' = [draft EXCEPT ![w] = t]
    /\ UNCHANGED <<runVars, msgVars, handoffVars, queueVars, job, terminal,
                   convLock, faults, stalls>>

\* A routing, knowledge, tool or validation error: terminal, or retryable.
GenerateFails(w, fatal) ==
    /\ Goto(w, "generate", "release")
    /\ terminal' = [terminal EXCEPT ![w] = fatal]
    /\ fatal \/ faults < MaxFaults
    /\ faults' = IF fatal THEN faults ELSE faults + 1
    /\ UNCHANGED <<runVars, msgVars, handoffVars, queueVars, job, draft,
                   convLock, stalls>>

-----------------------------------------------------------------------------
(* The run row as the updates of several functions leave it.                *)

\* status PAUSED, no text, no token.
PauseRun(r) ==
    /\ status' = [status EXCEPT ![r] = "paused"]
    /\ text' = [text EXCEPT ![r] = None]
    /\ lease' = [lease EXCEPT ![r] = None]
    /\ live' = [live EXCEPT ![r] = FALSE]
    /\ UNCHANGED outbound

\* A handoff row for this run; the one-active index is the lock's backstop.
CreateHandoff(r) ==
    /\ Active = {}
    /\ hcount < MaxHandoffs
    /\ hcount' = hcount + 1
    /\ hstatus' = [hstatus EXCEPT ![hcount + 1] = "active"]
    /\ source' = [source EXCEPT ![hcount + 1] = r]

\* The active handoff takes this run as its source if it has none.
LinkHandoff(r) ==
    /\ Active # {}
    /\ source' = [h \in Handoffs |->
                    IF h \in Active /\ source[h] = None THEN r ELSE source[h]]
    /\ UNCHANGED <<hstatus, hcount>>

\* A tool call returned approval_required.  One transaction under the
\* Conversation lock pauses the run, whatever its status and lease are, and
\* links it to a handoff; agent_handoff_paused then acknowledges the job.
PauseForToolApproval(w) ==
    /\ pc[w] = "generate"
    /\ convLock = None
    /\ PauseRun(RunOf(w))
    /\ CreateHandoff(RunOf(w)) \/ LinkHandoff(RunOf(w))
    /\ Leave(w, "ack")
    /\ UNCHANGED <<msgVars, queueVars, convLock, faults, stalls>>

\* The reply is stored before anything is sent, if the token still matches.
PersistGeneratedText(w) ==
    LET r == RunOf(w) IN
    /\ pc[w] = "persist"
    /\ \/ /\ lease[r] = w
          /\ status[r] = "pending"
          /\ status' = [status EXCEPT ![r] = "generated"]
          /\ text' = [text EXCEPT ![r] = draft[w]]
          /\ Goto(w, "persist", "guard")
          /\ UNCHANGED <<job, draft, terminal>>
       \/ /\ ~(lease[r] = w /\ status[r] = "pending")
          /\ Leave(w, "idle")
          /\ UNCHANGED <<status, text>>
    /\ UNCHANGED <<lease, live, outbound, msgVars, handoffVars, queueVars,
                   convLock, faults, stalls>>

\* Mutant: the handoff is checked, but the Conversation row is not locked.
GuardWithoutLock(w) ==
    /\ pc[w] = "guard"
    /\ Active = {}
    /\ Goto(w, "guard", "dispatch")
    /\ UNCHANGED <<runVars, msgVars, handoffVars, queueVars, job, draft,
                   terminal, convLock, faults, stalls>>

\* Locks the Conversation.  With no active handoff the transaction goes on to
\* dispatch_text (the lease is not looked at); with one, the run is paused if
\* this worker still holds it, and otherwise the lease is lost.
GuardAiDispatch(w) ==
    LET r == RunOf(w)
        owned == lease[r] = w /\ status[r] \in Open IN
    /\ pc[w] = "guard"
    /\ convLock = None
    /\ \/ /\ Active = {}
          /\ convLock' = w
          /\ Goto(w, "guard", "dispatch")
          /\ UNCHANGED <<runVars, handoffVars, job, draft, terminal>>
       \/ /\ Active # {}
          /\ owned
          /\ PauseRun(r)
          /\ LinkHandoff(r)
          /\ Leave(w, "ack")
          /\ UNCHANGED convLock
       \/ /\ Active # {}
          /\ ~owned
          /\ Leave(w, "idle")
          /\ UNCHANGED <<runVars, handoffVars, convLock>>
    /\ UNCHANGED <<msgVars, queueVars, faults, stalls>>

\* Mutant: the idempotency key is not looked up before sending.
SendWithoutLookup(w) ==
    LET r == RunOf(w) IN
    /\ Goto(w, "dispatch", "commit")
    /\ delivered' = [delivered EXCEPT ![r] = @ + 1]
    /\ UNCHANGED <<runVars, msg, lost, handoffVars, queueVars, job, draft,
                   terminal, convLock, faults, stalls>>

\* Mutant: an existing Message is reused whatever it says.
ReuseAnyMessage(w) ==
    LET r == RunOf(w) IN
    /\ pc[w] = "dispatch"
    /\ \/ /\ msg[r] = None
          /\ Goto(w, "dispatch", "commit")
          /\ delivered' = [delivered EXCEPT ![r] = @ + 1]
          /\ UNCHANGED convLock
       \/ /\ msg[r] # None
          /\ Goto(w, "dispatch", "complete")
          /\ convLock' = None
          /\ UNCHANGED delivered
    /\ UNCHANGED <<runVars, msg, lost, handoffVars, queueVars, job, draft,
                   terminal, faults, stalls>>

\* dispatch_text, still in that transaction: a Message under this run's key
\* is reused when it says the same and is a terminal conflict otherwise;
\* without one the reply goes out to the channel.
DispatchText(w) ==
    LET r == RunOf(w) IN
    /\ pc[w] = "dispatch"
    /\ \/ /\ msg[r] = None
          /\ Goto(w, "dispatch", "commit")
          /\ delivered' = [delivered EXCEPT ![r] = @ + 1]
          /\ UNCHANGED <<terminal, convLock>>
       \/ /\ msg[r] # None
          /\ Goto(w, "dispatch", IF msg[r] = draft[w] THEN "complete" ELSE "release")
          /\ terminal' = [terminal EXCEPT ![w] = TRUE]
          /\ convLock' = None
          /\ UNCHANGED delivered
    /\ UNCHANGED <<runVars, msg, lost, handoffVars, queueVars, job, draft,
                   faults, stalls>>

\* The channel refused the text for good, or the account or binding is gone.
DispatchRejected(w) ==
    /\ Goto(w, "dispatch", "release")
    /\ msg[RunOf(w)] = None
    /\ terminal' = [terminal EXCEPT ![w] = TRUE]
    /\ convLock' = None
    /\ UNCHANGED <<runVars, msgVars, handoffVars, queueVars, job, draft,
                   faults, stalls>>

\* A timeout or transport error, retryable: the provider may have accepted
\* the message (reached) although the worker never learns of it.
DispatchTimesOut(w, reached) ==
    LET r == RunOf(w) IN
    /\ Goto(w, "dispatch", "release")
    /\ msg[r] = None
    /\ faults < MaxFaults
    /\ faults' = faults + 1
    /\ terminal' = [terminal EXCEPT ![w] = FALSE]
    /\ delivered' = [delivered EXCEPT ![r] = IF reached THEN @ + 1 ELSE @]
    /\ lost' = [lost EXCEPT ![r] = IF reached THEN @ + 1 ELSE @]
    /\ convLock' = None
    /\ UNCHANGED <<runVars, msg, handoffVars, queueVars, job, draft, stalls>>

\* The outbound Message becomes durable and the Conversation is unlocked.
CommitDispatch(w) ==
    /\ Goto(w, "commit", "complete")
    /\ msg' = [msg EXCEPT ![RunOf(w)] = draft[w]]
    /\ convLock' = None
    /\ UNCHANGED <<runVars, delivered, lost, handoffVars, queueVars, job,
                   draft, terminal, faults, stalls>>

\* The commit failed after the send: agent_internal_error, retryable.
CommitFails(w) ==
    /\ faults < MaxFaults
    /\ faults' = faults + 1
    /\ Goto(w, "commit", "release")
    /\ terminal' = [terminal EXCEPT ![w] = FALSE]
    /\ lost' = [lost EXCEPT ![RunOf(w)] = @ + 1]
    /\ convLock' = None
    /\ UNCHANGED <<runVars, msg, delivered, handoffVars, queueVars, job, draft,
                   stalls>>

\* Mutant: the temporary reply and the lease are not cleared.
CompleteKeepsText(w) ==
    LET r == RunOf(w) IN
    /\ pc[w] = "complete"
    /\ \/ /\ lease[r] = w
          /\ status' = [status EXCEPT ![r] = "succeeded"]
          /\ outbound' = [outbound EXCEPT ![r] = draft[w]]
          /\ Leave(w, "ack")
       \/ /\ lease[r] # w
          /\ Leave(w, "idle")
          /\ UNCHANGED <<status, outbound>>
    /\ UNCHANGED <<text, lease, live, msgVars, handoffVars, queueVars, convLock,
                   faults, stalls>>

\* SUCCEEDED with the message id, if the token still matches.
CompleteRun(w) ==
    LET r == RunOf(w) IN
    /\ pc[w] = "complete"
    /\ \/ /\ lease[r] = w
          /\ status' = [status EXCEPT ![r] = "succeeded"]
          /\ outbound' = [outbound EXCEPT ![r] = draft[w]]
          /\ text' = [text EXCEPT ![r] = None]
          /\ lease' = [lease EXCEPT ![r] = None]
          /\ live' = [live EXCEPT ![r] = FALSE]
          /\ Leave(w, "ack")
       \/ /\ lease[r] # w
          /\ Leave(w, "idle")
          /\ UNCHANGED runVars
    /\ UNCHANGED <<msgVars, handoffVars, queueVars, convLock, faults, stalls>>

\* Drops the lease, and fails the run when the error is terminal, if the
\* token still matches; a terminal error lets the job be acknowledged.
ReleaseRunError(w) ==
    LET r == RunOf(w)
        fail == lease[r] = w /\ terminal[w] IN
    /\ pc[w] = "release"
    /\ lease' = [lease EXCEPT ![r] = IF @ = w THEN None ELSE @]
    /\ live' = [live EXCEPT ![r] = IF lease[r] = w THEN FALSE ELSE @]
    /\ status' = [status EXCEPT ![r] = IF fail THEN "failed" ELSE @]
    /\ text' = [text EXCEPT ![r] = IF fail THEN None ELSE @]
    /\ Leave(w, IF terminal[w] THEN "ack" ELSE "idle")
    /\ UNCHANGED <<outbound, msgVars, handoffVars, queueVars, convLock, faults,
                   stalls>>

\* queue.acknowledge: the entry leaves the stream.
Acknowledge(w) ==
    /\ Goto(w, "ack", "idle")
    /\ entries' = entries \ {job[w]}
    /\ UNCHANGED <<runVars, msgVars, handoffVars, tries, dropped, resumes, job, draft, terminal,
                   convLock, faults, stalls>>

-----------------------------------------------------------------------------
(* Faults and time.                                                         *)

\* The worker process dies: its transaction rolls back, its lease stays.
Crash(w) ==
    /\ pc[w] # "idle"
    /\ faults < MaxFaults
    /\ faults' = faults + 1
    /\ Leave(w, "idle")
    /\ lost' = [lost EXCEPT ![RunOf(w)] = IF pc[w] = "commit" THEN @ + 1 ELSE @]
    /\ convLock' = IF convLock = w THEN None ELSE convLock
    /\ UNCHANGED <<runVars, msg, delivered, handoffVars, queueVars, stalls>>

\* The lease holder still works on this run, past its claim.
HolderAlive(r) ==
    \E w \in Workers : /\ lease[r] = w
                       /\ pc[w] \notin {"idle", "resolve", "claim", "ack"}
                       /\ RunOf(w) = r

\* lease_until passes: by itself after a crash, and at most MaxStalls times
\* under a worker that is only slow.
LeaseExpires(r) ==
    /\ lease[r] # None
    /\ live[r]
    /\ live' = [live EXCEPT ![r] = FALSE]
    /\ \/ ~HolderAlive(r) /\ UNCHANGED stalls
       \/ HolderAlive(r) /\ stalls < MaxStalls /\ stalls' = stalls + 1
    /\ UNCHANGED <<status, text, lease, outbound, msgVars, handoffVars,
                   queueVars, workerVars, convLock, faults>>

-----------------------------------------------------------------------------
(* Handoff requests and resolutions.                                        *)

\* Mutant: no Conversation lock, so a dispatch may be under way.
RequestWithoutLock ==
    /\ Active = {}
    /\ hcount < MaxHandoffs
    /\ hcount' = hcount + 1
    /\ hstatus' = [hstatus EXCEPT ![hcount + 1] = "active"]
    /\ UNCHANGED <<runVars, msgVars, source, queueVars, workerVars, convLock,
                   faults, stalls>>

\* request_handoff by an operator or by policy (no source run).  With an
\* active handoff it returns that one and changes nothing.
RequestHandoff ==
    /\ convLock = None
    /\ Active = {}
    /\ hcount < MaxHandoffs
    /\ hcount' = hcount + 1
    /\ hstatus' = [hstatus EXCEPT ![hcount + 1] = "active"]
    /\ UNCHANGED <<runVars, msgVars, source, queueVars, workerVars, convLock,
                   faults, stalls>>

\* The run resume_ai would reset: resolve_handoff only takes these statuses.
Resumable(h) == source[h] # None /\ status[source[h]] \in {"paused", "pending"}

\* resolve_handoff(resume_ai) on handoff h: its run goes back to pending
\* without a lease, and the API appends its event to the stream again;
\* enqueued is FALSE when Redis was down and the API answered 503.
ResumeRun(h, enqueued) ==
    LET r == source[h] IN
    /\ Resumable(h)
    /\ resumes < MaxResumes
    /\ resumes' = resumes + 1
    /\ status' = [status EXCEPT ![r] = "pending"]
    /\ text' = [text EXCEPT ![r] = None]
    /\ lease' = [lease EXCEPT ![r] = None]
    /\ live' = [live EXCEPT ![r] = FALSE]
    /\ \/ /\ enqueued
          /\ entries' = entries \cup {<<r, resumes + 1>>}
          /\ dropped' = [dropped EXCEPT ![r] = "no"]
          /\ UNCHANGED faults
       \/ /\ ~enqueued
          /\ faults < MaxFaults
          /\ faults' = faults + 1
          /\ dropped' = [dropped EXCEPT ![r] = "refused"]
          /\ UNCHANGED entries
    /\ UNCHANGED <<outbound, tries>>

\* resolve_handoff closes the active handoff and leaves the runs alone.
CloseHandoff(h, cancel) ==
    /\ h \in Active
    /\ hstatus' = [hstatus EXCEPT ![h] = IF cancel THEN "cancelled" ELSE "resolved"]
    /\ UNCHANGED <<source, hcount>>

\* resume_ai is FALSE, or there is no run to resume.
ResolveHandoff(h, cancel) ==
    /\ CloseHandoff(h, cancel)
    /\ UNCHANGED <<runVars, queueVars, msgVars, workerVars, convLock, faults, stalls>>

ResolveAndResume(h, cancel, enqueued) ==
    /\ CloseHandoff(h, cancel)
    /\ ResumeRun(h, enqueued)
    /\ UNCHANGED <<msgVars, workerVars, convLock, stalls>>

\* The same endpoint with no active handoff: resume the last resolved one.
RetryResume(h, enqueued) ==
    /\ Active = {}
    /\ LastResolved(h)
    /\ ResumeRun(h, enqueued)
    /\ UNCHANGED <<handoffVars, msgVars, workerVars, convLock, stalls>>

-----------------------------------------------------------------------------
WorkerStep(w) ==
    \/ SkipEvent(w)
    \/ ResolveOrCreateRun(w)
    \/ ClaimRun(w)
    \/ LoadRunSnapshot(w)
    \/ SnapshotRejected(w)
    \/ RenewRunLease(w)
    \/ \E t \in Texts : GenerateReply(w, t)
    \/ \E fatal \in BOOLEAN : GenerateFails(w, fatal)
    \/ PauseForToolApproval(w)
    \/ PersistGeneratedText(w)
    \/ GuardAiDispatch(w)
    \/ DispatchText(w)
    \/ DispatchRejected(w)
    \/ \E reached \in BOOLEAN : DispatchTimesOut(w, reached)
    \/ CommitDispatch(w)
    \/ CommitFails(w)
    \/ CompleteRun(w)
    \/ ReleaseRunError(w)
    \/ Acknowledge(w)

HandoffStep ==
    \/ RequestHandoff
    \/ \E h \in Handoffs, cancel, enqueued \in BOOLEAN :
          \/ ResolveHandoff(h, cancel)
          \/ ResolveAndResume(h, cancel, enqueued)
          \/ RetryResume(h, enqueued)

Next ==
    \/ \E w \in Workers, e \in Entries : StartEvent(w, e)
    \/ \E w \in Workers : WorkerStep(w) \/ Crash(w)
    \/ \E r \in Runs : LeaseExpires(r)
    \/ HandoffStep

Spec == Init /\ [][Next]_vars

\* What the worker loop guarantees: a worker that is not killed goes on with
\* its attempt (every external call has a timeout), some worker takes up an
\* entry that stays pending, and time passes for a lease nobody renews.
Fairness ==
    /\ \A w \in Workers : WF_vars(WorkerStep(w))
    /\ \A e \in Entries : WF_vars(\E w \in Workers : StartEvent(w, e))
    /\ \A r \in Runs : WF_vars(~HolderAlive(r) /\ LeaseExpires(r))

FairSpec == Spec /\ Fairness

-----------------------------------------------------------------------------
(* Properties.                                                              *)

\* guard_ai_dispatch and dispatch_text share one transaction that holds the
\* Conversation row: no AI reply reaches the channel, or becomes a Message,
\* while a handoff is active, however the request and the dispatch interleave.
NoAIReplyDuringHandoff ==
    [][(delivered' # delivered \/ msg' # msg) => Active = {} /\ Active' = {}]_vars

\* The canonical AI Message of a run (key agent:<run>) is written once: no
\* retry, stale worker or resumed run replaces or removes it.
CanonicalReplyIsFinal ==
    [][\A r \in Runs : msg[r] # None => msg'[r] = msg[r]]_vars

\* A run that is not open (paused, succeeded, failed) holds no lease and no
\* temporary reply; a generated one has its reply, a pending one has none.
LeaseAndTextFollowStatus ==
    \A r \in Runs :
        /\ lease[r] # None => status[r] \in Open
        /\ text[r] # None <=> status[r] = "generated"

\* A run that reports success points at the canonical Message that was sent.
SuccessHasReply ==
    \A r \in Runs :
        /\ status[r] = "succeeded" => outbound[r] # None
        /\ outbound[r] # None => outbound[r] = msg[r] /\ delivered[r] > 0

\* The channel accepts a second copy of a reply only if the transaction that
\* sent an earlier copy was lost (crash, timeout, failed commit): stale
\* leases and duplicate jobs alone never send twice.
DuplicatesOnlyAfterLoss ==
    \A r \in Runs : delivered[r] <= lost[r] + 1

\* "Workers periodically reclaim idle pending entries ... so a crashed consumer
\* does not strand work" (ADR-010): an open run is answered, failed or paused,
\* unless its job was dead-lettered, refused with a 503, or acknowledged
\* because no agent or a human has the conversation.
OpenRunsSettle ==
    \A r \in Runs :
        status[r] \in Open ~> (status[r] \notin Open \/ dropped[r] # "no")

\* To the customer the whole machinery is one shared conversation.
Keeper == IF Active = {} THEN "ai" ELSE "human"
Shared == INSTANCE SharedConversation
              WITH Keys <- Runs, keeper <- Keeper, said <- msg, sent <- delivered

\* Whatever workers, leases, redeliveries, resumes and crashes do, each step is
\* one of the shared conversation or none (guard_ai_dispatch, dispatch_text,
\* request_handoff, resolve_handoff).
ImplementsSharedConversation == Shared!SharedSpec

-----------------------------------------------------------------------------
(* What the documents say of the runs, and the code does not keep.          *)

\* "A short PostgreSQL-backed lease prevents two workers from generating/
\* sending the same run concurrently" (ADR-012).
LeaseExcludesSecondGeneration ==
    \A v, w \in Workers :
        pc[v] = "generate" /\ pc[w] = "generate" /\ RunOf(v) = RunOf(w) => v = w

=============================================================================
