---------------------------- MODULE ChannelIngress ----------------------------
(***************************************************************************)
(* How an update of a channel provider becomes canonical state and a job:  *)
(* concurrent deliveries of the same update to the webhook, which persists *)
(* it, enqueues it and marks it enqueued, and the workers that evaluate    *)
(* the message policy, enrich the event and set its final status.          *)
(*                                                                         *)
(* Source: channel_runtime.py (persist_inbound_event, mark_event_enqueued, *)
(* mark_event_ignored, process_channel_event), channel_webhooks.py (the    *)
(* Telegram webhook; post_website_message of website_chat.py is the same   *)
(* sequence), and worker.process_job up to the agent.                      *)
(*                                                                         *)
(* ChannelInboundEvent.status is read and written in different statements  *)
(* without a row lock everywhere, so reads and writes are separate steps.  *)
(***************************************************************************)
EXTENDS Naturals, FiniteSets

CONSTANTS
    Updates,     \* external_event_id of what the provider sends
    Senders,     \* external identities
    SenderOf,    \* the sender of each update
    Hooks,       \* webhook requests in flight at the same time
    Workers,
    MaxPosts,    \* bound: webhook deliveries of one update
    MaxFaults    \* bound: Redis or provider errors, crashes

ASSUME IngressAssumption ==
    /\ SenderOf \in [Updates -> Senders]
    /\ MaxPosts \in Nat \ {0}
    /\ MaxFaults \in Nat

VARIABLES
    event,      \* ChannelInboundEvent.status; "none" before the row exists
    rows,       \* canonical Messages created for an update
    contacts,   \* Contacts created for a sender
    accepted,   \* updates the provider got a 2xx for
    posts,      \* webhook deliveries of each update so far
    entries,    \* live stream entries: <<update, n>>, n counts the posts
    queued,     \* updates with an XADD that took effect
    settled,    \* updates one of whose entries was acknowledged
    hpc, hjob,  \* each webhook request's step, and <<update, n>>
    fresh,      \* at its lookup the sender was unknown
    wpc, wjob,  \* each worker's step and entry
    faults

tableVars  == <<event, rows, contacts>>
queueVars  == <<entries, queued, settled>>
hookVars   == <<hpc, hjob, fresh>>
workerVars == <<wpc, wjob>>
vars == <<tableVars, accepted, posts, queueVars, hookVars,
          workerVars, faults>>

Final    == {"processed", "ignored"}
Statuses == {"none", "received", "enqueued"} \cup Final
Entries  == Updates \X (1..MaxPosts)
HookPcs  == {"idle", "lookup", "insert", "enqueue", "check", "mark", "reply"}
WorkerPcs == {"idle", "policy", "read", "enrich", "check", "ignore", "agent", "ack"}

UpdateOf(h) == hjob[h][1]
EventOf(w)  == wjob[w][1]

\* Every variable has its type, and a worker's job is about a committed event.
TypeOK ==
    /\ event \in [Updates -> Statuses]
    /\ rows \in [Updates -> Nat]
    /\ contacts \in [Senders -> Nat]
    /\ accepted \subseteq Updates
    /\ posts \in [Updates -> 0..MaxPosts]
    /\ entries \subseteq Entries
    /\ queued \subseteq Updates
    /\ settled \subseteq Updates
    /\ hpc \in [Hooks -> HookPcs]
    /\ hjob \in [Hooks -> Entries \cup {<<>>}]
    /\ \A h \in Hooks : hpc[h] # "idle" => hjob[h] \in Entries
    /\ fresh \in [Hooks -> BOOLEAN]
    /\ wpc \in [Workers -> WorkerPcs]
    /\ wjob \in [Workers -> Entries \cup {<<>>}]
    /\ \A w \in Workers : wpc[w] # "idle" =>
          wjob[w] \in Entries /\ event[EventOf(w)] # "none"
    /\ faults \in 0..MaxFaults

Init ==
    /\ event = [u \in Updates |-> "none"]
    /\ rows = [u \in Updates |-> 0]
    /\ contacts = [s \in Senders |-> 0]
    /\ accepted = {}
    /\ posts = [u \in Updates |-> 0]
    /\ entries = {}
    /\ queued = {}
    /\ settled = {}
    /\ hpc = [h \in Hooks |-> "idle"]
    /\ hjob = [h \in Hooks |-> <<>>]
    /\ fresh = [h \in Hooks |-> FALSE]
    /\ wpc = [w \in Workers |-> "idle"]
    /\ wjob = [w \in Workers |-> <<>>]
    /\ faults = 0

Fault == faults < MaxFaults /\ faults' = faults + 1

-----------------------------------------------------------------------------
(* The webhook.                                                             *)

\* The provider delivers an update until it gets a 2xx, and may do so again
\* while an earlier delivery is still handled.
PostUpdate(h, u) ==
    /\ hpc[h] = "idle"
    /\ u \notin accepted
    /\ posts[u] < MaxPosts
    /\ posts' = [posts EXCEPT ![u] = @ + 1]
    /\ hpc' = [hpc EXCEPT ![h] = "lookup"]
    /\ hjob' = [hjob EXCEPT ![h] = <<u, posts[u] + 1>>]
    /\ UNCHANGED <<tableVars, accepted, queueVars, fresh, workerVars, faults>>

HookGoto(h, from, to) ==
    /\ hpc[h] = from
    /\ hpc' = [hpc EXCEPT ![h] = to]
    /\ UNCHANGED hjob

\* Mutant: a known event is not enqueued again.
LookUpSkipsKnown(h) ==
    LET u == UpdateOf(h) IN
    /\ HookGoto(h, "lookup", IF event[u] = "none" THEN "insert" ELSE "reply")
    /\ fresh' = [fresh EXCEPT ![h] = contacts[SenderOf[u]] = 0]
    /\ UNCHANGED <<tableVars, accepted, posts, queueVars, workerVars, faults>>

\* _persist_inbound_event_once: the event by its external id; a known one is
\* enqueued again if it is still received.  The identity is looked up too.
LookUpEvent(h) ==
    LET u == UpdateOf(h) IN
    /\ \/ /\ HookGoto(h, "lookup", "insert")
          /\ event[u] = "none"
       \/ /\ HookGoto(h, "lookup", "enqueue")
          /\ event[u] = "received"
       \/ /\ HookGoto(h, "lookup", "reply")
          /\ event[u] \notin {"none", "received"}
    /\ fresh' = [fresh EXCEPT ![h] = contacts[SenderOf[u]] = 0]
    /\ UNCHANGED <<tableVars, accepted, posts, queueVars, workerVars, faults>>

\* A unique constraint fails: the event or the sender's identity was inserted
\* since the lookup.  The second attempt begins with account.id, which the
\* rollback expired and an async session cannot refresh: 500.
InsertConflicts(h) ==
    LET u == UpdateOf(h) IN
    /\ hpc[h] = "insert"
    /\ event[u] # "none" \/ (fresh[h] /\ contacts[SenderOf[u]] > 0)
    /\ hpc' = [hpc EXCEPT ![h] = "idle"]
    /\ UNCHANGED <<tableVars, accepted, posts, queueVars, hjob, fresh,
                   workerVars, faults>>

\* Mutant: no unique constraint on the identity.
InsertWithoutConstraint(h) ==
    LET u == UpdateOf(h) IN
    /\ HookGoto(h, "insert", "enqueue")
    /\ event[u] = "none"
    /\ event' = [event EXCEPT ![u] = "received"]
    /\ rows' = [rows EXCEPT ![u] = @ + 1]
    /\ contacts' = [contacts EXCEPT ![SenderOf[u]] = IF fresh[h] THEN @ + 1 ELSE @]
    /\ UNCHANGED <<accepted, posts, queueVars, fresh, workerVars, faults>>

\* Contact, identity, conversation, binding, Message and event in one commit.
InsertEvent(h) ==
    LET u == UpdateOf(h) IN
    /\ HookGoto(h, "insert", "enqueue")
    /\ event[u] = "none"
    /\ ~(fresh[h] /\ contacts[SenderOf[u]] > 0)
    /\ event' = [event EXCEPT ![u] = "received"]
    /\ rows' = [rows EXCEPT ![u] = @ + 1]
    /\ contacts' = [contacts EXCEPT ![SenderOf[u]] = IF fresh[h] THEN @ + 1 ELSE @]
    /\ UNCHANGED <<accepted, posts, queueVars, fresh, workerVars, faults>>

\* Nothing to keep, or the capability is disabled: an ignored event only.
InsertIgnored(h) ==
    LET u == UpdateOf(h) IN
    /\ HookGoto(h, "insert", "reply")
    /\ event[u] = "none"
    /\ event' = [event EXCEPT ![u] = "ignored"]
    /\ UNCHANGED <<rows, contacts, accepted, posts, queueVars, fresh,
                   workerVars, faults>>

\* queue.enqueue.
Enqueue(h) ==
    /\ HookGoto(h, "enqueue", "check")
    /\ entries' = entries \cup {hjob[h]}
    /\ queued' = queued \cup {UpdateOf(h)}
    /\ UNCHANGED <<tableVars, accepted, posts, settled, fresh, workerVars, faults>>

\* RedisError: 503, the provider will retry; added tells whether the XADD
\* took effect before the error.
EnqueueFails(h, added) ==
    /\ HookGoto(h, "enqueue", "idle")
    /\ Fault
    /\ \/ /\ added
          /\ entries' = entries \cup {hjob[h]}
          /\ queued' = queued \cup {UpdateOf(h)}
       \/ /\ ~added
          /\ UNCHANGED <<entries, queued>>
    /\ UNCHANGED <<tableVars, accepted, posts, settled, fresh, workerVars>>

\* mark_event_enqueued: the SELECT, and the UPDATE of what it read.
CheckReceived(h) ==
    /\ HookGoto(h, "check", IF event[UpdateOf(h)] = "received" THEN "mark" ELSE "reply")
    /\ UNCHANGED <<tableVars, accepted, posts, queueVars, fresh, workerVars, faults>>

MarkEnqueued(h) ==
    /\ HookGoto(h, "mark", "reply")
    /\ event' = [event EXCEPT ![UpdateOf(h)] = "enqueued"]
    /\ UNCHANGED <<rows, contacts, accepted, posts, queueVars, fresh,
                   workerVars, faults>>

\* 200 to the provider.
Reply(h) ==
    /\ HookGoto(h, "reply", "idle")
    /\ accepted' = accepted \cup {UpdateOf(h)}
    /\ UNCHANGED <<tableVars, posts, queueVars, fresh, workerVars, faults>>

\* The API process dies: an uncommitted insert leaves nothing.
HookDies(h) ==
    /\ hpc[h] # "idle"
    /\ HookGoto(h, hpc[h], "idle")
    /\ Fault
    /\ UNCHANGED <<tableVars, accepted, posts, queueVars, fresh, workerVars>>

-----------------------------------------------------------------------------
(* The worker, up to the agent.                                             *)

WorkerGoto(w, from, to) ==
    /\ wpc[w] = from
    /\ wpc' = [wpc EXCEPT ![w] = to]
    /\ UNCHANGED wjob

\* The stream delivers an entry, and again while it is pending.
TakeJob(w, e) ==
    /\ wpc[w] = "idle"
    /\ e \in entries
    /\ wpc' = [wpc EXCEPT ![w] = "policy"]
    /\ wjob' = [wjob EXCEPT ![w] = e]
    /\ UNCHANGED <<tableVars, accepted, posts, queueVars, hookVars, faults>>

\* evaluate_message_event: deny goes to mark_event_ignored.  The policy may
\* change between two deliveries of an event, and so may the decision.
EvaluatePolicy(w, deny) ==
    /\ WorkerGoto(w, "policy", IF deny THEN "check" ELSE "read")
    /\ UNCHANGED <<tableVars, accepted, posts, queueVars, hookVars, faults>>

\* process_channel_event reads the status; a final one returns at once, and
\* process_job goes on with the agent all the same.
ReadEvent(w) ==
    /\ WorkerGoto(w, "read", IF event[EventOf(w)] \in Final THEN "agent" ELSE "enrich")
    /\ UNCHANGED <<tableVars, accepted, posts, queueVars, hookVars, faults>>

\* The account is inactive: ignored, and again on to the agent.
IgnoreInactive(w) ==
    /\ WorkerGoto(w, "enrich", "agent")
    /\ event' = [event EXCEPT ![EventOf(w)] = "ignored"]
    /\ UNCHANGED <<rows, contacts, accepted, posts, queueVars, hookVars, faults>>

\* After getFile for a voice message, the status is written.
MarkProcessed(w) ==
    /\ WorkerGoto(w, "enrich", "agent")
    /\ event' = [event EXCEPT ![EventOf(w)] = "processed"]
    /\ UNCHANGED <<rows, contacts, accepted, posts, queueVars, hookVars, faults>>

\* getFile fails: a retryable error leaves the entry pending, any other one
\* makes the worker mark the event ignored.
EnrichFails(w, retryable) ==
    /\ WorkerGoto(w, "enrich", IF retryable THEN "idle" ELSE "check")
    /\ Fault
    /\ UNCHANGED <<tableVars, accepted, posts, queueVars, hookVars>>

\* mark_event_ignored: the SELECT, and the UPDATE unless it was processed.
CheckProcessed(w) ==
    /\ WorkerGoto(w, "check", IF event[EventOf(w)] = "processed" THEN "ack" ELSE "ignore")
    /\ UNCHANGED <<tableVars, accepted, posts, queueVars, hookVars, faults>>

MarkIgnored(w) ==
    /\ WorkerGoto(w, "ignore", "ack")
    /\ event' = [event EXCEPT ![EventOf(w)] = "ignored"]
    /\ UNCHANGED <<rows, contacts, accepted, posts, queueVars,
                   hookVars, faults>>

\* Transcription, escalation, the agent and memory: they end the job, or
\* leave its entry pending.
RunAgent(w, retryable) ==
    /\ WorkerGoto(w, "agent", IF retryable THEN "idle" ELSE "ack")
    /\ IF retryable THEN Fault ELSE UNCHANGED faults
    /\ UNCHANGED <<tableVars, accepted, posts, queueVars, hookVars>>

Acknowledge(w) ==
    /\ WorkerGoto(w, "ack", "idle")
    /\ entries' = entries \ {wjob[w]}
    /\ settled' = settled \cup {EventOf(w)}
    /\ UNCHANGED <<tableVars, accepted, posts, queued, hookVars, faults>>

\* The worker dies, or process_job returns early on a policy, handoff or
\* internal error: the entry stays pending.
WorkerDies(w) ==
    /\ wpc[w] # "idle"
    /\ WorkerGoto(w, wpc[w], "idle")
    /\ Fault
    /\ UNCHANGED <<tableVars, accepted, posts, queueVars, hookVars>>

-----------------------------------------------------------------------------
HookStep(h) ==
    \/ LookUpEvent(h)
    \/ InsertConflicts(h)
    \/ InsertEvent(h)
    \/ InsertIgnored(h)
    \/ Enqueue(h)
    \/ \E added \in BOOLEAN : EnqueueFails(h, added)
    \/ CheckReceived(h)
    \/ MarkEnqueued(h)
    \/ Reply(h)

WorkerStep(w) ==
    \/ \E deny \in BOOLEAN : EvaluatePolicy(w, deny)
    \/ ReadEvent(w)
    \/ IgnoreInactive(w)
    \/ MarkProcessed(w)
    \/ CheckProcessed(w)
    \/ MarkIgnored(w)
    \/ \E retryable \in BOOLEAN : EnrichFails(w, retryable) \/ RunAgent(w, retryable)
    \/ Acknowledge(w)

Next ==
    \/ \E h \in Hooks :
          \/ \E u \in Updates : PostUpdate(h, u)
          \/ HookStep(h)
          \/ HookDies(h)
    \/ \E w \in Workers :
          \/ \E e \in Entries : TakeJob(w, e)
          \/ WorkerStep(w)
          \/ WorkerDies(w)

Spec == Init /\ [][Next]_vars

\* Requests and workers that are not killed go on; the stream delivers what
\* is pending; the provider retries an update until it is accepted.
Fairness ==
    /\ \A h \in Hooks : WF_vars(HookStep(h))
    /\ \A w \in Workers : WF_vars(WorkerStep(w))
    /\ \A u \in Updates : WF_vars(\E h \in Hooks : PostUpdate(h, u))
    /\ \A e \in Entries : WF_vars(\E w \in Workers : TakeJob(w, e))

FairSpec == Spec /\ Fairness

-----------------------------------------------------------------------------
(* Properties.                                                              *)

\* However many deliveries of an update race, and whichever unique constraint
\* stops them, one Message and one Contact come of it.
CanonicalStateIsUnique ==
    /\ \A u \in Updates : rows[u] <= 1
    /\ \A s \in Senders : contacts[s] <= 1

\* "Duplicate update/message does not duplicate canonical state and can be
\* safely re-enqueued" (MILESTONE-5): the provider is told 2xx, and stops
\* retrying, only when a job for the update was appended or none is needed.
AcceptedMeansQueued ==
    \A u \in accepted : u \in queued \/ event[u] = "ignored"

\* A persisted event is not forgotten: its job is worked off, since the provider
\* retries what was not answered with 2xx; a crash between the commit and the
\* XADD, or a RedisError, is repaired by the retry.
ReceivedIsSettled ==
    \A u \in Updates : event[u] = "received" ~> u \in settled

=============================================================================
