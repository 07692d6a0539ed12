# Customers Manager HUB: the TLA+ project

Customers Manager HUB takes customer messages from channels (Telegram, website
chat), stores them as canonical records, and lets an AI agent or a human operator
answer them. The API and the channel workers are separate processes. They share
PostgreSQL and two Redis streams, and what makes the system hard is the overlap:
several workers, several operators, redelivered jobs, expiring leases, and an
external send that no database transaction can take back.

`P/` below is `src/apps/api/src/customers_manager_hub/`.

## 1. Inventory

| Component | State it keeps | Operations | Interacts with |
|---|---|---|---|
| Channel ingress (`channel_webhooks.py`, `website_chat.py`, `channel_runtime.py`) | `ChannelInboundEvent`, `Message`, `Contact`, `ExternalIdentity`, bindings | webhook: persist, enqueue, mark enqueued; worker: process, mark ignored | job queue, provider |
| Job queue (`channel_queue.py`, `knowledge_queue.py`) | stream, consumer group, pending list, attempt hash, dead-letter stream | enqueue, consume, reclaim, acknowledge, dead-letter | API, workers |
| Worker loop (`worker.py`) | none of its own | `process_job`, `process_knowledge_job`, the consume/reclaim loop | everything below |
| Agent runtime (`agent_runtime.py`) | `AgentRun`: status, lease, generated text, outbound message | resolve or create, claim, renew, generate, persist, dispatch, complete, release | gateway, tools, handoff, dispatch |
| Outbound dispatch (`channel_runtime.dispatch_text`) | `Message` by idempotency key, advisory lock | look up, send, commit | provider; agent and operators |
| Handoff runtime, operator inbox (`handoff_runtime.py`, `handoff.py`) | `ConversationHandoff`, audit rows | request, claim, release, resolve, resume, reply, pause for approval, dispatch guard | agent runs, queue, dispatch |
| Knowledge ingestion (`knowledge.py`, `knowledge_runtime.py`) | source status, chunks, embedding signature | claim, embed, persist, fail | knowledge stream, storage, embeddings |
| Tool runtime (`tool_runtime.py`, `tools.py`) | `ToolExecution`, approvals | create, mark running, call, finish, replay, approve | agent runtime, external HTTP |
| AI gateway, wallet (`ai_gateway.py`, `billing_runtime.py`, `platform_billing.py`) | profiles and routes, prices, traces, balance, ledger | resolve, route, attempt, fall back, check, charge, credit | providers, platform owner |
| Customer memory (`memory_runtime.py`, `memory.py`) | memory items, extraction marker | extract, create, correct, verify, delete | gateway, operators |
| Voice (`voice_runtime.py`, `gemini_transcription.py`) | text and media metadata of a message, files at the provider | resolve, download, upload, transcribe, delete, store | provider, gateway |
| Policy engine (`policies.py`, `policy_runtime.py`) | tenant policy, the legacy handoff policy beside it, tool rules, decision traces | put, delete, evaluate message, AI and tool, trace | worker, tools, managers |
| Agents and prompts (`agents.py`) | prompt versions, agents, assignment | create, draft, publish, assign, unassign | agent runtime, managers |
| Website chat (`website_chat.py`, `apps/webchat/widget.js`) | sessions, origins; in the browser: session, shown messages | open a session, post, poll, replace origins | ingress, managers |
| Production hardening (`production_hardening.py`) | fixed-window counters | rate limit, request guards | API |
| Tenants, users, authentication | users, memberships, sessions | CRUD, login | API |
| Contacts, conversations, channel and platform administration, analytics | rows, `last_message_at` | record a message, CRUD, read-only SQL | API, dispatch |
| Web console, migrations, infrastructure | none, or not code of the program logic | | |

Which behaviours are hard, and what makes each component correct:

* **Agent runtime and handoff.** A worker can be overtaken, stalled or killed
  between any two transactions. A reply is sent from inside a transaction that holds
  the Conversation row. Correct means: no AI reply once a human has the
  conversation; one canonical reply per run; a stale worker changes nothing; an
  open run does not get lost.
* **Job queue.** Every method is several Redis commands. Correct means: at least
  once, a budget that is neither endless nor cut short, nothing pending for ever.
* **Lease, idle time and budget** are three independent numbers that have to fit.
* **Operator inbox.** Concurrent claims; repeated replies with one client key;
  reply and audit in two commits.
* **Channel ingress.** Concurrent first deliveries; commit and enqueue are not
  atomic; the provider's retry is the repair.
* **Knowledge and tools.** Read, decide and write across an external call, with weaker
  fences than an agent run has. Correct means: a searchable index is whole and of
  one model; the service is reached as often as allowed, with what was approved.
* **Gateway and wallet.** The balance is read before a call that takes seconds and
  debited after it. Correct means: the ledger adds up, an answered call is
  debited once, and the overdraft has a bound.
* **Memory, voice, prompts.** The same pattern with rows that people edit. Correct
  means: what an operator entered stands, the first transcript wins and is there
  before any answer, and a published prompt never changes.
* **Policies.** Two tables that hold the same switch, edited by two endpoints in
  opposite order, read by workers in several sessions. Correct means: nothing
  takes effect untraced, no policy is laxer than the tool, and edits that do not
  collide leave one configuration.
* **A conversation's messages.** Four kinds of writers retry under keys of their own, and each
  reads `last_message_at` long before it writes it. Correct means: a key is one message,
  an answer is the message that was asked for, the time is behind only where writers
  overlapped, and no two transactions wait for one another but the known ones.
* **Public edge.** A widget whose poll and submit share a variable, requests that
  are answered too late, a DELETE that does not see a concurrent INSERT, a
  counter that expires. Correct means: what the visitor is told is so, and the
  limits hold.

`PROJECT.json` lists the hazards at their lines, with the properties that cover them.

## 2. Modules

| Module | Models | Proofs | Runs |
|---|---|---|---|
| `AgentRuns` | run row, lease, `process_agent_event` step by step, dispatch, handoff and resume, for one conversation | `AgentRunsProofs`, `AgentRunsRefinement` | `AgentRunsSafety`, `AgentRunsLiveness`, `AgentRunsLeaseExclusion` |
| `JobQueue` | the Redis commands of the queue, producers, consumers, crashes | `JobQueueProofs` | `JobQueue` |
| `LeaseBudget` | the clocks of one job: lease, claim idle time, delivery budget | `CallProofs` | `LeaseBudgetDefaults`, `ToolExecutions` |
| `SharedConversation` | abstract: one conversation, answered by one keeper at a time | `AgentRunsRefinement` | `AgentRunsSafety` |
| `OperatorInbox` | handoff row with claimant and roles, `send_operator_reply`, advisory lock | `ConsoleProofs` | `OperatorInbox`, `OperatorInboxStaleClaim` |
| `ChannelIngress` | webhook, event status, contact creation, worker up to the agent | `EdgeProofs` | `ChannelIngressSafety`, `ChannelIngressLiveness` |
| `KnowledgeIngestion` | upload and its undo, reindex, claim, embedding batch by batch, persisting, errors, takeover | `KnowledgeIngestionProofs` | `KnowledgeIngestion` |
| `ToolExecutions` | one `ToolExecution`: insert or replay, approval, running, attempts, stale set-back | `ToolExecutionsProofs` | `ToolExecutions` |
| `AIGateway` | profiles, routes and attempts of overlapping calls; prices, wallet and ledger | `CallProofs` | `ToolExecutions` |
| `VoiceTranscription` | one voice message: media, upload, transcript, deletion, redelivery | `CallProofs` | `ToolExecutions` |
| `CustomerMemory` | one key of one contact: overlapping extractions and operator requests, each a load and a commit | `CallProofs` | `ToolExecutions`, `MemoryStaleWrite` |
| `Policies` | edits of the two policies and a tool rule; decisions and their traces | `CallProofs` | `ToolExecutions` |
| `PromptVersions` | drafts, publishing, agents, assignment, pinning and loading by a run | `ConsoleProofs` | `OperatorInbox` |
| `ConversationLog` | the messages and `last_message_at` of a conversation under its four kinds of writers | `ConsoleProofs` | `OperatorInbox` |
| `RowLocks` | the row locks of the transactions that meet on a conversation, in their order | `CallProofs` | `ToolExecutions` |
| `WebsiteChat` | the widget's poll and submit, the public endpoints, sessions | `EdgeProofs` | `ChannelIngressLiveness` |
| `WebsiteOrigins` | concurrent replacement of the allowed origins | `EdgeProofs` | `ChannelIngressLiveness` |
| `RateLimit` | the fixed window in Redis, the middleware without Redis | `EdgeProofs` | `ChannelIngressLiveness` |
`MC<Module>` extends each of them with the small sets a run uses. Three MC modules
put several components into one run, because each question needs only a small
instance:

| Composite | Parts |
|---|---|
| `MCToolExecutions`: what the delivery of a job calls | `ToolExecutions`, `LeaseBudget`, `AIGateway`, `VoiceTranscription`, `CustomerMemory`, `Policies`, `RowLocks` |
| `MCConsole`: what people and workers write side by side | `OperatorInbox`, `PromptVersions`, `ConversationLog` |
| `MCPublicEdge`: what the internet calls | `ChannelIngress`, `WebsiteChat`, `WebsiteOrigins`, `RateLimit` |

The parts share no row of the database, so `part`, chosen once in the initial state,
says which of them moves. No interleaving that matters is lost by this: a step
of one part neither reads nor writes the variables of another. The type invariants
of the parts are one property (`CallTypesOK`, `ConsoleTypesOK`, `EdgeTypesOK`), and the
website, its origins and the limiter are judged together (`EdgeIsSound`).

`AgentRuns` is where components really interact (worker, queue, handoff and
dispatch on the same rows), and there they are one module. `AgentRunsRefinement`
maps it to `SharedConversation`, which says what the other components may rely
on: either the AI or the operators keep a conversation, only the keeper sends,
and it changes only when no reply is on its way.

### How state and actions correspond to the code

* **One action is one transaction, one external call or one Redis command.** That is
  the grain at which processes interleave. `pc` says where a process is between two.
* **`AgentRuns`.** `status`, `text`, `lease`, `outbound` are columns of `AgentRun`;
  `live` says that `lease_until` lies ahead. A lease token is a fresh UUID per
  claim and a worker has one claim at a time, so the worker stands for the token.
  `msg` is the canonical `Message` under the key `agent:<run>`; `delivered` and
  `lost` are history: sends the provider accepted, and the ones whose transaction
  did not commit. `convLock` is the `FOR UPDATE` on the Conversation, which
  `guard_ai_dispatch` takes and `dispatch_text` commits. `entries` and `tries` are
  the stream and the attempt counter at the grain this module needs (`JobQueue` has
  the fine one). Actions carry the names of the functions.
* **`JobQueue`.** `ChannelJobQueue` and `KnowledgeJobQueue` are the same code.
  Every consumer steps through the commands: `field` (HSETNX), `count` (HINCRBY or
  HGET), `dead` (XADD to the dead letters), `work`, `xack`, `xdel`, `hdel`.
* **`LeaseBudget`.** One tick is 5 s, the interval at which the worker
  tries to reclaim; 180 s, 30 s and 60 s become 36, 6 and 12 ticks.
* **`OperatorInbox`.** A key is the handoff the request read at its start and the
  `client_message_id`; `lock` is `pg_advisory_xact_lock` on it.
* **`ChannelIngress`.** `ChannelInboundEvent.status` is read and written in
  separate statements without a lock, so reads and writes are separate actions.
* **`KnowledgeIngestion`.** `signature` is the triple provider, model, dimension;
  `chunks` lists the signature of every stored batch, `vectors` that of the batches a
  worker has in memory. `recent` says that `updated_at` is younger than
  `_PROCESSING_STALE_AFTER`. `overtaken` is history: a claim was taken over while its
  worker was at work. `dropped` records that nobody will work on the source any more.
* **`ToolExecutions`.** `arg` and `input` stand for tool, agent and arguments together,
  which is what a replay compares. The policy decision at the insert is a free choice.
  `started`, `turn`, `executed` and `effects` are history: which execution and which
  attempt reached the service, and with what. `resets` counts set-backs of a stale row.
* **`AIGateway`.** A call steps through `_execute`: profile row, routes (a second statement),
  then per attempt the balance check, the provider and the trace. `gwConf` is its
  `ResolvedTaskProfile`, `gwAt` its route and attempt. Prices are amounts that are
  already rounded up, one per model. `gwFree` and `unchecked` are history: the check passed
  because the model had no price then.
* **`CustomerMemory`.** `rows` are all rows of one dedupe key, at most one of them not deleted.
  Neither `extract_customer_memory_from_event` nor a PATCH or DELETE locks the row it loads.
  So an extraction keeps its copy (`xload`) and a request its own (`oload`, with the body in
  `opatch`) until they commit, and the UPDATE sets the columns that differ from the copy on
  whatever the row is by then (`UpdatedColumn`). One PATCH may carry value, kind, certainty
  and mark in any combination. History: `by` and `given` say who wrote the value and as what;
  `marked` is the value an operator stood for, which is the one the PATCH carried or its
  handler loaded (what the operator's screen showed, the server cannot know); `passed`
  says that a request or an extraction wrote over a row whose value, kind or mark had
  changed since it was loaded (`Overtaken`), and no operator stood for the value after that.
  A PATCH that moves an item to another key is left out.
* **`Policies`.** An edit loads its rows, flushes its first one when it selects the second and
  commits both; `Merged` is the UPDATE of the changed columns. `raced` and `history` are
  history. A worker reads policy and rule in different sessions, traces, then acts.
* **`VoiceTranscription`.** `processed` is the event, `voiceText` the message, `hasPath` and `noted`
  two fields of the attachment's metadata, which getFile's result overwrites as a whole.
* **`PromptVersions`.** `versions` are the rows in the order of their numbers; `frozen` is history,
  what each had when it was published. `lockOf` is FOR UPDATE on the prompt.
* **`ConversationLog`.** `read` is the value of `last_message_at` the session has loaded, `found` an
  inbound message that was there; the author stands for what else
  `message_identity_matches` compares. `rowHolder` is the `FOR UPDATE` of `guard_ai_dispatch`.
  `missed` and `overlapping` are history: what was committed under a writer's eyes.
* **`RowLocks`.** A transaction is the sequence of its locks; `next` is its statement. What it
  writes, and whether it finds a row, is left to the choice of the program.
* **`WebsiteChat`.** `poll` and `submit` are the two activities of the widget, at an `await` each;
  `current` is its `session`. `log` stands for the conversation, `webQueued` for the
  messages with a job. What happens between persisting and enqueueing is `ChannelIngress`.
* **`WebsiteOrigins`.** A row carries the request that inserted it, since a DELETE only sees the
  rows of its snapshot.
* **`RateLimit`.** `count` and `ttl` are the Redis key; the script is one step. `admitted` is
  history: how many requests were let through up to each second.
* **`SharedConversation`.** In `AgentRunsRefinement` the keeper is `"human"` while a handoff is
  active and `"ai"` otherwise; `msg`, `delivered` and `lost` are those of `AgentRuns`.
## 3. What each run shows

Runs that pass:

* `AgentRunsSafety`: two workers, one run, two texts, two handoffs, one resume, two
  deliveries, one fault and one lease that expires under a live worker. Two
  workers are enough for one to be stale while the other owns the run; one stall
  makes the stale one; two handoffs let one close and another open while an
  attempt is on its way; two texts tell replies apart. The same run checks
  `ImplementsSharedConversation`, the refinement.
* `AgentRunsLiveness`: every open run is answered, failed, paused, or given up for
  a reason the system records. With `MaxStalls = 0`; see section 6 for what a stall
  changes.
* `JobQueue`: two consumers, two entries, one malformed, batches of two, one
  crash. A crash between any two commands, an enqueue overtaken by its own
  delivery, and a batch whose second entry waits.
* `OperatorInbox`: an agent and a supervisor, two requests at a time and four in
  all, with one client key and two texts, one fault. In the same run
  (`MCConsole`), two editors and two workers on one prompt with two versions and one agent:
  a draft is rewritten or published while a run is pinned and generates twice; and two
  writers with three messages in a conversation, under an inbound key and a key that a
  reply and an API client share, at two times.
* `ChannelIngressSafety`: two updates of one new sender, each delivered twice by
  two concurrent requests, one fault. The first update of a sender is the case
  in which two inserts collide on the identity.
* `ChannelIngressLiveness`: one update, the same faults. One, because the bound on
  deliveries stands for a provider that goes on retrying: with a second update a
  conflict on the identity and a Redis error can use up both deliveries. In the same
  run (`MCPublicEdge`): a widget that submits one text twice over two sessions while a
  manager closes or mutes the channel; two managers who replace two origins; seven
  seconds of a limiter with two requests in three seconds, so that windows follow
  one another and a refusal is waited out.
* `KnowledgeIngestion`: two workers, two models, two batches, one reindex, one fault,
  one claim that ages under its worker. Two batches are the least in which the model can
  change in between; two workers and one stall the least in which one is overtaken.
* `ToolExecutions`: two callers, two sets of arguments, four calls, two attempts each,
  one crash, one stall. Two callers race for the insert and for the start; the later
  calls meet what these left behind. The other parts of this run:
  * the clocks of `LeaseBudget` with 9 attempts and runs of at most 60 s, where the
    queue outlasts the lease;
  * `AIGateway`: two callers with a call each, two models of which no adapter serves the
    first, a profile of two routes and two attempts, and four owner operations, enough to
    save a profile, price a model, open and credit a wallet in any order around the calls;
  * `VoiceTranscription`: two workers, two transcripts, three deliveries, two faults;
  * `CustomerMemory`: two extractors on two messages, two values, two operator requests that may
    overlap each other and the extractions, with every PATCH of value and mark together and
    the ones that correct the kind alone (`SomePayloads`). Two writers are the least in which
    one passes over the other's commit.
    The extractors are interchangeable in every definition, and so are the operators (`MemorySymmetry`);
  * `Policies`: two managers with two edits out of put policy, put handoff policy, put rule
    and delete rule, and one delivery that decides on the message, the AI and a tool;
  * `RowLocks`: three sessions with one transaction each, out of the 17. Three are the least
    in which a circle could be longer than two.
Runs that refute a statement of the documents (`PROJECT.json`, "findings"):

* `AgentRunsLeaseExclusion`: ADR-012 says the lease keeps two workers from
  generating one run. *Retry resume* resets a run that is already pending and
  leased, so a second worker claims and generates it, although no lease expired
  and nothing failed. The reply still goes out once: the idempotency key and the
  Conversation lock see to that (`DuplicatesOnlyAfterLoss`).
* `LeaseBudgetDefaults`: ADR-012 says an expired lease can be reclaimed after a
  crash. With the defaults the entry is dead-lettered after 150 s and the lease
  expires after 180 s.
* `OperatorInboxStaleClaim`: MILESTONE-11 says only the claimant may reply. The
  claim is checked before the send and not again.
* `MemoryStaleWrite`: ADR-018 says an inference is not eligible until an operator verifies
  it. One extraction and one PATCH of one item suffice against it. Both load the unmarked
  value A. If the extraction commits the inference B first, the UPDATE of
  `{value: A, verified: true}` leaves `value` out, since it equals what was loaded, and marks
  B. If the PATCH commits first, the extraction loaded no mark and so does not clear it, and B
  takes the mark over. The agent gets B as approved, for which no operator stood. What holds is
  `MemoryRespectsOperators`: this takes a writer that passed over a changed row.

`OperatorInbox`, `ChannelIngressLiveness` and `ToolExecutions` are the runs of the composites;
they keep the name of their first part.

Deadlock checking is off in the runs over bounded resources: when every entry,
handoff, reply and fault is used up, the modelled system really is at rest. The
`LeaseBudget` runs check it, since there time never ends.

### Bounds

Each bound is a CONSTANT and a guard: `MaxHandoffs`, `MaxResumes`, `MaxFaults`,
`MaxStalls` (`AgentRuns`); `MaxEntries`, `MaxCrashes` (`JobQueue`); `MaxWork`
(`LeaseBudget`); `MaxHandoffs`, `MaxReplies`, `MaxFaults` (`OperatorInbox`);
`MaxPosts`, `MaxFaults` (`ChannelIngress`); `MaxReindexes`, `MaxFaults`, `MaxStalls`
(`KnowledgeIngestion`); `MaxCalls`, `MaxFaults`, `MaxStalls` (`ToolExecutions`);
`MaxGwCalls`, `MaxEdits` (`AIGateway`); `MaxDeliveries`, `MaxVoiceFaults`
(`VoiceTranscription`); `MaxRows`, `MaxRuns`, `MaxOperations` (`CustomerMemory`);
`MaxChanges`, `MaxJobs` (`Policies`); `MaxCommits` (`RowLocks`);
`MaxAt`, `MaxMessages`, `MaxWrites` (`ConversationLog`); `MaxVersions`, `MaxRequests` (`PromptVersions`);
`MaxSessions`, `MaxTries`, `MaxSwitches` (`WebsiteChat`); `MaxPuts` (`WebsiteOrigins`);
`MaxTime`, `MaxOutages` (`RateLimit`). `MaxAttempts` and `Batch` are parameters of the
code. `deliveries` in `JobQueue` saturates one above `MaxAttempts`, the first value
at which nothing more depends on it. The theorems hold for every value of these.

### Fairness

* A worker or request that is not killed takes its next step (WF on its steps):
  every external call has a timeout and every transaction ends.
* Some worker takes up an entry that stays pending (WF on `StartEvent`, `Consume`,
  `Reclaim`, `TakeJob`): the loop of `run_worker_async` reads new entries and
  reclaims idle ones every 5 s, for as long as one worker runs.
* A lease nobody renews expires (WF on `LeaseExpires` when the holder is gone).
* The provider repeats an update until it gets a 2xx (WF on `PostUpdate`), as
  Telegram does.
* PostgreSQL grants an advisory lock in turn (SF on `ReplyStep`: a request may find
  the lock taken any number of times, not for ever).
* No operator, no fault and no handoff step is fair: people need not act.

## 4. What is proved

A theorem holds for every value of the constants that the named assumptions of
the module allow: any number of workers, requests, messages and faults, any bound.
An assumption says that a placeholder (`None`, `Absent`, `NoWriter`) is not a value, that
a bound is a natural number, or what a column can hold; TLC evaluates it in every run.
No safety property is inductive as it stands. Each proof module defines the invariant
that is, has a lemma per part or per action that a step preserves it, and derives the
properties from it.

`AgentRunsProofs` (for any workers, runs, texts and bounds; from `NoneAssumption` and
`BoundAssumption` only):

* `TypeCorrect`: `Spec => []TypeOK`.
* `Invariance`: the inductive invariant. None of the safety properties is
  inductive as it stands: that a worker may complete a run with *its* draft rests
  on what its dispatch saw. The invariant adds
  * `LockHolder`: exactly the workers at `dispatch` and `commit` hold the Conversation;
  * `NoHandoffUnderLock`: while it is held, no handoff is active;
  * `DraftInHand`: from `persist` to `complete` a worker has a reply;
  * `DispatchKnows`: at `commit` there is no Message yet, at `complete` it is the draft;
  * `SendsAccounted`: every accepted send is lost, in flight, or the Message;
  * `OutboundIsCanonical`: what a run points at is the Message.
* `LeaseAndText`, `SuccessIsBacked`, `DuplicatesBounded`: the three invariants of
  `AgentRunsSafety`.
* `HandoffSilencesAI` and `ReplyIsFinal`: its two action properties.

Each part has a lemma that every step preserves it, with one case per action.

`JobQueueProofs` (from `ConsumersAssumption`, `QueueAssumption`): `TypeCorrect`, `NothingLost`
and `BudgetKept`. Every consumer is between two Redis commands on an entry that others may
have in hand too, so the invariant says at each of them what is already in Redis:
  * `CursorFits`: where a consumer is fits its batch, and the entry it is at was appended;
  * `AckedIsSettled`: who acknowledges an entry has done or dead-lettered it;
  * `DeliveredPending` and `CountedOnce`: a pending entry was delivered, and its counter,
    with what consumers have still to add, never runs ahead of the deliveries;
  * `RejectedInTime`: who dead-letters has a malformed entry or an exhausted budget.

`KnowledgeIngestionProofs` (from `IngestionAssumption`): `TypeCorrect`, `IndexIsWhole`,
`FileIsKept` and `ReadyIsKept`. The inductive invariant adds
  * `VectorsFit`: what a worker has in memory is of one model, and complete when it persists;
  * `UploadFits`: the row exists only between insert and undo, and the file all that time;
  * `OneAtWork`: until a worker is overtaken, one works on the source at most, and the
    source is in processing then. This is what keeps a late error from hitting a ready source.

`ToolExecutionsProofs` (from `ToolAssumption`): `TypeCorrect`, `EffectsAreBounded`,
`ApprovalIsNeeded`, `RecordIsTrue` and `ResultIsFinal`. The inductive invariant adds
  * `CallersAgree`: who goes on with the row was called with what it records;
  * `ApprovalFits`: the two status columns fit, and nobody goes on while undecided or denied;
  * `StartsAccounted`: a start uses up the pending row, and only a set-back restores it;
  * `TurnsFit` and `OneAtWork`: attempts that are left, and one caller at work until a set-back.

`ConsoleProofs` (from `InboxAssumption`, `PromptAssumption`, `LogAssumption`), for the
three parts of `MCConsole` at once:
  * `OperatorInbox`: `OneCopyOfAReply`, `ConfirmedReplyStands`, `RepliesAreAudited` and
    `ClaimStays`. `LockIsHeld` (who sends or commits holds the advisory lock of its key) and
    `SendsAccounted` (a send is stored, lost, or about to be stored) carry them.
  * `PromptVersions`: `PromptsStayImmutable`. Versions only grow (`VersionsGrow`), who edits
    holds the prompt and knows its draft, and a run's pin names a version that is published.
  * `ConversationLog`: `ConversationStaysSound`. `ReadsFit`: the time a writer has
    loaded is the stored one, or another writer committed since.
  * `ConsoleTypesCorrect`, the types of all three.

`EdgeProofs` (from `IngressAssumption`, `WebAssumption`, `RateAssumption`), for the four parts of
`MCPublicEdge`:
  * `ChannelIngress`: `OneMessagePerUpdate` and `NoUpdateIsDropped`, with
    `RowsFollowEvents`, `StatusMeansQueued` and `RepliesFit` (who is about to answer 2xx has
    a job in the queue, or an event the worker ignored);
  * `WebsiteChat`: `CopiesFit` counts the copies of a text against the failures the
    visitor was told of and the submission in flight; `PollFits` and `SubmitFits` say what
    session each activity of the widget still holds after its `await`;
  * `WebsiteOrigins`: every row ever inserted belongs to one numbered request (`EverThere`);
  * `RateLimit`: in every window at most the limit was let through, counted by the
    cumulative `admitted`; the key's count is what was admitted since it was set.
  `EdgeStaysSound` states the last three.

`CallProofs` (from the assumptions of the parts), for the seven parts of `MCToolExecutions`:
  * `LeaseBudget`: `SufficientBudget`: if
    `(MaxAttempts - 1) * IdleTicks >= MaxWork + LeaseTicks`, an expired lease is reclaimed
    before its job is given up. The invariant relates the attempts so far to the time that
    has passed. The defaults do not satisfy the inequality.
  * `AIGateway`: `WalletStaysSound`. `BalanceCovers`: the overdraft is at most the highest
    price for each caller that the check has not let through, and for each debit that had
    no check. `DebitsAreOver`: a debited call is over, so it is not debited again.
  * `VoiceTranscription`: `TranscribedOnce`. Nobody was given a text before there was one.
  * `CustomerMemory`: `OperatorsPrevail`. One live row per key, and what an extraction or
    a request has loaded agrees with its row on who created it (`RequestFits` for the latter).
    A column nobody changed since the load gets the new value whether or not it is part of the
    UPDATE (`ColumnIsWritten`), so mark, kind and value stay together unless the writer
    passed over a change (`UpdatedIsRespected`, `PatchedIsRespected`).
  * `Policies`: `PolicyStaysEnforced`. `EditFits`: a row that an edit has written stays locked
    and as it is until the edit ends; `Coherent`: before the first lost race the two
    policies agree and no revision names two configurations; `JobFits`: an AI or tool
    decision is taken after the message was allowed, and traced before it takes effect.
  * `RowLocks`: `OnlyKnownDeadlocks`, for any number of sessions, where TLC covers three.
    `HeldAsListed` and `NoConflict` say who holds what. The argument (`HasKnownPair`) takes a
    deadlock without a known pair and empties it: nobody in it waits for the run, so none
    for the handoff with the conversation in hand, so none holds the conversation for an
    update, so none waits for it, and nobody is left. Two sessions that block each other
    are a deadlock of their own, so a minimal one is no larger.
  * `CallTypesCorrect`, the types of all seven, and `CallsInvariance`, which puts the parts
    together: a behaviour moves one part by its own next-state relation and leaves the others
    as they are.

`AgentRunsRefinement`: `Refinement`, every behaviour of `AgentRuns` is one of
`SharedConversation`. The argument uses the inductive invariant of `AgentRunsProofs`: a
send happens at `dispatch`, where `LockExcludes` says that no handoff is active and nobody
is between a send and its commit; a handoff changes only while the Conversation row is
free, so no reply is on its way (`KeeperChangesQuietly`); every other step changes neither.

Every invariant and every action property of a passing run is stated by a theorem.

Only model-checked: the liveness properties (`OpenRunsSettle`, `EveryEntrySettles`,
`RepliesEnd`, `ReceivedIsSettled`, `QueuedIsSettled`), since the prover does neither
fairness nor ENABLED, and the statements that the code refutes, which have a
counterexample each.

## 5. Not modelled

Prompt and context building, retrieval and parsing (data, not control), HTTP
translation in the provider adapters, CRUD endpoints under one transaction each,
analytics (read-only SQL), the web console, migrations and deployment.
`PROJECT.json` gives the reason per component. In `ChannelIngress` a policy decision
is a free choice; in `AgentRuns` the model's answer is a free choice out of `Texts`.

## 6. Observed differences kept out of the runs

Steps of the models that a reader of the documents would not expect. They follow
from the code as written; each was seen in a TLC trace of the module named.

* `AgentRuns`: `pause_for_tool_approval` looks neither at the lease nor at the
  status. A worker whose lease expired can take a succeeded run back to paused, and
  resuming it invokes the model again (MILESTONE-6:216). Nothing is sent twice:
  the second text conflicts with the stored Message and the run fails.
* `AgentRuns`: a handoff remembers one source run. A second run it pauses is never
  reset by `resume_ai` (MILESTONE-11:107).
* `AgentRuns`: after *cancel* with `resume_ai` and a Redis error, the retry the API
  asks for (`handoff.py:633`) finds no resolved handoff, and the run stays pending.
* `AgentRuns`: a terminal error of a worker that lost its lease acknowledges the
  entry although the row was not changed. If the new owner then dies, the run
  stays open without an entry, which is why `OpenRunsSettle` is checked with
  `MaxStalls = 0`.
* `JobQueue`: a reclaimed batch counts an attempt for each entry when it is
  decoded. An entry behind a slow one can use up its budget unprocessed
  (MILESTONE-15:57).
* `KnowledgeIngestion`: taking over a source that has been processing for 15 minutes
  changes no column, so `updated_at` stays old and a third worker may take it over at
  once (`knowledge_runtime.py:110`). The overtaken worker finds the source ready, reports
  `knowledge_source_state_changed` and so sets it back to queued; with the entry
  acknowledged by the other worker nobody takes it up again. `ReadyUntilReindexed` and
  `QueuedIsSettled` except this case by `overtaken`.
* `KnowledgeIngestion`: after a crash the source stays in processing for 15 minutes, but
  its entry is dead-lettered within five deliveries 60 s apart. Reindex answers 409 for
  a source in processing, so it stays that way.
* `ToolExecutions`: two callers may both have read a running execution as stale. The
  first sets it back, runs it and stores the result; the second sets the succeeded
  execution back and runs it again, although MILESTONE-8:202 says a succeeded
  execution is not called again. `EffectsBounded` counts both set-backs.
* `CustomerMemory`: two extractions that overlap can turn an inference into a fact without
  an operator: both load the inference A, one commits the fact B, and the other one, which
  brings the inference C, leaves the kind out of its UPDATE, since it equals what was loaded:
  C is stored as a fact. MILESTONE-12:168 says an unverified inference is never silently
  promoted. `MemoryRespectsOperators` excepts it by `passed`.
* `CustomerMemory`: an operator who creates the item while an extraction is under way makes
  the extraction drop every candidate of its message and no marker is written
  (`memory_runtime.py:404` takes each IntegrityError for a lost race on the marker).
* `ConversationLog`: a request that loses the race for its key fails instead of returning the
  winner's message: after the rollback `context.tenant` is expired, and reading it needs a
  query outside of the async context (`conversations.py:471`). The repetition succeeds.
* `WebsiteChat`: MILESTONE-7:41 says the browser supplies a `client_message_id` for
  retry-safe idempotency. The widget draws a new one for each submission
  (`widget.js:174`), so a text that is submitted again after a lost answer is stored twice.
  The visitor was asked to try again for every copy but one (`CopiesFollowFailures`).
* `RowLocks`: six pairs of transactions can deadlock (`KnownPairs`). One of the two is
  aborted with a database error, which the modules that write see as a fault.
* `ChannelIngress`: `mark_event_enqueued` writes what it read; an event the worker
  ignored in between becomes `enqueued` again.

## 7. Plan

In this order; a component's module comes with its MC module, run, mutants and map.

1. `Accounts`: login against deactivation of users and businesses, the first owner.
2. The whole of `process_job` as one composition, over the modules of its steps.
3. `OperatorInbox` against `SharedConversation`: the operators as the other keeper.
4. Proofs: that the operators of `OperatorInbox` implement the other keeper of
   `SharedConversation`, once it is stated (3). The safety properties of the present runs
   are all proved.
