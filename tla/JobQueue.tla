------------------------------- MODULE JobQueue -------------------------------
(***************************************************************************)
(* The Redis Streams job queue: one stream, one consumer group, a hash of  *)
(* delivery attempts and a dead-letter stream, and the consumers that read *)
(* it.  Each Redis command is atomic; the methods of ChannelJobQueue are   *)
(* several commands, and producers, consumers and crashes interleave       *)
(* between any two of them.                                                *)
(*                                                                         *)
(* Source: channel_queue.py (knowledge_queue.py is the same code with      *)
(* other stream names) and the loop of worker.run_worker_async.            *)
(***************************************************************************)
EXTENDS Naturals, FiniteSets, FiniteSetsExt

CONSTANTS
    Consumers,    \* worker processes, each with a consumer name
    MaxEntries,   \* bound: entries ever appended to the stream
    Malformed,    \* ids of entries with a wrong job_type or event_id
    Batch,        \* COUNT of XREADGROUP and XAUTOCLAIM
    MaxAttempts,  \* worker_max_delivery_attempts
    MaxCrashes,   \* bound: consumers killed, stopped or cut off from Redis
    None          \* no consumer

ASSUME ConsumersAssumption == None \notin Consumers
ASSUME QueueAssumption ==
    /\ MaxEntries \in Nat
    /\ Malformed \subseteq 1..MaxEntries
    /\ Batch \in Nat \ {0}
    /\ MaxAttempts \in Nat \ {0}
    /\ MaxCrashes \in Nat

VARIABLES
    last,       \* last id XADD gave out; ids grow
    stream,     \* ids in the stream
    read,       \* the group's last-delivered id
    owner,      \* pending entries list: the consumer an id is delivered to
    attempts,   \* CHANNEL_JOB_ATTEMPT_HASH; 0 = no field
    dlq,        \* ids with a dead-letter record
    unset,      \* ids whose producer has done XADD but not yet HSET
    pc, cur,    \* each consumer's next command, and the id it is about
    batch,      \* ids it has yet to decode
    again,      \* the batch came from XAUTOCLAIM; FALSE outside a batch
    jobs,       \* decoded jobs it has yet to process
    done,       \* ids whose processing ended with a decision to acknowledge
    deliveries, \* XREADGROUP and XAUTOCLAIM deliveries of each id, up to one
                \* more than MaxAttempts
    crashes

streamVars   == <<last, stream, read, owner>>
consumerVars == <<pc, cur, batch, again, jobs>>
historyVars  == <<done, deliveries>>
vars == <<streamVars, attempts, dlq, unset, consumerVars, historyVars, crashes>>

Ids == 1..MaxEntries
Pending == {id \in Ids : owner[id] # None}
Pcs == {"idle", "field", "count", "dead", "work", "xack", "xdel", "hdel"}

TypeOK ==
    /\ last \in 0..MaxEntries
    /\ stream \subseteq 1..last
    /\ read \in 0..last
    /\ owner \in [Ids -> Consumers \cup {None}]
    /\ Pending \subseteq 1..read
    /\ attempts \in [Ids -> Nat]
    /\ dlq \subseteq Ids
    /\ unset \subseteq 1..last
    /\ pc \in [Consumers -> Pcs]
    /\ cur \in [Consumers -> 0..last]
    /\ batch \in [Consumers -> SUBSET Ids]
    /\ again \in [Consumers -> BOOLEAN]
    /\ jobs \in [Consumers -> SUBSET Ids]
    /\ done \subseteq Ids
    /\ deliveries \in [Ids -> 0..(MaxAttempts + 1)]
    /\ crashes \in 0..MaxCrashes

Init ==
    /\ last = 0
    /\ stream = {}
    /\ read = 0
    /\ owner = [id \in Ids |-> None]
    /\ attempts = [id \in Ids |-> 0]
    /\ dlq = {}
    /\ unset = {}
    /\ pc = [c \in Consumers |-> "idle"]
    /\ cur = [c \in Consumers |-> 0]
    /\ batch = [c \in Consumers |-> {}]
    /\ again = [c \in Consumers |-> FALSE]
    /\ jobs = [c \in Consumers |-> {}]
    /\ done = {}
    /\ deliveries = [id \in Ids |-> 0]
    /\ crashes = 0

-----------------------------------------------------------------------------
(* The producer: the webhook, or the API resuming an agent run.             *)

\* enqueue, first command: XADD.
Append ==
    /\ last < MaxEntries
    /\ last' = last + 1
    /\ stream' = stream \cup {last + 1}
    /\ unset' = unset \cup {last + 1}
    /\ UNCHANGED <<read, owner, attempts, dlq, consumerVars, historyVars, crashes>>

\* enqueue, second command: HSET attempt 1, whatever the field is by now.
SetFirstAttempt(id) ==
    /\ id \in unset
    /\ unset' = unset \ {id}
    /\ attempts' = [attempts EXCEPT ![id] = 1]
    /\ UNCHANGED <<streamVars, dlq, consumerVars, historyVars, crashes>>

\* The producer died in between: the field stays for HSETNX.
ProducerDies(id) ==
    /\ id \in unset
    /\ crashes < MaxCrashes
    /\ crashes' = crashes + 1
    /\ unset' = unset \ {id}
    /\ UNCHANGED <<streamVars, attempts, dlq, consumerVars, historyVars>>

-----------------------------------------------------------------------------
(* Delivery.                                                                *)

\* The first entries of a set of ids, as many as COUNT allows.
FirstOf(S) == {id \in S : Cardinality({i \in S : i < id}) < Batch}

\* A batch is decoded from its first entry, one Redis command at a time.
Decode(c, ids, reclaimed) ==
    /\ batch' = [batch EXCEPT ![c] = ids]
    /\ again' = [again EXCEPT ![c] = reclaimed]
    /\ cur' = [cur EXCEPT ![c] = Min(ids)]
    /\ pc' = [pc EXCEPT ![c] = "field"]
    /\ owner' = [id \in Ids |-> IF id \in ids THEN c ELSE owner[id]]
    /\ deliveries' = [id \in Ids |-> IF id \in ids /\ deliveries[id] <= MaxAttempts
                                    THEN deliveries[id] + 1 ELSE deliveries[id]]

\* Mutant: the group's last-delivered id is not advanced.
ConsumeWithoutAdvance(c) ==
    LET new == {id \in stream : id > read} IN
    /\ pc[c] = "idle"
    /\ new # {}
    /\ Decode(c, FirstOf(new), FALSE)
    /\ UNCHANGED <<last, stream, read, attempts, dlq, unset, jobs, done, crashes>>

\* consume: XREADGROUP > delivers entries no consumer was given before.
Consume(c) ==
    LET new == {id \in stream : id > read} IN
    /\ pc[c] = "idle"
    /\ new # {}
    /\ read' = Max(FirstOf(new))
    /\ Decode(c, FirstOf(new), FALSE)
    /\ UNCHANGED <<last, stream, attempts, dlq, unset, jobs, done, crashes>>

\* reclaim: XAUTOCLAIM hands over entries that were idle for claim_idle_ms.
\* idle is any set of pending ones: a slow consumer may well work on them.
Reclaim(c, idle) ==
    /\ pc[c] = "idle"
    /\ idle # {}
    /\ idle \subseteq Pending \cap stream
    /\ Cardinality(idle) <= Batch
    /\ Decode(c, idle, TRUE)
    /\ UNCHANGED <<last, stream, read, attempts, dlq, unset, jobs, done, crashes>>

-----------------------------------------------------------------------------
(* _decode_entries and the processing loop.                                 *)

\* Where consumer c goes when it is through with an entry: the next one of
\* the batch, then the decoded jobs one by one, then the loop again.
Proceed(c, rest, ready) ==
    /\ batch' = [batch EXCEPT ![c] = rest]
    /\ jobs' = [jobs EXCEPT ![c] = ready]
    /\ again' = [again EXCEPT ![c] = @ /\ rest # {}]
    /\ \/ /\ rest # {}
          /\ pc' = [pc EXCEPT ![c] = "field"]
          /\ cur' = [cur EXCEPT ![c] = Min(rest)]
       \/ /\ rest = {}
          /\ ready # {}
          /\ pc' = [pc EXCEPT ![c] = "work"]
          /\ cur' = [cur EXCEPT ![c] = Min(ready)]
       \/ /\ rest = {}
          /\ ready = {}
          /\ pc' = [pc EXCEPT ![c] = "idle"]
          /\ cur' = [cur EXCEPT ![c] = 0]

\* _attempt, first command: HSETNX attempt 1.
EnsureAttempt(c) ==
    /\ pc[c] = "field"
    /\ attempts' = [attempts EXCEPT ![cur[c]] = IF @ = 0 THEN 1 ELSE @]
    /\ pc' = [pc EXCEPT ![c] = "count"]
    /\ UNCHANGED <<streamVars, dlq, unset, cur, batch, again, jobs, historyVars, crashes>>

\* Mutant: a reclaimed delivery does not count.
ReadAttemptOnly(c) ==
    /\ pc[c] = "count"
    /\ Proceed(c, batch[c] \ {cur[c]}, jobs[c] \cup {cur[c]})
    /\ UNCHANGED <<streamVars, attempts, dlq, unset, historyVars, crashes>>

\* Mutant: the last permitted attempt is dead-lettered.
CountAttemptStrictly(c) ==
    LET id == cur[c]
        value == IF again[c] THEN attempts[id] + 1 ELSE 1 IN
    /\ pc[c] = "count"
    /\ attempts' = [attempts EXCEPT ![id] = value]
    /\ \/ /\ value >= MaxAttempts
          /\ pc' = [pc EXCEPT ![c] = "dead"]
          /\ UNCHANGED <<batch, jobs, cur, again>>
       \/ /\ value < MaxAttempts
          /\ Proceed(c, batch[c] \ {id}, jobs[c] \cup {id})
    /\ UNCHANGED <<streamVars, dlq, unset, historyVars, crashes>>

\* _attempt, second command: HINCRBY after a reclaim, else HGET (a missing
\* field reads as 1).  The entry is then dead-lettered or becomes a job.
CountAttempt(c) ==
    LET id == cur[c]
        value == IF again[c] THEN attempts[id] + 1
                 ELSE IF attempts[id] = 0 THEN 1 ELSE attempts[id]
        reject == id \in Malformed \/ value > MaxAttempts IN
    /\ pc[c] = "count"
    /\ attempts' = [attempts EXCEPT ![id] = IF again[c] THEN value ELSE @]
    /\ \/ /\ reject
          /\ pc' = [pc EXCEPT ![c] = "dead"]
          /\ UNCHANGED <<batch, jobs, cur, again>>
       \/ /\ ~reject
          /\ Proceed(c, batch[c] \ {id}, jobs[c] \cup {id})
    /\ UNCHANGED <<streamVars, dlq, unset, historyVars, crashes>>

\* Mutant: the entry is acknowledged without a dead-letter record.
DropDeadLetter(c) ==
    /\ pc[c] = "dead"
    /\ pc' = [pc EXCEPT ![c] = "xack"]
    /\ UNCHANGED <<streamVars, attempts, dlq, unset, cur, batch, again, jobs,
                   historyVars, crashes>>

\* _dead_letter: XADD to the dead-letter stream, then acknowledge.
DeadLetter(c) ==
    /\ pc[c] = "dead"
    /\ dlq' = dlq \cup {cur[c]}
    /\ pc' = [pc EXCEPT ![c] = "xack"]
    /\ UNCHANGED <<streamVars, attempts, unset, cur, batch, again, jobs,
                   historyVars, crashes>>

\* process_job ends: with acknowledge, or (retryable) leaving the entry
\* pending.
ProcessJob(c, success) ==
    LET id == cur[c] IN
    /\ pc[c] = "work"
    /\ \/ /\ success
          /\ done' = done \cup {id}
          /\ pc' = [pc EXCEPT ![c] = "xack"]
          /\ UNCHANGED <<cur, batch, jobs, again>>
       \/ /\ ~success
          /\ Proceed(c, {}, jobs[c] \ {id})
          /\ UNCHANGED done
    /\ UNCHANGED <<streamVars, attempts, dlq, unset, deliveries, crashes>>

\* acknowledge: XACK, XDEL, HDEL, and on to the next entry.
AckPending(c) ==
    /\ pc[c] = "xack"
    /\ owner' = [owner EXCEPT ![cur[c]] = None]
    /\ pc' = [pc EXCEPT ![c] = "xdel"]
    /\ UNCHANGED <<last, stream, read, attempts, dlq, unset, cur, batch, again,
                   jobs, historyVars, crashes>>

DeleteEntry(c) ==
    /\ pc[c] = "xdel"
    /\ stream' = stream \ {cur[c]}
    /\ pc' = [pc EXCEPT ![c] = "hdel"]
    /\ UNCHANGED <<last, read, owner, attempts, dlq, unset, cur, batch, again,
                   jobs, historyVars, crashes>>

DeleteAttempts(c) ==
    /\ pc[c] = "hdel"
    /\ attempts' = [attempts EXCEPT ![cur[c]] = 0]
    /\ Proceed(c, batch[c] \ {cur[c]}, jobs[c] \ {cur[c]})
    /\ UNCHANGED <<streamVars, dlq, unset, historyVars, crashes>>

\* The worker is killed, told to stop, or loses Redis: what it had decoded
\* stays pending under its name.
Crash(c) ==
    /\ pc[c] # "idle"
    /\ crashes < MaxCrashes
    /\ crashes' = crashes + 1
    /\ pc' = [pc EXCEPT ![c] = "idle"]
    /\ cur' = [cur EXCEPT ![c] = 0]
    /\ batch' = [batch EXCEPT ![c] = {}]
    /\ again' = [again EXCEPT ![c] = FALSE]
    /\ jobs' = [jobs EXCEPT ![c] = {}]
    /\ UNCHANGED <<streamVars, attempts, dlq, unset, historyVars>>

-----------------------------------------------------------------------------
ConsumerStep(c) ==
    \/ EnsureAttempt(c)
    \/ CountAttempt(c)
    \/ DeadLetter(c)
    \/ \E success \in BOOLEAN : ProcessJob(c, success)
    \/ AckPending(c)
    \/ DeleteEntry(c)
    \/ DeleteAttempts(c)

Next ==
    \/ Append
    \/ \E id \in Ids : SetFirstAttempt(id) \/ ProducerDies(id)
    \/ \E c \in Consumers :
          \/ Consume(c)
          \/ \E idle \in SUBSET Ids : Reclaim(c, idle)
          \/ ConsumerStep(c)
          \/ Crash(c)

Spec == Init /\ [][Next]_vars

\* A consumer that is not killed goes on; the loop reads new entries, and
\* every _RECLAIM_INTERVAL_SECONDS takes over what has been idle for long.
Fairness ==
    /\ \A id \in Ids : WF_vars(SetFirstAttempt(id))
    /\ \A c \in Consumers : WF_vars(ConsumerStep(c))
    /\ WF_vars(\E c \in Consumers : Consume(c))
    /\ \A id \in Ids :
          WF_vars(\E c \in Consumers, idle \in SUBSET Ids : id \in idle /\ Reclaim(c, idle))

FairSpec == Spec /\ Fairness

-----------------------------------------------------------------------------
(* Properties.                                                              *)

\* At-least-once delivery: an entry stays where some consumer will find it,
\* new or pending, until its processing was decided or a dead-letter record
\* exists, whichever commands a crash separates.
NoEntryLost ==
    \A id \in 1..last :
        \/ id \in stream /\ (id > read \/ id \in Pending)
        \/ id \in done
        \/ id \in dlq

\* No well-formed entry is dead-lettered before its budget is used up: that
\* takes more than MaxAttempts deliveries, whatever the counter went through.
BudgetIsNotCutShort ==
    \A id \in Ids \ Malformed : id \in dlq => deliveries[id] > MaxAttempts

\* "Retryable Redis Stream jobs have a finite delivery budget" and malformed
\* entries do not stay pending (MILESTONE-15): every entry leaves the pending
\* list for good, even if processing never succeeds.
EveryEntrySettles ==
    \A id \in Ids : id \in stream ~> [](id <= read /\ id \notin Pending)

=============================================================================
