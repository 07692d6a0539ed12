--------------------------- MODULE ConversationLog ----------------------------
(***************************************************************************)
(* One conversation and its four kinds of writers: API clients that record *)
(* messages, the ingress of the channel, the worker that sends the answer  *)
(* of the agent, and people who reply.  Each reads last_message_at when it *)
(* begins and writes it back when it commits.                              *)
(*                                                                         *)
(* Source: create_message of conversations.py; _persist_inbound_event_once *)
(* and dispatch_text of channel_runtime.py; guard_ai_dispatch of           *)
(* handoff_runtime.py; send_channel_text of channels.py.                   *)
(*                                                                         *)
(* Times are small numbers, 0 is none.  What the handlers compare to tell  *)
(* two messages apart beside the text is abstracted to the author.         *)
(***************************************************************************)
EXTENDS Naturals, Sequences, FiniteSets

CONSTANTS
    Writers,       \* requests and deliveries handled at a time
    ApiKeys,       \* idempotency keys of API clients, free to be any
    ApiAuthors,    \* authors API clients give their messages
    InboundKeys,   \* keys made of channel and provider message; nobody else's
    DispatchKeys,  \* keys of replies
    SentAt,        \* provider time of the message of each inbound key
    Wordings,      \* message texts
    Keyless,       \* an API message without a key
    NoWriter,
    MaxAt,         \* bound: times
    MaxMessages,   \* bound: Message rows
    MaxWrites      \* bound: requests

ASSUME LogAssumption ==
    /\ Keyless \notin ApiKeys \cup InboundKeys \cup DispatchKeys
    /\ NoWriter \notin Writers
    /\ InboundKeys \cap (ApiKeys \cup DispatchKeys) = {}
    /\ ApiAuthors \subseteq {"customer", "human", "ai"}
    /\ MaxAt \in Nat /\ MaxMessages \in Nat /\ MaxWrites \in Nat
    /\ SentAt \in [InboundKeys -> 1..MaxAt]

VARIABLES
    log,           \* Message rows in the order of their commits
    lastAt,        \* Conversation.last_message_at
    rowHolder,     \* writer that holds the Conversation row FOR UPDATE
    writer,        \* what each writer is doing, and its last answer
    overlapping,   \* messages committed, or whose time was written, between the
                   \* read and the commit of a writer, and the messages of such
                   \* writers
    writes

logVars == <<log, lastAt, rowHolder, writer, overlapping, writes>>

LogAuthors == {"customer", "human", "ai"}
\* The time of a reply is the time it is sent.
ApiWrites   == [kind : {"api"}, key : ApiKeys \cup {Keyless}, author : ApiAuthors,
                words : Wordings, at : 1..MaxAt]
Inbound     == {[kind |-> "inbound", key |-> k, author |-> "customer",
                 words |-> t, at |-> SentAt[k]] : k \in InboundKeys, t \in Wordings}
Replies     == [kind : {"reply"}, key : DispatchKeys, author : {"human", "ai"},
                words : Wordings, at : {0}]
LogRequests == ApiWrites \cup Inbound \cup Replies

AMessage(r)  == [via |-> r.kind, key |-> r.key, author |-> r.author, words |-> r.words,
                 at |-> r.at]
Stored(key)  == {i \in 1..Len(log) : key # Keyless /\ log[i].key = key}
WriterSteps  == {"idle", "lookup", "send", "insert"}
LogIndices   == 1..MaxMessages

LogTypeOK ==
    /\ log \in Seq([via : {"api", "inbound", "reply"}, author : LogAuthors,
                    key : ApiKeys \cup InboundKeys \cup DispatchKeys \cup {Keyless},
                    words : Wordings, at : 1..MaxAt])
    /\ Len(log) <= MaxMessages
    /\ lastAt \in 0..MaxAt
    /\ rowHolder \in Writers \cup {NoWriter}
    /\ \A w \in Writers :
           /\ writer[w].step \in WriterSteps
           /\ writer[w].read \in 0..MaxAt
           /\ writer[w].missed \subseteq LogIndices
           /\ writer[w].answer \in LogIndices \cup {0}
    /\ rowHolder # NoWriter =>
           writer[rowHolder].step # "idle" /\ writer[rowHolder].request.author = "ai"
    /\ overlapping \subseteq LogIndices

NoRequest    == [kind |-> "none"]
AtRest(r, i) == [step |-> "idle", request |-> r, read |-> 0, missed |-> {}, found |-> 0,
                 answer |-> i]

LogInit ==
    /\ log = <<>> /\ lastAt = 0 /\ rowHolder = NoWriter
    /\ writer = [w \in Writers |-> AtRest(NoRequest, 0)]
    /\ overlapping = {} /\ writes = 0

Busy(w) == writer[w].step # "idle"
\* The writer leaves with message i, or with none, and lets go of the row.
LeaveWith(w, i) ==
    /\ writer' = [writer EXCEPT ![w] = AtRest(IF i = 0 THEN NoRequest ELSE @.request, i)]
    /\ rowHolder' = IF rowHolder = w THEN NoWriter ELSE rowHolder

-----------------------------------------------------------------------------

\* Every writer loads the conversation first; the worker, guarding the answer
\* against a handoff, holds its row until the end.
LoadConversation(w, r) ==
    /\ ~Busy(w) /\ writes < MaxWrites
    /\ IF r.author = "ai" /\ r.kind = "reply"
       THEN rowHolder = NoWriter /\ rowHolder' = w
       ELSE UNCHANGED rowHolder
    /\ writer' = [writer EXCEPT ![w] = [AtRest(r, 0) EXCEPT !.step = "lookup",
                                                            !.read = lastAt]]
    /\ writes' = writes + 1
    /\ UNCHANGED <<log, lastAt, overlapping>>

\* message_identity_matches leaves the text out, _outbound_message_matches asks
\* for the text and for the channel the reply was sent through.
Matches(i, r) ==
    /\ log[i].author = r.author
    /\ r.kind = "reply" => log[i].words = r.words /\ log[i].via = "reply"

Reuse(w, i) == LeaveWith(w, IF Matches(i, writer[w].request) THEN i ELSE 0)

\* pg_advisory_xact_lock, held from the look-up of a reply to its end.
Dispatching(key) ==
    \E v \in Writers : writer[v].step \in {"send", "insert"}
                       /\ writer[v].request.kind = "reply" /\ writer[v].request.key = key

LookUp(w) ==
    LET r == writer[w].request
        continue(i) ==
            /\ writer' = [writer EXCEPT
                              ![w].step = IF r.kind = "reply" THEN "send" ELSE "insert",
                              ![w].found = i]
            /\ UNCHANGED rowHolder
    IN  /\ writer[w].step = "lookup"
        /\ r.kind = "reply" => ~Dispatching(r.key)
        /\ \/ Stored(r.key) = {} /\ continue(0)
           \/ \E i \in Stored(r.key) :
                  IF r.kind = "inbound" THEN continue(i) ELSE Reuse(w, i)
        /\ UNCHANGED <<log, lastAt, overlapping, writes>>

\* The channel takes the reply and says when.
SendReply(w) ==
    /\ writer[w].step = "send"
    /\ \E t \in 1..MaxAt :
           writer' = [writer EXCEPT ![w].step = "insert", ![w].request.at = t]
    /\ UNCHANGED <<log, lastAt, rowHolder, overlapping, writes>>

\* Mutant: the time is written whether newer or not.
AdvancesAlways(w) == TRUE

Advances(w) == writer[w].request.at > writer[w].read

\* The foreign key of a new Message and the update of the Conversation need a
\* row nobody else holds.
RowIsFree(w) ==
    \/ rowHolder \in {NoWriter, w}
    \/ writer[w].found # 0 /\ ~Advances(w)

\* The message, unless an inbound one is there, and the time in one commit.
CommitWrite(w) ==
    LET r   == writer[w].request
        new == writer[w].found = 0
        i   == IF new THEN Len(log) + 1 ELSE writer[w].found
        seen(v) == IF (new \/ Advances(w)) /\ v # w /\ Busy(v)
                   THEN [writer[v] EXCEPT !.missed = @ \cup {i}] ELSE writer[v]
    IN  /\ writer[w].step = "insert" /\ RowIsFree(w)
        /\ new => Stored(r.key) = {} /\ Len(log) < MaxMessages
        /\ log' = IF new THEN Append(log, AMessage(r)) ELSE log
        /\ lastAt' = IF Advances(w) THEN r.at ELSE lastAt
        /\ overlapping' = overlapping \cup
               IF writer[w].missed = {} THEN {} ELSE writer[w].missed \cup {i}
        /\ writer' = [v \in Writers |-> IF v = w THEN AtRest(r, i) ELSE seen(v)]
        /\ rowHolder' = IF rowHolder = w THEN NoWriter ELSE rowHolder
        /\ UNCHANGED writes

\* The key is unique.  A reply reads the winner; the other two fail on a row
\* their rollback has expired, and their caller has to come back.
LoseTheKey(w) ==
    LET r == writer[w].request
    IN  /\ writer[w].step = "insert" /\ RowIsFree(w)
        /\ writer[w].found = 0
        /\ \E i \in Stored(r.key) :
               IF r.kind = "reply" THEN Reuse(w, i) ELSE LeaveWith(w, 0)
        /\ UNCHANGED <<log, lastAt, overlapping, writes>>

\* The channel refuses, a deadlock is broken, the process dies.
WriteFails(w) ==
    /\ Busy(w)
    /\ LeaveWith(w, 0)
    /\ UNCHANGED <<log, lastAt, overlapping, writes>>

LogNext == \E w \in Writers :
    \/ \E r \in LogRequests : LoadConversation(w, r)
    \/ LookUp(w) \/ SendReply(w) \/ CommitWrite(w) \/ LoseTheKey(w) \/ WriteFails(w)

-----------------------------------------------------------------------------

OneMessagePerKey ==
    \A i, j \in 1..Len(log) : log[i].key = log[j].key /\ i # j => log[i].key = Keyless

\* Whoever is answered with a message asked for it: with this key and author,
\* and, when it is a reply, with this text through the channel.
AnswersAreTheirOwn ==
    \A w \in Writers :
        LET i == writer[w].answer
            r == writer[w].request
        IN  i # 0 => /\ log[i].key = r.key /\ log[i].author = r.author
                     /\ r.kind = "reply" => log[i].words = r.words /\ log[i].via = "reply"

\* last_message_at is the time of a message, and a newer message is there only
\* when it overlapped with another: one of the two had read the column before
\* the other wrote it.
LastMessageIsNewest ==
    /\ lastAt # 0 => \E i \in 1..Len(log) : log[i].at = lastAt
    /\ \A i \in 1..Len(log) : log[i].at <= lastAt \/ i \in overlapping

\* Retries of four kinds of writers share one log: a key is one message, an answer
\* is the message that was asked for, and the time of the conversation is behind
\* only where writers overlapped (create_message, dispatch_text,
\* _persist_inbound_event_once).
ConversationIsSound == OneMessagePerKey /\ AnswersAreTheirOwn /\ LastMessageIsNewest
=============================================================================
