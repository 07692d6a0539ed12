---------------------------- MODULE OperatorInbox -----------------------------
(***************************************************************************)
(* The operator inbox of one conversation: operators request, claim,       *)
(* release and resolve handoffs, and send human replies through the same   *)
(* dispatch_text as the agent.  A transition is one row-locked             *)
(* transaction; a reply is several steps, the first of which checks the    *)
(* claim without a lock.                                                   *)
(*                                                                         *)
(* Source: handoff.py (the endpoints), handoff_runtime.py (the             *)
(* transitions), channel_runtime.py (dispatch_text).                       *)
(***************************************************************************)
EXTENDS Naturals, FiniteSets

CONSTANTS
    Operators,    \* users with an operator role
    Overriders,   \* of these, the ones in OverrideRoles
    Keys,         \* client_message_id of a reply
    Texts,        \* what an operator may write
    Requests,     \* HTTP reply requests in flight at the same time
    None,         \* SQL NULL
    MaxHandoffs,  \* bound: handoff rows of the conversation
    MaxReplies,   \* bound: reply requests ever made
    MaxFaults     \* bound: requests that die, sends that time out

ASSUME InboxAssumption ==
    /\ Overriders \subseteq Operators
    /\ None \notin Operators \cup Texts \cup Requests
    /\ MaxHandoffs \in Nat
    /\ MaxReplies \in Nat
    /\ MaxFaults \in Nat

VARIABLES
    hstatus,    \* ConversationHandoff.status
    claimant,   \* claimed_by_user_id
    hcount,     \* rows created so far
    pc,         \* where each reply request is in send_operator_reply
    by, body,   \* its operator and text
    at,         \* its idempotency key: <<handoff read at the start, client key>>
    lock,       \* holder of pg_advisory_xact_lock on a key
    msg,        \* text of the canonical Message with a key
    delivered,  \* sends of a key the channel accepted
    lost,       \* of these, the ones whose transaction never committed
    audits,     \* handoff.operator_reply audit rows of a key
    dead,       \* requests about a key that died before their audit row
    confirmed,  \* <<key, text>> of requests answered with 200
    replies,    \* reply requests so far
    faults

handoffVars == <<hstatus, claimant, hcount>>
requestVars == <<pc, by, body, at>>
messageVars == <<msg, delivered, lost>>
auditVars   == <<audits, dead, confirmed>>
vars == <<handoffVars, requestVars, lock, messageVars, auditVars, replies, faults>>

Handoffs  == 1..MaxHandoffs
ReplyKeys == Handoffs \X Keys
Active    == {h \in Handoffs : hstatus[h] \in {"queued", "claimed"}}
Pcs       == {"idle", "lock", "send", "commit", "audit"}

TypeOK ==
    /\ hstatus \in [Handoffs -> {"none", "queued", "claimed", "resolved", "cancelled"}]
    /\ claimant \in [Handoffs -> Operators \cup {None}]
    /\ hcount \in 0..MaxHandoffs
    /\ pc \in [Requests -> Pcs]
    /\ by \in [Requests -> Operators \cup {None}]
    /\ body \in [Requests -> Texts \cup {None}]
    /\ at \in [Requests -> ReplyKeys \cup {None}]
    /\ \A q \in Requests : pc[q] # "idle" => at[q] \in ReplyKeys /\ body[q] \in Texts
    /\ lock \in [ReplyKeys -> Requests \cup {None}]
    /\ msg \in [ReplyKeys -> Texts \cup {None}]
    /\ delivered \in [ReplyKeys -> Nat]
    /\ lost \in [ReplyKeys -> Nat]
    /\ audits \in [ReplyKeys -> Nat]
    /\ dead \in [ReplyKeys -> Nat]
    /\ confirmed \subseteq ReplyKeys \X Texts
    /\ replies \in 0..MaxReplies
    /\ faults \in 0..MaxFaults

Init ==
    /\ hstatus = [h \in Handoffs |-> "none"]
    /\ claimant = [h \in Handoffs |-> None]
    /\ hcount = 0
    /\ pc = [q \in Requests |-> "idle"]
    /\ by = [q \in Requests |-> None]
    /\ body = [q \in Requests |-> None]
    /\ at = [q \in Requests |-> None]
    /\ lock = [k \in ReplyKeys |-> None]
    /\ msg = [k \in ReplyKeys |-> None]
    /\ delivered = [k \in ReplyKeys |-> 0]
    /\ lost = [k \in ReplyKeys |-> 0]
    /\ audits = [k \in ReplyKeys |-> 0]
    /\ dead = [k \in ReplyKeys |-> 0]
    /\ confirmed = {}
    /\ replies = 0
    /\ faults = 0

-----------------------------------------------------------------------------
(* Transitions of the handoff row.                                          *)

\* request_handoff; an active handoff is returned as it is.
RequestHandoff ==
    /\ Active = {}
    /\ hcount < MaxHandoffs
    /\ hcount' = hcount + 1
    /\ hstatus' = [hstatus EXCEPT ![hcount + 1] = "queued"]
    /\ UNCHANGED <<claimant, requestVars, lock, messageVars, auditVars, replies, faults>>

\* Mutant: the status of the locked row is not checked.
ClaimWithoutCheck(o) ==
    \E h \in Active :
        /\ hstatus' = [hstatus EXCEPT ![h] = "claimed"]
        /\ claimant' = [claimant EXCEPT ![h] = o]
        /\ UNCHANGED <<hcount, requestVars, lock, messageVars, auditVars, replies, faults>>

\* claim_handoff succeeds from queued only (and is repeated by the claimant
\* without effect).
ClaimHandoff(o) ==
    \E h \in Handoffs :
        /\ hstatus[h] = "queued"
        /\ hstatus' = [hstatus EXCEPT ![h] = "claimed"]
        /\ claimant' = [claimant EXCEPT ![h] = o]
        /\ UNCHANGED <<hcount, requestVars, lock, messageVars, auditVars, replies, faults>>

Owns(o, h) == claimant[h] = o \/ o \in Overriders

ReleaseHandoff(o) ==
    \E h \in Handoffs :
        /\ hstatus[h] = "claimed"
        /\ Owns(o, h)
        /\ hstatus' = [hstatus EXCEPT ![h] = "queued"]
        /\ claimant' = [claimant EXCEPT ![h] = None]
        /\ UNCHANGED <<hcount, requestVars, lock, messageVars, auditVars, replies, faults>>

\* resolve_handoff with an active handoff: a claimed one by its owner, a
\* queued one by any operator.
ResolveHandoff(o, cancel) ==
    \E h \in Active :
        /\ hstatus[h] = "claimed" => Owns(o, h)
        /\ hstatus' = [hstatus EXCEPT ![h] = IF cancel THEN "cancelled" ELSE "resolved"]
        /\ UNCHANGED <<claimant, hcount, requestVars, lock, messageVars, auditVars, replies, faults>>

-----------------------------------------------------------------------------
(* send_operator_reply.                                                     *)

\* Mutant: the reply starts without its idempotency key.
StartWithoutKey(q, o, key, t) ==
    /\ pc[q] = "idle"
    /\ replies < MaxReplies
    /\ replies' = replies + 1
    /\ \E h \in Handoffs : hstatus[h] = "claimed" /\ Owns(o, h)
    /\ pc' = [pc EXCEPT ![q] = "lock"]
    /\ by' = [by EXCEPT ![q] = o]
    /\ body' = [body EXCEPT ![q] = t]
    /\ UNCHANGED <<handoffVars, at, lock, messageVars, auditVars, faults>>

\* _load_active_handoff_api and _ensure_reply_owner: a plain SELECT.
StartReply(q, o, key, t) ==
    /\ pc[q] = "idle"
    /\ replies < MaxReplies
    /\ replies' = replies + 1
    /\ \E h \in Handoffs :
          /\ hstatus[h] = "claimed"
          /\ Owns(o, h)
          /\ at' = [at EXCEPT ![q] = <<h, key>>]
    /\ pc' = [pc EXCEPT ![q] = "lock"]
    /\ by' = [by EXCEPT ![q] = o]
    /\ body' = [body EXCEPT ![q] = t]
    /\ UNCHANGED <<handoffVars, lock, messageVars, auditVars, faults>>

Goto(q, from, to) ==
    /\ pc[q] = from
    /\ pc' = [pc EXCEPT ![q] = to]
    /\ UNCHANGED <<by, body, at>>

\* Advisory locks end with the transaction of the request.
Unlock(q) == lock' = [k \in ReplyKeys |-> IF lock[k] = q THEN None ELSE lock[k]]

\* Mutant: no advisory lock.
LookUpWithoutLock(q) ==
    /\ Goto(q, "lock", IF msg[at[q]] = None THEN "send"
                       ELSE IF msg[at[q]] = body[q] THEN "audit" ELSE "idle")
    /\ UNCHANGED <<handoffVars, lock, messageVars, auditVars, replies, faults>>

\* Mutant: an existing Message is returned whatever it says.
ReuseAnyMessage(q) ==
    LET k == at[q] IN
    /\ pc[q] = "lock"
    /\ lock[k] = None
    /\ Goto(q, "lock", IF msg[k] = None THEN "send" ELSE "audit")
    /\ lock' = [lock EXCEPT ![k] = q]
    /\ UNCHANGED <<handoffVars, messageVars, auditVars, replies, faults>>

\* Mutant: a conflict leaves the lock behind.
ConflictKeepsLock(q) ==
    LET k == at[q] IN
    /\ pc[q] = "lock"
    /\ lock[k] = None
    /\ Goto(q, "lock", IF msg[k] = None THEN "send"
                       ELSE IF msg[k] = body[q] THEN "audit" ELSE "idle")
    /\ lock' = [lock EXCEPT ![k] = q]
    /\ UNCHANGED <<handoffVars, messageVars, auditVars, replies, faults>>

\* dispatch_text takes the advisory lock of the key and looks for a Message:
\* the same one is returned (the lock stays with the open transaction), a
\* different one is a conflict (409), and without one the text is sent.
LookUpMessage(q) ==
    LET k == at[q] IN
    /\ pc[q] = "lock"
    /\ lock[k] = None
    /\ \/ /\ msg[k] = None
          /\ Goto(q, "lock", "send")
          /\ lock' = [lock EXCEPT ![k] = q]
       \/ /\ msg[k] = body[q]
          /\ Goto(q, "lock", "audit")
          /\ lock' = [lock EXCEPT ![k] = q]
       \/ /\ msg[k] \notin {None, body[q]}
          /\ Goto(q, "lock", "idle")
          /\ UNCHANGED lock
    /\ UNCHANGED <<handoffVars, messageVars, auditVars, replies, faults>>

\* The account is inactive, or the binding or conversation is gone: 409.
RejectReply(q) ==
    /\ Goto(q, "send", "idle")
    /\ Unlock(q)
    /\ UNCHANGED <<handoffVars, messageVars, auditVars, replies, faults>>

\* The channel accepts the text.
SendText(q) ==
    /\ Goto(q, "send", "commit")
    /\ delivered' = [delivered EXCEPT ![at[q]] = @ + 1]
    /\ UNCHANGED <<handoffVars, lock, msg, lost, auditVars, replies, faults>>

\* The send times out; reached says whether the channel got it.
SendTimesOut(q, reached) ==
    LET n == IF reached THEN 1 ELSE 0 IN
    /\ Goto(q, "send", "idle")
    /\ faults < MaxFaults
    /\ faults' = faults + 1
    /\ delivered' = [delivered EXCEPT ![at[q]] = @ + n]
    /\ lost' = [lost EXCEPT ![at[q]] = @ + n]
    /\ Unlock(q)
    /\ UNCHANGED <<handoffVars, msg, auditVars, replies>>

\* The Message is committed, which ends the transaction and the lock.
CommitMessage(q) ==
    /\ Goto(q, "commit", "audit")
    /\ msg' = [msg EXCEPT ![at[q]] = body[q]]
    /\ Unlock(q)
    /\ UNCHANGED <<handoffVars, delivered, lost, auditVars, replies, faults>>

\* Mutant: the audit row is added but not committed.
AuditNotCommitted(q) ==
    /\ Goto(q, "audit", "idle")
    /\ confirmed' = confirmed \cup {<<at[q], body[q]>>}
    /\ Unlock(q)
    /\ UNCHANGED <<handoffVars, messageVars, audits, dead, replies, faults>>

\* The audit row is a second transaction; then the request is answered.
CommitAudit(q) ==
    /\ Goto(q, "audit", "idle")
    /\ audits' = [audits EXCEPT ![at[q]] = @ + 1]
    /\ confirmed' = confirmed \cup {<<at[q], body[q]>>}
    /\ Unlock(q)
    /\ UNCHANGED <<handoffVars, messageVars, dead, replies, faults>>

\* The API process dies, or a commit fails.
RequestDies(q) ==
    /\ pc[q] # "idle"
    /\ faults < MaxFaults
    /\ faults' = faults + 1
    /\ Goto(q, pc[q], "idle")
    /\ lost' = [lost EXCEPT ![at[q]] = IF pc[q] = "commit" THEN @ + 1 ELSE @]
    /\ dead' = [dead EXCEPT ![at[q]] = IF pc[q] = "audit" THEN @ + 1 ELSE @]
    /\ Unlock(q)
    /\ UNCHANGED <<handoffVars, msg, delivered, audits, confirmed, replies>>

-----------------------------------------------------------------------------
HandoffStep ==
    \/ RequestHandoff
    \/ \E o \in Operators :
          \/ ClaimHandoff(o)
          \/ ReleaseHandoff(o)
          \/ \E cancel \in BOOLEAN : ResolveHandoff(o, cancel)

ReplyStep(q) ==
    \/ LookUpMessage(q)
    \/ RejectReply(q)
    \/ SendText(q)
    \/ \E reached \in BOOLEAN : SendTimesOut(q, reached)
    \/ CommitMessage(q)
    \/ CommitAudit(q)

Next ==
    \/ HandoffStep
    \/ \E q \in Requests :
          \/ \E o \in Operators, key \in Keys, t \in Texts : StartReply(q, o, key, t)
          \/ ReplyStep(q)
          \/ RequestDies(q)

Spec == Init /\ [][Next]_vars

\* A request goes on: PostgreSQL grants a free lock to one of those that
\* wait, in turn, and every call to the channel has a timeout.
Fairness == \A q \in Requests : SF_vars(ReplyStep(q))

FairSpec == Spec /\ Fairness

-----------------------------------------------------------------------------
(* Properties.                                                              *)

\* Two requests with the same client_message_id (a double click, a client
\* retry) reach the customer twice only if an earlier send was never
\* committed: pg_advisory_xact_lock spans lookup, send and commit.
DuplicatesOnlyAfterLoss ==
    \A k \in ReplyKeys : delivered[k] <= lost[k] + 1

\* An operator who was told that a reply is sent finds exactly that text in
\* the conversation, also when another request used the key before.
ConfirmedReplyIsTheMessage ==
    \A c \in confirmed : msg[c[1]] = c[2]

\* Every human Message has its audit row, or a request that still has to
\* write it, or one that died between the two commits of send_operator_reply.
MessageIsAudited ==
    \A k \in ReplyKeys :
        msg[k] # None =>
            \/ audits[k] + dead[k] > 0
            \/ \E q \in Requests : pc[q] = "audit" /\ at[q] = k

\* A claim is never taken over: it is released before someone else claims,
\* whoever wins the race for the row.
ClaimIsNotStolen ==
    [][\A h \in Handoffs :
          claimant[h] # None /\ claimant'[h] # claimant[h] => claimant'[h] = None]_vars

\* No request waits forever for the lock of its key.
RepliesEnd == \A q \in Requests : pc[q] # "idle" ~> pc[q] = "idle"

\* "Only the current claimant may send a normal operator reply" (MILESTONE-11,
\* with an override for Owner, Admin and Supervisor).
OnlyTheClaimantReplies ==
    [][\A q \in Requests :
          pc[q] = "send" /\ pc'[q] = "commit" =>
              hstatus[at[q][1]] = "claimed" /\ Owns(by[q], at[q][1])]_vars

=============================================================================
