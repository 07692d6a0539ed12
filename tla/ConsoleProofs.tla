------------------------------ MODULE ConsoleProofs ------------------------------
(***************************************************************************)
(* Proofs about what people and workers write side by side: the operator   *)
(* inbox, the prompts and the messages of a conversation, for any number   *)
(* of operators, editors, workers and requests and any values of the       *)
(* bounds.                                                                 *)
(***************************************************************************)
EXTENDS MCConsole, SequenceTheorems, FiniteSetTheorems, TLAPS

-----------------------------------------------------------------------------
(* The operator inbox: its inductive invariant.                             *)

\* Rows are created in order, and nobody has claimed what is queued.
RowsInOrder ==
    \A h \in Handoffs :
        /\ h > hcount => hstatus[h] = "none"
        /\ hstatus[h] \in {"none", "queued"} => claimant[h] = None

\* From the look-up to the commit a request holds the lock of its key.
LockIsHeld == \A q \in Requests : pc[q] \in {"send", "commit"} => lock[at[q]] = q

\* While it holds it there is no Message with the key, and when it is about to
\* audit, the Message is the one it was asked to send.
RequestsFit ==
    \A q \in Requests :
        /\ pc[q] \in {"send", "commit"} => msg[at[q]] = None
        /\ pc[q] = "audit" => msg[at[q]] = body[q]

\* At most one send of a key is not written off, and it has its Message or is
\* about to get it.
SendsAccounted ==
    \A k \in ReplyKeys :
        /\ delivered[k] <= lost[k] + 1
        /\ delivered[k] > lost[k] =>
              msg[k] # None \/ \E q \in Requests : pc[q] = "commit" /\ at[q] = k

InboxInv ==
    /\ TypeOK
    /\ RowsInOrder
    /\ LockIsHeld
    /\ RequestsFit
    /\ SendsAccounted
    /\ ConfirmedReplyIsTheMessage
    /\ MessageIsAudited

-----------------------------------------------------------------------------
(* Each part of it is preserved.                                            *)

\* Types are preserved.
LEMMA InboxTypeStep ==
    ASSUME TypeOK, Next
    PROVE  TypeOK'
  <1> USE InboxAssumption DEF TypeOK, Pcs, ReplyKeys, Handoffs
  <1>1 CASE RequestHandoff
    BY SMTT(30), <1>1 DEF RequestHandoff, requestVars, messageVars, auditVars
  <1>2 ASSUME NEW o \in Operators, ClaimHandoff(o)
       PROVE  TypeOK'
    BY <1>2 DEF ClaimHandoff, requestVars, messageVars, auditVars
  <1>3 ASSUME NEW o \in Operators, ReleaseHandoff(o)
       PROVE  TypeOK'
    BY <1>3 DEF ReleaseHandoff, requestVars, messageVars, auditVars
  <1>4 ASSUME NEW o \in Operators, NEW cancel \in BOOLEAN, ResolveHandoff(o, cancel)
       PROVE  TypeOK'
    BY <1>4 DEF ResolveHandoff, Active, requestVars, messageVars, auditVars
  <1>5 ASSUME NEW q \in Requests, NEW o \in Operators, NEW key \in Keys, NEW t \in Texts, StartReply(q, o, key, t)
       PROVE  TypeOK'
    BY <1>5 DEF StartReply, handoffVars, messageVars, auditVars
  <1>6 ASSUME NEW q \in Requests, LookUpMessage(q)
       PROVE  TypeOK'
    <2>1 at[q] \in ReplyKeys /\ pc[q] = "lock"
      BY <1>6 DEF LookUpMessage
    <2>2 lock' \in [ReplyKeys -> Requests \cup {None}]
      <3>1 lock' = lock \/ lock' = [lock EXCEPT ![at[q]] = q]
        BY <1>6 DEF LookUpMessage
      <3>2 lock \in [ReplyKeys -> Requests \cup {None}]
        BY DEF TypeOK
      <3> HIDE DEF TypeOK, ReplyKeys
      <3> QED
        BY <3>1, <3>2
    <2>3 \E to \in Pcs : pc' = [pc EXCEPT ![q] = to] /\ UNCHANGED <<by, body, at>>
      BY <1>6 DEF LookUpMessage, Goto
    <2> QED
      BY SMTT(30), <1>6, <2>1, <2>2, <2>3 DEF LookUpMessage, handoffVars, messageVars, auditVars
  <1>7 ASSUME NEW q \in Requests, RejectReply(q)
       PROVE  TypeOK'
    BY <1>7 DEF RejectReply, Goto, Unlock, handoffVars, messageVars, auditVars
  <1>8 ASSUME NEW q \in Requests, SendText(q)
       PROVE  TypeOK'
    BY SMTT(30), <1>8 DEF SendText, Goto, handoffVars, auditVars
  <1>9 ASSUME NEW q \in Requests, NEW reached \in BOOLEAN, SendTimesOut(q, reached)
       PROVE  TypeOK'
    BY <1>9 DEF SendTimesOut, Goto, Unlock, handoffVars, auditVars
  <1>10 ASSUME NEW q \in Requests, CommitMessage(q)
       PROVE  TypeOK'
    BY <1>10 DEF CommitMessage, Goto, Unlock, handoffVars, auditVars
  <1>11 ASSUME NEW q \in Requests, CommitAudit(q)
       PROVE  TypeOK'
    BY SMTT(30), <1>11 DEF CommitAudit, Goto, Unlock, handoffVars, messageVars
  <1>12 ASSUME NEW q \in Requests, RequestDies(q)
       PROVE  TypeOK'
    BY SMTT(30), <1>12 DEF RequestDies, Goto, Unlock, handoffVars
  <1> QED
    BY ZenonT(60), <1>1, <1>2, <1>3, <1>4, <1>5, <1>6, <1>7, <1>8, <1>9, <1>10, <1>11, <1>12 DEF Next, HandoffStep, ReplyStep

\* Rows stay in order, and queued ones unclaimed.
LEMMA RowsStep ==
    ASSUME TypeOK, RowsInOrder, Next
    PROVE  RowsInOrder'
  <1> USE InboxAssumption DEF TypeOK, RowsInOrder, Handoffs
  <1>1 CASE RequestHandoff
    BY <1>1 DEF RequestHandoff, requestVars, messageVars, auditVars
  <1>2 ASSUME NEW o \in Operators, ClaimHandoff(o)
       PROVE  RowsInOrder'
    BY <1>2 DEF ClaimHandoff, requestVars, messageVars, auditVars
  <1>3 ASSUME NEW o \in Operators, ReleaseHandoff(o)
       PROVE  RowsInOrder'
    BY <1>3 DEF ReleaseHandoff, requestVars, messageVars, auditVars
  <1>4 ASSUME NEW o \in Operators, NEW cancel \in BOOLEAN, ResolveHandoff(o, cancel)
       PROVE  RowsInOrder'
    BY <1>4 DEF ResolveHandoff, Active, requestVars, messageVars, auditVars
  <1>5 ASSUME NEW q \in Requests, NEW o \in Operators, NEW key \in Keys, NEW t \in Texts, StartReply(q, o, key, t)
       PROVE  RowsInOrder'
    BY <1>5 DEF StartReply, handoffVars, messageVars, auditVars
  <1>6 ASSUME NEW q \in Requests, \/ LookUpMessage(q)
              \/ RejectReply(q)
              \/ SendText(q)
              \/ CommitMessage(q)
              \/ CommitAudit(q)
              \/ RequestDies(q)
       PROVE  RowsInOrder'
    BY <1>6 DEF LookUpMessage, Goto, handoffVars, messageVars, auditVars, RejectReply,
      SendText, CommitMessage, CommitAudit, RequestDies
  <1>7 ASSUME NEW q \in Requests, NEW reached \in BOOLEAN, SendTimesOut(q, reached)
       PROVE  RowsInOrder'
    BY <1>7 DEF SendTimesOut, Goto, handoffVars, auditVars
  <1> QED
    BY <1>1, <1>2, <1>3, <1>4, <1>5, <1>6, <1>7 DEF Next, HandoffStep, ReplyStep

\* Only its holder gives a lock back, and it goes on without it.
LEMMA LockStep ==
    ASSUME TypeOK, LockIsHeld, Next
    PROVE  LockIsHeld'
  <1> USE InboxAssumption DEF TypeOK, LockIsHeld
  <1>1 ASSUME NEW q \in Requests, NEW o \in Operators, NEW key \in Keys, NEW t \in Texts, StartReply(q, o, key, t)
       PROVE  LockIsHeld'
    BY <1>1 DEF StartReply, handoffVars, messageVars, auditVars
  <1>2 ASSUME NEW q \in Requests, LookUpMessage(q)
       PROVE  LockIsHeld'
    BY <1>2 DEF LookUpMessage, Goto, handoffVars, messageVars, auditVars
  <1>3 ASSUME NEW q \in Requests, RejectReply(q)
       PROVE  LockIsHeld'
    BY <1>3 DEF RejectReply, Goto, Unlock, handoffVars, messageVars, auditVars
  <1>4 ASSUME NEW q \in Requests, SendText(q)
       PROVE  LockIsHeld'
    BY <1>4 DEF SendText, Goto, handoffVars, auditVars
  <1>5 ASSUME NEW q \in Requests, NEW reached \in BOOLEAN, SendTimesOut(q, reached)
       PROVE  LockIsHeld'
    BY <1>5 DEF SendTimesOut, Goto, Unlock, handoffVars, auditVars
  <1>6 ASSUME NEW q \in Requests, CommitMessage(q)
       PROVE  LockIsHeld'
    BY <1>6 DEF CommitMessage, Goto, Unlock, handoffVars, auditVars
  <1>7 ASSUME NEW q \in Requests, CommitAudit(q)
       PROVE  LockIsHeld'
    BY <1>7 DEF CommitAudit, Goto, Unlock, handoffVars, messageVars
  <1>8 ASSUME NEW q \in Requests, RequestDies(q)
       PROVE  LockIsHeld'
    BY <1>8 DEF RequestDies, Goto, Unlock, handoffVars
  <1>9 CASE RequestHandoff
    BY <1>9 DEF RequestHandoff, requestVars, messageVars, auditVars
  <1>10 ASSUME NEW o \in Operators, ClaimHandoff(o) \/ ReleaseHandoff(o)
       PROVE  LockIsHeld'
    BY <1>10 DEF ClaimHandoff, requestVars, messageVars, auditVars, ReleaseHandoff
  <1>11 ASSUME NEW o \in Operators, NEW cancel \in BOOLEAN, ResolveHandoff(o, cancel)
       PROVE  LockIsHeld'
    BY <1>11 DEF ResolveHandoff, Active, requestVars, messageVars, auditVars
  <1> QED
    BY <1>1, <1>2, <1>3, <1>4, <1>5, <1>6, <1>7, <1>8, <1>9, <1>10, <1>11 DEF Next, HandoffStep, ReplyStep

\* A Message is only added by the holder of the lock, so nobody else is between
\* the look-up and the commit.
LEMMA RequestsStep ==
    ASSUME TypeOK, LockIsHeld, RequestsFit, Next
    PROVE  RequestsFit'
  <1> USE InboxAssumption DEF TypeOK, LockIsHeld, RequestsFit
  <1>1 ASSUME NEW q \in Requests, NEW o \in Operators, NEW key \in Keys, NEW t \in Texts, StartReply(q, o, key, t)
       PROVE  RequestsFit'
    BY <1>1 DEF StartReply, handoffVars, messageVars, auditVars
  <1>2 ASSUME NEW q \in Requests, LookUpMessage(q)
       PROVE  RequestsFit'
    BY <1>2 DEF LookUpMessage, Goto, handoffVars, messageVars, auditVars
  <1>3 ASSUME NEW q \in Requests, RejectReply(q)
       PROVE  RequestsFit'
    BY <1>3 DEF RejectReply, Goto, Unlock, handoffVars, messageVars, auditVars
  <1>4 ASSUME NEW q \in Requests, SendText(q)
       PROVE  RequestsFit'
    BY <1>4 DEF SendText, Goto, handoffVars, auditVars
  <1>5 ASSUME NEW q \in Requests, NEW reached \in BOOLEAN, SendTimesOut(q, reached)
       PROVE  RequestsFit'
    BY <1>5 DEF SendTimesOut, Goto, Unlock, handoffVars, auditVars
  <1>6 ASSUME NEW q \in Requests, CommitMessage(q)
       PROVE  RequestsFit'
    BY <1>6 DEF CommitMessage, Goto, Unlock, handoffVars, auditVars
  <1>7 ASSUME NEW q \in Requests, CommitAudit(q)
       PROVE  RequestsFit'
    BY <1>7 DEF CommitAudit, Goto, Unlock, handoffVars, messageVars
  <1>8 ASSUME NEW q \in Requests, RequestDies(q)
       PROVE  RequestsFit'
    BY <1>8 DEF RequestDies, Goto, Unlock, handoffVars
  <1>9 CASE RequestHandoff
    BY <1>9 DEF RequestHandoff, requestVars, messageVars, auditVars
  <1>10 ASSUME NEW o \in Operators, ClaimHandoff(o) \/ ReleaseHandoff(o)
       PROVE  RequestsFit'
    BY <1>10 DEF ClaimHandoff, requestVars, messageVars, auditVars, ReleaseHandoff
  <1>11 ASSUME NEW o \in Operators, NEW cancel \in BOOLEAN, ResolveHandoff(o, cancel)
       PROVE  RequestsFit'
    BY <1>11 DEF ResolveHandoff, Active, requestVars, messageVars, auditVars
  <1> QED
    BY <1>1, <1>2, <1>3, <1>4, <1>5, <1>6, <1>7, <1>8, <1>9, <1>10, <1>11 DEF Next, HandoffStep, ReplyStep

\* A send is only made when none is outstanding.
LEMMA SendsStep ==
    ASSUME TypeOK, LockIsHeld, RequestsFit, SendsAccounted, Next
    PROVE  SendsAccounted'
  <1> USE InboxAssumption DEF TypeOK, LockIsHeld, RequestsFit, SendsAccounted
  <1>1 ASSUME NEW q \in Requests, NEW o \in Operators, NEW key \in Keys, NEW t \in Texts, StartReply(q, o, key, t)
       PROVE  SendsAccounted'
    BY <1>1 DEF StartReply, handoffVars, messageVars, auditVars
  <1>2 ASSUME NEW q \in Requests, LookUpMessage(q)
       PROVE  SendsAccounted'
    BY <1>2 DEF LookUpMessage, Goto, handoffVars, messageVars, auditVars
  <1>3 ASSUME NEW q \in Requests, RejectReply(q)
       PROVE  SendsAccounted'
    BY <1>3 DEF RejectReply, Goto, Unlock, handoffVars, messageVars, auditVars
  <1>4 ASSUME NEW q \in Requests, SendText(q)
       PROVE  SendsAccounted'
    BY <1>4 DEF SendText, Goto, handoffVars, auditVars
  <1>5 ASSUME NEW q \in Requests, NEW reached \in BOOLEAN, SendTimesOut(q, reached)
       PROVE  SendsAccounted'
    BY <1>5 DEF SendTimesOut, Goto, Unlock, handoffVars, auditVars
  <1>6 ASSUME NEW q \in Requests, CommitMessage(q)
       PROVE  SendsAccounted'
    BY <1>6 DEF CommitMessage, Goto, Unlock, handoffVars, auditVars
  <1>7 ASSUME NEW q \in Requests, CommitAudit(q)
       PROVE  SendsAccounted'
    BY <1>7 DEF CommitAudit, Goto, Unlock, handoffVars, messageVars
  <1>8 ASSUME NEW q \in Requests, RequestDies(q)
       PROVE  SendsAccounted'
    BY <1>8 DEF RequestDies, Goto, Unlock, handoffVars
  <1>9 CASE RequestHandoff
    BY <1>9 DEF RequestHandoff, requestVars, messageVars, auditVars
  <1>10 ASSUME NEW o \in Operators, ClaimHandoff(o) \/ ReleaseHandoff(o)
       PROVE  SendsAccounted'
    BY <1>10 DEF ClaimHandoff, requestVars, messageVars, auditVars, ReleaseHandoff
  <1>11 ASSUME NEW o \in Operators, NEW cancel \in BOOLEAN, ResolveHandoff(o, cancel)
       PROVE  SendsAccounted'
    BY <1>11 DEF ResolveHandoff, Active, requestVars, messageVars, auditVars
  <1> QED
    BY <1>1, <1>2, <1>3, <1>4, <1>5, <1>6, <1>7, <1>8, <1>9, <1>10, <1>11 DEF Next, HandoffStep, ReplyStep

\* A Message that was confirmed is not replaced.
LEMMA ConfirmedStep ==
    ASSUME TypeOK, RequestsFit, ConfirmedReplyIsTheMessage, Next
    PROVE  ConfirmedReplyIsTheMessage'
  <1> USE InboxAssumption DEF TypeOK, RequestsFit, ConfirmedReplyIsTheMessage
  <1>1 ASSUME NEW q \in Requests, CommitMessage(q)
       PROVE  ConfirmedReplyIsTheMessage'
    BY <1>1 DEF CommitMessage, Goto, Unlock, handoffVars, auditVars
  <1>2 ASSUME NEW q \in Requests, CommitAudit(q)
       PROVE  ConfirmedReplyIsTheMessage'
    BY <1>2 DEF CommitAudit, Goto, Unlock, handoffVars, messageVars
  <1>3 CASE RequestHandoff
    BY <1>3 DEF RequestHandoff, requestVars, messageVars, auditVars
  <1>4 ASSUME NEW o \in Operators, ClaimHandoff(o) \/ ReleaseHandoff(o)
       PROVE  ConfirmedReplyIsTheMessage'
    BY <1>4 DEF ClaimHandoff, requestVars, messageVars, auditVars, ReleaseHandoff
  <1>5 ASSUME NEW o \in Operators, NEW cancel \in BOOLEAN, ResolveHandoff(o, cancel)
       PROVE  ConfirmedReplyIsTheMessage'
    BY <1>5 DEF ResolveHandoff, Active, requestVars, messageVars, auditVars
  <1>6 ASSUME NEW q \in Requests, NEW o \in Operators, NEW key \in Keys, NEW t \in Texts, StartReply(q, o, key, t)
       PROVE  ConfirmedReplyIsTheMessage'
    BY <1>6 DEF StartReply, handoffVars, messageVars, auditVars
  <1>7 ASSUME NEW q \in Requests, \/ LookUpMessage(q)
              \/ RejectReply(q)
              \/ SendText(q)
              \/ RequestDies(q)
       PROVE  ConfirmedReplyIsTheMessage'
    BY <1>7 DEF LookUpMessage, Goto, handoffVars, messageVars, auditVars, RejectReply,
      SendText, RequestDies
  <1>8 ASSUME NEW q \in Requests, NEW reached \in BOOLEAN, SendTimesOut(q, reached)
       PROVE  ConfirmedReplyIsTheMessage'
    BY <1>8 DEF SendTimesOut, Goto, handoffVars, auditVars
  <1> QED
    BY <1>1, <1>2, <1>3, <1>4, <1>5, <1>6, <1>7, <1>8 DEF Next, HandoffStep, ReplyStep

\* A request leaves its Message with an audit row, or as one that died.
LEMMA AuditedStep ==
    ASSUME TypeOK, MessageIsAudited, Next
    PROVE  MessageIsAudited'
  <1> USE InboxAssumption DEF TypeOK, MessageIsAudited
  <1>1 ASSUME NEW q \in Requests, NEW o \in Operators, NEW key \in Keys, NEW t \in Texts, StartReply(q, o, key, t)
       PROVE  MessageIsAudited'
    BY <1>1 DEF StartReply, handoffVars, messageVars, auditVars
  <1>2 ASSUME NEW q \in Requests, LookUpMessage(q)
       PROVE  MessageIsAudited'
    BY <1>2 DEF LookUpMessage, Goto, handoffVars, messageVars, auditVars
  <1>3 ASSUME NEW q \in Requests, RejectReply(q)
       PROVE  MessageIsAudited'
    BY <1>3 DEF RejectReply, Goto, Unlock, handoffVars, messageVars, auditVars
  <1>4 ASSUME NEW q \in Requests, SendText(q)
       PROVE  MessageIsAudited'
    BY <1>4 DEF SendText, Goto, handoffVars, auditVars
  <1>5 ASSUME NEW q \in Requests, NEW reached \in BOOLEAN, SendTimesOut(q, reached)
       PROVE  MessageIsAudited'
    BY <1>5 DEF SendTimesOut, Goto, Unlock, handoffVars, auditVars
  <1>6 ASSUME NEW q \in Requests, CommitMessage(q)
       PROVE  MessageIsAudited'
    BY <1>6 DEF CommitMessage, Goto, Unlock, handoffVars, auditVars
  <1>7 ASSUME NEW q \in Requests, CommitAudit(q)
       PROVE  MessageIsAudited'
    BY <1>7 DEF CommitAudit, Goto, Unlock, handoffVars, messageVars
  <1>8 ASSUME NEW q \in Requests, RequestDies(q)
       PROVE  MessageIsAudited'
    BY <1>8 DEF RequestDies, Goto, Unlock, handoffVars
  <1>9 CASE RequestHandoff
    BY <1>9 DEF RequestHandoff, requestVars, messageVars, auditVars
  <1>10 ASSUME NEW o \in Operators, ClaimHandoff(o) \/ ReleaseHandoff(o)
       PROVE  MessageIsAudited'
    BY <1>10 DEF ClaimHandoff, requestVars, messageVars, auditVars, ReleaseHandoff
  <1>11 ASSUME NEW o \in Operators, NEW cancel \in BOOLEAN, ResolveHandoff(o, cancel)
       PROVE  MessageIsAudited'
    BY <1>11 DEF ResolveHandoff, Active, requestVars, messageVars, auditVars
  <1> QED
    BY <1>1, <1>2, <1>3, <1>4, <1>5, <1>6, <1>7, <1>8, <1>9, <1>10, <1>11 DEF Next, HandoffStep, ReplyStep

\* Whoever claims takes what nobody holds; whoever lets go leaves it to nobody.
LEMMA ClaimStep ==
    ASSUME TypeOK, RowsInOrder, Next
    PROVE  \A h \in Handoffs : claimant[h] # None /\ claimant'[h] # claimant[h] => claimant'[h] = None
  <1> USE InboxAssumption DEF TypeOK, RowsInOrder
  <1>1 ASSUME NEW o \in Operators, ClaimHandoff(o)
       PROVE  \A h \in Handoffs : claimant[h] # None /\ claimant'[h] # claimant[h] => claimant'[h] = None
    BY <1>1 DEF ClaimHandoff, requestVars, messageVars, auditVars
  <1>2 ASSUME NEW o \in Operators, ReleaseHandoff(o)
       PROVE  \A h \in Handoffs : claimant[h] # None /\ claimant'[h] # claimant[h] => claimant'[h] = None
    BY <1>2 DEF ReleaseHandoff, requestVars, messageVars, auditVars
  <1>3 CASE RequestHandoff
    BY <1>3 DEF RequestHandoff, requestVars, messageVars, auditVars
  <1>4 ASSUME NEW o \in Operators, NEW cancel \in BOOLEAN, ResolveHandoff(o, cancel)
       PROVE  \A h \in Handoffs : claimant[h] # None /\ claimant'[h] # claimant[h] => claimant'[h] = None
    BY <1>4 DEF ResolveHandoff, Active, requestVars, messageVars, auditVars
  <1>5 ASSUME NEW q \in Requests, NEW o \in Operators, NEW key \in Keys, NEW t \in Texts, StartReply(q, o, key, t)
       PROVE  \A h \in Handoffs : claimant[h] # None /\ claimant'[h] # claimant[h] => claimant'[h] = None
    BY <1>5 DEF StartReply, handoffVars, messageVars, auditVars
  <1>6 ASSUME NEW q \in Requests, \/ LookUpMessage(q)
              \/ RejectReply(q)
              \/ SendText(q)
              \/ CommitMessage(q)
              \/ CommitAudit(q)
              \/ RequestDies(q)
       PROVE  \A h \in Handoffs : claimant[h] # None /\ claimant'[h] # claimant[h] => claimant'[h] = None
    BY <1>6 DEF LookUpMessage, Goto, handoffVars, messageVars, auditVars, RejectReply,
      SendText, CommitMessage, CommitAudit, RequestDies
  <1>7 ASSUME NEW q \in Requests, NEW reached \in BOOLEAN, SendTimesOut(q, reached)
       PROVE  \A h \in Handoffs : claimant[h] # None /\ claimant'[h] # claimant[h] => claimant'[h] = None
    BY <1>7 DEF SendTimesOut, Goto, handoffVars, auditVars
  <1> QED
    BY <1>1, <1>2, <1>3, <1>4, <1>5, <1>6, <1>7 DEF Next, HandoffStep, ReplyStep

-----------------------------------------------------------------------------
(* The conversation: its inductive invariant.                               *)

LogMessage == [via : {"api", "inbound", "reply"}, author : LogAuthors,
               key : ApiKeys \cup InboundKeys \cup DispatchKeys \cup {Keyless},
               words : Wordings, at : 1..MaxAt]

\* A request as it came, and a reply with the time it was sent at.
AnyRequest == [kind : {"api", "inbound", "reply"}, author : LogAuthors,
               key : ApiKeys \cup InboundKeys \cup DispatchKeys \cup {Keyless},
               words : Wordings, at : 0..MaxAt]

WriterState == [step : WriterSteps, request : AnyRequest \cup {NoRequest}, read : 0..MaxAt,
                missed : SUBSET LogIndices, found : LogIndices \cup {0},
                answer : LogIndices \cup {0}]

LogTyped ==
    /\ log \in Seq(LogMessage)
    /\ Len(log) <= MaxMessages
    /\ lastAt \in 0..MaxAt
    /\ rowHolder \in Writers \cup {NoWriter}
    /\ writer \in [Writers -> WriterState]
    /\ overlapping \subseteq LogIndices

\* What a request of each kind is like.
RequestFits(r) ==
    /\ r \in AnyRequest
    /\ r.kind = "api" => r.key \in ApiKeys \cup {Keyless} /\ r.at # 0
    /\ r.kind = "inbound" =>
          r.key \in InboundKeys /\ r.author = "customer" /\ r.at = SentAt[r.key]
    /\ r.kind = "reply" => r.key \in DispatchKeys

\* A writer has a request until it leaves; what it found it can only be an
\* inbound message; what it was answered with is there.
WriterFits(s) ==
    /\ s.step # "idle" => RequestFits(s.request)
    /\ s.step = "send" => s.request.kind = "reply"
    /\ s.step = "insert" => s.request.at # 0
    /\ s.found # 0 =>
          /\ s.step # "idle"
          /\ s.request.kind = "inbound"
          /\ s.found \in 1..Len(log)
          /\ log[s.found].key = s.request.key
    /\ s.answer # 0 => s.answer \in 1..Len(log)

WritersFit == \A w \in Writers : WriterFits(writer[w])

\* Only the worker with an answer of the agent holds the row.
HolderFits ==
    rowHolder # NoWriter =>
        writer[rowHolder].step # "idle" /\ writer[rowHolder].request.author = "ai"

\* Rows with the key of an inbound message are that message.
InboundRowsFit ==
    \A i \in 1..Len(log) : log[i].key \in InboundKeys =>
        log[i].author = "customer" /\ log[i].at = SentAt[log[i].key]

\* What a writer has read is the time of the conversation unless it missed a
\* write, and newer messages are those it missed or overlapped with others.
ReadFits(s) ==
    s.step # "idle" =>
        /\ s.missed = {} => s.read = lastAt
        /\ \A i \in 1..Len(log) : log[i].at <= s.read \/ i \in overlapping \cup s.missed

ReadsFit == \A w \in Writers : ReadFits(writer[w])

LogInv ==
    /\ LogTyped
    /\ WritersFit
    /\ HolderFits
    /\ InboundRowsFit
    /\ ReadsFit
    /\ OneMessagePerKey
    /\ AnswersAreTheirOwn
    /\ LastMessageIsNewest

-----------------------------------------------------------------------------
(* What the writers' steps do to their own state.                           *)

\* A message at the end of the log, and the others where they were.
LEMMA AppendMessage ==
    ASSUME NEW s \in Seq(LogMessage), NEW e \in LogMessage
    PROVE  /\ Append(s, e) \in Seq(LogMessage)
           /\ Len(s) \in Nat
           /\ Len(Append(s, e)) = Len(s) + 1
           /\ Append(s, e)[Len(s) + 1] = e
           /\ \A i \in 1..Len(s) : Append(s, e)[i] = s[i] /\ s[i] \in LogMessage
  <1> HIDE DEF LogMessage
  <1> QED
    OBVIOUS

OtherWritersStay(w) == \A v \in Writers \ {w} : writer'[v] = writer[v]

\* The request is taken up with what lastAt says now.
LEMMA LoadDoes ==
    ASSUME LogTyped, NEW w \in Writers, NEW r \in LogRequests, LoadConversation(w, r)
    PROVE  /\ LogTyped'
           /\ OtherWritersStay(w)
           /\ RequestFits(r)
           /\ writer'[w].step = "lookup" /\ writer'[w].request = r /\ writer'[w].read = lastAt
           /\ writer'[w].missed = {} /\ writer'[w].found = 0 /\ writer'[w].answer = 0
           /\ UNCHANGED <<log, lastAt, overlapping>>
           /\ \/ rowHolder' = rowHolder
              \/ rowHolder' = w /\ r.author = "ai"
  <1>1 RequestFits(r)
    <2>1 CASE r \in ApiWrites
      <3>1 /\ r.kind = "api"
           /\ r.key \in ApiKeys \cup {Keyless}
           /\ r.author \in LogAuthors
           /\ r.words \in Wordings
           /\ r.at \in 1..MaxAt
           /\ r = [kind |-> r.kind, key |-> r.key, author |-> r.author, words |-> r.words,
                   at |-> r.at]
        BY <2>1, LogAssumption DEF ApiWrites, LogAuthors
      <3>2 r \in AnyRequest
        BY <3>1 DEF AnyRequest
      <3> QED
        BY <3>1, <3>2 DEF RequestFits
    <2>2 CASE r \in Inbound
      <3>1 PICK k \in InboundKeys, words \in Wordings :
              r = [kind |-> "inbound", key |-> k, author |-> "customer", words |-> words,
                   at |-> SentAt[k]]
        BY <2>2 DEF Inbound
      <3>2 SentAt[k] \in 0..MaxAt
        BY LogAssumption
      <3> QED
        BY <3>1, <3>2 DEF RequestFits, AnyRequest, LogAuthors
    <2>3 CASE r \in Replies
      BY <2>3, LogAssumption DEF Replies, RequestFits, AnyRequest, LogAuthors
    <2> QED
      BY <2>1, <2>2, <2>3 DEF LogRequests
  <1> DEFINE rest == AtRest(r, 0)
             s == [rest EXCEPT !.step = "lookup", !.read = lastAt]
  <1>2 writer' = [writer EXCEPT ![w] = s]
    BY DEF LoadConversation
  <1>3 /\ rest \in WriterState
       /\ rest.request = r /\ rest.missed = {} /\ rest.found = 0 /\ rest.answer = 0
    <2>1 r \in AnyRequest
      BY <1>1 DEF RequestFits
    <2>2 rest = [step |-> "idle", request |-> r, read |-> 0, missed |-> {}, found |-> 0, answer |-> 0]
      BY DEF AtRest
    <2> HIDE DEF rest
    <2> QED
      BY <2>1, <2>2, LogAssumption DEF WriterState, WriterSteps
  <1> HIDE DEF rest
  <1>4 /\ s \in WriterState
       /\ s.step = "lookup" /\ s.request = r /\ s.read = lastAt
       /\ s.missed = {} /\ s.found = 0 /\ s.answer = 0
    BY <1>3 DEF WriterState, WriterSteps, LogTyped
  <1> HIDE DEF s, WriterState
  <1>5 writer' \in [Writers -> WriterState] /\ OtherWritersStay(w) /\ writer'[w] = s
    BY <1>2, <1>4 DEF LogTyped, OtherWritersStay
  <1>6 /\ UNCHANGED <<log, lastAt, overlapping>>
       /\ rowHolder' = rowHolder \/ (rowHolder' = w /\ r.author = "ai")
    BY DEF LoadConversation
  <1>7 LogTyped'
    BY <1>5, <1>6 DEF LogTyped
  <1> QED
    BY <1>1, <1>4, <1>5, <1>6, <1>7

\* A writer leaves with an answer, or with none and without its request.
LEMMA LeaveDoes ==
    ASSUME LogTyped, NEW w \in Writers, NEW i \in LogIndices \cup {0}, LeaveWith(w, i),
           UNCHANGED <<log, lastAt, overlapping>>
    PROVE  /\ LogTyped'
           /\ OtherWritersStay(w)
           /\ writer'[w].step = "idle"
           /\ writer'[w].found = 0
           /\ writer'[w].answer = i
           /\ i # 0 => writer'[w].request = writer[w].request
           /\ rowHolder' # w
           /\ rowHolder' \in {rowHolder, NoWriter}
  <1> DEFINE rq == IF i = 0 THEN NoRequest ELSE writer[w].request
  <1>1 writer' = [writer EXCEPT ![w] = [step |-> "idle", request |-> rq, read |-> 0,
                                       missed |-> {}, found |-> 0, answer |-> i]]
    BY DEF LeaveWith, AtRest
  <1>2 [step |-> "idle", request |-> rq, read |-> 0, missed |-> {}, found |-> 0,
        answer |-> i] \in WriterState
    <2>1 rq \in AnyRequest \cup {NoRequest}
      BY DEF LogTyped, WriterState
    <2> HIDE DEF rq
    <2> QED
      BY <2>1, LogAssumption DEF WriterState, WriterSteps
  <1>3 writer' \in [Writers -> WriterState]
    <2> HIDE DEF WriterState
    <2> QED
      BY <1>1, <1>2 DEF LogTyped
  <1>4 rowHolder' # w /\ rowHolder' \in {rowHolder, NoWriter}
    BY LogAssumption DEF LeaveWith
  <1>5 LogTyped'
    BY <1>3, <1>4 DEF LogTyped
  <1>6 OtherWritersStay(w) /\ writer'[w] = [step |-> "idle", request |-> rq, read |-> 0,
                                       missed |-> {}, found |-> 0, answer |-> i]
    BY <1>1 DEF OtherWritersStay, LogTyped
  <1> QED
    BY <1>4, <1>5, <1>6

\* A look-up ends with the step that is next, or with an answer.
LEMMA LookUpDoes ==
    ASSUME LogTyped, NEW w \in Writers, LookUp(w)
    PROVE  /\ UNCHANGED <<log, lastAt, overlapping>>
           /\ \/ /\ LogTyped'
                 /\ OtherWritersStay(w)
                 /\ UNCHANGED rowHolder
                 /\ \E i \in LogIndices \cup {0} :
                       /\ i # 0 => i \in Stored(writer[w].request.key) /\ writer[w].request.kind = "inbound"
                       /\ writer'[w] = [writer[w] EXCEPT
                              !.step = IF writer[w].request.kind = "reply" THEN "send" ELSE "insert",
                              !.found = i]
              \/ \E i \in Stored(writer[w].request.key) : Reuse(w, i)
           /\ writer[w].step = "lookup"
  <1> DEFINE r == writer[w].request
             to == IF r.kind = "reply" THEN "send" ELSE "insert"
             continue(i) == /\ writer' = [writer EXCEPT ![w].step = to, ![w].found = i]
                            /\ UNCHANGED rowHolder
  <1>1 /\ UNCHANGED <<log, lastAt, overlapping>>
       /\ writer[w].step = "lookup"
    BY DEF LookUp
  <1>2 \/ continue(0)
       \/ \E i \in Stored(r.key) : IF r.kind = "inbound" THEN continue(i) ELSE Reuse(w, i)
    BY DEF LookUp
  <1>3 \A i \in Stored(r.key) : i \in LogIndices
    <2>1 Len(log) \in Nat /\ Len(log) <= MaxMessages /\ MaxMessages \in Nat
      BY LogAssumption DEF LogTyped
    <2> QED
      BY <2>1 DEF Stored, LogIndices
  <1>4 ASSUME NEW i \in LogIndices \cup {0}, continue(i)
       PROVE  /\ LogTyped'
              /\ OtherWritersStay(w)
              /\ writer'[w] = [writer[w] EXCEPT !.step = to, !.found = i]
    <2> DEFINE s == [writer[w] EXCEPT !.step = to, !.found = i]
    <2>1 writer' = [writer EXCEPT ![w] = s]
      BY <1>4 DEF LogTyped, WriterState
    <2>2 s \in WriterState
      BY <1>4 DEF LogTyped, WriterState, WriterSteps
    <2> HIDE DEF s, WriterState
    <2> QED
      BY <1>1, <1>4, <2>1, <2>2 DEF LogTyped, OtherWritersStay, s
  <1> HIDE DEF to
  <1>5 CASE continue(0)
    BY <1>1, <1>4, <1>5 DEF to
  <1>6 ASSUME NEW i \in Stored(r.key), r.kind = "inbound", continue(i)
       PROVE  /\ LogTyped'
              /\ OtherWritersStay(w)
              /\ UNCHANGED rowHolder
              /\ i \in LogIndices \cup {0}
              /\ writer'[w] = [writer[w] EXCEPT !.step = to, !.found = i]
    BY <1>3, <1>4, <1>6
  <1> QED
    BY <1>1, <1>2, <1>5, <1>6 DEF to

\* The channel gives the reply its time.
LEMMA SendDoes ==
    ASSUME LogTyped, WritersFit, NEW w \in Writers, SendReply(w)
    PROVE  /\ LogTyped'
           /\ OtherWritersStay(w)
           /\ writer[w].step = "send"
           /\ UNCHANGED <<log, lastAt, rowHolder, overlapping>>
           /\ \E u \in 1..MaxAt :
                 writer'[w] = [writer[w] EXCEPT !.step = "insert", !.request.at = u]
  <1>1 /\ writer[w].step = "send"
       /\ UNCHANGED <<log, lastAt, rowHolder, overlapping>>
    BY DEF SendReply
  <1>2 PICK u \in 1..MaxAt : writer' = [writer EXCEPT ![w].step = "insert", ![w].request.at = u]
    BY DEF SendReply
  <1> DEFINE s == [writer[w] EXCEPT !.step = "insert", !.request.at = u]
  <1>3 writer' = [writer EXCEPT ![w] = s]
    BY <1>2 DEF LogTyped, WriterState
  <1>4 s \in WriterState
    <2>1 writer[w].request \in AnyRequest
      BY <1>1 DEF WritersFit, WriterFits, RequestFits
    <2>2 [writer[w].request EXCEPT !.at = u] \in AnyRequest
      BY <2>1, LogAssumption DEF AnyRequest
    <2> HIDE DEF AnyRequest
    <2> QED
      BY <2>2 DEF LogTyped, WriterState, WriterSteps
  <1> HIDE DEF s, WriterState
  <1>5 LogTyped' /\ OtherWritersStay(w) /\ writer'[w] = s
    BY <1>1, <1>3, <1>4 DEF LogTyped, OtherWritersStay
  <1> QED
    BY <1>1, <1>5 DEF s

\* A commit appends the message, or finds it there, and tells the writers that
\* are under way.
LEMMA CommitDoes ==
    ASSUME LogTyped, WritersFit, NEW w \in Writers, CommitWrite(w)
    PROVE  /\ LogTyped'
           /\ writer[w].step = "insert"
           /\ rowHolder' \in {rowHolder, NoWriter} \ {w}
           /\ \E i \in LogIndices :
                 /\ \/ /\ writer[w].found = 0
                       /\ i = Len(log) + 1
                       /\ Stored(writer[w].request.key) = {}
                       /\ AMessage(writer[w].request) \in LogMessage
                       /\ log' = Append(log, AMessage(writer[w].request))
                    \/ writer[w].found = i /\ log' = log
                 /\ lastAt' = IF Advances(w) THEN writer[w].request.at ELSE lastAt
                 /\ overlapping' = overlapping \cup
                      (IF writer[w].missed = {} THEN {} ELSE writer[w].missed \cup {i})
                 /\ writer'[w].step = "idle" /\ writer'[w].request = writer[w].request
                 /\ writer'[w].found = 0 /\ writer'[w].answer = i
                 /\ \A v \in Writers \ {w} :
                       \/ /\ writer'[v] = writer[v]
                          /\ ~Busy(v) \/ (log' = log /\ lastAt' = lastAt)
                       \/ /\ writer'[v].step = writer[v].step
                          /\ writer'[v].request = writer[v].request
                          /\ writer'[v].read = writer[v].read
                          /\ writer'[v].found = writer[v].found
                          /\ writer'[v].answer = writer[v].answer
                          /\ writer'[v].missed = writer[v].missed \cup {i}
  <1> DEFINE r == writer[w].request
             new == writer[w].found = 0
             i == IF new THEN Len(log) + 1 ELSE writer[w].found
             left == AtRest(r, i)
             seen(v) == IF (new \/ Advances(w)) /\ v # w /\ Busy(v)
                        THEN [writer[v] EXCEPT !.missed = @ \cup {i}] ELSE writer[v]
  <1>1 /\ writer[w].step = "insert"
       /\ new => Stored(r.key) = {} /\ Len(log) < MaxMessages
       /\ log' = IF new THEN Append(log, AMessage(r)) ELSE log
       /\ lastAt' = IF Advances(w) THEN r.at ELSE lastAt
       /\ overlapping' = overlapping \cup (IF writer[w].missed = {} THEN {} ELSE writer[w].missed \cup {i})
       /\ writer' = [v \in Writers |-> IF v = w THEN left ELSE seen(v)]
       /\ rowHolder' = IF rowHolder = w THEN NoWriter ELSE rowHolder
    BY DEF CommitWrite
  <1>2 Len(log) \in Nat /\ MaxMessages \in Nat /\ writer[w].found \in LogIndices \cup {0}
    BY LogAssumption DEF LogTyped, WriterState
  <1>3 i \in LogIndices
    BY <1>1, <1>2 DEF LogIndices
  <1>4 RequestFits(r) /\ r.at # 0 /\ r \in AnyRequest
    BY <1>1 DEF WritersFit, WriterFits, RequestFits
  <1>5 AMessage(r) \in LogMessage
    <2>1 r.at \in 1..MaxAt
      BY <1>4, LogAssumption DEF AnyRequest
    <2> QED
      BY <1>4, <2>1 DEF AMessage, LogMessage, AnyRequest
  <1>6 /\ left \in WriterState
       /\ left.step = "idle" /\ left.request = r /\ left.found = 0 /\ left.answer = i
    <2>1 left = [step |-> "idle", request |-> r, read |-> 0, missed |-> {}, found |-> 0, answer |-> i]
      BY DEF AtRest
    <2> HIDE DEF left, i, r
    <2> QED
      BY <2>1, <1>3, <1>4, LogAssumption DEF WriterState, WriterSteps
  <1>7 ASSUME NEW v \in Writers \ {w}
       PROVE  /\ seen(v) \in WriterState
              /\ \/ /\ seen(v) = writer[v]
                    /\ ~Busy(v) \/ ~(new \/ Advances(w))
                 \/ /\ seen(v).step = writer[v].step
                    /\ seen(v).request = writer[v].request
                    /\ seen(v).read = writer[v].read
                    /\ seen(v).found = writer[v].found
                    /\ seen(v).answer = writer[v].answer
                    /\ seen(v).missed = writer[v].missed \cup {i}
    <2>1 writer[v] \in WriterState
      BY DEF LogTyped
    <2>2 CASE (new \/ Advances(w)) /\ Busy(v)
      <3>1 seen(v) = [writer[v] EXCEPT !.missed = writer[v].missed \cup {i}]
        BY <2>2
      <3> HIDE DEF seen, i
      <3> QED
        BY <1>3, <2>1, <3>1 DEF WriterState
    <2>3 CASE ~((new \/ Advances(w)) /\ Busy(v))
      <3>1 seen(v) = writer[v]
        BY <2>3
      <3> HIDE DEF seen
      <3> QED
        BY <2>1, <2>3, <3>1
    <2> QED
      BY <2>2, <2>3
  <1>8 writer' \in [Writers -> WriterState] /\ writer'[w] = left
         /\ \A v \in Writers \ {w} : writer'[v] = seen(v)
    <2> HIDE DEF left, seen, WriterState
    <2> QED
      BY <1>1, <1>6, <1>7
  <1>9 log' \in Seq(LogMessage) /\ Len(log') <= MaxMessages
    <2>1 CASE new
      <3> HIDE DEF LogMessage
      <3> QED
        BY <1>1, <1>2, <1>5, <2>1, AppendMessage DEF LogTyped
    <2>2 CASE ~new
      BY <1>1, <2>2 DEF LogTyped
    <2> QED
      BY <2>1, <2>2
  <1>10 LogTyped'
    <2>1 lastAt' \in 0..MaxAt
      BY <1>1, <1>4 DEF LogTyped, AnyRequest
    <2>2 overlapping' \subseteq LogIndices
      <3>1 writer[w].missed \subseteq LogIndices
        BY DEF LogTyped, WriterState
      <3> HIDE DEF i
      <3> QED
        BY <1>1, <1>3, <3>1 DEF LogTyped
    <2>3 rowHolder' \in Writers \cup {NoWriter}
      BY <1>1 DEF LogTyped
    <2> HIDE DEF LogMessage, WriterState
    <2> QED
      BY <1>8, <1>9, <2>1, <2>2, <2>3 DEF LogTyped
  <1>11 rowHolder' \in {rowHolder, NoWriter} \ {w}
    BY <1>1, LogAssumption
  <1>12 \/ new /\ i = Len(log) + 1 /\ Stored(r.key) = {} /\ log' = Append(log, AMessage(r))
        \/ ~new /\ writer[w].found = i /\ log' = log
    BY <1>1
  <1>13 ASSUME NEW v \in Writers \ {w}
        PROVE  \/ /\ writer'[v] = writer[v]
                  /\ ~Busy(v) \/ (log' = log /\ lastAt' = lastAt)
               \/ /\ writer'[v].step = writer[v].step
                  /\ writer'[v].request = writer[v].request
                  /\ writer'[v].read = writer[v].read
                  /\ writer'[v].found = writer[v].found
                  /\ writer'[v].answer = writer[v].answer
                  /\ writer'[v].missed = writer[v].missed \cup {i}
    <2>1 ~(new \/ Advances(w)) => log' = log /\ lastAt' = lastAt
      BY <1>1
    <2> HIDE DEF seen, i, new
    <2> QED
      BY <1>7, <1>8, <2>1
  <1> HIDE DEF i, left, seen
  <1> QED
    BY <1>1, <1>3, <1>5, <1>6, <1>8, <1>10, <1>11, <1>12, <1>13

-----------------------------------------------------------------------------
(* The invariant of the conversation is preserved.                          *)

\* An answer is the message that was asked for.
AnswerFits(s) ==
    s.answer # 0 =>
        /\ log[s.answer].key = s.request.key
        /\ log[s.answer].author = s.request.author
        /\ s.request.kind = "reply" =>
              log[s.answer].words = s.request.words /\ log[s.answer].via = "reply"

\* A step that writes no row keeps the invariant when its writer fits again.
LEMMA WriterStepKept ==
    ASSUME LogInv, LogTyped', NEW w \in Writers, OtherWritersStay(w),
           UNCHANGED <<log, lastAt, overlapping>>,
           WriterFits(writer[w])', ReadFits(writer[w])', AnswerFits(writer[w])',
           \/ rowHolder' \in {rowHolder, NoWriter} \ {w}
           \/ rowHolder' = w /\ writer'[w].step # "idle" /\ writer'[w].request.author = "ai"
    PROVE  LogInv'
  <1> USE DEF LogInv
  <1>1 WritersFit'
    BY DEF WritersFit, WriterFits, OtherWritersStay
  <1>2 ReadsFit'
    BY DEF ReadsFit, ReadFits, OtherWritersStay
  <1>3 AnswersAreTheirOwn'
    BY DEF AnswersAreTheirOwn, AnswerFits, OtherWritersStay
  <1>4 HolderFits'
    BY DEF HolderFits, OtherWritersStay, LogTyped
  <1>5 InboundRowsFit' /\ OneMessagePerKey' /\ LastMessageIsNewest'
    BY DEF InboundRowsFit, OneMessagePerKey, LastMessageIsNewest
  <1> QED
    BY <1>1, <1>2, <1>3, <1>4, <1>5

\* A writer that has read the conversation knows its newest message.
LEMMA LoadKeeps ==
    ASSUME LogInv, NEW w \in Writers, NEW r \in LogRequests, LoadConversation(w, r)
    PROVE  LogInv'
  <1>1 /\ LogTyped'
       /\ OtherWritersStay(w)
       /\ RequestFits(r)
       /\ writer'[w].step = "lookup" /\ writer'[w].request = r /\ writer'[w].read = lastAt
       /\ writer'[w].missed = {} /\ writer'[w].found = 0 /\ writer'[w].answer = 0
       /\ UNCHANGED <<log, lastAt, overlapping>>
       /\ rowHolder' = rowHolder \/ (rowHolder' = w /\ r.author = "ai")
    BY LoadDoes DEF LogInv
  <1>2 WriterFits(writer[w])' /\ AnswerFits(writer[w])'
    BY <1>1 DEF WriterFits, AnswerFits, RequestFits
  <1>3 ReadFits(writer[w])'
    BY <1>1 DEF ReadFits, LogInv, LastMessageIsNewest
  <1>4 rowHolder # w
    BY LogAssumption DEF LoadConversation, Busy, LogInv, HolderFits
  <1> QED
    BY <1>1, <1>2, <1>3, <1>4, WriterStepKept

\* Whoever leaves without a message leaves nothing to be right about.
LEMMA LeaveKeeps ==
    ASSUME LogInv, NEW w \in Writers, NEW i \in LogIndices \cup {0}, LeaveWith(w, i),
           UNCHANGED <<log, lastAt, overlapping>>,
           i # 0 => i \in Stored(writer[w].request.key) /\ Matches(i, writer[w].request)
    PROVE  LogInv'
  <1>1 /\ LogTyped'
       /\ OtherWritersStay(w)
       /\ writer'[w].step = "idle"
       /\ writer'[w].found = 0
       /\ writer'[w].answer = i
       /\ i # 0 => writer'[w].request = writer[w].request
       /\ rowHolder' # w
       /\ rowHolder' \in {rowHolder, NoWriter}
    BY LeaveDoes DEF LogInv
  <1>2 WriterFits(writer[w])' /\ AnswerFits(writer[w])'
    BY <1>1 DEF WriterFits, AnswerFits, Stored, Matches
  <1>3 ReadFits(writer[w])'
    BY <1>1 DEF ReadFits
  <1> QED
    BY <1>1, <1>2, <1>3, WriterStepKept

\* A key that is there already is answered with its message.
LEMMA ReuseKeeps ==
    ASSUME LogInv, NEW w \in Writers, NEW i \in Stored(writer[w].request.key), Reuse(w, i),
           UNCHANGED <<log, lastAt, overlapping>>
    PROVE  LogInv'
  <1>1 i \in LogIndices
    <2>1 Len(log) \in Nat /\ Len(log) <= MaxMessages /\ MaxMessages \in Nat
      BY LogAssumption DEF LogInv, LogTyped
    <2> QED
      BY <2>1 DEF Stored, LogIndices
  <1>2 CASE Matches(i, writer[w].request)
    BY <1>1, <1>2, LeaveKeeps DEF Reuse
  <1>3 CASE ~Matches(i, writer[w].request)
    BY <1>3, LeaveKeeps DEF Reuse
  <1> QED
    BY <1>2, <1>3

\* The look-up either answers with the message it finds or goes on to write one.
LEMMA LookUpKeeps ==
    ASSUME LogInv, NEW w \in Writers, LookUp(w)
    PROVE  LogInv'
  <1> DEFINE r == writer[w].request
             to == IF r.kind = "reply" THEN "send" ELSE "insert"
  <1>1 UNCHANGED <<log, lastAt, overlapping>> /\ writer[w].step = "lookup"
    BY LookUpDoes DEF LogInv
  <1>2 CASE \E i \in Stored(r.key) : Reuse(w, i)
    BY <1>1, <1>2, ReuseKeeps
  <1>3 CASE /\ LogTyped'
            /\ OtherWritersStay(w)
            /\ UNCHANGED rowHolder
            /\ \E i \in LogIndices \cup {0} :
                  /\ i # 0 => i \in Stored(r.key) /\ r.kind = "inbound"
                  /\ writer'[w] = [writer[w] EXCEPT !.step = to, !.found = i]
    <2>1 PICK i \in LogIndices \cup {0} :
            /\ i # 0 => i \in Stored(r.key) /\ r.kind = "inbound"
            /\ writer'[w] = [writer[w] EXCEPT !.step = to, !.found = i]
      BY <1>3
    <2>2 writer[w] \in WriterState
      BY DEF LogInv, LogTyped
    <2>3 /\ writer'[w].step = to /\ writer'[w].request = r
         /\ writer'[w].read = writer[w].read /\ writer'[w].missed = writer[w].missed
         /\ writer'[w].found = i /\ writer'[w].answer = writer[w].answer
      <3> HIDE DEF r, to
      <3> QED
        BY <2>1, <2>2 DEF WriterState, r
    <2>4 WriterFits(writer[w]) /\ ReadFits(writer[w]) /\ AnswerFits(writer[w])
      BY DEF LogInv, WritersFit, ReadsFit, AnswersAreTheirOwn, AnswerFits
    <2>5 to \in {"send", "insert"} /\ (to = "send" <=> r.kind = "reply")
      OBVIOUS
    <2>6 r.kind # "reply" => r.at # 0
      BY <1>1, <2>4, LogAssumption DEF WriterFits, RequestFits, AnyRequest
    <2> HIDE DEF to
    <2>7 WriterFits(writer[w])'
      BY <1>1, <2>1, <2>3, <2>4, <2>5, <2>6 DEF WriterFits, Stored, RequestFits
    <2>8 ReadFits(writer[w])' /\ AnswerFits(writer[w])'
      BY <1>1, <2>3, <2>4, <2>5 DEF ReadFits, AnswerFits
    <2>9 rowHolder' = w => writer'[w].step # "idle" /\ writer'[w].request.author = "ai"
      BY <1>3, <2>3, <2>5, LogAssumption DEF LogInv, HolderFits
    <2> QED
      BY <1>1, <1>3, <2>7, <2>8, <2>9, WriterStepKept
  <1> QED
    BY <1>2, <1>3, LookUpDoes DEF LogInv

\* Sending changes no row.
LEMMA SendKeeps ==
    ASSUME LogInv, NEW w \in Writers, SendReply(w)
    PROVE  LogInv'
  <1>1 /\ LogTyped'
       /\ OtherWritersStay(w)
       /\ writer[w].step = "send"
       /\ UNCHANGED <<log, lastAt, rowHolder, overlapping>>
    BY SendDoes DEF LogInv
  <1>2 PICK u \in 1..MaxAt : writer'[w] = [writer[w] EXCEPT !.step = "insert", !.request.at = u]
    BY SendDoes DEF LogInv
  <1>3 WriterFits(writer[w]) /\ ReadFits(writer[w]) /\ AnswerFits(writer[w])
    BY DEF LogInv, WritersFit, ReadsFit, AnswersAreTheirOwn, AnswerFits
  <1>4 /\ writer[w].request \in AnyRequest
       /\ writer[w].request.kind = "reply"
       /\ writer[w].request.key \in DispatchKeys
       /\ writer[w].found = 0
    BY <1>1, <1>3 DEF WriterFits, RequestFits
  <1> DEFINE timed == [writer[w].request EXCEPT !.at = u]
  <1>5 /\ timed \in AnyRequest /\ timed.at = u
       /\ timed.kind = "reply" /\ timed.key = writer[w].request.key
       /\ timed.author = writer[w].request.author /\ timed.words = writer[w].request.words
    BY <1>4, LogAssumption DEF AnyRequest
  <1>6 writer[w] \in WriterState
    BY DEF LogInv, LogTyped
  <1>7 /\ writer'[w].step = "insert" /\ writer'[w].request = timed
       /\ writer'[w].read = writer[w].read /\ writer'[w].missed = writer[w].missed
       /\ writer'[w].found = 0 /\ writer'[w].answer = writer[w].answer
    BY <1>2, <1>4, <1>6 DEF WriterState
  <1> HIDE DEF timed
  <1>8 RequestFits(timed)
    BY <1>4, <1>5 DEF RequestFits
  <1>9 WriterFits(writer[w])'
    BY <1>1, <1>3, <1>5, <1>7, <1>8 DEF WriterFits
  <1>10 ReadFits(writer[w])' /\ AnswerFits(writer[w])'
    BY <1>1, <1>3, <1>4, <1>5, <1>7 DEF ReadFits, AnswerFits
  <1>11 rowHolder' = w => writer'[w].step # "idle" /\ writer'[w].request.author = "ai"
    BY <1>1, <1>5, <1>7, LogAssumption DEF LogInv, HolderFits
  <1> QED
    BY <1>1, <1>9, <1>10, <1>11, WriterStepKept

\* What a commit leaves at its place is what was asked for, and the rest of the
\* log is as it was.
LEMMA CommitLog ==
    ASSUME LogInv, NEW w \in Writers, CommitWrite(w), NEW i \in LogIndices,
           \/ /\ writer[w].found = 0
              /\ i = Len(log) + 1
              /\ Stored(writer[w].request.key) = {}
              /\ AMessage(writer[w].request) \in LogMessage
              /\ log' = Append(log, AMessage(writer[w].request))
           \/ writer[w].found = i /\ log' = log
    PROVE  /\ 1..Len(log') = 1..Len(log) \cup {i}
           /\ \A j \in 1..Len(log) : log'[j] = log[j]
           /\ \A j \in 1..Len(log) : log[j].at \in Nat
           /\ log'[i].key = writer[w].request.key
           /\ log'[i].author = writer[w].request.author
           /\ log'[i].at = writer[w].request.at
           /\ writer[w].request.kind = "reply" =>
                 log'[i].words = writer[w].request.words /\ log'[i].via = "reply"
  <1> DEFINE r == writer[w].request
  <1>1 log \in Seq(LogMessage) /\ Len(log) \in Nat
    BY DEF LogInv, LogTyped
  <1>2 \A j \in 1..Len(log) : log[j].at \in Nat
    <2>1 \A j \in 1..Len(log) : log[j] \in LogMessage
      BY <1>1
    <2> QED
      BY <2>1, LogAssumption DEF LogMessage
  <1>3 CASE writer[w].found = 0 /\ log' = Append(log, AMessage(r)) /\ AMessage(r) \in LogMessage
            /\ i = Len(log) + 1
    <2>1 /\ Len(log') = Len(log) + 1
         /\ log'[i] = AMessage(r)
         /\ \A j \in 1..Len(log) : log'[j] = log[j]
      BY <1>1, <1>3, AppendMessage
    <2>2 /\ AMessage(r).key = r.key /\ AMessage(r).author = r.author /\ AMessage(r).at = r.at
         /\ AMessage(r).words = r.words /\ AMessage(r).via = r.kind
      BY DEF AMessage
    <2>3 1..Len(log') = 1..Len(log) \cup {i}
      BY <1>1, <1>3, <2>1
    <2> HIDE DEF r
    <2> QED
      BY <1>2, <2>1, <2>2, <2>3 DEF r
  <1>4 CASE writer[w].found = i /\ log' = log
    <2>1 /\ i \in 1..Len(log) /\ log[i].key = r.key /\ r.kind = "inbound"
         /\ writer[w].step # "idle"
      BY <1>4, LogAssumption DEF LogInv, WritersFit, WriterFits, LogIndices
    <2>2 r.key \in InboundKeys /\ r.author = "customer" /\ r.at = SentAt[r.key]
      BY <2>1 DEF LogInv, WritersFit, WriterFits, RequestFits
    <2>3 log[i].author = "customer" /\ log[i].at = SentAt[r.key]
      BY <2>1, <2>2 DEF LogInv, InboundRowsFit
    <2> QED
      BY <1>2, <1>4, <2>1, <2>2, <2>3
  <1> QED
    BY <1>3, <1>4

\* A commit leaves one message per key, its own, and accounts for the writers it
\* overlaps with.
LEMMA CommitKeeps ==
    ASSUME LogInv, NEW w \in Writers, CommitWrite(w)
    PROVE  LogInv'
  <1> DEFINE r == writer[w].request
  <1>1 /\ LogTyped'
       /\ writer[w].step = "insert"
       /\ rowHolder' \in {rowHolder, NoWriter} \ {w}
    BY CommitDoes DEF LogInv
  <1>2 PICK i \in LogIndices :
          /\ \/ /\ writer[w].found = 0
                /\ i = Len(log) + 1
                /\ Stored(r.key) = {}
                /\ AMessage(r) \in LogMessage
                /\ log' = Append(log, AMessage(r))
             \/ writer[w].found = i /\ log' = log
          /\ lastAt' = IF Advances(w) THEN r.at ELSE lastAt
          /\ overlapping' = overlapping \cup
               (IF writer[w].missed = {} THEN {} ELSE writer[w].missed \cup {i})
          /\ writer'[w].step = "idle" /\ writer'[w].request = r
          /\ writer'[w].found = 0 /\ writer'[w].answer = i
          /\ \A v \in Writers \ {w} :
                \/ /\ writer'[v] = writer[v]
                   /\ ~Busy(v) \/ (log' = log /\ lastAt' = lastAt)
                \/ /\ writer'[v].step = writer[v].step
                   /\ writer'[v].request = writer[v].request
                   /\ writer'[v].read = writer[v].read
                   /\ writer'[v].found = writer[v].found
                   /\ writer'[v].answer = writer[v].answer
                   /\ writer'[v].missed = writer[v].missed \cup {i}
    BY CommitDoes DEF LogInv
  <1>3 /\ 1..Len(log') = 1..Len(log) \cup {i}
       /\ \A j \in 1..Len(log) : log'[j] = log[j]
       /\ \A j \in 1..Len(log) : log[j].at \in Nat
       /\ log'[i].key = r.key /\ log'[i].author = r.author /\ log'[i].at = r.at
       /\ r.kind = "reply" => log'[i].words = r.words /\ log'[i].via = "reply"
    BY <1>2, CommitLog
  <1>4 WriterFits(writer[w]) /\ ReadFits(writer[w]) /\ RequestFits(r)
    BY <1>1 DEF LogInv, WritersFit, ReadsFit, WriterFits
  <1>5 r.at \in Nat /\ writer[w].read \in Nat /\ lastAt \in Nat
    <2>1 writer[w] \in WriterState /\ lastAt \in 0..MaxAt
      BY DEF LogInv, LogTyped
    <2> QED
      BY <1>4, <2>1, LogAssumption DEF WriterState, RequestFits, AnyRequest
  <1> HIDE DEF r
  <1>6 WritersFit'
    <2>1 WriterFits(writer[w])'
      BY <1>2, <1>3 DEF WriterFits
    <2>2 ASSUME NEW v \in Writers \ {w}
         PROVE  WriterFits(writer[v])'
      <3>1 WriterFits(writer[v])
        BY DEF LogInv, WritersFit
      <3>2 /\ writer'[v].step = writer[v].step /\ writer'[v].request = writer[v].request
           /\ writer'[v].found = writer[v].found /\ writer'[v].answer = writer[v].answer
        BY <1>2
      <3> QED
        BY <1>3, <3>1, <3>2 DEF WriterFits
    <2> QED
      BY <2>1, <2>2 DEF WritersFit
  <1>7 AnswersAreTheirOwn'
    <2>1 AnswerFits(writer[w])'
      BY <1>2, <1>3 DEF AnswerFits
    <2>2 ASSUME NEW v \in Writers \ {w}
         PROVE  AnswerFits(writer[v])'
      <3>1 WriterFits(writer[v]) /\ AnswerFits(writer[v])
        BY DEF LogInv, WritersFit, AnswersAreTheirOwn, AnswerFits
      <3>2 writer'[v].request = writer[v].request /\ writer'[v].answer = writer[v].answer
        BY <1>2
      <3> QED
        BY <1>3, <3>1, <3>2 DEF WriterFits, AnswerFits
    <2> QED
      BY <2>1, <2>2 DEF AnswersAreTheirOwn, AnswerFits
  <1>8 ReadsFit'
    <2>1 ReadFits(writer[w])'
      BY <1>2 DEF ReadFits
    <2>2 ASSUME NEW v \in Writers \ {w}
         PROVE  ReadFits(writer[v])'
      <3>1 ReadFits(writer[v])
        BY DEF LogInv, ReadsFit
      <3>2 overlapping \subseteq overlapping'
        BY <1>2
      <3>3 CASE writer'[v] = writer[v] /\ (~Busy(v) \/ (log' = log /\ lastAt' = lastAt))
        BY <3>1, <3>2, <3>3 DEF ReadFits, Busy
      <3>4 CASE /\ writer'[v].step = writer[v].step
                /\ writer'[v].read = writer[v].read
                /\ writer'[v].missed = writer[v].missed \cup {i}
        BY <1>3, <3>1, <3>2, <3>4 DEF ReadFits
      <3> QED
        BY <1>2, <3>3, <3>4
    <2> QED
      BY <2>1, <2>2 DEF ReadsFit
  <1>9 HolderFits'
    BY <1>1, <1>2 DEF LogInv, HolderFits, LogTyped
  <1>10 InboundRowsFit'
    <2>1 r.key \in InboundKeys => r.author = "customer" /\ r.at = SentAt[r.key]
      BY <1>4, LogAssumption DEF RequestFits, AnyRequest
    <2> QED
      BY <1>3, <2>1 DEF LogInv, InboundRowsFit
  <1>11 OneMessagePerKey'
    <2>1 CASE log' = log
      BY <2>1 DEF LogInv, OneMessagePerKey
    <2>2 CASE Stored(r.key) = {}
      <3>1 r.key = Keyless \/ \A j \in 1..Len(log) : log[j].key # r.key
        BY <2>2 DEF Stored
      <3> QED
        BY <1>3, <3>1 DEF LogInv, OneMessagePerKey
    <2> QED
      BY <1>2, <2>1, <2>2
  <1>12 LastMessageIsNewest'
    <2>1 Advances(w) <=> r.at > writer[w].read
      BY DEF Advances, r
    <2>2 /\ lastAt # 0 => \E j \in 1..Len(log) : log[j].at = lastAt
         /\ \A j \in 1..Len(log) : log[j].at <= lastAt \/ j \in overlapping
      BY DEF LogInv, LastMessageIsNewest
    <2>3 /\ writer[w].missed = {} => writer[w].read = lastAt
         /\ \A j \in 1..Len(log) :
               log[j].at <= writer[w].read \/ j \in overlapping \cup writer[w].missed
      BY <1>1, <1>4 DEF ReadFits
    <2>4 lastAt' # 0 => \E j \in 1..Len(log') : log'[j].at = lastAt'
      BY <1>2, <1>3, <2>2
    <2>5 ASSUME NEW j \in 1..Len(log), log[j].at > lastAt'
         PROVE  j \in overlapping'
      BY <1>2, <1>3, <1>5, <2>1, <2>2, <2>3, <2>5
    <2>6 r.at <= lastAt' \/ i \in overlapping'
      BY <1>2, <1>5, <2>1, <2>3
    <2>7 \A j \in 1..Len(log) : log'[j].at <= lastAt' \/ j \in overlapping'
      <3>1 lastAt' \in Nat
        BY <1>2, <1>5
      <3> QED
        BY <1>3, <2>5, <3>1
    <2> QED
      BY <1>3, <2>4, <2>6, <2>7 DEF LastMessageIsNewest
  <1> QED
    BY <1>1, <1>6, <1>7, <1>8, <1>9, <1>10, <1>11, <1>12 DEF LogInv

\* No step of a writer breaks the invariant.
LEMMA LogStep ==
    ASSUME LogInv, LogNext
    PROVE  LogInv'
  <1>1 PICK w \in Writers :
          \/ \E r \in LogRequests : LoadConversation(w, r)
          \/ LookUp(w) \/ SendReply(w) \/ CommitWrite(w) \/ LoseTheKey(w) \/ WriteFails(w)
    BY DEF LogNext
  <1>2 CASE LoseTheKey(w)
    <2>1 PICK i \in Stored(writer[w].request.key) :
            IF writer[w].request.kind = "reply" THEN Reuse(w, i) ELSE LeaveWith(w, 0)
      BY <1>2 DEF LoseTheKey
    <2>2 UNCHANGED <<log, lastAt, overlapping>>
      BY <1>2 DEF LoseTheKey
    <2> QED
      BY <2>1, <2>2, ReuseKeeps, LeaveKeeps
  <1>3 CASE WriteFails(w)
    BY <1>3, LeaveKeeps DEF WriteFails
  <1> QED
    BY <1>1, <1>2, <1>3, LoadKeeps, LookUpKeeps, SendKeeps, CommitKeeps

\* The conversation is empty at first.
LEMMA LogStart == LogInit => LogInv
  <1> SUFFICES ASSUME LogInit PROVE LogInv
    OBVIOUS
  <1>1 \A w \in Writers : writer[w] = [step |-> "idle", request |-> NoRequest, read |-> 0,
                                       missed |-> {}, found |-> 0, answer |-> 0]
    BY DEF LogInit, AtRest
  <1>2 LogTyped
    <2>1 [step |-> "idle", request |-> NoRequest, read |-> 0, missed |-> {}, found |-> 0,
          answer |-> 0] \in WriterState
      BY LogAssumption DEF WriterState, WriterSteps
    <2>2 writer \in [Writers -> WriterState]
      <3> HIDE DEF WriterState
      <3> QED
        BY <2>1 DEF LogInit, AtRest
    <2> QED
      BY <2>2, LogAssumption DEF LogInit, LogTyped
  <1>3 WritersFit /\ ReadsFit /\ AnswersAreTheirOwn
    BY <1>1 DEF WritersFit, WriterFits, ReadsFit, ReadFits, AnswersAreTheirOwn
  <1>4 HolderFits /\ InboundRowsFit /\ OneMessagePerKey /\ LastMessageIsNewest
    BY DEF LogInit, HolderFits, InboundRowsFit, OneMessagePerKey, LastMessageIsNewest
  <1> QED
    BY <1>2, <1>3, <1>4 DEF LogInv

\* It says what the rows are.
LEMMA LogTypes == LogInv => LogTypeOK
  <1> SUFFICES ASSUME LogInv PROVE LogTypeOK
    OBVIOUS
  <1>1 \A w \in Writers : /\ writer[w].step \in WriterSteps
                          /\ writer[w].read \in 0..MaxAt
                          /\ writer[w].missed \subseteq LogIndices
                          /\ writer[w].answer \in LogIndices \cup {0}
    BY DEF LogInv, LogTyped, WriterState
  <1> QED
    BY <1>1 DEF LogInv, LogTyped, LogTypeOK, LogMessage, HolderFits

-----------------------------------------------------------------------------
(* The prompts: what holds of the versions of one prompt, whatever is done   *)
(* to them.                                                                  *)

VersionRow == [status : VersionStatuses, content : Contents]

\* vs are the versions, fs the contents they were published with.
FrozenRows(vs, fs) ==
    \A v \in 1..Len(vs) : vs[v].status # "draft" => fs[v] = vs[v].content
OrderedRows(vs) ==
    \A v, w \in 1..Len(vs) :
        v < w => \/ vs[v].status = "archived"
                 \/ vs[v].status = "published" /\ vs[w].status = "draft"
RowsFit(vs, fs) ==
    /\ vs \in Seq(VersionRow) /\ fs \in Seq(Contents \cup {Null})
    /\ Len(fs) = Len(vs) /\ Len(vs) <= MaxVersions
    /\ FrozenRows(vs, fs) /\ OrderedRows(vs)

\* What is no draft stays what it is, but may be archived.
Grown(vs, fs, vs2, fs2) ==
    /\ Len(vs) <= Len(vs2)
    /\ \A v \in 1..Len(vs) : vs[v].status # "draft" =>
           /\ vs2[v].status # "draft"
           /\ vs2[v].content = vs[v].content
           /\ fs2[v] = fs[v]

\* The first version of a prompt is a draft.
LEMMA FirstDraft ==
    ASSUME NEW c \in Contents
    PROVE  LET vs == <<[status |-> "draft", content |-> c]>>
           IN  RowsFit(vs, <<Null>>) /\ vs # <<>>
  <1> DEFINE row == [status |-> "draft", content |-> c]
             vs == <<row>>
  <1>1 row \in VersionRow /\ row.status = "draft"
    BY DEF VersionRow, VersionStatuses
  <1> HIDE DEF row
  <1>2 /\ vs \in Seq(VersionRow) /\ Len(vs) = 1 /\ vs[1] = row /\ vs # <<>>
       /\ <<Null>> \in Seq(Contents \cup {Null}) /\ Len(<<Null>>) = 1
    BY <1>1
  <1>3 FrozenRows(vs, <<Null>>) /\ OrderedRows(vs)
    BY <1>1, <1>2 DEF FrozenRows, OrderedRows
  <1> HIDE DEF vs
  <1>4 RowsFit(vs, <<Null>>)
    BY <1>2, <1>3, PromptAssumption DEF RowsFit
  <1> QED
    BY <1>2, <1>4 DEF vs, row

\* Rewriting the text of a draft.
LEMMA RewriteDraft ==
    ASSUME NEW vs, NEW fs, RowsFit(vs, fs), NEW c \in Contents,
           NEW d \in 1..Len(vs), vs[d].status = "draft"
    PROVE  LET vs2 == [vs EXCEPT ![d].content = c]
           IN  RowsFit(vs2, fs) /\ Grown(vs, fs, vs2, fs) /\ (vs # <<>> => vs2 # <<>>)
  <1> DEFINE row == [vs[d] EXCEPT !.content = c]
             vs2 == [vs EXCEPT ![d] = row]
  <1>1 vs \in Seq(VersionRow) /\ vs[d] \in VersionRow
    BY DEF RowsFit
  <1>2 row \in VersionRow /\ row.status = "draft"
    BY <1>1 DEF VersionRow
  <1> HIDE DEF row
  <1>3 /\ vs2 \in Seq(VersionRow) /\ Len(vs2) = Len(vs) /\ vs2[d] = row
       /\ \A v \in 1..Len(vs) : v # d => vs2[v] = vs[v]
    BY <1>1, <1>2
  <1> HIDE DEF vs2
  <1>4 /\ \A v \in 1..Len(vs) : v # d \/ vs2[v].status = "draft"
       /\ \A v \in 1..Len(vs) : vs2[v].status = vs[v].status
    BY <1>2, <1>3
  <1>5 FrozenRows(vs2, fs) /\ OrderedRows(vs2)
    BY <1>3, <1>4 DEF RowsFit, FrozenRows, OrderedRows
  <1>6 RowsFit(vs2, fs)
    BY <1>3, <1>5 DEF RowsFit
  <1>7 Grown(vs, fs, vs2, fs)
    BY <1>1, <1>3, <1>4 DEF Grown
  <1>8 vs2 # <<>>
    BY <1>1, <1>3
  <1> QED
    BY <1>6, <1>7, <1>8 DEF vs2, row

\* Without a draft the next version becomes the draft.
LEMMA AppendDraft ==
    ASSUME NEW vs, NEW fs, RowsFit(vs, fs), NEW c \in Contents,
           \A v \in 1..Len(vs) : vs[v].status # "draft",
           Len(vs) < MaxVersions
    PROVE  LET vs2 == Append(vs, [status |-> "draft", content |-> c])
               fs2 == Append(fs, Null)
           IN  RowsFit(vs2, fs2) /\ Grown(vs, fs, vs2, fs2) /\ vs2 # <<>>
  <1> DEFINE row == [status |-> "draft", content |-> c]
             vs2 == Append(vs, row)
             fs2 == Append(fs, Null)
  <1>1 row \in VersionRow /\ row.status = "draft"
    BY DEF VersionRow, VersionStatuses
  <1> HIDE DEF row
  <1>2 vs \in Seq(VersionRow) /\ fs \in Seq(Contents \cup {Null}) /\ Len(fs) = Len(vs)
    BY DEF RowsFit
  <1>3 /\ vs2 \in Seq(VersionRow) /\ Len(vs2) = Len(vs) + 1 /\ vs2[Len(vs) + 1] = row
       /\ \A v \in 1..Len(vs) : vs2[v] = vs[v]
       /\ vs2 # <<>> /\ Len(vs) \in Nat
    <2>1 /\ vs2 \in Seq(VersionRow) /\ Len(vs2) = Len(vs) + 1 /\ vs2[Len(vs) + 1] = row
         /\ \A v \in 1..Len(vs) : vs2[v] = vs[v]
         /\ Len(vs) \in Nat
      BY <1>1, <1>2
    <2> HIDE DEF vs2
    <2> QED
      BY <2>1
  <1>4 /\ fs2 \in Seq(Contents \cup {Null}) /\ Len(fs2) = Len(vs2)
       /\ \A v \in 1..Len(vs) : fs2[v] = fs[v]
    BY <1>2, <1>3
  <1>5 \A v \in 1..Len(vs) : vs[v] \in VersionRow /\ vs[v].status \in VersionStatuses
    <2>1 \A v \in 1..Len(vs) : vs[v] \in VersionRow
      BY <1>2
    <2> QED
      BY <2>1 DEF VersionRow
  <1> HIDE DEF vs2, fs2
  <1>6 FrozenRows(vs2, fs2)
    BY <1>1, <1>3, <1>4 DEF RowsFit, FrozenRows
  <1>7 OrderedRows(vs2)
    <2> SUFFICES ASSUME NEW v \in 1..Len(vs2), NEW w \in 1..Len(vs2), v < w
                 PROVE  \/ vs2[v].status = "archived"
                        \/ vs2[v].status = "published" /\ vs2[w].status = "draft"
      BY DEF OrderedRows
    <2>1 CASE w = Len(vs) + 1
      BY <1>1, <1>3, <1>5, <2>1 DEF VersionStatuses
    <2>2 CASE w # Len(vs) + 1
      BY <1>3, <2>2 DEF RowsFit, OrderedRows
    <2> QED
      BY <2>1, <2>2
  <1>8 RowsFit(vs2, fs2)
    BY <1>2, <1>3, <1>4, <1>6, <1>7, PromptAssumption DEF RowsFit
  <1>9 Grown(vs, fs, vs2, fs2)
    BY <1>3, <1>4 DEF Grown
  <1> QED
    BY <1>3, <1>8, <1>9 DEF vs2, fs2, row

\* A draft is the last version; published, it is the only one that is.
LEMMA PublishDraft ==
    ASSUME NEW vs, NEW fs, RowsFit(vs, fs),
           NEW d \in 1..Len(vs), vs[d].status = "draft"
    PROVE  LET vs2 == [v \in 1..Len(vs) |->
                          IF v = d THEN [vs[v] EXCEPT !.status = "published"]
                          ELSE IF vs[v].status = "published"
                               THEN [vs[v] EXCEPT !.status = "archived"] ELSE vs[v]]
               fs2 == [fs EXCEPT ![d] = vs[d].content]
           IN  RowsFit(vs2, fs2) /\ Grown(vs, fs, vs2, fs2) /\ vs2 # <<>>
  <1> DEFINE row(v) == IF v = d THEN [vs[v] EXCEPT !.status = "published"]
                       ELSE IF vs[v].status = "published"
                            THEN [vs[v] EXCEPT !.status = "archived"] ELSE vs[v]
             vs2 == [v \in 1..Len(vs) |-> row(v)]
             fs2 == [fs EXCEPT ![d] = vs[d].content]
  <1>1 /\ vs \in Seq(VersionRow) /\ fs \in Seq(Contents \cup {Null}) /\ Len(fs) = Len(vs)
       /\ \A v \in 1..Len(vs) : vs[v] \in VersionRow
       /\ Len(vs) \in Nat
    BY DEF RowsFit
  <1>2 ASSUME NEW v \in 1..Len(vs)
       PROVE  /\ row(v) \in VersionRow
              /\ row(v).content = vs[v].content
              /\ v = d => row(v).status = "published"
              /\ v # d => row(v).status =
                     IF vs[v].status = "published" THEN "archived" ELSE vs[v].status
    BY <1>1 DEF VersionRow, VersionStatuses
  <1> HIDE DEF row
  <1>3 /\ vs2 \in Seq(VersionRow) /\ Len(vs2) = Len(vs)
       /\ \A v \in 1..Len(vs) : vs2[v] = row(v)
       /\ vs2 # <<>>
    <2>1 vs2 \in [1..Len(vs) -> VersionRow]
      BY <1>2
    <2>2 vs2 \in Seq(VersionRow) /\ Len(vs2) = Len(vs)
      BY <1>1, <2>1, IsASeq
    <2> QED
      BY <1>1, <2>2
  <1>4 /\ fs2 \in Seq(Contents \cup {Null}) /\ Len(fs2) = Len(vs2)
       /\ fs2[d] = vs[d].content
       /\ \A v \in 1..Len(vs) : v # d => fs2[v] = fs[v]
    <2>1 vs[d].content \in Contents
      BY <1>1 DEF VersionRow
    <2> QED
      BY <1>1, <1>3, <2>1
  <1> HIDE DEF vs2, fs2
  <1>5 FrozenRows(vs2, fs2)
    BY <1>2, <1>3, <1>4 DEF RowsFit, FrozenRows
  <1>6 OrderedRows(vs2)
    <2>1 \A v \in 1..Len(vs) : v <= d
      <3>1 \A v \in 1..Len(vs) : ~(d < v)
        BY DEF RowsFit, OrderedRows
      <3> QED
        BY <1>1, <3>1
    <2> SUFFICES ASSUME NEW v \in 1..Len(vs2), NEW w \in 1..Len(vs2), v < w
                 PROVE  vs2[v].status = "archived"
      BY DEF OrderedRows
    <2>2 v # d /\ v < d /\ v \in 1..Len(vs)
      BY <1>1, <1>3, <2>1
    <2>3 vs[v].status = "archived" \/ vs[v].status = "published"
      BY <2>2 DEF RowsFit, OrderedRows
    <2> QED
      BY <1>2, <1>3, <2>2, <2>3
  <1>7 RowsFit(vs2, fs2)
    BY <1>3, <1>4, <1>5, <1>6 DEF RowsFit
  <1>8 Grown(vs, fs, vs2, fs2)
    BY <1>1, <1>2, <1>3, <1>4 DEF Grown
  <1> QED
    BY <1>3, <1>7, <1>8 DEF vs2, fs2, row

-----------------------------------------------------------------------------
(* The prompts: their inductive invariant.                                   *)

Pins == [agent : Agents, prompt : Prompts, version : 1..MaxVersions]

\* A pin names a version that is no draft.
PinFits(vs, pin) ==
    /\ pin \in Pins
    /\ pin.version \in 1..Len(vs[pin.prompt])
    /\ vs[pin.prompt][pin.version].status # "draft"

PromptRowsTyped ==
    /\ DOMAIN versions = Prompts /\ DOMAIN frozen = Prompts
    /\ edraft \in [Editors -> Nat \cup {Null}]
    /\ pmsg \in [PromptWorkers -> Inbounds \cup {Null}]
    /\ DOMAIN pread = PromptWorkers

VersionsFit == \A p \in Prompts : RowsFit(versions[p], frozen[p])

\* An editor at work holds the row of its prompt, and the draft it found there
\* is still the draft.
EditorsFit ==
    \A e \in Editors, p \in Prompts :
        epc[e].op # "idle" /\ epc[e].prompt = p =>
            lockOf[p] = e /\ versions[p] # <<>> /\ edraft[e] = DraftOf(p)

\* What an agent and the assignment refer to is there.
AgentsFit ==
    /\ \A a \in Agents : agents[a] # Null => versions[agents[a].prompt] # <<>>
    /\ assigned # Null => agents[assigned] # Null

\* What a worker has read so far.
WorkersFit ==
    \A w \in PromptWorkers :
        /\ ppc[w] # "idle" => pmsg[w] \in Inbounds
        /\ ppc[w] = "agent" => pread[w] \in [agent : Agents] /\ agents[pread[w].agent] # Null
        /\ ppc[w] = "version" => pread[w] \in [agent : Agents, prompt : Prompts]
        /\ ppc[w] = "insert" => PinFits(versions, pread[w])
        /\ ppc[w] = "load" => pinned[pmsg[w]] # Null

PinnedFit == \A m \in Inbounds : pinned[m] # Null => PinFits(versions, pinned[m])

\* A message was generated with what its run is pinned to, and nothing else.
UsedIsPinned ==
    \A m \in Inbounds :
        used[m] # {} =>
            pinned[m] # Null /\ used[m] = {frozen[pinned[m].prompt][pinned[m].version]}

PromptInv ==
    /\ PromptTypeOK /\ PromptRowsTyped
    /\ VersionsFit
    /\ EditorsFit
    /\ AgentsFit
    /\ WorkersFit
    /\ PinnedFit
    /\ UsedIsPinned

\* No step takes a version back.
VersionsGrow ==
    \A p \in Prompts : /\ Grown(versions[p], frozen[p], versions'[p], frozen'[p])
                       /\ versions[p] # <<>> => versions'[p] # <<>>

\* The draft of a prompt is one of its versions, or there is none.
LEMMA DraftFound ==
    ASSUME NEW p, Len(versions[p]) \in Nat
    PROVE  /\ DraftOf(p) # Null => /\ DraftOf(p) \in 1..Len(versions[p])
                                   /\ versions[p][DraftOf(p)].status = "draft"
           /\ DraftOf(p) = Null => \A v \in 1..Len(versions[p]) : versions[p][v].status # "draft"
           /\ DraftOf(p) \in Nat \cup {Null}
  <1> DEFINE S == WithStatus(p, "draft")
  <1>1 S \subseteq 1..Len(versions[p]) /\ \A v \in S : versions[p][v].status = "draft"
    BY DEF WithStatus
  <1>2 \A v \in 1..Len(versions[p]) : versions[p][v].status = "draft" => v \in S
    BY DEF WithStatus
  <1>3 DraftOf(p) = IF S = {} THEN Null ELSE CHOOSE v \in S : TRUE
    BY DEF DraftOf, TheOne
  <1> HIDE DEF S
  <1>4 CASE S = {}
    BY <1>2, <1>3, <1>4
  <1>5 CASE S # {}
    <2>1 DraftOf(p) \in S
      BY <1>3, <1>5
    <2>2 DraftOf(p) \in 1..Len(versions[p]) /\ DraftOf(p) # Null
      BY <1>1, <2>1, PromptAssumption
    <2> QED
      BY <1>1, <2>1, <2>2
  <1> QED
    BY <1>4, <1>5

\* It depends on the versions of the prompt only.
LEMMA SameDraft ==
    ASSUME NEW p, versions'[p] = versions[p]
    PROVE  DraftOf(p)' = DraftOf(p)
  BY DEF DraftOf, TheOne, WithStatus

\* The published version is one of the versions.
LEMMA PublishedFound ==
    ASSUME NEW p, Len(versions[p]) \in Nat, PublishedOf(p) # Null
    PROVE  /\ PublishedOf(p) \in 1..Len(versions[p])
           /\ versions[p][PublishedOf(p)].status = "published"
  <1> DEFINE S == WithStatus(p, "published")
  <1>1 S \subseteq 1..Len(versions[p]) /\ \A v \in S : versions[p][v].status = "published"
    BY DEF WithStatus
  <1>2 S # {} /\ PublishedOf(p) = CHOOSE v \in S : TRUE
    BY DEF PublishedOf, TheOne
  <1> HIDE DEF S
  <1> QED
    BY <1>1, <1>2

\* What the handlers write into the versions keeps them fit.
LEMMA VersionsStep ==
    ASSUME PromptInv, PromptNext
    PROVE  /\ VersionsFit' /\ VersionsGrow
           /\ DOMAIN versions' = Prompts /\ DOMAIN frozen' = Prompts
  <1> DEFINE Goal == /\ VersionsFit' /\ VersionsGrow
                     /\ DOMAIN versions' = Prompts /\ DOMAIN frozen' = Prompts
  <1>1 ASSUME NEW p \in Prompts
       PROVE  /\ RowsFit(versions[p], frozen[p])
              /\ Len(versions[p]) \in Nat
              /\ Grown(versions[p], frozen[p], versions[p], frozen[p])
    <2>1 RowsFit(versions[p], frozen[p])
      BY DEF PromptInv, VersionsFit
    <2> QED
      BY <2>1 DEF RowsFit, Grown
  <1>2 DOMAIN versions = Prompts /\ DOMAIN frozen = Prompts
    BY DEF PromptInv, PromptRowsTyped
  <1>3 CASE UNCHANGED <<versions, frozen>>
    BY <1>1, <1>2, <1>3 DEF VersionsFit, VersionsGrow
  <1>4 ASSUME NEW p \in Prompts, NEW vs, NEW fs,
              versions' = [versions EXCEPT ![p] = vs],
              frozen' = [frozen EXCEPT ![p] = fs] \/ (frozen' = frozen /\ frozen[p] = fs),
              RowsFit(vs, fs), Grown(versions[p], frozen[p], vs, fs),
              versions[p] # <<>> => vs # <<>>
       PROVE  Goal
    <2>1 versions'[p] = vs /\ frozen'[p] = fs
      BY <1>2, <1>4
    <2>2 \A o \in Prompts \ {p} : versions'[o] = versions[o] /\ frozen'[o] = frozen[o]
      BY <1>2, <1>4
    <2>3 DOMAIN versions' = Prompts /\ DOMAIN frozen' = Prompts
      BY <1>2, <1>4
    <2> QED
      BY <1>1, <1>4, <2>1, <2>2, <2>3 DEF VersionsFit, VersionsGrow
  <1>5 ASSUME NEW p \in Prompts, NEW c \in Contents, CreatePrompt(p, c)
       PROVE  Goal
    <2> DEFINE vs == <<[status |-> "draft", content |-> c]>>
    <2>1 /\ versions[p] = <<>>
         /\ versions' = [versions EXCEPT ![p] = vs]
         /\ frozen' = [frozen EXCEPT ![p] = <<Null>>]
      BY <1>5 DEF CreatePrompt
    <2>2 RowsFit(vs, <<Null>>) /\ Len(vs) = 1
      BY FirstDraft
    <2>3 Grown(versions[p], frozen[p], vs, <<Null>>)
      BY <2>1, <2>2 DEF Grown
    <2> HIDE DEF vs
    <2> QED
      BY <1>4, <2>1, <2>2, <2>3
  <1>6 ASSUME NEW e \in Editors, NEW p \in Prompts, NEW c \in Contents, PutPromptDraft(e, p, c)
       PROVE  Goal
    <2>1 edraft[e] = DraftOf(p) /\ versions[p] # <<>>
      <3>1 epc[e].op # "idle" /\ epc[e].prompt = p
        BY <1>6 DEF PutPromptDraft, Drafting
      <3> QED
        BY <3>1 DEF PromptInv, EditorsFit
    <2>2 CASE edraft[e] # Null
      <3> DEFINE vs == [versions[p] EXCEPT ![edraft[e]].content = c]
      <3>1 edraft[e] \in 1..Len(versions[p]) /\ versions[p][edraft[e]].status = "draft"
        BY <1>1, <2>1, <2>2, DraftFound
      <3>2 /\ versions' = [versions EXCEPT ![p] = vs]
           /\ frozen' = frozen
        BY <1>2, <1>6, <2>2 DEF PutPromptDraft
      <3>3 RowsFit(vs, frozen[p]) /\ Grown(versions[p], frozen[p], vs, frozen[p]) /\ vs # <<>>
        BY <1>1, <2>1, <3>1, RewriteDraft
      <3> HIDE DEF vs
      <3> QED
        BY <1>4, <3>2, <3>3
    <2>3 CASE edraft[e] = Null
      <3> DEFINE vs == Append(versions[p], [status |-> "draft", content |-> c])
                 fs == Append(frozen[p], Null)
      <3>1 \A v \in 1..Len(versions[p]) : versions[p][v].status # "draft"
        BY <1>1, <2>1, <2>3, DraftFound
      <3>2 /\ versions' = [versions EXCEPT ![p] = vs]
           /\ frozen' = [frozen EXCEPT ![p] = fs]
           /\ Len(versions[p]) < MaxVersions
        BY <1>6, <2>3 DEF PutPromptDraft
      <3>3 RowsFit(vs, fs) /\ Grown(versions[p], frozen[p], vs, fs) /\ vs # <<>>
        BY <1>1, <3>1, <3>2, AppendDraft
      <3> HIDE DEF vs, fs
      <3> QED
        BY <1>4, <3>2, <3>3
    <2> QED
      BY <2>2, <2>3
  <1>7 ASSUME NEW e \in Editors, NEW p \in Prompts, PublishPrompt(e, p)
       PROVE  Goal
    <2>1 edraft[e] = DraftOf(p)
      <3>1 epc[e].op # "idle" /\ epc[e].prompt = p
        BY <1>7 DEF PublishPrompt, Publishing
      <3> QED
        BY <3>1 DEF PromptInv, EditorsFit
    <2>2 CASE edraft[e] # Null
      <3> DEFINE d == edraft[e]
                 vs == [v \in 1..Len(versions[p]) |->
                          IF v = d THEN [versions[p][v] EXCEPT !.status = "published"]
                          ELSE IF versions[p][v].status = "published"
                               THEN [versions[p][v] EXCEPT !.status = "archived"]
                               ELSE versions[p][v]]
                 fs == [frozen[p] EXCEPT ![d] = versions[p][d].content]
      <3>1 edraft[e] \in 1..Len(versions[p]) /\ versions[p][edraft[e]].status = "draft"
        BY <1>1, <2>1, <2>2, DraftFound
      <3>2 versions' = [versions EXCEPT ![p] = vs] /\ frozen' = [frozen EXCEPT ![p] = fs]
        BY <1>7, <2>2 DEF PublishPrompt
      <3>3 RowsFit(vs, fs) /\ Grown(versions[p], frozen[p], vs, fs) /\ vs # <<>>
        BY <1>1, <3>1, PublishDraft
      <3> HIDE DEF vs, fs
      <3> QED
        BY <1>4, <3>2, <3>3
    <2> QED
      BY <1>3, <1>7, <2>2 DEF PublishPrompt
  <1>8 ASSUME NEW e \in Editors, NEW p \in Prompts, NEW work, LockPrompt(e, p, work)
       PROVE  Goal
    BY <1>3, <1>8 DEF LockPrompt, promptRows
  <1>9 ASSUME \/ \E a \in Agents : \/ \E p \in Prompts, b \in BOOLEAN : PutAgent(a, p, b)
                                   \/ PutChannelAssignment(a)
              \/ DeleteChannelAssignment
       PROVE  Goal
    <2>1 UNCHANGED <<versions, frozen>>
      BY <1>9 DEF PutAgent, PutChannelAssignment, DeleteChannelAssignment
    <2> QED
      BY <1>3, <2>1
  <1>10 ASSUME NEW w \in PromptWorkers, PinningStep(w)
        PROVE  Goal
    <2>1 UNCHANGED <<versions, frozen>>
      BY <1>10 DEF PinningStep, StartRun, ReadAgent, ReadPublished, PinVersion, LoadSnapshot, promptRows
    <2> QED
      BY <1>3, <2>1
  <1> HIDE DEF Goal
  <1>11 Goal
    BY <1>5, <1>6, <1>7, <1>8, <1>9, <1>10 DEF PromptNext, ManagerStep
  <1> QED
    BY <1>11 DEF Goal

\* Types are preserved.
LEMMA PromptTypeStep ==
    ASSUME PromptInv, PromptNext
    PROVE  PromptTypeOK' /\ PromptRowsTyped'
  <1> DEFINE Rest == /\ agents' \in [Agents -> [prompt : Prompts, active : BOOLEAN] \cup {Null}]
                     /\ assigned' \in Agents \cup {Null}
                     /\ lockOf' \in [Prompts -> Editors \cup {Null}]
                     /\ epc' \in [Editors -> [op : {"idle", "draft", "publish"},
                                    prompt : Prompts \cup {Null}, content : Contents \cup {Null}]]
                     /\ requests' \in 0..MaxRequests
                     /\ edraft' \in [Editors -> Nat \cup {Null}]
             Runs == /\ pinned' \in [Inbounds -> [agent : Agents, prompt : Prompts,
                                         version : 1..MaxVersions] \cup {Null}]
                     /\ used' \in [Inbounds -> SUBSET Contents]
                     /\ ppc' \in [PromptWorkers -> {"idle", "agent", "version", "insert", "load"}]
                     /\ pmsg' \in [PromptWorkers -> Inbounds \cup {Null}]
                     /\ DOMAIN pread' = PromptWorkers
  <1>1 /\ agents \in [Agents -> [prompt : Prompts, active : BOOLEAN] \cup {Null}]
       /\ assigned \in Agents \cup {Null}
       /\ lockOf \in [Prompts -> Editors \cup {Null}]
       /\ epc \in [Editors -> [op : {"idle", "draft", "publish"},
                               prompt : Prompts \cup {Null}, content : Contents \cup {Null}]]
       /\ requests \in 0..MaxRequests
       /\ edraft \in [Editors -> Nat \cup {Null}]
    BY DEF PromptInv, PromptTypeOK, PromptRowsTyped
  <1>2 /\ pinned \in [Inbounds -> [agent : Agents, prompt : Prompts,
                                   version : 1..MaxVersions] \cup {Null}]
       /\ used \in [Inbounds -> SUBSET Contents]
       /\ ppc \in [PromptWorkers -> {"idle", "agent", "version", "insert", "load"}]
       /\ pmsg \in [PromptWorkers -> Inbounds \cup {Null}]
       /\ DOMAIN pread = PromptWorkers
    BY DEF PromptInv, PromptTypeOK, PromptRowsTyped
  <1>3 ASSUME NEW e \in Editors, NEW p \in Prompts, LockPrompt(e, p, Publishing(p))
       PROVE  Rest
    <2>1 DraftOf(p) \in Nat \cup {Null}
      BY DraftFound DEF PromptInv, PromptTypeOK
    <2>2 Publishing(p) \in [op : {"idle", "draft", "publish"},
                            prompt : Prompts \cup {Null}, content : Contents \cup {Null}]
      BY DEF Publishing
    <2> QED
      BY <1>1, <1>3, <2>1, <2>2, PromptAssumption DEF LockPrompt, Request, promptRows
  <1>4 ASSUME NEW e \in Editors, NEW p \in Prompts, NEW c \in Contents, LockPrompt(e, p, Drafting(p, c))
       PROVE  Rest
    <2>1 DraftOf(p) \in Nat \cup {Null}
      BY DraftFound DEF PromptInv, PromptTypeOK
    <2>2 Drafting(p, c) \in [op : {"idle", "draft", "publish"},
                             prompt : Prompts \cup {Null}, content : Contents \cup {Null}]
      BY DEF Drafting
    <2> QED
      BY <1>1, <1>4, <2>1, <2>2, PromptAssumption DEF LockPrompt, Request, promptRows
  <1>5 ASSUME NEW e \in Editors, NEW p \in Prompts, ReleasePrompt(e, p), UNCHANGED <<agents, assigned>>
       PROVE  Rest
    <2>1 Resting \in [op : {"idle", "draft", "publish"},
                      prompt : Prompts \cup {Null}, content : Contents \cup {Null}]
      BY DEF Resting
    <2> QED
      BY <1>1, <1>5, <2>1 DEF ReleasePrompt
  <1>6 ASSUME NEW p \in Prompts, NEW c \in Contents, CreatePrompt(p, c)
       PROVE  Rest
    BY <1>1, <1>6, PromptAssumption DEF CreatePrompt, Request
  <1>7 ASSUME NEW a \in Agents, NEW p \in Prompts, NEW b \in BOOLEAN, PutAgent(a, p, b)
       PROVE  Rest
    <2>1 [prompt |-> p, active |-> b] \in [prompt : Prompts, active : BOOLEAN]
      OBVIOUS
    <2> QED
      BY <1>1, <1>7, <2>1, PromptAssumption DEF PutAgent, Request
  <1>8 ASSUME NEW a \in Agents, PutChannelAssignment(a)
       PROVE  Rest
    BY <1>1, <1>8, PromptAssumption DEF PutChannelAssignment, Request
  <1>9 ASSUME DeleteChannelAssignment
       PROVE  Rest
    BY <1>1, <1>9, PromptAssumption DEF DeleteChannelAssignment, Request
  <1>10 ASSUME UNCHANGED <<agents, assigned, editorVars>>
        PROVE  Rest
    BY <1>1, <1>10 DEF editorVars
  <1>11 ManagerStep => Rest
    <2> HIDE DEF Rest
    <2> QED
      BY <1>3, <1>4, <1>5, <1>6, <1>7, <1>8, <1>9 DEF ManagerStep, PutPromptDraft, PublishPrompt
  <1>12 ASSUME UNCHANGED pinningVars
        PROVE  Runs
    BY <1>2, <1>12 DEF pinningVars
  <1>13 ManagerStep => Runs
    <2> HIDE DEF Runs
    <2> QED
      BY ZenonT(60), <1>12 DEF ManagerStep, LockPrompt, PutPromptDraft, PublishPrompt, CreatePrompt, PutAgent,
        PutChannelAssignment, DeleteChannelAssignment
  <1>14 ASSUME NEW w \in PromptWorkers, PLeave(w), UNCHANGED <<pinned, used>>
        PROVE  Runs
    BY <1>2, <1>14 DEF PLeave, PGoto
  <1>15 ASSUME NEW w \in PromptWorkers, PinningStep(w)
        PROVE  Runs
    <2>1 ASSUME NEW m \in Inbounds, StartRun(w, m)
         PROVE  Runs
      BY <1>2, <2>1 DEF StartRun, PGoto
    <2>2 CASE ReadAgent(w)
      BY <1>2, <1>14, <2>2 DEF ReadAgent, PGoto
    <2>3 CASE ReadPublished(w)
      BY <1>2, <1>14, <2>3 DEF ReadPublished, PGoto
    <2>4 CASE PinVersion(w)
      <3>1 pread[w] \in Pins /\ pmsg[w] \in Inbounds
        BY <2>4 DEF PinVersion, PromptInv, WorkersFit, PinFits
      <3>2 CASE pinned[pmsg[w]] = Null
        BY <1>2, <2>4, <3>1, <3>2 DEF PinVersion, PGoto, Pins
      <3>3 CASE pinned[pmsg[w]] # Null
        BY <1>2, <1>14, <2>4, <3>3 DEF PinVersion
      <3> QED
        BY <3>2, <3>3
    <2>5 CASE LoadSnapshot(w)
      <3>1 /\ pmsg[w] \in Inbounds /\ pinned[pmsg[w]] # Null
           /\ PinFits(versions, pinned[pmsg[w]])
        BY <2>5 DEF LoadSnapshot, PromptInv, WorkersFit, PinnedFit
      <3> DEFINE pin == pinned[pmsg[w]]
      <3>2 versions[pin.prompt][pin.version].content \in Contents
        <4>1 pin.prompt \in Prompts /\ pin.version \in 1..Len(versions[pin.prompt])
          BY <3>1 DEF PinFits, Pins
        <4>2 versions[pin.prompt][pin.version] \in VersionRow
          BY <4>1 DEF PromptInv, VersionsFit, RowsFit
        <4> QED
          BY <4>2 DEF VersionRow
      <3>3 used' = [used EXCEPT ![pmsg[w]] = @ \cup {versions[pin.prompt][pin.version].content}]
        BY <2>5 DEF LoadSnapshot
      <3> HIDE DEF pin
      <3>4 used' \in [Inbounds -> SUBSET Contents]
        BY <1>2, <3>1, <3>2, <3>3
      <3>5 /\ ppc' = [ppc EXCEPT ![w] = "idle"]
           /\ pmsg' = [pmsg EXCEPT ![w] = Null]
           /\ pread' = [pread EXCEPT ![w] = Null]
           /\ pinned' = pinned
        BY <2>5 DEF LoadSnapshot, PLeave, PGoto
      <3> QED
        BY <1>2, <3>4, <3>5
    <2> HIDE DEF Runs
    <2> QED
      BY <1>15, <2>1, <2>2, <2>3, <2>4, <2>5 DEF PinningStep
  <1>16 ASSUME NEW w \in PromptWorkers, PinningStep(w)
        PROVE  Rest
    <2>1 UNCHANGED <<agents, assigned, editorVars>>
      BY <1>16 DEF PinningStep, StartRun, ReadAgent, ReadPublished, PinVersion, LoadSnapshot, promptRows
    <2> QED
      BY <1>10, <2>1
  <1>17 Rest /\ Runs
    <2> HIDE DEF Rest, Runs
    <2> QED
      BY <1>11, <1>13, <1>15, <1>16 DEF PromptNext
  <1>18 /\ \A p \in Prompts : versions'[p] \in Seq([status : VersionStatuses, content : Contents])
        /\ DOMAIN versions' = Prompts /\ DOMAIN frozen' = Prompts
    BY VersionsStep DEF VersionsFit, RowsFit, VersionRow
  <1> QED
    BY <1>17, <1>18 DEF PromptTypeOK, PromptRowsTyped

\* An editor keeps the draft it found as long as it holds the row.
LEMMA EditorsStep ==
    ASSUME PromptInv, PromptNext
    PROVE  EditorsFit'
  <1>1 /\ lockOf \in [Prompts -> Editors \cup {Null}]
       /\ edraft \in [Editors -> Nat \cup {Null}]
       /\ DOMAIN epc = Editors /\ DOMAIN versions = Prompts
       /\ EditorsFit
    BY DEF PromptInv, PromptTypeOK, PromptRowsTyped
  <1>2 CASE UNCHANGED <<versions, lockOf, epc, edraft>>
    BY <1>1, <1>2, SameDraft DEF EditorsFit
  <1>3 ASSUME NEW p \in Prompts, NEW c \in Contents, CreatePrompt(p, c)
       PROVE  EditorsFit'
    <2>1 versions[p] = <<>> /\ \A o \in Prompts \ {p} : versions'[o] = versions[o]
      BY <1>1, <1>3 DEF CreatePrompt
    <2>2 UNCHANGED <<lockOf, epc, edraft>>
      BY <1>3 DEF CreatePrompt
    <2> QED
      BY <1>1, <2>1, <2>2, SameDraft DEF EditorsFit
  <1>4 ASSUME NEW e \in Editors, NEW p \in Prompts, NEW work,
              work.prompt = p, LockPrompt(e, p, work)
       PROVE  EditorsFit'
    <2>1 /\ versions' = versions /\ versions[p] # <<>> /\ lockOf[p] = Null
         /\ lockOf' = [lockOf EXCEPT ![p] = e]
         /\ epc' = [epc EXCEPT ![e] = work]
         /\ edraft' = [edraft EXCEPT ![e] = DraftOf(p)]
         /\ epc[e] = Resting
      BY <1>4 DEF LockPrompt, promptRows
    <2>2 \A o \in Prompts : DraftOf(o)' = DraftOf(o)
      BY <2>1, SameDraft
    <2>3 e # Null
      BY PromptAssumption
    <2> SUFFICES ASSUME NEW ed \in Editors, NEW o \in Prompts,
                        epc'[ed].op # "idle", epc'[ed].prompt = o
                 PROVE  lockOf'[o] = ed /\ versions'[o] # <<>> /\ edraft'[ed] = DraftOf(o)'
      BY DEF EditorsFit
    <2>4 CASE ed = e
      <3>1 epc'[ed] = work /\ o = p
        BY <1>1, <1>4, <2>1, <2>4
      <3> QED
        BY <1>1, <2>1, <2>2, <2>4, <3>1
    <2>5 CASE ed # e
      <3>1 epc'[ed] = epc[ed] /\ edraft'[ed] = edraft[ed]
        BY <1>1, <2>1, <2>5
      <3>2 lockOf[o] = ed /\ versions[o] # <<>> /\ edraft[ed] = DraftOf(o)
        BY <1>1, <3>1 DEF EditorsFit
      <3>3 o # p
        BY <2>1, <3>2, PromptAssumption
      <3> QED
        BY <1>1, <2>1, <2>2, <3>1, <3>2, <3>3
    <2> QED
      BY <2>4, <2>5
  <1>5 ASSUME NEW e \in Editors, NEW p \in Prompts,
              epc[e].op # "idle", epc[e].prompt = p, ReleasePrompt(e, p),
              \A o \in Prompts \ {p} : versions'[o] = versions[o]
       PROVE  EditorsFit'
    <2>1 lockOf[p] = e
      BY <1>1, <1>5 DEF EditorsFit
    <2>2 /\ lockOf' = [lockOf EXCEPT ![p] = Null]
         /\ epc' = [epc EXCEPT ![e] = Resting]
         /\ edraft' = [edraft EXCEPT ![e] = Null]
      BY <1>5 DEF ReleasePrompt
    <2>3 Resting.op = "idle"
      BY DEF Resting
    <2> SUFFICES ASSUME NEW ed \in Editors, NEW o \in Prompts,
                        epc'[ed].op # "idle", epc'[ed].prompt = o
                 PROVE  lockOf'[o] = ed /\ versions'[o] # <<>> /\ edraft'[ed] = DraftOf(o)'
      BY DEF EditorsFit
    <2>4 ed # e
      BY <1>1, <2>2, <2>3
    <2>5 epc'[ed] = epc[ed] /\ edraft'[ed] = edraft[ed]
      BY <1>1, <2>2, <2>4
    <2>6 lockOf[o] = ed /\ versions[o] # <<>> /\ edraft[ed] = DraftOf(o)
      BY <1>1, <2>5 DEF EditorsFit
    <2>7 o # p /\ versions'[o] = versions[o]
      BY <1>5, <2>1, <2>4, <2>6
    <2>8 DraftOf(o)' = DraftOf(o)
      BY <2>7, SameDraft
    <2> QED
      BY <1>1, <2>2, <2>5, <2>6, <2>7, <2>8
  <1>6 ASSUME NEW e \in Editors, NEW p \in Prompts, NEW c \in Contents, PutPromptDraft(e, p, c)
       PROVE  EditorsFit'
    <2>1 epc[e].op # "idle" /\ epc[e].prompt = p /\ ReleasePrompt(e, p)
      BY <1>6 DEF PutPromptDraft, Drafting
    <2>2 \A o \in Prompts \ {p} : versions'[o] = versions[o]
      BY <1>1, <1>6 DEF PutPromptDraft
    <2> QED
      BY <1>5, <2>1, <2>2
  <1>7 ASSUME NEW e \in Editors, NEW p \in Prompts, PublishPrompt(e, p)
       PROVE  EditorsFit'
    <2>1 epc[e].op # "idle" /\ epc[e].prompt = p /\ ReleasePrompt(e, p)
      BY <1>7 DEF PublishPrompt, Publishing
    <2>2 \A o \in Prompts \ {p} : versions'[o] = versions[o]
      BY <1>1, <1>7 DEF PublishPrompt
    <2> QED
      BY <1>5, <2>1, <2>2
  <1>8 ASSUME \/ \E a \in Agents : \/ \E p \in Prompts, b \in BOOLEAN : PutAgent(a, p, b)
                                   \/ PutChannelAssignment(a)
              \/ DeleteChannelAssignment
              \/ \E w \in PromptWorkers : PinningStep(w)
       PROVE  EditorsFit'
    <2>1 ASSUME NEW w \in PromptWorkers, PinningStep(w)
         PROVE  UNCHANGED <<versions, lockOf, epc, edraft>>
      BY <2>1 DEF PinningStep, StartRun, ReadAgent, ReadPublished, PinVersion, LoadSnapshot,
        promptRows, editorVars
    <2>2 UNCHANGED <<versions, lockOf, epc, edraft>>
      BY <1>8, <2>1 DEF PutAgent, PutChannelAssignment, DeleteChannelAssignment
    <2> QED
      BY <1>2, <2>2
  <1>9 ASSUME NEW p \in Prompts, NEW c \in Contents
       PROVE  Drafting(p, c).prompt = p /\ Publishing(p).prompt = p
    BY DEF Drafting, Publishing
  <1>10 \A p \in Prompts : Publishing(p).prompt = p
    BY DEF Publishing
  <1> QED
    BY <1>3, <1>4, <1>6, <1>7, <1>8, <1>9, <1>10 DEF PromptNext, ManagerStep

\* Prompts and agents stay, once they are there.
LEMMA AgentsStep ==
    ASSUME PromptInv, PromptNext
    PROVE  /\ AgentsFit'
           /\ \A a \in Agents : agents[a] # Null => agents'[a] # Null
  <1>1 /\ agents \in [Agents -> [prompt : Prompts, active : BOOLEAN] \cup {Null}]
       /\ assigned \in Agents \cup {Null}
       /\ AgentsFit
    BY DEF PromptInv, PromptTypeOK
  <1>2 \A p \in Prompts : versions[p] # <<>> => versions'[p] # <<>>
    BY VersionsStep DEF VersionsGrow
  <1>3 \A a \in Agents : agents[a] # Null => agents[a].prompt \in Prompts
    BY <1>1
  <1>4 CASE UNCHANGED <<agents, assigned>>
    BY <1>1, <1>2, <1>3, <1>4 DEF AgentsFit
  <1>5 ASSUME NEW a \in Agents, NEW p \in Prompts, NEW b \in BOOLEAN, PutAgent(a, p, b)
       PROVE  /\ AgentsFit'
              /\ \A k \in Agents : agents[k] # Null => agents'[k] # Null
    <2>1 /\ agents'[a] = [prompt |-> p, active |-> b]
         /\ \A k \in Agents \ {a} : agents'[k] = agents[k]
         /\ assigned' = assigned /\ versions' = versions /\ versions[p] # <<>>
      BY <1>1, <1>5 DEF PutAgent
    <2>2 agents'[a] # Null /\ agents'[a].prompt = p
      BY <2>1, PromptAssumption
    <2> QED
      BY <1>1, <1>2, <1>3, <2>1, <2>2 DEF AgentsFit
  <1>6 ASSUME NEW a \in Agents, PutChannelAssignment(a)
       PROVE  AgentsFit' /\ agents' = agents
    BY <1>1, <1>6 DEF AgentsFit, PutChannelAssignment
  <1>7 CASE DeleteChannelAssignment
    BY <1>1, <1>7 DEF AgentsFit, DeleteChannelAssignment
  <1>8 ASSUME \/ \E p \in Prompts, c \in Contents : CreatePrompt(p, c)
              \/ \E e \in Editors, p \in Prompts :
                    \/ LockPrompt(e, p, Publishing(p)) \/ PublishPrompt(e, p)
                    \/ \E c \in Contents :
                           LockPrompt(e, p, Drafting(p, c)) \/ PutPromptDraft(e, p, c)
       PROVE  UNCHANGED <<agents, assigned>>
    BY ZenonT(60), <1>8 DEF CreatePrompt, LockPrompt, PutPromptDraft, PublishPrompt, promptRows
  <1>9 ASSUME NEW w \in PromptWorkers, PinningStep(w)
       PROVE  UNCHANGED <<agents, assigned>>
    BY <1>9 DEF PinningStep, StartRun, ReadAgent, ReadPublished, PinVersion, LoadSnapshot, promptRows
  <1>10 CASE ManagerStep
    <2>1 CASE \E a \in Agents, p \in Prompts, b \in BOOLEAN : PutAgent(a, p, b)
      BY <1>5, <2>1
    <2>2 CASE \E a \in Agents : PutChannelAssignment(a)
      BY <1>6, <2>2
    <2>3 CASE DeleteChannelAssignment
      BY <1>7, <2>3 DEF DeleteChannelAssignment
    <2> QED
      BY <1>4, <1>8, <1>10, <2>1, <2>2, <2>3 DEF ManagerStep
  <1> QED
    BY <1>4, <1>9, <1>10 DEF PromptNext

\* A pin keeps the text it was published with.
LEMMA PinKept ==
    ASSUME PromptInv, PromptNext, NEW pin, PinFits(versions, pin)
    PROVE  /\ PinFits(versions', pin)
           /\ frozen'[pin.prompt][pin.version] = frozen[pin.prompt][pin.version]
  <1> DEFINE p == pin.prompt
             v == pin.version
  <1>1 pin \in Pins /\ p \in Prompts /\ v \in 1..Len(versions[p]) /\ versions[p][v].status # "draft"
    BY DEF PinFits, Pins
  <1>2 Grown(versions[p], frozen[p], versions'[p], frozen'[p])
    BY <1>1, VersionsStep DEF VersionsGrow
  <1>3 /\ versions'[p][v].status # "draft"
       /\ frozen'[p][v] = frozen[p][v]
    BY <1>1, <1>2 DEF Grown
  <1>4 v \in 1..MaxVersions
    BY <1>1 DEF Pins
  <1>5 v \in 1..Len(versions'[p])
    <2>1 Len(versions[p]) \in Nat /\ Len(versions'[p]) \in Nat
      BY <1>1, VersionsStep DEF PromptInv, VersionsFit, RowsFit
    <2> QED
      BY <1>1, <1>2, <1>4, <2>1 DEF Grown
  <1> QED
    BY <1>1, <1>3, <1>5 DEF PinFits

\* A worker that leaves has nothing to keep.
LEMMA WorkerLeaves ==
    ASSUME PromptInv, PromptNext, NEW w \in PromptWorkers, PLeave(w)
    PROVE  /\ ppc'[w] = "idle"
           /\ \A v \in PromptWorkers \ {w} :
                  ppc'[v] = ppc[v] /\ pmsg'[v] = pmsg[v] /\ pread'[v] = pread[v]
  BY DEF PLeave, PGoto, PromptInv, PromptTypeOK, PromptRowsTyped

\* What the workers have read stays true while others write.
LEMMA WorkersStep ==
    ASSUME PromptInv, PromptNext
    PROVE  WorkersFit' /\ PinnedFit'
  <1> DEFINE Fits(w) ==
        /\ ppc[w] # "idle" => pmsg[w] \in Inbounds
        /\ ppc[w] = "agent" => pread[w] \in [agent : Agents] /\ agents[pread[w].agent] # Null
        /\ ppc[w] = "version" => pread[w] \in [agent : Agents, prompt : Prompts]
        /\ ppc[w] = "insert" => PinFits(versions, pread[w])
        /\ ppc[w] = "load" => pinned[pmsg[w]] # Null
             Fits2(w) ==
        /\ ppc'[w] # "idle" => pmsg'[w] \in Inbounds
        /\ ppc'[w] = "agent" => pread'[w] \in [agent : Agents] /\ agents'[pread'[w].agent] # Null
        /\ ppc'[w] = "version" => pread'[w] \in [agent : Agents, prompt : Prompts]
        /\ ppc'[w] = "insert" => PinFits(versions', pread'[w])
        /\ ppc'[w] = "load" => pinned'[pmsg'[w]] # Null
  <1>1 /\ DOMAIN ppc = PromptWorkers /\ DOMAIN pmsg = PromptWorkers /\ DOMAIN pread = PromptWorkers
       /\ pinned \in [Inbounds -> Pins \cup {Null}]
       /\ assigned \in Agents \cup {Null} /\ AgentsFit
       /\ agents \in [Agents -> [prompt : Prompts, active : BOOLEAN] \cup {Null}]
       /\ \A w \in PromptWorkers : Fits(w)
       /\ PinnedFit
    BY DEF PromptInv, PromptTypeOK, PromptRowsTyped, WorkersFit, Pins
  <1>2 \A a \in Agents : agents[a] # Null => agents'[a] # Null
    BY AgentsStep
  <1>3 \A pin : PinFits(versions, pin) => PinFits(versions', pin)
    BY PinKept
  <1>4 ASSUME NEW w \in PromptWorkers, UNCHANGED <<ppc[w], pmsg[w], pread[w]>>,
              \A m \in Inbounds : pinned[m] # Null => pinned'[m] # Null
       PROVE  Fits2(w)
    BY <1>1, <1>2, <1>3, <1>4
  <1>5 CASE UNCHANGED pinningVars
    <2>1 UNCHANGED <<ppc, pmsg, pread, pinned>>
      BY <1>5 DEF pinningVars
    <2>2 \A w \in PromptWorkers : Fits2(w)
      BY <1>4, <2>1
    <2>3 PinnedFit'
      BY <1>1, <1>3, <2>1 DEF PinnedFit
    <2> QED
      BY <2>2, <2>3 DEF WorkersFit
  <1>6 ASSUME NEW w \in PromptWorkers, PinningStep(w)
       PROVE  WorkersFit' /\ PinnedFit'
    <2>1 ASSUME Fits2(w), pinned' = pinned,
                \A v \in PromptWorkers \ {w} :
                    ppc'[v] = ppc[v] /\ pmsg'[v] = pmsg[v] /\ pread'[v] = pread[v]
         PROVE  WorkersFit' /\ PinnedFit'
      <3>1 \A v \in PromptWorkers \ {w} : Fits2(v)
        BY <1>4, <2>1
      <3>2 PinnedFit'
        BY <1>1, <1>3, <2>1 DEF PinnedFit
      <3> QED
        BY <2>1, <3>1, <3>2 DEF WorkersFit
    <2>2 ASSUME PLeave(w), pinned' = pinned
         PROVE  WorkersFit' /\ PinnedFit'
      BY <2>1, <2>2, WorkerLeaves
    <2>3 ASSUME NEW m \in Inbounds, StartRun(w, m)
         PROVE  WorkersFit' /\ PinnedFit'
      <3>1 /\ pmsg' = [pmsg EXCEPT ![w] = m] /\ pinned' = pinned /\ agents' = agents
        BY <2>3 DEF StartRun, promptRows
      <3>2 CASE pinned[m] # Null
        <4>1 ppc' = [ppc EXCEPT ![w] = "load"] /\ pread' = pread
          BY <2>3, <3>2 DEF StartRun, PGoto
        <4>2 Fits2(w)
          BY <1>1, <3>1, <3>2, <4>1
        <4>3 \A v \in PromptWorkers \ {w} :
                 ppc'[v] = ppc[v] /\ pmsg'[v] = pmsg[v] /\ pread'[v] = pread[v]
          BY <1>1, <3>1, <4>1
        <4> HIDE DEF Fits2
        <4> QED
          BY <2>1, <3>1, <4>2, <4>3
      <3>3 CASE pinned[m] = Null
        <4>1 /\ ppc' = [ppc EXCEPT ![w] = "agent"]
             /\ pread' = [pread EXCEPT ![w] = [agent |-> assigned]]
             /\ assigned # Null
          BY <2>3, <3>3 DEF StartRun, PGoto
        <4>2 assigned \in Agents /\ agents[assigned] # Null
          BY <1>1, <4>1 DEF AgentsFit
        <4>3 pread'[w] \in [agent : Agents] /\ pread'[w].agent = assigned
          BY <1>1, <4>1, <4>2
        <4>4 ppc'[w] = "agent" /\ pmsg'[w] = m
          BY <1>1, <3>1, <4>1
        <4>5 Fits2(w)
          BY <3>1, <4>2, <4>3, <4>4
        <4>6 \A v \in PromptWorkers \ {w} :
                 ppc'[v] = ppc[v] /\ pmsg'[v] = pmsg[v] /\ pread'[v] = pread[v]
          BY <1>1, <3>1, <4>1
        <4> HIDE DEF Fits2
        <4> QED
          BY <2>1, <3>1, <4>5, <4>6
      <3> QED
        BY <3>2, <3>3
    <2>4 ASSUME ReadAgent(w)
         PROVE  WorkersFit' /\ PinnedFit'
      <3> DEFINE row == agents[pread[w].agent]
      <3>1 /\ ppc[w] = "agent" /\ pinned' = pinned
           /\ pread[w] \in [agent : Agents] /\ row # Null
        BY <1>1, <2>4 DEF ReadAgent
      <3>2 row.prompt \in Prompts /\ pread[w].agent \in Agents
        BY <1>1, <3>1
      <3>3 CASE row.active
        <4>1 /\ ppc' = [ppc EXCEPT ![w] = "version"] /\ pmsg' = pmsg
             /\ pread' = [pread EXCEPT ![w] = [agent |-> pread[w].agent, prompt |-> row.prompt]]
          BY <2>4, <3>3 DEF ReadAgent, PGoto
        <4> HIDE DEF row
        <4>2 /\ ppc'[w] = "version" /\ pmsg'[w] = pmsg[w]
             /\ pread'[w] \in [agent : Agents, prompt : Prompts]
          BY <1>1, <3>2, <4>1
        <4>3 Fits2(w)
          BY <1>1, <3>1, <4>2
        <4>4 \A v \in PromptWorkers \ {w} :
                 ppc'[v] = ppc[v] /\ pmsg'[v] = pmsg[v] /\ pread'[v] = pread[v]
          BY <1>1, <4>1
        <4> HIDE DEF Fits2
        <4> QED
          BY <2>1, <3>1, <4>3, <4>4
      <3>4 CASE ~row.active
        BY <2>2, <2>4, <3>1, <3>4 DEF ReadAgent
      <3> QED
        BY <3>3, <3>4
    <2>5 ASSUME ReadPublished(w)
         PROVE  WorkersFit' /\ PinnedFit'
      <3> DEFINE v0 == PublishedOf(pread[w].prompt)
                 pin == [agent |-> pread[w].agent, prompt |-> pread[w].prompt, version |-> v0]
      <3>1 /\ ppc[w] = "version" /\ pinned' = pinned /\ versions' = versions
           /\ pread[w] \in [agent : Agents, prompt : Prompts]
        BY <1>1, <2>5 DEF ReadPublished, promptRows
      <3>2 CASE v0 # Null
        <4>1 /\ ppc' = [ppc EXCEPT ![w] = "insert"] /\ pmsg' = pmsg
             /\ pread' = [pread EXCEPT ![w] = pin]
          BY <2>5, <3>2 DEF ReadPublished, PGoto
        <4>2 RowsFit(versions[pread[w].prompt], frozen[pread[w].prompt])
          BY <3>1 DEF PromptInv, VersionsFit
        <4>3 /\ Len(versions[pread[w].prompt]) \in Nat
             /\ Len(versions[pread[w].prompt]) <= MaxVersions
          BY <4>2 DEF RowsFit
        <4>4 /\ v0 \in 1..Len(versions[pread[w].prompt])
             /\ versions[pread[w].prompt][v0].status = "published"
          BY <3>2, <4>3, PublishedFound
        <4>5 v0 \in 1..MaxVersions
          BY <4>3, <4>4, PromptAssumption
        <4>6 pin \in Pins
          BY <3>1, <4>5 DEF Pins
        <4>7 PinFits(versions, pin)
          BY <4>4, <4>6 DEF PinFits
        <4> HIDE DEF pin
        <4>8 ppc'[w] = "insert" /\ pmsg'[w] = pmsg[w] /\ pread'[w] = pin
          BY <1>1, <4>1
        <4>9 Fits2(w)
          BY <1>1, <3>1, <4>7, <4>8
        <4>10 \A v \in PromptWorkers \ {w} :
                 ppc'[v] = ppc[v] /\ pmsg'[v] = pmsg[v] /\ pread'[v] = pread[v]
          BY <1>1, <4>1
        <4> HIDE DEF Fits2
        <4> QED
          BY <2>1, <3>1, <4>9, <4>10
      <3>3 CASE v0 = Null
        BY <2>2, <2>5, <3>1, <3>3 DEF ReadPublished
      <3> QED
        BY <3>2, <3>3
    <2>6 ASSUME PinVersion(w)
         PROVE  WorkersFit' /\ PinnedFit'
      <3>1 /\ ppc[w] = "insert" /\ pmsg[w] \in Inbounds /\ PinFits(versions, pread[w])
           /\ pread[w] \in Pins
        BY <1>1, <2>6 DEF PinVersion, PinFits
      <3>2 CASE pinned[pmsg[w]] = Null
        <4>1 /\ ppc' = [ppc EXCEPT ![w] = "load"] /\ pmsg' = pmsg
             /\ pread' = [pread EXCEPT ![w] = Null]
             /\ pinned' = [pinned EXCEPT ![pmsg[w]] = pread[w]]
          BY <2>6, <3>2 DEF PinVersion, PGoto
        <4>2 pread[w] # Null
          BY <3>1, PromptAssumption DEF Pins
        <4>3 /\ pinned'[pmsg[w]] = pread[w]
             /\ \A m \in Inbounds \ {pmsg[w]} : pinned'[m] = pinned[m]
          BY <1>1, <3>1, <4>1
        <4>4 Fits2(w)
          BY <1>1, <3>1, <4>1, <4>2, <4>3
        <4>5 \A m \in Inbounds : pinned[m] # Null => pinned'[m] # Null
          BY <3>2, <4>3
        <4>6 ASSUME NEW v \in PromptWorkers \ {w}
             PROVE  Fits2(v)
          <5>1 ppc'[v] = ppc[v] /\ pmsg'[v] = pmsg[v] /\ pread'[v] = pread[v]
            BY <1>1, <4>1
          <5> QED
            BY <1>4, <4>5, <5>1
        <4>7 PinnedFit'
          <5>1 \A m \in Inbounds : pinned'[m] # Null => PinFits(versions, pinned'[m])
            BY <1>1, <3>1, <4>3 DEF PinnedFit
          <5> QED
            BY <1>3, <5>1 DEF PinnedFit
        <4> QED
          BY <4>4, <4>6, <4>7 DEF WorkersFit
      <3>3 CASE pinned[pmsg[w]] # Null
        BY <2>2, <2>6, <3>3 DEF PinVersion
      <3> QED
        BY <3>2, <3>3
    <2>7 ASSUME LoadSnapshot(w)
         PROVE  WorkersFit' /\ PinnedFit'
      BY <2>2, <2>7 DEF LoadSnapshot
    <2> QED
      BY <1>6, <2>3, <2>4, <2>5, <2>6, <2>7 DEF PinningStep
  <1>7 ManagerStep => UNCHANGED pinningVars
    BY ZenonT(60) DEF ManagerStep, LockPrompt, PutPromptDraft, PublishPrompt, CreatePrompt, PutAgent,
      PutChannelAssignment, DeleteChannelAssignment
  <1> QED
    BY <1>5, <1>6, <1>7 DEF PromptNext

\* A message is generated with what it is pinned to.
LEMMA UsedStep ==
    ASSUME PromptInv, PromptNext
    PROVE  UsedIsPinned'
  <1> DEFINE Text(pin) == frozen[pin.prompt][pin.version]
             Text2(pin) == frozen'[pin.prompt][pin.version]
  <1>1 /\ DOMAIN used = Inbounds
       /\ pinned \in [Inbounds -> Pins \cup {Null}]
       /\ UsedIsPinned /\ PinnedFit
    BY DEF PromptInv, PromptTypeOK, Pins
  <1>2 \A m \in Inbounds : pinned[m] # Null => Text2(pinned[m]) = Text(pinned[m])
    BY <1>1, PinKept DEF PinnedFit
  <1>3 CASE UNCHANGED <<pinned, used>>
    BY <1>1, <1>2, <1>3 DEF UsedIsPinned
  <1>4 ASSUME NEW w \in PromptWorkers, PinVersion(w)
       PROVE  UsedIsPinned'
    <2>1 pmsg[w] \in Inbounds /\ used' = used
      BY <1>4 DEF PinVersion, PromptInv, WorkersFit
    <2>2 \A m \in Inbounds : pinned[m] # Null => pinned'[m] = pinned[m]
      BY <1>1, <1>4, <2>1 DEF PinVersion
    <2>3 \A m \in Inbounds : used[m] # {} => pinned[m] # Null
      BY <1>1 DEF UsedIsPinned
    <2> QED
      BY <1>1, <1>2, <2>1, <2>2, <2>3 DEF UsedIsPinned
  <1>5 ASSUME NEW w \in PromptWorkers, LoadSnapshot(w)
       PROVE  UsedIsPinned'
    <2> DEFINE pin == pinned[pmsg[w]]
    <2>1 pmsg[w] \in Inbounds /\ pin # Null
      BY <1>5 DEF LoadSnapshot, PromptInv, WorkersFit
    <2>2 PinFits(versions, pin)
      BY <1>1, <2>1 DEF PinnedFit
    <2>3 frozen[pin.prompt][pin.version] = versions[pin.prompt][pin.version].content
      <3>1 /\ pin.prompt \in Prompts /\ pin.version \in 1..Len(versions[pin.prompt])
           /\ versions[pin.prompt][pin.version].status # "draft"
        BY <2>2 DEF PinFits, Pins
      <3>2 FrozenRows(versions[pin.prompt], frozen[pin.prompt])
        BY <3>1 DEF PromptInv, VersionsFit, RowsFit
      <3> QED
        BY <3>1, <3>2 DEF FrozenRows
    <2>4 /\ used' = [used EXCEPT ![pmsg[w]] = @ \cup {versions[pin.prompt][pin.version].content}]
         /\ pinned' = pinned
      BY <1>5 DEF LoadSnapshot
    <2>5 /\ used'[pmsg[w]] = used[pmsg[w]] \cup {Text(pin)}
         /\ \A m \in Inbounds \ {pmsg[w]} : used'[m] = used[m]
      BY <1>1, <2>1, <2>3, <2>4
    <2>6 used'[pmsg[w]] = {Text2(pin)}
      BY <1>1, <1>2, <2>1, <2>5 DEF UsedIsPinned
    <2> QED
      BY <1>1, <1>2, <2>1, <2>4, <2>5, <2>6 DEF UsedIsPinned
  <1>6 ManagerStep => UNCHANGED <<pinned, used>>
    BY ZenonT(60) DEF ManagerStep, LockPrompt, PutPromptDraft, PublishPrompt, CreatePrompt, PutAgent,
      PutChannelAssignment, DeleteChannelAssignment, pinningVars
  <1>7 ASSUME NEW w \in PromptWorkers,
              (\E m \in Inbounds : StartRun(w, m)) \/ ReadAgent(w) \/ ReadPublished(w)
       PROVE  UNCHANGED <<pinned, used>>
    BY <1>7 DEF StartRun, ReadAgent, ReadPublished
  <1> QED
    BY <1>3, <1>4, <1>5, <1>6, <1>7 DEF PromptNext, PinningStep

\* Nothing is there at first.
LEMMA PromptStart ==
    ASSUME PromptInit
    PROVE  PromptInv
  <1>1 \A p \in Prompts : versions[p] = <<>> /\ frozen[p] = <<>>
    BY DEF PromptInit
  <1>2 RowsFit(<<>>, <<>>)
    <2>1 Len(<<>>) = 0 /\ <<>> \in Seq(VersionRow) /\ <<>> \in Seq(Contents \cup {Null})
      OBVIOUS
    <2> QED
      BY <2>1, PromptAssumption DEF RowsFit, FrozenRows, OrderedRows
  <1>3 VersionsFit
    BY <1>1, <1>2 DEF VersionsFit
  <1>4 Resting \in [op : {"idle", "draft", "publish"},
                    prompt : Prompts \cup {Null}, content : Contents \cup {Null}]
    BY DEF Resting
  <1>5 PromptTypeOK
    BY <1>1, <1>4, PromptAssumption DEF PromptInit, PromptTypeOK
  <1>6 PromptRowsTyped
    BY DEF PromptInit, PromptRowsTyped
  <1>7 EditorsFit /\ AgentsFit /\ WorkersFit /\ PinnedFit /\ UsedIsPinned
    BY DEF PromptInit, Resting, EditorsFit, AgentsFit, WorkersFit, PinnedFit, UsedIsPinned
  <1> QED
    BY <1>3, <1>5, <1>6, <1>7 DEF PromptInv

\* Every step keeps all of it.
LEMMA PromptStep ==
    ASSUME PromptInv, PromptNext
    PROVE  PromptInv'
  BY PromptTypeStep, VersionsStep, EditorsStep, AgentsStep, WorkersStep, UsedStep DEF PromptInv

\* It is what the managers and the customers rely on.
LEMMA PromptSound ==
    ASSUME PromptInv
    PROVE  PromptsAreImmutable
  <1>1 PublishedIsFrozen
    BY DEF PromptInv, VersionsFit, RowsFit, FrozenRows, PublishedIsFrozen
  <1>2 VersionsAreOrdered
    BY DEF PromptInv, VersionsFit, RowsFit, OrderedRows, VersionsAreOrdered
  <1>3 OnePromptPerMessage
    <2> SUFFICES ASSUME NEW m \in Inbounds
                 PROVE  /\ Cardinality(used[m]) <= 1
                        /\ used[m] # {} =>
                              used[m] = {frozen[pinned[m].prompt][pinned[m].version]}
      BY DEF OnePromptPerMessage
    <2>1 CASE used[m] = {}
      BY <2>1, FS_EmptySet
    <2>2 CASE used[m] # {}
      <3> DEFINE text == frozen[pinned[m].prompt][pinned[m].version]
      <3>1 used[m] = {text}
        BY <2>2 DEF PromptInv, UsedIsPinned
      <3> HIDE DEF text
      <3>2 Cardinality(used[m]) = 1
        BY <3>1, FS_Singleton
      <3> QED
        BY <3>1, <3>2 DEF text
    <2> QED
      BY <2>1, <2>2
  <1> QED
    BY <1>1, <1>2, <1>3 DEF PromptsAreImmutable

-----------------------------------------------------------------------------
(* The composition: a behaviour is about one part, the others stay put.      *)

\* The inbox is empty at first.
LEMMA InboxStart ==
    ASSUME Init
    PROVE  InboxInv
  <1>1 TypeOK
    BY InboxAssumption DEF Init, TypeOK, Pcs
  <1>2 RowsInOrder /\ LockIsHeld /\ RequestsFit
    BY DEF Init, RowsInOrder, LockIsHeld, RequestsFit
  <1>3 SendsAccounted /\ ConfirmedReplyIsTheMessage /\ MessageIsAudited
    BY DEF Init, SendsAccounted, ConfirmedReplyIsTheMessage, MessageIsAudited
  <1> QED
    BY <1>1, <1>2, <1>3 DEF InboxInv

\* A step of the inbox keeps what holds of it.
LEMMA InboxStep ==
    ASSUME InboxInv, Next
    PROVE  InboxInv'
  BY InboxTypeStep, RowsStep, LockStep, RequestsStep, SendsStep, ConfirmedStep, AuditedStep
    DEF InboxInv

ConsoleInv == InboxInv /\ PromptInv /\ LogInv

\* What holds of a part holds while the others write.
LEMMA InboxStutter == InboxInv /\ UNCHANGED vars => InboxInv'
  BY DEF vars, handoffVars, requestVars, messageVars, auditVars, InboxInv, TypeOK, RowsInOrder,
    LockIsHeld, RequestsFit, SendsAccounted, ConfirmedReplyIsTheMessage, MessageIsAudited

\* The same for the prompts.
LEMMA PromptStutter == PromptInv /\ UNCHANGED promptVars => PromptInv'
  <1> SUFFICES ASSUME PromptInv, UNCHANGED promptVars PROVE PromptInv'
    OBVIOUS
  <1>1 /\ versions' = versions /\ frozen' = frozen /\ agents' = agents /\ assigned' = assigned
       /\ lockOf' = lockOf /\ epc' = epc /\ edraft' = edraft /\ requests' = requests
       /\ pinned' = pinned /\ used' = used /\ ppc' = ppc /\ pmsg' = pmsg /\ pread' = pread
    BY DEF promptVars, promptRows, editorVars, pinningVars
  <1>2 EditorsFit'
    BY <1>1, SameDraft DEF PromptInv, EditorsFit
  <1>3 PromptTypeOK' /\ PromptRowsTyped' /\ VersionsFit'
    BY <1>1 DEF PromptInv, PromptTypeOK, PromptRowsTyped, VersionsFit
  <1>4 AgentsFit' /\ WorkersFit' /\ PinnedFit' /\ UsedIsPinned'
    BY <1>1 DEF PromptInv, AgentsFit, WorkersFit, PinnedFit, UsedIsPinned
  <1> QED
    BY <1>2, <1>3, <1>4 DEF PromptInv

\* The same for the conversation.
LEMMA LogStutter == LogInv /\ UNCHANGED logVars => LogInv'
  <1> SUFFICES ASSUME LogInv, UNCHANGED logVars PROVE LogInv'
    OBVIOUS
  <1>1 /\ log' = log /\ lastAt' = lastAt /\ rowHolder' = rowHolder
       /\ writer' = writer /\ overlapping' = overlapping /\ writes' = writes
    BY DEF logVars
  <1>2 LogTyped' /\ InboundRowsFit' /\ HolderFits' /\ OneMessagePerKey' /\ AnswersAreTheirOwn'
    BY <1>1 DEF LogInv, LogTyped, InboundRowsFit, HolderFits, OneMessagePerKey, AnswersAreTheirOwn
  <1>3 WritersFit' /\ ReadsFit' /\ LastMessageIsNewest'
    BY <1>1 DEF LogInv, WritersFit, ReadsFit, WriterFits, ReadFits, Busy, LastMessageIsNewest
  <1> QED
    BY <1>2, <1>3 DEF LogInv

\* Every part starts as its invariant says, and no step of any part breaks it.
LEMMA ConsoleInvariant == ConsoleSpec => []ConsoleInv
  <1>1 ConsoleInit => ConsoleInv
    BY InboxStart, PromptStart, LogStart DEF ConsoleInit, ConsoleInv
  <1>2 ConsoleInv /\ [ConsoleNext]_<<part, vars, promptVars, logVars>> => ConsoleInv'
    <2> SUFFICES ASSUME ConsoleInv, [ConsoleNext]_<<part, vars, promptVars, logVars>>
                 PROVE  ConsoleInv'
      OBVIOUS
    <2>1 Next \/ UNCHANGED vars
      BY DEF ConsoleNext
    <2>2 PromptNext \/ UNCHANGED promptVars
      BY DEF ConsoleNext
    <2>3 LogNext \/ UNCHANGED logVars
      BY DEF ConsoleNext
    <2>4 InboxInv'
      BY <2>1, InboxStep, InboxStutter DEF ConsoleInv
    <2>5 PromptInv'
      BY <2>2, PromptStep, PromptStutter DEF ConsoleInv
    <2>6 LogInv'
      BY <2>3, LogStep, LogStutter DEF ConsoleInv
    <2> QED
      BY <2>4, <2>5, <2>6 DEF ConsoleInv
  <1> QED
    BY <1>1, <1>2, PTL DEF ConsoleSpec

-----------------------------------------------------------------------------
(* What follows.                                                             *)

\* The rows and the requests in flight are what the tables and handlers allow.
THEOREM ConsoleTypesCorrect == ConsoleSpec => []ConsoleTypesOK
  <1>1 ConsoleInv => ConsoleTypesOK
    BY LogTypes DEF ConsoleInv, InboxInv, PromptInv, ConsoleTypesOK
  <1> QED
    BY <1>1, ConsoleInvariant, PTL

\* The customer gets one copy of a reply for its Message, and one more for each
\* send whose transaction was lost: send_operator_reply looks the key up under
\* its advisory lock before it sends.
THEOREM OneCopyOfAReply == ConsoleSpec => []DuplicatesOnlyAfterLoss
  <1>1 ConsoleInv => DuplicatesOnlyAfterLoss
    BY DEF ConsoleInv, InboxInv, SendsAccounted, DuplicatesOnlyAfterLoss
  <1> QED
    BY <1>1, ConsoleInvariant, PTL

\* A reply that was confirmed is the text under its key (the key of another
\* text is refused with 409).
THEOREM ConfirmedReplyStands == ConsoleSpec => []ConfirmedReplyIsTheMessage
  <1>1 ConsoleInv => ConfirmedReplyIsTheMessage
    BY DEF ConsoleInv, InboxInv
  <1> QED
    BY <1>1, ConsoleInvariant, PTL

\* No human Message stays without an audit row, unless its request died between
\* the two commits of send_operator_reply.
THEOREM RepliesAreAudited == ConsoleSpec => []MessageIsAudited
  <1>1 ConsoleInv => MessageIsAudited
    BY DEF ConsoleInv, InboxInv
  <1> QED
    BY <1>1, ConsoleInvariant, PTL

\* A claim passes to another operator only by a release (claim_handoff under
\* the row lock).
THEOREM ClaimStays == ConsoleSpec => ClaimIsNotStolen
  <1>1 ConsoleInv /\ [ConsoleNext]_<<part, vars, promptVars, logVars>> =>
          [\A h \in Handoffs :
              claimant[h] # None /\ claimant'[h] # claimant[h] => claimant'[h] = None]_vars
    <2> SUFFICES ASSUME ConsoleInv, [ConsoleNext]_<<part, vars, promptVars, logVars>>, vars' # vars
                 PROVE  \A h \in Handoffs :
                           claimant[h] # None /\ claimant'[h] # claimant[h] => claimant'[h] = None
      OBVIOUS
    <2>1 Next
      BY DEF ConsoleNext
    <2> QED
      BY <2>1, ClaimStep DEF ConsoleInv, InboxInv
  <1> QED
    BY <1>1, ConsoleInvariant, PTL DEF ConsoleSpec, ClaimIsNotStolen

\* A published prompt never changes, versions keep their order, and all attempts
\* at a message use the text its run was pinned to (agents.publish_prompt,
\* put_prompt_draft, agent_runtime._resolve_or_create_run, _load_run_snapshot).
THEOREM PromptsStayImmutable == ConsoleSpec => []PromptsAreImmutable
  <1>1 ConsoleInv => PromptsAreImmutable
    BY PromptSound DEF ConsoleInv
  <1> QED
    BY <1>1, ConsoleInvariant, PTL

\* One message per key, every answer its own message, and last_message_at not
\* before any message whose writer was alone.
THEOREM ConversationStaysSound == ConsoleSpec => []ConversationIsSound
  <1>1 ConsoleInv => ConversationIsSound
    BY DEF ConsoleInv, LogInv, ConversationIsSound
  <1> QED
    BY <1>1, ConsoleInvariant, PTL

=================================================================================
