--------------------------- MODULE AgentRunsProofs ---------------------------
(***************************************************************************)
(* Proofs about AgentRuns for any number of workers, runs, texts, handoffs *)
(* and any values of the bounds.                                           *)
(***************************************************************************)
EXTENDS AgentRuns, TLAPS

\* A delivered entry names a run.
LEMMA EntryHasRun == \A e \in Entries : e[1] \in Runs
  BY DEF Entries

\* A worker that is past its delivery works on some run.
LEMMA JobHasRun ==
    ASSUME WorkerTypes, NEW w \in Workers, pc[w] # "idle"
    PROVE  RunOf(w) \in Runs
  BY EntryHasRun DEF WorkerTypes, RunOf

\* Every step of a worker's attempt is taken by a worker that has a job.
LEMMA StepHasRun ==
    ASSUME WorkerTypes, NEW w \in Workers, WorkerStep(w)
    PROVE  RunOf(w) \in Runs
  <1>1 pc[w] # "idle"
    BY DEF WorkerStep, SkipEvent, ResolveOrCreateRun, ClaimRun, LoadRunSnapshot,
       SnapshotRejected, RenewRunLease, GenerateReply, GenerateFails, PauseForToolApproval,
       PersistGeneratedText, GuardAiDispatch, DispatchText, DispatchRejected, DispatchTimesOut,
       CommitDispatch, CommitFails, CompleteRun, ReleaseRunError, Acknowledge, Goto
  <1> QED
    BY <1>1, JobHasRun

-----------------------------------------------------------------------------
\* A step of a worker's attempt preserves the types.
LEMMA TypeWorkerStep ==
    ASSUME TypeOK, NEW w \in Workers, WorkerStep(w)
    PROVE  TypeOK'
  <1> USE NoneAssumption, BoundAssumption
  <1>0 RunOf(w) \in Runs
    BY StepHasRun DEF TypeOK
  <1>1 CASE SkipEvent(w)
    <2>1 QueueTypes'
      BY <1>0, <1>1 DEF TypeOK, QueueTypes, Reasons, SkipEvent, Goto, queueVars
    <2>2 WorkerTypes'
      BY <1>0, <1>1 DEF TypeOK, WorkerTypes, Pcs, SkipEvent, Goto, workerVars
    <2>3 RunTypes' /\ HandoffTypes'
      BY <1>1 DEF TypeOK, RunTypes, HandoffTypes, SkipEvent, Goto, runVars, msgVars, handoffVars
    <2> QED
      BY <2>1, <2>2, <2>3 DEF TypeOK
  <1>2 CASE ResolveOrCreateRun(w)
    <2>1 RunTypes'
      BY <1>0, <1>2 DEF TypeOK, RunTypes, Statuses, ResolveOrCreateRun, Goto, runVars, msgVars
    <2>2 WorkerTypes'
      BY <1>0, <1>2 DEF TypeOK, WorkerTypes, Pcs, ResolveOrCreateRun, Goto, workerVars
    <2>3 HandoffTypes' /\ QueueTypes'
      BY <1>2 DEF TypeOK, HandoffTypes, QueueTypes, ResolveOrCreateRun, Goto, handoffVars, queueVars
    <2> QED
      BY <2>1, <2>2, <2>3 DEF TypeOK
  <1>3 CASE ClaimRun(w)
    <2>1 RunTypes'
      <3>1 CASE Claimable(RunOf(w))
        <4>1 /\ lease' = [lease EXCEPT ![RunOf(w)] = w]
             /\ live' = [live EXCEPT ![RunOf(w)] = TRUE]
             /\ UNCHANGED <<status, text, outbound, msgVars>>
          BY <1>3, <3>1 DEF ClaimRun
        <4> QED
          BY <1>0, <4>1 DEF TypeOK, RunTypes, msgVars
      <3>2 CASE ~Claimable(RunOf(w))
        BY <1>3, <3>2 DEF TypeOK, RunTypes, ClaimRun, msgVars
      <3> QED
        BY <3>1, <3>2
    <2>2 WorkerTypes'
      BY <1>0, <1>3 DEF TypeOK, WorkerTypes, Pcs, ClaimRun, Goto, workerVars
    <2>3 HandoffTypes' /\ QueueTypes'
      BY <1>3 DEF TypeOK, HandoffTypes, QueueTypes, ClaimRun, Goto, handoffVars, queueVars
    <2> QED
      BY <2>1, <2>2, <2>3 DEF TypeOK
  <1>4 CASE LoadRunSnapshot(w)
    <2>1 WorkerTypes'
      BY <1>0, <1>4 DEF TypeOK, RunTypes, WorkerTypes, Pcs, LoadRunSnapshot, Goto, Leave
    <2>2 RunTypes' /\ HandoffTypes' /\ QueueTypes'
      BY <1>4 DEF TypeOK, RunTypes, HandoffTypes, QueueTypes, LoadRunSnapshot, Goto, Leave, runVars, msgVars, handoffVars, queueVars
    <2> QED
      BY <2>1, <2>2 DEF TypeOK
  <1>5 CASE SnapshotRejected(w)
    <2>1 WorkerTypes'
      BY <1>0, <1>5 DEF TypeOK, WorkerTypes, Pcs, SnapshotRejected, Goto, workerVars
    <2>2 RunTypes' /\ HandoffTypes' /\ QueueTypes'
      BY <1>5 DEF TypeOK, RunTypes, HandoffTypes, QueueTypes, SnapshotRejected, Goto, runVars, msgVars, handoffVars, queueVars
    <2> QED
      BY <2>1, <2>2 DEF TypeOK
  <1>6 CASE RenewRunLease(w)
    <2>1 RunTypes'
      BY <1>0, <1>6 DEF TypeOK, RunTypes, Statuses, RenewRunLease, Leave, runVars, msgVars
    <2>2 WorkerTypes'
      BY <1>0, <1>6 DEF TypeOK, WorkerTypes, Pcs, RenewRunLease, Leave, workerVars
    <2>3 HandoffTypes' /\ QueueTypes'
      BY <1>6 DEF TypeOK, HandoffTypes, QueueTypes, RenewRunLease, Leave, handoffVars, queueVars
    <2> QED
      BY <2>1, <2>2, <2>3 DEF TypeOK
  <1>7 CASE \E t \in Texts : GenerateReply(w, t)
    <2>1 WorkerTypes'
      BY <1>0, <1>7 DEF TypeOK, WorkerTypes, Pcs, GenerateReply, Goto, workerVars
    <2>2 RunTypes' /\ HandoffTypes' /\ QueueTypes'
      BY <1>7 DEF TypeOK, RunTypes, HandoffTypes, QueueTypes, GenerateReply, Goto, runVars, msgVars, handoffVars, queueVars
    <2> QED
      BY <2>1, <2>2 DEF TypeOK
  <1>8 CASE \E fatal \in BOOLEAN : GenerateFails(w, fatal)
    <2>1 QueueTypes'
      BY <1>0, <1>8 DEF TypeOK, QueueTypes, Reasons, GenerateFails, Goto, queueVars
    <2>2 WorkerTypes'
      BY <1>0, <1>8 DEF TypeOK, WorkerTypes, Pcs, GenerateFails, Goto, workerVars
    <2>3 RunTypes' /\ HandoffTypes'
      BY <1>8 DEF TypeOK, RunTypes, HandoffTypes, GenerateFails, Goto, runVars, msgVars, handoffVars
    <2> QED
      BY <2>1, <2>2, <2>3 DEF TypeOK
  <1>9 CASE PauseForToolApproval(w)
    <2>1 RunTypes'
      BY <1>0, <1>9 DEF TypeOK, RunTypes, Statuses, PauseForToolApproval, PauseRun, CreateHandoff, LinkHandoff, Leave, runVars, msgVars
    <2>2 HandoffTypes'
      <3>1 CASE CreateHandoff(RunOf(w))
        BY <1>0, <3>1 DEF TypeOK, HandoffTypes, HStatuses, Handoffs, CreateHandoff
      <3>2 CASE LinkHandoff(RunOf(w))
        BY <1>0, <3>2 DEF TypeOK, HandoffTypes, LinkHandoff
      <3> QED
        BY <1>9, <3>1, <3>2 DEF PauseForToolApproval
    <2>3 WorkerTypes'
      BY <1>0, <1>9 DEF TypeOK, WorkerTypes, Pcs, PauseForToolApproval, PauseRun, CreateHandoff, LinkHandoff, Leave, workerVars
    <2>4 QueueTypes'
      BY <1>9 DEF TypeOK, QueueTypes, PauseForToolApproval, PauseRun, CreateHandoff, LinkHandoff, Leave, queueVars
    <2> QED
      BY <2>1, <2>2, <2>3, <2>4 DEF TypeOK
  <1>10 CASE PersistGeneratedText(w)
    <2>1 RunTypes'
      BY <1>0, <1>10 DEF TypeOK, RunTypes, Statuses, PersistGeneratedText, Goto, Leave, runVars, msgVars, WorkerTypes
    <2>2 WorkerTypes'
      BY <1>0, <1>10 DEF TypeOK, WorkerTypes, Pcs, PersistGeneratedText, Goto, Leave, workerVars
    <2>3 HandoffTypes' /\ QueueTypes'
      BY <1>10 DEF TypeOK, HandoffTypes, QueueTypes, PersistGeneratedText, Goto, Leave, handoffVars, queueVars
    <2> QED
      BY <2>1, <2>2, <2>3 DEF TypeOK
  <1>11 CASE GuardAiDispatch(w)
    <2>1 RunTypes'
      BY <1>0, <1>11 DEF TypeOK, RunTypes, Statuses, GuardAiDispatch, PauseRun, LinkHandoff, Goto, Leave, runVars, msgVars
    <2>2 HandoffTypes'
      BY <1>0, <1>11 DEF TypeOK, HandoffTypes, HStatuses, Handoffs, GuardAiDispatch, PauseRun, LinkHandoff, Goto, Leave, handoffVars
    <2>3 WorkerTypes'
      BY <1>0, <1>11 DEF TypeOK, WorkerTypes, Pcs, GuardAiDispatch, PauseRun, LinkHandoff, Goto, Leave, workerVars
    <2>4 QueueTypes'
      BY <1>11 DEF TypeOK, QueueTypes, GuardAiDispatch, PauseRun, LinkHandoff, Goto, Leave, queueVars
    <2> QED
      BY <2>1, <2>2, <2>3, <2>4 DEF TypeOK
  <1>12 CASE DispatchText(w)
    <2>1 RunTypes'
      BY <1>0, <1>12 DEF TypeOK, RunTypes, Statuses, DispatchText, Goto, runVars, msgVars
    <2>2 WorkerTypes'
      BY <1>0, <1>12 DEF TypeOK, WorkerTypes, Pcs, DispatchText, Goto, workerVars
    <2>3 HandoffTypes' /\ QueueTypes'
      BY <1>12 DEF TypeOK, HandoffTypes, QueueTypes, DispatchText, Goto, handoffVars, queueVars
    <2> QED
      BY <2>1, <2>2, <2>3 DEF TypeOK
  <1>13 CASE DispatchRejected(w)
    <2>1 WorkerTypes'
      BY <1>0, <1>13 DEF TypeOK, WorkerTypes, Pcs, DispatchRejected, Goto, workerVars
    <2>2 RunTypes' /\ HandoffTypes' /\ QueueTypes'
      BY <1>13 DEF TypeOK, RunTypes, HandoffTypes, QueueTypes, DispatchRejected, Goto, runVars, msgVars, handoffVars, queueVars
    <2> QED
      BY <2>1, <2>2 DEF TypeOK
  <1>14 CASE \E reached \in BOOLEAN : DispatchTimesOut(w, reached)
    <2>1 RunTypes'
      BY <1>0, <1>14 DEF TypeOK, RunTypes, Statuses, DispatchTimesOut, Goto, runVars, msgVars
    <2>2 QueueTypes'
      BY <1>0, <1>14 DEF TypeOK, QueueTypes, Reasons, DispatchTimesOut, Goto, queueVars
    <2>3 WorkerTypes'
      BY <1>0, <1>14 DEF TypeOK, WorkerTypes, Pcs, DispatchTimesOut, Goto, workerVars
    <2>4 HandoffTypes'
      BY <1>14 DEF TypeOK, HandoffTypes, DispatchTimesOut, Goto, handoffVars
    <2> QED
      BY <2>1, <2>2, <2>3, <2>4 DEF TypeOK
  <1>15 CASE CommitDispatch(w)
    <2>1 RunTypes'
      BY <1>0, <1>15 DEF TypeOK, RunTypes, Statuses, CommitDispatch, Goto, runVars, msgVars, WorkerTypes
    <2>2 WorkerTypes'
      BY <1>0, <1>15 DEF TypeOK, WorkerTypes, Pcs, CommitDispatch, Goto, workerVars
    <2>3 HandoffTypes' /\ QueueTypes'
      BY <1>15 DEF TypeOK, HandoffTypes, QueueTypes, CommitDispatch, Goto, handoffVars, queueVars
    <2> QED
      BY <2>1, <2>2, <2>3 DEF TypeOK
  <1>16 CASE CommitFails(w)
    <2>1 RunTypes'
      BY <1>0, <1>16 DEF TypeOK, RunTypes, Statuses, CommitFails, Goto, runVars, msgVars
    <2>2 QueueTypes'
      BY <1>0, <1>16 DEF TypeOK, QueueTypes, Reasons, CommitFails, Goto, queueVars
    <2>3 WorkerTypes'
      BY <1>0, <1>16 DEF TypeOK, WorkerTypes, Pcs, CommitFails, Goto, workerVars
    <2>4 HandoffTypes'
      BY <1>16 DEF TypeOK, HandoffTypes, CommitFails, Goto, handoffVars
    <2> QED
      BY <2>1, <2>2, <2>3, <2>4 DEF TypeOK
  <1>17 CASE CompleteRun(w)
    <2>1 RunTypes'
      BY <1>0, <1>17 DEF TypeOK, RunTypes, Statuses, CompleteRun, Leave, runVars, msgVars, WorkerTypes
    <2>2 WorkerTypes'
      BY <1>0, <1>17 DEF TypeOK, WorkerTypes, Pcs, CompleteRun, Leave, workerVars
    <2>3 HandoffTypes' /\ QueueTypes'
      BY <1>17 DEF TypeOK, HandoffTypes, QueueTypes, CompleteRun, Leave, handoffVars, queueVars
    <2> QED
      BY <2>1, <2>2, <2>3 DEF TypeOK
  <1>18 CASE ReleaseRunError(w)
    <2>1 RunTypes'
      BY <1>0, <1>18 DEF TypeOK, RunTypes, Statuses, ReleaseRunError, Leave, runVars, msgVars
    <2>2 WorkerTypes'
      BY <1>0, <1>18 DEF TypeOK, WorkerTypes, Pcs, ReleaseRunError, Leave, workerVars
    <2>3 HandoffTypes' /\ QueueTypes'
      BY <1>18 DEF TypeOK, HandoffTypes, QueueTypes, ReleaseRunError, Leave, handoffVars, queueVars
    <2> QED
      BY <2>1, <2>2, <2>3 DEF TypeOK
  <1>19 CASE Acknowledge(w)
    <2>1 QueueTypes'
      BY <1>0, <1>19 DEF TypeOK, QueueTypes, Reasons, Acknowledge, Goto, queueVars
    <2>2 WorkerTypes'
      BY <1>0, <1>19 DEF TypeOK, WorkerTypes, Pcs, Acknowledge, Goto, workerVars
    <2>3 RunTypes' /\ HandoffTypes'
      BY <1>19 DEF TypeOK, RunTypes, HandoffTypes, Acknowledge, Goto, runVars, msgVars, handoffVars
    <2> QED
      BY <2>1, <2>2, <2>3 DEF TypeOK
  <1> QED
    BY <1>1, <1>2, <1>3, <1>4, <1>5, <1>6, <1>7, <1>8, <1>9, <1>10, <1>11, <1>12, <1>13, <1>14, <1>15, <1>16, <1>17, <1>18, <1>19 DEF WorkerStep

\* A request, a resolution or a resume preserves the types.
LEMMA TypeHandoffStep ==
    ASSUME TypeOK, HandoffStep
    PROVE  TypeOK'
  <1> USE NoneAssumption, BoundAssumption
  <1>1 CASE RequestHandoff
    BY <1>1 DEF TypeOK, RunTypes, HandoffTypes, QueueTypes, WorkerTypes, HStatuses, Handoffs,
       RequestHandoff, runVars, msgVars, queueVars, workerVars
  <1>2 ASSUME NEW h \in Handoffs, NEW cancel \in BOOLEAN, ResolveHandoff(h, cancel)
       PROVE  TypeOK'
    BY <1>2 DEF TypeOK, RunTypes, HandoffTypes, QueueTypes, WorkerTypes, HStatuses,
       ResolveHandoff, CloseHandoff, runVars, msgVars, queueVars, workerVars
  <1>3 ASSUME NEW h \in Handoffs, NEW enqueued \in BOOLEAN, ResumeRun(h, enqueued),
              UNCHANGED <<msgVars, workerVars, convLock, stalls>>
       PROVE  RunTypes' /\ QueueTypes' /\ WorkerTypes'
    <2>1 source[h] \in Runs
      BY <1>3 DEF TypeOK, HandoffTypes, ResumeRun, Resumable
    <2>2 RunTypes'
      BY <1>3, <2>1 DEF TypeOK, RunTypes, ResumeRun, msgVars, Statuses
    <2>3 <<source[h], resumes + 1>> \in Entries
      BY <1>3, <2>1 DEF TypeOK, QueueTypes, ResumeRun, Entries
    <2>4 QueueTypes'
      BY <1>3, <2>1, <2>3 DEF TypeOK, QueueTypes, ResumeRun, Reasons
    <2>5 WorkerTypes'
      BY <1>3 DEF TypeOK, WorkerTypes, workerVars
    <2> QED
      BY <2>2, <2>4, <2>5
  <1>4 ASSUME NEW h \in Handoffs, NEW cancel \in BOOLEAN, NEW enqueued \in BOOLEAN,
              ResolveAndResume(h, cancel, enqueued)
       PROVE  TypeOK'
    <2>1 HandoffTypes'
      BY <1>4 DEF TypeOK, HandoffTypes, HStatuses, ResolveAndResume, CloseHandoff
    <2> QED
      BY <1>3, <1>4, <2>1 DEF TypeOK, ResolveAndResume
  <1>5 ASSUME NEW h \in Handoffs, NEW enqueued \in BOOLEAN, RetryResume(h, enqueued)
       PROVE  TypeOK'
    <2>1 HandoffTypes'
      BY <1>5 DEF TypeOK, HandoffTypes, RetryResume, handoffVars
    <2> QED
      BY <1>3, <1>5, <2>1 DEF TypeOK, RetryResume
  <1> QED
    BY <1>1, <1>2, <1>4, <1>5 DEF HandoffStep

\* Type correctness is inductive: in particular the attempt counters stay
\* within the delivery limit and every busy worker has a job.
LEMMA TypeStep == TypeOK /\ [Next]_vars => TypeOK'
  <1> SUFFICES ASSUME TypeOK, [Next]_vars PROVE TypeOK'
    OBVIOUS
  <1> USE NoneAssumption, BoundAssumption
  <1>1 CASE UNCHANGED vars
    BY <1>1 DEF TypeOK, RunTypes, HandoffTypes, QueueTypes, WorkerTypes, vars, runVars,
       msgVars, handoffVars, queueVars, workerVars
  <1>2 ASSUME NEW w \in Workers, NEW e \in Entries, StartEvent(w, e) PROVE TypeOK'
    <2>1 QueueTypes'
      BY <1>2, EntryHasRun DEF TypeOK, QueueTypes, StartEvent, Reasons
    <2>2 WorkerTypes'
      BY <1>2 DEF TypeOK, WorkerTypes, StartEvent, Pcs
    <2>3 RunTypes' /\ HandoffTypes'
      BY <1>2 DEF TypeOK, RunTypes, HandoffTypes, StartEvent, runVars, msgVars, handoffVars
    <2> QED
      BY <2>1, <2>2, <2>3 DEF TypeOK
  <1>3 ASSUME NEW w \in Workers, Crash(w) PROVE TypeOK'
    <2>0 RunOf(w) \in Runs
      BY <1>3, JobHasRun DEF TypeOK, Crash
    <2>1 RunTypes'
      BY <1>3, <2>0 DEF TypeOK, RunTypes, Crash, runVars
    <2>2 WorkerTypes'
      BY <1>3 DEF TypeOK, WorkerTypes, Crash, Leave, Pcs
    <2>3 HandoffTypes' /\ QueueTypes'
      BY <1>3 DEF TypeOK, HandoffTypes, QueueTypes, Crash, handoffVars, queueVars
    <2> QED
      BY <2>1, <2>2, <2>3 DEF TypeOK
  <1>4 ASSUME NEW r \in Runs, LeaseExpires(r) PROVE TypeOK'
    BY <1>4 DEF TypeOK, RunTypes, HandoffTypes, QueueTypes, WorkerTypes, LeaseExpires,
       msgVars, handoffVars, queueVars, workerVars
  <1> QED
    BY <1>1, <1>2, <1>3, <1>4, TypeWorkerStep, TypeHandoffStep DEF Next

\* Every reachable state is well typed.
THEOREM TypeCorrect == Spec => []TypeOK
  <1>1 Init => TypeOK
    BY NoneAssumption, BoundAssumption DEF Init, TypeOK, RunTypes, HandoffTypes, QueueTypes,
       WorkerTypes, Statuses, HStatuses, Reasons, Pcs, Entries
  <1> QED
    BY <1>1, TypeStep, PTL DEF Spec

-----------------------------------------------------------------------------
(* The inductive invariant.                                                 *)

\* Exactly the worker inside guard_ai_dispatch ... commit holds the row lock.
LockHolder ==
    \A w \in Workers : convLock = w <=> pc[w] \in {"dispatch", "commit"}

\* No handoff can become active while a dispatch holds the Conversation.
NoHandoffUnderLock == convLock # None => Active = {}

\* From generation to completion a worker has a reply in hand.
DraftInHand ==
    \A w \in Workers :
        pc[w] \in {"persist", "guard", "dispatch", "commit", "complete"} => draft[w] # None

\* A dispatch of this run was accepted by the channel and is not yet durable.
InFlight(r) == \E w \in Workers : pc[w] = "commit" /\ RunOf(w) = r

\* What the two last phases of a dispatch know of the canonical Message.
DispatchKnows ==
    \A w \in Workers :
        /\ pc[w] = "commit" => msg[RunOf(w)] = None
        /\ pc[w] = "complete" => msg[RunOf(w)] = draft[w]

\* Every accepted send is lost, in flight, or the canonical Message.
SendsAccounted ==
    \A r \in Runs :
        delivered[r] = lost[r] + (IF msg[r] # None \/ InFlight(r) THEN 1 ELSE 0)

\* A run's outbound_message_id is the canonical Message, and success has one.
OutboundIsCanonical ==
    \A r \in Runs :
        /\ outbound[r] # None => outbound[r] = msg[r]
        /\ status[r] = "succeeded" => outbound[r] # None

\* The row lock is taken by guard_ai_dispatch and dropped by the end of the
\* transaction, whatever ends it.
LEMMA LockStep ==
    ASSUME TypeOK, LockHolder, [Next]_vars
    PROVE  LockHolder'
  <1> USE NoneAssumption DEF LockHolder, TypeOK, WorkerTypes
  <1>1 CASE UNCHANGED vars
    BY <1>1 DEF vars, workerVars
  <1>2 ASSUME NEW w \in Workers, NEW e \in Entries, StartEvent(w, e) PROVE LockHolder'
    BY <1>2 DEF StartEvent, workerVars
  <1>3 ASSUME NEW w \in Workers, WorkerStep(w) PROVE LockHolder'
    <2>0 RunOf(w) \in Runs
      BY <1>3, StepHasRun DEF TypeOK
    <2>1 CASE SkipEvent(w)
      BY <2>0, <2>1 DEF SkipEvent, Goto, workerVars
    <2>2 CASE ResolveOrCreateRun(w)
      BY <2>0, <2>2 DEF ResolveOrCreateRun, Goto, workerVars
    <2>3 CASE ClaimRun(w)
      BY <2>0, <2>3 DEF ClaimRun, Goto, workerVars
    <2>4 CASE LoadRunSnapshot(w)
      BY <2>0, <2>4 DEF LoadRunSnapshot, Goto, Leave, workerVars
    <2>5 CASE SnapshotRejected(w)
      BY <2>0, <2>5 DEF SnapshotRejected, Goto, workerVars
    <2>6 CASE RenewRunLease(w)
      BY <2>0, <2>6 DEF RenewRunLease, Leave, workerVars
    <2>7 CASE \E t \in Texts : GenerateReply(w, t)
      BY <2>0, <2>7 DEF GenerateReply, Goto, workerVars
    <2>8 CASE \E fatal \in BOOLEAN : GenerateFails(w, fatal)
      BY <2>0, <2>8 DEF GenerateFails, Goto, workerVars
    <2>9 CASE PauseForToolApproval(w)
      BY <2>0, <2>9 DEF PauseForToolApproval, PauseRun, CreateHandoff, LinkHandoff,
         Leave, workerVars
    <2>10 CASE PersistGeneratedText(w)
      BY <2>0, <2>10 DEF PersistGeneratedText, Goto, Leave, workerVars
    <2>11 CASE GuardAiDispatch(w)
      BY <2>0, <2>11 DEF GuardAiDispatch, PauseRun, LinkHandoff, Goto, Leave, workerVars
    <2>12 CASE DispatchText(w)
      BY <2>0, <2>12 DEF DispatchText, Goto, workerVars
    <2>13 CASE DispatchRejected(w)
      BY <2>0, <2>13 DEF DispatchRejected, Goto, workerVars
    <2>14 CASE \E reached \in BOOLEAN : DispatchTimesOut(w, reached)
      BY <2>0, <2>14 DEF DispatchTimesOut, Goto, workerVars
    <2>15 CASE CommitDispatch(w)
      BY <2>0, <2>15 DEF CommitDispatch, Goto, workerVars
    <2>16 CASE CommitFails(w)
      BY <2>0, <2>16 DEF CommitFails, Goto, workerVars
    <2>17 CASE CompleteRun(w)
      BY <2>0, <2>17 DEF CompleteRun, Leave, workerVars
    <2>18 CASE ReleaseRunError(w)
      BY <2>0, <2>18 DEF ReleaseRunError, Leave, workerVars
    <2>19 CASE Acknowledge(w)
      BY <2>0, <2>19 DEF Acknowledge, Goto, workerVars
    <2> QED
      BY <1>3, <2>1, <2>2, <2>3, <2>4, <2>5, <2>6, <2>7, <2>8, <2>9, <2>10, <2>11, <2>12,
         <2>13, <2>14, <2>15, <2>16, <2>17, <2>18, <2>19 DEF WorkerStep
  <1>4 ASSUME NEW w \in Workers, Crash(w) PROVE LockHolder'
    <2>0 RunOf(w) \in Runs
      BY <1>4, JobHasRun DEF TypeOK, Crash
    <2> QED
      BY <2>0, <1>4 DEF Crash, Leave, workerVars
  <1>5 ASSUME NEW r \in Runs, LeaseExpires(r) PROVE LockHolder'
    BY <1>5 DEF LeaseExpires, workerVars
  <1>6 CASE RequestHandoff
    BY <1>6 DEF RequestHandoff, workerVars
  <1>7 ASSUME NEW h \in Handoffs, NEW cancel \in BOOLEAN, ResolveHandoff(h, cancel)
       PROVE  LockHolder'
    BY <1>7 DEF ResolveHandoff, CloseHandoff, workerVars
  <1>8 ASSUME NEW h \in Handoffs, NEW cancel \in BOOLEAN, NEW enqueued \in BOOLEAN,
              ResolveAndResume(h, cancel, enqueued)
       PROVE  LockHolder'
    BY <1>8 DEF ResolveAndResume, CloseHandoff, ResumeRun, Resumable, workerVars
  <1>9 ASSUME NEW h \in Handoffs, NEW enqueued \in BOOLEAN, RetryResume(h, enqueued)
       PROVE  LockHolder'
    BY <1>9 DEF RetryResume, ResumeRun, Resumable, workerVars
  <1> QED
    BY <1>1, <1>2, <1>3, <1>4, <1>5, <1>6, <1>7, <1>8, <1>9 DEF Next, HandoffStep

\* No handoff becomes active while a dispatch holds the row lock.
LEMMA NoHandoffStep ==
    ASSUME TypeOK, NoHandoffUnderLock, [Next]_vars
    PROVE  NoHandoffUnderLock'
  <1> USE NoneAssumption DEF NoHandoffUnderLock, Active, TypeOK, WorkerTypes, HandoffTypes
  <1>1 CASE UNCHANGED vars
    BY <1>1 DEF vars, handoffVars
  <1>2 ASSUME NEW w \in Workers, NEW e \in Entries, StartEvent(w, e) PROVE NoHandoffUnderLock'
    BY <1>2 DEF StartEvent, handoffVars
  <1>3 ASSUME NEW w \in Workers, WorkerStep(w) PROVE NoHandoffUnderLock'
    <2>0 RunOf(w) \in Runs
      BY <1>3, StepHasRun DEF TypeOK
    <2>1 CASE SkipEvent(w)
      BY <2>0, <2>1 DEF SkipEvent, Goto, handoffVars
    <2>2 CASE ResolveOrCreateRun(w)
      BY <2>0, <2>2 DEF ResolveOrCreateRun, Goto, handoffVars
    <2>3 CASE ClaimRun(w)
      BY <2>0, <2>3 DEF ClaimRun, Goto, handoffVars
    <2>4 CASE LoadRunSnapshot(w)
      BY <2>0, <2>4 DEF LoadRunSnapshot, Goto, Leave, handoffVars
    <2>5 CASE SnapshotRejected(w)
      BY <2>0, <2>5 DEF SnapshotRejected, Goto, handoffVars
    <2>6 CASE RenewRunLease(w)
      BY <2>0, <2>6 DEF RenewRunLease, Leave, handoffVars
    <2>7 CASE \E t \in Texts : GenerateReply(w, t)
      BY <2>0, <2>7 DEF GenerateReply, Goto, handoffVars
    <2>8 CASE \E fatal \in BOOLEAN : GenerateFails(w, fatal)
      BY <2>0, <2>8 DEF GenerateFails, Goto, handoffVars
    <2>9 CASE PauseForToolApproval(w)
      BY <2>0, <2>9 DEF PauseForToolApproval, PauseRun, CreateHandoff, LinkHandoff,
         Leave, handoffVars
    <2>10 CASE PersistGeneratedText(w)
      BY <2>0, <2>10 DEF PersistGeneratedText, Goto, Leave, handoffVars
    <2>11 CASE GuardAiDispatch(w)
      BY <2>0, <2>11 DEF GuardAiDispatch, PauseRun, LinkHandoff, Goto, Leave,
         handoffVars
    <2>12 CASE DispatchText(w)
      BY <2>0, <2>12 DEF DispatchText, Goto, handoffVars
    <2>13 CASE DispatchRejected(w)
      BY <2>0, <2>13 DEF DispatchRejected, Goto, handoffVars
    <2>14 CASE \E reached \in BOOLEAN : DispatchTimesOut(w, reached)
      BY <2>0, <2>14 DEF DispatchTimesOut, Goto, handoffVars
    <2>15 CASE CommitDispatch(w)
      BY <2>0, <2>15 DEF CommitDispatch, Goto, handoffVars
    <2>16 CASE CommitFails(w)
      BY <2>0, <2>16 DEF CommitFails, Goto, handoffVars
    <2>17 CASE CompleteRun(w)
      BY <2>0, <2>17 DEF CompleteRun, Leave, handoffVars
    <2>18 CASE ReleaseRunError(w)
      BY <2>0, <2>18 DEF ReleaseRunError, Leave, handoffVars
    <2>19 CASE Acknowledge(w)
      BY <2>0, <2>19 DEF Acknowledge, Goto, handoffVars
    <2> QED
      BY <1>3, <2>1, <2>2, <2>3, <2>4, <2>5, <2>6, <2>7, <2>8, <2>9, <2>10, <2>11, <2>12,
         <2>13, <2>14, <2>15, <2>16, <2>17, <2>18, <2>19 DEF WorkerStep
  <1>4 ASSUME NEW w \in Workers, Crash(w) PROVE NoHandoffUnderLock'
    <2>0 RunOf(w) \in Runs
      BY <1>4, JobHasRun DEF TypeOK, Crash
    <2> QED
      BY <2>0, <1>4 DEF Crash, Leave, handoffVars
  <1>5 ASSUME NEW r \in Runs, LeaseExpires(r) PROVE NoHandoffUnderLock'
    BY <1>5 DEF LeaseExpires, handoffVars
  <1>6 CASE RequestHandoff
    BY <1>6 DEF RequestHandoff, handoffVars
  <1>7 ASSUME NEW h \in Handoffs, NEW cancel \in BOOLEAN, ResolveHandoff(h, cancel)
       PROVE  NoHandoffUnderLock'
    BY <1>7 DEF ResolveHandoff, CloseHandoff, handoffVars
  <1>8 ASSUME NEW h \in Handoffs, NEW cancel \in BOOLEAN, NEW enqueued \in BOOLEAN,
              ResolveAndResume(h, cancel, enqueued)
       PROVE  NoHandoffUnderLock'
    BY <1>8 DEF ResolveAndResume, CloseHandoff, ResumeRun, Resumable, handoffVars
  <1>9 ASSUME NEW h \in Handoffs, NEW enqueued \in BOOLEAN, RetryResume(h, enqueued)
       PROVE  NoHandoffUnderLock'
    BY <1>9 DEF RetryResume, ResumeRun, Resumable, handoffVars
  <1> QED
    BY <1>1, <1>2, <1>3, <1>4, <1>5, <1>6, <1>7, <1>8, <1>9 DEF Next, HandoffStep

\* A reply in hand comes from the model or from a stored generated_text.
LEMMA DraftStep ==
    ASSUME TypeOK, DraftInHand, LeaseAndTextFollowStatus, [Next]_vars
    PROVE  DraftInHand'
  <1> USE NoneAssumption DEF DraftInHand, TypeOK, WorkerTypes
  <1>1 CASE UNCHANGED vars
    BY <1>1 DEF vars, workerVars
  <1>2 ASSUME NEW w \in Workers, NEW e \in Entries, StartEvent(w, e) PROVE DraftInHand'
    BY <1>2 DEF StartEvent, workerVars
  <1>3 ASSUME NEW w \in Workers, WorkerStep(w) PROVE DraftInHand'
    <2>0 RunOf(w) \in Runs
      BY <1>3, StepHasRun DEF TypeOK
    <2>1 CASE SkipEvent(w)
      BY <2>0, <2>1 DEF SkipEvent, Goto, workerVars
    <2>2 CASE ResolveOrCreateRun(w)
      BY <2>0, <2>2 DEF ResolveOrCreateRun, Goto, workerVars
    <2>3 CASE ClaimRun(w)
      BY <2>0, <2>3 DEF ClaimRun, Goto, workerVars
    <2>4 CASE LoadRunSnapshot(w)
      BY <2>0, <2>4 DEF LoadRunSnapshot, Goto, Leave, workerVars,
         LeaseAndTextFollowStatus
    <2>5 CASE SnapshotRejected(w)
      BY <2>0, <2>5 DEF SnapshotRejected, Goto, workerVars
    <2>6 CASE RenewRunLease(w)
      BY <2>0, <2>6 DEF RenewRunLease, Leave, workerVars
    <2>7 CASE \E t \in Texts : GenerateReply(w, t)
      BY <2>0, <2>7 DEF GenerateReply, Goto, workerVars
    <2>8 CASE \E fatal \in BOOLEAN : GenerateFails(w, fatal)
      BY <2>0, <2>8 DEF GenerateFails, Goto, workerVars
    <2>9 CASE PauseForToolApproval(w)
      BY <2>0, <2>9 DEF PauseForToolApproval, PauseRun, CreateHandoff, LinkHandoff,
         Leave, workerVars
    <2>10 CASE PersistGeneratedText(w)
      BY <2>0, <2>10 DEF PersistGeneratedText, Goto, Leave, workerVars
    <2>11 CASE GuardAiDispatch(w)
      BY <2>0, <2>11 DEF GuardAiDispatch, PauseRun, LinkHandoff, Goto, Leave, workerVars
    <2>12 CASE DispatchText(w)
      BY <2>0, <2>12 DEF DispatchText, Goto, workerVars
    <2>13 CASE DispatchRejected(w)
      BY <2>0, <2>13 DEF DispatchRejected, Goto, workerVars
    <2>14 CASE \E reached \in BOOLEAN : DispatchTimesOut(w, reached)
      BY <2>0, <2>14 DEF DispatchTimesOut, Goto, workerVars
    <2>15 CASE CommitDispatch(w)
      BY <2>0, <2>15 DEF CommitDispatch, Goto, workerVars
    <2>16 CASE CommitFails(w)
      BY <2>0, <2>16 DEF CommitFails, Goto, workerVars
    <2>17 CASE CompleteRun(w)
      BY <2>0, <2>17 DEF CompleteRun, Leave, workerVars
    <2>18 CASE ReleaseRunError(w)
      BY <2>0, <2>18 DEF ReleaseRunError, Leave, workerVars
    <2>19 CASE Acknowledge(w)
      BY <2>0, <2>19 DEF Acknowledge, Goto, workerVars
    <2> QED
      BY <1>3, <2>1, <2>2, <2>3, <2>4, <2>5, <2>6, <2>7, <2>8, <2>9, <2>10, <2>11, <2>12,
         <2>13, <2>14, <2>15, <2>16, <2>17, <2>18, <2>19 DEF WorkerStep
  <1>4 ASSUME NEW w \in Workers, Crash(w) PROVE DraftInHand'
    <2>0 RunOf(w) \in Runs
      BY <1>4, JobHasRun DEF TypeOK, Crash
    <2> QED
      BY <2>0, <1>4 DEF Crash, Leave, workerVars
  <1>5 ASSUME NEW r \in Runs, LeaseExpires(r) PROVE DraftInHand'
    BY <1>5 DEF LeaseExpires, workerVars
  <1>6 CASE RequestHandoff
    BY <1>6 DEF RequestHandoff, workerVars
  <1>7 ASSUME NEW h \in Handoffs, NEW cancel \in BOOLEAN, ResolveHandoff(h, cancel)
       PROVE  DraftInHand'
    BY <1>7 DEF ResolveHandoff, CloseHandoff, workerVars
  <1>8 ASSUME NEW h \in Handoffs, NEW cancel \in BOOLEAN, NEW enqueued \in BOOLEAN,
              ResolveAndResume(h, cancel, enqueued)
       PROVE  DraftInHand'
    BY <1>8 DEF ResolveAndResume, CloseHandoff, ResumeRun, Resumable, workerVars
  <1>9 ASSUME NEW h \in Handoffs, NEW enqueued \in BOOLEAN, RetryResume(h, enqueued)
       PROVE  DraftInHand'
    BY <1>9 DEF RetryResume, ResumeRun, Resumable, workerVars
  <1> QED
    BY <1>1, <1>2, <1>3, <1>4, <1>5, <1>6, <1>7, <1>8, <1>9 DEF Next, HandoffStep

\* Every update of a run row keeps lease, text and status together.
LEMMA LeaseAndTextStep ==
    ASSUME TypeOK, DraftInHand, LeaseAndTextFollowStatus, [Next]_vars
    PROVE  LeaseAndTextFollowStatus'
  <1> USE NoneAssumption DEF LeaseAndTextFollowStatus, Open, TypeOK, RunTypes
  <1>1 CASE UNCHANGED vars
    BY <1>1 DEF vars, runVars
  <1>2 ASSUME NEW w \in Workers, NEW e \in Entries, StartEvent(w, e) PROVE LeaseAndTextFollowStatus'
    BY <1>2 DEF StartEvent, runVars
  <1>3 ASSUME NEW w \in Workers, WorkerStep(w) PROVE LeaseAndTextFollowStatus'
    <2>0 RunOf(w) \in Runs
      BY <1>3, StepHasRun DEF TypeOK
    <2>1 CASE SkipEvent(w)
      BY <2>0, <2>1 DEF SkipEvent, Goto, runVars
    <2>2 CASE ResolveOrCreateRun(w)
      BY <2>0, <2>2 DEF ResolveOrCreateRun, Goto, runVars
    <2>3 CASE ClaimRun(w)
      BY <2>0, <2>3 DEF ClaimRun, Goto, runVars, Claimable
    <2>4 CASE LoadRunSnapshot(w)
      BY <2>0, <2>4 DEF LoadRunSnapshot, Goto, Leave, runVars
    <2>5 CASE SnapshotRejected(w)
      BY <2>0, <2>5 DEF SnapshotRejected, Goto, runVars
    <2>6 CASE RenewRunLease(w)
      BY <2>0, <2>6 DEF RenewRunLease, Leave, runVars
    <2>7 CASE \E t \in Texts : GenerateReply(w, t)
      BY <2>0, <2>7 DEF GenerateReply, Goto, runVars
    <2>8 CASE \E fatal \in BOOLEAN : GenerateFails(w, fatal)
      BY <2>0, <2>8 DEF GenerateFails, Goto, runVars
    <2>9 CASE PauseForToolApproval(w)
      BY <2>0, <2>9 DEF PauseForToolApproval, PauseRun, CreateHandoff, LinkHandoff,
         Leave, runVars
    <2>10 CASE PersistGeneratedText(w)
      BY <2>0, <2>10 DEF PersistGeneratedText, Goto, Leave, runVars, DraftInHand
    <2>11 CASE GuardAiDispatch(w)
      BY <2>0, <2>11 DEF GuardAiDispatch, PauseRun, LinkHandoff, Goto, Leave, runVars
    <2>12 CASE DispatchText(w)
      BY <2>0, <2>12 DEF DispatchText, Goto, runVars
    <2>13 CASE DispatchRejected(w)
      BY <2>0, <2>13 DEF DispatchRejected, Goto, runVars
    <2>14 CASE \E reached \in BOOLEAN : DispatchTimesOut(w, reached)
      BY <2>0, <2>14 DEF DispatchTimesOut, Goto, runVars
    <2>15 CASE CommitDispatch(w)
      BY <2>0, <2>15 DEF CommitDispatch, Goto, runVars
    <2>16 CASE CommitFails(w)
      BY <2>0, <2>16 DEF CommitFails, Goto, runVars
    <2>17 CASE CompleteRun(w)
      BY <2>0, <2>17 DEF CompleteRun, Leave, runVars
    <2>18 CASE ReleaseRunError(w)
      BY <2>0, <2>18 DEF ReleaseRunError, Leave, runVars
    <2>19 CASE Acknowledge(w)
      BY <2>0, <2>19 DEF Acknowledge, Goto, runVars
    <2> QED
      BY <1>3, <2>1, <2>2, <2>3, <2>4, <2>5, <2>6, <2>7, <2>8, <2>9, <2>10, <2>11, <2>12,
         <2>13, <2>14, <2>15, <2>16, <2>17, <2>18, <2>19 DEF WorkerStep
  <1>4 ASSUME NEW w \in Workers, Crash(w) PROVE LeaseAndTextFollowStatus'
    <2>0 RunOf(w) \in Runs
      BY <1>4, JobHasRun DEF TypeOK, Crash
    <2> QED
      BY <2>0, <1>4 DEF Crash, Leave, runVars
  <1>5 ASSUME NEW r \in Runs, LeaseExpires(r) PROVE LeaseAndTextFollowStatus'
    BY <1>5 DEF LeaseExpires, runVars
  <1>6 CASE RequestHandoff
    BY <1>6 DEF RequestHandoff, runVars
  <1>7 ASSUME NEW h \in Handoffs, NEW cancel \in BOOLEAN, ResolveHandoff(h, cancel)
       PROVE  LeaseAndTextFollowStatus'
    BY <1>7 DEF ResolveHandoff, CloseHandoff, runVars
  <1>8 ASSUME NEW h \in Handoffs, NEW cancel \in BOOLEAN, NEW enqueued \in BOOLEAN,
              ResolveAndResume(h, cancel, enqueued)
       PROVE  LeaseAndTextFollowStatus'
    BY <1>8 DEF ResolveAndResume, CloseHandoff, ResumeRun, Resumable, runVars,
       HandoffTypes
  <1>9 ASSUME NEW h \in Handoffs, NEW enqueued \in BOOLEAN, RetryResume(h, enqueued)
       PROVE  LeaseAndTextFollowStatus'
    BY <1>9 DEF RetryResume, ResumeRun, Resumable, runVars, HandoffTypes
  <1> QED
    BY <1>1, <1>2, <1>3, <1>4, <1>5, <1>6, <1>7, <1>8, <1>9 DEF Next, HandoffStep

\* Only the holder of the row lock writes a canonical Message, so what it read
\* in dispatch_text still holds when it commits.
LEMMA DispatchKnowsStep ==
    ASSUME TypeOK, LockHolder, DraftInHand, DispatchKnows, [Next]_vars
    PROVE  DispatchKnows'
  <1> USE NoneAssumption DEF LockHolder, DraftInHand, DispatchKnows, RunOf, TypeOK, WorkerTypes, RunTypes
  <1>1 CASE UNCHANGED vars
    BY <1>1 DEF vars, msgVars, workerVars
  <1>2 ASSUME NEW w \in Workers, NEW e \in Entries, StartEvent(w, e) PROVE DispatchKnows'
    BY <1>2 DEF StartEvent, msgVars, workerVars
  <1>3 ASSUME NEW w \in Workers, WorkerStep(w) PROVE DispatchKnows'
    <2>0 RunOf(w) \in Runs
      BY <1>3, StepHasRun DEF TypeOK
    <2>1 CASE SkipEvent(w)
      BY <2>0, <2>1 DEF SkipEvent, Goto, msgVars, workerVars
    <2>2 CASE ResolveOrCreateRun(w)
      BY <2>0, <2>2 DEF ResolveOrCreateRun, Goto, msgVars, workerVars
    <2>3 CASE ClaimRun(w)
      BY <2>0, <2>3 DEF ClaimRun, Goto, msgVars, workerVars
    <2>4 CASE LoadRunSnapshot(w)
      BY <2>0, <2>4 DEF LoadRunSnapshot, Goto, Leave, msgVars, workerVars
    <2>5 CASE SnapshotRejected(w)
      BY <2>0, <2>5 DEF SnapshotRejected, Goto, msgVars, workerVars
    <2>6 CASE RenewRunLease(w)
      BY <2>0, <2>6 DEF RenewRunLease, Leave, msgVars, workerVars
    <2>7 CASE \E t \in Texts : GenerateReply(w, t)
      BY <2>0, <2>7 DEF GenerateReply, Goto, msgVars, workerVars
    <2>8 CASE \E fatal \in BOOLEAN : GenerateFails(w, fatal)
      BY <2>0, <2>8 DEF GenerateFails, Goto, msgVars, workerVars
    <2>9 CASE PauseForToolApproval(w)
      BY <2>0, <2>9 DEF PauseForToolApproval, PauseRun, CreateHandoff, LinkHandoff,
         Leave, msgVars, workerVars
    <2>10 CASE PersistGeneratedText(w)
      BY <2>0, <2>10 DEF PersistGeneratedText, Goto, Leave, msgVars, workerVars
    <2>11 CASE GuardAiDispatch(w)
      BY <2>0, <2>11 DEF GuardAiDispatch, PauseRun, LinkHandoff, Goto, Leave, msgVars,
         workerVars
    <2>12 CASE DispatchText(w)
      BY <2>0, <2>12 DEF DispatchText, Goto, msgVars, workerVars
    <2>13 CASE DispatchRejected(w)
      BY <2>0, <2>13 DEF DispatchRejected, Goto, msgVars, workerVars
    <2>14 CASE \E reached \in BOOLEAN : DispatchTimesOut(w, reached)
      BY <2>0, <2>14 DEF DispatchTimesOut, Goto, msgVars, workerVars
    <2>15 CASE CommitDispatch(w)
      BY <2>0, <2>15 DEF CommitDispatch, Goto, msgVars, workerVars
    <2>16 CASE CommitFails(w)
      BY <2>0, <2>16 DEF CommitFails, Goto, msgVars, workerVars
    <2>17 CASE CompleteRun(w)
      BY <2>0, <2>17 DEF CompleteRun, Leave, msgVars, workerVars
    <2>18 CASE ReleaseRunError(w)
      BY <2>0, <2>18 DEF ReleaseRunError, Leave, msgVars, workerVars
    <2>19 CASE Acknowledge(w)
      BY <2>0, <2>19 DEF Acknowledge, Goto, msgVars, workerVars
    <2> QED
      BY <1>3, <2>1, <2>2, <2>3, <2>4, <2>5, <2>6, <2>7, <2>8, <2>9, <2>10, <2>11, <2>12,
         <2>13, <2>14, <2>15, <2>16, <2>17, <2>18, <2>19 DEF WorkerStep
  <1>4 ASSUME NEW w \in Workers, Crash(w) PROVE DispatchKnows'
    <2>0 RunOf(w) \in Runs
      BY <1>4, JobHasRun DEF TypeOK, Crash
    <2> QED
      BY <2>0, <1>4 DEF Crash, Leave, msgVars, workerVars
  <1>5 ASSUME NEW r \in Runs, LeaseExpires(r) PROVE DispatchKnows'
    BY <1>5 DEF LeaseExpires, msgVars, workerVars
  <1>6 CASE RequestHandoff
    BY <1>6 DEF RequestHandoff, msgVars, workerVars
  <1>7 ASSUME NEW h \in Handoffs, NEW cancel \in BOOLEAN, ResolveHandoff(h, cancel)
       PROVE  DispatchKnows'
    BY <1>7 DEF ResolveHandoff, CloseHandoff, msgVars, workerVars
  <1>8 ASSUME NEW h \in Handoffs, NEW cancel \in BOOLEAN, NEW enqueued \in BOOLEAN,
              ResolveAndResume(h, cancel, enqueued)
       PROVE  DispatchKnows'
    BY <1>8 DEF ResolveAndResume, CloseHandoff, ResumeRun, Resumable, msgVars,
       workerVars
  <1>9 ASSUME NEW h \in Handoffs, NEW enqueued \in BOOLEAN, RetryResume(h, enqueued)
       PROVE  DispatchKnows'
    BY <1>9 DEF RetryResume, ResumeRun, Resumable, msgVars, workerVars
  <1> QED
    BY <1>1, <1>2, <1>3, <1>4, <1>5, <1>6, <1>7, <1>8, <1>9 DEF Next, HandoffStep

\* A send is counted once: when it commits, or when its transaction is lost.
LEMMA SendsAccountedStep ==
    ASSUME TypeOK, LockHolder, DraftInHand, DispatchKnows, SendsAccounted, [Next]_vars
    PROVE  SendsAccounted'
  <1> USE NoneAssumption DEF LockHolder, DraftInHand, DispatchKnows, SendsAccounted, InFlight, RunOf, TypeOK, WorkerTypes, RunTypes
  <1>1 CASE UNCHANGED vars
    BY <1>1 DEF vars, msgVars, workerVars
  <1>2 ASSUME NEW w \in Workers, NEW e \in Entries, StartEvent(w, e) PROVE SendsAccounted'
    BY <1>2 DEF StartEvent, msgVars, workerVars
  <1>3 ASSUME NEW w \in Workers, WorkerStep(w) PROVE SendsAccounted'
    <2>0 RunOf(w) \in Runs
      BY <1>3, StepHasRun DEF TypeOK
    <2>1 CASE SkipEvent(w)
      BY <2>0, <2>1 DEF SkipEvent, Goto, msgVars, workerVars
    <2>2 CASE ResolveOrCreateRun(w)
      BY <2>0, <2>2 DEF ResolveOrCreateRun, Goto, msgVars, workerVars
    <2>3 CASE ClaimRun(w)
      BY <2>0, <2>3 DEF ClaimRun, Goto, msgVars, workerVars
    <2>4 CASE LoadRunSnapshot(w)
      BY <2>0, <2>4 DEF LoadRunSnapshot, Goto, Leave, msgVars, workerVars
    <2>5 CASE SnapshotRejected(w)
      BY <2>0, <2>5 DEF SnapshotRejected, Goto, msgVars, workerVars
    <2>6 CASE RenewRunLease(w)
      BY <2>0, <2>6 DEF RenewRunLease, Leave, msgVars, workerVars
    <2>7 CASE \E t \in Texts : GenerateReply(w, t)
      BY <2>0, <2>7 DEF GenerateReply, Goto, msgVars, workerVars
    <2>8 CASE \E fatal \in BOOLEAN : GenerateFails(w, fatal)
      BY <2>0, <2>8 DEF GenerateFails, Goto, msgVars, workerVars
    <2>9 CASE PauseForToolApproval(w)
      BY <2>0, <2>9 DEF PauseForToolApproval, PauseRun, CreateHandoff, LinkHandoff,
         Leave, msgVars, workerVars
    <2>10 CASE PersistGeneratedText(w)
      BY <2>0, <2>10 DEF PersistGeneratedText, Goto, Leave, msgVars, workerVars
    <2>11 CASE GuardAiDispatch(w)
      BY <2>0, <2>11 DEF GuardAiDispatch, PauseRun, LinkHandoff, Goto, Leave, msgVars,
         workerVars
    <2>12 CASE DispatchText(w)
      BY <2>0, <2>12 DEF DispatchText, Goto, msgVars, workerVars
    <2>13 CASE DispatchRejected(w)
      BY <2>0, <2>13 DEF DispatchRejected, Goto, msgVars, workerVars
    <2>14 CASE \E reached \in BOOLEAN : DispatchTimesOut(w, reached)
      BY <2>0, <2>14 DEF DispatchTimesOut, Goto, msgVars, workerVars
    <2>15 CASE CommitDispatch(w)
      BY <2>0, <2>15 DEF CommitDispatch, Goto, msgVars, workerVars
    <2>16 CASE CommitFails(w)
      BY <2>0, <2>16 DEF CommitFails, Goto, msgVars, workerVars
    <2>17 CASE CompleteRun(w)
      BY <2>0, <2>17 DEF CompleteRun, Leave, msgVars, workerVars
    <2>18 CASE ReleaseRunError(w)
      BY <2>0, <2>18 DEF ReleaseRunError, Leave, msgVars, workerVars
    <2>19 CASE Acknowledge(w)
      BY <2>0, <2>19 DEF Acknowledge, Goto, msgVars, workerVars
    <2> QED
      BY <1>3, <2>1, <2>2, <2>3, <2>4, <2>5, <2>6, <2>7, <2>8, <2>9, <2>10, <2>11, <2>12,
         <2>13, <2>14, <2>15, <2>16, <2>17, <2>18, <2>19 DEF WorkerStep
  <1>4 ASSUME NEW w \in Workers, Crash(w) PROVE SendsAccounted'
    <2>0 RunOf(w) \in Runs
      BY <1>4, JobHasRun DEF TypeOK, Crash
    <2> QED
      BY <2>0, <1>4 DEF Crash, Leave, msgVars, workerVars
  <1>5 ASSUME NEW r \in Runs, LeaseExpires(r) PROVE SendsAccounted'
    BY <1>5 DEF LeaseExpires, msgVars, workerVars
  <1>6 CASE RequestHandoff
    BY <1>6 DEF RequestHandoff, msgVars, workerVars
  <1>7 ASSUME NEW h \in Handoffs, NEW cancel \in BOOLEAN, ResolveHandoff(h, cancel)
       PROVE  SendsAccounted'
    BY <1>7 DEF ResolveHandoff, CloseHandoff, msgVars, workerVars
  <1>8 ASSUME NEW h \in Handoffs, NEW cancel \in BOOLEAN, NEW enqueued \in BOOLEAN,
              ResolveAndResume(h, cancel, enqueued)
       PROVE  SendsAccounted'
    BY <1>8 DEF ResolveAndResume, CloseHandoff, ResumeRun, Resumable, msgVars,
       workerVars
  <1>9 ASSUME NEW h \in Handoffs, NEW enqueued \in BOOLEAN, RetryResume(h, enqueued)
       PROVE  SendsAccounted'
    BY <1>9 DEF RetryResume, ResumeRun, Resumable, msgVars, workerVars
  <1> QED
    BY <1>1, <1>2, <1>3, <1>4, <1>5, <1>6, <1>7, <1>8, <1>9 DEF Next, HandoffStep

\* A run points at its canonical Message, which is never replaced.
LEMMA OutboundStep ==
    ASSUME TypeOK, DraftInHand, DispatchKnows, OutboundIsCanonical, [Next]_vars
    PROVE  OutboundIsCanonical'
  <1> USE NoneAssumption DEF DispatchKnows, DraftInHand, OutboundIsCanonical, RunOf, TypeOK, WorkerTypes, RunTypes
  <1>1 CASE UNCHANGED vars
    BY <1>1 DEF vars, runVars, msgVars
  <1>2 ASSUME NEW w \in Workers, NEW e \in Entries, StartEvent(w, e) PROVE OutboundIsCanonical'
    BY <1>2 DEF StartEvent, runVars, msgVars
  <1>3 ASSUME NEW w \in Workers, WorkerStep(w) PROVE OutboundIsCanonical'
    <2>0 RunOf(w) \in Runs
      BY <1>3, StepHasRun DEF TypeOK
    <2>1 CASE SkipEvent(w)
      BY <2>0, <2>1 DEF SkipEvent, Goto, runVars, msgVars
    <2>2 CASE ResolveOrCreateRun(w)
      BY <2>0, <2>2 DEF ResolveOrCreateRun, Goto, runVars, msgVars
    <2>3 CASE ClaimRun(w)
      BY <2>0, <2>3 DEF ClaimRun, Goto, runVars, msgVars
    <2>4 CASE LoadRunSnapshot(w)
      BY <2>0, <2>4 DEF LoadRunSnapshot, Goto, Leave, runVars, msgVars
    <2>5 CASE SnapshotRejected(w)
      BY <2>0, <2>5 DEF SnapshotRejected, Goto, runVars, msgVars
    <2>6 CASE RenewRunLease(w)
      BY <2>0, <2>6 DEF RenewRunLease, Leave, runVars, msgVars
    <2>7 CASE \E t \in Texts : GenerateReply(w, t)
      BY <2>0, <2>7 DEF GenerateReply, Goto, runVars, msgVars
    <2>8 CASE \E fatal \in BOOLEAN : GenerateFails(w, fatal)
      BY <2>0, <2>8 DEF GenerateFails, Goto, runVars, msgVars
    <2>9 CASE PauseForToolApproval(w)
      BY <2>0, <2>9 DEF PauseForToolApproval, PauseRun, CreateHandoff, LinkHandoff,
         Leave, runVars, msgVars
    <2>10 CASE PersistGeneratedText(w)
      BY <2>0, <2>10 DEF PersistGeneratedText, Goto, Leave, runVars, msgVars
    <2>11 CASE GuardAiDispatch(w)
      BY <2>0, <2>11 DEF GuardAiDispatch, PauseRun, LinkHandoff, Goto, Leave, runVars,
         msgVars
    <2>12 CASE DispatchText(w)
      BY <2>0, <2>12 DEF DispatchText, Goto, runVars, msgVars
    <2>13 CASE DispatchRejected(w)
      BY <2>0, <2>13 DEF DispatchRejected, Goto, runVars, msgVars
    <2>14 CASE \E reached \in BOOLEAN : DispatchTimesOut(w, reached)
      BY <2>0, <2>14 DEF DispatchTimesOut, Goto, runVars, msgVars
    <2>15 CASE CommitDispatch(w)
      BY <2>0, <2>15 DEF CommitDispatch, Goto, runVars, msgVars
    <2>16 CASE CommitFails(w)
      BY <2>0, <2>16 DEF CommitFails, Goto, runVars, msgVars
    <2>17 CASE CompleteRun(w)
      BY <2>0, <2>17 DEF CompleteRun, Leave, runVars, msgVars
    <2>18 CASE ReleaseRunError(w)
      BY <2>0, <2>18 DEF ReleaseRunError, Leave, runVars, msgVars
    <2>19 CASE Acknowledge(w)
      BY <2>0, <2>19 DEF Acknowledge, Goto, runVars, msgVars
    <2> QED
      BY <1>3, <2>1, <2>2, <2>3, <2>4, <2>5, <2>6, <2>7, <2>8, <2>9, <2>10, <2>11, <2>12,
         <2>13, <2>14, <2>15, <2>16, <2>17, <2>18, <2>19 DEF WorkerStep
  <1>4 ASSUME NEW w \in Workers, Crash(w) PROVE OutboundIsCanonical'
    <2>0 RunOf(w) \in Runs
      BY <1>4, JobHasRun DEF TypeOK, Crash
    <2> QED
      BY <2>0, <1>4 DEF Crash, Leave, runVars, msgVars
  <1>5 ASSUME NEW r \in Runs, LeaseExpires(r) PROVE OutboundIsCanonical'
    BY <1>5 DEF LeaseExpires, runVars, msgVars
  <1>6 CASE RequestHandoff
    BY <1>6 DEF RequestHandoff, runVars, msgVars
  <1>7 ASSUME NEW h \in Handoffs, NEW cancel \in BOOLEAN, ResolveHandoff(h, cancel)
       PROVE  OutboundIsCanonical'
    BY <1>7 DEF ResolveHandoff, CloseHandoff, runVars, msgVars
  <1>8 ASSUME NEW h \in Handoffs, NEW cancel \in BOOLEAN, NEW enqueued \in BOOLEAN,
              ResolveAndResume(h, cancel, enqueued)
       PROVE  OutboundIsCanonical'
    BY <1>8 DEF ResolveAndResume, CloseHandoff, ResumeRun, Resumable, runVars, msgVars
  <1>9 ASSUME NEW h \in Handoffs, NEW enqueued \in BOOLEAN, RetryResume(h, enqueued)
       PROVE  OutboundIsCanonical'
    BY <1>9 DEF RetryResume, ResumeRun, Resumable, runVars, msgVars
  <1> QED
    BY <1>1, <1>2, <1>3, <1>4, <1>5, <1>6, <1>7, <1>8, <1>9 DEF Next, HandoffStep

-----------------------------------------------------------------------------
(* The theorems.                                                            *)

InductiveInvariant ==
    /\ TypeOK
    /\ LockHolder
    /\ NoHandoffUnderLock
    /\ DraftInHand
    /\ LeaseAndTextFollowStatus
    /\ DispatchKnows
    /\ SendsAccounted
    /\ OutboundIsCanonical

\* A fresh conversation: nothing claimed, sent or locked.
LEMMA InitInvariant == Init => InductiveInvariant
  <1> SUFFICES ASSUME Init PROVE InductiveInvariant
    OBVIOUS
  <1> USE NoneAssumption, BoundAssumption DEF Init
  <1>1 TypeOK
    BY DEF TypeOK, RunTypes, HandoffTypes, QueueTypes, WorkerTypes, Statuses, HStatuses,
       Reasons, Pcs, Entries
  <1>2 LockHolder /\ NoHandoffUnderLock /\ DraftInHand
    BY DEF LockHolder, NoHandoffUnderLock, DraftInHand
  <1>3 LeaseAndTextFollowStatus /\ OutboundIsCanonical
    BY DEF LeaseAndTextFollowStatus, OutboundIsCanonical
  <1>4 DispatchKnows /\ SendsAccounted
    BY DEF DispatchKnows, SendsAccounted, InFlight
  <1> QED
    BY <1>1, <1>2, <1>3, <1>4 DEF InductiveInvariant

\* Every reachable state of every instance satisfies the inductive invariant.
THEOREM Invariance == Spec => []InductiveInvariant
  <1>1 InductiveInvariant /\ [Next]_vars => InductiveInvariant'
    BY TypeStep, LockStep, NoHandoffStep, DraftStep, LeaseAndTextStep, DispatchKnowsStep,
       SendsAccountedStep, OutboundStep DEF InductiveInvariant
  <1> QED
    BY InitInvariant, <1>1, PTL DEF Spec

\* A run that is not open holds no lease, and a temporary reply exists exactly
\* between persist_generated_text and the end of the run.
THEOREM LeaseAndText == Spec => []LeaseAndTextFollowStatus
  <1>1 InductiveInvariant => LeaseAndTextFollowStatus
    BY DEF InductiveInvariant
  <1> QED
    BY <1>1, Invariance, PTL

\* A succeeded run points at the canonical Message, which was really sent.
THEOREM SuccessIsBacked == Spec => []SuccessHasReply
  <1>1 InductiveInvariant => SuccessHasReply
    BY NoneAssumption DEF InductiveInvariant, SuccessHasReply, OutboundIsCanonical, SendsAccounted,
       TypeOK, RunTypes
  <1> QED
    BY <1>1, Invariance, PTL

\* However many workers, leases and resumed jobs race for a run, the channel
\* accepts an extra copy of its reply only for a transaction that was lost.
THEOREM DuplicatesBounded == Spec => []DuplicatesOnlyAfterLoss
  <1>1 InductiveInvariant => DuplicatesOnlyAfterLoss
    BY DEF InductiveInvariant, DuplicatesOnlyAfterLoss, SendsAccounted, TypeOK, RunTypes
  <1> QED
    BY <1>1, Invariance, PTL

\* The row lock makes guard_ai_dispatch and dispatch_text one critical section:
\* no step sends or stores an AI reply while a handoff is active.
THEOREM HandoffSilencesAI == Spec => NoAIReplyDuringHandoff
  <1>1 ASSUME InductiveInvariant, [Next]_vars, delivered' # delivered \/ msg' # msg
       PROVE  Active = {} /\ Active' = {}
    <2>1 PICK w \in Workers : /\ pc[w] \in {"dispatch", "commit"}
                               /\ UNCHANGED handoffVars
      <3>1 ~UNCHANGED vars
        BY <1>1 DEF vars, msgVars
      <3>2 ~HandoffStep
        BY <1>1 DEF HandoffStep, RequestHandoff, ResolveHandoff, ResolveAndResume, RetryResume,
           msgVars
      <3>3 \A v \in Workers : /\ ~Crash(v)
                              /\ \A e \in Entries : ~StartEvent(v, e)
        BY <1>1 DEF Crash, StartEvent, msgVars
      <3>4 \A r \in Runs : ~LeaseExpires(r)
        BY <1>1 DEF LeaseExpires, msgVars
      <3>5 PICK w \in Workers : WorkerStep(w)
        BY <1>1, <3>1, <3>2, <3>3, <3>4 DEF Next
      <3>6 \/ DispatchText(w)
           \/ \E reached \in BOOLEAN : DispatchTimesOut(w, reached)
           \/ CommitDispatch(w)
        BY <1>1, <3>5 DEF WorkerStep, SkipEvent, ResolveOrCreateRun, ClaimRun, LoadRunSnapshot,
           SnapshotRejected, RenewRunLease, GenerateReply, GenerateFails, PauseForToolApproval,
           PersistGeneratedText, GuardAiDispatch, DispatchRejected, CommitFails, CompleteRun,
           ReleaseRunError, Acknowledge, msgVars
      <3> QED
        BY <3>6 DEF DispatchText, DispatchTimesOut, CommitDispatch, Goto
    <2> QED
      BY <1>1, <2>1, NoneAssumption DEF InductiveInvariant, LockHolder, NoHandoffUnderLock, Active,
         handoffVars
  <1>2 InductiveInvariant /\ [Next]_vars
       => [(delivered' # delivered \/ msg' # msg) => Active = {} /\ Active' = {}]_vars
    BY <1>1
  <1> QED
    BY <1>2, Invariance, PTL DEF Spec, NoAIReplyDuringHandoff

\* No retry, stale worker or resumed run replaces a canonical reply.
THEOREM ReplyIsFinal == Spec => CanonicalReplyIsFinal
  <1>1 ASSUME InductiveInvariant, [Next]_vars, NEW r \in Runs, msg[r] # None
       PROVE  msg'[r] = msg[r]
    <2>1 ASSUME NEW w \in Workers, CommitDispatch(w) PROVE msg'[r] = msg[r]
      BY <1>1, <2>1 DEF InductiveInvariant, DispatchKnows, CommitDispatch, Goto, TypeOK, RunTypes
    <2>2 ASSUME NEW w \in Workers, WorkerStep(w), ~CommitDispatch(w) PROVE UNCHANGED msg
      BY <2>2 DEF WorkerStep, SkipEvent, ResolveOrCreateRun, ClaimRun, LoadRunSnapshot,
         SnapshotRejected, RenewRunLease, GenerateReply, GenerateFails, PauseForToolApproval,
         PersistGeneratedText, GuardAiDispatch, DispatchText, DispatchRejected, DispatchTimesOut,
         CommitFails, CompleteRun, ReleaseRunError, Acknowledge, msgVars
    <2>3 CASE UNCHANGED vars
      BY <2>3 DEF vars, msgVars
    <2>4 CASE HandoffStep
      BY <2>4 DEF HandoffStep, RequestHandoff, ResolveHandoff, ResolveAndResume, RetryResume, msgVars
    <2>5 ASSUME NEW w \in Workers, NEW e \in Entries, StartEvent(w, e) PROVE UNCHANGED msg
      BY <2>5 DEF StartEvent, msgVars
    <2>6 ASSUME NEW w \in Workers, Crash(w) PROVE UNCHANGED msg
      BY <2>6 DEF Crash
    <2>7 ASSUME NEW q \in Runs, LeaseExpires(q) PROVE UNCHANGED msg
      BY <2>7 DEF LeaseExpires, msgVars
    <2> QED
      BY <1>1, <2>1, <2>2, <2>3, <2>4, <2>5, <2>6, <2>7 DEF Next
  <1>2 InductiveInvariant /\ [Next]_vars
       => [\A r \in Runs : msg[r] # None => msg'[r] = msg[r]]_vars
    BY <1>1
  <1> QED
    BY <1>2, Invariance, PTL DEF Spec, CanonicalReplyIsFinal
=============================================================================
