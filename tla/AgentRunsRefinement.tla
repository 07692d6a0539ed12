------------------------- MODULE AgentRunsRefinement --------------------------
(***************************************************************************)
(* AgentRuns implements SharedConversation, for any number of workers,     *)
(* runs, texts, handoffs and any values of the bounds.                     *)
(***************************************************************************)
EXTENDS AgentRunsProofs

\* A reply is under way exactly while a worker waits to commit it.
LEMMA UnderwayIsInFlight ==
    ASSUME InductiveInvariant, NEW r \in Runs
    PROVE  Shared!Underway(r) <=> InFlight(r)
  <1>1 delivered[r] \in Nat /\ lost[r] \in Nat
    BY DEF InductiveInvariant, TypeOK, RunTypes
  <1>2 InFlight(r) => msg[r] = None
    BY DEF InductiveInvariant, DispatchKnows, InFlight
  <1> QED
    BY <1>1, <1>2 DEF InductiveInvariant, SendsAccounted, Shared!Underway

\* Nobody dispatches while the Conversation row is free, and a worker that is
\* about to dispatch is the only one.
LEMMA QuietUnlessCommitting ==
    ASSUME InductiveInvariant, \A v \in Workers : pc[v] # "commit"
    PROVE  Shared!Quiet
  BY UnderwayIsInFlight DEF Shared!Quiet, InFlight

LEMMA LockExcludes ==
    ASSUME InductiveInvariant, NEW w \in Workers, pc[w] = "dispatch"
    PROVE  /\ Active = {}
           /\ \A v \in Workers : pc[v] # "commit"
  BY NoneAssumption DEF InductiveInvariant, LockHolder, NoHandoffUnderLock

\* A dispatch is a Send, one that times out may be a SendUnknowingly.
LEMMA DispatchIsSend ==
    ASSUME InductiveInvariant, NEW w \in Workers, DispatchText(w)
    PROVE  [Shared!SharedNext]_(Shared!sharedVars)
  <1> DEFINE r == RunOf(w)
  <1>0 r \in Runs
    BY JobHasRun DEF InductiveInvariant, TypeOK, DispatchText, Goto
  <1>1 pc[w] = "dispatch" /\ UNCHANGED <<msg, lost, handoffVars>>
    BY DEF DispatchText, Goto
  <1>2 Keeper = "ai" /\ Shared!Quiet
    BY <1>1, LockExcludes, QuietUnlessCommitting DEF Keeper
  <1>3 UNCHANGED Keeper
    BY <1>1 DEF Keeper, Active, handoffVars
  <1>4 CASE msg[r] = None
    <2>1 delivered' = [delivered EXCEPT ![r] = @ + 1]
      BY <1>4 DEF DispatchText
    <2>2 Shared!Send(r)
      BY <1>1, <1>2, <1>3, <1>4, <2>1 DEF Shared!Send
    <2> QED
      BY <1>0, <2>2 DEF Shared!SharedNext
  <1>5 CASE msg[r] # None
    BY <1>1, <1>3, <1>5 DEF DispatchText, Shared!sharedVars
  <1> QED
    BY <1>4, <1>5

LEMMA TimeoutIsSend ==
    ASSUME InductiveInvariant, NEW w \in Workers, NEW reached \in BOOLEAN,
           DispatchTimesOut(w, reached)
    PROVE  [Shared!SharedNext]_(Shared!sharedVars)
  <1> DEFINE r == RunOf(w)
  <1>0 r \in Runs
    BY JobHasRun DEF InductiveInvariant, TypeOK, DispatchTimesOut, Goto
  <1>1 pc[w] = "dispatch" /\ msg[r] = None /\ UNCHANGED <<msg, handoffVars>>
    BY DEF DispatchTimesOut, Goto
  <1>2 Keeper = "ai" /\ Shared!Quiet
    BY <1>1, LockExcludes, QuietUnlessCommitting DEF Keeper
  <1>3 UNCHANGED Keeper
    BY <1>1 DEF Keeper, Active, handoffVars
  <1>4 CASE reached
    <2>1 /\ delivered' = [delivered EXCEPT ![r] = @ + 1]
         /\ lost' = [lost EXCEPT ![r] = @ + 1]
      BY <1>4 DEF DispatchTimesOut
    <2>2 Shared!SendUnknowingly(r)
      BY <1>1, <1>2, <1>3, <2>1 DEF Shared!SendUnknowingly
    <2> QED
      BY <1>0, <2>2 DEF Shared!SharedNext
  <1>5 CASE ~reached
    <2>1 delivered' = delivered /\ lost' = lost
      BY <1>0, <1>5 DEF DispatchTimesOut, InductiveInvariant, TypeOK, RunTypes
    <2> QED
      BY <1>1, <1>3, <2>1 DEF Shared!sharedVars
  <1> QED
    BY <1>4, <1>5

\* The commit of a dispatch records its reply.
LEMMA CommitIsRecord ==
    ASSUME InductiveInvariant, NEW w \in Workers, CommitDispatch(w)
    PROVE  [Shared!SharedNext]_(Shared!sharedVars)
  <1> DEFINE r == RunOf(w)
  <1>0 r \in Runs
    BY JobHasRun DEF InductiveInvariant, TypeOK, CommitDispatch, Goto
  <1>1 pc[w] = "commit"
    BY DEF CommitDispatch, Goto
  <1>2 Shared!Underway(r)
    BY <1>0, <1>1, UnderwayIsInFlight DEF InFlight
  <1>3 draft[w] \in Texts
    BY <1>1 DEF InductiveInvariant, DraftInHand, TypeOK, WorkerTypes
  <1>4 UNCHANGED Keeper
    BY DEF CommitDispatch, Keeper, Active, handoffVars
  <1>5 Shared!Record(r, draft[w])
    BY <1>2, <1>4 DEF CommitDispatch, Shared!Record
  <1> QED
    BY <1>0, <1>3, <1>5 DEF Shared!SharedNext

\* A commit that fails, or a worker that dies before it, forgets the reply.
LEMMA LossIsForget ==
    ASSUME InductiveInvariant, NEW w \in Workers, CommitFails(w) \/ Crash(w)
    PROVE  [Shared!SharedNext]_(Shared!sharedVars)
  <1> DEFINE r == RunOf(w)
  <1>0 r \in Runs
    BY JobHasRun DEF InductiveInvariant, TypeOK, CommitFails, Crash, Goto
  <1>1 UNCHANGED <<msg, delivered>> /\ UNCHANGED Keeper
    BY DEF CommitFails, Crash, Keeper, Active, handoffVars
  <1>2 CASE pc[w] = "commit"
    <2>1 lost' = [lost EXCEPT ![r] = @ + 1]
      BY <1>2 DEF CommitFails, Crash
    <2>2 Shared!Underway(r)
      BY <1>0, <1>2, UnderwayIsInFlight DEF InFlight
    <2>3 Shared!Forget(r)
      BY <1>1, <2>1, <2>2 DEF Shared!Forget
    <2> QED
      BY <1>0, <2>3 DEF Shared!SharedNext
  <1>3 CASE pc[w] # "commit"
    <2>1 lost' = lost
      BY <1>0, <1>3 DEF CommitFails, Crash, Goto, InductiveInvariant, TypeOK, RunTypes
    <2> QED
      BY <1>1, <2>1 DEF Shared!sharedVars
  <1> QED
    BY <1>2, <1>3

\* A step that leaves the replies alone changes the keeper between two replies.
LEMMA KeeperChangesQuietly ==
    ASSUME InductiveInvariant, UNCHANGED msgVars,
           Active' # Active => \A v \in Workers : pc[v] # "commit"
    PROVE  [Shared!SharedNext]_(Shared!sharedVars)
  <1>1 CASE Keeper' = Keeper
    BY <1>1 DEF msgVars, Shared!sharedVars
  <1>2 CASE Keeper' # Keeper
    <2>1 Shared!Quiet
      BY <1>2, QuietUnlessCommitting DEF Keeper
    <2>2 Shared!PassOn
      BY <1>2, <2>1 DEF Keeper, msgVars, Shared!PassOn
    <2> QED
      BY <2>2 DEF Shared!SharedNext
  <1> QED
    BY <1>1, <1>2

\* Without an active handoff nothing but the free row lets one become active,
\* and with one no worker commits.
LEMMA NoCommitWhileHandedOff ==
    ASSUME InductiveInvariant, Active # {} \/ convLock = None
    PROVE  \A v \in Workers : pc[v] # "commit"
  BY NoneAssumption DEF InductiveInvariant, LockHolder, NoHandoffUnderLock

LEMMA HandoffIsPassOn ==
    ASSUME InductiveInvariant, HandoffStep
    PROVE  [Shared!SharedNext]_(Shared!sharedVars)
  <1>1 UNCHANGED msgVars
    BY DEF HandoffStep, RequestHandoff, ResolveHandoff, ResolveAndResume, RetryResume
  <1>2 ASSUME Active' # Active PROVE Active # {} \/ convLock = None
    <2>1 CASE RequestHandoff
      BY <2>1 DEF RequestHandoff
    <2>2 ASSUME NEW h \in Handoffs, NEW cancel \in BOOLEAN, NEW enqueued \in BOOLEAN,
                ResolveHandoff(h, cancel) \/ ResolveAndResume(h, cancel, enqueued)
         PROVE  Active # {}
      BY <2>2 DEF ResolveHandoff, ResolveAndResume, CloseHandoff
    <2>3 ASSUME NEW h \in Handoffs, NEW enqueued \in BOOLEAN, RetryResume(h, enqueued)
         PROVE  FALSE
      BY <1>2, <2>3 DEF RetryResume, handoffVars, Active
    <2> QED
      BY <2>1, <2>2, <2>3 DEF HandoffStep
  <1> QED
    BY <1>1, <1>2, KeeperChangesQuietly, NoCommitWhileHandedOff

\* The steps of an attempt that do not touch the channel: the keeper changes
\* only when a tool approval opens a handoff, under the Conversation row.
LEMMA OtherWorkIsQuiet ==
    ASSUME InductiveInvariant, NEW w \in Workers, WorkerStep(w),
           ~DispatchText(w), ~CommitDispatch(w), ~CommitFails(w),
           \A reached \in BOOLEAN : ~DispatchTimesOut(w, reached)
    PROVE  [Shared!SharedNext]_(Shared!sharedVars)
  <1>1 CASE PauseForToolApproval(w)
    <2>1 UNCHANGED msgVars
      BY <1>1 DEF PauseForToolApproval
    <2>2 convLock = None
      BY <1>1 DEF PauseForToolApproval
    <2> QED
      BY <2>1, <2>2, KeeperChangesQuietly, NoCommitWhileHandedOff
  <1>2 CASE GuardAiDispatch(w)
    <2>1 UNCHANGED msgVars /\ convLock = None
      BY <1>2 DEF GuardAiDispatch
    <2> QED
      BY <2>1, KeeperChangesQuietly, NoCommitWhileHandedOff
  <1>3 CASE ~PauseForToolApproval(w) /\ ~GuardAiDispatch(w)
    <2>1 UNCHANGED <<msgVars, handoffVars>>
      BY <1>3 DEF WorkerStep, SkipEvent, ResolveOrCreateRun, ClaimRun, LoadRunSnapshot,
         SnapshotRejected, RenewRunLease, GenerateReply, GenerateFails, PersistGeneratedText,
         DispatchRejected, CompleteRun, ReleaseRunError, Acknowledge
    <2> QED
      BY <2>1, KeeperChangesQuietly DEF handoffVars, Active
  <1> QED
    BY <1>1, <1>2, <1>3

LEMMA StepIsShared ==
    InductiveInvariant /\ [Next]_vars => [Shared!SharedNext]_(Shared!sharedVars)
  <1> SUFFICES ASSUME InductiveInvariant, [Next]_vars
               PROVE  [Shared!SharedNext]_(Shared!sharedVars)
    OBVIOUS
  <1>1 CASE UNCHANGED vars
    BY <1>1, KeeperChangesQuietly DEF vars, handoffVars, Active
  <1>2 ASSUME NEW w \in Workers, NEW e \in Entries, StartEvent(w, e)
       PROVE  [Shared!SharedNext]_(Shared!sharedVars)
    BY <1>2, KeeperChangesQuietly DEF StartEvent, handoffVars, Active
  <1>3 ASSUME NEW r \in Runs, LeaseExpires(r)
       PROVE  [Shared!SharedNext]_(Shared!sharedVars)
    BY <1>3, KeeperChangesQuietly DEF LeaseExpires, handoffVars, Active
  <1>4 ASSUME NEW w \in Workers, WorkerStep(w)
       PROVE  [Shared!SharedNext]_(Shared!sharedVars)
    BY <1>4, DispatchIsSend, TimeoutIsSend, CommitIsRecord, LossIsForget, OtherWorkIsQuiet
  <1> QED
    BY <1>1, <1>2, <1>3, <1>4, LossIsForget, HandoffIsPassOn DEF Next

\* The agent runtime implements the shared conversation: its first state is
\* the first state there, and each of its steps is a step there or none.
THEOREM Refinement == Spec => ImplementsSharedConversation
  <1>1 Init => Shared!SharedInit
    BY DEF Init, Shared!SharedInit, Keeper, Active
  <1> QED
    BY <1>1, StepIsShared, Invariance, PTL
    DEF Spec, ImplementsSharedConversation, Shared!SharedSpec
=============================================================================
