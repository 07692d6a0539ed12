-------------------------- MODULE ToolExecutionsProofs --------------------------
(***************************************************************************)
(* Proofs about ToolExecutions for any number of callers, any arguments    *)
(* and attempts, and any values of the bounds.                             *)
(***************************************************************************)
EXTENDS ToolExecutions, TLAPS

-----------------------------------------------------------------------------
(* The inductive invariant.                                                 *)

\* Nothing has happened before there is a row, and nobody is past creating it.
NoRowYet ==
    status = "none" =>
        /\ approval = "not_required"
        /\ input = None
        /\ executed = {}
        /\ effects = {}
        /\ \A c \in Callers : pc[c] \in {"idle", "load", "create"}

RowHasInput == status # "none" => input \in Args

\* Every call has arguments, and whoever goes on with the row was called with
\* what it records.
CallersAgree ==
    \A c \in Callers :
        /\ pc[c] # "idle" => arg[c] \in Args
        /\ pc[c] \in {"reset", "mark", "call", "finish"} => arg[c] = input

\* Status and approval_status fit, and nobody goes on without approval.
ApprovalFits ==
    /\ approval = "pending" <=> status = "approval_required"
    /\ approval = "denied" <=> status = "denied"
    /\ approval \in {"pending", "denied"} =>
          \A c \in Callers : pc[c] \in {"idle", "load", "create"}

\* Each execution uses up the row as it was inserted, or one set-back.
StartsAccounted ==
    /\ started <= 1 + resets
    /\ status \in {"none", "pending", "approval_required"} => started <= resets

\* A caller at work runs an execution that was started, with attempts left.
TurnsFit ==
    \A c \in Callers :
        /\ pc[c] \in {"call", "finish"} => turn[c] \in 1..started
        /\ pc[c] = "call" => attempt[c] < Allowed
        /\ pc[c] \notin {"call", "finish"} => attempt[c] = 0

\* As long as nothing was set back, at most one caller is at work, and the row
\* says so.
OneAtWork ==
    resets = 0 =>
        /\ \A c, d \in AtWork : c = d
        /\ status # "running" => AtWork = {}

IInv ==
    /\ TypeOK
    /\ NoRowYet
    /\ RowHasInput
    /\ CallersAgree
    /\ ApprovalFits
    /\ StartsAccounted
    /\ TurnsFit
    /\ OneAtWork
    /\ EffectsBounded
    /\ NothingWithoutApproval
    /\ ExecutedAsRecorded

-----------------------------------------------------------------------------
\* A step preserves the types.
LEMMA TypeStep == IInv /\ [Next]_vars => TypeOK'
  <1> SUFFICES ASSUME IInv, [Next]_vars PROVE TypeOK'
    OBVIOUS
  <1> USE ToolAssumption DEF IInv
  <1>1 ASSUME NEW c \in Callers, CallerStep(c) PROVE TypeOK'
    <2>1 CASE \E a \in Args : CallTool(c, a)
      BY <2>1 DEF TypeOK, CallerPcs, CallTool, Goto, rowVars, serviceVars, countVars
    <2>2 CASE LoadExecution(c)
      BY <2>2 DEF TypeOK, CallerPcs, LoadExecution, Goto, Examine, Return, rowVars,
         serviceVars, countVars, boundVars
    <2>3 CASE CreateExecution(c)
      BY <2>3 DEF TypeOK, Statuses, Terminal, Approvals, CallerPcs, TurnsFit,
         CreateExecution, Insert, Examine, Return, serviceVars, countVars, boundVars
    <2>4 CASE ResetStale(c)
      BY <2>4 DEF TypeOK, Statuses, Approvals, CallerPcs, ResetStale, Goto, Return,
         serviceVars, boundVars
    <2>5 CASE MarkRunning(c)
      <3>1 CASE Start(c)
        <4>1 turn' \in [Callers -> Nat] /\ started' \in Nat
          BY <3>1 DEF TypeOK, Start
        <4>2 pc' \in [Callers -> CallerPcs] /\ status' \in Statuses /\ recent' \in BOOLEAN
          BY <3>1 DEF TypeOK, Start, Goto, CallerPcs, Statuses
        <4> QED
          BY <2>5, <3>1, <4>1, <4>2
             DEF TypeOK, MarkRunning, Start, serviceVars, boundVars
      <3>2 CASE Refuse(c)
        BY <2>5, <3>2
           DEF TypeOK, CallerPcs, MarkRunning, Refuse, Return, serviceVars, boundVars
      <3> QED
        BY <2>5, <3>1, <3>2 DEF MarkRunning
    <2>6 CASE AdapterSucceeds(c)
      <3>1 turn[c] \in Nat /\ attempt[c] + 1 \in 0..Allowed /\ arg[c] \in Args
        BY <2>6 DEF TypeOK, TurnsFit, CallersAgree, AdapterSucceeds, Goto
      <3>2 effects' \subseteq Nat \X Nat /\ executed' \subseteq Args
        BY <2>6, <3>1 DEF TypeOK, AdapterSucceeds, Reach
      <3>3 pc' \in [Callers -> CallerPcs]
        BY <2>6 DEF TypeOK, CallerPcs, AdapterSucceeds, Goto
      <3> QED
        BY <2>6, <3>1, <3>2, <3>3
           DEF TypeOK, AdapterSucceeds, rowVars, countVars, boundVars
    <2>7 CASE \E reached, retryable \in BOOLEAN : AdapterFails(c, reached, retryable)
      <3>1 PICK reached, retryable \in BOOLEAN : AdapterFails(c, reached, retryable)
        BY <2>7
      <3>2 turn[c] \in Nat /\ attempt[c] + 1 \in 0..Allowed /\ arg[c] \in Args
        BY <3>1 DEF TypeOK, TurnsFit, CallersAgree, AdapterFails
      <3>3 effects' \subseteq Nat \X Nat /\ executed' \subseteq Args
        BY <3>1, <3>2 DEF TypeOK, AdapterFails, Reach, serviceVars
      <3>4 pc' \in [Callers -> CallerPcs]
        BY <3>1 DEF TypeOK, CallerPcs, AdapterFails, Goto
      <3> QED
        BY <3>1, <3>2, <3>3, <3>4
           DEF TypeOK, AdapterFails, rowVars, countVars, boundVars
    <2>8 CASE FinishExecution(c)
      BY <2>8 DEF TypeOK, Statuses, Terminal, Approvals, CallerPcs, TurnsFit,
         FinishExecution, Return, serviceVars, countVars, boundVars
    <2>9 CASE CallDies(c)
      BY <2>9 DEF TypeOK, CallerPcs, CallDies, Return, rowVars, serviceVars, countVars
    <2> QED
      BY <1>1, <2>1, <2>2, <2>3, <2>4, <2>5, <2>6, <2>7, <2>8, <2>9 DEF CallerStep
  <1>2 CASE ExecutionAges
    <2>1 stalls' \in 0..MaxStalls
      <3>1 stalls \in 0..MaxStalls
        BY DEF TypeOK
      <3>2 stalls' = stalls \/ (stalls < MaxStalls /\ stalls' = stalls + 1)
        BY <1>2 DEF ExecutionAges
      <3> QED
        BY <3>1, <3>2
    <2>2 recent' = FALSE
      BY <1>2 DEF ExecutionAges
    <2>3 UNCHANGED <<status, approval, input, callerVars, serviceVars, countVars, calls, faults>>
      BY <1>2 DEF ExecutionAges
    <2> QED
      BY <2>1, <2>2, <2>3 DEF TypeOK, callerVars, serviceVars, countVars
  <1>3 CASE \E decision \in {"approved", "denied"} : DecideApproval(decision)
    BY <1>3 DEF TypeOK, Statuses, Terminal, Approvals, CallerPcs, TurnsFit,
       DecideApproval, callerVars, serviceVars, countVars, boundVars
  <1>4 CASE UNCHANGED vars
    BY <1>4 DEF TypeOK, CallerPcs, vars, rowVars, callerVars, serviceVars, countVars,
       boundVars
  <1> QED
    BY <1>1, <1>2, <1>3, <1>4 DEF Next

\* A step that touches the row, or goes on with it, finds or makes one.
LEMMA NoRowStep == IInv /\ [Next]_vars => NoRowYet'
  <1> SUFFICES ASSUME IInv, [Next]_vars PROVE NoRowYet'
    OBVIOUS
  <1> USE ToolAssumption DEF IInv
  <1>1 ASSUME NEW c \in Callers, CallerStep(c) PROVE NoRowYet'
    <2>1 CASE \E a \in Args : CallTool(c, a)
      BY <2>1 DEF NoRowYet, CallTool, Goto, rowVars, serviceVars
    <2>2 CASE LoadExecution(c)
      BY <2>2 DEF NoRowYet, TypeOK, LoadExecution, Goto, Examine, Return, rowVars,
         serviceVars
    <2>3 CASE CreateExecution(c)
      BY <2>3 DEF NoRowYet, CreateExecution, Insert, Examine, Return, serviceVars
    <2>4 CASE ResetStale(c)
      BY <2>4 DEF NoRowYet, ResetStale, Goto, Return, serviceVars
    <2>5 CASE MarkRunning(c)
      BY <2>5 DEF NoRowYet, MarkRunning, Start, Refuse, Goto, Return, serviceVars
    <2>6 CASE AdapterSucceeds(c)
      BY <2>6 DEF NoRowYet, AdapterSucceeds, Goto, Reach, rowVars
    <2>7 CASE \E reached, retryable \in BOOLEAN : AdapterFails(c, reached, retryable)
      BY <2>7 DEF NoRowYet, AdapterFails, Goto, Reach, rowVars, serviceVars
    <2>8 CASE FinishExecution(c)
      BY <2>8 DEF NoRowYet, TypeOK, FinishExecution, Return, serviceVars
    <2>9 CASE CallDies(c)
      BY <2>9 DEF NoRowYet, CallDies, Return, rowVars, serviceVars
    <2> QED
      BY <1>1, <2>1, <2>2, <2>3, <2>4, <2>5, <2>6, <2>7, <2>8, <2>9 DEF CallerStep
  <1>2 CASE ExecutionAges
    BY <1>2 DEF NoRowYet, ExecutionAges, callerVars, serviceVars
  <1>3 CASE \E decision \in {"approved", "denied"} : DecideApproval(decision)
    BY <1>3 DEF NoRowYet, DecideApproval, callerVars, serviceVars
  <1>4 CASE UNCHANGED vars
    BY <1>4 DEF NoRowYet, vars, rowVars, callerVars, serviceVars
  <1> QED
    BY <1>1, <1>2, <1>3, <1>4 DEF Next

\* A row records what it was inserted with.
LEMMA InputStep == IInv /\ [Next]_vars => RowHasInput'
  <1> SUFFICES ASSUME IInv, [Next]_vars PROVE RowHasInput'
    OBVIOUS
  <1> USE ToolAssumption DEF IInv
  <1>1 ASSUME NEW c \in Callers, CallerStep(c) PROVE RowHasInput'
    <2>1 CASE \E a \in Args : CallTool(c, a)
      BY <2>1 DEF RowHasInput, CallTool, Goto, rowVars, serviceVars
    <2>2 CASE LoadExecution(c)
      BY <2>2 DEF RowHasInput, LoadExecution, Goto, Examine, Return, rowVars,
         serviceVars
    <2>3 CASE CreateExecution(c)
      BY <2>3 DEF RowHasInput, NoRowYet, CallersAgree, CreateExecution, Insert, Examine,
         Return, serviceVars
    <2>4 CASE ResetStale(c)
      BY <2>4 DEF RowHasInput, NoRowYet, CallersAgree, ResetStale, Goto, Return,
         serviceVars
    <2>5 CASE MarkRunning(c)
      BY <2>5 DEF RowHasInput, MarkRunning, Start, Refuse, Goto, Return, serviceVars
    <2>6 CASE AdapterSucceeds(c)
      BY <2>6 DEF RowHasInput, AdapterSucceeds, Goto, Reach, rowVars
    <2>7 CASE \E reached, retryable \in BOOLEAN : AdapterFails(c, reached, retryable)
      BY <2>7 DEF RowHasInput, AdapterFails, Goto, Reach, rowVars, serviceVars
    <2>8 CASE FinishExecution(c)
      BY <2>8 DEF RowHasInput, NoRowYet, CallersAgree, FinishExecution, Return,
         serviceVars
    <2>9 CASE CallDies(c)
      BY <2>9 DEF RowHasInput, CallDies, Return, rowVars, serviceVars
    <2> QED
      BY <1>1, <2>1, <2>2, <2>3, <2>4, <2>5, <2>6, <2>7, <2>8, <2>9 DEF CallerStep
  <1>2 CASE ExecutionAges
    BY <1>2 DEF RowHasInput, ExecutionAges, callerVars, serviceVars
  <1>3 CASE \E decision \in {"approved", "denied"} : DecideApproval(decision)
    BY <1>3 DEF RowHasInput, NoRowYet, CallersAgree, DecideApproval, callerVars,
       serviceVars
  <1>4 CASE UNCHANGED vars
    BY <1>4 DEF RowHasInput, vars, rowVars, callerVars, serviceVars
  <1> QED
    BY <1>1, <1>2, <1>3, <1>4 DEF Next

\* Who goes on has compared its arguments with the row, which never changes them.
LEMMA AgreeStep == IInv /\ [Next]_vars => CallersAgree'
  <1> SUFFICES ASSUME IInv, [Next]_vars PROVE CallersAgree'
    OBVIOUS
  <1> USE ToolAssumption DEF IInv
  <1>1 ASSUME NEW c \in Callers, CallerStep(c) PROVE CallersAgree'
    <2>1 CASE \E a \in Args : CallTool(c, a)
      BY <2>1 DEF CallersAgree, TypeOK, CallTool, Goto, rowVars, serviceVars
    <2>2 CASE LoadExecution(c)
      BY <2>2 DEF CallersAgree, TypeOK, LoadExecution, Goto, Examine, Return, rowVars,
         serviceVars
    <2>3 CASE CreateExecution(c)
      BY <2>3 DEF CallersAgree, NoRowYet, TypeOK, CreateExecution, Insert, Examine,
         Return, serviceVars
    <2>4 CASE ResetStale(c)
      BY <2>4 DEF CallersAgree, TypeOK, ResetStale, Goto, Return, serviceVars
    <2>5 CASE MarkRunning(c)
      BY <2>5 DEF CallersAgree, TypeOK, MarkRunning, Start, Refuse, Goto, Return,
         serviceVars
    <2>6 CASE AdapterSucceeds(c)
      BY <2>6 DEF CallersAgree, AdapterSucceeds, Goto, Reach, rowVars
    <2>7 CASE \E reached, retryable \in BOOLEAN : AdapterFails(c, reached, retryable)
      BY <2>7 DEF CallersAgree, AdapterFails, Goto, Reach, rowVars, serviceVars
    <2>8 CASE FinishExecution(c)
      BY <2>8 DEF CallersAgree, TypeOK, FinishExecution, Return, serviceVars
    <2>9 CASE CallDies(c)
      BY <2>9 DEF CallersAgree, TypeOK, CallDies, Return, rowVars, serviceVars
    <2> QED
      BY <1>1, <2>1, <2>2, <2>3, <2>4, <2>5, <2>6, <2>7, <2>8, <2>9 DEF CallerStep
  <1>2 CASE ExecutionAges
    BY <1>2 DEF CallersAgree, ExecutionAges, callerVars, serviceVars
  <1>3 CASE \E decision \in {"approved", "denied"} : DecideApproval(decision)
    BY <1>3 DEF CallersAgree, DecideApproval, callerVars, serviceVars
  <1>4 CASE UNCHANGED vars
    BY <1>4 DEF CallersAgree, vars, rowVars, callerVars, serviceVars
  <1> QED
    BY <1>1, <1>2, <1>3, <1>4 DEF Next

\* No step lets a caller go on with an undecided or denied execution.
LEMMA ApprovalStep == IInv /\ [Next]_vars => ApprovalFits'
  <1> SUFFICES ASSUME IInv, [Next]_vars PROVE ApprovalFits'
    OBVIOUS
  <1> USE ToolAssumption DEF IInv
  <1>1 ASSUME NEW c \in Callers, CallerStep(c) PROVE ApprovalFits'
    <2>1 CASE \E a \in Args : CallTool(c, a)
      BY <2>1 DEF ApprovalFits, CallTool, Goto, rowVars, serviceVars
    <2>2 CASE LoadExecution(c)
      BY <2>2 DEF ApprovalFits, TypeOK, LoadExecution, Goto, Examine, Return, rowVars,
         serviceVars
    <2>3 CASE CreateExecution(c)
      BY <2>3 DEF ApprovalFits, NoRowYet, CallersAgree, TypeOK, Terminal,
         CreateExecution, Insert, Examine, Return, serviceVars
    <2>4 CASE ResetStale(c)
      BY <2>4 DEF ApprovalFits, ResetStale, Goto, Return, serviceVars
    <2>5 CASE MarkRunning(c)
      BY <2>5 DEF ApprovalFits, MarkRunning, Start, Refuse, Goto, Return, serviceVars
    <2>6 CASE AdapterSucceeds(c)
      BY <2>6 DEF ApprovalFits, AdapterSucceeds, Goto, Reach, rowVars
    <2>7 CASE \E reached, retryable \in BOOLEAN : AdapterFails(c, reached, retryable)
      BY <2>7 DEF ApprovalFits, AdapterFails, Goto, Reach, rowVars, serviceVars
    <2>8 CASE FinishExecution(c)
      BY <2>8 DEF ApprovalFits, TypeOK, FinishExecution, Return, serviceVars
    <2>9 CASE CallDies(c)
      BY <2>9 DEF ApprovalFits, CallDies, Return, rowVars, serviceVars
    <2> QED
      BY <1>1, <2>1, <2>2, <2>3, <2>4, <2>5, <2>6, <2>7, <2>8, <2>9 DEF CallerStep
  <1>2 CASE ExecutionAges
    BY <1>2 DEF ApprovalFits, ExecutionAges, callerVars, serviceVars
  <1>3 CASE \E decision \in {"approved", "denied"} : DecideApproval(decision)
    BY <1>3 DEF ApprovalFits, DecideApproval, callerVars, serviceVars
  <1>4 CASE UNCHANGED vars
    BY <1>4 DEF ApprovalFits, vars, rowVars, callerVars, serviceVars
  <1> QED
    BY <1>1, <1>2, <1>3, <1>4 DEF Next

\* A start uses up the pending row, and only a set-back makes it pending again.
LEMMA StartsStep == IInv /\ [Next]_vars => StartsAccounted'
  <1> SUFFICES ASSUME IInv, [Next]_vars PROVE StartsAccounted'
    OBVIOUS
  <1> USE ToolAssumption DEF IInv
  <1>1 ASSUME NEW c \in Callers, CallerStep(c) PROVE StartsAccounted'
    <2>1 CASE \E a \in Args : CallTool(c, a)
      BY <2>1 DEF StartsAccounted, CallTool, Goto, rowVars, countVars
    <2>2 CASE LoadExecution(c)
      BY <2>2 DEF StartsAccounted, LoadExecution, Goto, Examine, Return, rowVars,
         countVars
    <2>3 CASE CreateExecution(c)
      BY <2>3 DEF StartsAccounted, CreateExecution, Insert, Examine, Return, countVars
    <2>4 CASE ResetStale(c)
      BY <2>4 DEF StartsAccounted, TypeOK, ResetStale, Goto, Return
    <2>5 CASE MarkRunning(c)
      BY <2>5 DEF StartsAccounted, TypeOK, MarkRunning, Start, Refuse, Goto, Return
    <2>6 CASE AdapterSucceeds(c)
      BY <2>6 DEF StartsAccounted, AdapterSucceeds, Goto, Reach, rowVars, countVars
    <2>7 CASE \E reached, retryable \in BOOLEAN : AdapterFails(c, reached, retryable)
      BY <2>7 DEF StartsAccounted, AdapterFails, Goto, Reach, rowVars, countVars
    <2>8 CASE FinishExecution(c)
      BY <2>8 DEF StartsAccounted, TypeOK, FinishExecution, Return, countVars
    <2>9 CASE CallDies(c)
      BY <2>9 DEF StartsAccounted, CallDies, Return, rowVars, countVars
    <2> QED
      BY <1>1, <2>1, <2>2, <2>3, <2>4, <2>5, <2>6, <2>7, <2>8, <2>9 DEF CallerStep
  <1>2 CASE ExecutionAges
    BY <1>2 DEF StartsAccounted, ExecutionAges, callerVars, countVars
  <1>3 CASE \E decision \in {"approved", "denied"} : DecideApproval(decision)
    BY <1>3 DEF StartsAccounted, ApprovalFits, DecideApproval, callerVars, countVars
  <1>4 CASE UNCHANGED vars
    BY <1>4 DEF StartsAccounted, vars, rowVars, callerVars, countVars
  <1> QED
    BY <1>1, <1>2, <1>3, <1>4 DEF Next

\* A caller at work has a turn of its own and attempts left.
LEMMA TurnsStep == IInv /\ [Next]_vars => TurnsFit'
  <1> SUFFICES ASSUME IInv, [Next]_vars PROVE TurnsFit'
    OBVIOUS
  <1> USE ToolAssumption DEF IInv
  <1>1 ASSUME NEW c \in Callers, CallerStep(c) PROVE TurnsFit'
    <2>1 CASE \E a \in Args : CallTool(c, a)
      BY <2>1 DEF TurnsFit, CallTool, Goto, countVars
    <2>2 CASE LoadExecution(c)
      BY <2>2 DEF TurnsFit, TypeOK, LoadExecution, Goto, Examine, Return, countVars
    <2>3 CASE CreateExecution(c)
      BY <2>3 DEF TurnsFit, TypeOK, CreateExecution, Insert, Examine, Return, countVars
    <2>4 CASE ResetStale(c)
      BY <2>4 DEF TurnsFit, TypeOK, ResetStale, Goto, Return
    <2>5 CASE MarkRunning(c)
      BY <2>5 DEF TurnsFit, TypeOK, MarkRunning, Start, Refuse, Goto, Return
    <2>6 CASE AdapterSucceeds(c)
      BY <2>6 DEF TurnsFit, TypeOK, AdapterSucceeds, Goto, Reach, countVars
    <2>7 CASE \E reached, retryable \in BOOLEAN : AdapterFails(c, reached, retryable)
      BY <2>7 DEF TurnsFit, TypeOK, AdapterFails, Goto, Reach, countVars
    <2>8 CASE FinishExecution(c)
      BY <2>8 DEF TurnsFit, TypeOK, FinishExecution, Return, countVars
    <2>9 CASE CallDies(c)
      BY <2>9 DEF TurnsFit, TypeOK, CallDies, Return, countVars
    <2> QED
      BY <1>1, <2>1, <2>2, <2>3, <2>4, <2>5, <2>6, <2>7, <2>8, <2>9 DEF CallerStep
  <1>2 CASE ExecutionAges
    BY <1>2 DEF TurnsFit, ExecutionAges, callerVars, countVars
  <1>3 CASE \E decision \in {"approved", "denied"} : DecideApproval(decision)
    BY <1>3 DEF TurnsFit, DecideApproval, callerVars, countVars
  <1>4 CASE UNCHANGED vars
    BY <1>4 DEF TurnsFit, vars, callerVars, countVars
  <1> QED
    BY <1>1, <1>2, <1>3, <1>4 DEF Next

\* Without a set-back a second caller does not start.
LEMMA OneAtWorkStep == IInv /\ [Next]_vars => OneAtWork'
  <1> SUFFICES ASSUME IInv, [Next]_vars PROVE OneAtWork'
    OBVIOUS
  <1> USE ToolAssumption DEF IInv
  <1>1 ASSUME NEW c \in Callers, CallerStep(c) PROVE OneAtWork'
    <2>1 CASE \E a \in Args : CallTool(c, a)
      BY <2>1 DEF OneAtWork, AtWork, CallTool, Goto, rowVars, countVars
    <2>2 CASE LoadExecution(c)
      BY <2>2 DEF OneAtWork, AtWork, TypeOK, LoadExecution, Goto, Examine, Return,
         rowVars, countVars
    <2>3 CASE CreateExecution(c)
      BY <2>3 DEF OneAtWork, AtWork, TypeOK, CreateExecution, Insert, Examine, Return,
         countVars
    <2>4 CASE ResetStale(c)
      BY <2>4 DEF OneAtWork, AtWork, TypeOK, ResetStale, Goto, Return
    <2>5 CASE MarkRunning(c)
      BY <2>5 DEF OneAtWork, AtWork, TypeOK, MarkRunning, Start, Refuse, Goto, Return
    <2>6 CASE AdapterSucceeds(c)
      BY <2>6 DEF OneAtWork, AtWork, AdapterSucceeds, Goto, Reach, rowVars, countVars
    <2>7 CASE \E reached, retryable \in BOOLEAN : AdapterFails(c, reached, retryable)
      BY <2>7 DEF OneAtWork, AtWork, AdapterFails, Goto, Reach, rowVars, countVars
    <2>8 CASE FinishExecution(c)
      BY <2>8 DEF OneAtWork, AtWork, TypeOK, FinishExecution, Return, countVars
    <2>9 CASE CallDies(c)
      BY <2>9 DEF OneAtWork, AtWork, CallDies, Return, rowVars, countVars
    <2> QED
      BY <1>1, <2>1, <2>2, <2>3, <2>4, <2>5, <2>6, <2>7, <2>8, <2>9 DEF CallerStep
  <1>2 CASE ExecutionAges
    BY <1>2 DEF OneAtWork, AtWork, ExecutionAges, callerVars, countVars
  <1>3 CASE \E decision \in {"approved", "denied"} : DecideApproval(decision)
    BY <1>3 DEF OneAtWork, AtWork, ApprovalFits, DecideApproval, callerVars, countVars
  <1>4 CASE UNCHANGED vars
    BY <1>4 DEF OneAtWork, AtWork, vars, rowVars, callerVars, countVars
  <1> QED
    BY <1>1, <1>2, <1>3, <1>4 DEF Next

\* Only callers at work reach the service.
LEMMA EffectsStep == IInv /\ [Next]_vars => EffectsBounded'
  <1> SUFFICES ASSUME IInv, [Next]_vars PROVE EffectsBounded'
    OBVIOUS
  <1> USE ToolAssumption DEF IInv
  <1>1 ASSUME NEW c \in Callers, CallerStep(c) PROVE EffectsBounded'
    <2>1 CASE \E a \in Args : CallTool(c, a)
      BY <2>1 DEF EffectsBounded, CallTool, Goto, rowVars, serviceVars, countVars
    <2>2 CASE LoadExecution(c)
      BY <2>2 DEF EffectsBounded, LoadExecution, Goto, Examine, Return, rowVars,
         serviceVars, countVars
    <2>3 CASE CreateExecution(c)
      BY <2>3 DEF EffectsBounded, CreateExecution, Insert, Examine, Return, serviceVars,
         countVars
    <2>4 CASE ResetStale(c)
      BY <2>4 DEF EffectsBounded, TypeOK, ResetStale, Goto, Return, serviceVars
    <2>5 CASE MarkRunning(c)
      BY <2>5 DEF EffectsBounded, MarkRunning, Start, Refuse, Goto, Return, serviceVars
    <2>6 CASE AdapterSucceeds(c)
      BY <2>6 DEF EffectsBounded, TurnsFit, StartsAccounted, TypeOK, AdapterSucceeds,
         Goto, Reach, rowVars, countVars
    <2>7 CASE \E reached, retryable \in BOOLEAN : AdapterFails(c, reached, retryable)
      BY <2>7 DEF EffectsBounded, TurnsFit, StartsAccounted, TypeOK, AdapterFails, Goto,
         Reach, rowVars, serviceVars, countVars
    <2>8 CASE FinishExecution(c)
      BY <2>8 DEF EffectsBounded, FinishExecution, Return, serviceVars, countVars
    <2>9 CASE CallDies(c)
      BY <2>9 DEF EffectsBounded, CallDies, Return, rowVars, serviceVars, countVars
    <2> QED
      BY <1>1, <2>1, <2>2, <2>3, <2>4, <2>5, <2>6, <2>7, <2>8, <2>9 DEF CallerStep
  <1>2 CASE ExecutionAges
    BY <1>2 DEF EffectsBounded, ExecutionAges, callerVars, serviceVars, countVars
  <1>3 CASE \E decision \in {"approved", "denied"} : DecideApproval(decision)
    BY <1>3 DEF EffectsBounded, DecideApproval, callerVars, serviceVars, countVars
  <1>4 CASE UNCHANGED vars
    BY <1>4 DEF EffectsBounded, vars, rowVars, callerVars, serviceVars, countVars
  <1> QED
    BY <1>1, <1>2, <1>3, <1>4 DEF Next

\* No step reaches the service without approval.
LEMMA NothingStep == IInv /\ [Next]_vars => NothingWithoutApproval'
  <1> SUFFICES ASSUME IInv, [Next]_vars PROVE NothingWithoutApproval'
    OBVIOUS
  <1> USE ToolAssumption DEF IInv
  <1>1 ASSUME NEW c \in Callers, CallerStep(c) PROVE NothingWithoutApproval'
    <2>1 CASE \E a \in Args : CallTool(c, a)
      BY <2>1 DEF NothingWithoutApproval, CallTool, Goto, rowVars, serviceVars
    <2>2 CASE LoadExecution(c)
      BY <2>2 DEF NothingWithoutApproval, LoadExecution, Goto, Examine, Return, rowVars,
         serviceVars
    <2>3 CASE CreateExecution(c)
      BY <2>3 DEF NothingWithoutApproval, ApprovalFits, NoRowYet, CreateExecution,
         Insert, Examine, Return, serviceVars
    <2>4 CASE ResetStale(c)
      BY <2>4 DEF NothingWithoutApproval, ResetStale, Goto, Return, serviceVars
    <2>5 CASE MarkRunning(c)
      BY <2>5 DEF NothingWithoutApproval, MarkRunning, Start, Refuse, Goto, Return,
         serviceVars
    <2>6 CASE AdapterSucceeds(c)
      BY <2>6 DEF NothingWithoutApproval, ApprovalFits, NoRowYet, AdapterSucceeds, Goto,
         Reach, rowVars
    <2>7 CASE \E reached, retryable \in BOOLEAN : AdapterFails(c, reached, retryable)
      BY <2>7 DEF NothingWithoutApproval, ApprovalFits, NoRowYet, AdapterFails, Goto,
         Reach, rowVars, serviceVars
    <2>8 CASE FinishExecution(c)
      BY <2>8 DEF NothingWithoutApproval, FinishExecution, Return, serviceVars
    <2>9 CASE CallDies(c)
      BY <2>9 DEF NothingWithoutApproval, CallDies, Return, rowVars, serviceVars
    <2> QED
      BY <1>1, <2>1, <2>2, <2>3, <2>4, <2>5, <2>6, <2>7, <2>8, <2>9 DEF CallerStep
  <1>2 CASE ExecutionAges
    BY <1>2 DEF NothingWithoutApproval, ExecutionAges, callerVars, serviceVars
  <1>3 CASE \E decision \in {"approved", "denied"} : DecideApproval(decision)
    BY <1>3 DEF NothingWithoutApproval, DecideApproval, callerVars, serviceVars
  <1>4 CASE UNCHANGED vars
    BY <1>4 DEF NothingWithoutApproval, vars, rowVars, callerVars, serviceVars
  <1> QED
    BY <1>1, <1>2, <1>3, <1>4 DEF Next

\* What reaches the service is in the row.
LEMMA ExecutedStep == IInv /\ [Next]_vars => ExecutedAsRecorded'
  <1> SUFFICES ASSUME IInv, [Next]_vars PROVE ExecutedAsRecorded'
    OBVIOUS
  <1> USE ToolAssumption DEF IInv
  <1>1 ASSUME NEW c \in Callers, CallerStep(c) PROVE ExecutedAsRecorded'
    <2>1 CASE \E a \in Args : CallTool(c, a)
      BY <2>1 DEF ExecutedAsRecorded, CallTool, Goto, rowVars, serviceVars
    <2>2 CASE LoadExecution(c)
      BY <2>2 DEF ExecutedAsRecorded, LoadExecution, Goto, Examine, Return, rowVars,
         serviceVars
    <2>3 CASE CreateExecution(c)
      BY <2>3 DEF ExecutedAsRecorded, CallersAgree, NoRowYet, CreateExecution, Insert,
         Examine, Return, serviceVars
    <2>4 CASE ResetStale(c)
      BY <2>4 DEF ExecutedAsRecorded, ResetStale, Goto, Return, serviceVars
    <2>5 CASE MarkRunning(c)
      BY <2>5 DEF ExecutedAsRecorded, MarkRunning, Start, Refuse, Goto, Return,
         serviceVars
    <2>6 CASE AdapterSucceeds(c)
      BY <2>6 DEF ExecutedAsRecorded, CallersAgree, NoRowYet, AdapterSucceeds, Goto,
         Reach, rowVars
    <2>7 CASE \E reached, retryable \in BOOLEAN : AdapterFails(c, reached, retryable)
      BY <2>7 DEF ExecutedAsRecorded, CallersAgree, NoRowYet, AdapterFails, Goto, Reach,
         rowVars, serviceVars
    <2>8 CASE FinishExecution(c)
      BY <2>8 DEF ExecutedAsRecorded, FinishExecution, Return, serviceVars
    <2>9 CASE CallDies(c)
      BY <2>9 DEF ExecutedAsRecorded, CallDies, Return, rowVars, serviceVars
    <2> QED
      BY <1>1, <2>1, <2>2, <2>3, <2>4, <2>5, <2>6, <2>7, <2>8, <2>9 DEF CallerStep
  <1>2 CASE ExecutionAges
    BY <1>2 DEF ExecutedAsRecorded, ExecutionAges, callerVars, serviceVars
  <1>3 CASE \E decision \in {"approved", "denied"} : DecideApproval(decision)
    BY <1>3 DEF ExecutedAsRecorded, DecideApproval, callerVars, serviceVars
  <1>4 CASE UNCHANGED vars
    BY <1>4 DEF ExecutedAsRecorded, vars, rowVars, callerVars, serviceVars
  <1> QED
    BY <1>1, <1>2, <1>3, <1>4 DEF Next

-----------------------------------------------------------------------------
LEMMA InitIInv == Init => IInv
  <1> SUFFICES ASSUME Init PROVE IInv
    OBVIOUS
  <1>1 TypeOK
    <2>1 faults \in 0..MaxFaults /\ stalls \in 0..MaxStalls /\ calls \in 0..MaxCalls
      BY ToolAssumption DEF Init
    <2>2 effects \subseteq Nat \X Nat /\ executed \subseteq Args
      BY DEF Init
    <2>3 /\ pc \in [Callers -> CallerPcs]
         /\ attempt \in [Callers -> 0..Allowed]
         /\ turn \in [Callers -> Nat]
      BY ToolAssumption DEF Init, CallerPcs
    <2> QED
      BY <2>1, <2>2, <2>3 DEF Init, TypeOK, Statuses, Approvals
  <1>2 NoRowYet /\ RowHasInput /\ CallersAgree /\ ApprovalFits
    BY DEF Init, NoRowYet, RowHasInput, CallersAgree, ApprovalFits
  <1>3 StartsAccounted /\ TurnsFit /\ OneAtWork
    BY DEF Init, StartsAccounted, TurnsFit, OneAtWork, AtWork
  <1>4 EffectsBounded /\ NothingWithoutApproval /\ ExecutedAsRecorded
    BY DEF Init, EffectsBounded, NothingWithoutApproval, ExecutedAsRecorded
  <1> QED
    BY <1>1, <1>2, <1>3, <1>4 DEF IInv

\* The inductive invariant holds in every reachable state.
THEOREM Invariance == Spec => []IInv
  <1>1 IInv /\ [Next]_vars => IInv'
    BY TypeStep, NoRowStep, InputStep, AgreeStep, ApprovalStep, StartsStep,
       TurnsStep, OneAtWorkStep, EffectsStep, NothingStep, ExecutedStep DEF IInv
  <1> QED
    BY InitIInv, <1>1, PTL DEF Spec

\* Every reachable state has the declared types: no caller makes more attempts
\* than the tool allows.
THEOREM TypeCorrect == Spec => []TypeOK
  <1>1 IInv => TypeOK
    BY DEF IInv
  <1> QED
    BY Invariance, <1>1, PTL

\* The service is reached by allowed attempts of executions that are accounted
\* for, whatever callers overlap and whenever they die.
THEOREM EffectsAreBounded == Spec => []EffectsBounded
  <1>1 IInv => EffectsBounded
    BY DEF IInv
  <1> QED
    BY Invariance, <1>1, PTL

\* An undecided or denied execution never reaches the service.
THEOREM ApprovalIsNeeded == Spec => []NothingWithoutApproval
  <1>1 IInv => NothingWithoutApproval
    BY DEF IInv
  <1> QED
    BY Invariance, <1>1, PTL

\* Nothing but what the row records reaches the service.
THEOREM RecordIsTrue == Spec => []ExecutedAsRecorded
  <1>1 IInv => ExecutedAsRecorded
    BY DEF IInv
  <1> QED
    BY Invariance, <1>1, PTL

\* A result is final as long as nothing was set back as stale.
LEMMA ResultStep ==
    IInv /\ [Next]_vars => (resets' = 0 /\ status \in Terminal => status' = status)
  <1> SUFFICES ASSUME IInv, [Next]_vars, resets' = 0, status \in Terminal
               PROVE  status' = status
    OBVIOUS
  <1>0 status # "none" /\ status # "pending" /\ status # "running" /\ resets \in Nat
    BY DEF IInv, TypeOK, Terminal
  <1>1 ASSUME NEW c \in Callers, CallerStep(c) PROVE status' = status
    <2>1 CASE (\E a \in Args : CallTool(c, a)) \/ LoadExecution(c) \/ CallDies(c)
      BY <2>1 DEF CallTool, LoadExecution, CallDies, rowVars
    <2>2 CASE CreateExecution(c)
      BY <2>2, <1>0 DEF CreateExecution
    <2>3 CASE ResetStale(c)
      BY <2>3, <1>0 DEF ResetStale
    <2>4 CASE MarkRunning(c)
      BY <2>4, <1>0 DEF MarkRunning, Refuse
    <2>5 CASE AdapterSucceeds(c)
      BY <2>5 DEF AdapterSucceeds, rowVars
    <2>6 CASE \E reached, retryable \in BOOLEAN : AdapterFails(c, reached, retryable)
      BY <2>6 DEF AdapterFails, rowVars
    <2>7 CASE FinishExecution(c)
      <3>1 c \in AtWork /\ resets = 0
        BY <2>7 DEF FinishExecution, AtWork, countVars
      <3> QED
        BY <3>1, <1>0 DEF IInv, OneAtWork
    <2> QED
      BY <1>1, <2>1, <2>2, <2>3, <2>4, <2>5, <2>6, <2>7 DEF CallerStep
  <1>2 CASE ExecutionAges
    BY <1>2 DEF ExecutionAges
  <1>3 CASE \E decision \in {"approved", "denied"} : DecideApproval(decision)
    BY <1>3 DEF DecideApproval, IInv, ApprovalFits, Terminal
  <1>4 CASE UNCHANGED vars
    BY <1>4 DEF vars, rowVars
  <1> QED
    BY <1>1, <1>2, <1>3, <1>4 DEF Next

THEOREM ResultIsFinal == Spec => ResultIsReused
  <1>1 IInv /\ [Next]_vars =>
          [resets' = 0 /\ status \in Terminal => status' = status]_vars
    BY ResultStep
  <1> QED
    BY Invariance, <1>1, PTL DEF Spec, ResultIsReused

=============================================================================
