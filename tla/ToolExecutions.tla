----------------------------- MODULE ToolExecutions -----------------------------
(***************************************************************************)
(* One tool call of an agent run: the ToolExecution row under its          *)
(* idempotency key agent:<run>:tool:<ordinal>, the attempts that reach the *)
(* external service, and the approval by an administrator.  Callers are    *)
(* workers that process the run, at the same time or one after the other:  *)
(* every delivery asks the model again and may come with other arguments.  *)
(*                                                                         *)
(* Source: tool_runtime.py (ToolRuntime.execute_agent_tool), tools.py      *)
(* (decide_tool_execution_approval).                                       *)
(***************************************************************************)
EXTENDS Naturals, FiniteSets

CONSTANTS
    Callers,
    Args,       \* tool, agent and arguments of a call
    None,       \* SQL NULL
    Allowed,    \* attempts_allowed: 1 for a write without idempotency header
    MaxCalls,   \* bound: calls of execute_agent_tool
    MaxFaults,  \* bound: crashes and cancelled calls
    MaxStalls   \* bound: executions that age while their caller is at work

ASSUME ToolAssumption ==
    /\ None \notin Args
    /\ Allowed \in Nat \ {0}
    /\ MaxCalls \in Nat
    /\ MaxFaults \in Nat
    /\ MaxStalls \in Nat

VARIABLES
    status,    \* ToolExecution.status; "none" without a row
    approval,  \* its approval_status
    input,     \* its tool_id, agent_id and input_payload
    recent,    \* updated_at lies within stale_after
    pc,        \* where each caller is in execute_agent_tool
    arg,       \* what it was called with
    turn,      \* number of the execution it runs
    attempt,   \* attempts it has made
    outcome,   \* the status it is about to store
    started,   \* how often the row was marked running
    resets,    \* how often it was set back as stale
    executed,  \* what reached the service
    effects,   \* in which execution and attempt it did
    calls,
    faults,
    stalls

rowVars     == <<status, approval, input, recent>>
callerVars  == <<pc, arg, turn, attempt, outcome>>
serviceVars == <<executed, effects>>
countVars   == <<started, resets>>
boundVars   == <<calls, faults, stalls>>
vars == <<rowVars, callerVars, serviceVars, countVars, boundVars>>

Terminal  == {"succeeded", "failed", "denied"}
Statuses  == {"none", "pending", "approval_required", "running"} \cup Terminal
Approvals == {"not_required", "pending", "approved", "denied"}
CallerPcs == {"idle", "load", "create", "reset", "mark", "call", "finish"}
AtWork    == {c \in Callers : pc[c] \in {"call", "finish"}}

\* Every variable has its type; attempts stay within those allowed.
TypeOK ==
    /\ status \in Statuses
    /\ approval \in Approvals
    /\ input \in Args \cup {None}
    /\ recent \in BOOLEAN
    /\ pc \in [Callers -> CallerPcs]
    /\ arg \in [Callers -> Args \cup {None}]
    /\ turn \in [Callers -> Nat]
    /\ attempt \in [Callers -> 0..Allowed]
    /\ outcome \in [Callers -> {"succeeded", "failed"}]
    /\ executed \subseteq Args
    /\ effects \subseteq Nat \X Nat
    /\ started \in Nat
    /\ resets \in Nat
    /\ calls \in 0..MaxCalls
    /\ faults \in 0..MaxFaults
    /\ stalls \in 0..MaxStalls

Init ==
    /\ status = "none"
    /\ approval = "not_required"
    /\ input = None
    /\ recent = FALSE
    /\ pc = [c \in Callers |-> "idle"]
    /\ arg = [c \in Callers |-> None]
    /\ turn = [c \in Callers |-> 0]
    /\ attempt = [c \in Callers |-> 0]
    /\ outcome = [c \in Callers |-> "failed"]
    /\ executed = {}
    /\ effects = {}
    /\ started = 0
    /\ resets = 0
    /\ calls = 0
    /\ faults = 0
    /\ stalls = 0

-----------------------------------------------------------------------------
Goto(c, from, to) ==
    /\ pc[c] = from
    /\ pc' = [pc EXCEPT ![c] = to]

\* The call returns or raises: nothing of it is kept in memory.
Return(c) ==
    /\ pc' = [pc EXCEPT ![c] = "idle"]
    /\ arg' = [arg EXCEPT ![c] = None]
    /\ turn' = [turn EXCEPT ![c] = 0]
    /\ attempt' = [attempt EXCEPT ![c] = 0]
    /\ outcome' = [outcome EXCEPT ![c] = "failed"]

\* The agent asks for the tool: arguments validated, permission found.
CallTool(c, a) ==
    /\ calls < MaxCalls
    /\ calls' = calls + 1
    /\ Goto(c, "idle", "load")
    /\ arg' = [arg EXCEPT ![c] = a]
    /\ UNCHANGED <<rowVars, turn, attempt, outcome, serviceVars, countVars,
                   faults, stalls>>

\* What a caller does with the row as it reads it now.  A result is returned,
\* a mismatch and a running execution are errors; one that has been running
\* for long is set back, a pending one is started.
Examine(c) ==
    \/ /\ \/ arg[c] # input
          \/ status \in Terminal \cup {"approval_required"}
          \/ status = "running" /\ recent
          \/ status = "pending" /\ approval = "pending"
       /\ Return(c)
    \/ /\ arg[c] = input
       /\ \/ /\ status = "running"
             /\ ~recent
             /\ pc' = [pc EXCEPT ![c] = "reset"]
          \/ /\ status = "pending"
             /\ approval # "pending"
             /\ pc' = [pc EXCEPT ![c] = "mark"]
       /\ UNCHANGED <<arg, turn, attempt, outcome>>

\* _load_execution, in a session of its own.
LoadExecution(c) ==
    /\ pc[c] = "load"
    /\ \/ /\ status = "none"
          /\ Goto(c, "load", "create")
          /\ UNCHANGED <<arg, turn, attempt, outcome>>
       \/ /\ status # "none"
          /\ Examine(c)
    /\ UNCHANGED <<rowVars, serviceVars, countVars, boundVars>>

\* The row a caller inserts: the tool and the policy decide whether it may run.
Insert(c) ==
    /\ input' = arg[c]
    /\ \/ /\ status' = "pending"
          /\ approval' = "not_required"
          /\ pc' = [pc EXCEPT ![c] = "mark"]
          /\ UNCHANGED <<arg, turn, attempt, outcome>>
       \/ /\ status' = "approval_required"
          /\ approval' = "pending"
          /\ Return(c)
       \/ /\ status' = "denied"
          /\ approval' = "denied"
          /\ Return(c)

\* Mutant: after a conflict the caller goes on with its own arguments.
CreateWithoutReload(c) ==
    /\ pc[c] = "create"
    /\ \/ /\ status = "none"
          /\ Insert(c)
       \/ /\ status # "none"
          /\ pc' = [pc EXCEPT ![c] = "mark"]
          /\ UNCHANGED <<input, status, approval, arg, turn, attempt, outcome>>
    /\ UNCHANGED <<recent, serviceVars, countVars, boundVars>>

\* evaluate_tool and _create_execution.  When another caller has inserted the
\* row, the unique key refuses this one, and the other's row is examined.
CreateExecution(c) ==
    /\ pc[c] = "create"
    /\ \/ /\ status = "none"
          /\ Insert(c)
       \/ /\ status # "none"
          /\ Examine(c)
          /\ UNCHANGED <<input, status, approval>>
    /\ UNCHANGED <<recent, serviceVars, countVars, boundVars>>

\* The stale execution is locked and set to pending, whatever it is by now.
ResetStale(c) ==
    /\ pc[c] = "reset"
    /\ status' = "pending"
    /\ resets' = resets + 1
    /\ \/ /\ approval = "pending"
          /\ Return(c)
       \/ /\ approval # "pending"
          /\ Goto(c, "reset", "mark")
          /\ UNCHANGED <<arg, turn, attempt, outcome>>
    /\ UNCHANGED <<approval, input, recent, serviceVars, started, boundVars>>

\* From here on the row says running, and the caller calls the service.
Start(c) ==
    /\ status' = "running"
    /\ recent' = TRUE
    /\ started' = started + 1
    /\ turn' = [turn EXCEPT ![c] = started + 1]
    /\ Goto(c, "mark", "call")
    /\ UNCHANGED <<arg, attempt, outcome>>

\* The row is left alone, and the call ends with an error.
Refuse(c) ==
    /\ Return(c)
    /\ UNCHANGED <<status, recent, started>>

\* Mutant: a running execution is not busy.
MarkWithoutBusy(c) ==
    /\ pc[c] = "mark"
    /\ \/ status \in {"pending", "running"} /\ Start(c)
       \/ status \notin {"pending", "running"} /\ Refuse(c)
    /\ UNCHANGED <<approval, input, serviceVars, resets, boundVars>>

\* Mutant: only a running execution is refused.
MarkAnyState(c) ==
    /\ pc[c] = "mark"
    /\ \/ status # "running" /\ Start(c)
       \/ status = "running" /\ Refuse(c)
    /\ UNCHANGED <<approval, input, serviceVars, resets, boundVars>>

\* _mark_running, under the row lock: busy, invalid, or running from now on.
MarkRunning(c) ==
    /\ pc[c] = "mark"
    /\ \/ status = "pending" /\ Start(c)
       \/ status # "pending" /\ Refuse(c)
    /\ UNCHANGED <<approval, input, serviceVars, resets, boundVars>>

Reach(c) ==
    /\ effects' = effects \cup {<<turn[c], attempt[c] + 1>>}
    /\ executed' = executed \cup {arg[c]}

\* The service answers, and the output fits its schema.
AdapterSucceeds(c) ==
    /\ Goto(c, "call", "finish")
    /\ Reach(c)
    /\ attempt' = [attempt EXCEPT ![c] = @ + 1]
    /\ outcome' = [outcome EXCEPT ![c] = "succeeded"]
    /\ UNCHANGED <<rowVars, arg, turn, countVars, boundVars>>

\* A ToolAdapterError, or an output outside its schema.  The request may have
\* had its effect all the same: a timeout, a 5xx, an answer that is refused.
AdapterFails(c, reached, retryable) ==
    /\ pc[c] = "call"
    /\ IF reached THEN Reach(c) ELSE UNCHANGED serviceVars
    /\ attempt' = [attempt EXCEPT ![c] = @ + 1]
    /\ Goto(c, "call",
            IF retryable /\ attempt[c] + 1 < Allowed THEN "call" ELSE "finish")
    /\ UNCHANGED <<rowVars, arg, turn, outcome, countVars, boundVars>>

\* _finish_execution: no look at the status, nor at who is running it.
FinishExecution(c) ==
    /\ pc[c] = "finish"
    /\ status' = outcome[c]
    /\ Return(c)
    /\ UNCHANGED <<approval, input, recent, serviceVars, countVars, boundVars>>

\* The worker dies, the run loses its lease and cancels the call, or an error
\* the runtime does not catch: a running execution stays running.
CallDies(c) ==
    /\ pc[c] # "idle"
    /\ faults < MaxFaults
    /\ faults' = faults + 1
    /\ Return(c)
    /\ UNCHANGED <<rowVars, serviceVars, countVars, calls, stalls>>

\* stale_after passes, which is longer than all attempts take.
ExecutionAges ==
    /\ status = "running"
    /\ recent
    /\ recent' = FALSE
    /\ \/ AtWork = {} /\ UNCHANGED stalls
       \/ AtWork # {} /\ stalls < MaxStalls /\ stalls' = stalls + 1
    /\ UNCHANGED <<status, approval, input, callerVars, serviceVars, countVars,
                   calls, faults>>

\* Mutant: a denial leaves the execution to be run.
DecideWithoutStatus(decision) ==
    /\ approval = "pending"
    /\ approval' = decision
    /\ status' = "pending"
    /\ UNCHANGED <<input, recent, callerVars, serviceVars, countVars, boundVars>>

\* decide_tool_execution_approval, under the row lock.
DecideApproval(decision) ==
    /\ approval = "pending"
    /\ approval' = decision
    /\ status' = IF decision = "approved" THEN "pending" ELSE "denied"
    /\ UNCHANGED <<input, recent, callerVars, serviceVars, countVars, boundVars>>

-----------------------------------------------------------------------------
CallerStep(c) ==
    \/ \E a \in Args : CallTool(c, a)
    \/ LoadExecution(c)
    \/ CreateExecution(c)
    \/ ResetStale(c)
    \/ MarkRunning(c)
    \/ AdapterSucceeds(c)
    \/ \E reached, retryable \in BOOLEAN : AdapterFails(c, reached, retryable)
    \/ FinishExecution(c)
    \/ CallDies(c)

Next ==
    \/ \E c \in Callers : CallerStep(c)
    \/ ExecutionAges
    \/ \E decision \in {"approved", "denied"} : DecideApproval(decision)

Spec == Init /\ [][Next]_vars

-----------------------------------------------------------------------------
(* Properties.                                                              *)

\* "Concurrent duplicate execution is serialized" (MILESTONE-8): however many
\* callers process the run, whatever reaches the service is an allowed attempt
\* of its one execution, or of one that replaced an execution gone stale.
EffectsBounded == effects \subseteq (1..1 + resets) \X (1..Allowed)

\* "A denied or approval-required tool does not execute externally"
\* (MILESTONE-8): no order of calls, decisions and policy changes makes an
\* undecided or denied execution reach the service.
NothingWithoutApproval == approval \in {"pending", "denied"} => effects = {}

\* What reaches the service is what the row records (and an administrator has
\* approved), although callers race with different arguments.
ExecutedAsRecorded == executed \subseteq {input}

\* "Successful execution results are reused on duplicate processing"
\* (ADR-014): as long as nothing was set back as stale, a result is final.
ResultIsReused ==
    [][resets' = 0 /\ status \in Terminal => status' = status]_vars

=============================================================================
