------------------------------- MODULE Policies -------------------------------
(***************************************************************************)
(* The policy of one business: managers edit the tenant policy, the legacy *)
(* handoff policy that mirrors two of its columns, and the rule of a tool, *)
(* while workers decide by them what happens to customer messages and tool *)
(* calls, and trace each decision before they act on it.                   *)
(*                                                                         *)
(* Source: policies.py, policy_runtime.py, policy_models.py, the policy    *)
(* endpoint of handoff.py, and the callers in worker.py, tool_runtime.py.  *)
(*                                                                         *)
(* An edit reads one row, writes it when it selects the next one (the      *)
(* session flushes), and commits both.  An UPDATE sets the columns that    *)
(* differ from the loaded ones and keeps the row locked to the commit.     *)
(***************************************************************************)
EXTENDS Naturals, FiniteSets

CONSTANTS
    PolicyEditors, \* concurrent requests of managers
    PolicyWorkers, \* deliveries handled at a time
    Rules,         \* the tenant policy's own columns, seen from one message
                   \* and one tool, see RulesType
    ToolRules,     \* rules of the tool: [deny, required]
    Absent,        \* no row
    MaxChanges,    \* bound: edits begun
    MaxJobs        \* bound: deliveries of the message

\* message: the rule for its type.  closed: what happens outside the hours
\* ("none": no schedule).  floor: approval_min_risk reaches the tool.
\* writes: it writes, and writes need an approval.
RulesType == [message : {"allow", "deny", "handoff"}, closed : {"none", "allow", "handoff"},
              autonomous : BOOLEAN, floor : BOOLEAN, writes : BOOLEAN]
DefaultRules == [message |-> "allow", closed |-> "none", autonomous |-> TRUE,
                 floor |-> FALSE, writes |-> FALSE]

ASSUME PolicyAssumption ==
    /\ Rules \subseteq RulesType
    /\ ToolRules \subseteq [deny : BOOLEAN, required : BOOLEAN]
    /\ MaxChanges \in Nat /\ MaxJobs \in Nat

VARIABLES
    asking,        \* ToolDefinition: the tool itself asks for an approval
    table,         \* committed rows "tenant", "legacy", "rule", or Absent
    rowLock,       \* editor whose transaction has written the row
    edit,          \* the transaction of each editor
    changes,
    raced,         \* some edit committed over a row changed since it read it
    history,       \* <<revision, tenant row, rule>> of every commit
    job,           \* each worker: [pc, decision, policy, rule]
    jobs,
    decided,       \* PolicyDecisionTrace rows: [kind, action, revision]
    acted          \* decisions that took effect

editVars   == <<asking, table, rowLock, edit, changes, raced, history>>
jobVars    == <<job, jobs, decided, acted>>
policyVars == <<editVars, jobVars>>

Rows    == {"tenant", "legacy", "rule"}
Default == [revision |-> 0, enabled |-> TRUE, keyword |-> FALSE, rules |-> DefaultRules]
Tenant  == [revision : Nat, enabled : BOOLEAN, keyword : BOOLEAN, rules : RulesType]
Legacy  == [enabled : BOOLEAN, keyword : BOOLEAN]
RuleRow == [deny : BOOLEAN, required : BOOLEAN]

ASSUME AbsentAssumption == Absent \notin Tenant \cup Legacy \cup RuleRow \cup PolicyEditors

\* load_effective_tenant_policy: the tenant policy, else what the legacy one
\* says over the defaults.  `keyword`: a handoff keyword is in the message.
Effective ==
    IF table["tenant"] # Absent THEN table["tenant"]
    ELSE IF table["legacy"] # Absent
         THEN [Default EXCEPT !.enabled = table["legacy"].enabled,
                              !.keyword = table["legacy"].keyword]
         ELSE Default

DecisionKinds == {"message", "autonomy", "hours", "handoff", "tool"}
Actions       == {"allow", "deny", "handoff", "approval"}
Decisions     == [kind : DecisionKinds, action : Actions, revision : Nat, asking : BOOLEAN]
Idle          == [pc |-> "idle"]

PolicyTypeOK ==
    /\ asking \in BOOLEAN
    /\ table["tenant"] \in Tenant \cup {Absent}
    /\ table["legacy"] \in Legacy \cup {Absent}
    /\ table["rule"] \in RuleRow \cup {Absent}
    /\ rowLock \in [Rows -> PolicyEditors \cup {Absent}]
    /\ \A e \in PolicyEditors : edit[e].pc \in {"idle", "first", "second"}
    /\ changes \in 0..MaxChanges /\ raced \in BOOLEAN
    /\ \A w \in PolicyWorkers : job[w].pc \in
           {"idle", "message", "ai", "agent", "tool", "rule", "trace", "act"}
    /\ jobs \in 0..MaxJobs
    /\ decided \cup acted \subseteq Decisions

PolicyInit ==
    /\ asking = FALSE
    /\ table = [r \in Rows |-> Absent]
    /\ rowLock = [r \in Rows |-> Absent]
    /\ edit = [e \in PolicyEditors |-> Idle]
    /\ changes = 0 /\ raced = FALSE
    /\ history = {<<0, Default, Absent>>}
    /\ job = [w \in PolicyWorkers |-> Idle]
    /\ jobs = 0
    /\ decided = {} /\ acted = {}

-----------------------------------------------------------------------------
(* The edits.                                                              *)

\* What an edit makes of the rows it has loaded; Absent: no such write.
TenantPut(old, enabled, keyword, rules) ==
    [revision |-> IF old = Absent THEN 1 ELSE old.revision + 1,
     enabled |-> enabled, keyword |-> keyword,
     rules |-> IF rules # Absent THEN rules
               ELSE IF old = Absent THEN DefaultRules ELSE old.rules]
LegacyPut(enabled, keyword) == [enabled |-> enabled, keyword |-> keyword]
\* _ensure_policy_row, then the revision is raised.
EnsuredPut(old) ==
    IF old # Absent THEN [old EXCEPT !.revision = @ + 1]
    ELSE [Effective EXCEPT !.revision = 2]

\* put_policy, put_handoff_policy, put_tool_policy_rule (val # Absent) and
\* delete_tool_policy_rule, by the rows they write first and second.
Edits ==
    [first : {"tenant"}, second : {"legacy"}, enabled : BOOLEAN, keyword : BOOLEAN,
     val : Rules]
    \cup [first : {"legacy"}, second : {"tenant"}, enabled : BOOLEAN, keyword : BOOLEAN,
          val : {Absent}]
    \cup [first : {"rule"}, second : {"tenant"}, enabled : {TRUE}, keyword : {FALSE},
          val : ToolRules \cup {Absent}]

Written(op, row, old) ==
    CASE row = "legacy" -> LegacyPut(op.enabled, op.keyword)
      [] row = "rule"   -> op.val
      [] row = "tenant" /\ op.first = "rule" -> EnsuredPut(old)
      [] OTHER -> TenantPut(old, op.enabled, op.keyword, op.val)

\* The row after the UPDATE of the columns that changed, the INSERT or the
\* DELETE; nothing is issued for a row left as it was.
Updated(now, old, new) ==
    [c \in DOMAIN new |-> IF new[c] # old[c] THEN new[c] ELSE now[c]]
Merged(row, old, new) ==
    LET now == table[row]
    IN  IF new = old THEN now
        ELSE IF old = Absent \/ new = Absent THEN new
        ELSE IF row = "tenant"
        THEN [Updated(now, old, new) EXCEPT
                 !.rules = Updated(now.rules, old.rules, new.rules)]
        ELSE Updated(now, old, new)

BeginEdit(e, op) ==
    /\ edit[e].pc = "idle"
    /\ changes < MaxChanges /\ changes' = changes + 1
    /\ op.first = "rule" /\ op.val = Absent => table["rule"] # Absent
    /\ edit' = [edit EXCEPT ![e] =
                   [pc |-> "first", op |-> op, old |-> table[op.first]]]
    /\ UNCHANGED <<asking, table, rowLock, raced, history, jobVars>>

EditConflicts(row, old, new) ==
    \/ old = Absent /\ table[row] # Absent                    \* unique key
    \/ old # Absent /\ table[row] = Absent /\ new # Absent    \* no row updated

EndEdit(e) ==
    /\ edit' = [edit EXCEPT ![e] = Idle]
    /\ rowLock' = [r \in Rows |-> IF rowLock[r] = e THEN Absent ELSE rowLock[r]]

\* The flush before the second row is selected.  A row left as it was is not
\* written; a rule is deleted at the commit.
WriteFirst(e) ==
    /\ edit[e].pc = "first"
    /\ LET op    == edit[e].op
           new   == Written(op, op.first, edit[e].old)
           write == new # edit[e].old /\ new # Absent
       IN  /\ write => rowLock[op.first] = Absent
           /\ IF write /\ EditConflicts(op.first, edit[e].old, new)
              THEN EndEdit(e)
              ELSE /\ edit' = [edit EXCEPT ![e] =
                          [pc |-> "second", op |-> op, old |-> edit[e].old,
                           old2 |-> table[op.second],
                           new2 |-> Written(op, op.second, table[op.second])]]
                   /\ rowLock' = IF write THEN [rowLock EXCEPT ![op.first] = e]
                                 ELSE rowLock
    /\ UNCHANGED <<asking, table, changes, raced, history, jobVars>>

\* The second row is flushed and both are committed.
CommitEdit(e) ==
    /\ edit[e].pc = "second"
    /\ LET op    == edit[e].op
           new   == Written(op, op.first, edit[e].old)
           write == edit[e].new2 # edit[e].old2
       IN  /\ write => rowLock[op.second] = Absent
           /\ new = Absent => rowLock[op.first] = Absent
           /\ IF write /\ EditConflicts(op.second, edit[e].old2, edit[e].new2)
              THEN UNCHANGED <<asking, table, raced, history>>
              ELSE /\ table' = [table EXCEPT
                          ![op.first] = Merged(op.first, edit[e].old, new),
                          ![op.second] = Merged(op.second, edit[e].old2, edit[e].new2)]
                   /\ raced' = \/ raced
                               \/ table[op.first] # edit[e].old
                               \/ table[op.second] # edit[e].old2
                   /\ history' = history \cup
                          {<<table'["tenant"].revision, table'["tenant"], table'["rule"]>>}
    /\ EndEdit(e)
    /\ UNCHANGED <<asking, changes, jobVars>>

BlockedBy(e, f) ==
    /\ edit[e].pc = "second" /\ edit[e].new2 # edit[e].old2
    /\ rowLock[edit[e].op.second] = f
\* put_policy and put_handoff_policy write the two rows in opposite orders:
\* PostgreSQL aborts one of the two.
DeadlockAbort(e) ==
    /\ \E f \in PolicyEditors \ {e} : BlockedBy(e, f) /\ BlockedBy(f, e)
    /\ EndEdit(e)
    /\ UNCHANGED <<asking, table, changes, raced, history, jobVars>>

\* update_tool changes what the tool asks for.
UpdateTool ==
    /\ changes < MaxChanges /\ changes' = changes + 1
    /\ asking' = ~asking
    /\ UNCHANGED <<table, rowLock, edit, raced, history, jobVars>>

EditStep ==
    \/ UpdateTool
    \/ \E e \in PolicyEditors :
           \/ \E op \in Edits : BeginEdit(e, op)
           \/ WriteFirst(e) \/ CommitEdit(e) \/ DeadlockAbort(e)

-----------------------------------------------------------------------------
(* The evaluations.                                                        *)

Decision(kind, action, p) ==
    [kind |-> kind, action |-> action, revision |-> p.revision, asking |-> FALSE]

MessageDecision(p) ==
    Decision("message", IF p.enabled THEN p.rules.message ELSE "allow", p)

\* Hours, then autonomy, then keywords; `within` is the time of the day.
AIDecision(p, within) ==
    CASE ~p.enabled -> Decision("autonomy", "allow", p)
      [] p.enabled /\ p.rules.closed = "handoff" /\ ~within -> Decision("hours", "handoff", p)
      [] OTHER -> IF ~p.rules.autonomous THEN Decision("autonomy", "handoff", p)
                  ELSE IF p.keyword THEN Decision("handoff", "handoff", p)
                  ELSE Decision("autonomy", "allow", p)

\* Mutant: the policy alone says whether a tool needs an approval.
ToolDecisionByPolicy(p, rule, asks) ==
    LET ruled    == p.enabled /\ rule # Absent
        approval == p.enabled /\ (p.rules.floor \/ p.rules.writes)
    IN  [Decision("tool", IF ruled /\ rule.deny THEN "deny"
                          ELSE IF approval \/ (ruled /\ rule.required) THEN "approval"
                          ELSE "allow", p)
         EXCEPT !.asking = asks]

\* The strictest of the tool, the policy and the rule; a denial needs no more.
ToolDecision(p, rule, asks) ==
    LET ruled    == p.enabled /\ rule # Absent
        denied   == ruled /\ rule.deny
        approval == \/ asks
                    \/ p.enabled /\ (p.rules.floor \/ p.rules.writes)
                    \/ ruled /\ rule.required
    IN  [Decision("tool", IF denied THEN "deny" ELSE IF approval THEN "approval" ELSE "allow", p)
         EXCEPT !.asking = asks]

Decided(w, d) == job' = [job EXCEPT ![w] = [pc |-> "trace", decision |-> d]]
JobGoto(w, l) == job' = [job EXCEPT ![w] = [pc |-> l]]

StartJob(w) ==
    /\ job[w].pc = "idle" /\ jobs < MaxJobs
    /\ jobs' = jobs + 1
    /\ JobGoto(w, "message")
    /\ UNCHANGED <<editVars, decided, acted>>

EvaluateMessage(w) ==
    /\ job[w].pc = "message"
    /\ Decided(w, MessageDecision(Effective))
    /\ UNCHANGED <<editVars, jobs, decided, acted>>

EvaluateAI(w, within) ==
    /\ job[w].pc = "ai"
    /\ Decided(w, AIDecision(Effective, within))
    /\ UNCHANGED <<editVars, jobs, decided, acted>>

\* A tool call of the run, unless its execution row is already there.
AskForTool(w) ==
    /\ job[w].pc = "agent"
    /\ ~\E d \in acted : d.kind = "tool"
    /\ job' = [job EXCEPT ![w] = [pc |-> "rule", policy |-> Effective, asks |-> asking]]
    /\ UNCHANGED <<editVars, jobs, decided, acted>>

\* The rule is read in another session than the policy.
EvaluateTool(w) ==
    /\ job[w].pc = "rule"
    /\ Decided(w, ToolDecision(job[w].policy, table["rule"], job[w].asks))
    /\ UNCHANGED <<editVars, jobs, decided, acted>>

\* A schedule that lets the message through leaves a trace of its own first.
TraceDecision(w) ==
    /\ job[w].pc = "trace"
    /\ decided' = decided \cup {job[w].decision}
    /\ job' = [job EXCEPT ![w] = [pc |-> "act", decision |-> job[w].decision]]
    /\ UNCHANGED <<editVars, jobs, acted>>

\* The event is ignored or handed off, the agent runs, the execution row is
\* inserted (once: its key is unique); an allowed message goes on.
Act(w) ==
    /\ job[w].pc = "act"
    /\ LET d == job[w].decision
           again == d.kind = "tool" /\ \E x \in acted : x.kind = "tool"
       IN  /\ acted' = IF again THEN acted ELSE acted \cup {d}
           /\ JobGoto(w, CASE d.kind = "message" /\ d.action = "allow" -> "ai"
                           [] d.kind = "autonomy" /\ d.action = "allow" -> "agent"
                           [] OTHER -> "idle")
    /\ UNCHANGED <<editVars, jobs, decided>>

\* The run ends without a tool, or the job fails anywhere: a trace that cannot
\* be inserted fails it too.
LeaveJob(w) ==
    /\ job[w].pc # "idle"
    /\ JobGoto(w, "idle")
    /\ UNCHANGED <<editVars, jobs, decided, acted>>

JobStep ==
    \E w \in PolicyWorkers :
        \/ StartJob(w) \/ EvaluateMessage(w) \/ AskForTool(w) \/ EvaluateTool(w)
        \/ \E b \in BOOLEAN : EvaluateAI(w, b)
        \/ TraceDecision(w) \/ Act(w) \/ LeaveJob(w)

PolicyNext == EditStep \/ JobStep

-----------------------------------------------------------------------------
(* Properties.                                                             *)

\* No decision takes effect before its trace is committed.
ActedIsTraced == acted \subseteq decided

\* The agent runs only for a message both evaluations let through, each by a
\* policy of the business.
AIRunsWhenAllowed ==
    \A d \in acted : d.kind = "autonomy" /\ d.action = "allow" =>
        \E t \in acted : t.kind = "message" /\ t.action = "allow"

\* No policy, rule or switch takes away the approval the called tool asks for.
BaselineIsKept ==
    \A d \in acted : d.kind = "tool" /\ d.action = "allow" => ~d.asking

\* As long as no edit overwrote a row changed under it, the two policies agree
\* and a revision names one configuration.
ConfigurationIsCoherent ==
    ~raced =>
        /\ table["tenant"] # Absent /\ table["legacy"] # Absent =>
              /\ table["tenant"].enabled = table["legacy"].enabled
              /\ table["tenant"].keyword = table["legacy"].keyword
        /\ \A x, y \in history : x[1] = y[1] => x = y

\* Every effect of the policy engine is traced, allowed and no weaker than the
\* tool, by a configuration the edits keep coherent (PolicyEngine, put_policy,
\* put_handoff_policy, put_tool_policy_rule, _ensure_policy_row).
PolicyIsEnforced ==
    ActedIsTraced /\ AIRunsWhenAllowed /\ BaselineIsKept /\ ConfigurationIsCoherent
=============================================================================
