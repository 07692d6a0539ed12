--------------------------- MODULE MCToolExecutions ---------------------------
(***************************************************************************)
(* What the delivery of one job calls on its way, each on a small instance:*)
(* the tools, the clocks of its lease and budget, the AI gateway, the      *)
(* transcription of a voice message, the memory of the contact, the        *)
(* policies of the business, and the row locks of its transactions.        *)
(*                                                                         *)
(* The parts share no row: `part` picks the one a behaviour is about, and  *)
(* the others stay as they were.                                           *)
(***************************************************************************)
EXTENDS ToolExecutions, LeaseBudget, AIGateway, VoiceTranscription,
        MCCustomerMemory, Policies, RowLocks, TLC

CONSTANTS c1, c2, a1, a2, m1, m2, w1, w2, x1, x2, op1, op2, x, y,
          e1, e2, s1, s2, s3

TwoCallers == {c1, c2}
TwoArgs    == {a1, a2}
TwoWorkers == {w1, w2}
TwoValues  == {x, y}
TwoEditors == {e1, e2}
OneWorker  == {w1}
TwoExtractors == {x1, x2}
TwoOperators  == {op1, op2}
Sessions   == {s1, s2, s3}

\* One tick is _RECLAIM_INTERVAL_SECONDS; nine deliveries outlast the lease.
TickSeconds == 5
Lease180    == 180 \div TickSeconds
Idle30      == 30 \div TickSeconds
Work60      == 60 \div TickSeconds

\* Two models; no adapter serves the one on the first route.
TwoModels      == {m1, m2}
NoAdapter      == {m2}
FallbackRoutes == {[attempts |-> 2, routes |-> <<m2, m1>>]}

\* A strict policy, to be put in place of the lenient defaults.
StrictRules == [message |-> "deny", closed |-> "handoff", autonomous |-> FALSE,
                floor |-> TRUE, writes |-> FALSE]
PolicyRules == {StrictRules}
DenyRule    == {[deny |-> TRUE, required |-> FALSE]}

\* No definition tells the extractors apart, nor the operators.
MemorySymmetry == Permutations(TwoExtractors) \cup Permutations(TwoOperators)

VARIABLE part

MCInit ==
    /\ part \in {"tools", "clocks", "gateway", "voice", "memory", "policy", "locks"}
    /\ Init /\ BudgetInit /\ GatewayInit /\ VoiceInit /\ MemoryInit
    /\ PolicyInit /\ LocksInit

MCNext ==
    /\ UNCHANGED part
    /\ \/ /\ part = "tools" /\ Next
          /\ UNCHANGED <<budgetVars, gatewayVars, voiceVars, memoryVars, policyVars,
                         lockVars>>
       \/ /\ part = "clocks" /\ BudgetNext
          /\ UNCHANGED <<vars, gatewayVars, voiceVars, memoryVars, policyVars,
                         lockVars>>
       \/ /\ part = "gateway" /\ GatewayNext
          /\ UNCHANGED <<vars, budgetVars, voiceVars, memoryVars, policyVars,
                         lockVars>>
       \/ /\ part = "voice" /\ VoiceNext
          /\ UNCHANGED <<vars, budgetVars, gatewayVars, memoryVars, policyVars,
                         lockVars>>
       \/ /\ part = "memory" /\ MemoryNext
          /\ UNCHANGED <<vars, budgetVars, gatewayVars, voiceVars, policyVars,
                         lockVars>>
       \/ /\ part = "policy" /\ PolicyNext
          /\ UNCHANGED <<vars, budgetVars, gatewayVars, voiceVars, memoryVars,
                         lockVars>>
       \/ /\ part = "locks" /\ LocksNext
          /\ UNCHANGED <<vars, budgetVars, gatewayVars, voiceVars, memoryVars,
                         policyVars>>

MCSpec ==
    MCInit /\ [][MCNext]_<<part, vars, budgetVars, gatewayVars, voiceVars, memoryVars,
                           policyVars, lockVars>>

\* The rows and the place of every part are what the tables and handlers allow.
CallTypesOK ==
    TypeOK /\ BudgetTypeOK /\ GatewayTypeOK /\ VoiceTypeOK /\ MemoryTypeOK
    /\ PolicyTypeOK /\ LocksTypeOK
=============================================================================
