--------------------------- MODULE MCOperatorInbox ----------------------------
(***************************************************************************)
(* Small instances of OperatorInbox: an agent, and a supervisor who may    *)
(* override; two reply requests at a time.                                 *)
(***************************************************************************)
EXTENDS OperatorInbox, TLC

CONSTANTS agent, other, supervisor, k1, t1, t2, q1, q2

AgentAndSupervisor == {agent, supervisor}
TwoAgents   == {agent, other}
Supervisors == {supervisor}
NoOverride  == {}
OneKey      == {k1}
OneText     == {t1}
TwoTexts    == {t1, t2}
TwoRequests == {q1, q2}

RequestTextSymmetry == Permutations(TwoRequests) \cup Permutations(TwoTexts)
=============================================================================
