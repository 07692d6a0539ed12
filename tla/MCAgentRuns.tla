----------------------------- MODULE MCAgentRuns -----------------------------
(***************************************************************************)
(* Small instances of AgentRuns: workers, runs and texts are model values. *)
(***************************************************************************)
EXTENDS AgentRuns, TLC

CONSTANTS w1, w2, r1, r2, t1, t2

TwoWorkers == {w1, w2}
OneRun     == {r1}
TwoRuns    == {r1, r2}
OneText    == {t1}
TwoTexts   == {t1, t2}

\* Workers and texts are interchangeable (only for runs without liveness).
WorkerTextSymmetry == Permutations(TwoWorkers) \cup Permutations(TwoTexts)
=============================================================================
