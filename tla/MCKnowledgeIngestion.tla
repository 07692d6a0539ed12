-------------------------- MODULE MCKnowledgeIngestion --------------------------
(***************************************************************************)
(* A small instance of KnowledgeIngestion: two workers and two embedding   *)
(* models.                                                                 *)
(***************************************************************************)
EXTENDS KnowledgeIngestion

CONSTANTS w1, w2, s1, s2

TwoWorkers    == {w1, w2}
TwoSignatures == {s1, s2}
=============================================================================
