------------------------------ MODULE MCJobQueue ------------------------------
(***************************************************************************)
(* Small instances of JobQueue.                                            *)
(***************************************************************************)
EXTENDS JobQueue, TLC

CONSTANTS c1, c2

OneConsumer  == {c1}
TwoConsumers == {c1, c2}
NoneMalformed   == {}
SecondMalformed == {2}

ConsumerSymmetry == Permutations(TwoConsumers)
=============================================================================
