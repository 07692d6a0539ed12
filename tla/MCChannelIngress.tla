-------------------------- MODULE MCChannelIngress ---------------------------
(***************************************************************************)
(* Small instances of ChannelIngress: updates of one sender, so that the   *)
(* first ones race for the identity as well.                               *)
(***************************************************************************)
EXTENDS ChannelIngress, TLC

CONSTANTS u1, u2, s1, h1, h2, w1

OneUpdate  == {u1}
TwoUpdates == {u1, u2}
OneSender  == {s1}
Sender1    == [u \in Updates |-> s1]
TwoHooks   == {h1, h2}
OneWorker  == {w1}

HookUpdateSymmetry == Permutations(TwoHooks) \cup Permutations(TwoUpdates)
=============================================================================
