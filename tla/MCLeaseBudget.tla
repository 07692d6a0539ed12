---------------------------- MODULE MCLeaseBudget -----------------------------
(***************************************************************************)
(* LeaseBudget with the durations of the source, one tick being five       *)
(* seconds (_RECLAIM_INTERVAL_SECONDS).                                    *)
(***************************************************************************)
EXTENDS LeaseBudget

TickSeconds == 5
Lease180    == 180 \div TickSeconds
Idle30      == 30 \div TickSeconds
Work60      == 60 \div TickSeconds
=============================================================================
