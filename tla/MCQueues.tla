----------------------------- MODULE MCQueues -----------------------------
(* Small instances of Queues for TLC: a day of two units, a week of two days. *)
EXTENDS Queues
CONSTANTS t1, t2

ASSUME DaysAssumption == QueuesAssumption
=============================================================================
