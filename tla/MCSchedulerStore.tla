-------------------------- MODULE MCSchedulerStore --------------------------
(* An instance of SchedulerStore for TLC: a direct Turn t1 and a recurring  *)
(* Turn t2 on one Thread, every command by any caller in any order.         *)
(* Attempt identities are interchangeable.                                  *)
EXTENDS SchedulerStore, TLC

CONSTANTS t1, t2, th, every

MCThreadOf == [t \in Turn |-> th]
MCSeriesOf == [t \in Turn |-> IF t = t1 THEN Null ELSE every]

Identities == Permutations(Attempt)
=============================================================================
