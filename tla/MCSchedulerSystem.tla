------------------------- MODULE MCSchedulerSystem -------------------------
(* Instances of SchedulerSystem for TLC: one or two Turns of a Thread, all  *)
(* direct or the second of a recurring schedule.                            *)
EXTENDS SchedulerSystem

CONSTANTS t1, t2, th1, every

Shared == [t \in Turn |-> th1]

Direct == [t \in Turn |-> Null]
Mixed == [t \in Turn |-> IF t = t1 THEN Null ELSE every]

=============================================================================
