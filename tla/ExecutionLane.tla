---------------------------- MODULE ExecutionLane ----------------------------
(***************************************************************************)
(* What the scheduler promises, without queue, records or processes.  Each *)
(* Turn waits, holds its Thread's lane, and leaves; what it does to a      *)
(* backend happens once, inside its lane, and is over before it leaves.    *)
(* SchedulerSystem implements this specification, for the operations it    *)
(* records before delivery, as long as nobody stops a Turn.                *)
(***************************************************************************)
CONSTANTS
    Turn,      \* Turns
    threadOf   \* the Thread of a Turn

VARIABLES
    lane,   \* lane[t]: where t stands
    effect  \* effect[t]: what t did to a backend

laneVars == <<lane, effect>>

Place == {"outside", "waiting", "holding", "left"}
Effect == {"none", "active", "settled"}

LaneInit ==
    /\ lane = [t \in Turn |-> "outside"]
    /\ effect = [t \in Turn |-> "none"]

Move(t, from, to) ==
    /\ lane[t] = from
    /\ lane' = [lane EXCEPT ![t] = to]
    /\ UNCHANGED effect

Enter(t) == Move(t, "outside", "waiting")

Withdraw(t) == Move(t, "waiting", "left")

\* A lane has one holder, and who already acted never gets it again.
Take(t) ==
    /\ \A u \in Turn : threadOf[u] = threadOf[t] => lane[u] # "holding"
    /\ effect[t] = "none"
    /\ Move(t, "waiting", "holding")

\* Capacity was missing: back to waiting, with nothing done.
GiveBack(t) ==
    /\ effect[t] = "none"
    /\ Move(t, "holding", "waiting")

Leave(t) ==
    /\ effect[t] # "active"
    /\ Move(t, "holding", "left")

Act(t) ==
    /\ lane[t] = "holding"
    /\ effect[t] = "none"
    /\ effect' = [effect EXCEPT ![t] = "active"]
    /\ UNCHANGED lane

Settle(t) ==
    /\ effect[t] = "active"
    /\ effect' = [effect EXCEPT ![t] = "settled"]
    /\ UNCHANGED lane

LaneNext ==
    \E t \in Turn : \/ Enter(t) \/ Withdraw(t) \/ Take(t) \/ GiveBack(t)
                    \/ Leave(t) \/ Act(t) \/ Settle(t)

LaneSpec == LaneInit /\ [][LaneNext]_laneVars

\* What follows for the backends: two Turns of a Thread never have effects at
\* the same time, and a Turn that waits (again) has never had any.
EffectsExclusive ==
    /\ \A t, u \in Turn :
          effect[t] = "active" /\ effect[u] = "active" /\ threadOf[t] = threadOf[u] => t = u
    /\ \A t \in Turn : lane[t] = "waiting" => effect[t] = "none"
=============================================================================
