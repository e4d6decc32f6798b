------------------------- MODULE ExecutionLaneProofs -------------------------
(* The abstract lane keeps effects apart, for any Turns and Threads.  The   *)
(* inductive invariant adds who may hold a lane and where effects may be.   *)
EXTENDS ExecutionLane, TLAPS

LaneTypeOK ==
    /\ lane \in [Turn -> Place]
    /\ effect \in [Turn -> Effect]

OneHolder ==
    \A t, u \in Turn :
        lane[t] = "holding" /\ lane[u] = "holding" /\ threadOf[t] = threadOf[u] => t = u

EffectsInside ==
    /\ \A t \in Turn : effect[t] = "active" => lane[t] = "holding"
    /\ \A t \in Turn : lane[t] \in {"outside", "waiting"} => effect[t] = "none"

LaneInv == LaneTypeOK /\ OneHolder /\ EffectsInside

\* One step keeps the invariant: only Take makes a holder, only Act an effect,
\* and the three ways out of a lane ask for no active effect.
LEMMA LaneStep == LaneInv /\ [LaneNext]_laneVars => LaneInv'
<1> SUFFICES ASSUME LaneInv, [LaneNext]_laneVars PROVE LaneInv'
  OBVIOUS
<1> USE DEF LaneInv, LaneTypeOK, OneHolder, EffectsInside, Place, Effect
<1>1. CASE UNCHANGED laneVars
  BY <1>1 DEF laneVars
<1>2. ASSUME NEW t \in Turn, Enter(t) PROVE LaneInv'
  BY <1>2 DEF Enter, Move
<1>3. ASSUME NEW t \in Turn, Withdraw(t) PROVE LaneInv'
  BY <1>3 DEF Withdraw, Move
<1>4. ASSUME NEW t \in Turn, Take(t) PROVE LaneInv'
  BY <1>4 DEF Take, Move
<1>5. ASSUME NEW t \in Turn, GiveBack(t) PROVE LaneInv'
  BY <1>5 DEF GiveBack, Move
<1>6. ASSUME NEW t \in Turn, Leave(t) PROVE LaneInv'
  BY <1>6 DEF Leave, Move
<1>7. ASSUME NEW t \in Turn, Act(t) PROVE LaneInv'
  BY <1>7 DEF Act
<1>8. ASSUME NEW t \in Turn, Settle(t) PROVE LaneInv'
  BY <1>8 DEF Settle
<1> QED
  BY <1>1, <1>2, <1>3, <1>4, <1>5, <1>6, <1>7, <1>8 DEF LaneNext

\* Whatever implements the lane keeps the effects of a Thread's Turns apart
\* and gives back only work that has done nothing.
THEOREM LaneSeparatesEffects == LaneSpec => []EffectsExclusive
<1>1. LaneInit => LaneInv
  BY DEF LaneInit, LaneInv, LaneTypeOK, OneHolder, EffectsInside, Place, Effect
<1>2. LaneInv => EffectsExclusive
  BY DEF LaneInv, OneHolder, EffectsInside, EffectsExclusive
<1> QED
  BY <1>1, <1>2, LaneStep, PTL DEF LaneSpec
=============================================================================
