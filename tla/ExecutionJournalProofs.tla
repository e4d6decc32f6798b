----------------------- MODULE ExecutionJournalProofs -----------------------
(***************************************************************************)
(* Lemmas about the two transactions of the execution journal, for every   *)
(* set of steps, outputs and excluded references: what they leave of a     *)
(* root, that they advance it, and that a root they close is proved.       *)
(* TurnJournalProofs and IdleCleanupProofs cite them.                      *)
(***************************************************************************)
EXTENDS ExecutionJournal, TLAPS

\* The parts of a well-typed root.
LEMMA RootParts ==
    ASSUME NEW steps, NEW outputs, NEW refs, NEW j \in Root(steps, outputs, refs)
    PROVE  /\ j.scope \in {"workspace", "core"}
           /\ j.phase \in RootPhase
           /\ j.revision \in Nat
           /\ j.exclusion \in SUBSET refs
           /\ j.step \in [steps -> StepRow(steps, outputs)]
           /\ DOMAIN j.step = steps
  BY DEF Root

\* What both transactions do to a root j: k has one new row, the next revision,
\* and the phase and exclusion that are given.
Wrote(j, k, steps, s, row, phase, exclusion) ==
    /\ k.scope = j.scope
    /\ k.phase = phase
    /\ k.exclusion = exclusion
    /\ k.revision \in Nat
    /\ j.revision \in Nat
    /\ k.revision = j.revision + 1
    /\ k.step[s] = row
    /\ \A x \in steps \ {s} : k.step[x] = j.step[x]
    /\ DOMAIN k.step = steps
    /\ DOMAIN j.step = steps

IntentRow(kind, inspected) ==
    [state |-> "intent", kind |-> kind, outputs |-> NoOutput, inspects |-> inspected]

\* Writing an intent adds its row and leaves the rest of the root.
LEMMA IntendWrites ==
    ASSUME NEW steps, NEW outputs, NEW refs, NEW j \in Root(steps, outputs, refs),
           NEW s \in steps, NEW kind \in Kind, NEW inspected \in steps \cup {NoStep}
    PROVE  /\ Intend(j, s, kind, inspected) \in Root(steps, outputs, refs)
           /\ Wrote(j, Intend(j, s, kind, inspected), steps, s, IntentRow(kind, inspected),
                    j.phase, j.exclusion)
  <1> DEFINE row == IntentRow(kind, inspected)
  <1>1. row \in StepRow(steps, outputs) BY DEF StepRow, State, IntentRow
  <1>2. [j.step EXCEPT ![s] = row] \in [steps -> StepRow(steps, outputs)] BY <1>1, RootParts
  <1>3. j.revision \in Nat BY RootParts
  <1>4. PICK n \in Nat : n = j.revision + 1 BY <1>3
  <1>5. Intend(j, s, kind, inspected) = [j EXCEPT !.revision = n, !.step = [j.step EXCEPT ![s] = row]]
    BY <1>4 DEF Intend, IntentRow
  <1>6. Intend(j, s, kind, inspected) \in Root(steps, outputs, refs)
    BY <1>2, <1>5 DEF Root
  <1>7. DOMAIN j.step = steps BY RootParts
  <1> QED BY <1>1, <1>2, <1>3, <1>4, <1>5, <1>6, <1>7 DEF Root, Wrote

\* A settlement that is well typed for these steps, outputs and references.
IsSettlement(z, steps, outputs, refs) ==
    /\ z.step \in steps
    /\ z.state \in Ended
    /\ z.outputs \in outputs \cup {NoOutput}
    /\ z.phase \in RootPhase
    /\ z.exclusion \in SUBSET refs

EndedRow(j, z) ==
    [state |-> z.state, kind |-> j.step[z.step].kind, outputs |-> z.outputs,
     inspects |-> j.step[z.step].inspects]

\* Settling a step ends its row, keeps its kind and what it inspects, and
\* gives the root the settlement's phase and exclusion.
LEMMA SettleWrites ==
    ASSUME NEW steps, NEW outputs, NEW refs, NEW j \in Root(steps, outputs, refs),
           NEW z, IsSettlement(z, steps, outputs, refs)
    PROVE  /\ Settle(j, z) \in Root(steps, outputs, refs)
           /\ Wrote(j, Settle(j, z), steps, z.step, EndedRow(j, z), z.phase, z.exclusion)
  <1> USE DEF IsSettlement
  <1> DEFINE row == EndedRow(j, z)
  <1>0. j.step[z.step] \in StepRow(steps, outputs) BY RootParts
  <1>1. row \in StepRow(steps, outputs) BY <1>0 DEF StepRow, Ended, EndedRow
  <1>2. [j.step EXCEPT ![z.step] = row] \in [steps -> StepRow(steps, outputs)] BY <1>1, RootParts
  <1>3. j.revision \in Nat BY RootParts
  <1>4. PICK n \in Nat : n = j.revision + 1 BY <1>3
  <1>5. Settle(j, z) = [j EXCEPT !.phase = z.phase, !.revision = n, !.exclusion = z.exclusion,
                                 !.step = [j.step EXCEPT ![z.step] = row]]
    BY <1>4 DEF Settle, EndedRow
  <1>6. Settle(j, z) \in Root(steps, outputs, refs)
    BY <1>2, <1>5 DEF Root
  <1>7. DOMAIN j.step = steps BY RootParts
  <1> QED BY <1>1, <1>2, <1>3, <1>4, <1>5, <1>6, <1>7 DEF Root, Wrote

\* An admitted intent advances the root and cannot spoil its proof.
LEMMA IntendAdvances ==
    ASSUME NEW steps, NEW outputs, NEW refs, NEW j \in Root(steps, outputs, refs),
           NEW s \in steps, NEW kind \in Kind, NEW inspected \in steps \cup {NoStep},
           CanIntend(j, s, kind, inspected)
    PROVE  /\ Advances(j, Intend(j, s, kind, inspected))
           /\ Proved(Intend(j, s, kind, inspected))
  <1> DEFINE k == Intend(j, s, kind, inspected)
  <1>1. Wrote(j, k, steps, s, IntentRow(kind, inspected), j.phase, j.exclusion) BY IntendWrites
  <1>2. j.phase \in {"open", "closing"} /\ j.step[s].state = "none" BY DEF CanIntend
  <1>3. k.phase = j.phase BY <1>1 DEF Wrote
  <1>4. Proved(k) BY <1>2, <1>3 DEF Proved
  <1>5. \A x \in DOMAIN j.step : j.step[x].state \in Ended => k.step[x] = j.step[x]
    BY <1>1, <1>2 DEF Ended, State, Wrote
  <1>6. PhaseRank(j.phase) <= PhaseRank(k.phase) BY <1>2, <1>3 DEF PhaseRank
  <1>7. j.revision < k.revision BY <1>1 DEF Wrote
  <1>8. Advances(j, k) BY <1>2, <1>5, <1>6, <1>7 DEF Advances
  <1> QED BY <1>4, <1>8

\* An admitted settlement that does not name an earlier phase advances the root.
LEMMA SettleAdvances ==
    ASSUME NEW steps, NEW outputs, NEW refs, NEW j \in Root(steps, outputs, refs),
           NEW z, IsSettlement(z, steps, outputs, refs), CanSettle(j, z),
           PhaseRank(j.phase) <= PhaseRank(z.phase)
    PROVE  Advances(j, Settle(j, z))
  <1> DEFINE k == Settle(j, z)
  <1>1. Wrote(j, k, steps, z.step, EndedRow(j, z), z.phase, z.exclusion) BY SettleWrites
  <1>2. j.phase # "closed" /\ j.step[z.step].state = "intent" BY DEF CanSettle
  <1>3. \A x \in DOMAIN j.step : j.step[x].state \in Ended => k.step[x] = j.step[x]
    BY <1>1, <1>2 DEF Ended, State, Wrote
  <1>4. PhaseRank(j.phase) <= PhaseRank(k.phase) BY <1>1 DEF Wrote
  <1>5. j.revision < k.revision BY <1>1 DEF Wrote
  <1> QED BY <1>2, <1>3, <1>4, <1>5 DEF Advances

\* Whoever closes a root, and whichever revision it read, the two conditions
\* of the settlement are enough: the closed root is proved.
THEOREM SettleProves ==
    ASSUME NEW steps, NEW outputs, NEW refs, NEW j \in Root(steps, outputs, refs),
           NEW z, IsSettlement(z, steps, outputs, refs), CanSettle(j, z)
    PROVE  Proved(Settle(j, z))
  <1> DEFINE k == Settle(j, z)
  <1>0. Wrote(j, k, steps, z.step, EndedRow(j, z), z.phase, z.exclusion) BY SettleWrites
  <1>1. /\ k.scope = j.scope /\ k.phase = z.phase /\ k.exclusion = z.exclusion
        /\ k.step[z.step] = EndedRow(j, z)
        /\ \A x \in steps \ {z.step} : k.step[x] = j.step[x]
        /\ DOMAIN k.step = steps /\ DOMAIN j.step = steps
    BY <1>0 DEF Wrote
  <1>2. z.step \in steps /\ z.state \in Ended BY DEF IsSettlement
  <1>3. j.step[z.step].state = "intent" BY DEF CanSettle
  <1> SUFFICES ASSUME k.phase = "closed" PROVE Proved(k) BY DEF Proved
  <1>4. StepsIn(j, "intent") \subseteq {z.step} /\ z.exclusion = {} /\ z.state # "unknown"
    BY <1>1 DEF CanSettle
  <1>5. StepsIn(k, "intent") = {} BY <1>1, <1>2, <1>4 DEF StepsIn, Ended, EndedRow
  <1>6. StepsIn(k, "unknown") = StepsIn(j, "unknown") BY <1>1, <1>2, <1>3, <1>4 DEF StepsIn, EndedRow
  <1>7. CASE StepsIn(j, "unknown") = {} BY <1>1, <1>4, <1>5, <1>6, <1>7 DEF Proved
  <1>8. CASE StepsIn(j, "unknown") # {}
    <2>1. QualifiedRelease(j, z) BY <1>1, <1>8 DEF CanSettle
    <2>2. \A p \in StepsIn(j, "completed") : p # z.step /\ p \in StepsIn(k, "completed") /\ k.step[p] = j.step[p]
      BY <1>1, <1>3 DEF StepsIn
    <2>3. z.state = "completed" /\ \A s \in StepsIn(j, "unknown") : Linked(j, s, z.outputs)
      BY <2>1 DEF QualifiedRelease
    <2>4. \A s \in StepsIn(k, "unknown") : Linked(k, s, z.outputs)
      BY <1>6, <2>2, <2>3 DEF Linked
    <2>5. \E r \in StepsIn(k, "completed") : k.step[r].kind = "release" /\ k.step[r].outputs = z.outputs
      <3>1. CASE j.step[z.step].kind = "release"
        BY <1>1, <1>2, <2>3, <3>1 DEF StepsIn, EndedRow
      <3>2. CASE j.step[z.step].kind # "release"
        <4>1. /\ j.step[z.step].inspects # NoStep
              /\ j.step[j.step[z.step].inspects].state = "completed"
              /\ j.step[j.step[z.step].inspects].kind = "release"
              /\ j.step[j.step[z.step].inspects].outputs = z.outputs
          BY <2>1, <3>2 DEF QualifiedRelease, ReleaseProof
        <4>2. j.step[z.step] \in StepRow(steps, outputs) BY <1>2, RootParts
        <4>3. j.step[z.step].inspects \in StepsIn(j, "completed")
          BY <1>1, <4>1, <4>2 DEF StepRow, StepsIn
        <4> QED BY <2>2, <4>1, <4>3
      <3> QED BY <3>1, <3>2
    <2>6. j.scope = "workspace" BY <2>1 DEF QualifiedRelease
    <2> QED BY <1>1, <1>4, <1>5, <2>4, <2>5, <2>6 DEF Proved
  <1> QED BY <1>7, <1>8
=============================================================================
