-------------------------- MODULE ExecutionJournal --------------------------
(***************************************************************************)
(* The rules of the execution journal: what the one transaction that       *)
(* writes an intent, and the one that settles a step, require and do.  A   *)
(* root is a value, so that every journal of the system (TurnJournal in a  *)
(* Workspace, IdleCleanup in Core) is a variable governed by these rules.  *)
(*                                                                         *)
(* Kind "work" stands for every kind that a closing root refuses.  Output  *)
(* references are one value or NoOutput, the empty list.  Spans, deadlines *)
(* and the parents of nested Harness invocations are left out.             *)
(***************************************************************************)
EXTENDS Naturals

State == {"none", "intent", "completed", "failed", "unknown", "cancelled"}
Ended == State \ {"none", "intent"}
RootPhase == {"absent", "open", "closing", "closed"}
Kind == {"work", "release", "consume-receipt", "inspect-cleanup"}

NoOutput == "no output"
NoStep == <<"no step", 0>>

StepRow(steps, outputs) ==
    [state : State, kind : Kind, outputs : outputs \cup {NoOutput}, inspects : steps \cup {NoStep}]

Root(steps, outputs, refs) ==
    [scope : {"workspace", "core"}, phase : RootPhase, revision : Nat, exclusion : SUBSET refs,
     step : [steps -> StepRow(steps, outputs)]]

AbsentRoot(scope, steps) ==
    [scope |-> scope, phase |-> "absent", revision |-> 0, exclusion |-> {},
     step |-> [s \in steps |->
        [state |-> "none", kind |-> "work", outputs |-> NoOutput, inspects |-> NoStep]]]

StepsIn(j, state) == {s \in DOMAIN j.step : j.step[s].state = state}

-----------------------------------------------------------------------------
\* The first intent creates its root.
OpenRoot(j, refs) == [j EXCEPT !.phase = "open", !.revision = 1, !.exclusion = refs]

ClosingKinds(j) ==
    {"inspect-cleanup", "consume-receipt"} \cup (IF j.scope = "workspace" THEN {"release"} ELSE {})

\* A closed root admits nothing, a closing one only what helps to close it.
CanIntend(j, s, kind, inspected) ==
    /\ j.step[s].state = "none"
    /\ j.phase \in {"open", "closing"}
    /\ j.phase = "closing" => kind \in ClosingKinds(j)
    /\ inspected # NoStep => j.step[inspected].state # "none"

Intend(j, s, kind, inspected) ==
    [j EXCEPT !.revision = @ + 1,
              !.step[s] = [state |-> "intent", kind |-> kind, outputs |-> NoOutput, inspects |-> inspected]]

-----------------------------------------------------------------------------
\* A settlement asks to end a step at a revision the caller read earlier, and
\* names the phase and the exclusion the root shall have afterwards.
Settlement(s, revision, state, outputs, phase, exclusion) ==
    [step |-> s, revision |-> revision, state |-> state, outputs |-> outputs,
     phase |-> phase, exclusion |-> exclusion]

\* The settled step is the release, or inspects the completed release.
ReleaseProof(j, z) ==
    LET row == j.step[z.step]
    IN  \/ row.kind = "release"
        \/ /\ row.kind = "inspect-cleanup"
           /\ row.inspects # NoStep
           /\ j.step[row.inspects].state = "completed"
           /\ j.step[row.inspects].kind = "release"
           /\ j.step[row.inspects].outputs = z.outputs

\* A completed cleanup inspection of s names this proof.
Linked(j, s, proof) ==
    \E p \in StepsIn(j, "completed") :
        /\ j.step[p].kind = "inspect-cleanup"
        /\ j.step[p].inspects = s
        /\ j.step[p].outputs = proof

\* Mutant: the release is believed whatever became of the unknown effects.
QualifiedByFence(j, z) ==
    /\ j.scope = "workspace"
    /\ ReleaseProof(j, z)
    /\ z.state = "completed"
    /\ z.outputs # NoOutput

QualifiedRelease(j, z) ==
    /\ j.scope = "workspace"
    /\ ReleaseProof(j, z)
    /\ z.state = "completed"
    /\ z.outputs # NoOutput
    /\ \A s \in StepsIn(j, "unknown") : Linked(j, s, z.outputs)

\* Mutant: the condition on the revision is missing.
CanSettleAnyRevision(j, z) ==
    /\ j.step[z.step].state = "intent"
    /\ j.phase # "closed"
    /\ (z.state = "unknown" \/ StepsIn(j, "unknown") # {}) /\ ~QualifiedRelease(j, z) =>
          z.phase # "closed" /\ j.exclusion \subseteq z.exclusion
    /\ z.phase = "closed" =>
          StepsIn(j, "intent") \subseteq {z.step} /\ z.exclusion = {} /\ z.state # "unknown"

CanSettle(j, z) ==
    /\ j.step[z.step].state = "intent"
    /\ j.revision = z.revision
    /\ j.phase # "closed"
    /\ (z.state = "unknown" \/ StepsIn(j, "unknown") # {}) /\ ~QualifiedRelease(j, z) =>
          z.phase # "closed" /\ j.exclusion \subseteq z.exclusion
    /\ z.phase = "closed" =>
          StepsIn(j, "intent") \subseteq {z.step} /\ z.exclusion = {} /\ z.state # "unknown"

Settle(j, z) ==
    [j EXCEPT !.phase = z.phase, !.revision = @ + 1, !.exclusion = z.exclusion,
              !.step[z.step] = [state |-> z.state, kind |-> @.kind, outputs |-> z.outputs, inspects |-> @.inspects]]

-----------------------------------------------------------------------------
\* What a closed root proves, whoever closed it: nothing is undecided, nothing
\* is excluded, and every unknown effect is linked to one release proof.
Proved(j) ==
    j.phase = "closed" =>
        /\ StepsIn(j, "intent") = {}
        /\ j.exclusion = {}
        /\ \/ StepsIn(j, "unknown") = {}
           \/ /\ j.scope = "workspace"
              /\ \E r \in StepsIn(j, "completed") :
                    /\ j.step[r].kind = "release"
                    /\ \A s \in StepsIn(j, "unknown") : Linked(j, s, j.step[r].outputs)

\* What a journal write never does: it never goes back to an earlier phase,
\* reuses a revision, or changes a step that has ended.
PhaseRank(phase) ==
    CASE phase = "absent" -> 0 [] phase = "open" -> 1 [] phase = "closing" -> 2 [] phase = "closed" -> 3

Advances(before, after) ==
    \/ after = before
    \/ /\ PhaseRank(before.phase) <= PhaseRank(after.phase)
       /\ before.phase # "closed"
       /\ before.revision < after.revision
       /\ \A s \in DOMAIN before.step :
             before.step[s].state \in Ended => after.step[s] = before.step[s]
=============================================================================
