------------------------- MODULE TurnJournalProofs -------------------------
(***************************************************************************)
(* Proofs about TurnJournal for every number of effects and crashes.  The  *)
(* journal is protected by two facts: its own rules (ExecutionJournal),    *)
(* and that whatever a writer read is either out of date, so that its      *)
(* settlement is refused, or exactly the root it will change (Current).    *)
(* The exclusion is protected by a third: when the attempt is no longer    *)
(* live, nobody is sending anything and nothing runs (FencedIsQuiet).      *)
(***************************************************************************)
EXTENDS TurnJournal, ExecutionJournalProofs

\* The steps whose outcome may be unknown.
Decided == {Materialize, Interrupt} \cup {Effect(i) : i \in Call}

\* A root of this Turn: as long as it is open or closing it excludes both
\* references, and only what was sent can have an unknown outcome.
JournalOK(j) ==
    /\ j \in Root(Step, Output, Held)
    /\ j.scope = "workspace"
    /\ j.phase = "absent" \/ j.revision = 0 => j = AbsentRoot("workspace", Step)
    /\ j.phase \in {"open", "closing"} => j.exclusion = Held
    /\ \A s \in Step : j.step[s].state = "unknown" => s \in Decided
    /\ Proved(j)

\* A reading is the root as it is now, or of an earlier revision.
Current(r, j) ==
    /\ r.revision <= j.revision
    /\ r.revision = j.revision => r.phase = j.phase /\ r.exclusion = j.exclusion

ReadingsCurrent ==
    /\ \A i \in Call : Current(call[i].read, journal) /\ Current(receipt[i].read, journal)
    /\ Current(interrupt.read, journal)
    /\ Current(executor.read, journal)
    /\ Current(publisher, journal)

\* The executor releases only a fenced attempt, and links what may be unknown.
ExecutorInv ==
    /\ executor.todo \subseteq Decided
    /\ executor.pc \in {"linked", "linkEnding"} => executor.todo # {}
    /\ executor.pc = "materialized" => executor.state # "none"
    /\ executor.pc \in {"release", "linking", "linked", "linkEnding", "releasing"} => attempt = "fenced"

\* An effect is contacted only by its caller, and received only when it ended.
CallsInv ==
    /\ \A i \in Call :
          /\ call[i].pc \in {"idle", "planned", "begun"} => host[i] = "none"
          /\ call[i].pc = "ending" => call[i].state # "none"
          /\ call[i].pc = "ending" /\ call[i].state = "failed" => host[i] = "none"
          /\ receipt[i].pc \in {"settle", "link", "consume", "ending"} => host[i] \in {"done", "failed"}
    /\ interrupt.pc = "ending" => interrupt.state # "none"

FencedIsQuiet == ~AttemptLive => ~OwnerWaits /\ NothingRuns

ClosedIsFenced == journal.phase = "closed" => attempt \in {"fenced", "restart"}

TurnInv ==
    /\ TurnJournalTypeOK
    /\ JournalOK(journal)
    /\ ReadingsCurrent
    /\ ExecutorInv
    /\ CallsInv
    /\ OutcomesAreTrue
    /\ FencedIsQuiet
    /\ ClosedIsFenced

-----------------------------------------------------------------------------
(* The steps *)

\* The named steps are steps, and each of them is a different one.
LEMMA StepsKnown ==
    /\ {Materialize, Terminal, Release, Interrupt} \subseteq Step
    /\ \A i \in Call : Effect(i) \in Step /\ Consume(i) \in Step /\ Effect(i) \in Decided
    /\ Decided \subseteq Step
    /\ \A s \in Decided : Link(s) \in Step
    /\ Materialize \in Decided /\ Interrupt \in Decided
  BY DEF Step, Decided

\* Effects and consumptions are steps of their own, one for each call.
LEMMA StepsDiffer ==
    ASSUME NEW i \in Call
    PROVE  /\ Effect(i) \notin {Materialize, Terminal, Release, Interrupt}
           /\ Consume(i) \notin {Materialize, Terminal, Release, Interrupt}
           /\ \A k \in Call : /\ Effect(i) # Consume(k)
                              /\ Effect(i) = Effect(k) => i = k
                              /\ Consume(i) = Consume(k) => i = k
           /\ \A s : Link(s) # Effect(i) /\ Link(s) # Consume(i)
  BY DEF Effect, Consume, Link, Materialize, Terminal, Release, Interrupt

-----------------------------------------------------------------------------
(* Writes of the root *)

\* k is a later root than j.
Newer(j, k) == j.revision \in Nat /\ k.revision \in Nat /\ j.revision < k.revision

\* k differs from j at the steps of S only, and is a later root of this Turn.
Writes(j, k, S) ==
    /\ JournalOK(k)
    /\ Newer(j, k)
    /\ Advances(j, k)
    /\ \A x \in Step \ S : k.step[x] = j.step[x]

\* k has this step, and phase, besides.
WritesStep(j, k, s, state, phase) ==
    /\ Writes(j, k, {s})
    /\ k.phase = phase
    /\ k.step[s].state = state

\* An admitted intent keeps the root in order.
LEMMA IntendKeeps ==
    ASSUME NEW j, JournalOK(j), NEW s \in Step, NEW kind \in Kind, NEW inspected \in Step \cup {NoStep},
           CanIntend(j, s, kind, inspected)
    PROVE  WritesStep(j, Intend(j, s, kind, inspected), s, "intent", j.phase)
  <1> DEFINE k == Intend(j, s, kind, inspected)
  <1>1. j \in Root(Step, Output, Held) BY DEF JournalOK
  <1>2. Wrote(j, k, Step, s, IntentRow(kind, inspected), j.phase, j.exclusion)
        /\ k \in Root(Step, Output, Held)
    BY <1>1, IntendWrites
  <1>3. Advances(j, k) /\ Proved(k) BY <1>1, IntendAdvances
  <1>4. j.phase \in {"open", "closing"} BY DEF CanIntend
  <1>5. k.revision # 0 /\ Newer(j, k) BY <1>2 DEF Wrote, Newer
  <1>6. k.phase = j.phase /\ k.exclusion = j.exclusion /\ k.scope = j.scope
        /\ k.step[s] = IntentRow(kind, inspected) /\ \A x \in Step \ {s} : k.step[x] = j.step[x]
    BY <1>2 DEF Wrote
  <1>7. k.step[s].state = "intent" BY <1>6 DEF IntentRow
  <1>8. \A x \in Step : k.step[x].state = "unknown" => x \in Decided BY <1>6, <1>7 DEF JournalOK
  <1>9. JournalOK(k) BY <1>2, <1>3, <1>4, <1>5, <1>6, <1>8 DEF JournalOK
  <1> QED BY <1>3, <1>5, <1>6, <1>7, <1>9 DEF Writes, WritesStep

\* So does an admitted settlement, if it goes back to no earlier phase and
\* keeps the exclusion or closes the root.
LEMMA SettleKeeps ==
    ASSUME NEW j, JournalOK(j), NEW z, IsSettlement(z, Step, Output, Held), CanSettle(j, z),
           z.phase \in {"closing", "closed"} \/ z.phase = j.phase,
           z.phase # "closed" => z.exclusion = Held,
           z.state = "unknown" => z.step \in Decided
    PROVE  WritesStep(j, Settle(j, z), z.step, z.state, z.phase)
  <1> DEFINE k == Settle(j, z)
  <1>1. j \in Root(Step, Output, Held) BY DEF JournalOK
  <1>2. Wrote(j, k, Step, z.step, EndedRow(j, z), z.phase, z.exclusion)
        /\ k \in Root(Step, Output, Held)
    BY <1>1, SettleWrites
  <1>3. j.step[z.step].state = "intent" /\ j.phase # "closed" /\ z.step \in Step
    BY DEF CanSettle, IsSettlement
  <1>4. j.phase \in {"open", "closing"}
    <2>1. j.phase \in RootPhase BY <1>1, RootParts
    <2>2. j.phase # "absent" BY <1>3 DEF JournalOK, AbsentRoot
    <2> QED BY <1>3, <2>1, <2>2 DEF RootPhase
  <1>5. z.phase \in {"open", "closing", "closed"} BY <1>4
  <1>6. PhaseRank(j.phase) <= PhaseRank(z.phase)
    BY <1>4, <1>5 DEF PhaseRank
  <1>7. Advances(j, k) BY <1>1, <1>6, SettleAdvances
  <1>8. Proved(k) BY <1>1, SettleProves
  <1>9. k.revision # 0 /\ Newer(j, k) BY <1>2 DEF Wrote, Newer
  <1>10. k.phase = z.phase /\ k.exclusion = z.exclusion /\ k.scope = j.scope
        /\ k.step[z.step] = EndedRow(j, z) /\ \A x \in Step \ {z.step} : k.step[x] = j.step[x]
    BY <1>2 DEF Wrote
  <1>11. k.step[z.step].state = z.state BY <1>10 DEF EndedRow
  <1>12. \A x \in Step : k.step[x].state = "unknown" => x \in Decided BY <1>10, <1>11 DEF JournalOK
  <1>13. JournalOK(k) BY <1>2, <1>5, <1>8, <1>9, <1>10, <1>12 DEF JournalOK
  <1> QED BY <1>7, <1>9, <1>10, <1>11, <1>13 DEF Writes, WritesStep

\* Two writes in one transaction.
LEMMA WritesTwice ==
    ASSUME NEW j, NEW k, NEW l, NEW S, NEW T, JournalOK(j), Writes(j, k, S), Writes(k, l, T)
    PROVE  Writes(j, l, S \cup T)
  <1>1. JournalOK(l) /\ \A x \in Step \ (S \cup T) : l.step[x] = j.step[x] BY DEF Writes
  <1>2. Newer(j, l) BY DEF Writes, Newer
  <1>3. /\ j \in Root(Step, Output, Held) /\ k \in Root(Step, Output, Held) /\ l \in Root(Step, Output, Held)
    BY DEF Writes, JournalOK
  <1>4. /\ j.phase \in RootPhase /\ k.phase \in RootPhase /\ l.phase \in RootPhase
        /\ DOMAIN j.step = Step /\ DOMAIN k.step = Step
    BY <1>3, RootParts
  <1>5. Advances(j, k) /\ Advances(k, l) /\ Newer(j, k) /\ Newer(k, l) BY DEF Writes
  <1>6. k # j /\ l # k BY <1>5 DEF Newer
  <1>7. PhaseRank(j.phase) <= PhaseRank(l.phase)
    BY <1>4, <1>5, <1>6 DEF Advances, PhaseRank, RootPhase
  <1>8. j.phase # "closed" BY <1>5, <1>6 DEF Advances
  <1>9. \A x \in DOMAIN j.step : j.step[x].state \in Ended => l.step[x] = j.step[x]
    BY <1>4, <1>5, <1>6 DEF Advances
  <1>10. Advances(j, l) BY <1>2, <1>7, <1>8, <1>9 DEF Advances, Newer
  <1> QED BY <1>1, <1>2, <1>10 DEF Writes

\* Ending a step against a reading: if the settlement is admitted, the reading
\* is the present root, whose phase and exclusion therefore stay.
LEMMA EndingKeeps ==
    ASSUME JournalOK(journal), NEW s \in Step, NEW read, Current(read, journal),
           NEW state \in Ended, NEW outputs \in Output \cup {NoOutput},
           state = "unknown" => s \in Decided,
           CanSettle(journal, Ending(s, read, state, outputs))
    PROVE  /\ WritesStep(journal, Settle(journal, Ending(s, read, state, outputs)), s, state, journal.phase)
           /\ journal.phase \in {"open", "closing"}
  <1> DEFINE z == Ending(s, read, state, outputs)
  <1>1. z = [step |-> s, revision |-> read.revision, state |-> state, outputs |-> outputs,
             phase |-> read.phase, exclusion |-> read.exclusion]
    BY DEF Ending, Settlement
  <1>2. journal.revision = z.revision /\ journal.phase # "closed" /\ journal.step[z.step].state = "intent"
    BY DEF CanSettle
  <1>3. read.phase = journal.phase /\ read.exclusion = journal.exclusion BY <1>1, <1>2 DEF Current
  <1>4. journal \in Root(Step, Output, Held) BY DEF JournalOK
  <1>5. journal.phase \in RootPhase /\ journal.exclusion \in SUBSET Held BY <1>4, RootParts
  <1>6. journal.phase # "absent" BY <1>1, <1>2 DEF JournalOK, AbsentRoot
  <1>7. journal.phase \in {"open", "closing"} BY <1>2, <1>5, <1>6 DEF RootPhase
  <1>8. z.exclusion = Held /\ z.phase = journal.phase BY <1>1, <1>3, <1>7 DEF JournalOK
  <1>9. IsSettlement(z, Step, Output, Held) BY <1>1, <1>5, <1>8 DEF IsSettlement
  <1>10. z.step = s /\ z.state = state BY <1>1
  <1>11. WritesStep(journal, Settle(journal, z), z.step, z.state, z.phase)
    BY <1>8, <1>9, <1>10, SettleKeeps
  <1> QED BY <1>7, <1>8, <1>10, <1>11

\* The root is not written, or written apart from the effects and their results.
Apart(S) == \A i \in Call : Effect(i) \notin S /\ Consume(i) \notin S
WritesApart ==
    \/ journal' = journal
    \/ \E S : /\ Apart(S)
              /\ Writes(journal, journal', S)
              /\ journal'.phase = "closed" => attempt \in {"fenced", "restart"}

\* Every step of the executor.
LEMMA ExecutorWrites ==
    ASSUME TurnInv, ExecutorStep
    PROVE  WritesApart
  <1>0. JournalOK(journal) /\ Current(executor.read, journal) /\ executor \in ExecutorRow
    BY DEF TurnInv, ReadingsCurrent, TurnJournalTypeOK
  <1>a. \A s \in {Materialize, Terminal, Release, Interrupt} : Apart({s}) /\ s \in Step
    BY StepsDiffer, StepsKnown DEF Apart
  <1>b. \A s : Apart({Link(s)}) BY StepsDiffer DEF Apart
  <1>1. CASE Admit
    <2> DEFINE j0 == OpenRoot(journal, Held)
               j1 == Intend(j0, Materialize, "work", NoStep)
               j2 == Intend(j1, Terminal, "work", NoStep)
               j3 == Intend(j2, Release, "release", NoStep)
    <2>1. journal = AbsentRoot("workspace", Step) BY <1>0, <1>1 DEF Admit, JournalOK
    <2>2. journal' = j3 BY <1>1 DEF Admit
    <2>a. journal \in Root(Step, Output, Held) /\ journal.scope = "workspace" BY <1>0 DEF JournalOK
    <2>b. \A x \in Step : journal.step[x].state = "none" BY <2>1 DEF AbsentRoot
    <2>3. /\ j0.scope = "workspace" /\ j0.phase = "open" /\ j0.revision = 1 /\ j0.exclusion = Held
          /\ j0.step = journal.step
      BY <2>a DEF OpenRoot, Root
    <2>4. j0 \in Root(Step, Output, Held)
      BY <2>a DEF OpenRoot, Root, RootPhase
    <2>5. JournalOK(j0) BY <2>b, <2>3, <2>4 DEF JournalOK, Proved
    <2>6. Advances(journal, j0)
      <3>1. journal.revision = 0 /\ journal.phase = "absent" /\ DOMAIN journal.step = Step
            /\ \A x \in Step : journal.step[x].state = "none"
        BY <2>1 DEF AbsentRoot
      <3>2. PhaseRank(journal.phase) <= PhaseRank(j0.phase) BY <3>1, <2>3 DEF PhaseRank
      <3> QED BY <2>3, <3>1, <3>2 DEF Advances, Ended
    <2>7. Writes(journal, j0, {})
      <3>1. Newer(journal, j0) BY <2>1, <2>3 DEF Newer, AbsentRoot
      <3>2. \A x \in Step : j0.step[x] = journal.step[x] BY <2>1, <2>3 DEF AbsentRoot
      <3> QED BY <2>5, <2>6, <3>1, <3>2 DEF Writes
    <2>8. Materialize # Terminal /\ Materialize # Release /\ Terminal # Release
      BY DEF Materialize, Terminal, Release
    <2>9. {"work", "release"} \subseteq Kind BY DEF Kind
    <2>10. CanIntend(j0, Materialize, "work", NoStep) BY <1>a, <2>b, <2>3 DEF CanIntend
    <2>c. WritesStep(j0, j1, Materialize, "intent", j0.phase) BY <1>a, <2>5, <2>9, <2>10, IntendKeeps
    <2>11. Writes(j0, j1, {Materialize}) /\ j1.phase = "open" BY <2>3, <2>c DEF WritesStep
    <2>12. j1.step[Terminal].state = "none" /\ j1.step[Release].state = "none" /\ JournalOK(j1)
      BY <1>a, <2>b, <2>3, <2>8, <2>11 DEF Writes
    <2>13. CanIntend(j1, Terminal, "work", NoStep) BY <2>11, <2>12 DEF CanIntend
    <2>d. WritesStep(j1, j2, Terminal, "intent", j1.phase) BY <1>a, <2>9, <2>12, <2>13, IntendKeeps
    <2>14. Writes(j1, j2, {Terminal}) /\ j2.phase = "open" BY <2>11, <2>d DEF WritesStep
    <2>15. j2.step[Release].state = "none" /\ JournalOK(j2)
      BY <1>a, <2>8, <2>12, <2>14 DEF Writes
    <2>16. CanIntend(j2, Release, "release", NoStep) BY <2>14, <2>15 DEF CanIntend
    <2>e. WritesStep(j2, j3, Release, "intent", j2.phase) BY <1>a, <2>9, <2>15, <2>16, IntendKeeps
    <2>17. Writes(j2, j3, {Release}) /\ j3.phase = "open" BY <2>14, <2>e DEF WritesStep
    <2>18. Writes(journal, j1, {} \cup {Materialize}) BY <1>0, <2>7, <2>11, WritesTwice
    <2>19. Writes(journal, j2, {Materialize} \cup {Terminal}) BY <1>0, <2>14, <2>18, WritesTwice
    <2>20. Writes(journal, j3, ({Materialize} \cup {Terminal}) \cup {Release})
      BY <1>0, <2>17, <2>19, WritesTwice
    <2>21. Apart(({Materialize} \cup {Terminal}) \cup {Release}) BY <1>a DEF Apart
    <2> QED BY <2>2, <2>17, <2>20, <2>21 DEF WritesApart
  <1>2. CASE MaterializeSettle
    <2> DEFINE out == IF executor.state = "completed" THEN "result" ELSE NoOutput
               z == Ending(Materialize, executor.read, executor.state, out)
    <2>1. journal' = IF CanSettle(journal, z) THEN Settle(journal, z) ELSE journal
      BY <1>2 DEF MaterializeSettle
    <2>2. executor.state \in Ended /\ out \in Output \cup {NoOutput}
      BY <1>0, <1>2 DEF MaterializeSettle, TurnInv, ExecutorInv, ExecutorRow, Ended, State, Output
    <2>3. CanSettle(journal, z) => /\ Writes(journal, Settle(journal, z), {Materialize})
                                   /\ Settle(journal, z).phase # "closed"
      BY <1>0, <1>a, <2>2, StepsKnown, EndingKeeps DEF WritesStep
    <2> QED BY <1>a, <2>1, <2>3 DEF WritesApart
  <1>3. CASE LinkBegin
    <2>1. Oldest \in executor.todo BY <1>3 DEF LinkBegin, Oldest
    <2>2. Oldest \in Decided BY <2>1 DEF TurnInv, ExecutorInv
    <2>3. Link(Oldest) \in Step /\ Oldest \in Step BY <2>2, StepsKnown
    <2>4. "inspect-cleanup" \in Kind BY DEF Kind
    <2>5. WritesStep(journal, journal', Link(Oldest), "intent", journal.phase)
      BY <1>0, <1>3, <2>3, <2>4, IntendKeeps DEF LinkBegin
    <2>6. journal.phase # "closed" BY <1>3 DEF LinkBegin, CanIntend
    <2> QED BY <1>b, <2>5, <2>6 DEF WritesApart, WritesStep
  <1>4. CASE LinkSettle
    <2> DEFINE z == Ending(Link(Oldest), executor.read, "completed", "fence")
    <2>1. journal' = journal \/ (CanSettle(journal, z) /\ journal' = Settle(journal, z))
      BY <1>4 DEF LinkSettle
    <2>2. executor.todo # {} BY <1>4 DEF LinkSettle, TurnInv, ExecutorInv
    <2>3. Oldest \in Decided BY <2>2 DEF Oldest, TurnInv, ExecutorInv
    <2>4. Link(Oldest) \in Step BY <2>3, StepsKnown
    <2>5. "completed" \in Ended /\ "fence" \in Output BY DEF Ended, State, Output
    <2>6. CanSettle(journal, z) => /\ Writes(journal, Settle(journal, z), {Link(Oldest)})
                                   /\ Settle(journal, z).phase # "closed"
      BY <1>0, <2>4, <2>5, EndingKeeps DEF WritesStep
    <2> QED BY <1>b, <2>1, <2>6 DEF WritesApart
  <1>5. CASE ReleaseSettle
    <2> DEFINE z == ReleaseSettlement
    <2>1. journal' = IF CanSettle(journal, z) THEN Settle(journal, z) ELSE journal
      BY <1>5 DEF ReleaseSettle
    <2>2. z = [step |-> Release, revision |-> executor.read.revision, state |-> "completed",
               outputs |-> "fence", phase |-> IF executor.close THEN "closed" ELSE "closing",
               exclusion |-> IF executor.close THEN {} ELSE executor.read.exclusion]
      BY DEF ReleaseSettlement, Settlement
    <2>3. SUFFICES ASSUME CanSettle(journal, z) PROVE Writes(journal, Settle(journal, z), {Release})
      <3>1. attempt = "fenced" BY <1>5 DEF ReleaseSettle, TurnInv, ExecutorInv
      <3> QED BY <1>a, <2>1, <3>1 DEF WritesApart
    <2>4. /\ z.step = Release /\ z.state = "completed" /\ z.outputs = "fence"
          /\ z.phase \in {"closed", "closing"}
          /\ z.phase = "closed" => z.exclusion = {}
          /\ z.phase # "closed" => z.exclusion = executor.read.exclusion
          /\ z.revision = executor.read.revision
      BY <2>2
    <2>5. journal.revision = z.revision /\ journal.phase # "closed" /\ journal.step[z.step].state = "intent"
      BY <2>3 DEF CanSettle
    <2>6. executor.read.exclusion = journal.exclusion BY <1>0, <2>4, <2>5 DEF Current
    <2>7. journal.phase \in {"open", "closing"}
      <3>1. journal \in Root(Step, Output, Held) BY <1>0 DEF JournalOK
      <3>2. journal.phase \in RootPhase BY <3>1, RootParts
      <3>3. journal.phase # "absent" BY <1>0, <1>a, <2>4, <2>5 DEF JournalOK, AbsentRoot
      <3> QED BY <2>5, <3>2, <3>3 DEF RootPhase
    <2>8. z.phase # "closed" => z.exclusion = Held BY <1>0, <2>4, <2>6, <2>7 DEF JournalOK
    <2>9. IsSettlement(z, Step, Output, Held)
      BY <1>a, <2>4, <2>8 DEF IsSettlement, RootPhase, Ended, State, Output
    <2>10. Writes(journal, Settle(journal, z), {z.step})
      BY <1>0, <2>3, <2>4, <2>8, <2>9, SettleKeeps DEF WritesStep
    <2> QED BY <2>4, <2>10
  <1>6. CASE UNCHANGED journal BY <1>6 DEF WritesApart
  <1> QED
    BY <1>1, <1>2, <1>3, <1>4, <1>5, <1>6
    DEF ExecutorStep, MaterializeRead, ExecutorEnds, RefuseAttempt, ReleaseTerminalAttempt,
        ReleaseRead, LinkRead, LastRead

\* Stop, the publishers and recovery.
LEMMA OtherWrites ==
    ASSUME TurnInv, OtherStep
    PROVE  WritesApart
  <1>0. JournalOK(journal) /\ Current(interrupt.read, journal) /\ interrupt \in InterruptRow
    BY DEF TurnInv, ReadingsCurrent, TurnJournalTypeOK
  <1>a. \A s \in {Materialize, Terminal, Release, Interrupt} : Apart({s}) /\ s \in Step
    BY StepsDiffer, StepsKnown DEF Apart
  <1>b. journal \in Root(Step, Output, Held) BY <1>0 DEF JournalOK
  <1>c. journal.phase \in RootPhase /\ journal.exclusion \in SUBSET Held BY <1>b, RootParts
  <1>1. CASE InterruptBegin
    <2>1. "work" \in Kind BY DEF Kind
    <2>2. WritesStep(journal, journal', Interrupt, "intent", journal.phase)
      BY <1>0, <1>1, <1>a, <2>1, IntendKeeps DEF InterruptBegin
    <2>3. journal.phase # "closed" BY <1>1 DEF InterruptBegin, CanIntend
    <2> QED BY <1>a, <2>2, <2>3 DEF WritesApart, WritesStep
  <1>2. CASE InterruptSettle
    <2> DEFINE z == Ending(Interrupt, interrupt.read, interrupt.state, NoOutput)
    <2>1. journal' = IF CanSettle(journal, z) THEN Settle(journal, z) ELSE journal
      BY <1>2 DEF InterruptSettle
    <2>2. interrupt.state \in Ended
      BY <1>0, <1>2 DEF InterruptSettle, TurnInv, CallsInv, InterruptRow
    <2>3. CanSettle(journal, z) => /\ Writes(journal, Settle(journal, z), {Interrupt})
                                   /\ Settle(journal, z).phase # "closed"
      BY <1>0, <1>a, <2>2, StepsKnown, EndingKeeps DEF WritesStep
    <2> QED BY <1>a, <2>1, <2>3 DEF WritesApart
  <1>3. CASE PublishCommit
    <2> DEFINE z == Settlement(Terminal, publisher.revision, "completed", "result", "closing", journal.exclusion)
    <2>1. journal' = journal \/ (CanSettle(journal, z) /\ journal' = Settle(journal, z))
      BY <1>3 DEF PublishCommit
    <2>2. SUFFICES ASSUME CanSettle(journal, z)
                   PROVE  WritesStep(journal, Settle(journal, z), Terminal, "completed", "closing")
      BY <1>a, <2>1 DEF WritesApart, WritesStep
    <2>3. z.step = Terminal /\ z.state = "completed" /\ z.outputs = "result" /\ z.phase = "closing"
          /\ z.exclusion = journal.exclusion
      BY DEF Settlement
    <2>4. journal.phase # "closed" /\ journal.step[Terminal].state = "intent" BY <2>2, <2>3 DEF CanSettle
    <2>5. journal.phase # "absent" BY <1>0, <1>a, <2>4 DEF JournalOK, AbsentRoot
    <2>6. z.exclusion = Held BY <1>0, <1>c, <2>3, <2>4, <2>5 DEF JournalOK, RootPhase
    <2>7. IsSettlement(z, Step, Output, Held)
      BY <1>a, <1>c, <2>3 DEF IsSettlement, RootPhase, Ended, State, Output
    <2> QED BY <1>0, <2>2, <2>3, <2>6, <2>7, SettleKeeps
  <1>4. ASSUME NEW s \in {Materialize, Release}, CancelObligation(s) PROVE WritesApart
    <2> DEFINE z == Settlement(s, journal.revision, "cancelled", NoOutput,
                               IF s = Release THEN "closed" ELSE "closing",
                               IF s = Release THEN {} ELSE journal.exclusion)
    <2>1. CanSettle(journal, z) /\ journal' = Settle(journal, z) /\ attempt = "restart"
          /\ journal.phase = "closing"
      BY <1>4 DEF CancelObligation
    <2>2. z.step = s /\ z.state = "cancelled" /\ z.outputs = NoOutput /\ z.phase \in {"closed", "closing"}
          /\ (z.phase = "closed" => z.exclusion = {})
          /\ (z.phase # "closed" => z.exclusion = journal.exclusion)
      BY DEF Settlement
    <2>3. z.phase # "closed" => z.exclusion = Held BY <1>0, <2>1, <2>2 DEF JournalOK
    <2>4. s \in Step /\ Apart({s}) BY <1>a
    <2>5. IsSettlement(z, Step, Output, Held)
      BY <2>2, <2>3, <2>4 DEF IsSettlement, RootPhase, Ended, State
    <2>6. WritesStep(journal, journal', s, "cancelled", z.phase)
      BY <1>0, <2>1, <2>2, <2>3, <2>5, SettleKeeps
    <2> QED BY <2>1, <2>4, <2>6 DEF WritesApart, WritesStep
  <1>5. CASE UNCHANGED journal BY <1>5 DEF WritesApart
  <1> QED
    BY <1>1, <1>2, <1>3, <1>4, <1>5
    DEF OtherStep, InterruptRead, MarkClosing, PublishRead, NativeFence, Crash, Resume, RestartClose

\* The caller of an effect writes that effect only: its intent, or an outcome
\* that is a failure only if nothing was sent.
LEMMA CallerWrites ==
    ASSUME TurnInv, NEW i \in Call, CallerStep(i)
    PROVE  \/ journal' = journal
           \/ \E state \in {"intent", "unknown", "failed"} :
                 /\ WritesStep(journal, journal', Effect(i), state, journal.phase)
                 /\ journal.phase # "closed"
                 /\ host' = host
                 /\ state = "failed" => host[i] = "none"
  <1>0. /\ JournalOK(journal) /\ Current(call[i].read, journal) /\ call[i] \in CallRow
        /\ Effect(i) \in Step /\ Effect(i) \in Decided
    BY StepsKnown DEF TurnInv, ReadingsCurrent, TurnJournalTypeOK
  <1>1. CASE Begin(i)
    <2>1. call[i].kind \in Kind BY <1>0 DEF CallRow
    <2>2. CASE CanIntend(journal, Effect(i), call[i].kind, NoStep)
      <3>1. WritesStep(journal, journal', Effect(i), "intent", journal.phase)
        BY <1>0, <1>1, <2>1, <2>2, IntendKeeps DEF Begin
      <3>2. journal.phase # "closed" BY <2>2 DEF CanIntend
      <3> QED BY <1>1, <3>1, <3>2 DEF Begin
    <2> QED BY <1>1, <2>2 DEF Begin
  <1>2. CASE EndCall(i)
    <2> DEFINE z == Ending(Effect(i), call[i].read, call[i].state, NoOutput)
    <2>1. journal' = (IF CanSettle(journal, z) THEN Settle(journal, z) ELSE journal) /\ host' = host
          /\ call[i].pc = "ending"
      BY <1>2 DEF EndCall
    <2>2. call[i].state \in {"failed", "unknown"} /\ (call[i].state = "failed" => host[i] = "none")
      BY <1>0, <2>1 DEF TurnInv, CallsInv, CallRow
    <2>3. call[i].state \in Ended BY <2>2 DEF Ended, State
    <2>4. CanSettle(journal, z) =>
             /\ WritesStep(journal, Settle(journal, z), Effect(i), call[i].state, journal.phase)
             /\ journal.phase # "closed"
      BY <1>0, <2>3, EndingKeeps
    <2> QED BY <2>1, <2>2, <2>4
  <1>3. CASE UNCHANGED journal BY <1>3
  <1> QED BY <1>1, <1>2, <1>3 DEF CallerStep, Plan, Deliver, GiveUp

\* The receiver writes the host's result and its consumption.
LEMMA ReceiverWrites ==
    ASSUME TurnInv, NEW i \in Call, ReceiverStep(i)
    PROVE  \/ journal' = journal
           \/ \E S \in SUBSET {Effect(i), Consume(i)} :
                 /\ Writes(journal, journal', S)
                 /\ journal'.phase = journal.phase
                 /\ journal.phase # "closed"
                 /\ host' = host
                 /\ host[i] \in {"done", "failed"}
                 /\ Effect(i) \in S => journal'.step[Effect(i)].state = ResultOf(i)
  <1>0. /\ JournalOK(journal) /\ Current(receipt[i].read, journal)
        /\ Effect(i) \in Step /\ Consume(i) \in Step /\ Effect(i) # Consume(i)
    BY StepsKnown, StepsDiffer DEF TurnInv, ReadingsCurrent
  <1>a. "consume-receipt" \in Kind /\ "result" \in Output /\ "completed" \in Ended
    BY DEF Kind, Output, Ended, State
  <1>1. CASE SettleResult(i)
    <2> DEFINE z == Ending(Effect(i), receipt[i].read, ResultOf(i), "result")
               j1 == Settle(journal, z)
               j2 == Intend(j1, Consume(i), "consume-receipt", Effect(i))
    <2>1. host' = host /\ host[i] \in {"done", "failed"}
      BY <1>1 DEF SettleResult, TurnInv, CallsInv
    <2>2. \/ journal' = journal
          \/ /\ CanSettle(journal, z) /\ CanIntend(j1, Consume(i), "consume-receipt", Effect(i))
             /\ journal' = j2
      BY <1>1 DEF SettleResult
    <2>3. ResultOf(i) \in Ended /\ ResultOf(i) # "unknown" BY DEF ResultOf, Ended, State
    <2>4. ASSUME CanSettle(journal, z), CanIntend(j1, Consume(i), "consume-receipt", Effect(i))
          PROVE  /\ Writes(journal, j2, {Effect(i), Consume(i)})
                 /\ j2.phase = journal.phase /\ journal.phase # "closed"
                 /\ j2.step[Effect(i)].state = ResultOf(i)
      <3>1. WritesStep(journal, j1, Effect(i), ResultOf(i), journal.phase)
            /\ journal.phase \in {"open", "closing"}
        BY <1>0, <1>a, <2>3, <2>4, EndingKeeps
      <3>2. JournalOK(j1) /\ Writes(journal, j1, {Effect(i)}) /\ j1.phase = journal.phase
            /\ j1.step[Effect(i)].state = ResultOf(i)
        BY <3>1 DEF WritesStep, Writes
      <3>3. WritesStep(j1, j2, Consume(i), "intent", j1.phase)
        BY <1>0, <1>a, <2>4, <3>2, IntendKeeps
      <3>4. Writes(j1, j2, {Consume(i)}) /\ j2.phase = journal.phase BY <3>2, <3>3 DEF WritesStep
      <3>5. Writes(journal, j2, {Effect(i)} \cup {Consume(i)}) BY <1>0, <3>2, <3>4, WritesTwice
      <3>6. j2.step[Effect(i)] = j1.step[Effect(i)] BY <1>0, <3>4 DEF Writes
      <3>7. {Effect(i)} \cup {Consume(i)} = {Effect(i), Consume(i)} OBVIOUS
      <3> QED BY <3>1, <3>2, <3>4, <3>5, <3>6, <3>7
    <2> QED BY <2>1, <2>2, <2>4
  <1>2. CASE LinkResult(i)
    <2>1. host' = host /\ host[i] \in {"done", "failed"}
      BY <1>2 DEF LinkResult, TurnInv, CallsInv
    <2>2. \/ journal' = journal
          \/ /\ CanIntend(journal, Consume(i), "consume-receipt", Effect(i))
             /\ journal' = Intend(journal, Consume(i), "consume-receipt", Effect(i))
      BY <1>2 DEF LinkResult
    <2>3. ASSUME CanIntend(journal, Consume(i), "consume-receipt", Effect(i)),
                 journal' = Intend(journal, Consume(i), "consume-receipt", Effect(i))
          PROVE  /\ Writes(journal, journal', {Consume(i)})
                 /\ journal'.phase = journal.phase /\ journal.phase # "closed"
      <3>1. WritesStep(journal, journal', Consume(i), "intent", journal.phase)
        BY <1>0, <1>a, <2>3, IntendKeeps
      <3>2. journal.phase # "closed" BY <2>3 DEF CanIntend
      <3> QED BY <3>1, <3>2 DEF WritesStep
    <2> QED BY <1>0, <2>1, <2>2, <2>3
  <1>3. CASE EndConsume(i)
    <2> DEFINE z == Ending(Consume(i), receipt[i].read, "completed", "result")
    <2>1. host' = host /\ host[i] \in {"done", "failed"}
      BY <1>3 DEF EndConsume, TurnInv, CallsInv
    <2>2. journal' = journal \/ (CanSettle(journal, z) /\ journal' = Settle(journal, z))
      BY <1>3 DEF EndConsume
    <2>3. CanSettle(journal, z) => /\ WritesStep(journal, Settle(journal, z), Consume(i), "completed", journal.phase)
                                   /\ journal.phase # "closed"
      BY <1>0, <1>a, EndingKeeps
    <2> QED BY <1>0, <2>1, <2>2, <2>3 DEF WritesStep
  <1>4. CASE UNCHANGED journal BY <1>4
  <1> QED BY <1>1, <1>2, <1>3, <1>4 DEF ReceiverStep, Receive, ConsumeRead

\* Every step of the system leaves the root alone or writes it in order.
Moves == journal' = journal \/ \E S : Writes(journal, journal', S)

\* Every step of the Turn leaves the root alone, or writes it by the journal's rules.
LEMMA EveryStepMoves ==
    ASSUME TurnInv, Next
    PROVE  Moves
  <1>1. CASE ExecutorStep BY <1>1, ExecutorWrites DEF WritesApart, Moves
  <1>2. CASE OtherStep BY <1>2, OtherWrites DEF WritesApart, Moves
  <1>3. ASSUME NEW i \in Call, CallerStep(i) PROVE Moves BY <1>3, CallerWrites DEF WritesStep, Moves
  <1>4. ASSUME NEW i \in Call, ReceiverStep(i) PROVE Moves BY <1>4, ReceiverWrites DEF Moves
  <1>5. ASSUME NEW i \in Call, NEW end \in {"done", "failed"}, HostEnds(i, end) PROVE Moves
    BY <1>5 DEF HostEnds, Moves
  <1> QED BY <1>1, <1>2, <1>3, <1>4, <1>5 DEF Next

-----------------------------------------------------------------------------
(* The writers *)

\* A reading, and its absence, are readings.
LEMMA ReadingTypes ==
    ASSUME JournalOK(journal)
    PROVE  Read \in Reading /\ Unread \in Reading
  <1>1. journal \in Root(Step, Output, Held) BY DEF JournalOK
  <1>2. journal.phase \in RootPhase /\ journal.revision \in Nat /\ journal.exclusion \in SUBSET Held
    BY <1>1, RootParts
  <1> QED BY <1>2 DEF Read, Unread, Reading, RootPhase

\* Types of everything but the journal.
WriterTypes ==
    /\ attempt \in AttemptState
    /\ host \in [Call -> HostEffect]
    /\ call \in [Call -> CallRow]
    /\ receipt \in [Call -> ReceiptRow]
    /\ interrupt \in InterruptRow
    /\ executor \in ExecutorRow
    /\ publisher \in Reading
    /\ crashes \in 0..MaxCrash

\* The writers at rest are well typed.
LEMMA IdleTypes ==
    ASSUME JournalOK(journal)
    PROVE  /\ IdleCall \in CallRow /\ IdleReceipt \in ReceiptRow
           /\ IdleInterrupt \in InterruptRow /\ IdleExecutor \in ExecutorRow
  BY ReadingTypes DEF IdleCall, IdleReceipt, IdleInterrupt, IdleExecutor, CallRow, ReceiptRow,
     InterruptRow, ExecutorRow, Kind

\* Every step keeps the writers' types.
LEMMA WriterTypesKept ==
    ASSUME TurnInv, Next
    PROVE  WriterTypes'
  <1> USE DEF WriterTypes
  <1>0. WriterTypes /\ JournalOK(journal) /\ Read \in Reading /\ Unread \in Reading
    BY ReadingTypes DEF TurnInv, TurnJournalTypeOK
  <1>a. /\ IdleCall \in CallRow /\ IdleReceipt \in ReceiptRow
        /\ IdleInterrupt \in InterruptRow /\ IdleExecutor \in ExecutorRow
    BY <1>0, IdleTypes
  <1>1. CASE ExecutorStep
    <2>1. CASE Admit BY <1>0, <2>1 DEF Admit, ExecutorRow
    <2>2. ASSUME NEW state \in {"completed", "unknown"}, MaterializeRead(state) PROVE WriterTypes'
      BY <1>0, <2>2 DEF MaterializeRead, ExecutorRow
    <2>3. CASE MaterializeSettle BY <1>0, <1>a, <2>3 DEF MaterializeSettle, ExecutorRow
    <2>4. CASE ExecutorEnds BY <1>0, <1>a, <2>4 DEF ExecutorEnds
    <2>5. CASE RefuseAttempt BY <1>0, <1>a, <2>5 DEF RefuseAttempt, AttemptState
    <2>6. CASE ReleaseTerminalAttempt BY <1>0, <2>6 DEF ReleaseTerminalAttempt, ExecutorRow, AttemptState
    <2>7. CASE ReleaseRead
      <3>1. StepsIn(journal, "unknown") \subseteq Step
        BY <1>0, RootParts DEF StepsIn, JournalOK
      <3> QED BY <1>0, <2>7, <3>1 DEF ReleaseRead, ExecutorRow
    <2>8. CASE LinkBegin BY <1>0, <2>8 DEF LinkBegin, ExecutorRow
    <2>9. CASE LinkRead BY <1>0, <2>9 DEF LinkRead, ExecutorRow
    <2>10. CASE LinkSettle
      <3>1. [executor EXCEPT !.pc = "linking", !.todo = @ \ {Oldest}, !.read = Unread] \in ExecutorRow
        BY <1>0 DEF ExecutorRow
      <3>2. executor' \in ExecutorRow BY <1>a, <2>10, <3>1 DEF LinkSettle
      <3> QED BY <1>0, <2>10, <3>2 DEF LinkSettle
    <2>11. CASE LastRead BY <1>0, <2>11 DEF LastRead, ExecutorRow
    <2>12. CASE ReleaseSettle BY <1>0, <1>a, <2>12 DEF ReleaseSettle
    <2> QED BY <1>1, <2>1, <2>2, <2>3, <2>4, <2>5, <2>6, <2>7, <2>8, <2>9, <2>10, <2>11, <2>12
        DEF ExecutorStep
  <1>2. ASSUME NEW i \in Call, CallerStep(i) PROVE WriterTypes'
    <2>0. call[i] \in CallRow BY <1>0
    <2>1. ASSUME NEW kind \in {"work", "inspect-cleanup"}, Plan(i, kind) PROVE WriterTypes'
      BY <1>0, <2>1 DEF Plan, CallRow, Kind
    <2>2. CASE Begin(i) BY <1>0, <2>2 DEF Begin, CallRow
    <2>3. CASE Deliver(i) BY <1>0, <2>3 DEF Deliver, CallRow, HostEffect
    <2>4. CASE GiveUp(i)
      <3>1. [call[i] EXCEPT !.pc = "done"] \in CallRow BY <2>0 DEF CallRow
      <3>2. \A state \in GiveUpOutcome(i) :
               [call[i] EXCEPT !.pc = "ending", !.state = state, !.read = Read] \in CallRow
        BY <1>0, <2>0 DEF CallRow, GiveUpOutcome
      <3>3. \E row \in CallRow : call' = [call EXCEPT ![i] = row] BY <2>4, <3>1, <3>2 DEF GiveUp
      <3>4. call' \in [Call -> CallRow] BY <1>0, <3>3
      <3> QED BY <1>0, <2>4, <3>4 DEF GiveUp
    <2>5. CASE EndCall(i) BY <1>0, <1>a, <2>5 DEF EndCall, CallRow
    <2> QED BY <1>2, <2>1, <2>2, <2>3, <2>4, <2>5 DEF CallerStep
  <1>3. ASSUME NEW i \in Call, ReceiverStep(i) PROVE WriterTypes'
    <2>0. receipt[i] \in ReceiptRow BY <1>0
    <2>a. /\ [pc |-> "settle", seen |-> TRUE, read |-> Read] \in ReceiptRow
          /\ [pc |-> "link", seen |-> TRUE, read |-> Unread] \in ReceiptRow
          /\ [pc |-> "consume", seen |-> TRUE, read |-> Unread] \in ReceiptRow
      BY <1>0 DEF ReceiptRow
    <2>b. /\ [IdleReceipt EXCEPT !.seen = TRUE] \in ReceiptRow
          /\ [receipt[i] EXCEPT !.pc = "consume"] \in ReceiptRow
          /\ [receipt[i] EXCEPT !.pc = "acked"] \in ReceiptRow
          /\ [receipt[i] EXCEPT !.pc = "consume", !.read = Unread] \in ReceiptRow
          /\ [receipt[i] EXCEPT !.pc = "ending", !.read = Read] \in ReceiptRow
          /\ [receipt[i] EXCEPT !.pc = "acked", !.read = Unread] \in ReceiptRow
      BY <1>0, <1>a, <2>0 DEF ReceiptRow
    <2>c. ASSUME \E row \in ReceiptRow : receipt' = [receipt EXCEPT ![i] = row]
          PROVE  receipt' \in [Call -> ReceiptRow]
      BY <1>0, <2>c
    <2>1. CASE Receive(i)
      <3>1. receipt' \in [Call -> ReceiptRow] BY <2>1, <2>a, <2>c DEF Receive
      <3> QED BY <1>0, <2>1, <3>1 DEF Receive
    <2>2. CASE SettleResult(i)
      <3>1. receipt' \in [Call -> ReceiptRow] BY <2>2, <2>b, <2>c DEF SettleResult, ReceiptFails
      <3> QED BY <1>0, <2>2, <3>1 DEF SettleResult
    <2>3. CASE LinkResult(i)
      <3>1. receipt' \in [Call -> ReceiptRow] BY <2>3, <2>b, <2>c DEF LinkResult, ReceiptFails
      <3> QED BY <1>0, <2>3, <3>1 DEF LinkResult
    <2>4. CASE ConsumeRead(i)
      <3>1. receipt' \in [Call -> ReceiptRow] BY <2>4, <2>b, <2>c DEF ConsumeRead
      <3> QED BY <1>0, <2>4, <3>1 DEF ConsumeRead
    <2>5. CASE EndConsume(i)
      <3>1. receipt' \in [Call -> ReceiptRow] BY <2>5, <2>b, <2>c DEF EndConsume, ReceiptFails
      <3> QED BY <1>0, <2>5, <3>1 DEF EndConsume
    <2> QED BY <1>3, <2>1, <2>2, <2>3, <2>4, <2>5 DEF ReceiverStep
  <1>4. ASSUME NEW i \in Call, NEW end \in {"done", "failed"}, HostEnds(i, end) PROVE WriterTypes'
    BY <1>0, <1>4 DEF HostEnds, HostEffect
  <1>5. CASE OtherStep
    <2>1. CASE InterruptBegin BY <1>0, <2>1 DEF InterruptBegin, InterruptRow
    <2>2. ASSUME NEW state \in {"completed", "failed", "unknown"}, InterruptRead(state) PROVE WriterTypes'
      BY <1>0, <2>2 DEF InterruptRead, InterruptRow, Ended, State
    <2>3. CASE InterruptSettle BY <1>0, <1>a, <2>3 DEF InterruptSettle, InterruptRow
    <2>4. CASE MarkClosing BY <1>0, <2>4 DEF MarkClosing, AttemptState
    <2>5. CASE PublishRead BY <1>0, <2>5 DEF PublishRead
    <2>6. CASE PublishCommit BY <1>0, <2>6 DEF PublishCommit
    <2>7. CASE NativeFence BY <1>0, <2>7 DEF NativeFence, AttemptState
    <2>8. CASE Crash
      <3>1. crashes' \in 0..MaxCrash BY <1>0, <2>8, TurnJournalAssumption DEF Crash
      <3>2. call' \in [Call -> CallRow] BY <1>a, <2>8 DEF Crash, CallRow
      <3>3. receipt' \in [Call -> ReceiptRow] BY <1>a, <2>8 DEF Crash, ReceiptRow
      <3>4. interrupt' \in InterruptRow BY <1>a, <2>8 DEF Crash, InterruptRow
      <3> QED BY <1>0, <1>a, <2>8, <3>1, <3>2, <3>3, <3>4 DEF Crash
    <2>9. CASE Resume BY <1>0, <2>9 DEF Resume, ExecutorRow
    <2>10. CASE RestartClose BY <1>0, <2>10 DEF RestartClose, AttemptState
    <2>11. ASSUME NEW s \in {Materialize, Release}, CancelObligation(s) PROVE WriterTypes'
      BY <1>0, <2>11 DEF CancelObligation
    <2> QED BY <1>5, <2>1, <2>2, <2>3, <2>4, <2>5, <2>6, <2>7, <2>8, <2>9, <2>10, <2>11 DEF OtherStep
  <1> QED BY <1>1, <1>2, <1>3, <1>4, <1>5 DEF Next

\* No step makes a reading wrong: the root stays as it is or becomes newer.
LEMMA CurrentStays ==
    ASSUME JournalOK(journal), Moves, NEW r \in Reading, Current(r, journal)
    PROVE  Current(r, journal')
  <1>1. r.revision \in Nat BY DEF Reading
  <1>2. CASE journal' = journal BY <1>2
  <1>3. ASSUME NEW S, Writes(journal, journal', S) PROVE Current(r, journal')
    BY <1>1, <1>3 DEF Writes, Newer, Current
  <1> QED BY <1>2, <1>3 DEF Moves

\* What a step leaves in a writer's hands is what it held, a reading taken in
\* this state, or nothing.
Taken(old, new) == new \in {old, Read, Unread}

\* A writer's reading changes only by reading the root as it is.
LEMMA ReadingsTaken ==
    ASSUME TurnInv, Next
    PROVE  /\ \A k \in Call : /\ Taken(call[k].read, call'[k].read)
                              /\ Taken(receipt[k].read, receipt'[k].read)
           /\ Taken(interrupt.read, interrupt'.read)
           /\ Taken(executor.read, executor'.read)
           /\ Taken(publisher, publisher')
  <1> DEFINE Goal == /\ \A k \in Call : /\ Taken(call[k].read, call'[k].read)
                                        /\ Taken(receipt[k].read, receipt'[k].read)
                     /\ Taken(interrupt.read, interrupt'.read)
                     /\ Taken(executor.read, executor'.read)
                     /\ Taken(publisher, publisher')
  <1> USE DEF Taken
  <1>0. /\ call \in [Call -> CallRow] /\ receipt \in [Call -> ReceiptRow]
        /\ interrupt \in InterruptRow /\ executor \in ExecutorRow
    BY DEF TurnInv, TurnJournalTypeOK
  <1>a. /\ IdleCall.read = Unread /\ IdleReceipt.read = Unread
        /\ IdleInterrupt.read = Unread /\ IdleExecutor.read = Unread
    BY DEF IdleCall, IdleReceipt, IdleInterrupt, IdleExecutor
  <1>1. CASE ExecutorStep
    <2>1. UNCHANGED <<call, receipt, interrupt, publisher>>
      BY <1>1 DEF ExecutorStep, Admit, MaterializeRead, MaterializeSettle, ExecutorEnds, RefuseAttempt,
         ReleaseTerminalAttempt, ReleaseRead, LinkBegin, LinkRead, LinkSettle, LastRead, ReleaseSettle
    <2>2. CASE Admit \/ ReleaseTerminalAttempt \/ ReleaseRead \/ LinkBegin
      BY <1>0, <2>1, <2>2 DEF Admit, ReleaseTerminalAttempt, ReleaseRead, LinkBegin, ExecutorRow
    <2>3. CASE (\E state \in {"completed", "unknown"} : MaterializeRead(state)) \/ LinkRead \/ LastRead
      BY <1>0, <2>1, <2>3 DEF MaterializeRead, LinkRead, LastRead, ExecutorRow
    <2>4. CASE MaterializeSettle
      <3>1. executor'.read = Unread BY <2>4 DEF MaterializeSettle, IdleExecutor
      <3> QED BY <2>1, <3>1
    <2>5. CASE ExecutorEnds \/ RefuseAttempt \/ ReleaseSettle
      BY <1>a, <2>1, <2>5 DEF ExecutorEnds, RefuseAttempt, ReleaseSettle
    <2>6. CASE LinkSettle
      <3>1. executor' = IdleExecutor \/ executor'.read = Unread BY <1>0, <2>6 DEF LinkSettle, ExecutorRow
      <3> QED BY <1>a, <2>1, <3>1
    <2> QED BY <1>1, <2>2, <2>3, <2>4, <2>5, <2>6 DEF ExecutorStep
  <1>2. ASSUME NEW i \in Call, CallerStep(i) PROVE Goal
    <2>1. UNCHANGED <<receipt, interrupt, executor, publisher>>
      BY <1>2 DEF CallerStep, Plan, Begin, Deliver, GiveUp, EndCall
    <2>2. \E row : call' = [call EXCEPT ![i] = row] /\ Taken(call[i].read, row.read)
      <3>0. call[i] \in CallRow BY <1>0
      <3>1. CASE \E kind \in {"work", "inspect-cleanup"} : Plan(i, kind)
        <4>1. PICK kind \in {"work", "inspect-cleanup"} : Plan(i, kind) BY <3>1
        <4>2. [call[i] EXCEPT !.pc = "planned", !.kind = kind].read = call[i].read BY <3>0 DEF CallRow
        <4> QED BY <4>1, <4>2 DEF Plan
      <3>2. CASE Begin(i)
        <4>1. /\ [call[i] EXCEPT !.pc = "begun"].read = call[i].read
              /\ [call[i] EXCEPT !.pc = "done"].read = call[i].read
          BY <3>0 DEF CallRow
        <4> QED BY <3>2, <4>1 DEF Begin
      <3>3. CASE Deliver(i)
        <4>1. [call[i] EXCEPT !.pc = "waiting"].read = call[i].read BY <3>0 DEF CallRow
        <4> QED BY <3>3, <4>1 DEF Deliver
      <3>4. CASE GiveUp(i)
        <4>1. /\ [call[i] EXCEPT !.pc = "done"].read = call[i].read
              /\ \A state : [call[i] EXCEPT !.pc = "ending", !.state = state, !.read = Read].read = Read
          BY <3>0 DEF CallRow
        <4> QED BY <3>4, <4>1 DEF GiveUp
      <3>5. CASE EndCall(i)
        <4>1. [IdleCall EXCEPT !.pc = "done"].read = Unread BY DEF IdleCall
        <4> QED BY <3>5, <4>1 DEF EndCall
      <3> QED BY <1>2, <3>1, <3>2, <3>3, <3>4, <3>5 DEF CallerStep
    <2> QED BY <1>0, <2>1, <2>2
  <1>3. ASSUME NEW i \in Call, ReceiverStep(i) PROVE Goal
    <2>1. UNCHANGED <<call, interrupt, executor, publisher>>
      BY <1>3 DEF ReceiverStep, Receive, SettleResult, LinkResult, ConsumeRead, EndConsume
    <2>2. \E row : receipt' = [receipt EXCEPT ![i] = row] /\ Taken(receipt[i].read, row.read)
      <3>0. receipt[i] \in ReceiptRow BY <1>0
      <3>a. /\ [IdleReceipt EXCEPT !.seen = TRUE].read = Unread
            /\ [receipt[i] EXCEPT !.pc = "consume"].read = receipt[i].read
            /\ [receipt[i] EXCEPT !.pc = "acked"].read = receipt[i].read
            /\ [receipt[i] EXCEPT !.pc = "consume", !.read = Unread].read = Unread
            /\ [receipt[i] EXCEPT !.pc = "ending", !.read = Read].read = Read
            /\ [receipt[i] EXCEPT !.pc = "acked", !.read = Unread].read = Unread
        BY <3>0 DEF ReceiptRow, IdleReceipt
      <3>1. CASE Receive(i) BY <3>1 DEF Receive
      <3>2. CASE SettleResult(i) BY <3>2, <3>a DEF SettleResult, ReceiptFails
      <3>3. CASE LinkResult(i) BY <3>3, <3>a DEF LinkResult, ReceiptFails
      <3>4. CASE ConsumeRead(i) BY <3>4, <3>a DEF ConsumeRead
      <3>5. CASE EndConsume(i) BY <3>5, <3>a DEF EndConsume, ReceiptFails
      <3> QED BY <1>3, <3>1, <3>2, <3>3, <3>4, <3>5 DEF ReceiverStep
    <2> QED BY <1>0, <2>1, <2>2
  <1>4. ASSUME NEW i \in Call, NEW end \in {"done", "failed"}, HostEnds(i, end) PROVE Goal
    BY <1>4 DEF HostEnds
  <1>5. CASE OtherStep
    <2>1. CASE InterruptBegin BY <1>0, <2>1 DEF InterruptBegin, InterruptRow
    <2>2. CASE \E state \in {"completed", "failed", "unknown"} : InterruptRead(state)
      BY <2>2 DEF InterruptRead
    <2>3. CASE InterruptSettle
      <3>1. interrupt'.read = Unread BY <2>3 DEF InterruptSettle, IdleInterrupt
      <3> QED BY <2>3, <3>1 DEF InterruptSettle
    <2>4. CASE MarkClosing \/ PublishRead \/ PublishCommit \/ NativeFence \/ RestartClose
      BY <2>4 DEF MarkClosing, PublishRead, PublishCommit, NativeFence, RestartClose
    <2>5. CASE Crash
      <3>1. interrupt'.read = Unread BY <2>5 DEF Crash, IdleInterrupt
      <3>2. \A k \in Call : call'[k].read = Unread BY <2>5 DEF Crash, IdleCall
      <3>3. \A k \in Call : receipt'[k].read = Unread BY <2>5 DEF Crash, IdleReceipt
      <3> QED BY <1>a, <2>5, <3>1, <3>2, <3>3 DEF Crash
    <2>6. CASE Resume BY <1>0, <2>6 DEF Resume, ExecutorRow
    <2>7. CASE \E s \in {Materialize, Release} : CancelObligation(s) BY <2>7 DEF CancelObligation
    <2> QED BY <1>5, <2>1, <2>2, <2>3, <2>4, <2>5, <2>6, <2>7 DEF OtherStep
  <1> QED BY <1>1, <1>2, <1>3, <1>4, <1>5 DEF Next

\* So every reading stays current or goes out of date.
LEMMA ReadingsKept ==
    ASSUME TurnInv, Next
    PROVE  ReadingsCurrent'
  <1>1. Moves /\ JournalOK(journal) BY EveryStepMoves DEF TurnInv
  <1>2. Read \in Reading /\ Unread \in Reading BY <1>1, ReadingTypes
  <1>3. Current(Read, journal)
    <2>1. journal \in Root(Step, Output, Held) BY <1>1 DEF JournalOK
    <2>2. journal.revision \in Nat BY <2>1, RootParts
    <2> QED BY <2>2 DEF Read, Current
  <1>4. Current(Unread, journal)
    <2>1. journal \in Root(Step, Output, Held) BY <1>1 DEF JournalOK
    <2>2. journal.revision \in Nat BY <2>1, RootParts
    <2>3. journal.revision = 0 => journal.phase = "absent" /\ journal.exclusion = {}
      BY <1>1 DEF JournalOK, AbsentRoot
    <2> QED BY <2>2, <2>3 DEF Unread, Current
  <1>5. /\ \A k \in Call : /\ call[k].read \in Reading /\ Current(call[k].read, journal)
                           /\ receipt[k].read \in Reading /\ Current(receipt[k].read, journal)
        /\ interrupt.read \in Reading /\ Current(interrupt.read, journal)
        /\ executor.read \in Reading /\ Current(executor.read, journal)
        /\ publisher \in Reading /\ Current(publisher, journal)
    BY DEF TurnInv, TurnJournalTypeOK, ReadingsCurrent, CallRow, ReceiptRow, InterruptRow, ExecutorRow
  <1>6. ASSUME NEW old, NEW new, old \in Reading, Current(old, journal), Taken(old, new)
        PROVE  Current(new, journal')
    BY <1>1, <1>2, <1>3, <1>4, <1>6, CurrentStays DEF Taken
  <1> QED BY <1>5, <1>6, ReadingsTaken DEF ReadingsCurrent

\* Only the executor's own steps and a crash concern what it links and releases.
LEMMA ExecutorInvKept ==
    ASSUME TurnInv, Next
    PROVE  ExecutorInv'
  <1> USE DEF ExecutorInv
  <1>0. executor \in ExecutorRow /\ ExecutorInv /\ JournalOK(journal)
    BY DEF TurnInv, TurnJournalTypeOK
  <1>a. IdleExecutor.pc = "idle" /\ IdleExecutor.todo = {} BY DEF IdleExecutor
  <1>1. CASE ExecutorStep
    <2>1. CASE Admit BY <1>0, <2>1 DEF Admit, ExecutorRow
    <2>2. ASSUME NEW state \in {"completed", "unknown"}, MaterializeRead(state) PROVE ExecutorInv'
      BY <1>0, <2>2 DEF MaterializeRead, ExecutorRow
    <2>3. CASE MaterializeSettle
      <3>1. executor'.pc = "running" /\ executor'.todo = {} BY <2>3 DEF MaterializeSettle, IdleExecutor
      <3> QED BY <3>1
    <2>4. CASE ExecutorEnds \/ RefuseAttempt \/ ReleaseSettle
      BY <1>a, <2>4 DEF ExecutorEnds, RefuseAttempt, ReleaseSettle
    <2>5. CASE ReleaseTerminalAttempt BY <1>0, <2>5 DEF ReleaseTerminalAttempt, ExecutorRow
    <2>6. CASE ReleaseRead
      <3>1. DOMAIN journal.step = Step BY <1>0, RootParts DEF JournalOK
      <3>2. StepsIn(journal, "unknown") \subseteq Decided BY <1>0, <3>1 DEF StepsIn, JournalOK
      <3> QED BY <1>0, <2>6, <3>2 DEF ReleaseRead, ExecutorRow
    <2>7. CASE LinkBegin BY <1>0, <2>7 DEF LinkBegin, ExecutorRow
    <2>8. CASE LinkRead BY <1>0, <2>8 DEF LinkRead, ExecutorRow
    <2>9. CASE LinkSettle
      <3>1. CASE executor' = IdleExecutor BY <1>a, <3>1
      <3>2. CASE executor' = [executor EXCEPT !.pc = "linking", !.todo = @ \ {Oldest}, !.read = Unread]
        <4>1. executor'.pc = "linking" /\ executor'.todo = executor.todo \ {Oldest}
          BY <1>0, <3>2 DEF ExecutorRow
        <4>2. attempt' = "fenced" BY <1>0, <2>9 DEF LinkSettle
        <4> QED BY <1>0, <4>1, <4>2
      <3> QED BY <2>9, <3>1, <3>2 DEF LinkSettle
    <2>10. CASE LastRead BY <1>0, <2>10 DEF LastRead, ExecutorRow
    <2> QED BY <1>1, <2>1, <2>2, <2>3, <2>4, <2>5, <2>6, <2>7, <2>8, <2>9, <2>10 DEF ExecutorStep
  <1>2. ASSUME NEW i \in Call, CallerStep(i) PROVE ExecutorInv'
    BY <1>0, <1>2 DEF CallerStep, Plan, Begin, Deliver, GiveUp, EndCall
  <1>3. ASSUME NEW i \in Call, ReceiverStep(i) PROVE ExecutorInv'
    BY <1>0, <1>3 DEF ReceiverStep, Receive, SettleResult, LinkResult, ConsumeRead, EndConsume
  <1>4. ASSUME NEW i \in Call, NEW end \in {"done", "failed"}, HostEnds(i, end) PROVE ExecutorInv'
    BY <1>0, <1>4 DEF HostEnds
  <1>5. CASE OtherStep
    <2>1. CASE Crash BY <1>a, <2>1 DEF Crash
    <2>2. CASE Resume BY <1>0, <2>2 DEF Resume, ExecutorRow
    <2>3. CASE MarkClosing \/ NativeFence \/ RestartClose
      BY <1>0, <2>3 DEF MarkClosing, NativeFence, RestartClose
    <2>4. CASE UNCHANGED <<executor, attempt>> BY <1>0, <2>4
    <2> QED BY <1>5, <2>1, <2>2, <2>3, <2>4
        DEF OtherStep, InterruptBegin, InterruptRead, InterruptSettle, PublishRead, PublishCommit,
            CancelObligation
  <1> QED BY <1>1, <1>2, <1>3, <1>4, <1>5 DEF Next

\* One call and its receipt, with the host's side of it.
CallOK(c, r, h) ==
    /\ c.pc \in {"idle", "planned", "begun"} => h = "none"
    /\ c.pc = "ending" => c.state # "none"
    /\ c.pc = "ending" /\ c.state = "failed" => h = "none"
    /\ r.pc \in {"settle", "link", "consume", "ending"} => h \in {"done", "failed"}

\* Only a caller contacts its effect, and only an ended effect is received.
LEMMA CallsInvKept ==
    ASSUME TurnInv, Next
    PROVE  CallsInv'
  <1> DEFINE AllOK == \A k \in Call : CallOK(call[k], receipt[k], host[k])
  <1>0. /\ call \in [Call -> CallRow] /\ receipt \in [Call -> ReceiptRow] /\ host \in [Call -> HostEffect]
        /\ interrupt \in InterruptRow
    BY DEF TurnInv, TurnJournalTypeOK
  <1>a. AllOK /\ (interrupt.pc = "ending" => interrupt.state # "none")
    BY DEF TurnInv, CallsInv, CallOK
  <1>b. IdleInterrupt.pc = "idle" BY DEF IdleInterrupt
  <1>c. (\A k \in Call : CallOK(call'[k], receipt'[k], host'[k]))
        /\ (interrupt'.pc = "ending" => interrupt'.state # "none") => CallsInv'
    BY DEF CallsInv, CallOK
  <1>1. CASE ExecutorStep
    <2>1. UNCHANGED <<call, receipt, host, interrupt>>
      BY <1>1 DEF ExecutorStep, Admit, MaterializeRead, MaterializeSettle, ExecutorEnds, RefuseAttempt,
         ReleaseTerminalAttempt, ReleaseRead, LinkBegin, LinkRead, LinkSettle, LastRead, ReleaseSettle
    <2> QED BY <1>a, <1>c, <2>1
  <1>2. ASSUME NEW i \in Call, CallerStep(i) PROVE CallsInv'
    <2>0. call[i] \in CallRow /\ CallOK(call[i], receipt[i], host[i]) BY <1>0, <1>a
    <2>1. receipt' = receipt /\ interrupt' = interrupt
      BY <1>2 DEF CallerStep, Plan, Begin, Deliver, GiveUp, EndCall
    <2>2. \E row, h : /\ call' = [call EXCEPT ![i] = row] /\ host' = [host EXCEPT ![i] = h]
                      /\ CallOK(row, receipt[i], h)
      <3>0. [host EXCEPT ![i] = host[i]] = host BY <1>0
      <3>1. CASE \E kind \in {"work", "inspect-cleanup"} : Plan(i, kind)
        <4>1. PICK kind \in {"work", "inspect-cleanup"} : Plan(i, kind) BY <3>1
        <4>2. CallOK([call[i] EXCEPT !.pc = "planned", !.kind = kind], receipt[i], host[i])
          BY <2>0, <4>1 DEF CallRow, CallOK, Plan
        <4> QED BY <3>0, <4>1, <4>2 DEF Plan
      <3>2. CASE Begin(i)
        <4>1. /\ CallOK([call[i] EXCEPT !.pc = "begun"], receipt[i], host[i])
              /\ CallOK([call[i] EXCEPT !.pc = "done"], receipt[i], host[i])
          BY <2>0, <3>2 DEF CallRow, CallOK, Begin
        <4> QED BY <3>0, <3>2, <4>1 DEF Begin
      <3>3. CASE Deliver(i)
        <4>1. CallOK([call[i] EXCEPT !.pc = "waiting"], receipt[i], "running")
          BY <2>0, <3>3 DEF CallRow, CallOK, Deliver
        <4> QED BY <3>3, <4>1 DEF Deliver
      <3>4. CASE GiveUp(i)
        <4>1. CallOK([call[i] EXCEPT !.pc = "done"], receipt[i], host[i])
          BY <2>0 DEF CallRow, CallOK
        <4>2. \A state \in GiveUpOutcome(i) :
                 CallOK([call[i] EXCEPT !.pc = "ending", !.state = state, !.read = Read], receipt[i], host[i])
          BY <2>0, <3>4 DEF CallRow, CallOK, GiveUp, GiveUpOutcome
        <4> QED BY <3>0, <3>4, <4>1, <4>2 DEF GiveUp
      <3>5. CASE EndCall(i)
        <4>1. CallOK([IdleCall EXCEPT !.pc = "done"], receipt[i], host[i])
          BY <2>0 DEF IdleCall, CallOK
        <4> QED BY <3>0, <3>5, <4>1 DEF EndCall
      <3> QED BY <1>2, <3>1, <3>2, <3>3, <3>4, <3>5 DEF CallerStep
    <2>3. \A k \in Call : CallOK(call'[k], receipt'[k], host'[k]) BY <1>0, <1>a, <2>1, <2>2
    <2> QED BY <1>a, <1>c, <2>1, <2>3
  <1>3. ASSUME NEW i \in Call, ReceiverStep(i) PROVE CallsInv'
    <2>0. receipt[i] \in ReceiptRow /\ CallOK(call[i], receipt[i], host[i]) BY <1>0, <1>a
    <2>1. call' = call /\ interrupt' = interrupt /\ host' = host
      BY <1>3 DEF ReceiverStep, Receive, SettleResult, LinkResult, ConsumeRead, EndConsume
    <2>2. host[i] \in {"done", "failed"}
      BY <1>3, <2>0 DEF ReceiverStep, Receive, SettleResult, LinkResult, ConsumeRead, EndConsume, CallOK
    <2>3. \E row : receipt' = [receipt EXCEPT ![i] = row]
      BY <1>3 DEF ReceiverStep, Receive, SettleResult, LinkResult, ConsumeRead, EndConsume, ReceiptFails
    <2>4. \A row : CallOK(call[i], row, host[i]) BY <2>0, <2>2 DEF CallOK
    <2>5. \A k \in Call : CallOK(call'[k], receipt'[k], host'[k]) BY <1>0, <1>a, <2>1, <2>3, <2>4
    <2> QED BY <1>a, <1>c, <2>1, <2>5
  <1>4. ASSUME NEW i \in Call, NEW end \in {"done", "failed"}, HostEnds(i, end) PROVE CallsInv'
    <2>1. /\ host[i] = "running" /\ host' = [host EXCEPT ![i] = end]
          /\ UNCHANGED <<call, receipt, interrupt>>
      BY <1>4 DEF HostEnds
    <2>2. CallOK(call[i], receipt[i], host[i]) BY <1>a
    <2>3. CallOK(call[i], receipt[i], end) BY <2>1, <2>2 DEF CallOK
    <2>4. \A k \in Call : CallOK(call'[k], receipt'[k], host'[k]) BY <1>0, <1>a, <2>1, <2>3
    <2> QED BY <1>a, <1>c, <2>1, <2>4
  <1>5. CASE OtherStep
    <2>1. CASE Crash
      <3>0. host' = host /\ interrupt'.pc = "done" BY <2>1 DEF Crash, IdleInterrupt
      <3>1. ASSUME NEW k \in Call PROVE CallOK(call'[k], receipt'[k], host'[k])
        <4>1. CallOK(call[k], receipt[k], host[k]) BY <1>a
        <4>2. CASE call[k].pc = "idle"
          <5>1. call'[k] = IdleCall /\ receipt'[k] = IdleReceipt /\ host[k] = "none"
            BY <2>1, <4>1, <4>2 DEF Crash, CallOK
          <5> QED BY <3>0, <5>1 DEF CallOK, IdleCall, IdleReceipt
        <4>3. CASE call[k].pc # "idle"
          <5>1. call'[k].pc = "done" /\ receipt'[k].pc = "acked"
            BY <2>1, <4>3 DEF Crash, IdleCall, IdleReceipt
          <5> QED BY <5>1 DEF CallOK
        <4> QED BY <4>2, <4>3
      <3> QED BY <1>c, <3>0, <3>1
    <2>2. CASE InterruptBegin
      <3>1. UNCHANGED <<call, receipt, host>> /\ interrupt'.pc = "begun"
        BY <1>0, <2>2 DEF InterruptBegin, InterruptRow
      <3> QED BY <1>a, <1>c, <3>1
    <2>3. ASSUME NEW state \in {"completed", "failed", "unknown"}, InterruptRead(state) PROVE CallsInv'
      <3>1. UNCHANGED <<call, receipt, host>> /\ interrupt'.state # "none" BY <2>3 DEF InterruptRead
      <3> QED BY <1>a, <1>c, <3>1
    <2>4. CASE InterruptSettle
      <3>1. UNCHANGED <<call, receipt, host>> /\ interrupt'.pc = "done"
        BY <2>4 DEF InterruptSettle, IdleInterrupt
      <3> QED BY <1>a, <1>c, <3>1
    <2>5. CASE UNCHANGED <<call, receipt, host, interrupt>> BY <1>a, <1>c, <2>5
    <2> QED BY <1>5, <2>1, <2>2, <2>3, <2>4, <2>5
        DEF OtherStep, MarkClosing, PublishRead, PublishCommit, NativeFence, Resume, RestartClose,
            CancelObligation
  <1> QED BY <1>1, <1>2, <1>3, <1>4, <1>5 DEF Next

\* What is recorded of an effect stays what the host did: it ends once, and its
\* outcome is written by whoever saw it end.
LEMMA OutcomesKept ==
    ASSUME TurnInv, Next
    PROVE  OutcomesAreTrue'
  <1> DEFINE TrueOf(j, i, h) == /\ j.step[Effect(i)].state = "completed" => h = "done"
                                /\ j.step[Effect(i)].state = "failed" => h \in {"none", "failed"}
                                /\ j.step[Consume(i)].state # "none" => h \in {"done", "failed"}
  <1>0. /\ host \in [Call -> HostEffect]
        /\ \A k \in Call : Effect(k) \in Step /\ Consume(k) \in Step
    BY StepsKnown DEF TurnInv, TurnJournalTypeOK
  <1>a. \A k \in Call : TrueOf(journal, k, host[k]) BY DEF TurnInv, OutcomesAreTrue
  <1>b. (\A k \in Call : TrueOf(journal', k, host'[k])) => OutcomesAreTrue' BY DEF OutcomesAreTrue
  <1>c. ASSUME WritesApart, host' = host PROVE OutcomesAreTrue'
    <2>1. \A k \in Call : /\ journal'.step[Effect(k)] = journal.step[Effect(k)]
                          /\ journal'.step[Consume(k)] = journal.step[Consume(k)]
      BY <1>0, <1>c DEF WritesApart, Apart, Writes
    <2> QED BY <1>a, <1>b, <1>c, <2>1
  <1>1. CASE ExecutorStep
    <2>1. host' = host
      BY <1>1 DEF ExecutorStep, Admit, MaterializeRead, MaterializeSettle, ExecutorEnds, RefuseAttempt,
         ReleaseTerminalAttempt, ReleaseRead, LinkBegin, LinkRead, LinkSettle, LastRead, ReleaseSettle
    <2> QED BY <1>1, <1>c, <2>1, ExecutorWrites
  <1>2. ASSUME NEW i \in Call, CallerStep(i) PROVE OutcomesAreTrue'
    <2>1. CASE Deliver(i)
      <3>1. /\ call[i].pc = "begun" /\ journal.step[Effect(i)].state = "intent"
            /\ host' = [host EXCEPT ![i] = "running"] /\ journal' = journal
        BY <2>1 DEF Deliver
      <3>2. host[i] = "none" BY <3>1 DEF TurnInv, CallsInv
      <3>3. TrueOf(journal, i, "running") BY <1>a, <3>1, <3>2
      <3> QED BY <1>0, <1>a, <1>b, <3>1, <3>3
    <2>2. CASE host' = host /\ journal' = journal BY <1>a, <1>b, <2>2
    <2>3. CASE journal' # journal
      <3>1. PICK state \in {"intent", "unknown", "failed"} :
               /\ WritesStep(journal, journal', Effect(i), state, journal.phase)
               /\ host' = host
               /\ state = "failed" => host[i] = "none"
        BY <1>2, <2>3, CallerWrites
      <3>2. /\ journal'.step[Effect(i)].state = state
            /\ \A x \in Step \ {Effect(i)} : journal'.step[x] = journal.step[x]
        BY <3>1 DEF WritesStep, Writes
      <3>3. journal'.step[Consume(i)] = journal.step[Consume(i)] BY <1>0, <3>2, StepsDiffer
      <3>4. TrueOf(journal', i, host[i]) BY <1>a, <3>1, <3>2, <3>3
      <3>5. ASSUME NEW k \in Call, k # i PROVE TrueOf(journal', k, host[k])
        <4>1. /\ journal'.step[Effect(k)] = journal.step[Effect(k)]
              /\ journal'.step[Consume(k)] = journal.step[Consume(k)]
          BY <1>0, <3>2, <3>5, StepsDiffer
        <4> QED BY <1>a, <4>1
      <3> QED BY <1>b, <3>1, <3>4, <3>5
    <2> QED BY <1>2, <2>1, <2>2, <2>3 DEF CallerStep, Plan, Begin, GiveUp, EndCall
  <1>3. ASSUME NEW i \in Call, ReceiverStep(i) PROVE OutcomesAreTrue'
    <2>0. host' = host
      BY <1>3 DEF ReceiverStep, Receive, SettleResult, LinkResult, ConsumeRead, EndConsume
    <2>1. CASE journal' = journal BY <1>a, <1>b, <2>0, <2>1
    <2>2. CASE journal' # journal
      <3>1. PICK S \in SUBSET {Effect(i), Consume(i)} :
               /\ Writes(journal, journal', S)
               /\ host[i] \in {"done", "failed"}
               /\ Effect(i) \in S => journal'.step[Effect(i)].state = ResultOf(i)
        BY <1>3, <2>2, ReceiverWrites
      <3>2. \A x \in Step \ S : journal'.step[x] = journal.step[x] BY <3>1 DEF Writes
      <3>3. TrueOf(journal', i, host[i])
        <4>1. CASE Effect(i) \in S BY <3>1, <4>1 DEF ResultOf
        <4>2. CASE Effect(i) \notin S
          <5>1. journal'.step[Effect(i)] = journal.step[Effect(i)] BY <1>0, <3>2, <4>2
          <5> QED BY <1>a, <3>1, <5>1
        <4> QED BY <4>1, <4>2
      <3>4. ASSUME NEW k \in Call, k # i PROVE TrueOf(journal', k, host[k])
        <4>1. Effect(k) \notin S /\ Consume(k) \notin S BY <3>4, StepsDiffer
        <4>2. /\ journal'.step[Effect(k)] = journal.step[Effect(k)]
              /\ journal'.step[Consume(k)] = journal.step[Consume(k)]
          BY <1>0, <3>2, <4>1
        <4> QED BY <1>a, <4>2
      <3> QED BY <1>b, <2>0, <3>3, <3>4
    <2> QED BY <2>1, <2>2
  <1>4. ASSUME NEW i \in Call, NEW end \in {"done", "failed"}, HostEnds(i, end) PROVE OutcomesAreTrue'
    <2>1. host[i] = "running" /\ host' = [host EXCEPT ![i] = end] /\ journal' = journal
      BY <1>4 DEF HostEnds
    <2>2. TrueOf(journal, i, end) BY <1>a, <2>1
    <2> QED BY <1>0, <1>a, <1>b, <2>1, <2>2
  <1>5. CASE OtherStep
    <2>1. host' = host
      BY <1>5 DEF OtherStep, InterruptBegin, InterruptRead, InterruptSettle, MarkClosing, PublishRead,
         PublishCommit, NativeFence, Crash, Resume, RestartClose, CancelObligation
    <2> QED BY <1>5, <1>c, <2>1, OtherWrites
  <1> QED BY <1>1, <1>2, <1>3, <1>4, <1>5 DEF Next

\* The attempt changes only while it is live, and then to closing, or to a
\* final state when nothing of this Turn is on its way.
Closes == AttemptLive /\ (attempt' = "closing" \/ (~OwnerWaits /\ NothingRuns))

\* The attempt leaves its live phases only when every owner is through.
LEMMA AttemptCloses ==
    ASSUME TurnInv, Next, attempt' # attempt
    PROVE  Closes /\ UNCHANGED <<call, host>>
  <1> USE DEF Closes
  <1>1. \A k \in Call : call[k].pc = "idle" => host[k] = "none" BY DEF TurnInv, CallsInv
  <1>2. (\A k \in Call : call[k].pc = "idle") => ~OwnerWaits /\ NothingRuns
    BY <1>1 DEF OwnerWaits, NothingRuns
  <1>3. CASE ExecutorStep
    <2>1. CASE RefuseAttempt BY <1>2, <2>1 DEF RefuseAttempt
    <2>2. CASE ReleaseTerminalAttempt BY <2>2 DEF ReleaseTerminalAttempt
    <2> QED BY <1>3, <2>1, <2>2
        DEF ExecutorStep, Admit, MaterializeRead, MaterializeSettle, ExecutorEnds, ReleaseRead, LinkBegin,
            LinkRead, LinkSettle, LastRead, ReleaseSettle
  <1>4. CASE OtherStep
    <2>1. CASE MarkClosing BY <2>1 DEF MarkClosing, AttemptLive
    <2>2. CASE NativeFence BY <2>2 DEF NativeFence
    <2>3. CASE RestartClose BY <1>2, <2>3 DEF RestartClose
    <2> QED BY <1>4, <2>1, <2>2, <2>3
        DEF OtherStep, InterruptBegin, InterruptRead, InterruptSettle, PublishRead, PublishCommit, Crash,
            Resume, CancelObligation
  <1> QED BY <1>3, <1>4
      DEF Next, CallerStep, Plan, Begin, Deliver, GiveUp, EndCall, ReceiverStep, Receive, SettleResult,
          LinkResult, ConsumeRead, EndConsume, HostEnds

\* Once the attempt is fenced nobody begins to send.
LEMMA QuietKept ==
    ASSUME TurnInv, Next
    PROVE  FencedIsQuiet'
  <1>1. CASE attempt' # attempt
    <2>1. Closes /\ UNCHANGED <<call, host>> BY <1>1, AttemptCloses
    <2> QED BY <2>1 DEF FencedIsQuiet, Closes, AttemptLive, OwnerWaits, NothingRuns
  <1>2. CASE attempt' = attempt /\ ~AttemptLive
    <2>0. /\ \A k \in Call : call[k].pc \in {"idle", "done"} /\ host[k] # "running"
      BY <1>2 DEF TurnInv, FencedIsQuiet, OwnerWaits, NothingRuns
    <2>a. ASSUME \A k \in Call : call'[k].pc \in {"idle", "done"}, host' = host PROVE FencedIsQuiet'
      BY <2>0, <2>a DEF FencedIsQuiet, OwnerWaits, NothingRuns
    <2>1. CASE Crash
      <3>1. \A k \in Call : call'[k].pc \in {"idle", "done"} BY <2>1 DEF Crash, IdleCall
      <3> QED BY <2>1, <2>a, <3>1 DEF Crash
    <2>2. CASE UNCHANGED <<call, host>> BY <2>0, <2>2, <2>a
    <2>3. ASSUME NEW i \in Call, CallerStep(i) PROVE FALSE
      BY <1>2, <2>0, <2>3 DEF CallerStep, Plan, Begin, Deliver, GiveUp, EndCall
    <2>4. ASSUME NEW i \in Call, NEW end \in {"done", "failed"}, HostEnds(i, end) PROVE FALSE
      BY <2>0, <2>4 DEF HostEnds
    <2>5. CASE ExecutorStep
      BY <2>2, <2>5 DEF ExecutorStep, Admit, MaterializeRead, MaterializeSettle, ExecutorEnds, RefuseAttempt,
         ReleaseTerminalAttempt, ReleaseRead, LinkBegin, LinkRead, LinkSettle, LastRead, ReleaseSettle
    <2>6. ASSUME NEW i \in Call, ReceiverStep(i) PROVE FencedIsQuiet'
      BY <2>2, <2>6 DEF ReceiverStep, Receive, SettleResult, LinkResult, ConsumeRead, EndConsume
    <2>7. CASE OtherStep
      BY <2>1, <2>2, <2>7 DEF OtherStep, InterruptBegin, InterruptRead, InterruptSettle, MarkClosing,
         PublishRead, PublishCommit, NativeFence, Resume, RestartClose, CancelObligation
    <2> QED BY <2>3, <2>4, <2>5, <2>6, <2>7 DEF Next
  <1>3. CASE attempt' = attempt /\ AttemptLive BY <1>3 DEF FencedIsQuiet, AttemptLive
  <1> QED BY <1>1, <1>2, <1>3

\* Only the executor closes the root, and only of a fenced attempt.
LEMMA ClosedKept ==
    ASSUME TurnInv, Next
    PROVE  ClosedIsFenced'
  <1>1. journal'.phase = "closed" => attempt \in {"fenced", "restart"}
    <2>0. journal.phase = "closed" => attempt \in {"fenced", "restart"} BY DEF TurnInv, ClosedIsFenced
    <2>1. CASE ExecutorStep BY <2>0, <2>1, ExecutorWrites DEF WritesApart
    <2>2. CASE OtherStep BY <2>0, <2>2, OtherWrites DEF WritesApart
    <2>3. ASSUME NEW i \in Call, CallerStep(i) PROVE journal'.phase = journal.phase
      BY <2>3, CallerWrites DEF WritesStep
    <2>4. ASSUME NEW i \in Call, ReceiverStep(i) PROVE journal'.phase = journal.phase
      BY <2>4, ReceiverWrites
    <2>5. ASSUME NEW i \in Call, NEW end \in {"done", "failed"}, HostEnds(i, end)
          PROVE  journal'.phase = journal.phase
      BY <2>5 DEF HostEnds
    <2> QED BY <2>0, <2>1, <2>2, <2>3, <2>4, <2>5 DEF Next
  <1>2. attempt \in {"fenced", "restart"} => attempt' = attempt
    BY AttemptCloses DEF Closes, AttemptLive
  <1> QED BY <1>1, <1>2 DEF ClosedIsFenced

-----------------------------------------------------------------------------
(* The theorems *)

\* The first state.
LEMMA InitTurnInv ==
    ASSUME Init
    PROVE  TurnInv
  <1>1. journal \in Root(Step, Output, Held)
    BY DEF Init, AbsentRoot, Root, StepRow, RootPhase, State, Kind
  <1>2. /\ journal.scope = "workspace" /\ journal.phase = "absent" /\ journal.revision = 0
        /\ journal.exclusion = {} /\ \A s \in Step : journal.step[s].state = "none"
    BY DEF Init, AbsentRoot
  <1>3. JournalOK(journal) BY <1>1, <1>2 DEF Init, JournalOK, Proved
  <1>4. Unread \in Reading /\ Current(Unread, journal)
    BY <1>2, <1>3, ReadingTypes DEF Unread, Current
  <1>5. TurnJournalTypeOK
    <2>1. crashes \in 0..MaxCrash BY TurnJournalAssumption DEF Init
    <2> QED BY <1>1, <1>3, <1>4, <2>1, IdleTypes DEF Init, TurnJournalTypeOK, AttemptState, HostEffect
  <1>6. ReadingsCurrent
    <2>1. /\ \A k \in Call : call[k].read = Unread /\ receipt[k].read = Unread
          /\ interrupt.read = Unread /\ executor.read = Unread /\ publisher = Unread
      BY DEF Init, IdleCall, IdleReceipt, IdleInterrupt, IdleExecutor
    <2> QED BY <1>4, <2>1 DEF ReadingsCurrent
  <1>7. ExecutorInv BY DEF Init, ExecutorInv, IdleExecutor
  <1>8. CallsInv BY DEF Init, CallsInv, IdleCall, IdleReceipt, IdleInterrupt
  <1>9. OutcomesAreTrue BY <1>2, StepsKnown DEF OutcomesAreTrue
  <1>10. FencedIsQuiet BY DEF Init, FencedIsQuiet, AttemptLive
  <1>11. ClosedIsFenced BY <1>2 DEF ClosedIsFenced
  <1> QED BY <1>3, <1>5, <1>6, <1>7, <1>8, <1>9, <1>10, <1>11 DEF TurnInv

\* Every step, by the lemmas above.
LEMMA NextTurnInv ==
    ASSUME TurnInv, [Next]_vars
    PROVE  TurnInv'
  <1>1. CASE Next
    <2>1. JournalOK(journal)'
      <3>1. Moves /\ JournalOK(journal) BY <1>1, EveryStepMoves DEF TurnInv
      <3> QED BY <3>1 DEF Moves, Writes
    <2>2. TurnJournalTypeOK'
      BY <1>1, <2>1, WriterTypesKept DEF TurnJournalTypeOK, WriterTypes, JournalOK
    <2> QED BY <1>1, <2>1, <2>2, ReadingsKept, ExecutorInvKept, CallsInvKept, OutcomesKept, QuietKept,
               ClosedKept DEF TurnInv
  <1>2. CASE UNCHANGED vars
    BY <1>2 DEF vars, TurnInv, TurnJournalTypeOK, JournalOK, ReadingsCurrent, ExecutorInv, CallsInv,
       OutcomesAreTrue, FencedIsQuiet, ClosedIsFenced, AttemptLive, OwnerWaits, NothingRuns
  <1> QED BY <1>1, <1>2

\* The inductive invariant of the journal and its writers holds in every
\* reachable state, however calls, receipts, crashes and recovery interleave.
THEOREM TurnInvariance == TurnJournalSpec => []TurnInv
  <1>1. Init => TurnInv BY InitTurnInv
  <1>2. TurnInv /\ [Next]_vars => TurnInv' BY NextTurnInv
  <1> QED BY <1>1, <1>2, PTL DEF TurnJournalSpec

\* The journal and the state of its writers stay of their types.
THEOREM TypeCorrect == TurnJournalSpec => []TurnJournalTypeOK
  <1>1. TurnInv => TurnJournalTypeOK BY DEF TurnInv
  <1> QED BY <1>1, TurnInvariance, PTL

\* A closed root is proved, for every number of effects and crashes: nothing
\* is left undecided and every unknown effect is linked to the release.
THEOREM ClosedRootsAreProved == TurnJournalSpec => []ClosedIsProved
  <1>1. TurnInv => ClosedIsProved BY DEF TurnInv, JournalOK, ClosedIsProved
  <1> QED BY <1>1, TurnInvariance, PTL

\* The journal never states of an effect what the host did not do.
THEOREM JournalIsTrue == TurnJournalSpec => []OutcomesAreTrue
  <1>1. TurnInv => OutcomesAreTrue BY DEF TurnInv
  <1> QED BY <1>1, TurnInvariance, PTL

\* The exclusion outlives the effects: it goes only when the root is closed,
\* which needs a final attempt, and a final attempt has nothing running.
THEOREM ExclusionOutlivesEffects == TurnJournalSpec => []ExclusionHeld
  <1>1. TurnInv => ExclusionHeld
    <2>1. SUFFICES ASSUME TurnInv, journal.phase # "absent", journal.exclusion # Held
                   PROVE  NothingRuns /\ attempt \in {"fenced", "restart"} /\ StepsIn(journal, "intent") = {}
      BY DEF ExclusionHeld
    <2>2. JournalOK(journal) /\ FencedIsQuiet /\ ClosedIsFenced BY <2>1 DEF TurnInv
    <2>3. journal \in Root(Step, Output, Held) BY <2>2 DEF JournalOK
    <2>4. journal.phase \in RootPhase BY <2>3, RootParts
    <2>5. journal.phase = "closed" BY <2>1, <2>2, <2>4 DEF JournalOK, RootPhase
    <2>6. StepsIn(journal, "intent") = {} BY <2>2, <2>5 DEF JournalOK, Proved
    <2>7. attempt \in {"fenced", "restart"} BY <2>2, <2>5 DEF ClosedIsFenced
    <2>8. NothingRuns BY <2>2, <2>7 DEF FencedIsQuiet, AttemptLive
    <2> QED BY <2>6, <2>7, <2>8
  <1> QED BY <1>1, TurnInvariance, PTL

\* Writers that settle against old readings never undo each other's work: the
\* phase and the revision only grow and an ended step never changes.
THEOREM WritersAdvanceTheJournal == TurnJournalSpec => JournalAdvances
  <1>1. TurnInv /\ [Next]_vars => [Advances(journal, journal')]_vars
    <2>1. SUFFICES ASSUME TurnInv, Next PROVE Advances(journal, journal')
      OBVIOUS
    <2>2. Moves BY <2>1, EveryStepMoves
    <2> QED BY <2>2 DEF Moves, Writes, Advances
  <1> QED BY <1>1, TurnInvariance, PTL DEF TurnJournalSpec, JournalAdvances
=============================================================================
