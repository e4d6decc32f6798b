------------------------- MODULE IdleCleanupProofs -------------------------
(***************************************************************************)
(* Proofs about IdleCleanup for every number of faults.  The argument:     *)
(* whoever acts on the Sandbox is known from the recovery map.  A producer *)
(* has its entry there (ProducerOK), so has the one result-only waiter     *)
(* (SlotOK, OneWaiter), and the reconciler acts only when the map is       *)
(* empty.  So a rejected slot finds its own waiter, nobody is replaced,    *)
(* and an operation is delivered only by the producer that wrote its       *)
(* intent.  A claim that is still reversible has no root, unless the       *)
(* producer of its owner is on its way to fence it (OwnerOK).  A root says *)
(* nothing of the host but what the host did (JournalOK).                  *)
(***************************************************************************)
EXTENDS IdleCleanup, ExecutionJournalProofs

HostEnded == {"done", "failed"}
NoRoots == \A o \in Op : ~Exists(o)

\* The types of what the argument uses.
IdleTypeOK ==
    /\ root \in [Op -> Root(Step, Output, Held)]
    /\ resident \in Resident
    /\ owner \in Owner
    /\ producer \in Producer
    /\ recovery \in {"none", "effect", "wait"}
    /\ reconciler \in Reconciler
    /\ slot \in [Op -> Slot]
    /\ receiver \in [Op -> {"idle", "posted", "committed"}]
    /\ host \in [Op -> {"none", "running", "done", "failed", "lost"}]
    /\ epoch \in {1, 2}
    /\ sent \in [Op -> {0, 1}]

\* The forms a cleanup root takes, and what each says of the host.
JournalOK(j, h) ==
    LET effect == j.step[Effect]
        consume == j.step[Consume]
    IN  /\ j.scope = "core"
        /\ effect.state \in {"none", "intent", "unknown", "completed", "failed"}
        /\ consume.state \in {"none", "completed"}
        /\ j.phase = "absent" <=> effect.state = "none"
        /\ j.phase = "open" <=> effect.state = "intent"
        /\ j.phase = "closed" <=> effect.state = "completed"
        /\ j.exclusion = IF j.phase \in {"absent", "closed"} THEN {} ELSE Held
        /\ effect.state \in {"none", "intent"} => consume.state = "none"
        /\ effect.state = "unknown" => effect.outputs = NoOutput
        /\ effect.state = "completed" => h = "done"
        /\ effect.state \in {"completed", "failed"} =>
              consume.state = "completed" /\ effect.outputs = consume.outputs
        /\ consume.state = "completed" => h \in HostEnded /\ consume.outputs = OutputOf(h)

JournalsOK == \A o \in Op : JournalOK(root[o], host[o])

\* A slot in use is pending; a command that was not accepted was never delivered;
\* a pending slot is awaited, given up, or the one its producer waits for.
SlotOK(o) ==
    /\ slot[o].command \/ slot[o].accepted \/ slot[o].ended \/ slot[o].awaited \/ slot[o].receiving =>
          slot[o].pending
    /\ slot[o].command /\ ~slot[o].accepted => sent[o] = 0
    /\ slot[o].command \/ slot[o].awaited => Exists(o)
    /\ slot[o].awaited => recovery = "wait"
    /\ slot[o].pending /\ ~slot[o].awaited /\ ~slot[o].ended => producer.pc = "waiting" /\ producer.op = o

SlotsOK == \A o \in Op : SlotOK(o)

\* The recovery map holds one promise.
OneWaiter == ~(slot["close"].awaited /\ slot["delete"].awaited)

\* The host acts on, and answers for, what was delivered after its intent.
ContactOK(o) ==
    /\ sent[o] = 0 => host[o] = "none"
    /\ sent[o] = 1 => Exists(o)
    /\ receiver[o] # "idle" => host[o] \in HostEnded

ContactsOK == \A o \in Op : ContactOK(o)

\* Who may still take the resident back.
OwnerOK ==
    /\ resident = "accepting" => NoRoots
    /\ owner.pc = "deleting" => NoRoots /\ producer.pc = "idle"
    /\ owner.evicts /\ resident = "claimed" /\ ~NoRoots =>
          producer.by = "owner" /\ producer.pc \in {"deliver", "waiting", "drain", "fence"}

\* A producer at work is in the recovery map; the reconciler's deletes after a
\* completed close; a delivery is the first.
ProducerOK ==
    /\ producer.pc # "idle" => recovery = "effect"
    /\ producer.pc # "idle" /\ producer.by = "owner" => owner.pc = "producing"
    /\ producer.pc = "intend" /\ producer.by = "owner" => NoRoots
    /\ producer.pc # "idle" /\ producer.by = "reconciler" =>
          producer.op = "delete" /\ EffectState("close") = "completed"
    /\ producer.pc = "deliver" =>
          sent[producer.op] = 0 /\ Exists(producer.op) /\ ~slot[producer.op].command

\* A pass works on roots, and roots never disappear.
ReconcilerOK ==
    /\ \A o \in reconciler.todo : Exists(o)
    /\ reconciler.pc = "selected" => Exists(reconciler.op)

\* A delete is begun without a close, or after a completed one.
CloseFirst == Exists("delete") /\ Exists("close") => EffectState("close") = "completed"

IdleInv ==
    /\ IdleTypeOK
    /\ JournalsOK
    /\ SlotsOK
    /\ OneWaiter
    /\ ContactsOK
    /\ OwnerOK
    /\ ProducerOK
    /\ ReconcilerOK
    /\ CloseFirst
    /\ RemovedIsGone

-----------------------------------------------------------------------------
(* The journal *)

\* The two steps of a cleanup root.
LEMMA StepsKnown == Effect \in Step /\ Consume \in Step /\ Effect # Consume /\ Step = {Effect, Consume}
                    /\ Effect # NoStep
  BY DEF Step, Effect, Consume, NoStep

\* The outcome and the output that the host's end is recorded as.
LEMMA OutputsKnown ==
    ASSUME NEW h \in HostEnded
    PROVE  /\ OutcomeOf(h) \in {"completed", "failed"}
           /\ OutcomeOf(h) = "completed" <=> h = "done"
           /\ OutputOf(h) \in Output
           /\ OutputOf(h) # NoOutput
  BY DEF HostEnded, OutcomeOf, OutputOf, Output, NoOutput

\* A root that was never opened is in order.
LEMMA AbsentOK ==
    ASSUME NEW h
    PROVE  /\ AbsentRoot("core", Step) \in Root(Step, Output, Held)
           /\ JournalOK(AbsentRoot("core", Step), h)
  <1>1. AbsentRoot("core", Step) \in Root(Step, Output, Held)
    BY DEF AbsentRoot, Root, StepRow, RootPhase, State, Kind
  <1>2. JournalOK(AbsentRoot("core", Step), h)
    BY StepsKnown DEF AbsentRoot, JournalOK
  <1> QED BY <1>1, <1>2

\* The first intent opens the root.
Opened(k, h) ==
    /\ k \in Root(Step, Output, Held)
    /\ JournalOK(k, h)
    /\ k.phase = "open"

\* IntendIdle changes the root of its operation only.
LEMMA IntendOpens ==
    ASSUME NEW o \in Op, NEW h, root \in [Op -> Root(Step, Output, Held)]
    PROVE  /\ IntendIdle(o) \in [Op -> Root(Step, Output, Held)]
           /\ Opened(IntendIdle(o)[o], h)
           /\ \A p \in Op \ {o} : IntendIdle(o)[p] = root[p]
  <1> DEFINE a == AbsentRoot("core", Step)
             j == OpenRoot(a, Held)
             kind == IF o = "delete" THEN "release" ELSE "inspect-cleanup"
             k == Intend(j, Effect, kind, NoStep)
  <1>1. a \in Root(Step, Output, Held) BY AbsentOK
  <1>2. /\ j \in Root(Step, Output, Held) /\ j.phase = "open" /\ j.exclusion = Held /\ j.scope = "core"
        /\ j.step = a.step
    BY <1>1 DEF OpenRoot, Root, RootPhase, AbsentRoot
  <1>3. kind \in Kind BY DEF Kind
  <1> HIDE DEF j, kind
  <1>4. k \in Root(Step, Output, Held)
        /\ Wrote(j, k, Step, Effect, IntentRow(kind, NoStep), j.phase, j.exclusion)
    BY <1>2, <1>3, IntendWrites, StepsKnown
  <1>5. a.step[Consume].state = "none" BY StepsKnown DEF AbsentRoot
  <1> HIDE DEF k
  <1>6. /\ k.phase = "open" /\ k.exclusion = Held /\ k.scope = "core"
        /\ k.step[Effect].state = "intent" /\ k.step[Consume].state = "none"
    <2>1. /\ k.phase = j.phase /\ k.exclusion = j.exclusion /\ k.scope = j.scope
          /\ k.step[Effect] = IntentRow(kind, NoStep) /\ k.step[Consume] = j.step[Consume]
      BY <1>4, StepsKnown DEF Wrote
    <2> QED BY <1>2, <1>5, <2>1 DEF IntentRow
  <1>7. Opened(k, h) BY <1>4, <1>6 DEF Opened, JournalOK
  <1>8. IntendIdle(o) = [root EXCEPT ![o] = k] BY DEF IntendIdle, j, k, kind
  <1> QED BY <1>4, <1>7, <1>8

\* What a settlement leaves of a root: it stays in order, exists as before, and
\* a completed effect stays completed.
SettledAs(j, k, h) ==
    /\ k \in Root(Step, Output, Held)
    /\ JournalOK(k, h)
    /\ k.phase = "absent" <=> j.phase = "absent"
    /\ j.step[Effect].state = "completed" => k.step[Effect].state = "completed"

\* The outcome of an intent, before its consumption.
OutcomeWritten(j, k, state, output) ==
    /\ k \in Root(Step, Output, Held)
    /\ k.scope = "core" /\ k.phase = "closing" /\ k.exclusion = Held
    /\ k.step[Effect].state = state /\ k.step[Effect].outputs = output
    /\ k.step[Consume] = j.step[Consume]

\* The first half of the transaction writes the outcome.
LEMMA OutcomeWrites ==
    ASSUME NEW h, NEW j \in Root(Step, Output, Held), JournalOK(j, h), j.step[Effect].state = "intent",
           NEW state \in Ended, NEW output \in Output \cup {NoOutput}
    PROVE  OutcomeWritten(j, Settle(j, OutcomeSettlement(j, state, output)), state, output)
  <1> DEFINE z == OutcomeSettlement(j, state, output)
             k == Settle(j, z)
  <1>1. /\ z.step = Effect /\ z.state = state /\ z.outputs = output /\ z.phase = "closing"
        /\ z.exclusion = j.exclusion
    BY DEF OutcomeSettlement, Settlement
  <1>2. j.exclusion = Held /\ j.scope = "core" BY DEF JournalOK
  <1>3. IsSettlement(z, Step, Output, Held) BY <1>1, <1>2, StepsKnown DEF IsSettlement, RootPhase
  <1>4. k \in Root(Step, Output, Held)
        /\ Wrote(j, k, Step, z.step, EndedRow(j, z), z.phase, z.exclusion)
    BY <1>3, SettleWrites
  <1>5. EndedRow(j, z).state = state /\ EndedRow(j, z).outputs = output BY <1>1 DEF EndedRow
  <1> QED BY <1>1, <1>2, <1>4, <1>5, StepsKnown DEF OutcomeWritten, Wrote

\* An unknown outcome is recorded of an intent only; anything later stays.
LEMMA UnknownSettles ==
    ASSUME NEW h, NEW j \in Root(Step, Output, Held), JournalOK(j, h)
    PROVE  SettledAs(j, SettleIdle(j, "unknown", NoOutput), h)
  <1> DEFINE k == Settle(j, OutcomeSettlement(j, "unknown", NoOutput))
  <1>1. ~Late(j, NoOutput) BY DEF Late
  <1>2. CASE j.step[Effect].state # "intent"
    <2>1. SettleIdle(j, "unknown", NoOutput) = j BY <1>1, <1>2 DEF SettleIdle
    <2> QED BY <2>1 DEF SettledAs
  <1>3. CASE j.step[Effect].state = "intent"
    <2>1. j.step[Consume].state = "none" /\ j.phase = "open" BY <1>3 DEF JournalOK
    <2>2. SettleIdle(j, "unknown", NoOutput) = k BY <1>1, <1>3, <2>1 DEF SettleIdle
    <2>3. OutcomeWritten(j, k, "unknown", NoOutput) BY <1>3, OutcomeWrites DEF Ended, State
    <2>4. JournalOK(k, h) BY <2>1, <2>3 DEF OutcomeWritten, JournalOK
    <2> QED BY <1>3, <2>1, <2>2, <2>3, <2>4 DEF SettledAs, OutcomeWritten
  <1> QED BY <1>2, <1>3

\* The consumption of an output, in the same transaction.
ConsumptionWritten(j, k, output, phase, exclusion) ==
    /\ k \in Root(Step, Output, Held)
    /\ k.scope = j.scope /\ k.phase = phase /\ k.exclusion = exclusion
    /\ k.step[Consume].state = "completed" /\ k.step[Consume].outputs = output
    /\ k.step[Effect] = j.step[Effect]

\* The second half consumes the output, and closes the root unless the outcome is
\* a failure or was unknown.
LEMMA ConsumptionWrites ==
    ASSUME NEW j \in Root(Step, Output, Held), NEW output \in Output, NEW state, NEW late
    PROVE  LET b == Intend(j, Consume, "consume-receipt", Effect)
               z == ConsumeSettlement(b, state, output, late)
               closes == state = "completed" /\ ~late
           IN  ConsumptionWritten(j, Settle(b, z), output, IF closes THEN "closed" ELSE "closing",
                                  IF closes THEN {} ELSE j.exclusion)
  <1> DEFINE b == Intend(j, Consume, "consume-receipt", Effect)
             z == ConsumeSettlement(b, state, output, late)
             k == Settle(b, z)
             closes == state = "completed" /\ ~late
             phase == IF closes THEN "closed" ELSE "closing"
             exclusion == IF closes THEN {} ELSE j.exclusion
  <1>1. b \in Root(Step, Output, Held)
        /\ Wrote(j, b, Step, Consume, IntentRow("consume-receipt", Effect), j.phase, j.exclusion)
    BY StepsKnown, IntendWrites DEF Kind
  <1>2. b.scope = j.scope /\ b.exclusion = j.exclusion /\ b.step[Effect] = j.step[Effect]
    BY <1>1, StepsKnown DEF Wrote
  <1> HIDE DEF b
  <1>3. /\ z.step = Consume /\ z.state = "completed" /\ z.outputs = output /\ z.phase = phase
        /\ z.exclusion = exclusion
    BY <1>2 DEF ConsumeSettlement, Settlement
  <1>4. j.exclusion \in SUBSET Held BY RootParts
  <1> HIDE DEF z
  <1>5. IsSettlement(z, Step, Output, Held)
    BY <1>3, <1>4, StepsKnown DEF IsSettlement, RootPhase, Ended, State
  <1>6. k \in Root(Step, Output, Held)
        /\ Wrote(b, k, Step, z.step, EndedRow(b, z), z.phase, z.exclusion)
    BY <1>1, <1>5, SettleWrites
  <1>7. EndedRow(b, z).state = "completed" /\ EndedRow(b, z).outputs = output BY <1>3 DEF EndedRow
  <1>8. ConsumptionWritten(j, k, output, phase, exclusion)
    BY <1>2, <1>3, <1>6, <1>7, StepsKnown DEF ConsumptionWritten, Wrote
  <1> QED BY <1>8 DEF b, z

\* A result of the host, early, late or repeated, leaves the root in order.
LEMMA ResultSettles ==
    ASSUME NEW h \in HostEnded, NEW j \in Root(Step, Output, Held), JournalOK(j, h)
    PROVE  SettledAs(j, SettleIdle(j, OutcomeOf(h), OutputOf(h)), h)
  <1> DEFINE state == OutcomeOf(h)
             output == OutputOf(h)
             late == Late(j, output)
             ended == IF late THEN j ELSE Settle(j, OutcomeSettlement(j, state, output))
             begun == Intend(ended, Consume, "consume-receipt", Effect)
             z == ConsumeSettlement(begun, state, output, late)
             closes == state = "completed" /\ ~late
             k == Settle(begun, z)
  <1>1. state \in {"completed", "failed"} /\ (state = "completed" <=> h = "done")
        /\ output \in Output /\ output # NoOutput
    BY OutputsKnown
  <1>2. SettleIdle(j, state, output) = j
        \/ /\ SettleIdle(j, state, output) = k
           /\ j.step[Effect].state = "intent" \/ late
           /\ j.step[Consume].state = "none"
    BY <1>1 DEF SettleIdle
  <1>3. CASE SettleIdle(j, state, output) = j BY <1>3 DEF SettledAs
  <1>4. CASE /\ SettleIdle(j, state, output) = k
             /\ j.step[Effect].state = "intent" \/ late
             /\ j.step[Consume].state = "none"
    <2>1. /\ ended \in Root(Step, Output, Held) /\ ended.scope = "core" /\ ended.exclusion = Held
          /\ IF late THEN ended.step[Effect].state = "unknown" /\ ended.step[Effect].outputs = NoOutput
                     ELSE ended.step[Effect].state = state /\ ended.step[Effect].outputs = output
      <3>1. CASE late
        <4>1. j.step[Effect].state = "unknown" /\ j.step[Effect].outputs = NoOutput BY <3>1 DEF Late
        <4> QED BY <3>1, <4>1 DEF JournalOK
      <3>2. CASE ~late
        <4>1. OutcomeWritten(j, Settle(j, OutcomeSettlement(j, state, output)), state, output)
          BY <1>1, <1>4, <3>2, OutcomeWrites DEF Ended, State
        <4> QED BY <3>2, <4>1 DEF OutcomeWritten
      <3> QED BY <3>1, <3>2
    <2>2. j.phase # "absent" /\ j.step[Effect].state # "completed" BY <1>4 DEF JournalOK, Late
    <2> HIDE DEF ended, late, state, output
    <2>3. ConsumptionWritten(ended, k, output, IF closes THEN "closed" ELSE "closing",
                             IF closes THEN {} ELSE ended.exclusion)
      BY <1>1, <2>1, ConsumptionWrites
    <2> HIDE DEF k
    <2>4. JournalOK(k, h)
      <3>1. CASE late BY <1>1, <2>1, <2>3, <3>1 DEF ConsumptionWritten, JournalOK, output
      <3>2. CASE ~late BY <1>1, <2>1, <2>3, <3>2 DEF ConsumptionWritten, JournalOK, output
      <3> QED BY <3>1, <3>2
    <2>5. k.phase # "absent" /\ k \in Root(Step, Output, Held) BY <2>3 DEF ConsumptionWritten
    <2> QED BY <1>4, <2>2, <2>4, <2>5 DEF SettledAs, state, output
  <1> QED BY <1>2, <1>3, <1>4

-----------------------------------------------------------------------------
(* What an action that leaves some variables alone cannot disturb *)

\* Each part of the invariant depends on few variables.
LEMMA Framed ==
    ASSUME IdleInv
    PROVE  /\ UNCHANGED <<root, host>> => JournalsOK'
           /\ UNCHANGED <<slot, sent, root, recovery, producer>> => SlotsOK'
           /\ UNCHANGED slot => OneWaiter'
           /\ UNCHANGED <<sent, host, root, receiver>> => ContactsOK'
           /\ UNCHANGED <<resident, root, owner, producer>> => OwnerOK'
           /\ UNCHANGED <<producer, owner, recovery, root, sent, slot>> => ProducerOK'
           /\ UNCHANGED <<reconciler, root>> => ReconcilerOK'
           /\ UNCHANGED root => CloseFirst'
           /\ UNCHANGED <<resident, epoch, host>> => RemovedIsGone'
  <1> USE DEF IdleInv, Exists, EffectState
  <1>1. UNCHANGED <<root, host>> => JournalsOK' BY DEF JournalsOK
  <1>2. UNCHANGED <<slot, sent, root, recovery, producer>> => SlotsOK' BY DEF SlotsOK, SlotOK
  <1>3. UNCHANGED slot => OneWaiter' BY DEF OneWaiter
  <1>4. UNCHANGED <<sent, host, root, receiver>> => ContactsOK' BY DEF ContactsOK, ContactOK
  <1>5. UNCHANGED <<resident, root, owner, producer>> => OwnerOK' BY DEF OwnerOK, NoRoots
  <1>6. UNCHANGED <<producer, owner, recovery, root, sent, slot>> => ProducerOK' BY DEF ProducerOK, NoRoots
  <1>7. UNCHANGED <<reconciler, root>> => ReconcilerOK' BY DEF ReconcilerOK
  <1>8. UNCHANGED root => CloseFirst' BY DEF CloseFirst
  <1>9. UNCHANGED <<resident, epoch, host>> => RemovedIsGone' BY DEF RemovedIsGone
  <1> QED BY <1>1, <1>2, <1>3, <1>4, <1>5, <1>6, <1>7, <1>8, <1>9

\* While no root exists, no slot is in use: a pending one has its producer waiting.
LEMMA IdleSlots ==
    ASSUME IdleInv, NEW o \in Op
    PROVE  /\ recovery # "wait" => ~slot[o].awaited
           /\ producer.pc # "waiting" /\ ~slot[o].awaited => ~slot[o].pending \/ slot[o].ended
  BY DEF IdleInv, SlotsOK, SlotOK

\* A completed effect has a root.
LEMMA CompletedExists ==
    ASSUME IdleInv, NEW o \in Op
    PROVE  EffectState(o) = "completed" => Exists(o)
  BY DEF IdleInv, JournalsOK, JournalOK, EffectState, Exists

-----------------------------------------------------------------------------
(* The owner *)

\* Claim: an accepting resident has no root, so no producer is at work.
LEMMA ClaimStep == ASSUME IdleInv, Claim PROVE IdleInv'
  <1> USE DEF Claim, dispatch, world
  <1>1. IdleTypeOK' BY DEF IdleInv, IdleTypeOK, Resident, Owner
  <1>2. NoRoots /\ producer.pc = "idle"
    <2>1. NoRoots BY DEF IdleInv, OwnerOK
    <2>2. EffectState("close") # "completed" BY <2>1, CompletedExists DEF NoRoots, Op
    <2>3. producer.by \in {"owner", "reconciler"} BY DEF IdleInv, IdleTypeOK, Producer
    <2> QED BY <2>1, <2>2, <2>3 DEF IdleInv, ProducerOK
  <1>3. OwnerOK' BY <1>2 DEF OwnerOK, NoRoots, Exists
  <1>4. ProducerOK' BY <1>2 DEF IdleInv, ProducerOK, NoRoots, Exists
  <1>5. RemovedIsGone' BY DEF RemovedIsGone
  <1> QED BY <1>1, <1>3, <1>4, <1>5, Framed DEF IdleInv

\* RetireOrphan: nothing is in the recovery map, so no producer is at work.
LEMMA RetireOrphanStep == ASSUME IdleInv, RetireOrphan PROVE IdleInv'
  <1> USE DEF RetireOrphan, dispatch, world
  <1>1. IdleTypeOK' BY DEF IdleInv, IdleTypeOK, Owner
  <1>2. NoRoots /\ producer.pc = "idle" BY DEF IdleInv, ProducerOK, NoRoots
  <1>3. OwnerOK' BY <1>2 DEF IdleInv, OwnerOK, NoRoots, Exists
  <1>4. ProducerOK' BY <1>2 DEF IdleInv, ProducerOK, NoRoots, Exists
  <1> QED BY <1>1, <1>3, <1>4, Framed DEF IdleInv

\* EvictAbsent: the fresh epoch is the proof.
LEMMA EvictAbsentStep == ASSUME IdleInv, EvictAbsent PROVE IdleInv'
  <1> USE DEF EvictAbsent, dispatch, world
  <1>1. IdleTypeOK' BY DEF IdleInv, IdleTypeOK, Resident
  <1>2. OwnerOK' BY DEF IdleInv, OwnerOK, NoRoots, Exists
  <1>3. RemovedIsGone' BY DEF RemovedIsGone, FreshEpoch
  <1> QED BY <1>1, <1>2, <1>3, Framed DEF IdleInv

\* DeleteSandbox: the producer starts while no root exists and no slot is used.
LEMMA DeleteSandboxStep == ASSUME IdleInv, NEW b \in BOOLEAN, DeleteSandbox(b) PROVE IdleInv'
  <1> USE DEF DeleteSandbox, dispatch, world
  <1>1. /\ producer'.pc = "intend" /\ producer'.by = "owner" /\ producer' \in Producer
        /\ owner'.pc = "producing" /\ owner' \in Owner
    BY DEF IdleInv, IdleTypeOK, IdleProducer, Producer, Op, Owner
  <1>2. IdleTypeOK' BY <1>1 DEF IdleInv, IdleTypeOK
  <1>3. NoRoots /\ producer.pc = "idle" BY DEF IdleInv, OwnerOK
  <1>4. SlotsOK' BY <1>3 DEF IdleInv, SlotsOK, SlotOK, NoRoots, Exists
  <1>5. OwnerOK' BY <1>1, <1>3 DEF OwnerOK, NoRoots, Exists
  <1>6. ProducerOK' BY <1>1, <1>3 DEF ProducerOK, NoRoots, Exists
  <1> QED BY <1>2, <1>4, <1>5, <1>6, Framed DEF IdleInv

\* RetireAbsent: the fresh epoch is the proof.
LEMMA RetireAbsentStep == ASSUME IdleInv, RetireAbsent PROVE IdleInv'
  <1> USE DEF RetireAbsent, dispatch, world
  <1>1. IdleTypeOK' BY DEF IdleInv, IdleTypeOK, Resident, Owner, IdleOwner
  <1>2. NoRoots /\ producer.pc = "idle" BY DEF IdleInv, OwnerOK
  <1>3. OwnerOK' BY <1>2 DEF OwnerOK, NoRoots, Exists, IdleOwner
  <1>4. ProducerOK' BY <1>2 DEF IdleInv, ProducerOK, NoRoots, Exists
  <1>5. RemovedIsGone' BY DEF IdleInv, RemovedIsGone, FreshEpoch
  <1> QED BY <1>1, <1>3, <1>4, <1>5, Framed DEF IdleInv

\* JoinEnds: with the producer gone, a claim that is still reversible has no root.
LEMMA JoinEndsStep == ASSUME IdleInv, JoinEnds PROVE IdleInv'
  <1> USE DEF JoinEnds, dispatch, world
  <1>1. IdleTypeOK' BY DEF IdleInv, IdleTypeOK, Resident, Owner, IdleOwner
  <1>2. producer.pc = "idle" \/ producer.by # "owner" BY DEF IdleInv, ProducerOK
  <1>3. owner.evicts /\ resident = "claimed" => NoRoots BY <1>2 DEF IdleInv, OwnerOK
  <1>4. OwnerOK' BY <1>3 DEF IdleInv, OwnerOK, NoRoots, Exists, IdleOwner
  <1>5. ProducerOK' BY <1>2 DEF IdleInv, ProducerOK, NoRoots, Exists, EffectState
  <1>6. RemovedIsGone' BY DEF IdleInv, RemovedIsGone
  <1> QED BY <1>1, <1>4, <1>5, <1>6, Framed DEF IdleInv

-----------------------------------------------------------------------------
(* The producer *)

\* The producer goes on, and nothing but the resident changes with it: what the
\* later steps of an effect have in common.
LEMMA ProducerMoves ==
    ASSUME IdleInv, producer' \in Producer, producer.pc \notin {"idle", "waiting"},
           producer'.pc \notin {"idle", "intend", "deliver"},
           producer'.op = producer.op, producer'.by = producer.by,
           UNCHANGED <<root, owner, recovery, slot, sent>>
    PROVE  SlotsOK' /\ ProducerOK'
  <1>1. SlotsOK' BY IdleSlots DEF IdleInv, SlotsOK, SlotOK, Exists, ProducerOK
  <1>2. ProducerOK' BY DEF IdleInv, ProducerOK, EffectState
  <1> QED BY <1>1, <1>2

\* PublishIntent: what has no root was neither delivered nor queued, and a delete
\* follows a completed close or no close at all.
LEMMA PublishIntentStep == ASSUME IdleInv, PublishIntent PROVE IdleInv'
  <1> USE DEF PublishIntent, dispatch, world
  <1> DEFINE op == producer.op
  <1>0. /\ producer \in Producer /\ op \in Op /\ producer.by \in {"owner", "reconciler"}
        /\ root \in [Op -> Root(Step, Output, Held)]
    BY DEF IdleInv, IdleTypeOK, Producer
  <1>1. CASE CanIntendIdle(op, producer.after)
    <2>1. /\ producer'.pc = "deliver" /\ producer'.op = op /\ producer'.by = producer.by
          /\ producer' \in Producer
      BY <1>0, <1>1 DEF Producer
    <2>2. ~Exists(op) /\ resident # "accepting" BY <1>1 DEF CanIntendIdle, Draining
    <2>3. /\ root' \in [Op -> Root(Step, Output, Held)]
          /\ Opened(root'[op], host[op])
          /\ \A p \in Op \ {op} : root'[p] = root[p]
      BY <1>0, <1>1, IntendOpens
    <2>4. IdleTypeOK' BY <2>1, <2>3 DEF IdleInv, IdleTypeOK
    <2>5. Exists(producer.op)' /\ \A p \in Op : Exists(p) => Exists(p)' /\ EffectState(p)' = EffectState(p)
      BY <1>0, <2>1, <2>2, <2>3 DEF Exists, EffectState, Opened
    <2>6. JournalsOK' BY <2>3 DEF IdleInv, JournalsOK, Opened
    <2>7. SlotsOK' BY <2>5 DEF IdleInv, SlotsOK, SlotOK
    <2>8. ContactsOK' BY <2>5 DEF IdleInv, ContactsOK, ContactOK
    <2>9. OwnerOK'
      <3>1. owner.pc # "deleting" BY DEF IdleInv, OwnerOK
      <3>2. producer.by = "owner" \/ ~NoRoots
        BY <1>0, CompletedExists DEF IdleInv, ProducerOK, NoRoots, Op
      <3>3. owner.evicts /\ resident = "claimed" => producer.by = "owner"
        BY <3>2 DEF IdleInv, OwnerOK
      <3> QED BY <2>1, <2>2, <3>1, <3>3 DEF OwnerOK
    <2>10. sent[op] = 0 /\ ~slot[op].command
      <3>1. sent[op] \in {0, 1} BY <1>0 DEF IdleInv, IdleTypeOK
      <3> QED BY <1>0, <2>2, <3>1 DEF IdleInv, ContactsOK, ContactOK, SlotsOK, SlotOK
    <2>11. ProducerOK'
      <3>1. recovery' = "effect" /\ (producer.by = "owner" => owner'.pc = "producing")
        BY DEF IdleInv, ProducerOK
      <3>2. producer.by = "reconciler" => op = "delete" /\ EffectState("close")' = "completed"
        BY <2>3 DEF IdleInv, ProducerOK, EffectState, Op
      <3>3. (sent[producer.op] = 0 /\ Exists(producer.op) /\ ~slot[producer.op].command)'
        BY <2>1, <2>5, <2>10
      <3> QED BY <2>1, <3>1, <3>2, <3>3 DEF ProducerOK
    <2>12. ReconcilerOK'
      <3>1. reconciler.todo \subseteq Op /\ reconciler.op \in Op BY DEF IdleInv, IdleTypeOK, Reconciler
      <3> QED BY <2>5, <3>1 DEF IdleInv, ReconcilerOK
    <2>13. CloseFirst'
      <3>1. CASE producer.by = "owner"
        <4>1. NoRoots BY <3>1 DEF IdleInv, ProducerOK
        <4>2. \A p \in Op \ {op} : ~Exists(p)' BY <2>3, <4>1 DEF NoRoots, Exists
        <4> QED BY <1>0, <4>2 DEF CloseFirst, Op
      <3>2. CASE producer.by = "reconciler"
        BY <2>3, <3>2 DEF IdleInv, ProducerOK, CloseFirst, EffectState, Op
      <3> QED BY <1>0, <3>1, <3>2
    <2>14. OneWaiter' /\ RemovedIsGone' BY Framed
    <2> QED BY <2>4, <2>6, <2>7, <2>8, <2>9, <2>11, <2>12, <2>13, <2>14 DEF IdleInv
  <1>2. CASE ~CanIntendIdle(op, producer.after)
    <2>1. /\ producer'.pc = "clear" /\ producer'.op = op /\ producer'.by = producer.by
          /\ producer' \in Producer
      BY <1>0, <1>2 DEF Producer
    <2>2. UNCHANGED root BY <1>2
    <2>3. IdleTypeOK' BY <2>1, <2>2 DEF IdleInv, IdleTypeOK
    <2>4. SlotsOK' /\ ProducerOK' BY <2>1, <2>2, ProducerMoves
    <2>5. OwnerOK' BY <2>2 DEF IdleInv, OwnerOK, NoRoots, Exists
    <2> QED BY <2>2, <2>3, <2>4, <2>5, Framed DEF IdleInv
  <1> QED BY <1>1, <1>2

\* IntentFails: the effect ends without a trace.
LEMMA IntentFailsStep == ASSUME IdleInv, IntentFails PROVE IdleInv'
  <1> USE DEF IntentFails, dispatch
  <1>1. /\ producer'.pc = "clear" /\ producer'.op = producer.op /\ producer'.by = producer.by
        /\ producer' \in Producer
    BY DEF IdleInv, IdleTypeOK, Producer
  <1>2. IdleTypeOK' BY <1>1 DEF IdleInv, IdleTypeOK
  <1>3. SlotsOK' /\ ProducerOK' BY <1>1, ProducerMoves
  <1>4. OwnerOK' BY DEF IdleInv, OwnerOK, NoRoots, Exists
  <1> QED BY <1>2, <1>3, <1>4, Framed DEF IdleInv

\* Enqueue: the command has never been delivered.
LEMMA EnqueueStep == ASSUME IdleInv, Enqueue PROVE IdleInv'
  <1> USE DEF Enqueue, world
  <1> DEFINE op == producer.op
  <1>0. producer \in Producer /\ op \in Op /\ slot \in [Op -> Slot] BY DEF IdleInv, IdleTypeOK, Producer
  <1>1. /\ producer'.pc = "waiting" /\ producer'.op = op /\ producer'.by = producer.by
        /\ producer' \in Producer
    BY <1>0 DEF Producer
  <1>2. /\ slot'[op] = CommandSlot /\ slot' \in [Op -> Slot]
        /\ \A p \in Op \ {op} : slot'[p] = slot[p]
    BY <1>0 DEF CommandSlot, NoSlot, Slot
  <1>3. IdleTypeOK' BY <1>1, <1>2 DEF IdleInv, IdleTypeOK
  <1>4. recovery = "effect" /\ sent[op] = 0 /\ Exists(op) BY DEF IdleInv, ProducerOK
  <1>5. SlotsOK'
    <2> SUFFICES ASSUME NEW p \in Op PROVE SlotOK(p)' BY DEF SlotsOK
    <2>1. CASE p = op BY <1>1, <1>2, <1>4, <2>1 DEF SlotOK, Exists, CommandSlot, NoSlot
    <2>2. CASE p # op BY <1>2, <2>2 DEF IdleInv, SlotsOK, SlotOK, Exists
    <2> QED BY <2>1, <2>2
  <1>6. OneWaiter' BY <1>0, <1>2 DEF IdleInv, OneWaiter, CommandSlot, NoSlot, Op
  <1>7. OwnerOK' BY <1>1 DEF IdleInv, OwnerOK, NoRoots, Exists
  <1>8. ProducerOK' BY <1>1 DEF IdleInv, ProducerOK, EffectState
  <1> QED BY <1>3, <1>5, <1>6, <1>7, <1>8, Framed DEF IdleInv

\* DeliveryFails: the producer goes to fence the resident.
LEMMA DeliveryFailsStep == ASSUME IdleInv, DeliveryFails PROVE IdleInv'
  <1> USE DEF DeliveryFails, dispatch
  <1>1. /\ producer'.pc = "fence" /\ producer'.op = producer.op /\ producer'.by = producer.by
        /\ producer' \in Producer
    BY DEF IdleInv, IdleTypeOK, Producer
  <1>2. IdleTypeOK' BY <1>1 DEF IdleInv, IdleTypeOK
  <1>3. SlotsOK' /\ ProducerOK' BY <1>1, ProducerMoves
  <1>4. OwnerOK' BY <1>1 DEF IdleInv, OwnerOK, NoRoots, Exists
  <1> QED BY <1>2, <1>3, <1>4, Framed DEF IdleInv

\* Abort: an accepted command keeps its slot, without its producer.
LEMMA AbortStep == ASSUME IdleInv, Abort PROVE IdleInv'
  <1> USE DEF Abort, world
  <1> DEFINE op == producer.op
  <1>0. producer \in Producer /\ op \in Op /\ slot \in [Op -> Slot] BY DEF IdleInv, IdleTypeOK, Producer
  <1>1. /\ producer'.pc = "fence" /\ producer'.op = op /\ producer'.by = producer.by
        /\ producer' \in Producer
    BY <1>0 DEF Producer
  <1>2. \A p \in Op \ {op} : slot'[p] = slot[p] BY <1>0
  <1>3. /\ slot'[op] \in Slot /\ slot' \in [Op -> Slot]
        /\ slot'[op].awaited => slot[op].awaited
        /\ slot'[op].command \/ slot'[op].accepted \/ slot'[op].receiving => slot[op].pending
        /\ slot'[op].command /\ ~slot'[op].accepted => FALSE
        /\ slot'[op].command => slot[op].command
        /\ \/ slot'[op] = NoSlot
           \/ slot'[op].ended /\ slot'[op].pending = slot[op].pending /\ slot[op].accepted
    <2>1. slot[op] \in Slot BY <1>0
    <2>2. SlotOK(op) BY <1>0 DEF IdleInv, SlotsOK
    <2>3. CASE slot[op].accepted
      <3>1. slot'[op] = [slot[op] EXCEPT !.ended = TRUE] BY <1>0, <2>3
      <3> QED BY <1>0, <2>1, <2>2, <2>3, <3>1 DEF Slot, SlotOK
    <2>4. CASE ~slot[op].accepted
      <3>1. slot'[op] = NoSlot BY <1>0, <2>4
      <3> QED BY <1>0, <2>1, <3>1 DEF Slot, NoSlot
    <2> QED BY <2>3, <2>4
  <1>4. IdleTypeOK' BY <1>1, <1>3 DEF IdleInv, IdleTypeOK
  <1>5. SlotsOK'
    <2> SUFFICES ASSUME NEW p \in Op PROVE SlotOK(p)' BY DEF SlotsOK
    <2>1. SlotOK(p) BY DEF IdleInv, SlotsOK
    <2>2. CASE p = op BY <1>3, <2>1, <2>2 DEF SlotOK, Exists, NoSlot
    <2>3. CASE p # op BY <1>2, <2>1, <2>3 DEF SlotOK, Exists
    <2> QED BY <2>2, <2>3
  <1>6. OneWaiter' BY <1>0, <1>2, <1>3 DEF IdleInv, OneWaiter, Op
  <1>7. OwnerOK' BY <1>1 DEF IdleInv, OwnerOK, NoRoots, Exists
  <1>8. ProducerOK' BY <1>1 DEF IdleInv, ProducerOK, EffectState
  <1> QED BY <1>4, <1>5, <1>6, <1>7, <1>8, Framed DEF IdleInv

\* Drain: the resident can no longer be taken back.
LEMMA DrainStep == ASSUME IdleInv, Drain PROVE IdleInv'
  <1> USE DEF Drain, dispatch, world
  <1>1. /\ producer'.pc = "clear" /\ producer'.op = producer.op /\ producer'.by = producer.by
        /\ producer' \in Producer
    BY DEF IdleInv, IdleTypeOK, Producer
  <1>2. resident' \in {"fenced", "removed"} /\ (resident' = "removed" => resident = "removed") BY DEF Fence
  <1>3. IdleTypeOK' BY <1>1, <1>2 DEF IdleInv, IdleTypeOK, Resident
  <1>4. SlotsOK' /\ ProducerOK' BY <1>1, ProducerMoves
  <1>5. OwnerOK' BY <1>2 DEF IdleInv, OwnerOK, NoRoots, Exists
  <1>6. RemovedIsGone' BY <1>2 DEF IdleInv, RemovedIsGone
  <1> QED BY <1>3, <1>4, <1>5, <1>6, Framed DEF IdleInv

\* FenceResident: the same for an effect that failed.
LEMMA FenceResidentStep == ASSUME IdleInv, FenceResident PROVE IdleInv'
  <1> USE DEF FenceResident, dispatch, world
  <1>1. /\ producer'.pc \in {"clear", "unknown"} /\ producer'.op = producer.op /\ producer'.by = producer.by
        /\ producer' \in Producer
    BY DEF IdleInv, IdleTypeOK, Producer
  <1>2. resident' \in {"fenced", "removed"} /\ (resident' = "removed" => resident = "removed") BY DEF Fence
  <1>3. IdleTypeOK' BY <1>1, <1>2 DEF IdleInv, IdleTypeOK, Resident
  <1>4. SlotsOK' /\ ProducerOK' BY <1>1, ProducerMoves
  <1>5. OwnerOK' BY <1>2 DEF IdleInv, OwnerOK, NoRoots, Exists
  <1>6. RemovedIsGone' BY <1>2 DEF IdleInv, RemovedIsGone
  <1> QED BY <1>3, <1>4, <1>5, <1>6, Framed DEF IdleInv

\* A settlement changes one root and makes none appear or disappear.
LEMMA RootSettles ==
    ASSUME IdleInv, NEW o \in Op, NEW k, SettledAs(root[o], k, host[o]), root' = [root EXCEPT ![o] = k],
           UNCHANGED <<host, sent>>
    PROVE  /\ root' \in [Op -> Root(Step, Output, Held)]
           /\ JournalsOK'
           /\ CloseFirst'
           /\ \A p \in Op : Exists(p)' <=> Exists(p)
           /\ NoRoots' <=> NoRoots
           /\ \A p \in Op : EffectState(p) = "completed" => EffectState(p)' = "completed"
  <1>0. root \in [Op -> Root(Step, Output, Held)] BY DEF IdleInv, IdleTypeOK
  <1>1. root'[o] = k /\ \A p \in Op \ {o} : root'[p] = root[p] BY <1>0
  <1>2. root' \in [Op -> Root(Step, Output, Held)] BY <1>0 DEF SettledAs
  <1>3. JournalsOK' BY <1>1 DEF IdleInv, JournalsOK, SettledAs
  <1>4. \A p \in Op : Exists(p)' <=> Exists(p) BY <1>1 DEF Exists, SettledAs
  <1>5. \A p \in Op : EffectState(p) = "completed" => EffectState(p)' = "completed"
    BY <1>1 DEF EffectState, SettledAs
  <1>6. CloseFirst' BY <1>4, <1>5 DEF IdleInv, CloseFirst, Op
  <1>7. NoRoots' <=> NoRoots BY <1>4 DEF NoRoots
  <1> QED BY <1>2, <1>3, <1>4, <1>5, <1>6, <1>7

\* SettleUnknown: writes the producer's root only.
LEMMA SettleUnknownStep == ASSUME IdleInv, SettleUnknown PROVE IdleInv'
  <1> USE DEF SettleUnknown, dispatch, world
  <1> DEFINE op == producer.op
             k == SettleIdle(root[op], "unknown", NoOutput)
  <1>0. /\ producer \in Producer /\ op \in Op /\ root[op] \in Root(Step, Output, Held)
        /\ JournalOK(root[op], host[op])
    BY DEF IdleInv, IdleTypeOK, Producer, JournalsOK
  <1>1. /\ producer'.pc = "clear" /\ producer'.op = op /\ producer'.by = producer.by
        /\ producer' \in Producer
    BY <1>0 DEF Producer
  <1>2. SettledAs(root[op], k, host[op]) BY <1>0, UnknownSettles
  <1> HIDE DEF k
  <1>3. root' = [root EXCEPT ![op] = k] BY DEF k
  <1>4. /\ root' \in [Op -> Root(Step, Output, Held)] /\ JournalsOK' /\ CloseFirst'
        /\ \A p \in Op : Exists(p)' <=> Exists(p)
        /\ NoRoots' <=> NoRoots
        /\ \A p \in Op : EffectState(p) = "completed" => EffectState(p)' = "completed"
    BY <1>0, <1>2, <1>3, RootSettles
  <1>5. IdleTypeOK' BY <1>1, <1>4 DEF IdleInv, IdleTypeOK
  <1>6. SlotsOK' BY <1>4, IdleSlots DEF IdleInv, SlotsOK, SlotOK
  <1>7. ContactsOK' BY <1>4 DEF IdleInv, ContactsOK, ContactOK
  <1>8. OwnerOK' BY <1>4 DEF IdleInv, OwnerOK
  <1>9. ProducerOK' BY <1>1, <1>4 DEF IdleInv, ProducerOK, Op
  <1>10. ReconcilerOK'
    <2>1. reconciler.todo \subseteq Op /\ reconciler.op \in Op BY DEF IdleInv, IdleTypeOK, Reconciler
    <2> QED BY <1>4, <2>1 DEF IdleInv, ReconcilerOK
  <1>11. OneWaiter' /\ RemovedIsGone' BY Framed
  <1> QED BY <1>4, <1>5, <1>6, <1>7, <1>8, <1>9, <1>10, <1>11 DEF IdleInv

\* Clear: a claim is taken back only if it never had a root, because a failed
\* effect with a root has fenced the resident before.
LEMMA ClearStep == ASSUME IdleInv, Clear PROVE IdleInv'
  <1> USE DEF Clear, RecoveryCleared, dispatch, world
  <1>0. /\ producer \in Producer /\ owner \in Owner /\ reconciler \in Reconciler /\ resident \in Resident
        /\ producer.by \in {"owner", "reconciler"}
    BY DEF IdleInv, IdleTypeOK, Producer
  <1>1. producer'.pc = "idle" /\ producer' \in Producer BY DEF IdleProducer, Producer, Op
  <1>2. /\ owner' \in Owner /\ owner'.pc # "deleting"
        /\ owner'.evicts => owner.evicts
    <2>1. owner.pc # "deleting" BY DEF IdleInv, OwnerOK
    <2>2. owner' = owner \/ owner' = [owner EXCEPT !.pc = "joining"] \/ owner' = IdleOwner OBVIOUS
    <2>3. CASE owner' = [owner EXCEPT !.pc = "joining"] BY <1>0, <2>3 DEF Owner
    <2>4. CASE owner' = IdleOwner BY <2>4 DEF Owner, IdleOwner
    <2> QED BY <1>0, <2>1, <2>2, <2>3, <2>4
  <1>3. /\ resident' \in Resident
        /\ resident' = resident \/ (resident' = "accepting" /\ owner.evicts /\ resident = "claimed")
    BY <1>0 DEF Resident
  <1>4. /\ reconciler' \in Reconciler /\ reconciler'.todo = reconciler.todo
        /\ reconciler'.op = reconciler.op
        /\ reconciler'.pc = "selected" => reconciler.pc = "selected"
    BY <1>0 DEF Reconciler
  <1>5. IdleTypeOK' BY <1>1, <1>2, <1>3, <1>4 DEF IdleInv, IdleTypeOK
  <1>6. owner.evicts /\ resident = "claimed" => NoRoots BY DEF IdleInv, OwnerOK
  <1>7. OwnerOK' BY <1>2, <1>3, <1>6 DEF IdleInv, OwnerOK, NoRoots, Exists
  <1>8. SlotsOK' BY DEF IdleInv, SlotsOK, SlotOK, ProducerOK, Exists
  <1>9. ProducerOK' BY <1>1 DEF ProducerOK
  <1>10. ReconcilerOK' BY <1>4 DEF IdleInv, ReconcilerOK, Exists
  <1>11. RemovedIsGone' BY <1>3 DEF IdleInv, RemovedIsGone
  <1> QED BY <1>5, <1>7, <1>8, <1>9, <1>10, <1>11, Framed DEF IdleInv

-----------------------------------------------------------------------------
(* The reconciler *)

\* Maintain: only wakes the reconciler.
LEMMA MaintainStep == ASSUME IdleInv, Maintain PROVE IdleInv'
  <1> USE DEF Maintain, dispatch, world
  <1>1. IdleTypeOK' BY DEF IdleInv, IdleTypeOK
  <1> QED BY <1>1, Framed DEF IdleInv

\* PassBegins: the candidates are roots.
LEMMA PassBeginsStep == ASSUME IdleInv, PassBegins PROVE IdleInv'
  <1> USE DEF PassBegins, dispatch, world
  <1>1. /\ reconciler'.pc = "pass" /\ reconciler'.todo = Candidates /\ reconciler' \in Reconciler
    BY DEF IdleReconciler, Reconciler, Candidates, Op, Action
  <1>2. IdleTypeOK' BY <1>1 DEF IdleInv, IdleTypeOK
  <1>3. ReconcilerOK' BY <1>1 DEF ReconcilerOK, Candidates, Exists
  <1> QED BY <1>2, <1>3, Framed DEF IdleInv

\* PassEnds: nothing but the owner's join depends on it.
LEMMA PassEndsStep == ASSUME IdleInv, PassEnds PROVE IdleInv'
  <1> USE DEF PassEnds, dispatch, world
  <1>1. reconciler'.pc = "idle" /\ reconciler'.todo = {} /\ reconciler' \in Reconciler
    BY DEF IdleReconciler, Reconciler, Op, Action
  <1>2. /\ owner' \in Owner /\ owner'.evicts = owner.evicts
        /\ owner.pc \in {"deleting", "producing"} \/ owner'.pc \in {"deleting", "producing"} =>
              owner'.pc = owner.pc
    BY DEF IdleInv, IdleTypeOK, Owner
  <1>3. IdleTypeOK' BY <1>1, <1>2 DEF IdleInv, IdleTypeOK
  <1>4. OwnerOK' BY <1>2 DEF IdleInv, OwnerOK, NoRoots, Exists
  <1>5. ProducerOK' BY <1>2 DEF IdleInv, ProducerOK, NoRoots, Exists, EffectState
  <1>6. ReconcilerOK' BY <1>1 DEF ReconcilerOK
  <1> QED BY <1>3, <1>4, <1>5, <1>6, Framed DEF IdleInv

\* Select: a root never disappears, so the choice may be stale but has a root.
LEMMA SelectStep == ASSUME IdleInv, NEW o \in Op, Select(o) PROVE IdleInv'
  <1> USE DEF Select, dispatch, world
  <1> DEFINE action == IF recovery = "none" THEN Selected(o) ELSE "none"
  <1>1. action \in Action BY DEF Selected, Action
  <1>2. root[o].revision \in Nat BY RootParts DEF IdleInv, IdleTypeOK
  <1> HIDE DEF action
  <1>3. PICK pc \in {"pass", "selected"}, todo \in SUBSET reconciler.todo, revision \in Nat :
           reconciler' = [reconciler EXCEPT !.todo = todo, !.op = o, !.action = action, !.pc = pc,
                                            !.revision = revision]
    <2>1. reconciler.todo \ {o} \in SUBSET reconciler.todo OBVIOUS
    <2>2. (IF action = "none" THEN "pass" ELSE "selected") \in {"pass", "selected"} OBVIOUS
    <2> QED BY <1>2, <2>1, <2>2 DEF action
  <1>4. reconciler \in Reconciler /\ reconciler.todo \in SUBSET Op BY DEF IdleInv, IdleTypeOK, Reconciler
  <1>5. /\ reconciler' \in Reconciler /\ reconciler'.todo \subseteq reconciler.todo /\ reconciler'.op = o
    <2>1. todo \in SUBSET Op BY <1>4
    <2> QED BY <1>1, <1>3, <1>4, <2>1 DEF Reconciler
  <1>6. IdleTypeOK' BY <1>5 DEF IdleInv, IdleTypeOK
  <1>7. ReconcilerOK' BY <1>5 DEF IdleInv, ReconcilerOK, Exists
  <1> QED BY <1>6, <1>7, Framed DEF IdleInv

\* The pass goes on with the next root.
LEMMA PassResumes ==
    ASSUME IdleInv, reconciler' = [reconciler EXCEPT !.pc = "pass"], UNCHANGED root
    PROVE  reconciler' \in Reconciler /\ ReconcilerOK'
  <1>1. reconciler'.pc = "pass" /\ reconciler'.todo = reconciler.todo /\ reconciler' \in Reconciler
    BY DEF IdleInv, IdleTypeOK, Reconciler
  <1> QED BY <1>1 DEF IdleInv, ReconcilerOK, Exists

\* AdvanceRefused: the pass goes on.
LEMMA AdvanceRefusedStep == ASSUME IdleInv, AdvanceRefused PROVE IdleInv'
  <1> USE DEF AdvanceRefused, dispatch, world
  <1>1. reconciler' \in Reconciler /\ ReconcilerOK' BY PassResumes
  <1>2. IdleTypeOK' BY <1>1 DEF IdleInv, IdleTypeOK
  <1> QED BY <1>1, <1>2, Framed DEF IdleInv

\* AdvanceDelete: the recovery map is empty, so it replaces no producer.
LEMMA AdvanceDeleteStep == ASSUME IdleInv, AdvanceDelete PROVE IdleInv'
  <1> USE DEF AdvanceDelete, Current, dispatch, world
  <1>0. reconciler \in Reconciler /\ reconciler.revision \in Nat BY DEF IdleInv, IdleTypeOK, Reconciler
  <1>1. /\ producer'.pc = "intend" /\ producer'.op = "delete" /\ producer'.by = "reconciler"
        /\ producer' \in Producer
    BY <1>0 DEF IdleProducer, Producer, Op
  <1>2. reconciler' \in Reconciler /\ reconciler'.pc = "producing" /\ reconciler'.todo = reconciler.todo
    BY <1>0 DEF Reconciler
  <1>3. IdleTypeOK' BY <1>1, <1>2 DEF IdleInv, IdleTypeOK
  <1>4. producer.pc = "idle" BY DEF IdleInv, ProducerOK
  <1>5. EffectState("close") = "completed" /\ ~NoRoots
    BY CompletedExists DEF Permitted, ConsumedProof, NoRoots, Op
  <1>6. SlotsOK' BY <1>4 DEF IdleInv, SlotsOK, SlotOK, Exists
  <1>7. OwnerOK' BY <1>4, <1>5 DEF IdleInv, OwnerOK, NoRoots, Exists
  <1>8. ProducerOK' BY <1>1, <1>5 DEF ProducerOK, EffectState
  <1>9. ReconcilerOK' BY <1>2 DEF IdleInv, ReconcilerOK, Exists
  <1> QED BY <1>3, <1>6, <1>7, <1>8, <1>9, Framed DEF IdleInv

\* AdvanceResultOnly: the recovery map is empty, so nobody else awaits a result.
LEMMA AdvanceResultOnlyStep == ASSUME IdleInv, AdvanceResultOnly PROVE IdleInv'
  <1> USE DEF AdvanceResultOnly, Current, world
  <1> DEFINE op == reconciler.op
  <1>0. op \in Op /\ slot \in [Op -> Slot] BY DEF IdleInv, IdleTypeOK, Reconciler
  <1>1. reconciler' \in Reconciler /\ ReconcilerOK' BY PassResumes
  <1>2. producer.pc = "idle" /\ Exists(op) BY DEF IdleInv, ProducerOK, ReconcilerOK
  <1>3. \A p \in Op : ~slot[p].awaited BY IdleSlots
  <1>4. slot' \in [Op -> Slot] /\ SlotOK(reconciler.op)' /\ \A p \in Op \ {op} : slot'[p] = slot[p]
    <2>1. SlotOK(op) /\ slot[op] \in Slot BY <1>0 DEF IdleInv, SlotsOK
    <2>2. reconciler'.op = op BY DEF IdleInv, IdleTypeOK, Reconciler
    <2>3. CASE slot[op].pending
      <3>1. slot'[op] = [slot[op] EXCEPT !.awaited = TRUE] BY <1>0, <2>3
      <3> QED BY <1>0, <1>2, <2>1, <2>2, <2>3, <3>1 DEF Slot, SlotOK, Exists
    <2>4. CASE ~slot[op].pending
      <3>1. slot'[op] = ResultOnlySlot BY <1>0, <2>4
      <3> QED BY <1>0, <1>2, <2>1, <2>2, <3>1 DEF Slot, ResultOnlySlot, NoSlot, SlotOK, Exists
    <2> QED BY <2>3, <2>4
  <1>5. IdleTypeOK' BY <1>1, <1>4 DEF IdleInv, IdleTypeOK
  <1>6. SlotsOK'
    <2> SUFFICES ASSUME NEW p \in Op PROVE SlotOK(p)' BY DEF SlotsOK
    <2>1. reconciler'.op = op BY DEF IdleInv, IdleTypeOK, Reconciler
    <2>2. CASE p = op BY <1>4, <2>1, <2>2
    <2>3. CASE p # op BY <1>3, <1>4, <2>3 DEF IdleInv, SlotsOK, SlotOK, Exists
    <2> QED BY <2>2, <2>3
  <1>7. OneWaiter' BY <1>0, <1>3, <1>4 DEF OneWaiter, Op
  <1>8. ProducerOK' BY <1>2 DEF ProducerOK
  <1> QED BY <1>1, <1>5, <1>6, <1>7, <1>8, Framed DEF IdleInv

\* AdvanceRelease: the completed delete, or the fresh epoch, is the proof.
LEMMA AdvanceReleaseStep == ASSUME IdleInv, AdvanceRelease PROVE IdleInv'
  <1> USE DEF AdvanceRelease, Current, dispatch, world
  <1>1. reconciler' \in Reconciler /\ ReconcilerOK' BY PassResumes
  <1>2. IdleTypeOK' BY <1>1 DEF IdleInv, IdleTypeOK, Resident
  <1>3. OwnerOK' BY DEF IdleInv, OwnerOK, NoRoots, Exists
  <1>4. RemovedIsGone'
    <2>1. EffectState("delete") = "completed" => host["delete"] = "done"
      BY DEF IdleInv, JournalsOK, JournalOK, EffectState, Op
    <2> QED BY <2>1 DEF RemovedIsGone, Permitted, CanRelease, ConsumedProof, FreshEpoch
  <1> QED BY <1>1, <1>2, <1>3, <1>4, Framed DEF IdleInv

\* ReleaseFails: the resident is fenced and kept.
LEMMA ReleaseFailsStep == ASSUME IdleInv, ReleaseFails PROVE IdleInv'
  <1> USE DEF ReleaseFails, Current, dispatch
  <1>1. reconciler' \in Reconciler /\ ReconcilerOK' BY PassResumes
  <1>2. resident' \in {"fenced", "removed"} /\ (resident' = "removed" => resident = "removed") BY DEF Fence
  <1>3. IdleTypeOK' BY <1>1, <1>2 DEF IdleInv, IdleTypeOK, Resident
  <1>4. OwnerOK' BY <1>2 DEF IdleInv, OwnerOK, NoRoots, Exists
  <1>5. RemovedIsGone' BY <1>2 DEF IdleInv, RemovedIsGone
  <1> QED BY <1>1, <1>3, <1>4, <1>5, Framed DEF IdleInv

-----------------------------------------------------------------------------
(* The dispatcher *)

\* t is slot s as a closed connection may leave it.
SameSlot(s, t) ==
    /\ t \in Slot
    /\ t.pending = s.pending /\ t.command = s.command /\ t.accepted = s.accepted
    /\ t.ended = s.ended /\ t.awaited = s.awaited
    /\ t.receiving => s.receiving

\* Slots that only lose their connection.
LEMMA SlotsStay ==
    ASSUME IdleInv, slot' \in [Op -> Slot], \A o \in Op : SameSlot(slot[o], slot'[o]),
           UNCHANGED <<root, sent, recovery, producer, owner>>
    PROVE  SlotsOK' /\ OneWaiter' /\ ProducerOK'
  <1>1. SlotsOK'
    <2> SUFFICES ASSUME NEW o \in Op PROVE SlotOK(o)' BY DEF SlotsOK
    <2>1. SlotOK(o) /\ SameSlot(slot[o], slot'[o]) BY DEF IdleInv, SlotsOK
    <2> QED BY <2>1 DEF SlotOK, SameSlot, Exists
  <1>2. OneWaiter' BY DEF IdleInv, OneWaiter, SameSlot, Op
  <1>3. ProducerOK'
    <2>1. producer.op \in Op BY DEF IdleInv, IdleTypeOK, Producer
    <2> QED BY <2>1 DEF IdleInv, ProducerOK, SameSlot, NoRoots, Exists, EffectState
  <1> QED BY <1>1, <1>2, <1>3

\* A rejection finds its waiter: either the one result-only wait, or the
\* producer that waits for the slot, and never both.
LEMMA RejectKeeps ==
    ASSUME IdleInv, NEW R \in SUBSET Op, \A o \in R : slot[o].pending, Reject(R),
           slot' \in [Op -> Slot], \A o \in R : slot'[o] = NoSlot,
           \A o \in Op \ R : SameSlot(slot[o], slot'[o]),
           UNCHANGED <<root, owner, sent, host, epoch>>
    PROVE  /\ resident' \in Resident /\ producer' \in Producer /\ recovery' \in {"none", "effect", "wait"}
           /\ SlotsOK' /\ OneWaiter' /\ OwnerOK' /\ ProducerOK' /\ RemovedIsGone'
  <1> DEFINE waiting == \E o \in R : slot[o].awaited
             producing == \E o \in R : ~slot[o].awaited /\ ~slot[o].ended
  <1>0. /\ producer \in Producer /\ resident \in Resident /\ recovery \in {"none", "effect", "wait"}
        /\ producer.op \in Op
    BY DEF IdleInv, IdleTypeOK, Producer
  <1>1. /\ recovery' = IF waiting THEN "none" ELSE recovery
        /\ resident' = IF waiting THEN Fence(resident) ELSE resident
        /\ producer' = IF producing THEN [producer EXCEPT !.pc = "fence"] ELSE producer
    BY DEF Reject
  <1>2. waiting => recovery = "wait" /\ producer.pc = "idle" /\ \A o \in Op \ R : ~slot[o].awaited
    BY DEF IdleInv, SlotsOK, SlotOK, ProducerOK, OneWaiter, Op
  <1>3. producing => producer.pc = "waiting" /\ producer.op \in R
    BY DEF IdleInv, SlotsOK, SlotOK
  <1> HIDE DEF waiting, producing
  <1>4. /\ resident' \in Resident /\ resident' \in {resident, "fenced", "removed"}
        /\ resident' = "removed" => resident = "removed"
    BY <1>0, <1>1 DEF Fence, Resident
  <1>5. /\ producer' \in Producer /\ producer'.op = producer.op /\ producer'.by = producer.by
        /\ producer'.pc = IF producing THEN "fence" ELSE producer.pc
    BY <1>0, <1>1 DEF Producer
  <1>6. SlotsOK'
    <2> SUFFICES ASSUME NEW o \in Op PROVE SlotOK(o)' BY DEF SlotsOK
    <2>1. CASE o \in R BY <2>1 DEF SlotOK, NoSlot
    <2>2. CASE o \notin R
      <3>1. SlotOK(o) /\ SameSlot(slot[o], slot'[o]) BY <2>2 DEF IdleInv, SlotsOK
      <3>2. slot'[o].awaited => recovery' = "wait" BY <1>1, <1>2, <2>2, <3>1 DEF SlotOK, SameSlot
      <3>3. slot'[o].pending /\ ~slot'[o].awaited /\ ~slot'[o].ended =>
               producer'.pc = "waiting" /\ producer'.op = o
        BY <1>3, <1>5, <2>2, <3>1 DEF SlotOK, SameSlot
      <3> QED BY <3>1, <3>2, <3>3 DEF SlotOK, SameSlot, Exists
    <2> QED BY <2>1, <2>2
  <1>7. OneWaiter'
    <2>1. \A o \in Op : slot'[o].awaited => slot[o].awaited BY DEF SameSlot, NoSlot
    <2> QED BY <2>1 DEF IdleInv, OneWaiter, Op
  <1>8. OwnerOK'
    <2>1. resident' = "accepting" => NoRoots' BY <1>4 DEF IdleInv, OwnerOK, NoRoots, Exists
    <2>2. owner'.pc = "deleting" => NoRoots' /\ producer'.pc = "idle"
      BY <1>3, <1>5 DEF IdleInv, OwnerOK, NoRoots, Exists
    <2>3. owner'.evicts /\ resident' = "claimed" /\ ~NoRoots' =>
             producer'.by = "owner" /\ producer'.pc \in {"deliver", "waiting", "drain", "fence"}
      BY <1>4, <1>5 DEF IdleInv, OwnerOK, NoRoots, Exists
    <2> QED BY <2>1, <2>2, <2>3 DEF OwnerOK
  <1>9. ProducerOK'
    <2>1. producer'.pc # "idle" => producer.pc # "idle" /\ recovery' = recovery
      BY <1>1, <1>2, <1>3, <1>5
    <2>2. \A o \in Op : slot'[o].command => slot[o].command BY DEF SameSlot, NoSlot
    <2> QED BY <1>0, <1>5, <2>1, <2>2 DEF IdleInv, ProducerOK, NoRoots, Exists, EffectState
  <1>10. RemovedIsGone' BY <1>4 DEF IdleInv, RemovedIsGone
  <1>11. recovery' \in {"none", "effect", "wait"} BY <1>0, <1>1
  <1> QED BY <1>4, <1>5, <1>6, <1>7, <1>8, <1>9, <1>10, <1>11

\* The slots of R are empty afterwards, the others as they were.
LEMMA RemoveClears ==
    ASSUME IdleInv, NEW R \in SUBSET Op
    PROVE  /\ Remove(R) \in [Op -> Slot]
           /\ \A o \in R : Remove(R)[o] = NoSlot
           /\ \A o \in Op \ R : SameSlot(slot[o], Remove(R)[o])
  <1>1. \A o \in Op : slot[o] \in Slot BY DEF IdleInv, IdleTypeOK
  <1>2. NoSlot \in Slot BY DEF NoSlot, Slot
  <1> QED BY <1>1, <1>2 DEF Remove, SameSlot

\* What a poll rejects is pending.
LEMMA RejectedArePending ==
    ASSUME IdleInv
    PROVE  /\ StaleWaits \subseteq Op /\ PriorEffects \subseteq Op /\ \A p \in Op : StaleCommand(p) \subseteq Op
           /\ \A o \in StaleWaits \cup PriorEffects : slot[o].pending
           /\ \A p \in Op : \A o \in StaleCommand(p) : slot[o].pending
  BY DEF IdleInv, SlotsOK, SlotOK, StaleWaits, PriorEffects, StaleCommand

\* PollFences: rejects what earlier connections left.
LEMMA PollFencesStep == ASSUME IdleInv, PollFences PROVE IdleInv'
  <1> DEFINE R == StaleWaits \cup PriorEffects
  <1>1. R \in SUBSET Op /\ \A o \in R : slot[o].pending BY RejectedArePending
  <1>2. /\ slot' = [o \in Op |-> [Remove(R)[o] EXCEPT !.receiving = FALSE]]
        /\ Reject(R)
        /\ UNCHANGED <<root, owner, reconciler, receiver, host, epoch, sent>>
    BY DEF PollFences
  <1> HIDE DEF R
  <1>3. /\ Remove(R) \in [Op -> Slot]
        /\ \A o \in R : Remove(R)[o] = NoSlot
        /\ \A o \in Op \ R : SameSlot(slot[o], Remove(R)[o])
    BY <1>1, RemoveClears
  <1>4. slot' \in [Op -> Slot] BY <1>2, <1>3 DEF Slot
  <1>5. \A o \in R : slot'[o] = NoSlot
    <2>1. \A s \in Slot : s.receiving = FALSE => [s EXCEPT !.receiving = FALSE] = s BY DEF Slot
    <2>2. NoSlot \in Slot /\ NoSlot.receiving = FALSE BY DEF NoSlot, Slot
    <2>3. [NoSlot EXCEPT !.receiving = FALSE] = NoSlot BY <2>1, <2>2
    <2> QED BY <1>1, <1>2, <1>3, <2>3
  <1>6. \A o \in Op \ R : SameSlot(slot[o], slot'[o])
    <2> TAKE o \in Op \ R
    <2>1. SameSlot(slot[o], Remove(R)[o]) /\ Remove(R)[o] \in Slot BY <1>3
    <2>2. slot'[o] = [Remove(R)[o] EXCEPT !.receiving = FALSE] BY <1>2
    <2> HIDE DEF R
    <2> QED BY <2>1, <2>2 DEF SameSlot, Slot
  <1>7. /\ resident' \in Resident /\ producer' \in Producer /\ recovery' \in {"none", "effect", "wait"}
        /\ SlotsOK' /\ OneWaiter' /\ OwnerOK' /\ ProducerOK' /\ RemovedIsGone'
    BY <1>1, <1>2, <1>4, <1>5, <1>6, RejectKeeps
  <1>8. IdleTypeOK' BY <1>2, <1>4, <1>7 DEF IdleInv, IdleTypeOK
  <1> QED BY <1>2, <1>7, <1>8, Framed DEF IdleInv

\* PollEmpty: rejects what belongs to another epoch.
LEMMA PollEmptyStep == ASSUME IdleInv, NEW o \in Op, PollEmpty(o) PROVE IdleInv'
  <1> DEFINE R == StaleWaits \cup StaleCommand(o)
  <1>1. R \in SUBSET Op /\ \A p \in R : slot[p].pending BY RejectedArePending
  <1>2. slot' = Remove(R) /\ Reject(R) /\ UNCHANGED <<root, owner, reconciler, receiver, host, epoch, sent>>
    BY DEF PollEmpty
  <1> HIDE DEF R
  <1>3. /\ slot' \in [Op -> Slot]
        /\ \A p \in R : slot'[p] = NoSlot
        /\ \A p \in Op \ R : SameSlot(slot[p], slot'[p])
    BY <1>1, <1>2, RemoveClears
  <1>4. /\ resident' \in Resident /\ producer' \in Producer /\ recovery' \in {"none", "effect", "wait"}
        /\ SlotsOK' /\ OneWaiter' /\ OwnerOK' /\ ProducerOK' /\ RemovedIsGone'
    BY <1>1, <1>2, <1>3, RejectKeeps
  <1>5. IdleTypeOK' BY <1>2, <1>3, <1>4 DEF IdleInv, IdleTypeOK
  <1> QED BY <1>2, <1>4, <1>5, Framed DEF IdleInv

\* DeliveryRefused: rejects the command's own producer.
LEMMA DeliveryRefusedStep == ASSUME IdleInv, NEW o \in Op, DeliveryRefused(o) PROVE IdleInv'
  <1> DEFINE R == {o}
  <1>1. R \in SUBSET Op /\ \A p \in R : slot[p].pending
    BY DEF DeliveryRefused, Deliverable, IdleInv, SlotsOK, SlotOK
  <1>2. slot' = Remove(R) /\ Reject(R) /\ UNCHANGED <<root, owner, reconciler, receiver, host, epoch, sent>>
    BY DEF DeliveryRefused
  <1> HIDE DEF R
  <1>3. /\ slot' \in [Op -> Slot]
        /\ \A p \in R : slot'[p] = NoSlot
        /\ \A p \in Op \ R : SameSlot(slot[p], slot'[p])
    BY <1>1, <1>2, RemoveClears
  <1>4. /\ resident' \in Resident /\ producer' \in Producer /\ recovery' \in {"none", "effect", "wait"}
        /\ SlotsOK' /\ OneWaiter' /\ OwnerOK' /\ ProducerOK' /\ RemovedIsGone'
    BY <1>1, <1>2, <1>3, RejectKeeps
  <1>5. IdleTypeOK' BY <1>2, <1>3, <1>4 DEF IdleInv, IdleTypeOK
  <1> QED BY <1>2, <1>4, <1>5, Framed DEF IdleInv

\* An undelivered command becomes an accepted one.
AcceptedSlot(s, t) ==
    /\ t \in Slot
    /\ t.pending = s.pending /\ t.command = s.command /\ t.accepted
    /\ t.ended = s.ended /\ t.awaited = s.awaited /\ t.receiving = s.receiving

\* What a delivery, whether it arrives or not, does to slots and history.
LEMMA DeliveryKeeps ==
    ASSUME IdleInv, NEW o \in Op, Deliverable(o), slot' \in [Op -> Slot], AcceptedSlot(slot[o], slot'[o]),
           \A p \in Op \ {o} : slot'[p] = slot[p], sent' = [sent EXCEPT ![o] = @ + 1],
           UNCHANGED <<root, resident, owner, producer, recovery>>
    PROVE  /\ sent' \in [Op -> {0, 1}]
           /\ sent'[o] = 1 /\ \A p \in Op \ {o} : sent'[p] = sent[p]
           /\ SlotsOK' /\ OneWaiter' /\ ProducerOK'
           /\ host[o] = "none" /\ Exists(o)
  <1>0. sent \in [Op -> {0, 1}] /\ producer.op \in Op BY DEF IdleInv, IdleTypeOK, Producer
  <1>1. sent[o] = 0 /\ Exists(o) /\ slot[o].command BY DEF IdleInv, SlotsOK, SlotOK, Deliverable
  <1>2. sent' = [sent EXCEPT ![o] = 1] BY <1>0, <1>1
  <1>3. sent' \in [Op -> {0, 1}] /\ sent'[o] = 1 /\ \A p \in Op \ {o} : sent'[p] = sent[p] BY <1>0, <1>2
  <1>4. host[o] = "none" BY <1>1 DEF IdleInv, ContactsOK, ContactOK
  <1>5. SlotsOK'
    <2> SUFFICES ASSUME NEW p \in Op PROVE SlotOK(p)' BY DEF SlotsOK
    <2>1. SlotOK(p) BY DEF IdleInv, SlotsOK
    <2>2. CASE p = o BY <1>1, <2>1, <2>2 DEF SlotOK, AcceptedSlot, Exists
    <2>3. CASE p # o BY <1>3, <2>1, <2>3 DEF SlotOK, Exists
    <2> QED BY <2>2, <2>3
  <1>6. OneWaiter'
    <2>1. \A p \in Op : slot'[p].awaited = slot[p].awaited BY DEF AcceptedSlot
    <2> QED BY <2>1 DEF IdleInv, OneWaiter, Op
  <1>7. ProducerOK' BY <1>0, <1>1, <1>3 DEF IdleInv, ProducerOK, NoRoots, Exists, EffectState
  <1> QED BY <1>1, <1>3, <1>4, <1>5, <1>6, <1>7

\* As long as the host has not ended an operation, the journal does not know it.
LEMMA JournalUnended ==
    ASSUME NEW j, NEW h, NEW g, JournalOK(j, h), h \notin HostEnded
    PROVE  JournalOK(j, g)
  BY DEF JournalOK, HostEnded

\* PollDelivers: the first delivery of this operation.
LEMMA PollDeliversStep == ASSUME IdleInv, NEW o \in Op, PollDelivers(o) PROVE IdleInv'
  <1> USE DEF PollDelivers, Accept, core
  <1>0. slot \in [Op -> Slot] /\ host \in [Op -> {"none", "running", "done", "failed", "lost"}]
    BY DEF IdleInv, IdleTypeOK
  <1>1. /\ slot' \in [Op -> Slot] /\ AcceptedSlot(slot[o], slot'[o])
        /\ \A p \in Op \ {o} : slot'[p] = slot[p]
    BY <1>0 DEF Slot, AcceptedSlot
  <1>2. /\ sent' \in [Op -> {0, 1}]
        /\ sent'[o] = 1 /\ \A p \in Op \ {o} : sent'[p] = sent[p]
        /\ SlotsOK' /\ OneWaiter' /\ ProducerOK'
        /\ host[o] = "none" /\ Exists(o)
    BY <1>1, DeliveryKeeps
  <1>3. host'[o] = "running" /\ \A p \in Op \ {o} : host'[p] = host[p] BY <1>0
  <1>4. IdleTypeOK' BY <1>1, <1>2 DEF IdleInv, IdleTypeOK
  <1>5. JournalsOK' BY <1>2, <1>3, JournalUnended DEF IdleInv, JournalsOK, HostEnded
  <1>6. ContactsOK'
    <2> SUFFICES ASSUME NEW p \in Op PROVE ContactOK(p)' BY DEF ContactsOK
    <2>1. ContactOK(p) BY DEF IdleInv, ContactsOK
    <2>2. CASE p = o BY <1>2, <2>1, <2>2 DEF ContactOK, Exists, HostEnded
    <2>3. CASE p # o BY <1>2, <1>3, <2>1, <2>3 DEF ContactOK, Exists
    <2> QED BY <2>2, <2>3
  <1>7. RemovedIsGone' BY <1>2, <1>3 DEF IdleInv, RemovedIsGone, Op
  <1> QED BY <1>2, <1>4, <1>5, <1>6, <1>7, Framed DEF IdleInv

\* DeliveryLost: counts as the delivery, so it is never repeated.
LEMMA DeliveryLostStep == ASSUME IdleInv, NEW o \in Op, DeliveryLost(o) PROVE IdleInv'
  <1> USE DEF DeliveryLost, core
  <1>0. slot \in [Op -> Slot] BY DEF IdleInv, IdleTypeOK
  <1>1. /\ slot' \in [Op -> Slot] /\ AcceptedSlot(slot[o], slot'[o])
        /\ \A p \in Op \ {o} : slot'[p] = slot[p]
    BY <1>0 DEF Slot, AcceptedSlot
  <1>2. /\ sent' \in [Op -> {0, 1}]
        /\ sent'[o] = 1 /\ \A p \in Op \ {o} : sent'[p] = sent[p]
        /\ SlotsOK' /\ OneWaiter' /\ ProducerOK'
        /\ host[o] = "none" /\ Exists(o)
    BY <1>1, DeliveryKeeps
  <1>3. IdleTypeOK' BY <1>1, <1>2 DEF IdleInv, IdleTypeOK
  <1>4. ContactsOK'
    <2> SUFFICES ASSUME NEW p \in Op PROVE ContactOK(p)' BY DEF ContactsOK
    <2>1. ContactOK(p) BY DEF IdleInv, ContactsOK
    <2>2. CASE p = o BY <1>2, <2>1, <2>2 DEF ContactOK, Exists
    <2>3. CASE p # o BY <1>2, <2>1, <2>3 DEF ContactOK, Exists
    <2> QED BY <2>2, <2>3
  <1> QED BY <1>2, <1>3, <1>4, Framed DEF IdleInv

\* Receive: the slot that receives is pending, and the host has ended.
LEMMA ReceiveStep == ASSUME IdleInv, NEW o \in Op, Receive(o) PROVE IdleInv'
  <1> USE DEF Receive, world
  <1>0. slot \in [Op -> Slot] /\ producer \in Producer /\ producer.op \in Op
    BY DEF IdleInv, IdleTypeOK, Producer
  <1>1. slot[o] \in Slot /\ SlotOK(o) /\ slot[o].pending BY <1>0 DEF IdleInv, SlotsOK, SlotOK
  <1>2. slot' \in [Op -> Slot] /\ \A p \in Op \ {o} : slot'[p] = slot[p] BY <1>0 DEF Slot
  <1>3. /\ slot'[o].pending = slot[o].pending /\ slot'[o].command = slot[o].command
        /\ slot'[o].accepted = slot[o].accepted /\ slot'[o].ended = slot[o].ended
        /\ slot'[o].awaited = slot[o].awaited
    BY <1>0 DEF Slot
  <1>4. /\ producer' \in Producer /\ producer'.pc = producer.pc /\ producer'.op = producer.op
        /\ producer'.by = producer.by
    <2>1. slot[o].command \in BOOLEAN BY <1>1 DEF Slot
    <2> QED BY <1>0, <2>1 DEF Producer
  <1>5. IdleTypeOK' BY <1>2, <1>4 DEF IdleInv, IdleTypeOK
  <1>6. SlotsOK'
    <2> SUFFICES ASSUME NEW p \in Op PROVE SlotOK(p)' BY DEF SlotsOK
    <2>1. SlotOK(p) BY DEF IdleInv, SlotsOK
    <2>2. CASE p = o BY <1>1, <1>3, <1>4, <2>2 DEF SlotOK, Exists
    <2>3. CASE p # o BY <1>2, <1>4, <2>1, <2>3 DEF SlotOK, Exists
    <2> QED BY <2>2, <2>3
  <1>7. OneWaiter' BY <1>2, <1>3 DEF IdleInv, OneWaiter, Op
  <1>8. ContactsOK'
    <2>1. host[o] \in HostEnded BY DEF HostResult, HostEnded
    <2> QED BY <2>1 DEF IdleInv, ContactsOK, ContactOK, Exists
  <1>9. OwnerOK' BY <1>4 DEF IdleInv, OwnerOK, NoRoots, Exists
  <1>10. ProducerOK' BY <1>0, <1>2, <1>3, <1>4 DEF IdleInv, ProducerOK, NoRoots, Exists, EffectState
  <1> QED BY <1>5, <1>6, <1>7, <1>8, <1>9, <1>10, Framed DEF IdleInv

\* ReceiveDuplicate: only acknowledges.
LEMMA ReceiveDuplicateStep == ASSUME IdleInv, NEW o \in Op, ReceiveDuplicate(o) PROVE IdleInv'
  <1> USE DEF ReceiveDuplicate, core, dispatch
  <1>1. IdleTypeOK' BY DEF IdleInv, IdleTypeOK
  <1> QED BY <1>1, Framed DEF IdleInv

\* ConsumeCommit: writes what the host did.
LEMMA ConsumeCommitStep == ASSUME IdleInv, NEW o \in Op, ConsumeCommit(o) PROVE IdleInv'
  <1> USE DEF ConsumeCommit, world
  <1> DEFINE k == SettleIdle(root[o], OutcomeOf(host[o]), OutputOf(host[o]))
  <1>0. /\ root[o] \in Root(Step, Output, Held) /\ JournalOK(root[o], host[o]) /\ host[o] \in HostEnded
        /\ receiver \in [Op -> {"idle", "posted", "committed"}]
    BY DEF IdleInv, IdleTypeOK, JournalsOK, ContactsOK, ContactOK
  <1>1. SettledAs(root[o], k, host[o]) BY <1>0, ResultSettles
  <1> HIDE DEF k
  <1>2. root' = [root EXCEPT ![o] = k] BY DEF k
  <1>3. /\ root' \in [Op -> Root(Step, Output, Held)] /\ JournalsOK' /\ CloseFirst'
        /\ \A p \in Op : Exists(p)' <=> Exists(p)
        /\ NoRoots' <=> NoRoots
        /\ \A p \in Op : EffectState(p) = "completed" => EffectState(p)' = "completed"
    BY <1>1, <1>2, RootSettles
  <1>4. /\ receiver' \in [Op -> {"idle", "posted", "committed"}]
        /\ \A p \in Op \ {o} : receiver'[p] = receiver[p]
    BY <1>0
  <1>5. IdleTypeOK' BY <1>3, <1>4 DEF IdleInv, IdleTypeOK
  <1>6. SlotsOK' BY <1>3 DEF IdleInv, SlotsOK, SlotOK
  <1>7. ContactsOK' BY <1>0, <1>3, <1>4 DEF IdleInv, ContactsOK, ContactOK
  <1>8. OwnerOK' BY <1>3 DEF IdleInv, OwnerOK
  <1>9. ProducerOK'
    <2>1. producer.op \in Op BY DEF IdleInv, IdleTypeOK, Producer
    <2> QED BY <1>3, <2>1 DEF IdleInv, ProducerOK, Op
  <1>10. ReconcilerOK'
    <2>1. reconciler.todo \subseteq Op /\ reconciler.op \in Op BY DEF IdleInv, IdleTypeOK, Reconciler
    <2> QED BY <1>3, <2>1 DEF IdleInv, ReconcilerOK
  <1>11. OneWaiter' /\ RemovedIsGone' BY Framed
  <1> QED BY <1>3, <1>5, <1>6, <1>7, <1>8, <1>9, <1>10, <1>11 DEF IdleInv

\* ConsumeFails: nothing is written.
LEMMA ConsumeFailsStep == ASSUME IdleInv, NEW o \in Op, ConsumeFails(o) PROVE IdleInv'
  <1> USE DEF ConsumeFails, core
  <1>1. IdleTypeOK' BY DEF IdleInv, IdleTypeOK
  <1>2. ContactsOK' BY DEF IdleInv, IdleTypeOK, ContactsOK, ContactOK, Exists
  <1> QED BY <1>1, <1>2, Framed DEF IdleInv

\* ReceiveEnds: the waiter of the slot, if it has one, goes on.
LEMMA ReceiveEndsStep == ASSUME IdleInv, NEW o \in Op, ReceiveEnds(o) PROVE IdleInv'
  <1> USE DEF ReceiveEnds
  <1>0. /\ receiver \in [Op -> {"idle", "posted", "committed"}] /\ slot \in [Op -> Slot]
        /\ producer \in Producer /\ producer.op \in Op
    BY DEF IdleInv, IdleTypeOK, Producer
  <1>1. /\ receiver' \in [Op -> {"idle", "posted", "committed"}]
        /\ receiver'[o] = "idle" /\ \A p \in Op \ {o} : receiver'[p] = receiver[p]
    BY <1>0
  <1>2. ContactsOK' BY <1>1 DEF IdleInv, ContactsOK, ContactOK, Exists
  <1>3. /\ JournalsOK' /\ ReconcilerOK' /\ CloseFirst' BY Framed
  <1>4. CASE ~slot[o].receiving
    <2>1. UNCHANGED <<slot, producer, recovery, resident>> BY <1>4
    <2>2. IdleTypeOK' BY <1>1, <2>1 DEF IdleInv, IdleTypeOK
    <2> QED BY <1>2, <1>3, <2>1, <2>2, Framed DEF IdleInv
  <1>5. CASE slot[o].receiving
    <2> DEFINE R == {o}
    <2>1. slot' = Remove(R) BY <1>5
    <2>2. R \in SUBSET Op /\ \A p \in R : slot[p].pending BY <1>5 DEF IdleInv, SlotsOK, SlotOK
    <2>3. /\ slot' \in [Op -> Slot]
          /\ \A p \in R : slot'[p] = NoSlot
          /\ \A p \in Op \ R : SameSlot(slot[p], slot'[p])
      BY <2>1, <2>2, RemoveClears
    <2>4. CASE host[o] # "done"
      <3>1. Reject(R) BY <1>5, <2>4
      <3>2. /\ resident' \in Resident /\ producer' \in Producer /\ recovery' \in {"none", "effect", "wait"}
            /\ SlotsOK' /\ OneWaiter' /\ OwnerOK' /\ ProducerOK' /\ RemovedIsGone'
        BY <2>2, <2>3, <3>1, RejectKeeps
      <3>3. IdleTypeOK' BY <1>1, <2>3, <3>2 DEF IdleInv, IdleTypeOK
      <3> QED BY <1>2, <1>3, <3>2, <3>3 DEF IdleInv
    <2>5. CASE host[o] = "done" /\ slot[o].awaited
      <3>1. recovery' = "none" /\ UNCHANGED <<producer, resident>> BY <1>5, <2>5
      <3>2. IdleTypeOK' BY <1>1, <2>3, <3>1 DEF IdleInv, IdleTypeOK
      <3>3. producer.pc = "idle" /\ \A p \in Op \ {o} : ~slot[p].awaited
        BY <2>5 DEF IdleInv, SlotsOK, SlotOK, ProducerOK, OneWaiter, Op
      <3>4. SlotsOK'
        <4> SUFFICES ASSUME NEW p \in Op PROVE SlotOK(p)' BY DEF SlotsOK
        <4>1. CASE p = o BY <2>3, <4>1 DEF SlotOK, NoSlot
        <4>2. CASE p # o
          <5>1. SlotOK(p) /\ SameSlot(slot[p], slot'[p]) BY <2>3, <4>2 DEF IdleInv, SlotsOK
          <5> QED BY <3>1, <3>3, <4>2, <5>1 DEF SlotOK, SameSlot, Exists
        <4> QED BY <4>1, <4>2
      <3>5. OneWaiter'
        <4>1. \A p \in Op : ~slot'[p].awaited BY <2>3, <3>3 DEF SameSlot, NoSlot
        <4> QED BY <4>1 DEF OneWaiter, Op
      <3>6. ProducerOK' BY <3>1, <3>3 DEF ProducerOK
      <3>7. OwnerOK' /\ RemovedIsGone' BY <3>1, Framed
      <3> QED BY <1>2, <1>3, <3>2, <3>4, <3>5, <3>6, <3>7 DEF IdleInv
    <2>6. CASE host[o] = "done" /\ ~slot[o].awaited
      <3>1. /\ producer' = IF slot[o].ended THEN producer ELSE [producer EXCEPT !.pc = "drain"]
            /\ UNCHANGED <<recovery, resident>>
        BY <1>5, <2>6
      <3>2. ~slot[o].ended => producer.pc = "waiting" /\ producer.op = o
        BY <2>2, <2>6 DEF IdleInv, SlotsOK, SlotOK
      <3>3. /\ producer' \in Producer /\ producer'.op = producer.op /\ producer'.by = producer.by
            /\ producer'.pc = IF slot[o].ended THEN producer.pc ELSE "drain"
        BY <1>0, <3>1 DEF Producer
      <3>4. IdleTypeOK' BY <1>1, <2>3, <3>1, <3>3 DEF IdleInv, IdleTypeOK
      <3>5. SlotsOK'
        <4> SUFFICES ASSUME NEW p \in Op PROVE SlotOK(p)' BY DEF SlotsOK
        <4>1. CASE p = o BY <2>3, <4>1 DEF SlotOK, NoSlot
        <4>2. CASE p # o
          <5>1. SlotOK(p) /\ SameSlot(slot[p], slot'[p]) BY <2>3, <4>2 DEF IdleInv, SlotsOK
          <5> QED BY <3>1, <3>2, <3>3, <4>2, <5>1 DEF SlotOK, SameSlot, Exists
        <4> QED BY <4>1, <4>2
      <3>6. OneWaiter'
        <4>1. \A p \in Op : slot'[p].awaited => slot[p].awaited BY <2>3 DEF SameSlot, NoSlot
        <4> QED BY <4>1 DEF IdleInv, OneWaiter, Op
      <3>7. OwnerOK' BY <3>1, <3>2, <3>3 DEF IdleInv, OwnerOK, NoRoots, Exists
      <3>8. ProducerOK'
        <4>1. \A p \in Op : slot'[p].command => slot[p].command BY <2>3 DEF SameSlot, NoSlot
        <4> QED BY <1>0, <3>1, <3>2, <3>3, <4>1 DEF IdleInv, ProducerOK, NoRoots, Exists, EffectState
      <3>9. RemovedIsGone' BY <3>1, Framed
      <3> QED BY <1>2, <1>3, <3>4, <3>5, <3>6, <3>7, <3>8, <3>9 DEF IdleInv
    <2> QED BY <2>4, <2>5, <2>6
  <1> QED BY <1>4, <1>5

-----------------------------------------------------------------------------
(* The host, its connection, and the end of Core's process *)

\* HostEnds: the journal knew nothing of an operation that ran.
LEMMA HostEndsStep ==
    ASSUME IdleInv, NEW o \in Op, NEW outcome \in HostEnded, HostEnds(o, outcome)
    PROVE  IdleInv'
  <1> USE DEF HostEnds, core, dispatch
  <1>0. host \in [Op -> {"none", "running", "done", "failed", "lost"}] BY DEF IdleInv, IdleTypeOK
  <1>1. host'[o] = outcome /\ \A p \in Op \ {o} : host'[p] = host[p] BY <1>0
  <1>2. IdleTypeOK' BY DEF IdleInv, IdleTypeOK, HostEnded
  <1>3. JournalsOK' BY <1>1, JournalUnended DEF IdleInv, JournalsOK, HostEnded
  <1>4. ContactsOK'
    <2> SUFFICES ASSUME NEW p \in Op PROVE ContactOK(p)' BY DEF ContactsOK
    <2>1. ContactOK(p) BY DEF IdleInv, ContactsOK
    <2> QED BY <1>1, <2>1 DEF ContactOK, Exists
  <1>5. RemovedIsGone' BY <1>1 DEF IdleInv, RemovedIsGone, Op
  <1> QED BY <1>2, <1>3, <1>4, <1>5, Framed DEF IdleInv

\* A closed connection takes nothing that counts from a slot.
LEMMA UnconnectedSame ==
    ASSUME IdleInv
    PROVE  Unconnected \in [Op -> Slot] /\ \A o \in Op : SameSlot(slot[o], Unconnected[o])
  <1>1. \A o \in Op : slot[o] \in Slot BY DEF IdleInv, IdleTypeOK
  <1>2. \A s \in Slot : SameSlot(s, [s EXCEPT !.here = FALSE, !.receiving = FALSE]) BY DEF Slot, SameSlot
  <1>3. \A o \in Op : SameSlot(slot[o], Unconnected[o]) BY <1>1, <1>2 DEF Unconnected
  <1>4. \A o \in Op : Unconnected[o] \in Slot BY <1>3 DEF SameSlot
  <1>5. Unconnected \in [Op -> Slot] BY <1>4 DEF Unconnected
  <1> QED BY <1>3, <1>5

\* Disconnect: by the lemma above.
LEMMA DisconnectStep == ASSUME IdleInv, Disconnect PROVE IdleInv'
  <1> USE DEF Disconnect, core
  <1>1. slot' \in [Op -> Slot] /\ \A o \in Op : SameSlot(slot[o], slot'[o]) BY UnconnectedSame
  <1>2. IdleTypeOK' BY <1>1 DEF IdleInv, IdleTypeOK
  <1>3. SlotsOK' /\ OneWaiter' /\ ProducerOK' BY <1>1, SlotsStay
  <1> QED BY <1>2, <1>3, Framed DEF IdleInv

\* Connect: only the session changes.
LEMMA ConnectStep == ASSUME IdleInv, Connect PROVE IdleInv'
  <1> USE DEF Connect, core, dispatch
  <1>1. IdleTypeOK' BY DEF IdleInv, IdleTypeOK
  <1> QED BY <1>1, Framed DEF IdleInv

\* HostRestart: what ran is lost; what ended stays as it was recorded.
LEMMA HostRestartStep == ASSUME IdleInv, HostRestart PROVE IdleInv'
  <1> USE DEF HostRestart, core
  <1>0. host \in [Op -> {"none", "running", "done", "failed", "lost"}] BY DEF IdleInv, IdleTypeOK
  <1>1. slot' \in [Op -> Slot] /\ \A o \in Op : SameSlot(slot[o], slot'[o]) BY UnconnectedSame
  <1>2. \A o \in Op : host'[o] = host[o] \/ (host[o] = "running" /\ host'[o] = "lost") OBVIOUS
  <1>3. host' \in [Op -> {"none", "running", "done", "failed", "lost"}] BY <1>0
  <1>4. IdleTypeOK' BY <1>1, <1>3 DEF IdleInv, IdleTypeOK
  <1>5. JournalsOK' BY <1>2, JournalUnended DEF IdleInv, JournalsOK, HostEnded
  <1>6. SlotsOK' /\ OneWaiter' /\ ProducerOK' BY <1>1, SlotsStay
  <1>7. ContactsOK'
    <2> SUFFICES ASSUME NEW p \in Op PROVE ContactOK(p)' BY DEF ContactsOK
    <2>1. ContactOK(p) BY DEF IdleInv, ContactsOK
    <2> QED BY <1>2, <2>1 DEF ContactOK, Exists, HostEnded
  <1>8. RemovedIsGone' BY DEF RemovedIsGone
  <1> QED BY <1>4, <1>5, <1>6, <1>7, <1>8, Framed DEF IdleInv

\* Crash: journal, inventory and host remain, and nobody counts on more.
LEMMA CrashStep == ASSUME IdleInv, Crash PROVE IdleInv'
  <1> USE DEF Crash
  <1>1. /\ owner' \in Owner /\ owner'.pc = "idle" /\ ~owner'.evicts
        /\ producer' \in Producer /\ producer'.pc = "idle"
        /\ reconciler' \in Reconciler /\ reconciler'.pc = "idle" /\ reconciler'.todo = {}
    BY DEF IdleOwner, Owner, IdleProducer, Producer, IdleReconciler, Reconciler, Action, Op
  <1>2. NoSlot \in Slot BY DEF NoSlot, Slot
  <1>3. slot' \in [Op -> Slot] /\ \A o \in Op : slot'[o] = NoSlot BY <1>2
  <1>4. IdleTypeOK' BY <1>1, <1>3 DEF IdleInv, IdleTypeOK
  <1>5. SlotsOK' BY <1>3 DEF SlotsOK, SlotOK, NoSlot
  <1>6. OneWaiter' BY <1>3 DEF OneWaiter, NoSlot, Op
  <1>7. ContactsOK' BY DEF IdleInv, ContactsOK, ContactOK, Exists
  <1>8. OwnerOK' BY <1>1 DEF IdleInv, OwnerOK, NoRoots, Exists
  <1>9. ProducerOK' BY <1>1 DEF ProducerOK
  <1>10. ReconcilerOK' BY <1>1 DEF ReconcilerOK
  <1> QED BY <1>4, <1>5, <1>6, <1>7, <1>8, <1>9, <1>10, Framed DEF IdleInv

-----------------------------------------------------------------------------
(* The invariant and what it says *)

\* The first state.
LEMMA IdleInitially == Init => IdleInv
  <1> SUFFICES ASSUME Init PROVE IdleInv OBVIOUS
  <1> USE DEF Init
  <1>1. /\ owner \in Owner /\ owner.pc = "idle" /\ ~owner.evicts
        /\ producer \in Producer /\ producer.pc = "idle"
        /\ reconciler \in Reconciler /\ reconciler.pc = "idle" /\ reconciler.todo = {}
    BY DEF IdleOwner, Owner, IdleProducer, Producer, IdleReconciler, Reconciler, Action, Op
  <1>2. NoSlot \in Slot BY DEF NoSlot, Slot
  <1>3. \A o \in Op : slot[o] = NoSlot /\ root[o] = AbsentRoot("core", Step) OBVIOUS
  <1>4. root \in [Op -> Root(Step, Output, Held)] BY AbsentOK
  <1>5. IdleTypeOK BY <1>1, <1>2, <1>4 DEF IdleTypeOK, Resident
  <1>6. JournalsOK BY <1>3, AbsentOK DEF JournalsOK
  <1>7. NoRoots BY <1>3 DEF NoRoots, Exists, AbsentRoot
  <1>8. SlotsOK BY <1>3 DEF SlotsOK, SlotOK, NoSlot
  <1>9. OneWaiter BY <1>3 DEF OneWaiter, NoSlot, Op
  <1>10. ContactsOK BY DEF ContactsOK, ContactOK
  <1>11. OwnerOK BY <1>1, <1>7 DEF OwnerOK
  <1>12. ProducerOK BY <1>1 DEF ProducerOK
  <1>13. ReconcilerOK BY <1>1 DEF ReconcilerOK
  <1>14. CloseFirst BY <1>7 DEF CloseFirst, NoRoots, Op
  <1>15. RemovedIsGone BY DEF RemovedIsGone
  <1> QED BY <1>5, <1>6, <1>8, <1>9, <1>10, <1>11, <1>12, <1>13, <1>14, <1>15 DEF IdleInv

\* Every step, by the lemmas above.
LEMMA IdleSteps == IdleInv /\ [Next]_vars => IdleInv'
  <1> SUFFICES ASSUME IdleInv, [Next]_vars PROVE IdleInv' OBVIOUS
  <1>1. CASE OwnerCall
    BY <1>1, ClaimStep, RetireOrphanStep, EvictAbsentStep DEF OwnerCall
  <1>2. CASE OwnerStep
    BY <1>2, DeleteSandboxStep, RetireAbsentStep, JoinEndsStep DEF OwnerStep
  <1>3. CASE ProducerStep
    BY <1>3, PublishIntentStep, EnqueueStep, DeliveryFailsStep, DrainStep, FenceResidentStep,
       SettleUnknownStep, ClearStep DEF ProducerStep
  <1>4. CASE Abort BY <1>4, AbortStep
  <1>5. CASE Maintain BY <1>5, MaintainStep
  <1>6. CASE ReconcilerStep
    BY <1>6, PassBeginsStep, PassEndsStep, SelectStep, AdvanceRefusedStep, AdvanceDeleteStep,
       AdvanceResultOnlyStep, AdvanceReleaseStep DEF ReconcilerStep
  <1>7. CASE ReceiverStep BY <1>7, ConsumeCommitStep, ReceiveEndsStep DEF ReceiverStep
  <1>8. CASE HostStep
    BY <1>8, PollFencesStep, ConnectStep, PollEmptyStep, PollDeliversStep, ReceiveStep,
       ReceiveDuplicateStep, HostEndsStep DEF HostStep, HostEnded
  <1>9. CASE Faults
    BY <1>9, IntentFailsStep, ReleaseFailsStep, DisconnectStep, HostRestartStep, CrashStep,
       DeliveryLostStep, DeliveryRefusedStep, ConsumeFailsStep DEF Faults
  <1>10. CASE UNCHANGED vars
    <2>1. UNCHANGED <<root, resident, owner, producer, recovery, reconciler, slot, receiver, host, epoch, sent>>
      BY <1>10 DEF vars, core, dispatch, world
    <2>2. IdleTypeOK' BY <2>1 DEF IdleInv, IdleTypeOK
    <2> QED BY <2>1, <2>2, Framed DEF IdleInv
  <1> QED BY <1>1, <1>2, <1>3, <1>4, <1>5, <1>6, <1>7, <1>8, <1>9, <1>10 DEF Next

\* The invariant holds in every reachable state, whatever is lost or restarted.
THEOREM IdleInvariance == IdleCleanupSpec => []IdleInv
  BY IdleInitially, IdleSteps, PTL DEF IdleCleanupSpec

\* Core forgets a Sandbox only when the host deleted it or restarted without it
\* (RemovedIsGone), for every number of faults.
THEOREM ForgottenIsGone == IdleCleanupSpec => []RemovedIsGone
  <1>1. IdleInv => RemovedIsGone BY DEF IdleInv
  <1> QED BY <1>1, IdleInvariance, PTL

\* No operation is delivered twice, and the delete never precedes the end of a
\* close that was begun (ContactedOnce).
THEOREM OperationsContactedOnce == IdleCleanupSpec => []ContactedOnce
  <1>1. IdleInv => ContactedOnce
    <2> SUFFICES ASSUME IdleInv PROVE ContactedOnce OBVIOUS
    <2>1. \A o \in Op : sent[o] \in {0, 1} BY DEF IdleInv, IdleTypeOK
    <2>2. sent["delete"] > 0 => Exists("delete") BY <2>1 DEF IdleInv, ContactsOK, ContactOK, Op
    <2>3. EffectState("close") = "completed" => ConsumedProof("close")
      <3>1. JournalOK(root["close"], host["close"]) BY DEF IdleInv, JournalsOK, Op
      <3>2. CASE EffectState("close") = "completed"
        <4>1. host["close"] \in HostEnded BY <3>1, <3>2 DEF JournalOK, EffectState
        <4>2. OutputOf(host["close"]) # NoOutput BY <4>1, OutputsKnown
        <4> QED BY <3>1, <3>2, <4>2 DEF JournalOK, EffectState, ConsumedProof, Consumed
      <3> QED BY <3>2
    <2> QED BY <2>1, <2>2, <2>3 DEF IdleInv, CloseFirst, ContactedOnce
  <1> QED BY <1>1, IdleInvariance, PTL

\* An exclusion ends only with a result that says the operation was done, and
\* what the journal records is what the host did (ExclusionNeedsProof).
THEOREM ExclusionsNeedProof == IdleCleanupSpec => []ExclusionNeedsProof
  <1>1. IdleInv => ExclusionNeedsProof
    <2> SUFFICES ASSUME IdleInv, NEW o \in Op
                 PROVE  /\ Proved(root[o])
                        /\ Exists(o) /\ root[o].exclusion # Held => EffectState(o) = "completed"
                        /\ EffectState(o) = "completed" => host[o] = "done"
                        /\ root[o].step[Consume].state = "completed" =>
                              root[o].step[Consume].outputs = OutputOf(host[o])
      BY DEF ExclusionNeedsProof
    <2>1. JournalOK(root[o], host[o]) /\ root[o] \in Root(Step, Output, Held)
      BY DEF IdleInv, JournalsOK, IdleTypeOK
    <2>2. DOMAIN root[o].step = {Effect, Consume} BY <2>1, RootParts, StepsKnown
    <2>3. Proved(root[o])
      <3> SUFFICES ASSUME root[o].phase = "closed" PROVE Proved(root[o]) BY DEF Proved
      <3>1. /\ root[o].step[Effect].state = "completed" /\ root[o].step[Consume].state = "completed"
            /\ root[o].exclusion = {}
        BY <2>1 DEF JournalOK
      <3>2. StepsIn(root[o], "intent") = {} /\ StepsIn(root[o], "unknown") = {}
        BY <2>2, <3>1 DEF StepsIn
      <3> QED BY <3>1, <3>2 DEF Proved
    <2> QED BY <2>1, <2>3 DEF JournalOK, Exists, EffectState
  <1> QED BY <1>1, IdleInvariance, PTL

\* A resident that admits work was never contacted for a cleanup
\* (AcceptingIsUntouched): an eviction takes its claim back only before contact.
THEOREM ClaimsTakenBackInTime == IdleCleanupSpec => []AcceptingIsUntouched
  <1>1. IdleInv => AcceptingIsUntouched
    <2> SUFFICES ASSUME IdleInv, resident = "accepting", NEW o \in Op PROVE sent[o] = 0
      BY DEF AcceptingIsUntouched
    <2>1. sent[o] \in {0, 1} /\ ~Exists(o) BY DEF IdleInv, IdleTypeOK, OwnerOK, NoRoots
    <2> QED BY <2>1 DEF IdleInv, ContactsOK, ContactOK
  <1> QED BY <1>1, IdleInvariance, PTL
=============================================================================
