---------------------------- MODULE IdleCleanup ----------------------------
(***************************************************************************)
(* The retirement of one idle Sandbox whose attempt is closed: close its   *)
(* bridge, delete it, forget it.  Each of the two effects has a root of    *)
(* its own in Core's journal.  The actors:                                 *)
(*   - the owner that retires the Sandbox (deleteSandbox): an eviction,    *)
(*     which claims the resident first, or the recovery of an orphan;      *)
(*   - the producer of an effect (idleCleanupEffect, effect);              *)
(*   - the reconciler, which reads the journal and takes the next step;    *)
(*   - the session dispatcher: one slot per operation, polled by the host, *)
(*     and a receiver of the host's result;                                *)
(*   - the host: it runs what a poll returned, keeps the result            *)
(*     until it is acknowledged, hands it over before it polls, and may    *)
(*     restart as a fresh, empty epoch.                                    *)
(*                                                                         *)
(* A target runs one Sandbox at a time, so no other resident competes for  *)
(* the slots, and the owners of a resident exclude each other.  Left out:  *)
(* collection and export of an idle Sandbox, Workspace capture and storage *)
(* (they only make a step fail), and the stop of the reconciler, which     *)
(* precedes the end of the process (Crash).                                *)
(***************************************************************************)
EXTENDS ExecutionJournal

CONSTANTS MaxFault   \* lost connections, writes and answers, crashes, host restarts

ASSUME IdleCleanupAssumption == MaxFault \in Nat

Op == {"close", "delete"}
Effect == <<"effect", 0>>
Consume == <<"consume", 0>>
Step == {Effect, Consume}
Held == {"resident", "epoch"}
Output == {"result", "failure"}

VARIABLES
    root,         \* root[o]: the journal root of operation o
    resident,     \* the Sandbox in Core's inventory
    owner,        \* who retires the Sandbox
    producer,     \* who performs an effect
    recovery,     \* cleanupRecoveryResults: the promise the resident waits for
    reconciler,   \* the pass of the reconciler
    invalidated,  \* a commit since the pass began
    slot,         \* slot[o]: pendingEffects of the dispatcher
    receiver,     \* receiver[o]: the handler of the host's result
    session,      \* the connection of the host
    host,         \* host[o]: what the host did of operation o
    acked,        \* acked[o]: the host's result was acknowledged
    epoch,        \* the host's epoch; the Sandbox was created in the first
    sent,         \* history: how often operation o was delivered
    faults

core == <<root, resident, owner, producer, recovery, reconciler, invalidated>>
dispatch == <<slot, receiver>>
world == <<session, host, acked, epoch, sent, faults>>
vars == <<core, dispatch, world>>

\* "claimed" by an eviction, which may take it back; "fenced" for good.
Resident == {"accepting", "claimed", "fenced", "removed"}
Slot == [pending : BOOLEAN, command : BOOLEAN, accepted : BOOLEAN, here : BOOLEAN,
         ended : BOOLEAN, awaited : BOOLEAN, receiving : BOOLEAN]
Owner == [pc : {"idle", "deleting", "producing", "joining", "joined"}, evicts : BOOLEAN]
Producer == [pc : {"idle", "intend", "deliver", "waiting", "drain", "fence", "unknown", "clear"},
             op : Op, by : {"owner", "reconciler"}, after : Nat, seen : BOOLEAN, ok : BOOLEAN]
Action == {"none", "delete", "result-only", "release"}
Reconciler == [pc : {"idle", "pass", "selected", "producing"}, todo : SUBSET Op, op : Op,
               action : Action, revision : Nat]

NoSlot == [pending |-> FALSE, command |-> FALSE, accepted |-> FALSE, here |-> FALSE,
           ended |-> FALSE, awaited |-> FALSE, receiving |-> FALSE]
CommandSlot == [NoSlot EXCEPT !.pending = TRUE, !.command = TRUE]
\* Mutant: the expectation carries the command again.
ResultOnlySlotRenewed == [NoSlot EXCEPT !.pending = TRUE, !.awaited = TRUE, !.command = TRUE]
ResultOnlySlot == [NoSlot EXCEPT !.pending = TRUE, !.awaited = TRUE]
IdleOwner == [pc |-> "idle", evicts |-> FALSE]
IdleProducer == [pc |-> "idle", op |-> "close", by |-> "owner", after |-> 0, seen |-> FALSE, ok |-> FALSE]
IdleReconciler == [pc |-> "idle", todo |-> {}, op |-> "close", action |-> "none", revision |-> 0]

Init ==
    /\ root = [o \in Op |-> AbsentRoot("core", Step)]
    /\ resident = "accepting"
    /\ owner = IdleOwner
    /\ producer = IdleProducer
    /\ recovery = "none"
    /\ reconciler = IdleReconciler
    /\ invalidated = TRUE
    /\ slot = [o \in Op |-> NoSlot]
    /\ receiver = [o \in Op |-> "idle"]
    /\ session = [up |-> TRUE, polled |-> FALSE]
    /\ host = [o \in Op |-> "none"]
    /\ acked = [o \in Op |-> FALSE]
    /\ epoch = 1
    /\ sent = [o \in Op |-> 0]
    /\ faults = 0

Draining == resident \in {"claimed", "fenced"}
Fence(r) == IF r = "removed" THEN r ELSE "fenced"
Exists(o) == root[o].phase # "absent"
EffectState(o) == root[o].step[Effect].state

\* The target's row names the epoch only while a connection is ready.
SameEpoch == session.up /\ epoch = 1
FreshEpoch == session.up /\ epoch # 1

\* hasConsumption: exactly one output, consumed.
Consumed(o) ==
    /\ root[o].step[Effect].outputs # NoOutput
    /\ root[o].step[Consume].state = "completed"
    /\ root[o].step[Consume].outputs = root[o].step[Effect].outputs

Fault == faults < MaxFault /\ faults' = faults + 1

-----------------------------------------------------------------------------
(* Core's journal *)

OutcomeOf(h) == IF h = "done" THEN "completed" ELSE "failed"
OutputOf(h) == IF h = "done" THEN "result" ELSE "failure"

\* Mutant: a result after an unknown outcome is a conflict.
LateRefused(j, output) == FALSE

\* A result that comes after an unknown outcome.
Late(j, output) ==
    /\ j.step[Effect].state = "unknown"
    /\ j.step[Effect].outputs = NoOutput
    /\ output # NoOutput

OutcomeSettlement(j, state, output) ==
    Settlement(Effect, j.revision, state, output, "closing", j.exclusion)

\* Mutant: the root is closed whatever the outcome.
ConsumeSettlementClosing(j, state, output, late) ==
    Settlement(Consume, j.revision, "completed", output, "closed", {})

ConsumeSettlement(j, state, output, late) ==
    IF state = "completed" /\ ~late
    THEN Settlement(Consume, j.revision, "completed", output, "closed", {})
    ELSE Settlement(Consume, j.revision, "completed", output, "closing", j.exclusion)

\* One transaction: the outcome, and with a result its consumption (for a late
\* result the consumption only).  A replay changes nothing, a conflicting one is
\* refused.
SettleIdle(j, state, output) ==
    LET late == Late(j, output)
        ended == IF late THEN j ELSE Settle(j, OutcomeSettlement(j, state, output))
        begun == Intend(ended, Consume, "consume-receipt", Effect)
        z == ConsumeSettlement(begun, state, output, late)
    IN  IF (j.step[Effect].state # "intent" /\ ~late) \/ j.step[Consume].state # "none" THEN j
        ELSE IF output = NoOutput THEN ended
        ELSE IF CanSettle(begun, z) THEN Settle(begun, z) ELSE j

CanIntendIdle(o, after) ==
    /\ SameEpoch
    /\ Draining
    /\ ~Exists(o)
    /\ o = "delete" /\ after # 0 => root["close"].revision = after

IntendIdle(o) ==
    [root EXCEPT ![o] = Intend(OpenRoot(AbsentRoot("core", Step), Held), Effect,
                               IF o = "delete" THEN "release" ELSE "inspect-cleanup", NoStep)]

-----------------------------------------------------------------------------
(* The owner *)

\* An idle resident is claimed by draining it.
Claim ==
    /\ owner.pc = "idle"
    /\ resident = "accepting"
    /\ SameEpoch
    /\ resident' = "claimed"
    /\ owner' = [pc |-> "deleting", evicts |-> TRUE]
    /\ UNCHANGED <<root, producer, recovery, reconciler, invalidated, dispatch, world>>

\* Recovery retires a drained resident without any cleanup root.
RetireOrphan ==
    /\ owner.pc = "idle"
    /\ Draining
    /\ recovery = "none"
    /\ \A o \in Op : ~Exists(o)
    /\ owner' = [pc |-> "deleting", evicts |-> FALSE]
    /\ UNCHANGED <<root, resident, producer, recovery, reconciler, invalidated, dispatch, world>>

\* An eviction that finds a later fresh epoch has nothing to delete.
EvictAbsent ==
    /\ owner.pc = "idle"
    /\ resident = "accepting"
    /\ FreshEpoch
    /\ resident' = "removed"
    /\ UNCHANGED <<root, owner, producer, recovery, reconciler, invalidated, dispatch, world>>

\* deleteSandbox: the first effect; the journal owns no cleanup yet.
DeleteSandbox(bridgeOpen) ==
    /\ owner.pc = "deleting"
    /\ owner.evicts \/ SameEpoch
    /\ producer' = [IdleProducer EXCEPT !.pc = "intend", !.op = IF bridgeOpen THEN "close" ELSE "delete"]
    /\ recovery' = "effect"
    /\ owner' = [owner EXCEPT !.pc = "producing"]
    /\ UNCHANGED <<root, resident, reconciler, invalidated, dispatch, world>>

\* Nothing was sent and the epoch is not current: a later fresh one proves that
\* the orphan went with it.
RetireAbsent ==
    /\ owner.pc = "deleting"
    /\ ~owner.evicts
    /\ ~SameEpoch
    /\ resident' = IF FreshEpoch THEN "removed" ELSE resident
    /\ owner' = IdleOwner
    /\ UNCHANGED <<root, producer, recovery, reconciler, invalidated, dispatch, world>>

\* The join returns when the resident is gone; an eviction that fails takes back
\* a claim that nothing made irreversible.
JoinEnds ==
    /\ owner.pc = "joined"
    /\ owner' = IdleOwner
    /\ resident' = IF owner.evicts /\ resident = "claimed" THEN "accepting" ELSE resident
    /\ UNCHANGED <<root, producer, recovery, reconciler, invalidated, dispatch, world>>

-----------------------------------------------------------------------------
(* The producer *)

\* Intent before contact; a refused intent ends the effect without a trace.
PublishIntent ==
    /\ producer.pc = "intend"
    /\ IF CanIntendIdle(producer.op, producer.after)
       THEN /\ root' = IntendIdle(producer.op)
            /\ producer' = [producer EXCEPT !.pc = "deliver"]
            /\ invalidated' = TRUE
       ELSE /\ producer' = [producer EXCEPT !.pc = "clear"]
            /\ UNCHANGED <<root, invalidated>>
    /\ UNCHANGED <<resident, owner, recovery, reconciler, dispatch, world>>

\* The writer loses the command or refuses it for its own reasons.
IntentFails ==
    /\ producer.pc = "intend"
    /\ Fault
    /\ producer' = [producer EXCEPT !.pc = "clear"]
    /\ UNCHANGED <<root, resident, owner, recovery, reconciler, invalidated, dispatch,
                   session, host, acked, epoch, sent>>

Enqueue ==
    /\ producer.pc = "deliver"
    /\ SameEpoch
    /\ ~slot[producer.op].pending
    /\ slot' = [slot EXCEPT ![producer.op] = CommandSlot]
    /\ producer' = [producer EXCEPT !.pc = "waiting"]
    /\ UNCHANGED <<root, resident, owner, recovery, reconciler, invalidated, receiver, world>>

\* The checks before delivery throw.
DeliveryFails ==
    /\ producer.pc = "deliver"
    /\ IF SameEpoch THEN Fault ELSE UNCHANGED faults
    /\ producer' = [producer EXCEPT !.pc = "fence"]
    /\ UNCHANGED <<root, resident, owner, recovery, reconciler, invalidated, dispatch,
                   session, host, acked, epoch, sent>>

\* The allowance ends: an accepted command keeps its slot.
Abort ==
    /\ producer.pc = "waiting"
    /\ slot' = [slot EXCEPT ![producer.op] =
                   IF slot[producer.op].accepted THEN [slot[producer.op] EXCEPT !.ended = TRUE]
                   ELSE NoSlot]
    /\ producer' = [producer EXCEPT !.pc = "fence"]
    /\ UNCHANGED <<root, resident, owner, recovery, reconciler, invalidated, receiver, world>>

\* The result was consumed and the promise resolved.
Drain ==
    /\ producer.pc = "drain"
    /\ resident' = Fence(resident)
    /\ producer' = [producer EXCEPT !.pc = "clear", !.ok = TRUE]
    /\ UNCHANGED <<root, owner, recovery, reconciler, invalidated, dispatch, world>>

\* Mutant: the resident is left reversible.
FenceResidentSkipped ==
    /\ producer.pc = "fence"
    /\ resident' = resident
    /\ producer' = [producer EXCEPT
          !.pc = IF ~producer.seen /\ EffectState(producer.op) = "intent" THEN "unknown" ELSE "clear"]
    /\ UNCHANGED <<root, owner, recovery, reconciler, invalidated, dispatch, world>>

\* The effect failed: fence the resident, then read whether it must be settled.
FenceResident ==
    /\ producer.pc = "fence"
    /\ resident' = Fence(resident)
    /\ producer' = [producer EXCEPT
          !.pc = IF ~producer.seen /\ EffectState(producer.op) = "intent" THEN "unknown" ELSE "clear"]
    /\ UNCHANGED <<root, owner, recovery, reconciler, invalidated, dispatch, world>>

SettleUnknown ==
    /\ producer.pc = "unknown"
    /\ root' = [root EXCEPT ![producer.op] = SettleIdle(root[producer.op], "unknown", NoOutput)]
    /\ invalidated' = (invalidated \/ root' # root)
    /\ producer' = [producer EXCEPT !.pc = "clear"]
    /\ UNCHANGED <<resident, owner, recovery, reconciler, dispatch, world>>

\* Mutant: the entry of an effect that failed stays in the map.
RecoveryClearedOnSuccess == IF producer.ok THEN "none" ELSE recovery

RecoveryCleared == "none"

\* The promise leaves the map; a committed root wakes the reconciler.  Whoever
\* awaited it goes on: the owner joins, or fails and takes a claim back.
Clear ==
    /\ producer.pc = "clear"
    /\ recovery' = RecoveryCleared
    /\ invalidated' = (invalidated \/ Exists(producer.op) \/ (producer.by = "owner" /\ producer.ok))
    /\ producer' = IdleProducer
    /\ IF producer.by = "owner"
       THEN /\ owner' = IF producer.ok THEN [owner EXCEPT !.pc = "joining"] ELSE IdleOwner
            /\ resident' = IF ~producer.ok /\ owner.evicts /\ resident = "claimed"
                           THEN "accepting" ELSE resident
            /\ UNCHANGED reconciler
       ELSE /\ reconciler' = [reconciler EXCEPT !.pc = "pass"]
            /\ UNCHANGED <<owner, resident>>
    /\ UNCHANGED <<root, dispatch, world>>

-----------------------------------------------------------------------------
(* The reconciler *)

Candidates == {o \in Op : Draining /\ Exists(o)}

\* Maintenance runs a pass, or wakes one for a cleanup the journal owns.
Maintain ==
    /\ invalidated' = TRUE
    /\ UNCHANGED <<root, resident, owner, producer, recovery, reconciler, dispatch, world>>

\* A pass begins, and begins again when something was committed meanwhile.
PassBegins ==
    /\ reconciler.pc = "idle" \/ (reconciler.pc = "pass" /\ reconciler.todo = {})
    /\ invalidated
    /\ invalidated' = FALSE
    /\ reconciler' = [IdleReconciler EXCEPT !.pc = "pass", !.todo = Candidates]
    /\ UNCHANGED <<root, resident, owner, producer, recovery, dispatch, world>>

PassEnds ==
    /\ reconciler.pc = "pass"
    /\ reconciler.todo = {}
    /\ ~invalidated
    /\ reconciler' = IdleReconciler
    /\ owner' = IF owner.pc = "joining" THEN [owner EXCEPT !.pc = "joined"] ELSE owner
    /\ UNCHANGED <<root, resident, producer, recovery, invalidated, dispatch, world>>

\* The next step the current rows call for; an error is none.
Selected(o) ==
    IF ~Draining THEN "none"
    ELSE IF ~SameEpoch THEN "release"
    ELSE CASE EffectState(o) = "completed" /\ Consumed(o) ->
                IF o = "delete" THEN "release" ELSE IF ~Exists("delete") THEN "delete" ELSE "none"
           [] \/ EffectState(o) = "intent"
              \/ EffectState(o) = "unknown" /\ root[o].step[Effect].outputs = NoOutput /\ ~Consumed(o) ->
                "result-only"
           [] OTHER -> "none"

Select(o) ==
    /\ reconciler.pc = "pass"
    /\ o \in reconciler.todo
    /\ LET action == IF recovery = "none" THEN Selected(o) ELSE "none"
       IN  reconciler' = [reconciler EXCEPT !.todo = @ \ {o}, !.op = o, !.action = action,
                             !.pc = IF action = "none" THEN "pass" ELSE "selected",
                             !.revision = root[o].revision]
    /\ UNCHANGED <<root, resident, owner, producer, recovery, invalidated, dispatch, world>>

\* The checks of advanceIdleCleanup after it awaited.
Current ==
    /\ reconciler.pc = "selected"
    /\ resident # "removed"
    /\ root[reconciler.op].revision = reconciler.revision
    /\ recovery = "none"

ConsumedProof(o) == EffectState(o) = "completed" /\ Consumed(o)

\* Mutant: a lost connection counts as an absent Sandbox.
CanReleaseDisconnected ==
    IF SameEpoch THEN reconciler.op = "delete" /\ ConsumedProof("delete") ELSE TRUE

\* Physical absence: a consumed deletion, or a later fresh epoch.
CanRelease ==
    IF SameEpoch THEN reconciler.op = "delete" /\ ConsumedProof("delete") ELSE FreshEpoch

\* canAdoptCleanupResult: an accepted command whose producer gave up.
CanAwaitResult(o) ==
    \/ ~slot[o].pending
    \/ slot[o].accepted /\ slot[o].ended /\ ~slot[o].awaited

Permitted ==
    CASE reconciler.action = "delete" -> reconciler.op = "close" /\ ConsumedProof("close")
      [] reconciler.action = "result-only" -> CanAwaitResult(reconciler.op)
      [] reconciler.action = "release" -> CanRelease
      [] OTHER -> FALSE

AdvanceRefused ==
    /\ reconciler.pc = "selected"
    /\ ~(Current /\ Permitted)
    /\ reconciler' = [reconciler EXCEPT !.pc = "pass"]
    /\ UNCHANGED <<root, resident, owner, producer, recovery, invalidated, dispatch, world>>

\* The pass awaits the whole effect.
AdvanceDelete ==
    /\ Current
    /\ Permitted
    /\ reconciler.action = "delete"
    /\ producer' = [IdleProducer EXCEPT !.pc = "intend", !.op = "delete", !.by = "reconciler",
                                        !.after = reconciler.revision]
    /\ recovery' = "effect"
    /\ reconciler' = [reconciler EXCEPT !.pc = "producing"]
    /\ UNCHANGED <<root, resident, owner, invalidated, dispatch, world>>

\* expectResultOnly: a slot without a command, or the retained slot with a new waiter.
AdvanceResultOnly ==
    /\ Current
    /\ Permitted
    /\ reconciler.action = "result-only"
    /\ slot' = [slot EXCEPT ![reconciler.op] =
                   IF slot[reconciler.op].pending THEN [slot[reconciler.op] EXCEPT !.awaited = TRUE]
                   ELSE ResultOnlySlot]
    /\ recovery' = "wait"
    /\ reconciler' = [reconciler EXCEPT !.pc = "pass"]
    /\ UNCHANGED <<root, resident, owner, producer, invalidated, receiver, world>>

AdvanceRelease ==
    /\ Current
    /\ Permitted
    /\ reconciler.action = "release"
    /\ resident' = "removed"
    /\ reconciler' = [reconciler EXCEPT !.pc = "pass"]
    /\ UNCHANGED <<root, owner, producer, recovery, invalidated, dispatch, world>>

\* The handoff of sessions or storage fails.
ReleaseFails ==
    /\ Current
    /\ Permitted
    /\ reconciler.action = "release"
    /\ Fault
    /\ resident' = Fence(resident)
    /\ reconciler' = [reconciler EXCEPT !.pc = "pass"]
    /\ UNCHANGED <<root, owner, producer, recovery, invalidated, dispatch,
                   session, host, acked, epoch, sent>>

-----------------------------------------------------------------------------
(* The dispatcher *)

\* The pending slots of R are removed and their waiters rejected: a producer goes
\* to its failure path, a result-only waiter leaves the map and fences.
Reject(R) ==
    LET waiting == \E o \in R : slot[o].awaited
        producing == \E o \in R : ~slot[o].awaited /\ ~slot[o].ended
    IN  /\ recovery' = IF waiting THEN "none" ELSE recovery
        /\ resident' = IF waiting THEN Fence(resident) ELSE resident
        /\ producer' = IF producing THEN [producer EXCEPT !.pc = "fence"] ELSE producer

Remove(R) == [o \in Op |-> IF o \in R THEN NoSlot ELSE slot[o]]

\* Result-only expectations of another epoch.
StaleWaits == {o \in Op : slot[o].awaited /\ epoch # 1}

\* Effects accepted by an earlier connection, and expectations that this
\* connection's first poll finds unanswered.
PriorEffects ==
    {o \in Op \ StaleWaits : \/ slot[o].awaited /\ ~session.polled
                             \/ slot[o].accepted /\ ~slot[o].here}

\* A queued command of an old epoch.
StaleCommand(o) == IF slot[o].command /\ epoch # 1 THEN {o} ELSE {}

Deliverable(o) == slot[o].command /\ ~slot[o].accepted /\ epoch = 1

\* The host polls when it runs nothing and holds no result: one effect at a time, and
\* the retained result is submitted before the next poll.
HostPolls ==
    /\ session.up
    /\ \A p \in Op : host[p] # "running" /\ (host[p] \in {"done", "failed"} /\ epoch = 1 => acked[p])

\* The poll-first fence: the outcome is unknown and the connection is closed.
PollFences ==
    /\ HostPolls
    /\ PriorEffects # {}
    /\ slot' = [o \in Op |-> [Remove(StaleWaits \cup PriorEffects)[o] EXCEPT !.receiving = FALSE]]
    /\ Reject(StaleWaits \cup PriorEffects)
    /\ session' = [up |-> FALSE, polled |-> FALSE]
    /\ UNCHANGED <<root, owner, reconciler, invalidated, receiver, host, acked, epoch, sent, faults>>

\* A poll without delivery.
PollEmpty(o) ==
    /\ HostPolls
    /\ PriorEffects = {}
    /\ ~Deliverable(o)
    /\ slot' = Remove(StaleWaits \cup StaleCommand(o))
    /\ Reject(StaleWaits \cup StaleCommand(o))
    /\ session' = [session EXCEPT !.polled = TRUE]
    /\ UNCHANGED <<root, owner, reconciler, invalidated, receiver, host, acked, epoch, sent, faults>>

Accept(o) == slot' = [slot EXCEPT ![o] = [slot[o] EXCEPT !.accepted = TRUE, !.here = TRUE]]

\* The command is accepted once and its response reaches the host.
PollDelivers(o) ==
    /\ HostPolls
    /\ PriorEffects = {}
    /\ Deliverable(o)
    /\ Accept(o)
    /\ host' = [host EXCEPT ![o] = "running"]
    /\ sent' = [sent EXCEPT ![o] = @ + 1]
    /\ session' = [session EXCEPT !.polled = TRUE]
    /\ UNCHANGED <<core, receiver, acked, epoch, faults>>

\* The response is lost with the connection.
DeliveryLost(o) ==
    /\ HostPolls
    /\ PriorEffects = {}
    /\ Deliverable(o)
    /\ Fault
    /\ slot' = [slot EXCEPT ![o] = [slot[o] EXCEPT !.accepted = TRUE]]
    /\ sent' = [sent EXCEPT ![o] = @ + 1]
    /\ session' = [up |-> FALSE, polled |-> FALSE]
    /\ UNCHANGED <<core, receiver, host, acked, epoch>>

\* The checks before delivery refuse the command for good.
DeliveryRefused(o) ==
    /\ HostPolls
    /\ PriorEffects = {}
    /\ Deliverable(o)
    /\ Fault
    /\ slot' = Remove({o})
    /\ Reject({o})
    /\ UNCHANGED <<root, owner, reconciler, invalidated, receiver, session, host, acked, epoch, sent>>

HostResult(o) == session.up /\ epoch = 1 /\ host[o] \in {"done", "failed"} /\ ~acked[o]

\* A result arrives for a pending slot: its consumer posts the settlement.
Receive(o) ==
    /\ HostResult(o)
    /\ receiver[o] = "idle"
    /\ slot[o].accepted \/ slot[o].awaited
    /\ receiver' = [receiver EXCEPT ![o] = "posted"]
    /\ slot' = [slot EXCEPT ![o] = [slot[o] EXCEPT !.receiving = TRUE]]
    /\ producer' = IF producer.op = o THEN [producer EXCEPT !.seen = slot[o].command] ELSE producer
    /\ UNCHANGED <<root, resident, owner, recovery, reconciler, invalidated, world>>

\* Without a slot, only a result the journal has consumed is acknowledged.
ReceiveDuplicate(o) ==
    /\ HostResult(o)
    /\ ~slot[o].pending
    /\ root[o].step[Consume].state = "completed"
    /\ root[o].step[Consume].outputs = OutputOf(host[o])
    /\ acked' = [acked EXCEPT ![o] = TRUE]
    /\ UNCHANGED <<core, dispatch, session, host, epoch, sent, faults>>

ConsumeCommit(o) ==
    /\ receiver[o] = "posted"
    /\ root' = [root EXCEPT ![o] = SettleIdle(root[o], OutcomeOf(host[o]), OutputOf(host[o]))]
    /\ receiver' = [receiver EXCEPT ![o] =
          IF root'[o].step[Consume].state = "completed" THEN "committed" ELSE "idle"]
    /\ invalidated' = (invalidated \/ receiver'[o] = "committed")
    /\ UNCHANGED <<resident, owner, producer, recovery, reconciler, slot, world>>

\* The writer fails: no acknowledgement.  A host that is answered anything but 204 drops
\* the result and ends its epoch (HostRestart); here it may also offer the result again, so
\* what Core promises does not rest on that.
ConsumeFails(o) ==
    /\ receiver[o] = "posted"
    /\ Fault
    /\ receiver' = [receiver EXCEPT ![o] = "idle"]
    /\ UNCHANGED <<core, slot, session, host, acked, epoch, sent>>

\* The slot must still be the one that received; then it is removed, the result
\* acknowledged and the waiter settled.  An effect_failed result rejects it.
ReceiveEnds(o) ==
    /\ receiver[o] = "committed"
    /\ receiver' = [receiver EXCEPT ![o] = "idle"]
    /\ IF slot[o].receiving
       THEN /\ slot' = Remove({o})
            /\ acked' = [acked EXCEPT ![o] = TRUE]
            /\ IF host[o] = "done" /\ ~slot[o].awaited
               THEN /\ producer' = IF slot[o].ended THEN producer ELSE [producer EXCEPT !.pc = "drain"]
                    /\ UNCHANGED <<recovery, invalidated, resident>>
               ELSE IF host[o] = "done"
               THEN recovery' = "none" /\ invalidated' = TRUE /\ UNCHANGED <<producer, resident>>
               ELSE Reject({o}) /\ UNCHANGED invalidated
       ELSE UNCHANGED <<slot, acked, producer, recovery, invalidated, resident>>
    /\ UNCHANGED <<root, owner, reconciler, session, host, epoch, sent, faults>>

-----------------------------------------------------------------------------
(* The host and its connection, and the end of Core's process             *)

\* Done or failed.  A host that fails to remove a Sandbox or a bridge also ends its epoch
\* (HostRestart); an answer with effect_failed is what Core is prepared for.
HostEnds(o, outcome) ==
    /\ host[o] = "running"
    /\ host' = [host EXCEPT ![o] = outcome]
    /\ UNCHANGED <<core, dispatch, session, acked, epoch, sent, faults>>

\* What a closed connection leaves of the slots.
Unconnected == [o \in Op |-> [slot[o] EXCEPT !.here = FALSE, !.receiving = FALSE]]

Disconnect ==
    /\ session.up
    /\ Fault
    /\ session' = [up |-> FALSE, polled |-> FALSE]
    /\ slot' = Unconnected
    /\ UNCHANGED <<core, receiver, host, acked, epoch, sent>>

\* A new connection becomes ready.
Connect ==
    /\ ~session.up
    /\ session' = [up |-> TRUE, polled |-> FALSE]
    /\ UNCHANGED <<core, dispatch, host, acked, epoch, sent, faults>>

\* The host comes back as a fresh coordinator; its Sandbox is gone.
HostRestart ==
    /\ epoch = 1
    /\ Fault
    /\ epoch' = 2
    /\ session' = [up |-> FALSE, polled |-> FALSE]
    /\ slot' = Unconnected
    /\ host' = [o \in Op |-> IF host[o] = "running" THEN "lost" ELSE host[o]]
    /\ UNCHANGED <<core, receiver, acked, sent>>

\* Core ends and starts again: the journal, the inventory and the host remain.
Crash ==
    /\ Fault
    /\ owner' = IdleOwner
    /\ producer' = IdleProducer
    /\ recovery' = "none"
    /\ reconciler' = IdleReconciler
    /\ invalidated' = TRUE
    /\ slot' = [o \in Op |-> NoSlot]
    /\ receiver' = [o \in Op |-> "idle"]
    /\ session' = [up |-> FALSE, polled |-> FALSE]
    /\ UNCHANGED <<root, resident, host, acked, epoch, sent>>

-----------------------------------------------------------------------------
OwnerStep == (\E b \in BOOLEAN : DeleteSandbox(b)) \/ RetireAbsent \/ JoinEnds
OwnerCall == Claim \/ RetireOrphan \/ EvictAbsent
ProducerStep ==
    PublishIntent \/ Enqueue \/ DeliveryFails \/ Drain \/ FenceResident \/ SettleUnknown \/ Clear
ReconcilerStep ==
    \/ PassBegins \/ PassEnds \/ AdvanceRefused \/ AdvanceDelete \/ AdvanceResultOnly \/ AdvanceRelease
    \/ \E o \in Op : Select(o)
ReceiverStep == \E o \in Op : ConsumeCommit(o) \/ ReceiveEnds(o)
HostStep ==
    \/ PollFences \/ Connect
    \/ \E o \in Op : \/ PollEmpty(o) \/ PollDelivers(o) \/ Receive(o) \/ ReceiveDuplicate(o)
                     \/ HostEnds(o, "done") \/ HostEnds(o, "failed")
Faults ==
    \/ IntentFails \/ ReleaseFails \/ Disconnect \/ HostRestart \/ Crash
    \/ \E o \in Op : DeliveryLost(o) \/ DeliveryRefused(o) \/ ConsumeFails(o)

Next ==
    \/ OwnerCall \/ OwnerStep \/ ProducerStep \/ Abort \/ Maintain \/ ReconcilerStep
    \/ ReceiverStep \/ HostStep \/ Faults

\* Promises are settled and callbacks run; maintenance runs on its interval; the
\* effect's timer ends it; the host reconnects, polls and offers its results.
Fairness ==
    /\ WF_vars(OwnerStep)
    /\ WF_vars(ProducerStep)
    /\ WF_vars(Abort)
    /\ WF_vars(Maintain)
    /\ WF_vars(ReconcilerStep)
    /\ WF_vars(ReceiverStep)
    /\ WF_vars(Connect)
    /\ WF_vars(PollFences)
    /\ \A o \in Op : WF_vars(PollEmpty(o)) /\ WF_vars(Receive(o) \/ ReceiveDuplicate(o))

IdleCleanupSpec == Init /\ [][Next]_vars /\ Fairness

-----------------------------------------------------------------------------
\* Core forgets a Sandbox (and gives its capacity to another) only when the host
\* deleted it or restarted without it; a lost connection is no such proof
\* (advanceIdleCleanup, requireLaterFreshRuntimeTarget).
RemovedIsGone == resident = "removed" => epoch # 1 \/ host["delete"] = "done"

\* No crash, reconnection or repeated pass delivers an operation twice, and the
\* Sandbox is not deleted under a bridge whose close is undecided
\* (idleCleanupEffect, expectResultOnly, poll).
ContactedOnce ==
    /\ \A o \in Op : sent[o] <= 1
    /\ sent["delete"] > 0 /\ Exists("close") => ConsumedProof("close")

\* The exclusion of a cleanup ends only with a result that says it was done, and
\* the recorded outcome is what the host did (settleCoreIdleJournal).
ExclusionNeedsProof ==
    \A o \in Op :
        /\ Proved(root[o])
        /\ Exists(o) /\ root[o].exclusion # Held => EffectState(o) = "completed"
        /\ EffectState(o) = "completed" => host[o] = "done"
        /\ root[o].step[Consume].state = "completed" => root[o].step[Consume].outputs = OutputOf(host[o])

\* A resident admits work again only if no cleanup was ever delivered for it: an
\* eviction takes its claim back only before contact (effect, evictIncompatibleIdleSandbox).
AcceptingIsUntouched == resident = "accepting" => \A o \in Op : sent[o] = 0

\* A recorded completion is always followed up, across reconnections, crashes and
\* passes that found nothing to do: after the close comes the delete's intent, after
\* the delete the resident is forgotten (wake, runOnce, idleCleanupEffect).
CleanupContinues ==
    /\ ConsumedProof("close") ~> (Exists("delete") \/ resident = "removed")
    /\ ConsumedProof("delete") ~> resident = "removed"

\* The host gets rid of every result it holds, also of one that comes after Core
\* gave the effect up (expectResultOnly, settleNanoHostCorrelatedResult).
ResultsAreAcknowledged ==
    \A o \in Op : (epoch = 1 /\ host[o] \in {"done", "failed"}) ~> (acked[o] \/ epoch # 1)
=============================================================================
