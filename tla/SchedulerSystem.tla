--------------------------- MODULE SchedulerSystem ---------------------------
(***************************************************************************)
(* The scheduler as a whole: admission, dispatch and execution of Turns    *)
(* (TurnExecution) together with every other owner that writes the same    *)
(* records: the Stop command, the maintenance pass with its scheduler and  *)
(* native stages, and restart after a crash of Core.                       *)
(***************************************************************************)
EXTENDS TurnExecution

CONSTANTS
    Stoppable,  \* Turns a user may stop
    Revocable,  \* Turns whose actor may lose or regain authority
    MaxCrash    \* bound on crashes of Core

\* The terminal causes the owners write: executor and dispatch loop, Stop, the
\* Worker's final status, both stages of maintenance, restart.
SystemCauses == {"turn-start-failed", "backend-busy", "execution-failed", "turn-cancelled",
                 "worker-final-status", "authority-revoked", "execution-deadline",
                 "native-liveness-expired", "restart-before-effects", "restart-native-recovery"}

ASSUME SystemAssumption ==
    /\ SystemCauses \subseteq Cause
    /\ Stoppable \subseteq Turn
    /\ Revocable \subseteq Turn
    /\ MaxCrash \in Nat

VARIABLES
    stop,     \* stop[t]: the Stop command of t in flight
    maint,    \* the attempt the maintenance pass works on
    mode,     \* "up" after listen, "boot" while restart recovery runs
    crashes   \* crashes so far

systemVars == <<stop, maint, mode, crashes>>
vars == <<storeVars, execVars, systemVars>>

NoStop == [pc |-> "idle", attempt |-> Null]

StopRequest == [pc : {"idle", "cancel", "mark", "close", "seal", "interrupt", "cancelBackend"},
                attempt : Attempt \cup {Null}]

\* What the pass remembers of the row it listed.
NoItem == [pc |-> "idle", attempt |-> Null, open |-> FALSE, op |-> Null,
           expired |-> FALSE, cause |-> Null, seen |-> Null]

MaintItem == [pc : {"idle", "check", "mark", "close", "project", "cancel", "inspect", "report"},
              attempt : Attempt \cup {Null}, open : BOOLEAN, op : Op \cup {Null},
              expired : BOOLEAN, cause : Cause \cup {Null},
              seen : Disposition \cup {Null}]

\* backend.cancel answers for the closing attempt and operation it was given:
\* accepted while the process still knows of the started Turn.
CancelAnswers(a) ==
    {Outcome(a, attempt[a].op, d) : d \in
        IF host[a] \in {"started", "final"} THEN {"accepted", "unknown"} ELSE {"unknown"}}

\* backend.inspect reports native evidence of the submission if it finds any,
\* and the recorded disposition otherwise.
Inspected(a) ==
    {attempt[a].disposition} \cup
        IF attempt[a].op = "submit" /\ host[a] \in {"started", "final"} THEN {"accepted"} ELSE {}

Stopper(t) == <<"stop", t>>
Maintainer == <<"maintenance", Null>>

-----------------------------------------------------------------------------
(* Stop: the turn.interrupt route, and scheduler.cancel for queued work.   *)

StopGo(t, pc) == stop' = [stop EXCEPT ![t].pc = pc]
StopEnds(t) == stop' = [stop EXCEPT ![t] = NoStop]

\* The route reads the Turn, its entry and its live attempt, chooses, and
\* posts its first command.
ReadStop(t) ==
    /\ t \in Stoppable
    /\ stop[t] = NoStop
    /\ turn[t] \in {"pending", "running"}
    /\ \/ /\ LiveAttemptsOf(t) = {}
          /\ status[t] \in {"queued", "denied"}
          /\ StopGo(t, "cancel")
       \/ \E a \in LiveAttemptsOf(t) :
             /\ attempt[a].phase = "open"
             /\ stop' = [stop EXCEPT ![t] =
                   [pc |-> IF attempt[a].op = Null THEN "mark" ELSE "interrupt", attempt |-> a]]
    /\ Posts(Stopper(t))
    /\ UNCHANGED <<storeVars, turn, exec, host, now, maint, mode, crashes>>

CancelQueued(t) ==
    /\ stop[t].pc = "cancel"
    /\ Commits(Stopper(t))
    /\ \/ CancelEntry(t) /\ StopGo(t, "seal")
       \/ ~CanCancelEntry(t) /\ StopEnds(t) /\ UNCHANGED storeVars
    /\ UNCHANGED <<turn, exec, host, now, maint, mode, crashes>>

\* The row MarkClosing returns is not looked at again.
StopMark(t) ==
    /\ stop[t].pc \in {"mark", "interrupt"}
    /\ Commits(Stopper(t))
    /\ RevokeAttempt(stop[t].attempt, "turn-cancelled")
    /\ StopGo(t, IF stop[t].pc = "mark" THEN "close" ELSE "cancelBackend")
    /\ UNCHANGED <<turn, exec, host, now, maint, mode, crashes>>

StopPost(t) ==
    /\ stop[t].pc = "close"
    /\ ~Posted(Stopper(t))
    /\ Posts(Stopper(t))
    /\ UNCHANGED <<storeVars, turn, exec, host, now, systemVars>>

StopClose(t) ==
    LET a == stop[t].attempt IN
    /\ stop[t].pc = "close"
    /\ Commits(Stopper(t))
    /\ \/ RefuseAttempt(a, "turn-cancelled", FALSE) /\ StopGo(t, "seal")
       \/ Live(a) /\ ~CanCloseWithoutEffects(a) /\ StopEnds(t) /\ UNCHANGED storeVars
    /\ UNCHANGED <<turn, exec, host, now, maint, mode, crashes>>

StopSeal(t) ==
    /\ stop[t].pc = "seal"
    /\ Terminalize(t, "cancelled")
    /\ StopEnds(t)
    /\ UNCHANGED <<storeVars, exec, host, writer, now, maint, mode, crashes>>

\* The answer of backend.cancel is recorded whenever it arrives.
StopCancelBackend(t) ==
    LET a == stop[t].attempt IN
    /\ stop[t].pc = "cancelBackend"
    /\ IF attempt[a].phase = "closing"
       THEN \E answer \in CancelAnswers(a) : Observe(answer)
       ELSE UNCHANGED storeVars
    /\ StopEnds(t)
    /\ UNCHANGED <<execVars, maint, mode, crashes>>

StopStep(t) ==
    \/ CancelQueued(t)
    \/ StopMark(t)
    \/ StopPost(t)
    \/ StopClose(t)
    \/ StopSeal(t)
    \/ StopCancelBackend(t)

-----------------------------------------------------------------------------
(* The scheduler stage of maintenance: runSchedulerRecoveryMaintenance.    *)

MaintGo(pc) == maint' = [maint EXCEPT !.pc = pc]
MaintEnds == maint' = NoItem

\* Mutant: a pass that never sees a deadline.
MaintListUntimed(a) ==
    /\ maint = NoItem
    /\ Live(a)
    /\ maint' = [NoItem EXCEPT
          !.pc = "check", !.attempt = a,
          !.open = (attempt[a].phase = "open"),
          !.op = attempt[a].op]
    /\ UNCHANGED <<storeVars, execVars, stop, mode, crashes>>

MaintList(a) ==
    /\ maint = NoItem
    /\ Live(a)
    /\ maint' = [NoItem EXCEPT
          !.pc = "check", !.attempt = a,
          !.open = (attempt[a].phase = "open"),
          !.op = attempt[a].op,
          !.expired = (attempt[a].deadline # Null /\ attempt[a].deadline <= now)]
    /\ UNCHANGED <<storeVars, execVars, stop, mode, crashes>>

MaintCheck ==
    LET revoked == ~authority[attempt[maint.attempt].turn]
        due == maint.open /\ (revoked \/ maint.expired)
    IN  /\ maint.pc = "check"
        /\ \/ /\ due
              /\ maint' = [maint EXCEPT !.pc = "mark",
                    !.cause = IF revoked THEN "authority-revoked" ELSE "execution-deadline"]
              /\ Posts(Maintainer)
           \/ /\ ~due
              /\ IF maint.op # Null THEN MaintGo("inspect") ELSE MaintEnds
              /\ UNCHANGED writer
        /\ UNCHANGED <<storeVars, turn, exec, host, now, stop, mode, crashes>>

\* Mutant: the listed row decides, as it was before the pass waited.
MaintMarkListed ==
    LET a == maint.attempt IN
    /\ maint.pc = "mark"
    /\ Commits(Maintainer)
    /\ RevokeAttempt(a, maint.cause)
    /\ MaintGo(IF maint.op = Null THEN "close" ELSE "cancel")
    /\ UNCHANGED <<turn, exec, host, now, stop, mode, crashes>>

\* The row MarkClosing returns decides between closing and cancelling.
MaintMark ==
    LET a == maint.attempt IN
    /\ maint.pc = "mark"
    /\ Commits(Maintainer)
    /\ RevokeAttempt(a, maint.cause)
    /\ MaintGo(IF attempt[a].op = Null THEN "close" ELSE "cancel")
    /\ UNCHANGED <<turn, exec, host, now, stop, mode, crashes>>

MaintPost ==
    /\ maint.pc = "close"
    /\ ~Posted(Maintainer)
    /\ Posts(Maintainer)
    /\ UNCHANGED <<storeVars, turn, exec, host, now, systemVars>>

MaintClose ==
    LET a == maint.attempt IN
    /\ maint.pc = "close"
    /\ Commits(Maintainer)
    /\ RefuseAttempt(a, attempt[a].cause, FALSE)
    /\ MaintGo("project")
    /\ UNCHANGED <<turn, exec, host, now, stop, mode, crashes>>

MaintProject ==
    /\ maint.pc = "project"
    /\ Terminalize(attempt[maint.attempt].turn, "failed")
    /\ MaintEnds
    /\ UNCHANGED <<storeVars, exec, host, writer, now, stop, mode, crashes>>

MaintCancel ==
    LET a == maint.attempt IN
    /\ maint.pc = "cancel"
    /\ \/ /\ attempt[a].phase = "closing"
          /\ \E answer \in CancelAnswers(a) : Observe(answer)
          /\ IF maint.op # Null THEN MaintGo("inspect") ELSE MaintEnds
       \/ attempt[a].phase # "closing" /\ MaintEnds /\ UNCHANGED storeVars
    /\ UNCHANGED <<execVars, stop, mode, crashes>>

\* Evidence is of the operation that was listed: none if the attempt moved on.
MaintInspect ==
    LET a == maint.attempt IN
    /\ maint.pc = "inspect"
    /\ \/ /\ attempt[a].op = maint.op
          /\ \E seen \in Inspected(a) : maint' = [maint EXCEPT !.pc = "report", !.seen = seen]
          /\ Posts(Maintainer)
       \/ attempt[a].op # maint.op /\ MaintEnds /\ UNCHANGED writer
    /\ UNCHANGED <<storeVars, turn, exec, host, now, stop, mode, crashes>>

MaintReport ==
    /\ maint.pc = "report"
    /\ Commits(Maintainer)
    /\ Observe(Outcome(maint.attempt, maint.op, maint.seen))
    /\ MaintEnds
    /\ UNCHANGED <<turn, exec, host, now, stop, mode, crashes>>

\* A crash may leave a no-effect closure ahead of its Turn: both stages of
\* the pass retry the publication of the causes they own.
PublishedCauses == {"restart-before-effects", "authority-revoked", "execution-deadline",
                    "turn-start-failed"}

PublishFailure(a) ==
    /\ attempt[a].phase = "closed"
    /\ attempt[a].disposition = "not_accepted"
    /\ attempt[a].op = Null
    /\ attempt[a].cause \in PublishedCauses
    /\ ~isTurnExecutionActive(attempt[a].turn)
    /\ turn[attempt[a].turn] \notin Terminal
    /\ Terminalize(attempt[a].turn, "failed")
    /\ UNCHANGED <<storeVars, exec, host, writer, now, systemVars>>

MaintStep ==
    \/ MaintCheck
    \/ MaintMark
    \/ MaintPost
    \/ MaintClose
    \/ MaintProject
    \/ MaintCancel
    \/ MaintInspect
    \/ MaintReport

-----------------------------------------------------------------------------
(* The native stage of maintenance: runNanoHostAttemptRecoveryMaintenance. *)

\* The Worker's heartbeat is late: the attempt stops even while its executor
\* is still waiting.
NativeExpire(a) ==
    /\ attempt[a].phase = "open"
    /\ host[a] \in {"materializing", "prepared", "started"}
    /\ MarkClosing(a, "native-liveness-expired", Null)
    /\ UNCHANGED <<execVars, systemVars>>

\* No cleanup under a live executor.  The wait for a stopped Worker's final
\* status ends when its heartbeat is late, which it may be at once.  A pass
\* that waits for a capture, for evidence or for a takeover, or whose cleanup
\* fails, leaves the attempt closing, maybe for ever: nothing changes.
NativeCleanup(a) ==
    /\ attempt[a].phase = "closing"
    /\ host[a] \in {"materializing", "prepared", "started"}
    /\ ~isTurnExecutionActive(attempt[a].turn)
    /\ Fence(a)
    /\ UNCHANGED <<storeVars, turn, exec, writer, now, systemVars>>

NativeProject(a) ==
    /\ attempt[a].phase = "closing"
    /\ host[a] \in {"fenced", "retired"}
    /\ ~isTurnExecutionActive(attempt[a].turn)
    /\ turn[attempt[a].turn] \notin Terminal
    /\ Terminalize(attempt[a].turn, "interrupted")
    /\ UNCHANGED <<storeVars, exec, host, writer, now, systemVars>>

NativeRelease(a) ==
    /\ attempt[a].phase = "closing"
    /\ ~isTurnExecutionActive(attempt[a].turn)
    /\ ReleaseTerminalAttempt(a)
    /\ UNCHANGED <<execVars, systemVars>>

\* reconcileAcceptedFinalStatus finishes a closeout nobody owns any more:
\* cleanup, then publication.  When the output cannot be collected the Turn is
\* interrupted first and cleaned up afterwards.
NativeCloseout(a) ==
    /\ attempt[a].phase = "closing"
    /\ host[a] = "final"
    /\ ~isTurnExecutionActive(attempt[a].turn)
    /\ Fence(a)
    /\ UNCHANGED <<storeVars, turn, exec, writer, now, systemVars>>

NativePublish(a) ==
    /\ attempt[a].phase = "closing"
    /\ host[a] \in {"final", "collected"}
    /\ ~isTurnExecutionActive(attempt[a].turn)
    /\ turn[attempt[a].turn] \notin Terminal
    /\ \E outcome \in IF host[a] = "final" THEN {"interrupted"} ELSE FinalOutcomes(a) :
          Terminalize(attempt[a].turn, outcome)
    /\ UNCHANGED <<storeVars, exec, host, writer, now, systemVars>>

\* A closed attempt can leave a backend session behind.
RetireOrphan(a) ==
    /\ attempt[a].phase = "closed"
    /\ host[a] # "none" /\ ~Cleaned(a)
    /\ Fence(a)
    /\ UNCHANGED <<storeVars, turn, exec, writer, now, systemVars>>

NativeStep(a) ==
    \/ NativeCleanup(a)
    \/ NativeProject(a)
    \/ NativeRelease(a)
    \/ NativeCloseout(a)
    \/ NativePublish(a)
    \/ RetireOrphan(a)

-----------------------------------------------------------------------------
(* Crash and restart of Core.                                              *)

\* Everything local to the process is lost; records, Turns and host remain.
Crash ==
    /\ crashes < MaxCrash
    /\ crashes' = crashes + 1
    /\ mode' = "boot"
    /\ exec' = [t \in Turn |-> Idle]
    /\ stop' = [t \in Turn |-> NoStop]
    /\ maint' = NoItem
    /\ writer' = <<>>
    /\ UNCHANGED <<storeVars, turn, host, now>>

\* runSchedulerRestartRecovery: no operation recorded means nothing happened;
\* the closure and its Turn are two steps.
RestartClose(a) ==
    /\ maint = NoItem
    /\ Live(a)
    /\ attempt[a].op = Null
    /\ CloseWithoutEffects(a, "restart-before-effects", FALSE)
    /\ maint' = [NoItem EXCEPT !.pc = "project", !.attempt = a]
    /\ UNCHANGED <<execVars, stop, mode, crashes>>

ReconnectEligible(a) ==
    /\ host[a] = "started"
    /\ attempt[a].deadline > now

\* Mutant: an operation without an answer is taken for undone and its Turn
\* waits again.
RestartRequeue(a) ==
    /\ attempt[a].phase = "open"
    /\ attempt[a].op # Null
    /\ CloseWithoutEffects(a, "restart-native-recovery", TRUE)
    /\ turn' = [turn EXCEPT ![attempt[a].turn] = "pending"]
    /\ UNCHANGED <<exec, host, writer, now, systemVars>>

\* classifyNanoHostAttemptsAfterRestart: a submission within its deadline may
\* reconnect, if its native identity can be restored; the rest is closing.
\* Nothing is delivered again.
RestartClassify(a) ==
    /\ attempt[a].phase = "open"
    /\ attempt[a].op # Null
    /\ MarkClosing(a, "restart-native-recovery", Null)
    /\ UNCHANGED <<execVars, systemVars>>

Listen ==
    /\ maint = NoItem
    /\ \A a \in Attempt : Live(a) => attempt[a].op # Null
    /\ \A a \in Attempt : attempt[a].phase = "open" => ReconnectEligible(a)
    /\ mode' = "up"
    /\ UNCHANGED <<storeVars, execVars, stop, maint, crashes>>

BootStep ==
    /\ mode = "boot"
    /\ \/ \E a \in Attempt : RestartClose(a)
       \/ \E a \in Attempt : RestartClassify(a)
       \/ MaintProject
       \/ Listen

-----------------------------------------------------------------------------
Init ==
    /\ StoreInit
    /\ ExecInit
    /\ stop = [t \in Turn |-> NoStop]
    /\ maint = NoItem
    /\ mode = "up"
    /\ crashes = 0

\* Requests from outside.
Request(t) ==
    \/ (CreateEntry(t) \/ CreateRecurringEntry(t) \/ RetryDeniedEntry(t)) /\ UNCHANGED <<execVars, systemVars>>
    \/ t \in Revocable /\ ChangeAuthority(t) /\ UNCHANGED <<execVars, systemVars>>
    \/ ReadStop(t)

Publish(t) == mode = "up" /\ PublishTurn(t) /\ UNCHANGED systemVars
Dispatches(t) == mode = "up" /\ Claim(t) /\ UNCHANGED systemVars
Executes(t) == mode = "up" /\ DispatchStep(t) /\ UNCHANGED systemVars
Stops(t) == mode = "up" /\ StopStep(t)
Maintains == mode = "up" /\ MaintStep
Lists(a) == mode = "up" /\ MaintList(a)
Publishes(a) == mode = "up" /\ PublishFailure(a)
Recovers(a) == mode = "up" /\ NativeStep(a)
TimePasses == Tick /\ UNCHANGED systemVars

Next ==
    \/ \E t \in Turn :
          \/ mode = "up" /\ Request(t)
          \/ Publish(t) \/ Dispatches(t) \/ Executes(t) \/ Stops(t)
    \/ Maintains
    \/ \E a \in Attempt :
          \/ mode = "up" /\ (NativeExpire(a) \/ (AcceptFinalStatus(a) /\ UNCHANGED systemVars))
          \/ Lists(a) \/ Publishes(a) \/ Recovers(a)
    \/ TimePasses
    \/ Crash
    \/ BootStep

Spec == Init /\ [][Next]_vars

\* Awaited work in Core completes; the dispatch loop and the maintenance pass
\* run again and again; clocks advance.  The Worker owes nothing, users owe
\* nothing, authority may change or not.  Native recovery owes nothing either:
\* it needs evidence from the host that may never come.
Fairness ==
    /\ \A t \in Turn : WF_vars(Dispatches(t)) /\ WF_vars(Executes(t)) /\ WF_vars(Stops(t))
    /\ WF_vars(Maintains)
    /\ \A a \in Attempt : SF_vars(Lists(a)) /\ WF_vars(Publishes(a))
    /\ WF_vars(TimePasses)
    /\ WF_vars(BootStep)

FairSpec == Spec /\ Fairness

-----------------------------------------------------------------------------
\* Types of the process-local state of the other owners.
SystemTypeOK ==
    /\ StoreTypeOK
    /\ ExecTypeOK
    /\ stop \in [Turn -> StopRequest]
    /\ maint \in MaintItem
    /\ mode \in {"up", "boot"}
    /\ crashes \in 0..MaxCrash

\* An attempt that delivered something to the host.
Affected(a) == host[a] \in {"prepared", "started", "final", "fenced", "collected"}

\* The exclusion outlives the effects: while the host may still run a recorded
\* operation, its attempt is live, so its Thread and AgentSession cannot be given
\* to another.  Every owner that closes an attempt must find the operation, whoever
\* recorded it meanwhile.
RecordedEffectsHeld == \A a \in Attempt : Unfenced(a) /\ attempt[a].op # Null => Live(a)

\* At most one attempt of a Turn ever reaches the host, through requeues,
\* lost replies, failures, crashes and restarts: nothing is replayed.
NoReplay ==
    \A a, b \in Attempt :
        Affected(a) /\ Affected(b) /\ attempt[a].turn = attempt[b].turn => a = b

\* The refinement: a Turn holds its lane while it has a live attempt, and
\* acts with its recorded operations.
Place(t) ==
    IF LiveAttemptsOf(t) # {} THEN "holding"
    ELSE CASE status[t] \in {"queued", "denied"} -> "waiting"
           [] status[t] = "absent" -> "outside"
           [] OTHER -> "left"

EffectOf(t) ==
    LET recorded == {a \in Attempt : attempt[a].turn = t /\ attempt[a].op # Null}
    IN  IF \E a \in recorded : Unfenced(a) THEN "active"
        ELSE IF \E a \in recorded : Affected(a) THEN "settled"
        ELSE "none"

Lane == INSTANCE ExecutionLane WITH
    lane <- [t \in Turn |-> Place(t)], effect <- [t \in Turn |-> EffectOf(t)]

\* Dispatch, execution, maintenance, crash and restart together implement
\* the lane: one holder per Thread, effects only while holding it, once, and
\* settled before leaving it.
KeepsLane == Lane!LaneSpec

\* No recorded operation of a cancelled Turn ever reached the host.
CancelledBeforeEffects ==
    \A a \in Attempt :
        Affected(a) /\ attempt[a].op # Null => turn[attempt[a].turn] # "cancelled"

\* An attempt that is open, or that its executor still works on.
InUse(a) == Live(a) /\ (attempt[a].phase = "open" \/ isTurnExecutionActive(attempt[a].turn))

\* No attempt stays in use for good, although its Worker may be silent, its
\* replies lost, its authority revoked and Core restarted at any step: it is
\* closed, or left closing to native recovery, which no executor blocks.  That
\* recovery may keep it, with its lane, until it has the host's evidence.
AttemptsAreLetGo == \A a \in Attempt : InUse(a) ~> ~InUse(a)

\* An admitted Turn is eventually decided, or its admission waits again.
AdmittedTurnsEnd ==
    \A t \in Turn :
        (status[t] = "admitted" /\ turn[t] # "absent")
            ~> (turn[t] \in Terminal \/ status[t] \in {"queued", "denied"})

\* A definite no-effect closure that keeps its admission decides its Turn.
ClosuresArePublished ==
    \A t \in Turn :
        (/\ status[t] = "admitted"
         /\ LiveAttemptsOf(t) = {}
         /\ \E a \in Attempt : attempt[a].turn = t /\ attempt[a].op = Null)
            ~> (turn[t] \in Terminal \/ status[t] # "admitted")

\* A decided Turn is never decided again.
OutcomesAreFinal == [][\A t \in Turn : turn[t] \in Terminal => turn'[t] = turn[t]]_vars
=============================================================================
