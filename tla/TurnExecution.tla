---------------------------- MODULE TurnExecution ----------------------------
(***************************************************************************)
(* The dispatch loop, the executor that carries one admitted Turn through  *)
(* preparation, submission and closeout, and the native host as Core sees  *)
(* it.  Core runs on one JavaScript thread; the records are written by the *)
(* Core writer, a thread of its own that takes commands in posting order.  *)
(* A step below is the code between two awaits: a decision read from a row *)
(* is posted in the same step, but commands posted before it by other      *)
(* owners still commit first, and those owners go on before it commits.    *)
(*                                                                         *)
(* Attempt identities are allocated in order.  The Session of a Turn is    *)
(* named after its Thread, the package and the fence after their attempt.  *)
(***************************************************************************)
EXTENDS SchedulerStore, Sequences

ASSUME ExecutionAssumption ==
    /\ Attempt \subseteq Nat
    /\ Thread \subseteq Session
    /\ Attempt \subseteq Input
    /\ Attempt \subseteq Ref
    /\ {"prepare", "submit"} \subseteq Op

VARIABLES
    turn,  \* turn[t]: status of the product Turn
    exec,  \* exec[t]: the process-local dispatch of t and where it stands
    host,  \* host[a]: the native side of attempt a
    writer, \* owners of the commands posted to the Core writer, oldest first
    now    \* wall clock of Core

execVars == <<turn, exec, host, writer, now>>

TurnStatus == {"absent", "pending", "running",
               "completed", "failed", "interrupted", "cancelled"}

Terminal == {"completed", "failed", "interrupted", "cancelled"}

\* none: no backend session recorded.  materializing: recorded, nothing
\* delivered.  prepared, started: an effect (the submission) was handed over.
\* final: the Worker's final status was accepted.  fenced, collected: cleanup
\* proved those effects gone, without or with a final status.  retired:
\* cleaned before any effect.
HostState == {"none", "materializing", "prepared", "started", "final", "fenced", "collected", "retired"}

\* Effects that no cleanup has fenced yet.
Unfenced(a) == host[a] \in {"prepared", "started", "final"}

\* The backend session is recorded as cleaned, its workspace handed over.
Cleaned(a) == host[a] \in {"fenced", "collected", "retired"}

\* Where the dispatch of a Turn stands between two awaits.
Awaiting == {"idle", "deny", "create", "bind", "finalize", "start",
             "materialize", "operate", "deliver", "unqueued", "reply", "await",
             "closeout", "publish", "fail", "refuse", "abandon", "cleanup", "failTurn",
             "catch", "requeue", "refuseStart", "release"}

Dispatch == [pc : Awaiting, attempt : Attempt \cup {Null}, op : Op \cup {Null}, busy : BOOLEAN]

Idle == [pc |-> "idle", attempt |-> Null, op |-> Null, busy |-> FALSE]

\* startTurn holds the executor's recovery exclusion for these steps.
ExecutorSteps == {"materialize", "operate", "deliver", "unqueued", "reply", "await", "closeout",
                  "publish", "fail", "refuse", "abandon", "cleanup", "failTurn", "release"}

isTurnExecutionActive(t) == exec[t].pc \in ExecutorSteps

-----------------------------------------------------------------------------
Dispatcher(t) == <<"dispatch", t>>

Posted(owner) == \E i \in 1..Len(writer) : writer[i] = owner
Posts(owner) == writer' = Append(writer, owner)

\* The writer commits (or refuses) its oldest command.
Commits(owner) == writer # <<>> /\ Head(writer) = owner /\ writer' = Tail(writer)

At(t, pc) == exec[t].pc = pc

Go(t, pc) == exec' = [exec EXCEPT ![t].pc = pc]

Done(t) == exec' = [exec EXCEPT ![t] = Idle]

\* Mutant: the last outcome wins.
TerminalizeAgain(t, outcome) == turn' = [turn EXCEPT ![t] = outcome]

\* Terminal Turns are sealed: a late outcome leaves the first one.
Terminalize(t, outcome) ==
    turn' = IF turn[t] \in Terminal \cup {"absent"} THEN turn
            ELSE [turn EXCEPT ![t] = outcome]

\* Physical cleanup of the attempt's backend session.
Fence(a) ==
    host' = [host EXCEPT ![a] =
        CASE @ = "materializing" -> "retired"
          [] @ \in {"prepared", "started"} -> "fenced"
          [] @ = "final" -> "collected"
          [] OTHER -> @]

Outcome(a, op, disposition) ==
    [attempt |-> a, input |-> attempt[a].input, op |-> op, disposition |-> disposition,
     outcome |-> Null, fence |-> Null]

\* An observation that does not count changes no record.
Observe(o) ==
    IF Live(o.attempt) /\ ObservationCounts(o)
    THEN AcceptObservation(o) ELSE UNCHANGED storeVars

\* Marking or closing an attempt that is already closed succeeds and changes
\* nothing: the caller goes on as if it had done it.
RevokeAttempt(a, cause) ==
    IF Live(a) THEN MarkClosing(a, cause, Null) ELSE UNCHANGED storeVars

RefuseAttempt(a, cause, requeue) ==
    IF Live(a) THEN CloseWithoutEffects(a, cause, requeue) ELSE UNCHANGED storeVars

-----------------------------------------------------------------------------
(* The dispatch loop: runSchedulerDispatchLoop.                            *)

\* Mutant: the Turn is given the status of its entry.
PublishQueuedTurn(t) ==
    /\ turn[t] = "absent"
    /\ status[t] # "absent"
    /\ turn' = [turn EXCEPT ![t] = status[t]]
    /\ UNCHANGED <<storeVars, exec, host, writer, now>>

\* The product half of an admission: the Turn its entry names.
PublishTurn(t) ==
    /\ turn[t] = "absent"
    /\ status[t] # "absent"
    /\ turn' = [turn EXCEPT ![t] = "pending"]
    /\ UNCHANGED <<storeVars, exec, host, writer, now>>

Published(t) == turn[t] = "pending"

\* The FIFO choice: an unpublished entry is passed over, a published or
\* unauthorized one is taken.
Selected(t) ==
    /\ status[t] = "queued"
    /\ LaneFree(t)
    /\ Published(t) \/ ~authority[t]
    /\ \A u \in Queued : rowid[u] < rowid[t] /\ LaneFree(u) => authority[u] /\ ~Published(u)

\* Preparation is single-flight across all claimed entries.
PreparationClaimed ==
    \E u \in Turn : exec[u].pc # "idle" /\
        \E a \in LiveAttemptsOf(u) : attempt[a].phase = "open" /\ attempt[a].deadline = Null

\* The set Attempt bounds the model: without a fresh identity nothing is claimed.
FreshAttempt(a) ==
    /\ attempt[a].phase = "absent"
    /\ \A b \in Attempt : b < a => attempt[b].phase # "absent"

Claim(t) ==
    /\ At(t, "idle")
    /\ ~PreparationClaimed
    /\ Selected(t)
    /\ \E a \in Attempt : FreshAttempt(a)
    /\ Go(t, IF authority[t] THEN "create" ELSE "deny")
    /\ Posts(Dispatcher(t))
    /\ UNCHANGED <<storeVars, turn, host, now>>

Deny(t) ==
    /\ At(t, "deny")
    /\ Commits(Dispatcher(t))
    /\ DenyEntry(t) \/ (status[t] # "queued" /\ UNCHANGED storeVars)
    /\ Done(t)
    /\ UNCHANGED <<turn, host, now>>

\* The attempt is committed before any preparation.
Create(t) ==
    /\ At(t, "create")
    /\ Commits(Dispatcher(t))
    /\ \E a \in Attempt :
          /\ FreshAttempt(a)
          /\ \/ CreateAttempt(a, t) /\ exec' = [exec EXCEPT ![t].pc = "bind", ![t].attempt = a]
             \/ ~CanCreateAttempt(a, t) /\ Done(t) /\ UNCHANGED storeVars
    /\ UNCHANGED <<turn, host, now>>

\* After any time of preparation the dispatch posts its next command.
\* Authority is read before the executor prepares the AgentSession.
Post(t) ==
    /\ exec[t].pc \in {"bind", "finalize", "materialize", "reply", "unqueued", "release"}
    /\ ~Posted(Dispatcher(t))
    /\ At(t, "bind") => authority[t]
    /\ Posts(Dispatcher(t))
    /\ UNCHANGED <<storeVars, turn, exec, host, now>>

Bind(t) ==
    LET a == exec[t].attempt IN
    /\ At(t, "bind")
    /\ Commits(Dispatcher(t))
    /\ \/ BindSession(a, threadOf[t]) /\ Go(t, "finalize")
       \/ ~CanBindSession(a, threadOf[t]) /\ Go(t, "catch") /\ UNCHANGED storeVars
    /\ UNCHANGED <<turn, host, now>>

\* commitPreparedAgentSessionForTurn binds the package to the attempt.
Finalize(t) ==
    LET a == exec[t].attempt IN
    /\ At(t, "finalize")
    /\ Commits(Dispatcher(t))
    /\ \/ FinalizeInput(a, a) /\ Go(t, "start")
       \/ ~CanFinalizeInput(a, a) /\ Go(t, "catch") /\ UNCHANGED storeVars
    /\ UNCHANGED <<turn, host, now>>

\* startTurn makes a pending Turn running; executeTurn wants an open attempt.
Start(t) ==
    /\ At(t, "start")
    /\ authority[t]
    /\ turn[t] = "pending"
    /\ turn' = [turn EXCEPT ![t] = "running"]
    /\ Go(t, "materialize")
    /\ UNCHANGED <<storeVars, host, writer, now>>

\* Any step before the executor owns the Turn may fail; preparing the
\* session may also find no capacity.
PreparationFails(t, busy) ==
    /\ exec[t].pc \in {"bind", "finalize", "start"}
    /\ busy => At(t, "bind")
    /\ ~Posted(Dispatcher(t))
    /\ exec' = [exec EXCEPT ![t].pc = "catch", ![t].busy = busy]
    /\ UNCHANGED <<storeVars, turn, host, writer, now>>

-----------------------------------------------------------------------------
(* The executor: executeTurn.                                              *)

\* The backend session is recorded, for an open attempt only, before the
\* attempt's first effect.
Materialize(t) ==
    LET a == exec[t].attempt IN
    /\ At(t, "materialize")
    /\ Commits(Dispatcher(t))
    /\ \/ /\ attempt[a].phase = "open"
          /\ host' = [host EXCEPT ![a] = "materializing"]
          /\ Go(t, "operate")
       \/ attempt[a].phase # "open" /\ Go(t, "fail") /\ UNCHANGED host
    /\ UNCHANGED <<storeVars, turn, now>>

\* Capacity refused before materialization was published: the Turn goes back
\* to pending and the loop's handler decides.
CapacityUnavailable(t) ==
    LET a == exec[t].attempt IN
    /\ At(t, "materialize")
    /\ ~Posted(Dispatcher(t))
    /\ attempt[a].op = Null
    /\ turn' = IF turn[t] \in Terminal THEN turn ELSE [turn EXCEPT ![t] = "pending"]
    /\ exec' = [exec EXCEPT ![t].pc = "catch", ![t].busy = turn[t] \notin Terminal]
    /\ UNCHANGED <<storeVars, host, writer, now>>

\* Preparation effects, one standing for any number, then the submission.
PostOperation(t, op) ==
    LET a == exec[t].attempt IN
    /\ At(t, "operate")
    /\ ~Posted(Dispatcher(t))
    /\ op = "prepare" => host[a] = "materializing" /\ attempt[a].phase = "open"
    /\ Posts(Dispatcher(t))
    /\ exec' = [exec EXCEPT ![t].op = op]
    /\ UNCHANGED <<storeVars, turn, host, now>>

\* A preparation effect that finds its attempt closing is taken for cleanup:
\* it goes on to delivery, unrecorded.  A closed attempt refuses it.
PrepareWhileClosing(t) ==
    LET a == exec[t].attempt IN
    /\ At(t, "operate")
    /\ ~Posted(Dispatcher(t))
    /\ host[a] = "materializing"
    /\ attempt[a].phase = "closing"
    /\ exec' = [exec EXCEPT ![t].op = "prepare", ![t].pc = "deliver"]
    /\ UNCHANGED <<storeVars, turn, host, writer, now>>

\* An operation of an open attempt is recorded before it is delivered.
Operate(t) ==
    LET a == exec[t].attempt
        op == exec[t].op
    IN  /\ At(t, "operate")
        /\ Commits(Dispatcher(t))
        /\ \/ RecordOperation(a, op, op = "submit", now) /\ Go(t, "deliver")
           \/ ~CanRecordOperation(a, op = "submit") /\ Go(t, "fail") /\ UNCHANGED storeVars
        /\ UNCHANGED <<turn, host, now>>

\* The last check before contact.  A recorded preparation effect wants its
\* attempt still open; what was taken for cleanup is not checked.
MayPrepare(a) == attempt[a].op = Null \/ attempt[a].phase = "open"

\* A submission wants its attempt open and within its deadline.
MaySubmit(a) == attempt[a].phase = "open" /\ attempt[a].deadline > now

Deliver(t) ==
    LET a == exec[t].attempt IN
    /\ At(t, "deliver")
    /\ IF exec[t].op = "submit" THEN MaySubmit(a) ELSE MayPrepare(a)
    /\ host' = [host EXCEPT ![a] = IF exec[t].op = "submit" THEN "started" ELSE "prepared"]
    /\ Go(t, "reply")
    /\ UNCHANGED <<storeVars, turn, writer, now>>

\* The host queue refuses a preparation effect before taking it: the one
\* definite non-acceptance.
NotEnqueued(t) ==
    /\ At(t, "deliver")
    /\ exec[t].op = "prepare"
    /\ MayPrepare(exec[t].attempt)
    /\ Go(t, "unqueued")
    /\ UNCHANGED <<storeVars, turn, host, writer, now>>

ObserveUnqueued(t) ==
    /\ At(t, "unqueued")
    /\ Commits(Dispatcher(t))
    /\ Observe(Outcome(exec[t].attempt, "prepare", "not_accepted"))
    /\ Go(t, "fail")
    /\ UNCHANGED <<turn, host, now>>

\* The reply: a preparation effect continues whatever the record says, a
\* submission only when its acceptance counts.
Reply(t) ==
    LET a == exec[t].attempt
        o == Outcome(a, exec[t].op, "accepted")
    IN  /\ At(t, "reply")
        /\ Commits(Dispatcher(t))
        /\ Observe(o)
        /\ Go(t, IF exec[t].op = "prepare" THEN "operate"
                 ELSE IF ObservationCounts(o) THEN "await" ELSE "fail")
        /\ UNCHANGED <<turn, host, now>>

\* A failed check, a lost reply or any other exception.
ExecutionFails(t) ==
    /\ exec[t].pc \in {"materialize", "operate", "deliver", "reply", "closeout"}
    /\ ~Posted(Dispatcher(t))
    /\ Go(t, "fail")
    /\ UNCHANGED <<storeVars, turn, host, writer, now>>

\* A stopped Worker may still report its final status, within the deadline.
PendingCancellationFinal(a) ==
    /\ attempt[a].phase = "closing"
    /\ attempt[a].cause = "turn-cancelled"
    /\ attempt[a].deadline # Null
    /\ attempt[a].deadline > now

\* waitForWorkerControlFinalStatus: the final status, or the lease is gone.  A
\* stopped Worker's lease ends with its heartbeat, which may be late at once.
AwaitFinal(t) ==
    LET a == exec[t].attempt IN
    /\ At(t, "await")
    /\ \/ host[a] = "final" /\ Go(t, "closeout")
       \/ /\ host[a] # "final"
          /\ attempt[a].phase # "open" \/ attempt[a].deadline <= now
          /\ Go(t, "fail")
    /\ UNCHANGED <<storeVars, turn, host, writer, now>>

\* The accepted final status decides the Turn; a Stop that owns the attempt
\* decides it first.
FinalOutcomes(a) ==
    IF attempt[a].cause = "turn-cancelled" THEN {"interrupted"} ELSE {"completed", "failed"}

\* finishLaunchedTurn: collection, then cleanup.
Closeout(t) ==
    /\ At(t, "closeout")
    /\ Fence(exec[t].attempt)
    /\ Go(t, "publish")
    /\ UNCHANGED <<storeVars, turn, writer, now>>

\* Mutant: the attempt is released before its Turn is published.
PublishOutcomeLate(t) ==
    /\ At(t, "publish")
    /\ Go(t, "release")
    /\ UNCHANGED <<storeVars, turn, host, writer, now>>

\* Only then is the Turn published, which may fail.
PublishOutcome(t) ==
    /\ At(t, "publish")
    /\ \/ /\ \E outcome \in FinalOutcomes(exec[t].attempt) : Terminalize(t, outcome)
          /\ Go(t, "release")
       \/ UNCHANGED turn /\ Go(t, "failTurn")
    /\ UNCHANGED <<storeVars, host, writer, now>>

\* Mutant: the release does not ask for a cleaned session.
ReleaseUncleanedAttempt(a) ==
    IF Live(a)
    THEN /\ turn[attempt[a].turn] \in Terminal
         /\ CloseWithFence(a, attempt[a].input, attempt[a].op, ReleaseBarriers, a)
    ELSE UNCHANGED storeVars

\* releaseTerminalAttempt: with the Turn sealed and its session cleaned, the
\* backend's release of exactly this operation closes the attempt.  Marking
\* it closing once more changes nothing here: every caller comes from closing.
ReleaseTerminalAttempt(a) ==
    IF Live(a)
    THEN /\ turn[attempt[a].turn] \in Terminal
         /\ Cleaned(a)
         /\ CloseWithFence(a, attempt[a].input, attempt[a].op, ReleaseBarriers, a)
    ELSE UNCHANGED storeVars

Release(t) ==
    /\ At(t, "release")
    /\ Commits(Dispatcher(t))
    /\ ReleaseTerminalAttempt(exec[t].attempt)
    /\ Done(t)
    /\ UNCHANGED <<turn, host, now>>

\* The executor's own failure: it reads the attempt and posts one command.
Fail(t) ==
    /\ At(t, "fail")
    /\ Go(t, IF attempt[exec[t].attempt].op = Null THEN "refuse" ELSE "abandon")
    /\ Posts(Dispatcher(t))
    /\ UNCHANGED <<storeVars, turn, host, now>>

\* Nothing was recorded, which is taken to mean that nothing was delivered.
Refuse(t) ==
    /\ At(t, "refuse")
    /\ Commits(Dispatcher(t))
    /\ RefuseAttempt(exec[t].attempt, "turn-start-failed", FALSE)
    /\ Go(t, "cleanup")
    /\ UNCHANGED <<turn, host, now>>

Abandon(t) ==
    /\ At(t, "abandon")
    /\ Commits(Dispatcher(t))
    /\ RevokeAttempt(exec[t].attempt, "execution-failed")
    /\ Go(t, "cleanup")
    /\ UNCHANGED <<turn, host, now>>

\* The first cleanup may fail, or hand over no workspace; maintenance retries.
Cleanup(t) ==
    /\ At(t, "cleanup")
    /\ Fence(exec[t].attempt) \/ UNCHANGED host
    /\ Go(t, "failTurn")
    /\ UNCHANGED <<storeVars, turn, writer, now>>

\* The Turn fails; a submission that may have been accepted keeps its
\* attempt, because cleanup cannot prove unread output, and so does any second
\* error.  A recorded submission counts as invoked: only marking the session as
\* launching lies between.
FailTurn(t) ==
    LET a == exec[t].attempt
        submitted == attempt[a].deadline # Null
    IN  /\ At(t, "failTurn")
        /\ Terminalize(t, "failed")
        /\ \/ /\ Live(a) /\ Cleaned(a)
              /\ ~submitted \/ attempt[a].disposition = "not_accepted"
              /\ Go(t, "release")
           \/ Done(t)
        /\ UNCHANGED <<storeVars, host, writer, now>>

\* The loop's handler for a failure before the executor owned the attempt:
\* capacity gives the admission back, anything else closes and fails.
Catch(t) ==
    LET a == exec[t].attempt IN
    /\ At(t, "catch")
    /\ Go(t, IF exec[t].busy /\ attempt[a].phase = "open" /\ attempt[a].op = Null
                /\ turn[t] = "pending"
             THEN "requeue" ELSE "refuseStart")
    /\ Posts(Dispatcher(t))
    /\ UNCHANGED <<storeVars, turn, host, now>>

Requeue(t) ==
    /\ At(t, "requeue")
    /\ Commits(Dispatcher(t))
    /\ RefuseAttempt(exec[t].attempt, "backend-busy", TRUE)
    /\ Done(t)
    /\ UNCHANGED <<turn, host, now>>

RefuseStart(t) ==
    /\ At(t, "refuseStart")
    /\ Commits(Dispatcher(t))
    /\ RefuseAttempt(exec[t].attempt, "turn-start-failed", FALSE)
    /\ Go(t, "failTurn")
    /\ UNCHANGED <<turn, host, now>>

-----------------------------------------------------------------------------
(* The native host.                                                        *)

\* The Worker's final status is accepted while its attempt is open, or while
\* a Stop waits for exactly this evidence.
AcceptFinalStatus(a) ==
    /\ host[a] = "started"
    /\ attempt[a].deadline > now
    /\ \/ attempt[a].phase = "open" /\ MarkClosing(a, "worker-final-status", Null)
       \/ PendingCancellationFinal(a) /\ UNCHANGED storeVars
    /\ host' = [host EXCEPT ![a] = "final"]
    /\ UNCHANGED <<turn, exec, writer, now>>

\* Time matters only while some deadline is ahead.
Tick ==
    /\ \E a \in Attempt : Live(a) /\ attempt[a].deadline # Null /\ attempt[a].deadline > now
    /\ now' = now + 1
    /\ UNCHANGED <<storeVars, turn, exec, host, writer>>

-----------------------------------------------------------------------------
ExecInit ==
    /\ turn = [t \in Turn |-> "absent"]
    /\ exec = [t \in Turn |-> Idle]
    /\ host = [a \in Attempt |-> "none"]
    /\ writer = <<>>
    /\ now = 0

\* One step of the dispatch of t.
DispatchStep(t) ==
    \/ Deny(t)
    \/ Create(t)
    \/ Post(t)
    \/ Bind(t)
    \/ Finalize(t)
    \/ Start(t)
    \/ \E busy \in BOOLEAN : PreparationFails(t, busy)
    \/ Materialize(t)
    \/ CapacityUnavailable(t)
    \/ \E op \in {"prepare", "submit"} : PostOperation(t, op)
    \/ PrepareWhileClosing(t)
    \/ Operate(t)
    \/ Deliver(t)
    \/ NotEnqueued(t)
    \/ ObserveUnqueued(t)
    \/ Reply(t)
    \/ ExecutionFails(t)
    \/ AwaitFinal(t)
    \/ Closeout(t)
    \/ PublishOutcome(t)
    \/ Release(t)
    \/ Fail(t)
    \/ Refuse(t)
    \/ Abandon(t)
    \/ Cleanup(t)
    \/ FailTurn(t)
    \/ Catch(t)
    \/ Requeue(t)
    \/ RefuseStart(t)

\* Types of the process-local and product state.
ExecTypeOK ==
    /\ turn \in [Turn -> TurnStatus]
    /\ exec \in [Turn -> Dispatch]
    /\ host \in [Attempt -> HostState]
    /\ writer \in Seq({"dispatch", "stop", "maintenance"} \X (Turn \cup {Null}))
    /\ now \in Nat
=============================================================================
