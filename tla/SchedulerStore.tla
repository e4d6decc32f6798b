--------------------------- MODULE SchedulerStore ---------------------------
(***************************************************************************)
(* The durable scheduler records of NanoCore: the admission queue and the  *)
(* private execution attempts, both tables of core.sqlite.  Every action   *)
(* is one command of the Core writer: it runs in one transaction, its      *)
(* guard is the function's conditions and refusals, and a refused command  *)
(* changes nothing.  Callers are arbitrary here; SchedulerSystem adds the  *)
(* processes that issue these commands.                                    *)
(*                                                                         *)
(* One admission per Turn: the queue entry is addressed by its Turn (the   *)
(* create command treats an existing queueEntryId or turnId as a replay).  *)
(* A Thread stands for the pair (workspaceId, threadId), an Input for the  *)
(* pair (inputRef, bindingRef), which are always written together.         *)
(***************************************************************************)
EXTENDS Integers, FiniteSets

CONSTANTS
    Turn,        \* Turns that may be admitted
    Thread,      \* Threads of the Workspaces
    Series,      \* recurring schedules
    Session,     \* AgentSessions
    Input,       \* finalized launch packages with their binding
    Attempt,     \* identities of execution attempts
    Op,          \* identities of backend operations
    Cause,       \* terminal causes
    Ref,         \* outcome and fence references
    Null,        \* SQL NULL
    threadOf,    \* the Thread of a Turn
    seriesOf,    \* the recurring schedule of a Turn, Null for a direct one
    Clock,       \* readings of the wall clock
    QueueLimit,  \* the queue bound (20 in the code)
    Budget       \* the execution budget (7_200_000 ms in the code)

ASSUME ConstantAssumption ==
    /\ threadOf \in [Turn -> Thread]
    /\ seriesOf \in [Turn -> Series \cup {Null}]
    /\ Null \notin Turn /\ Null \notin Session /\ Null \notin Input /\ Null \notin Op
    /\ Null \notin Cause /\ Null \notin Ref /\ Null \notin Nat
    /\ Clock \subseteq Nat
    /\ IsFiniteSet(Turn)
    /\ QueueLimit \in Nat
    /\ Budget \in Nat

VARIABLES
    authority,  \* authority[t]: the current runtime.launch authority of t's actor
    status,     \* status[t]: status of t's admission entry
    rowid,      \* rowid[t]: insertion order of t's entry, 0 before insertion
    attempt     \* attempt[a]: the attempt row

storeVars == <<authority, status, rowid, attempt>>

-----------------------------------------------------------------------------
Status == {"absent", "queued", "admitted", "denied", "cancelled"}
Phase == {"absent", "open", "closing", "closed"}
Disposition == {"not_accepted", "accepted", "unknown"}

\* The Core handoff barriers an attempt release must have proved.
ReleaseBarriers == {"terminalHandoff", "output", "evidence",
                    "outsideWorkspaceCollection", "integrationDrain", "routesRevoked"}

AttemptRow == [phase : Phase, turn : Turn \cup {Null}, session : Session \cup {Null},
               input : Input \cup {Null}, disposition : Disposition,
               op : Op \cup {Null}, deadline : Nat \cup {Null},
               cause : Cause \cup {Null}, outcome : Ref \cup {Null}, fence : Ref \cup {Null}]

Observation == [attempt : Attempt, input : Input \cup {Null}, op : Op,
                disposition : Disposition,
                outcome : Ref \cup {Null}, fence : Ref \cup {Null}]

NoRow == [phase |-> "absent", turn |-> Null, session |-> Null, input |-> Null,
          disposition |-> "not_accepted", op |-> Null, deadline |-> Null,
          cause |-> Null, outcome |-> Null, fence |-> Null]

\* SQL COALESCE: the first fact survives.
Coalesce(old, new) == IF old = Null THEN new ELSE old

Live(a) == attempt[a].phase \in {"open", "closing"}
LiveAttemptsOf(t) == {a \in Attempt : Live(a) /\ attempt[a].turn = t}
Queued == {t \in Turn : status[t] = "queued"}

-----------------------------------------------------------------------------
(* Admission queue.                                                        *)

QueueHasRoom == Cardinality(Queued) < QueueLimit

NextRowid == 1 + Cardinality({t \in Turn : rowid[t] # 0})

SeriesWaiting(t) ==
    \E u \in Queued \ {t} : seriesOf[u] # Null /\ seriesOf[u] = seriesOf[t]

InsertEntry(t) ==
    /\ status[t] = "absent"
    /\ QueueHasRoom
    /\ status' = [status EXCEPT ![t] = "queued"]
    /\ rowid' = [rowid EXCEPT ![t] = NextRowid]
    /\ UNCHANGED <<authority, attempt>>

\* A direct (or external) request: current authority and no other queued
\* Turn on the Thread.
CreateEntry(t) ==
    /\ seriesOf[t] = Null
    /\ authority[t]
    /\ \A u \in Queued \ {t} : threadOf[u] # threadOf[t]
    /\ InsertEntry(t)

\* A recurring occurrence: one waiting slot per schedule, no Thread check.
CreateRecurringEntry(t) ==
    /\ seriesOf[t] # Null
    /\ authority[t]
    /\ ~SeriesWaiting(t)
    /\ InsertEntry(t)

\* Mutant: a status outside the table's vocabulary.
DenyEntryRejected(t) ==
    /\ status[t] = "queued"
    /\ status' = [status EXCEPT ![t] = "rejected"]
    /\ UNCHANGED <<authority, rowid, attempt>>

DenyEntry(t) ==
    /\ status[t] = "queued"
    /\ status' = [status EXCEPT ![t] = "denied"]
    /\ UNCHANGED <<authority, rowid, attempt>>

RetryDeniedEntry(t) ==
    /\ status[t] = "denied"
    /\ ~SeriesWaiting(t)
    /\ QueueHasRoom
    /\ status' = [status EXCEPT ![t] = "queued"]
    /\ UNCHANGED <<authority, rowid, attempt>>

\* Mutant: an admitted entry can be cancelled under its attempt.
CanCancelAnyEntry(t) == status[t] \in {"queued", "denied", "admitted"}

CanCancelEntry(t) == status[t] \in {"queued", "denied"}

CancelEntry(t) ==
    /\ CanCancelEntry(t)
    /\ status' = [status EXCEPT ![t] = "cancelled"]
    /\ UNCHANGED <<authority, rowid, attempt>>

\* Membership, token or policy changes; the scheduler only reads the result.
ChangeAuthority(t) ==
    /\ authority' = [authority EXCEPT ![t] = ~authority[t]]
    /\ UNCHANGED <<status, rowid, attempt>>

-----------------------------------------------------------------------------
(* Execution attempts.                                                     *)

WriteAttempt(a, row) == attempt' = [attempt EXCEPT ![a] = row]

\* Mutant: the index covers open attempts only, so closing frees the lane.
LaneFreeOfOpen(t) ==
    \A b \in Attempt : attempt[b].phase = "open" => threadOf[attempt[b].turn] # threadOf[t]

\* The unique index over live (workspace, thread); it implies the one over
\* live turn_id, a Turn having one Thread.
LaneFree(t) == \A b \in Attempt : Live(b) => threadOf[attempt[b].turn] # threadOf[t]

CanCreateAttempt(a, t) ==
    /\ attempt[a].phase = "absent"
    /\ status[t] = "queued"
    /\ authority[t]
    /\ LaneFree(t)

CreateAttempt(a, t) ==
    /\ CanCreateAttempt(a, t)
    /\ WriteAttempt(a, [NoRow EXCEPT !.phase = "open", !.turn = t])
    /\ status' = [status EXCEPT ![t] = "admitted"]
    /\ UNCHANGED <<authority, rowid>>

\* Conditional update under the unique index over live agent_session_id.
CanBindSession(a, s) ==
    /\ attempt[a].phase = "open"
    /\ attempt[a].session \in {Null, s}
    /\ \A b \in Attempt \ {a} : Live(b) => attempt[b].session # s

BindSession(a, s) ==
    /\ CanBindSession(a, s)
    /\ WriteAttempt(a, [attempt[a] EXCEPT !.session = s])
    /\ UNCHANGED <<authority, status, rowid>>

CanFinalizeInput(a, i) ==
    /\ attempt[a].phase = "open"
    /\ attempt[a].session # Null
    /\ attempt[a].input \in {Null, i}

FinalizeInput(a, i) ==
    /\ CanFinalizeInput(a, i)
    /\ WriteAttempt(a, [attempt[a] EXCEPT !.input = i])
    /\ UNCHANGED <<authority, status, rowid>>

\* Mutant: submission before the session and the package are bound.
CanRecordEarly(a, submission) ==
    /\ attempt[a].phase = "open"
    /\ authority[attempt[a].turn]
    /\ attempt[a].disposition # "unknown"
    /\ submission => attempt[a].deadline = Null

\* An operation is recorded before it can affect the backend; only the
\* submission fixes the deadline, and only once.
CanRecordOperation(a, submission) ==
    /\ attempt[a].phase = "open"
    /\ authority[attempt[a].turn]
    /\ submission => attempt[a].session # Null /\ attempt[a].input # Null
    /\ attempt[a].disposition # "unknown"
    /\ submission => attempt[a].deadline = Null

RecordOperation(a, op, submission, now) ==
    /\ CanRecordOperation(a, submission)
    /\ WriteAttempt(a, [attempt[a] EXCEPT
          !.op = op,
          !.disposition = "unknown",
          !.deadline = IF submission THEN now + Budget ELSE @])
    /\ UNCHANGED <<authority, status, rowid>>

\* An observation counts only when it names the attempt's current operation
\* and contradicts no recorded fact; uncertainty never erases acceptance.
ObservationCounts(o) ==
    LET row == attempt[o.attempt]
    IN  /\ row.phase # "absent"
        /\ row.input = o.input
        /\ row.op = o.op
        /\ Null \in {row.outcome, o.outcome} \/ row.outcome = o.outcome
        /\ Null \in {row.fence, o.fence} \/ row.fence = o.fence
        /\ ~(row.disposition = "accepted" /\ o.disposition = "not_accepted")

\* Mutant: a late uncertain reply overwrites definite acceptance.
ObservedDispositionLatest(o) == o.disposition

ObservedDisposition(o) ==
    IF attempt[o.attempt].disposition = "accepted" /\ o.disposition = "unknown"
    THEN "accepted" ELSE o.disposition

AcceptObservation(o) ==
    /\ ObservationCounts(o)
    /\ Live(o.attempt)
    /\ WriteAttempt(o.attempt, [attempt[o.attempt] EXCEPT
          !.disposition = ObservedDisposition(o),
          !.outcome = Coalesce(@, o.outcome),
          !.fence = Coalesce(@, o.fence)])
    /\ UNCHANGED <<authority, status, rowid>>

\* Mutant: a late closing reopens a closed attempt.
MarkClosingAnyPhase(a, cause, outcome) ==
    /\ attempt[a].phase # "absent"
    /\ WriteAttempt(a, [attempt[a] EXCEPT
          !.phase = "closing",
          !.cause = Coalesce(@, cause),
          !.outcome = Coalesce(@, outcome)])
    /\ UNCHANGED <<authority, status, rowid>>

MarkClosing(a, cause, outcome) ==
    /\ Live(a)
    /\ WriteAttempt(a, [attempt[a] EXCEPT
          !.phase = "closing",
          !.cause = Coalesce(@, cause),
          !.outcome = Coalesce(@, outcome)])
    /\ UNCHANGED <<authority, status, rowid>>

CanCloseWithoutEffects(a) == Live(a) /\ attempt[a].disposition # "accepted"

\* Mutant: the close keeps whatever disposition it found.
CloseKeepingDisposition(a, cause, requeue) ==
    /\ CanCloseWithoutEffects(a)
    /\ WriteAttempt(a, [attempt[a] EXCEPT !.phase = "closed", !.cause = Coalesce(@, cause)])
    /\ status' = [status EXCEPT ![attempt[a].turn] =
          IF requeue /\ @ = "admitted" THEN "queued" ELSE @]
    /\ UNCHANGED <<authority, rowid>>

CloseWithoutEffects(a, cause, requeue) ==
    /\ CanCloseWithoutEffects(a)
    /\ WriteAttempt(a, [attempt[a] EXCEPT
          !.phase = "closed",
          !.disposition = "not_accepted",
          !.cause = Coalesce(@, cause)])
    /\ status' = [status EXCEPT ![attempt[a].turn] =
          IF requeue /\ @ = "admitted" THEN "queued" ELSE @]
    /\ UNCHANGED <<authority, rowid>>

CanCloseWithFence(a, input, op, proof, fence) ==
    /\ attempt[a].phase = "closing"
    /\ attempt[a].op # Null
    /\ attempt[a].input = input
    /\ attempt[a].op = op
    /\ attempt[a].fence \in {Null, fence}
    /\ proof = ReleaseBarriers

CloseWithFence(a, input, op, proof, fence) ==
    /\ CanCloseWithFence(a, input, op, proof, fence)
    /\ WriteAttempt(a, [attempt[a] EXCEPT !.phase = "closed", !.fence = fence])
    /\ UNCHANGED <<authority, status, rowid>>

-----------------------------------------------------------------------------
StoreInit ==
    /\ authority = [t \in Turn |-> TRUE]
    /\ status = [t \in Turn |-> "absent"]
    /\ rowid = [t \in Turn |-> 0]
    /\ attempt = [a \in Attempt |-> NoRow]

AdmissionCommand(t) ==
    \/ CreateEntry(t)
    \/ CreateRecurringEntry(t)
    \/ DenyEntry(t)
    \/ RetryDeniedEntry(t)
    \/ CancelEntry(t)
    \/ ChangeAuthority(t)

AttemptCommand(a) ==
    \/ \E t \in Turn : CreateAttempt(a, t)
    \/ \E s \in Session : BindSession(a, s)
    \/ \E i \in Input : FinalizeInput(a, i)
    \/ \E op \in Op, submission \in BOOLEAN, now \in Clock :
          RecordOperation(a, op, submission, now)
    \/ \E o \in Observation : o.attempt = a /\ AcceptObservation(o)
    \/ \E cause \in Cause, outcome \in Ref \cup {Null} : MarkClosing(a, cause, outcome)
    \/ \E cause \in Cause, requeue \in BOOLEAN : CloseWithoutEffects(a, cause, requeue)
    \/ \E i \in Input \cup {Null}, op \in Op, proof \in SUBSET ReleaseBarriers, fence \in Ref :
          CloseWithFence(a, i, op, proof, fence)

StoreNext ==
    \/ \E t \in Turn : AdmissionCommand(t)
    \/ \E a \in Attempt : AttemptCommand(a)

StoreSpec == StoreInit /\ [][StoreNext]_storeVars

-----------------------------------------------------------------------------
(* What the records promise to any caller.                                 *)

\* Types of the two tables (scheduler_admission_entries,
\* scheduler_execution_attempts) and of the authority they are read against.
StoreTypeOK ==
    /\ authority \in [Turn -> BOOLEAN]
    /\ status \in [Turn -> Status]
    /\ rowid \in [Turn -> Nat]
    /\ attempt \in [Attempt -> AttemptRow]

\* An admission and its attempts agree: a live attempt belongs to an admitted
\* entry, so nothing that requeues, denies, retries or cancels an entry can
\* leave it dispatchable while an attempt still holds its Turn.
AdmissionHoldsAttempt ==
    /\ \A a \in Attempt : attempt[a].phase # "absent" => attempt[a].turn \in Turn
    /\ \A a \in Attempt : Live(a) => status[attempt[a].turn] = "admitted"
    /\ \A t \in Turn : status[t] = "admitted" =>
          \E a \in Attempt : attempt[a].phase # "absent" /\ attempt[a].turn = t

\* Exclusion over live attempts: never two on one Thread (hence on one Turn),
\* never two on one AgentSession, whatever order commands commit in.
LiveAttemptsExclusive ==
    \A a, b \in Attempt : a # b /\ Live(a) /\ Live(b) =>
        /\ threadOf[attempt[a].turn] # threadOf[attempt[b].turn]
        /\ attempt[a].session = attempt[b].session => attempt[a].session = Null

\* A closed row tells the truth about effects: either it was never accepted,
\* or the exact operation it names was released behind a fence.
ClosedIsSettled ==
    \A a \in Attempt : attempt[a].phase = "closed" =>
        \/ attempt[a].disposition = "not_accepted"
        \/ attempt[a].op # Null /\ attempt[a].fence # Null

\* A row that may have submitted names what it submitted: deadline, session,
\* package and operation are all there for inspection after a restart.
SubmissionIsTraceable ==
    \A a \in Attempt :
        /\ attempt[a].deadline # Null =>
              Null \notin {attempt[a].session, attempt[a].input, attempt[a].op}
        /\ attempt[a].disposition # "not_accepted" => attempt[a].op # Null
        /\ attempt[a].input # Null => attempt[a].session # Null

\* No command reopens or rewrites a closed attempt.
ClosedIsFinal ==
    [][\A a \in Attempt : attempt[a].phase = "closed" => attempt'[a] = attempt[a]]_storeVars

FactsKept(a) ==
    /\ \A f \in {"turn", "session", "input", "deadline", "cause", "outcome", "fence"} :
          attempt[a][f] # Null => attempt'[a][f] = attempt[a][f]
    /\ attempt[a].disposition = "accepted" =>
          /\ attempt'[a].disposition # "not_accepted"
          /\ attempt[a].phase # "open" => attempt'[a].disposition = "accepted"

\* Facts recorded once are never replaced by a later command: the first
\* terminal cause, the outcome, the fence, the fixed deadline, the session
\* and the package.  Definite acceptance never decays into non-acceptance,
\* and once the attempt is closing not even into uncertainty.
FirstFactsSurvive == [][\A a \in Attempt : FactsKept(a)]_storeVars
=============================================================================
