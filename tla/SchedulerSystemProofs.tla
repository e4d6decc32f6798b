------------------------ MODULE SchedulerSystemProofs ------------------------
(***************************************************************************)
(* The scheduler as a whole, for any Turns, Threads and attempts and any    *)
(* number of crashes.  Dispatches, Stops and maintenance work from what     *)
(* they read earlier; the invariant says what of it still holds when their  *)
(* command commits.  Only the dispatch of a Turn records its operations,    *)
(* opens its session and gives its admission back, the last before the      *)
(* session exists; an operation is recorded only while the attempt is open, *)
(* so who saw none after marking it closing may close it.  The store's own  *)
(* invariant (SchedulerStoreProofs) is part of it, kept because every step  *)
(* here is a command of the store or leaves the records alone.              *)
(***************************************************************************)
EXTENDS SchedulerSystem, SchedulerStoreProofs

\* The attempt was stopped: nothing is recorded for it any more.
Ended(a) == attempt[a].phase \in {"closing", "closed"}

\* Steps at which a dispatch may have a command with the writer.
DispatchPosts == {"deny", "create", "bind", "finalize", "materialize", "operate", "unqueued",
                  "reply", "release", "refuse", "abandon", "requeue", "refuseStart"}

\* Steps before the backend session is recorded.
Uncontacted == {"bind", "finalize", "start", "materialize", "catch", "requeue", "refuseStart"}

\* Attempt a exists and belongs to Turn t.
Owned(t, a) == a \in Attempt /\ attempt[a].phase # "absent" /\ attempt[a].turn = t

\* What the dispatch of t may rely on at each of its steps: its attempt is its
\* own; a step before contact has no operation and no session, for any attempt
\* of t; what it contacts has a session; cleanup and unrecorded deliveries are
\* of stopped attempts.
DispatchOK(t) ==
    /\ exec[t].pc \notin {"idle", "deny", "create"} => Owned(t, exec[t].attempt)
    /\ exec[t].pc \in {"deliver", "unqueued", "reply"} => exec[t].op \in {"prepare", "submit"}
    /\ exec[t].pc = "operate" /\ Posted(Dispatcher(t)) => exec[t].op \in {"prepare", "submit"}
    /\ exec[t].pc \in Uncontacted \cup {"refuse"} => attempt[exec[t].attempt].op = Null
    /\ exec[t].pc \in Uncontacted => \A b \in Attempt : attempt[b].turn = t => host[b] = "none"
    /\ exec[t].pc \in {"operate", "deliver", "unqueued", "reply"} => host[exec[t].attempt] # "none"
    /\ exec[t].pc \in {"closeout", "cleanup"} => Ended(exec[t].attempt)
    /\ exec[t].pc = "deliver" /\ attempt[exec[t].attempt].op = Null => Ended(exec[t].attempt)

\* What a Stop may rely on: its Turn is one that may be stopped and its attempt
\* is of that Turn; what it interrupts has an operation.
StopOK(t) ==
    /\ stop[t].pc # "idle" => t \in Stoppable
    /\ stop[t].pc \in {"mark", "close", "interrupt", "cancelBackend"} => Owned(t, stop[t].attempt)
    /\ stop[t].pc \in {"interrupt", "cancelBackend"} => attempt[stop[t].attempt].op # Null

\* What the maintenance pass may rely on: the row exists, it has a cause when it
\* marks, it cancels and inspects operations, and what it is about to close has
\* none unless another owner closed it first.
MaintOK ==
    /\ maint.pc # "idle" => maint.attempt \in Attempt /\ attempt[maint.attempt].phase # "absent"
    /\ maint.pc = "mark" => maint.cause # Null
    /\ maint.pc = "cancel" => attempt[maint.attempt].op # Null
    /\ maint.pc \in {"inspect", "report"} => maint.op # Null
    /\ maint.pc = "report" => maint.seen \in Disposition
    /\ maint.pc = "close" => /\ Ended(maint.attempt)
                             /\ Live(maint.attempt) => attempt[maint.attempt].op = Null

\* What a session says about its attempt: it is admitted; reported, cleaned or
\* unrecorded effects are of stopped attempts; recorded ones that may still run
\* hold the exclusion, unless their Turn may be stopped.
HostOK(a) ==
    /\ host[a] # "none" => attempt[a].phase # "absent" /\ status[attempt[a].turn] = "admitted"
    /\ host[a] \in {"final", "fenced", "collected", "retired"} => Ended(a)
    /\ host[a] \in {"prepared", "started"} /\ attempt[a].op = Null => Ended(a)
    /\ attempt[a].turn \notin Stoppable /\ Unfenced(a) /\ attempt[a].op # Null => Live(a)

\* A Turn has at most one attempt with a session.
OneSession ==
    \A a, b \in Attempt :
        host[a] # "none" /\ host[b] # "none" /\ attempt[a].turn = attempt[b].turn => a = b

\* A closing attempt says why: maintenance closes it with that cause.
ClosingHasCause == \A a \in Attempt : attempt[a].phase = "closing" => attempt[a].cause # Null

\* An owner has at most one command with the writer.
WriterUnique == \A i, j \in 1..Len(writer) : writer[i] = writer[j] => i = j

\* Who has a command with the writer is at the step that posted it.
WriterOK ==
    /\ WriterUnique
    /\ \A t \in Turn : Posted(Dispatcher(t)) => exec[t].pc \in DispatchPosts
    /\ \A t \in Turn : Posted(Stopper(t)) => stop[t].pc \in {"cancel", "mark", "interrupt", "close"}
    /\ Posted(Maintainer) => maint.pc \in {"mark", "close", "report"}

\* The inductive invariant.
SystemInv ==
    /\ SystemTypeOK
    /\ StoreInv
    /\ ClosingHasCause
    /\ \A t \in Turn : DispatchOK(t) /\ StopOK(t)
    /\ MaintOK
    /\ \A a \in Attempt : HostOK(a)
    /\ OneSession
    /\ WriterOK

-----------------------------------------------------------------------------
(* What a step of the store does to the rows, as the owners see it.        *)

\* The row keeps its Turn and its operation, and never goes back.
RowKept(b) ==
    /\ attempt'[b].turn = attempt[b].turn
    /\ attempt'[b].op = attempt[b].op
    /\ attempt[b].phase # "absent" => attempt'[b].phase # "absent"
    /\ Ended(b) => Ended(b)'
    /\ attempt[b].phase = "closed" => attempt'[b].phase = "closed"

\* The row is still live.
LiveKept(b) == Live(b) => Live(b)'

\* The admission is not taken back.
AdmittedKept(t) == status[t] = "admitted" => status'[t] = "admitted"

\* Records are kept, whatever was closed.
StoreKept ==
    /\ StoreInv'
    /\ ClosingHasCause'
    /\ \A b \in Attempt : RowKept(b)

\* Nothing is closed and no admission is taken back.
StoreCalm ==
    /\ StoreKept
    /\ \A b \in Attempt : LiveKept(b)
    /\ \A t \in Turn : AdmittedKept(t)

\* No change of the store.
LEMMA UnchangedCalm ==
    ASSUME StoreInv, ClosingHasCause, UNCHANGED storeVars
    PROVE  StoreCalm
  <1>1. StoreInv' BY StoreFramed
  <1> QED BY <1>1 DEF storeVars, StoreCalm, StoreKept, RowKept, LiveKept, AdmittedKept, Live,
                      Ended, ClosingHasCause

\* Requests only write admissions.
LEMMA AdmissionCalm ==
    ASSUME StoreInv, ClosingHasCause, NEW t \in Turn, AdmissionCommand(t)
    PROVE  StoreCalm
  <1>1. StoreInv' BY AdmissionPreserves
  <1>2. /\ attempt' = attempt
        /\ \A u \in Turn : status'[u] = "admitted" <=> status[u] = "admitted"
    BY AdmissionKeepsAdmitted DEF StoreInv
  <1> QED BY <1>1, <1>2 DEF StoreCalm, StoreKept, RowKept, LiveKept, AdmittedKept, Live,
                      Ended, ClosingHasCause

\* A command that rewrites a live row and keeps Turn and operation.
LEMMA RowWriteCalm ==
    ASSUME StoreInv, ClosingHasCause, NEW a \in Attempt, StoreInv', Live(a),
           NEW row, WriteAttempt(a, row), status' = status,
           row.turn = attempt[a].turn, row.op = attempt[a].op,
           row.phase \in {"open", "closing"},
           attempt[a].phase = "closing" => row.phase = "closing",
           row.phase = "closing" => row.cause # Null
    PROVE  StoreCalm
  <1>1. attempt'[a] = row /\ \A b \in Attempt \ {a} : attempt'[b] = attempt[b]
    BY WriteAttemptRows DEF StoreInv
  <1>2. RowKept(a) /\ LiveKept(a) BY <1>1 DEF RowKept, LiveKept, Live, Ended
  <1>3. \A b \in Attempt \ {a} : RowKept(b) /\ LiveKept(b)
    BY <1>1 DEF RowKept, LiveKept, Live, Ended
  <1>4. ClosingHasCause' BY <1>1 DEF ClosingHasCause
  <1> QED BY <1>2, <1>3, <1>4 DEF StoreCalm, StoreKept, AdmittedKept

\* Binding the AgentSession.
LEMMA BindCalm ==
    ASSUME StoreInv, ClosingHasCause, NEW a \in Attempt, NEW s \in Session, BindSession(a, s)
    PROVE  StoreCalm
  <1>0. attempt[a] \in AttemptRow BY DEF StoreInv, StoreTypeOK
  <1>1. TimedCommand(a) BY DEF TimedCommand, AttemptCommand
  <1>2. StoreInv' BY <1>1, AttemptPreserves
  <1> DEFINE row == [attempt[a] EXCEPT !.session = s]
  <1>3. /\ row.turn = attempt[a].turn /\ row.op = attempt[a].op
        /\ row.phase = attempt[a].phase
    BY <1>0 DEF AttemptRow
  <1>4. /\ WriteAttempt(a, row) /\ status' = status /\ attempt[a].phase = "open"
    BY DEF BindSession, CanBindSession
  <1> HIDE DEF row
  <1> QED BY <1>2, <1>3, <1>4, RowWriteCalm DEF Live

\* Binding the package.
LEMMA FinalizeCalm ==
    ASSUME StoreInv, ClosingHasCause, NEW a \in Attempt, NEW i \in Input, FinalizeInput(a, i)
    PROVE  StoreCalm
  <1>0. attempt[a] \in AttemptRow BY DEF StoreInv, StoreTypeOK
  <1>1. TimedCommand(a) BY DEF TimedCommand, AttemptCommand
  <1>2. StoreInv' BY <1>1, AttemptPreserves
  <1> DEFINE row == [attempt[a] EXCEPT !.input = i]
  <1>3. /\ row.turn = attempt[a].turn /\ row.op = attempt[a].op
        /\ row.phase = attempt[a].phase
    BY <1>0 DEF AttemptRow
  <1>4. /\ WriteAttempt(a, row) /\ status' = status /\ attempt[a].phase = "open"
    BY DEF FinalizeInput, CanFinalizeInput
  <1> HIDE DEF row
  <1> QED BY <1>2, <1>3, <1>4, RowWriteCalm DEF Live

\* An observation of a recorded operation, counted or not.
LEMMA ObserveCalm ==
    ASSUME StoreInv, ClosingHasCause, NEW a \in Attempt, NEW op \in Op, NEW d \in Disposition,
           Observe(Outcome(a, op, d))
    PROVE  StoreCalm
  <1>0. attempt[a] \in AttemptRow BY DEF StoreInv, StoreTypeOK
  <1>1. CASE UNCHANGED storeVars BY <1>1, UnchangedCalm
  <1>2. CASE Live(a) /\ AcceptObservation(Outcome(a, op, d))
    <2> DEFINE o == Outcome(a, op, d)
    <2>1. o \in Observation /\ o.attempt = a
      BY <1>0 DEF Outcome, Observation, AttemptRow
    <2>2. TimedCommand(a) BY <1>2, <2>1 DEF TimedCommand, AttemptCommand
    <2>3. StoreInv' BY <2>2, AttemptPreserves
    <2> HIDE DEF o
    <2>4. AcceptObservation(o) BY <1>2 DEF o
    <2> DEFINE row == [attempt[a] EXCEPT
                         !.disposition = ObservedDisposition(o),
                         !.outcome = Coalesce(@, o.outcome),
                         !.fence = Coalesce(@, o.fence)]
    <2>5. /\ row.turn = attempt[a].turn /\ row.op = attempt[a].op
          /\ row.phase = attempt[a].phase /\ row.cause = attempt[a].cause
      BY <1>0 DEF AttemptRow
    <2>6. WriteAttempt(a, row) /\ status' = status BY <2>1, <2>4 DEF AcceptObservation
    <2> HIDE DEF row
    <2>7. row.phase \in {"open", "closing"} BY <1>2, <2>5 DEF Live
    <2>8. row.phase = "closing" => row.cause # Null BY <2>5 DEF ClosingHasCause
    <2> QED BY <1>2, <2>3, <2>5, <2>6, <2>7, <2>8, RowWriteCalm
  <1> QED BY <1>1, <1>2 DEF Observe, Outcome

\* Marking an attempt closing: it stays live, with a cause.
LEMMA MarkCalm ==
    ASSUME StoreInv, ClosingHasCause, NEW a \in Attempt, NEW cause \in Cause,
           MarkClosing(a, cause, Null)
    PROVE  StoreCalm /\ Ended(a)'
  <1>0. attempt[a] \in AttemptRow BY DEF StoreInv, StoreTypeOK
  <1>1. TimedCommand(a) BY DEF TimedCommand, AttemptCommand
  <1>2. StoreInv' BY <1>1, AttemptPreserves
  <1> DEFINE row == [attempt[a] EXCEPT !.phase = "closing", !.cause = Coalesce(@, cause),
                                       !.outcome = Coalesce(@, Null)]
  <1>3. /\ row.turn = attempt[a].turn /\ row.op = attempt[a].op
        /\ row.phase = "closing" /\ row.cause = Coalesce(attempt[a].cause, cause)
    BY <1>0 DEF AttemptRow
  <1>4. WriteAttempt(a, row) /\ status' = status /\ Live(a) BY DEF MarkClosing
  <1> HIDE DEF row
  <1>5. row.cause # Null BY <1>3, ConstantAssumption DEF Coalesce
  <1>6. StoreCalm BY <1>2, <1>3, <1>4, <1>5, RowWriteCalm
  <1>7. attempt'[a] = row BY <1>4, WriteAttemptRows DEF StoreInv
  <1> QED BY <1>3, <1>6, <1>7 DEF Ended

\* The same for a caller that may come too late.
LEMMA RevokeCalm ==
    ASSUME StoreInv, ClosingHasCause, NEW a \in Attempt, NEW cause \in Cause,
           attempt[a].phase # "absent", RevokeAttempt(a, cause)
    PROVE  StoreCalm /\ Ended(a)'
  <1>1. CASE Live(a) BY <1>1, MarkCalm DEF RevokeAttempt
  <1>2. CASE ~Live(a)
    <2>1. UNCHANGED storeVars BY <1>2 DEF RevokeAttempt
    <2>2. attempt[a].phase \in Phase BY DEF StoreInv, StoreTypeOK, AttemptRow
    <2> QED BY <1>2, <2>1, <2>2, UnchangedCalm DEF storeVars, Live, Ended, Phase
  <1> QED BY <1>1, <1>2

\* A closure without effects: only its own row stops being live, and only a
\* requeue takes its admission back.
LEMMA CloseKept ==
    ASSUME StoreInv, ClosingHasCause, NEW a \in Attempt, NEW cause \in Cause,
           NEW requeue \in BOOLEAN, CloseWithoutEffects(a, cause, requeue)
    PROVE  /\ StoreKept
           /\ Ended(a)'
           /\ \A b \in Attempt \ {a} : LiveKept(b)
           /\ \A u \in Turn : (requeue /\ u = attempt[a].turn) \/ AdmittedKept(u)
  <1>0. attempt[a] \in AttemptRow BY DEF StoreInv, StoreTypeOK
  <1>1. TimedCommand(a) BY DEF TimedCommand, AttemptCommand
  <1>2. StoreInv' BY <1>1, AttemptPreserves
  <1> DEFINE row == [attempt[a] EXCEPT !.phase = "closed", !.disposition = "not_accepted",
                                       !.cause = Coalesce(@, cause)]
  <1>3. /\ row.turn = attempt[a].turn /\ row.op = attempt[a].op /\ row.phase = "closed"
    BY <1>0 DEF AttemptRow
  <1>4. WriteAttempt(a, row) BY DEF CloseWithoutEffects
  <1> HIDE DEF row
  <1>5. attempt'[a] = row /\ \A b \in Attempt \ {a} : attempt'[b] = attempt[b]
    BY <1>4, WriteAttemptRows DEF StoreInv
  <1>6. RowKept(a) /\ Ended(a)' BY <1>3, <1>5 DEF RowKept, Ended
  <1>7. \A b \in Attempt \ {a} : RowKept(b) /\ LiveKept(b)
    BY <1>5 DEF RowKept, LiveKept, Live, Ended
  <1>8. ClosingHasCause' BY <1>3, <1>5 DEF ClosingHasCause
  <1>9. \A u \in Turn : (requeue /\ u = attempt[a].turn) \/ AdmittedKept(u)
    BY DEF CloseWithoutEffects, AdmittedKept, StoreInv, StoreTypeOK
  <1> QED BY <1>2, <1>6, <1>7, <1>8, <1>9 DEF StoreKept

\* The same for a caller that may come too late.
LEMMA RefuseKept ==
    ASSUME StoreInv, ClosingHasCause, NEW a \in Attempt, NEW cause \in Cause,
           NEW requeue \in BOOLEAN, attempt[a].phase # "absent",
           RefuseAttempt(a, cause, requeue)
    PROVE  /\ StoreKept
           /\ Ended(a)'
           /\ \A b \in Attempt \ {a} : LiveKept(b)
           /\ \A u \in Turn : (requeue /\ u = attempt[a].turn) \/ AdmittedKept(u)
  <1>1. CASE Live(a) BY <1>1, CloseKept DEF RefuseAttempt
  <1>2. CASE ~Live(a)
    <2>1. UNCHANGED storeVars BY <1>2 DEF RefuseAttempt
    <2>2. attempt[a].phase \in Phase BY DEF StoreInv, StoreTypeOK, AttemptRow
    <2> QED BY <1>2, <2>1, <2>2, UnchangedCalm DEF StoreCalm, storeVars, Live, Ended, Phase
  <1> QED BY <1>1, <1>2

\* A release behind a fence: the session of the row it closes was cleaned.
LEMMA ReleaseKept ==
    ASSUME StoreInv, ClosingHasCause, NEW a \in Attempt, ReleaseTerminalAttempt(a)
    PROVE  /\ StoreKept
           /\ \A b \in Attempt : LiveKept(b) \/ Cleaned(b)
           /\ \A u \in Turn : AdmittedKept(u)
  <1>0. attempt[a] \in AttemptRow BY DEF StoreInv, StoreTypeOK
  <1>1. CASE ~Live(a)
    BY <1>1, UnchangedCalm DEF ReleaseTerminalAttempt, StoreCalm
  <1>2. CASE Live(a)
    <2>1. /\ Cleaned(a)
          /\ CloseWithFence(a, attempt[a].input, attempt[a].op, ReleaseBarriers, a)
      BY <1>2 DEF ReleaseTerminalAttempt
    <2>2. /\ attempt[a].op \in Op /\ attempt[a].input \in Input \cup {Null}
          /\ a \in Ref /\ ReleaseBarriers \in SUBSET ReleaseBarriers
      BY <1>0, <2>1, ExecutionAssumption DEF AttemptRow, CloseWithFence, CanCloseWithFence
    <2>3. TimedCommand(a) BY <2>1, <2>2 DEF TimedCommand, AttemptCommand
    <2>4. StoreInv' BY <2>3, AttemptPreserves
    <2> DEFINE row == [attempt[a] EXCEPT !.phase = "closed", !.fence = a]
    <2>5. /\ row.turn = attempt[a].turn /\ row.op = attempt[a].op /\ row.phase = "closed"
      BY <1>0 DEF AttemptRow
    <2>6. WriteAttempt(a, row) /\ status' = status BY <2>1 DEF CloseWithFence
    <2> HIDE DEF row
    <2>7. attempt'[a] = row /\ \A b \in Attempt \ {a} : attempt'[b] = attempt[b]
      BY <2>6, WriteAttemptRows DEF StoreInv
    <2>8. RowKept(a) BY <2>5, <2>7 DEF RowKept, Ended
    <2>9. \A b \in Attempt \ {a} : RowKept(b) /\ LiveKept(b)
      BY <2>7 DEF RowKept, LiveKept, Live, Ended
    <2>10. ClosingHasCause' BY <2>5, <2>7 DEF ClosingHasCause
    <2> QED BY <2>1, <2>4, <2>6, <2>8, <2>9, <2>10 DEF StoreKept, AdmittedKept
  <1> QED BY <1>1, <1>2

\* A fresh row: nothing else changes.
LEMMA CreateFacts ==
    ASSUME StoreInv, ClosingHasCause, NEW a \in Attempt, NEW t \in Turn, CreateAttempt(a, t)
    PROVE  /\ StoreInv' /\ ClosingHasCause'
           /\ attempt[a].phase = "absent" /\ status[t] = "queued"
           /\ attempt'[a].phase = "open" /\ attempt'[a].turn = t /\ attempt'[a].op = Null
           /\ \A b \in Attempt \ {a} : attempt'[b] = attempt[b]
           /\ \A u \in Turn : AdmittedKept(u)
  <1>1. TimedCommand(a) BY DEF TimedCommand, AttemptCommand
  <1>2. StoreInv' BY <1>1, AttemptPreserves
  <1>3. /\ attempt'[a] = [NoRow EXCEPT !.phase = "open", !.turn = t]
        /\ \A b \in Attempt \ {a} : attempt'[b] = attempt[b]
    BY WriteAttemptRows DEF CreateAttempt, StoreInv
  <1>4. attempt'[a].phase = "open" /\ attempt'[a].turn = t /\ attempt'[a].op = Null
    BY <1>3 DEF NoRow
  <1>5. ClosingHasCause' BY <1>3, <1>4 DEF ClosingHasCause
  <1>6. \A u \in Turn : AdmittedKept(u)
    BY DEF CreateAttempt, AdmittedKept, StoreInv, StoreTypeOK
  <1> QED BY <1>2, <1>3, <1>4, <1>5, <1>6 DEF CreateAttempt, CanCreateAttempt

\* A recorded operation: the row stays open and keeps its Turn.
LEMMA RecordFacts ==
    ASSUME StoreInv, ClosingHasCause, NEW a \in Attempt, NEW op \in Op,
           NEW submission \in BOOLEAN, NEW time \in Nat, RecordOperation(a, op, submission, time)
    PROVE  /\ StoreInv' /\ ClosingHasCause'
           /\ attempt[a].phase = "open" /\ attempt'[a].phase = "open"
           /\ attempt'[a].turn = attempt[a].turn /\ attempt'[a].op = op
           /\ \A b \in Attempt \ {a} : attempt'[b] = attempt[b]
           /\ status' = status
  <1>0. attempt[a] \in AttemptRow BY DEF StoreInv, StoreTypeOK
  <1>1. TimedCommand(a) BY DEF TimedCommand
  <1>2. StoreInv' BY <1>1, AttemptPreserves
  <1>3. /\ attempt'[a] = [attempt[a] EXCEPT !.op = op, !.disposition = "unknown",
                            !.deadline = IF submission THEN time + Budget ELSE @]
        /\ \A b \in Attempt \ {a} : attempt'[b] = attempt[b]
    BY WriteAttemptRows DEF RecordOperation, StoreInv
  <1>4. /\ attempt'[a].phase = attempt[a].phase /\ attempt'[a].turn = attempt[a].turn
        /\ attempt'[a].op = op
    BY <1>0, <1>3 DEF AttemptRow
  <1>5. attempt[a].phase = "open" /\ status' = status
    BY DEF RecordOperation, CanRecordOperation
  <1>6. ClosingHasCause' BY <1>3, <1>4, <1>5 DEF ClosingHasCause
  <1> QED BY <1>2, <1>3, <1>4, <1>5, <1>6

-----------------------------------------------------------------------------
(* The writer's queue.                                                     *)

\* Who posts to the writer.
Owners == {"dispatch", "stop", "maintenance"} \X (Turn \cup {Null})

\* Only the command of x was posted or committed.
Moved(x) ==
    /\ writer' \in Seq(Owners)
    /\ WriterUnique'
    /\ \A o \in Owners \ {x} : Posted(o)' <=> Posted(o)

\* Owners are told apart.
LEMMA OwnersDiffer ==
    /\ \A t \in Turn : Dispatcher(t) \in Owners /\ Stopper(t) \in Owners
    /\ Maintainer \in Owners
    /\ \A t, u \in Turn : Dispatcher(t) = Dispatcher(u) => t = u
    /\ \A t, u \in Turn : Stopper(t) = Stopper(u) => t = u
    /\ \A t, u \in Turn : Dispatcher(t) # Stopper(u)
    /\ \A t \in Turn : Dispatcher(t) # Maintainer /\ Stopper(t) # Maintainer
  BY DEF Dispatcher, Stopper, Maintainer, Owners

\* A step that leaves the queue alone.
LEMMA StillMoved ==
    ASSUME writer \in Seq(Owners), WriterUnique, writer' = writer, NEW x
    PROVE  Moved(x) /\ \A o \in Owners : Posted(o)' <=> Posted(o)
  BY DEF Moved, WriterUnique, Posted

\* A post adds its owner, once.
LEMMA PostsMoved ==
    ASSUME writer \in Seq(Owners), WriterUnique, NEW x \in Owners, ~Posted(x), Posts(x)
    PROVE  Moved(x)
  <1>1. writer' = Append(writer, x) BY DEF Posts
  <1>2. /\ writer' \in Seq(Owners) /\ Len(writer') = Len(writer) + 1 /\ Len(writer) \in Nat
        /\ writer'[Len(writer) + 1] = x
        /\ \A i \in 1..Len(writer) : writer'[i] = writer[i]
    BY <1>1
  <1>3. WriterUnique'
    <2> SUFFICES ASSUME NEW i \in 1..Len(writer'), NEW j \in 1..Len(writer'),
                        writer'[i] = writer'[j]
                 PROVE  i = j
      BY DEF WriterUnique
    <2>1. CASE i \in 1..Len(writer) /\ j \in 1..Len(writer)
      BY <1>2, <2>1 DEF WriterUnique
    <2>2. CASE i = Len(writer) + 1 \/ j = Len(writer) + 1
      BY <1>2, <2>2 DEF Posted
    <2> QED BY <1>2, <2>1, <2>2
  <1>4. ASSUME NEW o \in Owners \ {x} PROVE Posted(o)' <=> Posted(o)
    <2>1. Posted(o) => Posted(o)' BY <1>2 DEF Posted
    <2>2. ASSUME Posted(o)' PROVE Posted(o)
      <3>1. PICK i \in 1..Len(writer') : writer'[i] = o BY <2>2 DEF Posted
      <3>2. i \in 1..Len(writer) BY <1>2, <3>1
      <3> QED BY <1>2, <3>1, <3>2 DEF Posted
    <2> QED BY <2>1, <2>2
  <1> QED BY <1>2, <1>3, <1>4 DEF Moved

\* A commit takes its owner from the head.
LEMMA CommitsMoved ==
    ASSUME writer \in Seq(Owners), WriterUnique, NEW x \in Owners, Commits(x)
    PROVE  Moved(x) /\ Posted(x) /\ ~Posted(x)'
  <1>1. writer # <<>> /\ Head(writer) = x /\ writer' = Tail(writer) BY DEF Commits
  <1>2. /\ writer' \in Seq(Owners) /\ Len(writer) \in Nat \ {0} /\ Len(writer') = Len(writer) - 1
        /\ writer[1] = x
        /\ \A i \in 1..Len(writer') : i + 1 \in 1..Len(writer) /\ writer'[i] = writer[i + 1]
    BY <1>1
  <1>3. WriterUnique' BY <1>2 DEF WriterUnique
  <1>4. ~Posted(x)'
    <2>1. ASSUME NEW i \in 1..Len(writer'), writer'[i] = x PROVE FALSE
      <3>1. 1 \in 1..Len(writer) /\ i + 1 \in 1..Len(writer) /\ writer[i + 1] = writer[1]
        BY <1>2, <2>1
      <3>2. i + 1 = 1 BY <3>1 DEF WriterUnique
      <3> QED BY <1>2, <3>2
    <2> QED BY <2>1 DEF Posted
  <1>5. ASSUME NEW o \in Owners \ {x} PROVE Posted(o)' <=> Posted(o)
    <2>1. Posted(o)' => Posted(o) BY <1>2 DEF Posted
    <2>2. ASSUME Posted(o) PROVE Posted(o)'
      <3>1. PICK i \in 1..Len(writer) : writer[i] = o BY <2>2 DEF Posted
      <3>2. i # 1 BY <1>2, <3>1
      <3>3. i - 1 \in 1..Len(writer') /\ (i - 1) + 1 = i BY <1>2, <3>2
      <3> QED BY <1>2, <3>1, <3>3 DEF Posted
    <2> QED BY <2>1, <2>2
  <1>6. Posted(x) BY <1>2 DEF Posted
  <1> QED BY <1>2, <1>3, <1>4, <1>5, <1>6 DEF Moved

-----------------------------------------------------------------------------
(* What a step leaves alone.                                               *)

\* The attempts of Turn u keep their rows and their contact with the host.
Calm(u) ==
    \A b \in Attempt : attempt[b].turn = u \/ attempt'[b].turn = u =>
        RowKept(b) /\ (host'[b] = "none" <=> host[b] = "none")

\* What any owner may rely on: a row it works on never loses its Turn, its
\* operation or its end.
RowAdvances(b) ==
    attempt[b].phase # "absent" =>
        /\ attempt'[b].phase # "absent"
        /\ attempt'[b].turn = attempt[b].turn
        /\ attempt[b].op # Null => attempt'[b].op # Null
        /\ Ended(b) => Ended(b)' /\ attempt'[b].op = attempt[b].op
        /\ attempt[b].phase = "closed" => attempt'[b].phase = "closed"

\* A kept row advances.
LEMMA KeptAdvances ==
    ASSUME NEW b, RowKept(b)
    PROVE  RowAdvances(b)
  BY DEF RowKept, RowAdvances

\* A dispatch keeps what it knows through the steps of others.
LEMMA DispatchFramed ==
    ASSUME NEW u \in Turn, DispatchOK(u), Calm(u), exec'[u] = exec[u],
           Posted(Dispatcher(u))' => Posted(Dispatcher(u))
    PROVE  DispatchOK(u)'
  <1>1. exec[u].pc \notin {"idle", "deny", "create"} =>
          /\ Owned(u, exec[u].attempt) /\ Owned(u, exec[u].attempt)'
          /\ attempt'[exec[u].attempt].op = attempt[exec[u].attempt].op
          /\ Ended(exec[u].attempt) => Ended(exec[u].attempt)'
          /\ host'[exec[u].attempt] = "none" <=> host[exec[u].attempt] = "none"
    BY DEF DispatchOK, Calm, RowKept, Owned, Ended
  <1>2. (\A b \in Attempt : attempt[b].turn = u => host[b] = "none") =>
          (\A b \in Attempt : attempt'[b].turn = u => host'[b] = "none")
    BY DEF Calm, RowKept
  <1> QED BY <1>1, <1>2 DEF DispatchOK, Uncontacted, Ended, Owned

\* So does a Stop.
LEMMA StopFramed ==
    ASSUME NEW u \in Turn, StopOK(u), \A b \in Attempt : RowAdvances(b), stop'[u] = stop[u]
    PROVE  StopOK(u)'
  BY DEF StopOK, RowAdvances, Owned

\* So does the maintenance pass.
LEMMA MaintFramed ==
    ASSUME MaintOK, \A b \in Attempt : RowAdvances(b), maint' = maint,
           \A b \in Attempt : attempt[b].phase \in Phase
    PROVE  MaintOK'
  BY DEF MaintOK, RowAdvances, Ended, Live, Phase

\* So does a session whose attempt keeps its admission and its exclusion.
LEMMA HostFramed ==
    ASSUME NEW b \in Attempt, HostOK(b), RowKept(b), host'[b] = host[b],
           host[b] # "none" => AdmittedKept(attempt[b].turn),
           \/ LiveKept(b) \/ attempt[b].op = Null \/ Cleaned(b)
           \/ attempt[b].turn \in Stoppable
    PROVE  HostOK(b)'
  BY DEF HostOK, RowKept, AdmittedKept, LiveKept, Cleaned, Unfenced, Ended

\* Without a new session there is still one per Turn.
LEMMA SessionFramed ==
    ASSUME OneSession,
           \A b \in Attempt : host'[b] # "none" =>
               host[b] # "none" /\ attempt'[b].turn = attempt[b].turn
    PROVE  OneSession'
  BY DEF OneSession

\* The contact with the host of each attempt is unchanged, if not its state.
HostsKept == \A b \in Attempt : host'[b] = "none" <=> host[b] = "none"

\* An attempt with a session keeps its admission, and its exclusion unless
\* nothing is recorded, the session is cleaned or its Turn may be stopped.
HoldsKept ==
    \A b \in Attempt :
        /\ host[b] # "none" => AdmittedKept(attempt[b].turn)
        /\ \/ LiveKept(b) \/ attempt[b].op = Null \/ Cleaned(b)
           \/ attempt[b].turn \in Stoppable

\* A calm step of the store takes nothing from a session.
LEMMA CalmHolds ==
    ASSUME SystemInv, StoreCalm
    PROVE  StoreKept /\ HoldsKept
  <1>1. \A b \in Attempt : host[b] # "none" => attempt[b].turn \in Turn
    BY DEF SystemInv, HostOK, StoreInv, AdmissionHoldsAttempt
  <1> QED BY <1>1 DEF StoreCalm, HoldsKept

\* A step that creates no row, records no operation and opens no session keeps
\* the invariant if it does so for the owner that moved.
LEMMA OwnerStep ==
    ASSUME SystemInv, SystemTypeOK', StoreKept, HoldsKept, HostsKept, WriterOK',
           \A u \in Turn : \/ DispatchOK(u)'
                           \/ /\ exec'[u] = exec[u]
                              /\ Posted(Dispatcher(u))' => Posted(Dispatcher(u)),
           \A u \in Turn : stop'[u] = stop[u] \/ StopOK(u)',
           maint' = maint \/ MaintOK',
           \A b \in Attempt : host'[b] = host[b] \/ HostOK(b)'
    PROVE  SystemInv'
  <1>1. \A b \in Attempt : RowKept(b) /\ RowAdvances(b) BY KeptAdvances DEF StoreKept
  <1>2. \A u \in Turn : Calm(u) BY <1>1 DEF Calm, HostsKept
  <1>3. \A u \in Turn : DispatchOK(u)' BY <1>2, DispatchFramed DEF SystemInv
  <1>4. \A u \in Turn : StopOK(u)' BY <1>1, StopFramed DEF SystemInv
  <1>5. MaintOK'
    <2>1. \A b \in Attempt : attempt[b].phase \in Phase
      BY DEF SystemInv, StoreInv, StoreTypeOK, AttemptRow
    <2> QED BY <1>1, <2>1, MaintFramed DEF SystemInv
  <1>6. \A b \in Attempt : HostOK(b)' BY <1>1, HostFramed DEF SystemInv, HoldsKept
  <1>7. OneSession' BY <1>1, SessionFramed DEF SystemInv, HostsKept, RowKept
  <1>8. StoreInv' /\ ClosingHasCause' BY DEF StoreKept
  <1> QED BY <1>3, <1>4, <1>5, <1>6, <1>7, <1>8 DEF SystemInv

-----------------------------------------------------------------------------
(* Dispatch and execution.                                                 *)

\* The dispatch of t moves to pc and keeps what it knows.
Went(t, pc) ==
    /\ exec' \in [Turn -> Dispatch]
    /\ exec'[t].pc = pc
    /\ exec'[t].attempt = exec[t].attempt
    /\ exec'[t].op = exec[t].op
    /\ \A u \in Turn \ {t} : exec'[u] = exec[u]

\* Go moves one dispatch.
LEMMA GoWent ==
    ASSUME SystemInv, NEW t \in Turn, NEW pc \in Awaiting, Go(t, pc)
    PROVE  Went(t, pc)
  <1>1. exec \in [Turn -> Dispatch] BY DEF SystemInv, SystemTypeOK, ExecTypeOK
  <1>2. exec[t] \in Dispatch BY <1>1
  <1>3. exec' = [exec EXCEPT ![t] = [exec[t] EXCEPT !.pc = pc]] BY <1>1, <1>2 DEF Go
  <1>4. [exec[t] EXCEPT !.pc = pc] \in Dispatch BY <1>2 DEF Dispatch
  <1> QED BY <1>1, <1>2, <1>3, <1>4 DEF Went, Dispatch

\* Done forgets one dispatch.
LEMMA DoneIdle ==
    ASSUME SystemInv, NEW t \in Turn, Done(t)
    PROVE  /\ exec' \in [Turn -> Dispatch]
           /\ exec'[t].pc = "idle"
           /\ \A u \in Turn \ {t} : exec'[u] = exec[u]
  <1>1. exec \in [Turn -> Dispatch] BY DEF SystemInv, SystemTypeOK, ExecTypeOK
  <1>2. Idle \in Dispatch BY DEF Idle, Dispatch, Awaiting
  <1> QED BY <1>1, <1>2 DEF Done, Idle

\* The frame of a step of the dispatch of t.
LEMMA DispatchMoves ==
    ASSUME SystemInv, NEW t \in Turn, UNCHANGED systemVars,
           turn' \in [Turn -> TurnStatus], host' \in [Attempt -> HostState], now' \in Nat,
           exec' \in [Turn -> Dispatch], \A u \in Turn \ {t} : exec'[u] = exec[u],
           StoreKept, HoldsKept, HostsKept, Moved(Dispatcher(t)),
           \A b \in Attempt : host'[b] = host[b] \/ HostOK(b)',
           Posted(Dispatcher(t))' => exec'[t].pc \in DispatchPosts,
           DispatchOK(t)'
    PROVE  SystemInv'
  <1>1. SystemTypeOK'
    BY DEF SystemInv, SystemTypeOK, ExecTypeOK, StoreKept, StoreInv, Moved, Owners, systemVars
  <1>2. \A o \in Owners \ {Dispatcher(t)} : Posted(o)' <=> Posted(o) BY DEF Moved
  <1>3. \A u \in Turn \ {t} : Posted(Dispatcher(u))' <=> Posted(Dispatcher(u))
    BY <1>2, OwnersDiffer
  <1>4. /\ \A u \in Turn : Posted(Stopper(u))' <=> Posted(Stopper(u))
        /\ Posted(Maintainer)' <=> Posted(Maintainer)
    BY <1>2, OwnersDiffer
  <1>5. WriterOK'
    BY <1>3, <1>4 DEF SystemInv, WriterOK, Moved, systemVars
  <1> QED BY <1>1, <1>3, <1>5, OwnerStep DEF systemVars

\* The facts about the queue every action begins with.
LEMMA QueueTyped ==
    ASSUME SystemInv
    PROVE  /\ writer \in Seq(Owners) /\ WriterUnique /\ StoreInv /\ ClosingHasCause
           /\ turn \in [Turn -> TurnStatus] /\ host \in [Attempt -> HostState] /\ now \in Nat
           /\ exec \in [Turn -> Dispatch] /\ stop \in [Turn -> StopRequest] /\ maint \in MaintItem
  BY DEF SystemInv, SystemTypeOK, ExecTypeOK, WriterOK, Owners

\* A step of the dispatch of t that only goes on, perhaps with a command
\* committed that closes nothing.
LEMMA CalmDispatch ==
    ASSUME SystemInv, NEW t \in Turn, UNCHANGED <<systemVars, host, now>>,
           turn' \in [Turn -> TurnStatus], exec' \in [Turn -> Dispatch],
           \A u \in Turn \ {t} : exec'[u] = exec[u],
           StoreCalm, Moved(Dispatcher(t)),
           Posted(Dispatcher(t))' => exec'[t].pc \in DispatchPosts,
           DispatchOK(t)'
    PROVE  SystemInv'
  <1>1. StoreKept /\ HoldsKept BY CalmHolds
  <1>2. HostsKept BY DEF HostsKept
  <1>3. host' \in [Attempt -> HostState] /\ now' \in Nat BY QueueTyped
  <1> QED BY <1>1, <1>2, <1>3, DispatchMoves

\* Claim: the dispatch begins and posts.
LEMMA ClaimOK ==
    ASSUME SystemInv, NEW t \in Turn, Claim(t), UNCHANGED systemVars
    PROVE  SystemInv'
  <1>1. StoreCalm BY QueueTyped, UnchangedCalm DEF Claim
  <1>2. PICK pc \in {"create", "deny"} : Go(t, pc) BY DEF Claim
  <1>3. Went(t, pc) BY <1>2, GoWent DEF Awaiting
  <1>4. ~Posted(Dispatcher(t)) BY DEF SystemInv, WriterOK, DispatchPosts, Claim, At
  <1>5. Moved(Dispatcher(t)) BY <1>4, QueueTyped, OwnersDiffer, PostsMoved DEF Claim
  <1>6. DispatchOK(t)' BY <1>3 DEF DispatchOK, Went, Uncontacted
  <1> QED BY <1>1, <1>3, <1>5, <1>6, QueueTyped, CalmDispatch DEF Claim, Went, DispatchPosts

\* Deny: the admission is denied or was already decided.
LEMMA DenyOK ==
    ASSUME SystemInv, NEW t \in Turn, Deny(t), UNCHANGED systemVars
    PROVE  SystemInv'
  <1>1. StoreCalm
    <2>1. CASE DenyEntry(t) BY <2>1, QueueTyped, AdmissionCalm DEF AdmissionCommand
    <2>2. CASE UNCHANGED storeVars BY <2>2, QueueTyped, UnchangedCalm
    <2> QED BY <2>1, <2>2 DEF Deny
  <1>2. Moved(Dispatcher(t)) /\ ~Posted(Dispatcher(t))'
    BY QueueTyped, OwnersDiffer, CommitsMoved DEF Deny
  <1>3. /\ exec' \in [Turn -> Dispatch] /\ exec'[t].pc = "idle"
        /\ \A u \in Turn \ {t} : exec'[u] = exec[u]
    BY DoneIdle DEF Deny
  <1>4. DispatchOK(t)' BY <1>3 DEF DispatchOK, Uncontacted
  <1> QED BY <1>1, <1>2, <1>3, <1>4, QueueTyped, CalmDispatch DEF Deny

\* The frame of a step of the dispatch of t that creates, records or contacts.
LEMMA DispatchActs ==
    ASSUME SystemInv, NEW t \in Turn, UNCHANGED systemVars,
           turn' \in [Turn -> TurnStatus], host' \in [Attempt -> HostState], now' \in Nat,
           exec' \in [Turn -> Dispatch],
           \A u \in Turn \ {t} : exec'[u] = exec[u] /\ Calm(u),
           \A b \in Attempt : RowAdvances(b) /\ HostOK(b)',
           StoreInv', ClosingHasCause', OneSession', Moved(Dispatcher(t)),
           Posted(Dispatcher(t))' => exec'[t].pc \in DispatchPosts,
           DispatchOK(t)'
    PROVE  SystemInv'
  <1>1. \A o \in Owners \ {Dispatcher(t)} : Posted(o)' <=> Posted(o) BY DEF Moved
  <1>2. \A u \in Turn \ {t} : Posted(Dispatcher(u))' <=> Posted(Dispatcher(u))
    BY <1>1, OwnersDiffer
  <1>3. /\ \A u \in Turn : Posted(Stopper(u))' <=> Posted(Stopper(u))
        /\ Posted(Maintainer)' <=> Posted(Maintainer)
    BY <1>1, OwnersDiffer
  <1>4. WriterOK' BY <1>2, <1>3 DEF SystemInv, WriterOK, Moved, systemVars
  <1>5. \A u \in Turn : DispatchOK(u)' BY <1>2, DispatchFramed DEF SystemInv
  <1>6. \A u \in Turn : StopOK(u)' BY StopFramed DEF SystemInv, systemVars
  <1>7. MaintOK'
    <2>1. \A b \in Attempt : attempt[b].phase \in Phase
      BY DEF SystemInv, StoreInv, StoreTypeOK, AttemptRow
    <2> QED BY <2>1, MaintFramed DEF SystemInv, systemVars
  <1>8. SystemTypeOK'
    BY DEF SystemInv, SystemTypeOK, ExecTypeOK, StoreInv, Moved, Owners, systemVars
  <1> QED BY <1>4, <1>5, <1>6, <1>7, <1>8 DEF SystemInv

\* A fresh attempt: no attempt of a queued Turn ever had a session.
LEMMA CreateOK ==
    ASSUME SystemInv, NEW t \in Turn, Create(t), UNCHANGED systemVars
    PROVE  SystemInv'
  <1>1. Moved(Dispatcher(t)) /\ ~Posted(Dispatcher(t))'
    BY QueueTyped, OwnersDiffer, CommitsMoved DEF Create
  <1>2. CASE Done(t) /\ UNCHANGED storeVars
    <2>1. StoreCalm BY <1>2, QueueTyped, UnchangedCalm
    <2>2. /\ exec' \in [Turn -> Dispatch] /\ exec'[t].pc = "idle"
          /\ \A u \in Turn \ {t} : exec'[u] = exec[u]
      BY <1>2, DoneIdle
    <2>3. DispatchOK(t)' BY <2>2 DEF DispatchOK, Uncontacted
    <2> QED BY <1>1, <2>1, <2>2, <2>3, QueueTyped, CalmDispatch DEF Create
  <1>3. CASE \E a \in Attempt : /\ CreateAttempt(a, t)
                                /\ exec' = [exec EXCEPT ![t].pc = "bind", ![t].attempt = a]
    <2>1. PICK a \in Attempt : /\ CreateAttempt(a, t)
                               /\ exec' = [exec EXCEPT ![t].pc = "bind", ![t].attempt = a]
      BY <1>3
    <2>2. /\ StoreInv' /\ ClosingHasCause'
          /\ attempt[a].phase = "absent" /\ status[t] = "queued"
          /\ attempt'[a].phase = "open" /\ attempt'[a].turn = t /\ attempt'[a].op = Null
          /\ \A b \in Attempt \ {a} : attempt'[b] = attempt[b]
          /\ \A u \in Turn : AdmittedKept(u)
      BY <2>1, QueueTyped, CreateFacts
    <2>3. /\ exec' \in [Turn -> Dispatch]
          /\ exec'[t].pc = "bind" /\ exec'[t].attempt = a
          /\ \A u \in Turn \ {t} : exec'[u] = exec[u]
      <3>1. exec[t] \in Dispatch BY QueueTyped
      <3>2. exec' = [exec EXCEPT ![t] = [exec[t] EXCEPT !.pc = "bind", !.attempt = a]]
        BY <2>1, <3>1, QueueTyped
      <3>3. [exec[t] EXCEPT !.pc = "bind", !.attempt = a] \in Dispatch
        BY <3>1 DEF Dispatch, Awaiting
      <3> QED BY <3>1, <3>2, <3>3, QueueTyped DEF Dispatch
    <2>4. attempt[a] = NoRow BY <2>2, QueueTyped DEF StoreInv, FreshRowsEmpty
    <2>5. host' = host /\ host[a] = "none" BY <2>2 DEF Create, SystemInv, HostOK
    <2>6. \A b \in Attempt : RowAdvances(b) BY <2>2 DEF RowAdvances, Ended
    <2>7. \A b \in Attempt \ {a} : RowKept(b) /\ LiveKept(b)
      BY <2>2 DEF RowKept, LiveKept, Live, Ended
    <2>8. \A u \in Turn \ {t} : Calm(u)
      <3>1. attempt[a].turn \notin Turn BY <2>4, ConstantAssumption DEF NoRow
      <3> QED BY <2>2, <2>5, <2>7, <3>1 DEF Calm
    <2>9. \A b \in Attempt : attempt[b].turn = t => host[b] = "none"
      BY <2>2 DEF SystemInv, HostOK
    <2>10. DispatchOK(t)'
      BY <2>2, <2>3, <2>5, <2>9 DEF DispatchOK, Owned, Uncontacted
    <2>11. \A b \in Attempt : HostOK(b)'
      <3>1. HostOK(a)' BY <2>5 DEF HostOK, Unfenced
      <3>2. ASSUME NEW b \in Attempt \ {a} PROVE HostOK(b)'
        <4>1. host[b] # "none" => attempt[b].turn \in Turn
          BY DEF SystemInv, HostOK, StoreInv, AdmissionHoldsAttempt
        <4> QED BY <2>2, <2>5, <2>7, <4>1, HostFramed DEF SystemInv
      <3> QED BY <3>1, <3>2
    <2>12. OneSession' BY <2>2, <2>5, SessionFramed DEF SystemInv
    <2> QED
      BY <1>1, <2>2, <2>3, <2>5, <2>6, <2>8, <2>10, <2>11, <2>12, QueueTyped, DispatchActs
         DEF Create
  <1> QED BY <1>2, <1>3 DEF Create

\* Post: the next command joins the queue.
LEMMA PostOK ==
    ASSUME SystemInv, NEW t \in Turn, Post(t), UNCHANGED systemVars
    PROVE  SystemInv'
  <1>1. StoreCalm BY QueueTyped, UnchangedCalm DEF Post
  <1>2. Moved(Dispatcher(t)) BY QueueTyped, OwnersDiffer, PostsMoved DEF Post
  <1>3. DispatchOK(t)'
    BY <1>1 DEF Post, DispatchOK, SystemInv, Uncontacted, StoreCalm, StoreKept, RowKept,
                Owned, Ended
  <1> QED BY <1>1, <1>2, <1>3, QueueTyped, CalmDispatch DEF Post, DispatchPosts

\* Bind: the session is bound or the handler decides.
LEMMA BindOK ==
    ASSUME SystemInv, NEW t \in Turn, Bind(t), UNCHANGED systemVars
    PROVE  SystemInv'
  <1> DEFINE a == exec[t].attempt
  <1>0. Owned(t, a) BY DEF Bind, At, SystemInv, DispatchOK
  <1> HIDE DEF a
  <1>1. Moved(Dispatcher(t)) /\ ~Posted(Dispatcher(t))'
    BY QueueTyped, OwnersDiffer, CommitsMoved DEF Bind
  <1>2. StoreCalm
    <2>1. CASE BindSession(a, threadOf[t])
      BY <1>0, <2>1, QueueTyped, BindCalm, ConstantAssumption, ExecutionAssumption DEF Owned
    <2>2. CASE UNCHANGED storeVars BY <2>2, QueueTyped, UnchangedCalm
    <2> QED BY <2>1, <2>2 DEF Bind, a
  <1>3. PICK pc \in {"finalize", "catch"} : Go(t, pc) BY DEF Bind
  <1>4. Went(t, pc) BY <1>3, GoWent DEF Awaiting
  <1>5. DispatchOK(t)'
    BY <1>2, <1>4 DEF Bind, At, DispatchOK, SystemInv, Uncontacted, StoreCalm, StoreKept,
                RowKept, Owned, Ended, Went
  <1> QED BY <1>1, <1>2, <1>4, <1>5, QueueTyped, CalmDispatch DEF Bind, Went

\* Finalize: the package is bound or the handler decides.
LEMMA FinalizeOK ==
    ASSUME SystemInv, NEW t \in Turn, Finalize(t), UNCHANGED systemVars
    PROVE  SystemInv'
  <1> DEFINE a == exec[t].attempt
  <1>0. Owned(t, a) BY DEF Finalize, At, SystemInv, DispatchOK
  <1> HIDE DEF a
  <1>1. Moved(Dispatcher(t)) /\ ~Posted(Dispatcher(t))'
    BY QueueTyped, OwnersDiffer, CommitsMoved DEF Finalize
  <1>2. StoreCalm
    <2>1. CASE FinalizeInput(a, a)
      BY <1>0, <2>1, QueueTyped, FinalizeCalm, ExecutionAssumption DEF Owned
    <2>2. CASE UNCHANGED storeVars BY <2>2, QueueTyped, UnchangedCalm
    <2> QED BY <2>1, <2>2 DEF Finalize, a
  <1>3. PICK pc \in {"start", "catch"} : Go(t, pc) BY DEF Finalize
  <1>4. Went(t, pc) BY <1>3, GoWent DEF Awaiting
  <1>5. DispatchOK(t)'
    BY <1>2, <1>4 DEF Finalize, At, DispatchOK, SystemInv, Uncontacted, StoreCalm, StoreKept,
                RowKept, Owned, Ended, Went
  <1> QED BY <1>1, <1>2, <1>4, <1>5, QueueTyped, CalmDispatch DEF Finalize, Went

\* Start: the Turn runs, still without a session.
LEMMA StartOK ==
    ASSUME SystemInv, NEW t \in Turn, Start(t), UNCHANGED systemVars
    PROVE  SystemInv'
  <1>1. StoreCalm BY QueueTyped, UnchangedCalm DEF Start
  <1>2. Went(t, "materialize") BY GoWent DEF Start, Awaiting
  <1>3. ~Posted(Dispatcher(t)) BY DEF SystemInv, WriterOK, DispatchPosts, Start, At
  <1>4. Moved(Dispatcher(t)) BY QueueTyped, StillMoved DEF Start
  <1>5. turn' \in [Turn -> TurnStatus] BY QueueTyped DEF Start, TurnStatus
  <1>6. DispatchOK(t)'
    BY <1>1, <1>2 DEF Start, At, DispatchOK, SystemInv, Uncontacted, StoreCalm, StoreKept,
                RowKept, Owned, Ended, Went
  <1> QED BY <1>1, <1>2, <1>4, <1>5, <1>6, QueueTyped, CalmDispatch DEF Start, Went, DispatchPosts

\* A failure before the executor owns the Turn.
LEMMA PreparationFailsOK ==
    ASSUME SystemInv, NEW t \in Turn, NEW busy \in BOOLEAN, PreparationFails(t, busy),
           UNCHANGED systemVars
    PROVE  SystemInv'
  <1>1. StoreCalm BY QueueTyped, UnchangedCalm DEF PreparationFails
  <1>2. Went(t, "catch")
    <2>1. exec[t] \in Dispatch BY QueueTyped
    <2>2. exec' = [exec EXCEPT ![t] = [exec[t] EXCEPT !.pc = "catch", !.busy = busy]]
      BY <2>1, QueueTyped DEF PreparationFails
    <2>3. [exec[t] EXCEPT !.pc = "catch", !.busy = busy] \in Dispatch
      BY <2>1 DEF Dispatch, Awaiting
    <2> QED BY <2>1, <2>2, <2>3, QueueTyped DEF Dispatch, Went
  <1>3. Moved(Dispatcher(t)) /\ ~Posted(Dispatcher(t))'
    BY QueueTyped, OwnersDiffer, StillMoved DEF PreparationFails
  <1>4. DispatchOK(t)'
    BY <1>1, <1>2 DEF PreparationFails, At, DispatchOK, SystemInv, Uncontacted, StoreCalm,
                StoreKept, RowKept, Owned, Ended, Went
  <1> QED BY <1>1, <1>2, <1>3, <1>4, QueueTyped, CalmDispatch DEF PreparationFails, Went

\* The attempt's only session: no other attempt of the Turn has one.
LEMMA MaterializeOK ==
    ASSUME SystemInv, NEW t \in Turn, Materialize(t), UNCHANGED systemVars
    PROVE  SystemInv'
  <1>0. PICK a \in Attempt :
          /\ a = exec[t].attempt /\ Owned(t, a) /\ attempt[a].op = Null
          /\ \A b \in Attempt : attempt[b].turn = t => host[b] = "none"
    BY DEF Materialize, At, SystemInv, DispatchOK, Uncontacted, Owned
  <1>1. Moved(Dispatcher(t)) /\ ~Posted(Dispatcher(t))'
    BY QueueTyped, OwnersDiffer, CommitsMoved DEF Materialize
  <1>2. StoreCalm BY QueueTyped, UnchangedCalm DEF Materialize
  <1>3. CASE Go(t, "fail") /\ UNCHANGED host
    <2>1. Went(t, "fail") BY <1>3, GoWent DEF Awaiting
    <2>2. DispatchOK(t)'
      BY <1>0, <1>2, <2>1 DEF DispatchOK, Uncontacted, StoreCalm, StoreKept, RowKept,
                  Owned, Ended, Went
    <2> QED BY <1>1, <1>2, <1>3, <2>1, <2>2, QueueTyped, CalmDispatch DEF Materialize, Went
  <1>4. CASE /\ attempt[a].phase = "open"
             /\ host' = [host EXCEPT ![a] = "materializing"]
             /\ Go(t, "operate")
    <2>1. Went(t, "operate") BY <1>4, GoWent DEF Awaiting
    <2>2. /\ host' \in [Attempt -> HostState] /\ host'[a] = "materializing"
          /\ \A b \in Attempt \ {a} : host'[b] = host[b]
      BY <1>0, <1>4, QueueTyped DEF HostState, Owned
    <2>3. \A b \in Attempt : attempt'[b] = attempt[b] /\ RowKept(b) /\ RowAdvances(b) /\ LiveKept(b)
      BY <1>2, KeptAdvances DEF StoreCalm, StoreKept, Materialize, storeVars
    <2>4. \A u \in Turn \ {t} : Calm(u)
      BY <1>0, <2>2, <2>3 DEF Calm, Owned
    <2>5. status[t] = "admitted" /\ status' = status
      BY <1>0, <1>4, QueueTyped
         DEF StoreInv, AdmissionHoldsAttempt, Live, Owned, Materialize, storeVars
    <2>6. \A b \in Attempt : HostOK(b)'
      <3>1. HostOK(a)' BY <1>0, <2>2, <2>3, <2>5 DEF HostOK, Unfenced, Owned
      <3>2. ASSUME NEW b \in Attempt \ {a} PROVE HostOK(b)'
        BY <2>2, <2>3, <2>5, HostFramed DEF SystemInv, AdmittedKept
      <3> QED BY <3>1, <3>2
    <2>7. OneSession' BY <1>0, <2>2, <2>3 DEF SystemInv, OneSession, Owned
    <2>8. DispatchOK(t)'
      BY <1>0, <1>1, <2>1, <2>2, <2>3 DEF DispatchOK, Went, Owned, Uncontacted
    <2> QED
      BY <1>1, <1>2, <2>1, <2>2, <2>3, <2>4, <2>6, <2>7, <2>8, QueueTyped, DispatchActs
         DEF Materialize, Went, StoreCalm, StoreKept
  <1> QED BY <1>0, <1>3, <1>4 DEF Materialize

\* No capacity: back to the handler, still without a session.
LEMMA CapacityUnavailableOK ==
    ASSUME SystemInv, NEW t \in Turn, CapacityUnavailable(t), UNCHANGED systemVars
    PROVE  SystemInv'
  <1>1. StoreCalm BY QueueTyped, UnchangedCalm DEF CapacityUnavailable
  <1>2. Went(t, "catch")
    <2>1. exec[t] \in Dispatch BY QueueTyped
    <2>2. PICK busy \in BOOLEAN : exec' = [exec EXCEPT ![t].pc = "catch", ![t].busy = busy]
      BY DEF CapacityUnavailable
    <2>3. exec' = [exec EXCEPT ![t] = [exec[t] EXCEPT !.pc = "catch", !.busy = busy]]
      BY <2>1, <2>2, QueueTyped
    <2>4. [exec[t] EXCEPT !.pc = "catch", !.busy = busy] \in Dispatch
      BY <2>1 DEF Dispatch, Awaiting
    <2> QED BY <2>1, <2>3, <2>4, QueueTyped DEF Dispatch, Went
  <1>3. Moved(Dispatcher(t)) /\ ~Posted(Dispatcher(t))'
    BY QueueTyped, OwnersDiffer, StillMoved DEF CapacityUnavailable
  <1>4. turn' \in [Turn -> TurnStatus] BY QueueTyped DEF CapacityUnavailable, TurnStatus
  <1>5. DispatchOK(t)'
    BY <1>1, <1>2 DEF CapacityUnavailable, At, DispatchOK, SystemInv, Uncontacted, StoreCalm,
                StoreKept, RowKept, Owned, Ended, Went
  <1> QED
    BY <1>1, <1>2, <1>3, <1>4, <1>5, QueueTyped, CalmDispatch DEF CapacityUnavailable, Went

\* An operation is posted for an attempt with a session.
LEMMA PostOperationOK ==
    ASSUME SystemInv, NEW t \in Turn, NEW op \in {"prepare", "submit"}, PostOperation(t, op),
           UNCHANGED systemVars
    PROVE  SystemInv'
  <1>1. StoreCalm BY QueueTyped, UnchangedCalm DEF PostOperation
  <1>2. /\ exec' \in [Turn -> Dispatch] /\ exec'[t].pc = "operate" /\ exec'[t].op = op
        /\ exec'[t].attempt = exec[t].attempt
        /\ \A u \in Turn \ {t} : exec'[u] = exec[u]
    <2>1. exec[t] \in Dispatch /\ exec[t].pc = "operate" BY QueueTyped DEF PostOperation, At
    <2>2. exec' = [exec EXCEPT ![t] = [exec[t] EXCEPT !.op = op]]
      BY <2>1, QueueTyped DEF PostOperation
    <2>3. [exec[t] EXCEPT !.op = op] \in Dispatch BY <2>1, ExecutionAssumption DEF Dispatch
    <2> QED BY <2>1, <2>2, <2>3, QueueTyped DEF Dispatch
  <1>3. Moved(Dispatcher(t)) BY QueueTyped, OwnersDiffer, PostsMoved DEF PostOperation
  <1>4. DispatchOK(t)'
    BY <1>1, <1>2 DEF PostOperation, At, DispatchOK, SystemInv, Uncontacted, StoreCalm,
                StoreKept, RowKept, Owned, Ended
  <1> QED BY <1>1, <1>2, <1>3, <1>4, QueueTyped, CalmDispatch DEF PostOperation, DispatchPosts

\* A preparation effect of a closing attempt goes on unrecorded.
LEMMA PrepareWhileClosingOK ==
    ASSUME SystemInv, NEW t \in Turn, PrepareWhileClosing(t), UNCHANGED systemVars
    PROVE  SystemInv'
  <1>1. StoreCalm BY QueueTyped, UnchangedCalm DEF PrepareWhileClosing
  <1>2. /\ exec' \in [Turn -> Dispatch] /\ exec'[t].pc = "deliver" /\ exec'[t].op = "prepare"
        /\ exec'[t].attempt = exec[t].attempt
        /\ \A u \in Turn \ {t} : exec'[u] = exec[u]
    <2>1. exec[t] \in Dispatch BY QueueTyped
    <2>2. exec' = [exec EXCEPT ![t] = [exec[t] EXCEPT !.op = "prepare", !.pc = "deliver"]]
      BY <2>1, QueueTyped DEF PrepareWhileClosing
    <2>3. [exec[t] EXCEPT !.op = "prepare", !.pc = "deliver"] \in Dispatch
      BY <2>1, ExecutionAssumption DEF Dispatch, Awaiting
    <2> QED BY <2>1, <2>2, <2>3, QueueTyped DEF Dispatch
  <1>3. Moved(Dispatcher(t)) /\ ~Posted(Dispatcher(t))'
    BY QueueTyped, OwnersDiffer, StillMoved DEF PrepareWhileClosing
  <1>4. DispatchOK(t)'
    BY <1>1, <1>2 DEF PrepareWhileClosing, At, DispatchOK, SystemInv, Uncontacted, StoreCalm,
                StoreKept, RowKept, Owned, Ended
  <1> QED BY <1>1, <1>2, <1>3, <1>4, QueueTyped, CalmDispatch DEF PrepareWhileClosing

\* An operation is recorded while the attempt is open, so nothing was delivered
\* unrecorded before.
LEMMA OperateOK ==
    ASSUME SystemInv, NEW t \in Turn, Operate(t), UNCHANGED systemVars
    PROVE  SystemInv'
  <1>1. Moved(Dispatcher(t)) /\ Posted(Dispatcher(t)) /\ ~Posted(Dispatcher(t))'
    BY QueueTyped, OwnersDiffer, CommitsMoved DEF Operate
  <1>2. PICK a \in Attempt, op \in {"prepare", "submit"} :
          a = exec[t].attempt /\ op = exec[t].op /\ Owned(t, a) /\ host[a] # "none"
    BY <1>1 DEF Operate, At, SystemInv, DispatchOK, Owned
  <1>3. CASE Go(t, "fail") /\ UNCHANGED storeVars
    <2>1. StoreCalm BY <1>3, QueueTyped, UnchangedCalm
    <2>2. Went(t, "fail") BY <1>3, GoWent DEF Awaiting
    <2>3. DispatchOK(t)'
      BY <1>2, <2>1, <2>2 DEF DispatchOK, Uncontacted, StoreCalm, StoreKept, RowKept,
                  Owned, Ended, Went
    <2> QED BY <1>1, <2>1, <2>2, <2>3, QueueTyped, CalmDispatch DEF Operate, Went
  <1>4. CASE RecordOperation(a, op, op = "submit", now) /\ Go(t, "deliver")
    <2>1. Went(t, "deliver") BY <1>4, GoWent DEF Awaiting
    <2>0. op \in Op /\ op # Null /\ (op = "submit") \in BOOLEAN
      BY <1>2, ExecutionAssumption, ConstantAssumption
    <2>2. /\ StoreInv' /\ ClosingHasCause'
          /\ attempt[a].phase = "open" /\ attempt'[a].phase = "open"
          /\ attempt'[a].turn = attempt[a].turn /\ attempt'[a].op = op
          /\ \A b \in Attempt \ {a} : attempt'[b] = attempt[b]
          /\ status' = status
      BY <1>2, <1>4, <2>0, QueueTyped, RecordFacts DEF Owned
    <2>3. host' = host BY DEF Operate
    <2>4. \A b \in Attempt \ {a} : RowKept(b) /\ LiveKept(b)
      BY <2>2 DEF RowKept, LiveKept, Live, Ended
    <2>5. \A b \in Attempt : RowAdvances(b) BY <2>0, <2>2 DEF RowAdvances, Ended
    <2>6. \A u \in Turn \ {t} : Calm(u) BY <1>2, <2>2, <2>3, <2>4 DEF Calm, Owned
    <2>7. \A b \in Attempt : HostOK(b)'
      <3>1. HostOK(a)'
        BY <1>2, <2>0, <2>2, <2>3 DEF SystemInv, HostOK, Unfenced, Owned, Ended, Live
      <3>2. ASSUME NEW b \in Attempt \ {a} PROVE HostOK(b)'
        BY <2>2, <2>3, <2>4, HostFramed DEF SystemInv, AdmittedKept
      <3> QED BY <3>1, <3>2
    <2>8. OneSession' BY <2>2, <2>3, SessionFramed DEF SystemInv
    <2>9. DispatchOK(t)'
      BY <1>2, <2>0, <2>1, <2>2, <2>3 DEF DispatchOK, Went, Owned, Uncontacted
    <2> QED
      BY <1>1, <2>1, <2>2, <2>3, <2>5, <2>6, <2>7, <2>8, <2>9, QueueTyped, DispatchActs
         DEF Operate, Went
  <1> QED BY <1>2, <1>3, <1>4 DEF Operate

\* The last check and the contact.
LEMMA DeliverOK ==
    ASSUME SystemInv, NEW t \in Turn, Deliver(t), UNCHANGED systemVars
    PROVE  SystemInv'
  <1>0. PICK a \in Attempt :
          /\ a = exec[t].attempt /\ Owned(t, a) /\ host[a] # "none"
          /\ exec[t].op \in {"prepare", "submit"}
          /\ attempt[a].op = Null => Ended(a)
    BY DEF Deliver, At, SystemInv, DispatchOK, Owned
  <1>1. StoreCalm BY QueueTyped, UnchangedCalm DEF Deliver
  <1>2. Went(t, "reply") BY GoWent DEF Deliver, Awaiting
  <1>3. Moved(Dispatcher(t)) BY QueueTyped, StillMoved DEF Deliver
  <1>4. /\ host' \in [Attempt -> HostState] /\ host'[a] \in {"prepared", "started"}
        /\ \A b \in Attempt \ {a} : host'[b] = host[b]
    BY <1>0, QueueTyped DEF Deliver, HostState
  <1>5. HostsKept BY <1>0, <1>4 DEF HostsKept
  <1>6. attempt[a].op = Null \/ attempt[a].phase = "open"
    BY <1>0 DEF Deliver, MaySubmit, MayPrepare
  <1>7. HostOK(a)'
    BY <1>0, <1>4, <1>6
       DEF Deliver, storeVars, SystemInv, HostOK, Unfenced, Ended, Live
  <1>8. DispatchOK(t)'
    BY <1>0, <1>1, <1>2, <1>5 DEF DispatchOK, Uncontacted, StoreCalm, StoreKept, RowKept,
                Owned, Ended, Went, HostsKept
  <1>9. StoreKept /\ HoldsKept BY <1>1, CalmHolds
  <1> QED
    BY <1>2, <1>3, <1>4, <1>5, <1>7, <1>8, <1>9, QueueTyped, DispatchMoves
       DEF Deliver, Went, DispatchPosts

\* The host queue refuses the effect.
LEMMA NotEnqueuedOK ==
    ASSUME SystemInv, NEW t \in Turn, NotEnqueued(t), UNCHANGED systemVars
    PROVE  SystemInv'
  <1>1. StoreCalm BY QueueTyped, UnchangedCalm DEF NotEnqueued
  <1>2. Went(t, "unqueued") BY GoWent DEF NotEnqueued, Awaiting
  <1>3. Moved(Dispatcher(t)) BY QueueTyped, StillMoved DEF NotEnqueued
  <1>4. DispatchOK(t)'
    BY <1>1, <1>2 DEF NotEnqueued, At, DispatchOK, SystemInv, Uncontacted, StoreCalm,
                StoreKept, RowKept, Owned, Ended, Went
  <1> QED BY <1>1, <1>2, <1>3, <1>4, QueueTyped, CalmDispatch DEF NotEnqueued, Went, DispatchPosts

\* The refusal is recorded, if it still counts.
LEMMA ObserveUnqueuedOK ==
    ASSUME SystemInv, NEW t \in Turn, ObserveUnqueued(t), UNCHANGED systemVars
    PROVE  SystemInv'
  <1>0. PICK a \in Attempt : a = exec[t].attempt /\ Owned(t, a)
    BY DEF ObserveUnqueued, At, SystemInv, DispatchOK, Owned
  <1>1. StoreCalm
    BY <1>0, QueueTyped, ObserveCalm, ExecutionAssumption DEF ObserveUnqueued, Disposition
  <1>2. Went(t, "fail") BY GoWent DEF ObserveUnqueued, Awaiting
  <1>3. Moved(Dispatcher(t)) /\ ~Posted(Dispatcher(t))'
    BY QueueTyped, OwnersDiffer, CommitsMoved DEF ObserveUnqueued
  <1>4. DispatchOK(t)'
    BY <1>0, <1>1, <1>2 DEF DispatchOK, Uncontacted, StoreCalm, StoreKept, RowKept, Owned, Went
  <1> QED BY <1>1, <1>2, <1>3, <1>4, QueueTyped, CalmDispatch DEF ObserveUnqueued, Went

\* The reply is recorded, if it still counts.
LEMMA ReplyOK ==
    ASSUME SystemInv, NEW t \in Turn, Reply(t), UNCHANGED systemVars
    PROVE  SystemInv'
  <1>0. PICK a \in Attempt : /\ a = exec[t].attempt /\ Owned(t, a) /\ host[a] # "none"
                             /\ exec[t].op \in {"prepare", "submit"}
    BY DEF Reply, At, SystemInv, DispatchOK, Owned
  <1>1. StoreCalm
    BY <1>0, QueueTyped, ObserveCalm, ExecutionAssumption DEF Reply, Disposition
  <1>2. PICK pc \in {"operate", "await", "fail"} : Go(t, pc) BY DEF Reply
  <1>3. Went(t, pc) BY <1>2, GoWent DEF Awaiting
  <1>4. Moved(Dispatcher(t)) /\ ~Posted(Dispatcher(t))'
    BY QueueTyped, OwnersDiffer, CommitsMoved DEF Reply
  <1>5. DispatchOK(t)'
    BY <1>0, <1>1, <1>3 DEF Reply, DispatchOK, Uncontacted, StoreCalm, StoreKept, RowKept,
                Owned, Went
  <1> QED BY <1>1, <1>3, <1>4, <1>5, QueueTyped, CalmDispatch DEF Reply, Went

\* An exception of the executor.
LEMMA ExecutionFailsOK ==
    ASSUME SystemInv, NEW t \in Turn, ExecutionFails(t), UNCHANGED systemVars
    PROVE  SystemInv'
  <1>0. Owned(t, exec[t].attempt) BY DEF ExecutionFails, SystemInv, DispatchOK
  <1>1. StoreCalm BY QueueTyped, UnchangedCalm DEF ExecutionFails
  <1>2. Went(t, "fail") BY GoWent DEF ExecutionFails, Awaiting
  <1>3. Moved(Dispatcher(t)) /\ ~Posted(Dispatcher(t))'
    BY QueueTyped, OwnersDiffer, StillMoved DEF ExecutionFails
  <1>4. DispatchOK(t)'
    BY <1>0, <1>1, <1>2 DEF DispatchOK, Uncontacted, StoreCalm, StoreKept, RowKept, Owned, Went
  <1> QED BY <1>1, <1>2, <1>3, <1>4, QueueTyped, CalmDispatch DEF ExecutionFails, Went

\* A final status implies that the attempt is stopped.
LEMMA AwaitFinalOK ==
    ASSUME SystemInv, NEW t \in Turn, AwaitFinal(t), UNCHANGED systemVars
    PROVE  SystemInv'
  <1>0. PICK a \in Attempt : a = exec[t].attempt /\ Owned(t, a)
    BY DEF AwaitFinal, At, SystemInv, DispatchOK, Owned
  <1>1. StoreCalm BY QueueTyped, UnchangedCalm DEF AwaitFinal
  <1>2. PICK pc \in {"closeout", "fail"} : Go(t, pc) /\ (pc = "closeout" => host[a] = "final")
    BY <1>0 DEF AwaitFinal
  <1>3. Went(t, pc) BY <1>2, GoWent DEF Awaiting
  <1>4. ~Posted(Dispatcher(t)) BY DEF SystemInv, WriterOK, DispatchPosts, AwaitFinal, At
  <1>5. Moved(Dispatcher(t)) /\ ~Posted(Dispatcher(t))'
    BY <1>4, QueueTyped, OwnersDiffer, StillMoved DEF AwaitFinal
  <1>6. host[a] = "final" => Ended(a) BY DEF SystemInv, HostOK
  <1>7. DispatchOK(t)'
    BY <1>0, <1>1, <1>2, <1>3, <1>6
       DEF DispatchOK, Uncontacted, StoreCalm, StoreKept, RowKept, Owned, Went, Ended
  <1> QED BY <1>1, <1>3, <1>5, <1>7, QueueTyped, CalmDispatch DEF AwaitFinal, Went

\* Deciding a Turn keeps the types.
LEMMA TerminalizeTyped ==
    ASSUME turn \in [Turn -> TurnStatus], NEW x, NEW outcome \in TurnStatus, Terminalize(x, outcome)
    PROVE  turn' \in [Turn -> TurnStatus]
  BY DEF Terminalize

\* Cleanup of a closing or closed attempt.
LEMMA FenceKept ==
    ASSUME SystemInv, StoreCalm, NEW a \in Attempt, Ended(a), Fence(a)
    PROVE  /\ host' \in [Attempt -> HostState] /\ HostsKept
           /\ \A b \in Attempt : host'[b] = host[b] \/ HostOK(b)'
  <1>1. \A b \in Attempt \ {a} : host'[b] = host[b] BY QueueTyped DEF Fence
  <1>2. \/ host'[a] = host[a]
        \/ host[a] # "none" /\ host'[a] \in {"retired", "fenced", "collected"}
    BY QueueTyped DEF Fence
  <1>3. host' \in [Attempt -> HostState]
    <2>1. DOMAIN host' = Attempt /\ host' = [b \in Attempt |-> host'[b]]
      BY QueueTyped DEF Fence
    <2> QED BY <1>1, <1>2, <2>1, QueueTyped DEF HostState
  <1>4. RowKept(a) BY DEF StoreCalm, StoreKept
  <1>5. host[a] # "none" => attempt[a].turn \in Turn /\ AdmittedKept(attempt[a].turn)
    BY DEF SystemInv, HostOK, StoreInv, AdmissionHoldsAttempt, StoreCalm
  <1>6. host'[a] = host[a] \/ HostOK(a)'
    BY <1>2, <1>4, <1>5 DEF SystemInv, HostOK, RowKept, AdmittedKept, Unfenced
  <1>7. HostsKept BY <1>1, <1>2 DEF HostsKept
  <1> QED BY <1>1, <1>3, <1>6, <1>7

\* Closeout cleans up the stopped attempt.
LEMMA CloseoutOK ==
    ASSUME SystemInv, NEW t \in Turn, Closeout(t), UNCHANGED systemVars
    PROVE  SystemInv'
  <1>0. PICK a \in Attempt : a = exec[t].attempt /\ Owned(t, a) /\ Ended(a)
    BY DEF Closeout, At, SystemInv, DispatchOK, Owned
  <1>1. StoreCalm BY QueueTyped, UnchangedCalm DEF Closeout
  <1>2. Went(t, "publish") BY GoWent DEF Closeout, Awaiting
  <1>3. ~Posted(Dispatcher(t)) BY DEF SystemInv, WriterOK, DispatchPosts, Closeout, At
  <1>4. Moved(Dispatcher(t)) /\ ~Posted(Dispatcher(t))'
    BY <1>3, QueueTyped, OwnersDiffer, StillMoved DEF Closeout
  <1>5. /\ host' \in [Attempt -> HostState] /\ HostsKept
        /\ \A b \in Attempt : host'[b] = host[b] \/ HostOK(b)'
    BY <1>0, <1>1, FenceKept DEF Closeout
  <1>6. DispatchOK(t)'
    BY <1>0, <1>1, <1>2 DEF DispatchOK, Uncontacted, StoreCalm, StoreKept, RowKept, Owned, Went
  <1>7. StoreKept /\ HoldsKept BY <1>1, CalmHolds
  <1> QED
    BY <1>2, <1>4, <1>5, <1>6, <1>7, QueueTyped, DispatchMoves DEF Closeout, Went

\* The Turn is decided after the cleanup, or its publication fails.
LEMMA PublishOutcomeOK ==
    ASSUME SystemInv, NEW t \in Turn, PublishOutcome(t), UNCHANGED systemVars
    PROVE  SystemInv'
  <1>0. Owned(t, exec[t].attempt) BY DEF PublishOutcome, At, SystemInv, DispatchOK
  <1>1. StoreCalm BY QueueTyped, UnchangedCalm DEF PublishOutcome
  <1>2. PICK pc \in {"release", "failTurn"} : Go(t, pc) BY DEF PublishOutcome
  <1>3. Went(t, pc) BY <1>2, GoWent DEF Awaiting
  <1>4. ~Posted(Dispatcher(t)) BY DEF SystemInv, WriterOK, DispatchPosts, PublishOutcome, At
  <1>5. Moved(Dispatcher(t)) /\ ~Posted(Dispatcher(t))'
    BY <1>4, QueueTyped, OwnersDiffer, StillMoved DEF PublishOutcome
  <1>6. turn' \in [Turn -> TurnStatus]
    BY QueueTyped, TerminalizeTyped DEF PublishOutcome, FinalOutcomes, TurnStatus
  <1>7. DispatchOK(t)'
    BY <1>0, <1>1, <1>3 DEF DispatchOK, Uncontacted, StoreCalm, StoreKept, RowKept, Owned, Went
  <1> QED BY <1>1, <1>3, <1>5, <1>6, <1>7, CalmDispatch DEF PublishOutcome, Went

\* Cleanup after a failure, or its failure.
LEMMA CleanupOK ==
    ASSUME SystemInv, NEW t \in Turn, Cleanup(t), UNCHANGED systemVars
    PROVE  SystemInv'
  <1>0. PICK a \in Attempt : a = exec[t].attempt /\ Owned(t, a) /\ Ended(a)
    BY DEF Cleanup, At, SystemInv, DispatchOK, Owned
  <1>1. StoreCalm BY QueueTyped, UnchangedCalm DEF Cleanup
  <1>2. Went(t, "failTurn") BY GoWent DEF Cleanup, Awaiting
  <1>3. ~Posted(Dispatcher(t)) BY DEF SystemInv, WriterOK, DispatchPosts, Cleanup, At
  <1>4. Moved(Dispatcher(t)) /\ ~Posted(Dispatcher(t))'
    BY <1>3, QueueTyped, OwnersDiffer, StillMoved DEF Cleanup
  <1>5. /\ host' \in [Attempt -> HostState] /\ HostsKept
        /\ \A b \in Attempt : host'[b] = host[b] \/ HostOK(b)'
    <2>1. CASE Fence(a) BY <1>0, <1>1, <2>1, FenceKept
    <2>2. CASE UNCHANGED host BY <2>2, QueueTyped DEF HostsKept
    <2> QED BY <1>0, <2>1, <2>2 DEF Cleanup
  <1>6. DispatchOK(t)'
    BY <1>0, <1>1, <1>2 DEF DispatchOK, Uncontacted, StoreCalm, StoreKept, RowKept, Owned, Went
  <1>7. StoreKept /\ HoldsKept BY <1>1, CalmHolds
  <1> QED
    BY <1>2, <1>4, <1>5, <1>6, <1>7, QueueTyped, DispatchMoves DEF Cleanup, Went

\* An owner closes its attempt as never affected: it has recorded nothing.
LEMMA RefuseHolds ==
    ASSUME SystemInv, NEW a \in Attempt, NEW cause \in Cause, attempt[a].phase # "absent",
           attempt[a].op = Null \/ attempt[a].turn \in Stoppable \/ ~Live(a),
           RefuseAttempt(a, cause, FALSE)
    PROVE  StoreKept /\ HoldsKept /\ Ended(a)'
  <1>1. /\ StoreKept /\ Ended(a)'
        /\ \A b \in Attempt \ {a} : LiveKept(b)
        /\ \A u \in Turn : AdmittedKept(u)
    BY QueueTyped, RefuseKept
  <1>2. \A b \in Attempt : host[b] # "none" => attempt[b].turn \in Turn
    BY DEF SystemInv, HostOK, StoreInv, AdmissionHoldsAttempt
  <1> QED BY <1>1, <1>2 DEF HoldsKept, LiveKept

\* The frame of a step of the dispatch of t that commits a closure.
LEMMA ClosingDispatch ==
    ASSUME SystemInv, NEW t \in Turn, UNCHANGED <<systemVars, host, now, turn>>,
           exec' \in [Turn -> Dispatch], \A u \in Turn \ {t} : exec'[u] = exec[u],
           StoreKept, HoldsKept, Commits(Dispatcher(t)), DispatchOK(t)'
    PROVE  SystemInv'
  <1>1. Moved(Dispatcher(t)) /\ ~Posted(Dispatcher(t))' BY QueueTyped, OwnersDiffer, CommitsMoved
  <1>2. HostsKept BY DEF HostsKept
  <1> QED BY <1>1, <1>2, QueueTyped, DispatchMoves

\* The release of a cleaned session takes nothing that is needed.
LEMMA ReleaseOK ==
    ASSUME SystemInv, NEW t \in Turn, Release(t), UNCHANGED systemVars
    PROVE  SystemInv'
  <1>0. PICK a \in Attempt : a = exec[t].attempt /\ Owned(t, a)
    BY DEF Release, At, SystemInv, DispatchOK, Owned
  <1>1. /\ StoreKept
        /\ \A b \in Attempt : LiveKept(b) \/ Cleaned(b)
        /\ \A u \in Turn : AdmittedKept(u)
    BY <1>0, QueueTyped, ReleaseKept DEF Release
  <1>2. \A b \in Attempt : host[b] # "none" => attempt[b].turn \in Turn
    BY DEF SystemInv, HostOK, StoreInv, AdmissionHoldsAttempt
  <1>3. HoldsKept BY <1>1, <1>2 DEF HoldsKept
  <1>4. /\ exec' \in [Turn -> Dispatch] /\ exec'[t].pc = "idle"
        /\ \A u \in Turn \ {t} : exec'[u] = exec[u]
    BY DoneIdle DEF Release
  <1>5. DispatchOK(t)' BY <1>4 DEF DispatchOK, Uncontacted
  <1> QED BY <1>1, <1>3, <1>4, <1>5, ClosingDispatch DEF Release

\* Fail reads the operation of its own attempt: nobody else records one.
LEMMA FailOK ==
    ASSUME SystemInv, NEW t \in Turn, Fail(t), UNCHANGED systemVars
    PROVE  SystemInv'
  <1>0. PICK a \in Attempt : a = exec[t].attempt /\ Owned(t, a)
    BY DEF Fail, At, SystemInv, DispatchOK, Owned
  <1>1. StoreCalm BY QueueTyped, UnchangedCalm DEF Fail
  <1>2. PICK pc \in {"refuse", "abandon"} :
          Go(t, pc) /\ (pc = "refuse" => attempt[a].op = Null)
    BY <1>0 DEF Fail
  <1>3. Went(t, pc) BY <1>2, GoWent DEF Awaiting
  <1>4. ~Posted(Dispatcher(t)) BY DEF SystemInv, WriterOK, DispatchPosts, Fail, At
  <1>5. Moved(Dispatcher(t)) BY <1>4, QueueTyped, OwnersDiffer, PostsMoved DEF Fail
  <1>6. DispatchOK(t)'
    BY <1>0, <1>1, <1>2, <1>3
       DEF DispatchOK, Uncontacted, StoreCalm, StoreKept, RowKept, Owned, Went
  <1> QED BY <1>1, <1>3, <1>5, <1>6, QueueTyped, CalmDispatch DEF Fail, Went, DispatchPosts

\* Refuse closes an attempt without an operation.
LEMMA RefuseOK ==
    ASSUME SystemInv, NEW t \in Turn, Refuse(t), UNCHANGED systemVars
    PROVE  SystemInv'
  <1>0. PICK a \in Attempt : a = exec[t].attempt /\ Owned(t, a) /\ attempt[a].op = Null
    BY DEF Refuse, At, SystemInv, DispatchOK, Owned, Uncontacted
  <1>1. StoreKept /\ HoldsKept /\ Ended(a)'
    BY <1>0, RefuseHolds, SystemAssumption DEF Refuse, Owned, SystemCauses
  <1>2. Went(t, "cleanup") BY GoWent DEF Refuse, Awaiting
  <1>3. DispatchOK(t)'
    BY <1>0, <1>1, <1>2 DEF DispatchOK, Uncontacted, StoreKept, RowKept, Owned, Went, Ended
  <1> QED BY <1>1, <1>2, <1>3, ClosingDispatch DEF Refuse, Went

\* Abandon stops an attempt with one.
LEMMA AbandonOK ==
    ASSUME SystemInv, NEW t \in Turn, Abandon(t), UNCHANGED systemVars
    PROVE  SystemInv'
  <1>0. PICK a \in Attempt : a = exec[t].attempt /\ Owned(t, a)
    BY DEF Abandon, At, SystemInv, DispatchOK, Owned
  <1>1. StoreCalm /\ Ended(a)'
    BY <1>0, QueueTyped, RevokeCalm, SystemAssumption DEF Abandon, Owned, SystemCauses
  <1>2. Went(t, "cleanup") BY GoWent DEF Abandon, Awaiting
  <1>3. Moved(Dispatcher(t)) /\ ~Posted(Dispatcher(t))'
    BY QueueTyped, OwnersDiffer, CommitsMoved DEF Abandon
  <1>4. DispatchOK(t)'
    BY <1>0, <1>1, <1>2
       DEF DispatchOK, Uncontacted, StoreCalm, StoreKept, RowKept, Owned, Went, Ended
  <1> QED BY <1>1, <1>2, <1>3, <1>4, QueueTyped, CalmDispatch DEF Abandon, Went

\* The Turn fails; the attempt is released only when that is safe.
LEMMA FailTurnOK ==
    ASSUME SystemInv, NEW t \in Turn, FailTurn(t), UNCHANGED systemVars
    PROVE  SystemInv'
  <1>0. Owned(t, exec[t].attempt) BY DEF FailTurn, At, SystemInv, DispatchOK
  <1>1. StoreCalm BY QueueTyped, UnchangedCalm DEF FailTurn
  <1>2. ~Posted(Dispatcher(t)) BY DEF SystemInv, WriterOK, DispatchPosts, FailTurn, At
  <1>3. Moved(Dispatcher(t)) /\ ~Posted(Dispatcher(t))'
    BY <1>2, QueueTyped, OwnersDiffer, StillMoved DEF FailTurn
  <1>4. turn' \in [Turn -> TurnStatus]
    BY QueueTyped, TerminalizeTyped DEF FailTurn, TurnStatus
  <1>5. CASE Go(t, "release")
    <2>1. Went(t, "release") BY <1>5, GoWent DEF Awaiting
    <2>2. DispatchOK(t)'
      BY <1>0, <1>1, <2>1 DEF DispatchOK, Uncontacted, StoreCalm, StoreKept, RowKept, Owned, Went
    <2> QED BY <1>1, <1>3, <1>4, <2>1, <2>2, CalmDispatch DEF FailTurn, Went
  <1>6. CASE Done(t)
    <2>1. /\ exec' \in [Turn -> Dispatch] /\ exec'[t].pc = "idle"
          /\ \A u \in Turn \ {t} : exec'[u] = exec[u]
      BY <1>6, DoneIdle
    <2>2. DispatchOK(t)' BY <2>1 DEF DispatchOK, Uncontacted
    <2> QED BY <1>1, <1>3, <1>4, <2>1, <2>2, CalmDispatch DEF FailTurn
  <1> QED BY <1>5, <1>6 DEF FailTurn

\* The handler of the loop decides before any session exists.
LEMMA CatchOK ==
    ASSUME SystemInv, NEW t \in Turn, Catch(t), UNCHANGED systemVars
    PROVE  SystemInv'
  <1>1. StoreCalm BY QueueTyped, UnchangedCalm DEF Catch
  <1>2. PICK pc \in {"requeue", "refuseStart"} : Go(t, pc) BY DEF Catch
  <1>3. Went(t, pc) BY <1>2, GoWent DEF Awaiting
  <1>4. ~Posted(Dispatcher(t)) BY DEF SystemInv, WriterOK, DispatchPosts, Catch, At
  <1>5. Moved(Dispatcher(t)) BY <1>4, QueueTyped, OwnersDiffer, PostsMoved DEF Catch
  <1>6. DispatchOK(t)'
    BY <1>1, <1>3 DEF Catch, At, DispatchOK, SystemInv, Uncontacted, StoreCalm, StoreKept,
                RowKept, Owned, Went
  <1> QED BY <1>1, <1>3, <1>5, <1>6, QueueTyped, CalmDispatch DEF Catch, Went, DispatchPosts

\* A requeue: no attempt of the Turn has a session, so the next one replays
\* nothing.
LEMMA RequeueOK ==
    ASSUME SystemInv, NEW t \in Turn, Requeue(t), UNCHANGED systemVars
    PROVE  SystemInv'
  <1>0. PICK a \in Attempt :
          /\ a = exec[t].attempt /\ Owned(t, a) /\ attempt[a].op = Null
          /\ \A b \in Attempt : attempt[b].turn = t => host[b] = "none"
    BY DEF Requeue, At, SystemInv, DispatchOK, Owned, Uncontacted
  <1>1. /\ StoreKept /\ Ended(a)'
        /\ \A b \in Attempt \ {a} : LiveKept(b)
        /\ \A u \in Turn : u = attempt[a].turn \/ AdmittedKept(u)
    BY <1>0, QueueTyped, RefuseKept, SystemAssumption DEF Requeue, Owned, SystemCauses
  <1>2. \A b \in Attempt : host[b] # "none" => attempt[b].turn \in Turn /\ attempt[b].turn # t
    BY <1>0 DEF SystemInv, HostOK, StoreInv, AdmissionHoldsAttempt
  <1>3. HoldsKept BY <1>0, <1>1, <1>2 DEF HoldsKept, Owned
  <1>4. /\ exec' \in [Turn -> Dispatch] /\ exec'[t].pc = "idle"
        /\ \A u \in Turn \ {t} : exec'[u] = exec[u]
    BY DoneIdle DEF Requeue
  <1>5. DispatchOK(t)' BY <1>4 DEF DispatchOK, Uncontacted
  <1> QED BY <1>1, <1>3, <1>4, <1>5, ClosingDispatch DEF Requeue

\* A failed start is closed: nothing was recorded.
LEMMA RefuseStartOK ==
    ASSUME SystemInv, NEW t \in Turn, RefuseStart(t), UNCHANGED systemVars
    PROVE  SystemInv'
  <1>0. PICK a \in Attempt : a = exec[t].attempt /\ Owned(t, a) /\ attempt[a].op = Null
    BY DEF RefuseStart, At, SystemInv, DispatchOK, Owned, Uncontacted
  <1>1. StoreKept /\ HoldsKept
    BY <1>0, RefuseHolds, SystemAssumption DEF RefuseStart, Owned, SystemCauses
  <1>2. Went(t, "failTurn") BY GoWent DEF RefuseStart, Awaiting
  <1>3. DispatchOK(t)'
    BY <1>0, <1>1, <1>2 DEF DispatchOK, Uncontacted, StoreKept, RowKept, Owned, Went
  <1> QED BY <1>1, <1>2, <1>3, ClosingDispatch DEF RefuseStart, Went

\* Every step of a dispatch keeps the invariant.
LEMMA DispatchStepOK ==
    ASSUME SystemInv, NEW t \in Turn, DispatchStep(t), UNCHANGED systemVars
    PROVE  SystemInv'
  BY DenyOK, CreateOK, PostOK, BindOK, FinalizeOK, StartOK, PreparationFailsOK, MaterializeOK,
     CapacityUnavailableOK, PostOperationOK, PrepareWhileClosingOK, OperateOK, DeliverOK,
     NotEnqueuedOK, ObserveUnqueuedOK, ReplyOK, ExecutionFailsOK, AwaitFinalOK, CloseoutOK,
     PublishOutcomeOK, ReleaseOK, FailOK, RefuseOK, AbandonOK, CleanupOK, FailTurnOK, CatchOK, RequeueOK,
     RefuseStartOK
     DEF DispatchStep

-----------------------------------------------------------------------------
(* Stop.                                                                   *)

\* The frame of a step of the Stop of t.
LEMMA StopMoves ==
    ASSUME SystemInv, NEW t \in Turn, UNCHANGED <<exec, host, now, maint, mode, crashes>>,
           turn' \in [Turn -> TurnStatus],
           stop' \in [Turn -> StopRequest], \A u \in Turn \ {t} : stop'[u] = stop[u],
           StoreKept, HoldsKept, Moved(Stopper(t)),
           Posted(Stopper(t))' => stop'[t].pc \in {"cancel", "mark", "interrupt", "close"},
           StopOK(t)'
    PROVE  SystemInv'
  <1>1. SystemTypeOK'
    BY DEF SystemInv, SystemTypeOK, ExecTypeOK, StoreKept, StoreInv, Moved, Owners
  <1>2. \A o \in Owners \ {Stopper(t)} : Posted(o)' <=> Posted(o) BY DEF Moved
  <1>3. /\ \A u \in Turn : Posted(Dispatcher(u))' <=> Posted(Dispatcher(u))
        /\ \A u \in Turn \ {t} : Posted(Stopper(u))' <=> Posted(Stopper(u))
        /\ Posted(Maintainer)' <=> Posted(Maintainer)
    BY <1>2, OwnersDiffer
  <1>4. WriterOK' BY <1>3 DEF SystemInv, WriterOK, Moved
  <1>5. HostsKept BY DEF HostsKept
  <1> QED BY <1>1, <1>3, <1>4, <1>5, OwnerStep

\* StopGo moves one Stop.
LEMMA StopGoes ==
    ASSUME SystemInv, NEW t \in Turn,
           NEW pc \in {"cancel", "mark", "close", "seal", "interrupt", "cancelBackend"},
           StopGo(t, pc)
    PROVE  /\ stop' \in [Turn -> StopRequest]
           /\ stop'[t].pc = pc /\ stop'[t].attempt = stop[t].attempt
           /\ \A u \in Turn \ {t} : stop'[u] = stop[u]
  <1>1. stop[t] \in StopRequest BY QueueTyped
  <1>2. stop' = [stop EXCEPT ![t] = [stop[t] EXCEPT !.pc = pc]] BY <1>1, QueueTyped DEF StopGo
  <1>3. [stop[t] EXCEPT !.pc = pc] \in StopRequest BY <1>1 DEF StopRequest
  <1> QED BY <1>1, <1>2, <1>3, QueueTyped DEF StopRequest

\* StopEnds forgets one Stop.
LEMMA StopDone ==
    ASSUME SystemInv, NEW t \in Turn, StopEnds(t)
    PROVE  /\ stop' \in [Turn -> StopRequest]
           /\ stop'[t].pc = "idle"
           /\ \A u \in Turn \ {t} : stop'[u] = stop[u]
           /\ StopOK(t)'
  <1>1. NoStop \in StopRequest BY DEF NoStop, StopRequest
  <1>2. /\ stop' \in [Turn -> StopRequest] /\ stop'[t].pc = "idle"
        /\ \A u \in Turn \ {t} : stop'[u] = stop[u]
    BY <1>1, QueueTyped DEF StopEnds, NoStop
  <1> QED BY <1>2 DEF StopOK

\* A Stop begins with what it read.
LEMMA ReadStopOK ==
    ASSUME SystemInv, NEW t \in Turn, ReadStop(t)
    PROVE  SystemInv'
  <1>1. StoreCalm BY QueueTyped, UnchangedCalm DEF ReadStop
  <1>2. StoreKept /\ HoldsKept BY <1>1, CalmHolds
  <1>3. ~Posted(Stopper(t)) BY DEF SystemInv, WriterOK, ReadStop, NoStop
  <1>4. Moved(Stopper(t)) BY <1>3, QueueTyped, OwnersDiffer, PostsMoved DEF ReadStop
  <1>5. CASE StopGo(t, "cancel")
    <2>1. /\ stop' \in [Turn -> StopRequest] /\ stop'[t].pc = "cancel"
          /\ \A u \in Turn \ {t} : stop'[u] = stop[u]
      BY <1>5, StopGoes
    <2>2. StopOK(t)' BY <2>1 DEF StopOK, ReadStop
    <2> QED BY <1>2, <1>4, <2>1, <2>2, QueueTyped, StopMoves DEF ReadStop
  <1>6. CASE \E a \in LiveAttemptsOf(t) :
               /\ attempt[a].phase = "open"
               /\ stop' = [stop EXCEPT ![t] =
                     [pc |-> IF attempt[a].op = Null THEN "mark" ELSE "interrupt", attempt |-> a]]
    <2>1. PICK a \in LiveAttemptsOf(t) :
               /\ attempt[a].phase = "open"
               /\ stop' = [stop EXCEPT ![t] =
                     [pc |-> IF attempt[a].op = Null THEN "mark" ELSE "interrupt", attempt |-> a]]
      BY <1>6
    <2>2. a \in Attempt /\ attempt[a].turn = t BY <2>1 DEF LiveAttemptsOf
    <2>3. /\ stop' \in [Turn -> StopRequest]
          /\ stop'[t].pc = IF attempt[a].op = Null THEN "mark" ELSE "interrupt"
          /\ stop'[t].attempt = a
          /\ \A u \in Turn \ {t} : stop'[u] = stop[u]
      BY <2>1, <2>2, QueueTyped DEF StopRequest
    <2>4. attempt' = attempt BY DEF ReadStop, storeVars
    <2>5. StopOK(t)' BY <2>1, <2>2, <2>3, <2>4 DEF StopOK, ReadStop, Owned
    <2> QED BY <1>2, <1>4, <2>3, <2>5, QueueTyped, StopMoves DEF ReadStop
  <1> QED BY <1>5, <1>6 DEF ReadStop

\* Cancelling an admission that no attempt holds.
LEMMA CancelQueuedOK ==
    ASSUME SystemInv, NEW t \in Turn, CancelQueued(t)
    PROVE  SystemInv'
  <1>1. Moved(Stopper(t)) /\ ~Posted(Stopper(t))'
    BY QueueTyped, OwnersDiffer, CommitsMoved DEF CancelQueued
  <1>2. StoreCalm
    <2>1. CASE CancelEntry(t) BY <2>1, QueueTyped, AdmissionCalm DEF AdmissionCommand
    <2>2. CASE UNCHANGED storeVars BY <2>2, QueueTyped, UnchangedCalm
    <2> QED BY <2>1, <2>2 DEF CancelQueued
  <1>3. StoreKept /\ HoldsKept BY <1>2, CalmHolds
  <1>4. CASE StopGo(t, "seal")
    <2>1. /\ stop' \in [Turn -> StopRequest] /\ stop'[t].pc = "seal"
          /\ \A u \in Turn \ {t} : stop'[u] = stop[u]
      BY <1>4, StopGoes
    <2>2. StopOK(t)' BY <2>1 DEF StopOK, CancelQueued, SystemInv
    <2> QED BY <1>1, <1>3, <2>1, <2>2, QueueTyped, StopMoves DEF CancelQueued
  <1>5. CASE StopEnds(t)
    BY <1>1, <1>3, <1>5, QueueTyped, StopDone, StopMoves DEF CancelQueued
  <1> QED BY <1>4, <1>5 DEF CancelQueued

\* The mark of a Stop.
LEMMA StopMarkOK ==
    ASSUME SystemInv, NEW t \in Turn, StopMark(t)
    PROVE  SystemInv'
  <1>0. PICK a \in Attempt : /\ a = stop[t].attempt /\ Owned(t, a) /\ t \in Stoppable
                             /\ stop[t].pc = "interrupt" => attempt[a].op # Null
    BY DEF StopMark, SystemInv, StopOK, Owned
  <1>1. Moved(Stopper(t)) /\ ~Posted(Stopper(t))'
    BY QueueTyped, OwnersDiffer, CommitsMoved DEF StopMark
  <1>2. StoreCalm
    BY <1>0, QueueTyped, RevokeCalm, SystemAssumption DEF StopMark, Owned, SystemCauses
  <1>3. StoreKept /\ HoldsKept BY <1>2, CalmHolds
  <1>4. PICK pc \in {"close", "cancelBackend"} :
          StopGo(t, pc) /\ (pc = "cancelBackend" => attempt[a].op # Null)
    BY <1>0 DEF StopMark
  <1>5. /\ stop' \in [Turn -> StopRequest]
        /\ stop'[t].pc = pc /\ stop'[t].attempt = stop[t].attempt
        /\ \A u \in Turn \ {t} : stop'[u] = stop[u]
    BY <1>4, StopGoes
  <1>6. StopOK(t)' BY <1>0, <1>3, <1>4, <1>5 DEF StopOK, Owned, StoreKept, RowKept
  <1> QED BY <1>1, <1>3, <1>5, <1>6, QueueTyped, StopMoves DEF StopMark

\* The next command of a Stop joins the queue.
LEMMA StopPostOK ==
    ASSUME SystemInv, NEW t \in Turn, StopPost(t)
    PROVE  SystemInv'
  <1>1. StoreCalm BY QueueTyped, UnchangedCalm DEF StopPost
  <1>2. StoreKept /\ HoldsKept BY <1>1, CalmHolds
  <1>3. Moved(Stopper(t)) BY QueueTyped, OwnersDiffer, PostsMoved DEF StopPost
  <1>4. stop' = stop /\ attempt' = attempt BY DEF StopPost, systemVars, storeVars
  <1>5. StopOK(t)' BY <1>4 DEF SystemInv, StopOK, Owned
  <1> QED BY <1>2, <1>3, <1>4, <1>5, QueueTyped, StopMoves DEF StopPost, systemVars

\* Stop closes what it read as unaffected; its Turn is one that may be stopped.
LEMMA StopCloseOK ==
    ASSUME SystemInv, NEW t \in Turn, StopClose(t)
    PROVE  SystemInv'
  <1>0. PICK a \in Attempt : a = stop[t].attempt /\ Owned(t, a) /\ t \in Stoppable
    BY DEF StopClose, SystemInv, StopOK, Owned
  <1>1. Moved(Stopper(t)) /\ ~Posted(Stopper(t))'
    BY QueueTyped, OwnersDiffer, CommitsMoved DEF StopClose
  <1>2. CASE RefuseAttempt(a, "turn-cancelled", FALSE) /\ StopGo(t, "seal")
    <2>1. StoreKept /\ HoldsKept
      BY <1>0, <1>2, RefuseHolds, SystemAssumption DEF Owned, SystemCauses
    <2>2. /\ stop' \in [Turn -> StopRequest] /\ stop'[t].pc = "seal"
          /\ \A u \in Turn \ {t} : stop'[u] = stop[u]
      BY <1>2, StopGoes
    <2>3. StopOK(t)' BY <1>0, <2>2 DEF StopOK
    <2> QED BY <1>1, <2>1, <2>2, <2>3, QueueTyped, StopMoves DEF StopClose
  <1>3. CASE StopEnds(t) /\ UNCHANGED storeVars
    <2>1. StoreKept /\ HoldsKept BY <1>3, QueueTyped, UnchangedCalm, CalmHolds
    <2> QED BY <1>1, <1>3, <2>1, QueueTyped, StopDone, StopMoves DEF StopClose
  <1> QED BY <1>0, <1>2, <1>3 DEF StopClose

\* A Stop decides its Turn.
LEMMA StopSealOK ==
    ASSUME SystemInv, NEW t \in Turn, StopSeal(t)
    PROVE  SystemInv'
  <1>1. StoreKept /\ HoldsKept BY QueueTyped, UnchangedCalm, CalmHolds DEF StopSeal
  <1>2. ~Posted(Stopper(t)) BY DEF SystemInv, WriterOK, StopSeal
  <1>3. Moved(Stopper(t)) /\ ~Posted(Stopper(t))'
    BY <1>2, QueueTyped, OwnersDiffer, StillMoved DEF StopSeal
  <1>4. turn' \in [Turn -> TurnStatus] BY QueueTyped, TerminalizeTyped DEF StopSeal, TurnStatus
  <1> QED BY <1>1, <1>3, <1>4, StopDone, StopMoves DEF StopSeal

\* The answer of a cancelled backend is about a recorded operation.
LEMMA CancelAnswerCalm ==
    ASSUME SystemInv, NEW a \in Attempt, attempt[a].op # Null,
           \E answer \in CancelAnswers(a) : Observe(answer)
    PROVE  StoreCalm
  <1>1. attempt[a].op \in Op BY QueueTyped DEF StoreInv, StoreTypeOK, AttemptRow
  <1>2. PICK d \in Disposition : Observe(Outcome(a, attempt[a].op, d))
    BY DEF CancelAnswers, Disposition
  <1> DEFINE op == attempt[a].op
  <1>3. op \in Op /\ Observe(Outcome(a, op, d)) BY <1>1, <1>2
  <1> HIDE DEF op
  <1> QED BY <1>3, QueueTyped, ObserveCalm

\* The answer of a cancelled backend is recorded late.
LEMMA StopCancelBackendOK ==
    ASSUME SystemInv, NEW t \in Turn, StopCancelBackend(t)
    PROVE  SystemInv'
  <1>0. PICK a \in Attempt : a = stop[t].attempt /\ attempt[a].op # Null
    BY DEF StopCancelBackend, SystemInv, StopOK, Owned
  <1>1. StoreCalm
    <2>1. CASE \E answer \in CancelAnswers(a) : Observe(answer) BY <1>0, <2>1, CancelAnswerCalm
    <2>2. CASE UNCHANGED storeVars BY <2>2, QueueTyped, UnchangedCalm
    <2> QED BY <1>0, <2>1, <2>2 DEF StopCancelBackend
  <1>2. StoreKept /\ HoldsKept BY <1>1, CalmHolds
  <1>3. ~Posted(Stopper(t)) BY DEF SystemInv, WriterOK, StopCancelBackend
  <1>4. Moved(Stopper(t)) /\ ~Posted(Stopper(t))'
    BY <1>3, QueueTyped, OwnersDiffer, StillMoved DEF StopCancelBackend, execVars
  <1> QED BY <1>2, <1>4, QueueTyped, StopDone, StopMoves DEF StopCancelBackend, execVars

\* Every step of a Stop keeps the invariant.
LEMMA StopStepOK ==
    ASSUME SystemInv, NEW t \in Turn, StopStep(t)
    PROVE  SystemInv'
  BY CancelQueuedOK, StopMarkOK, StopPostOK, StopCloseOK, StopSealOK, StopCancelBackendOK
     DEF StopStep

-----------------------------------------------------------------------------
(* The scheduler stage of maintenance.                                     *)

\* The frame of a step of the maintenance pass.
LEMMA MaintMoves ==
    ASSUME SystemInv, UNCHANGED <<exec, host, now, stop, mode, crashes>>,
           turn' \in [Turn -> TurnStatus], maint' \in MaintItem,
           StoreKept, HoldsKept, Moved(Maintainer),
           Posted(Maintainer)' => maint'.pc \in {"mark", "close", "report"},
           MaintOK'
    PROVE  SystemInv'
  <1>1. SystemTypeOK'
    BY DEF SystemInv, SystemTypeOK, ExecTypeOK, StoreKept, StoreInv, Moved, Owners
  <1>2. \A o \in Owners \ {Maintainer} : Posted(o)' <=> Posted(o) BY DEF Moved
  <1>3. \A u \in Turn : /\ Posted(Dispatcher(u))' <=> Posted(Dispatcher(u))
                        /\ Posted(Stopper(u))' <=> Posted(Stopper(u))
    BY <1>2, OwnersDiffer
  <1>4. WriterOK' BY <1>3 DEF SystemInv, WriterOK, Moved
  <1>5. HostsKept BY DEF HostsKept
  <1> QED BY <1>1, <1>3, <1>4, <1>5, OwnerStep

\* MaintGo moves the pass.
LEMMA MaintGoes ==
    ASSUME SystemInv, NEW pc \in {"check", "mark", "close", "project", "cancel", "inspect", "report"},
           MaintGo(pc)
    PROVE  /\ maint' \in MaintItem /\ maint'.pc = pc /\ maint'.attempt = maint.attempt
           /\ maint'.op = maint.op /\ maint'.cause = maint.cause /\ maint'.seen = maint.seen
  BY QueueTyped DEF MaintGo, MaintItem

\* MaintEnds forgets the row.
LEMMA MaintDone ==
    ASSUME MaintEnds
    PROVE  maint' \in MaintItem /\ maint'.pc = "idle" /\ MaintOK'
  <1>1. maint' \in MaintItem /\ maint'.pc = "idle" BY DEF MaintEnds, NoItem, MaintItem
  <1> QED BY <1>1 DEF MaintOK

\* Steps of the pass that leave the writer alone.
LEMMA MaintStill ==
    ASSUME SystemInv, maint.pc \notin {"mark", "close", "report"}, writer' = writer
    PROVE  Moved(Maintainer) /\ ~Posted(Maintainer)'
  <1>1. ~Posted(Maintainer) BY DEF SystemInv, WriterOK
  <1> QED BY <1>1, QueueTyped, OwnersDiffer, StillMoved

\* The pass lists a live row.
LEMMA MaintListOK ==
    ASSUME SystemInv, NEW a \in Attempt, MaintList(a)
    PROVE  SystemInv'
  <1>1. StoreKept /\ HoldsKept BY QueueTyped, UnchangedCalm, CalmHolds DEF MaintList
  <1>2. Moved(Maintainer) /\ ~Posted(Maintainer)' BY MaintStill DEF MaintList, NoItem, execVars
  <1>3. attempt[a].op \in Op \cup {Null} BY QueueTyped DEF StoreInv, StoreTypeOK, AttemptRow
  <1>4. PICK open \in BOOLEAN, expired \in BOOLEAN :
          maint' = [NoItem EXCEPT !.pc = "check", !.attempt = a, !.open = open,
                                  !.op = attempt[a].op, !.expired = expired]
    BY DEF MaintList
  <1>5. maint' \in MaintItem /\ maint'.pc = "check" /\ maint'.attempt = a
    BY <1>3, <1>4 DEF NoItem, MaintItem
  <1>6. attempt'[a].phase # "absent" BY DEF MaintList, Live, storeVars
  <1>7. MaintOK' BY <1>5, <1>6 DEF MaintOK
  <1> QED BY <1>1, <1>2, <1>5, <1>7, QueueTyped, MaintMoves DEF MaintList, execVars

\* The check decides on the listed row, and gives a cause.
LEMMA MaintCheckOK ==
    ASSUME SystemInv, MaintCheck
    PROVE  SystemInv'
  <1>0. maint.attempt \in Attempt /\ attempt[maint.attempt].phase # "absent"
    BY DEF MaintCheck, SystemInv, MaintOK
  <1>1. StoreKept /\ HoldsKept BY QueueTyped, UnchangedCalm, CalmHolds DEF MaintCheck
  <1>2. attempt' = attempt BY DEF MaintCheck, storeVars
  <1>3. CASE /\ \E cause \in {"authority-revoked", "execution-deadline"} :
                   maint' = [maint EXCEPT !.pc = "mark", !.cause = cause]
             /\ Posts(Maintainer)
    <2>1. PICK cause \in {"authority-revoked", "execution-deadline"} :
             maint' = [maint EXCEPT !.pc = "mark", !.cause = cause]
      BY <1>3
    <2>2. cause \in Cause /\ cause # Null
      BY SystemAssumption, ConstantAssumption DEF SystemCauses
    <2>3. /\ maint' \in MaintItem /\ maint'.pc = "mark" /\ maint'.cause = cause
          /\ maint'.attempt = maint.attempt
      BY <2>1, <2>2, QueueTyped DEF MaintItem
    <2>4. MaintOK' BY <1>0, <1>2, <2>2, <2>3 DEF MaintOK
    <2>5. ~Posted(Maintainer) BY DEF SystemInv, WriterOK, MaintCheck
    <2>6. Moved(Maintainer) BY <1>3, <2>5, QueueTyped, OwnersDiffer, PostsMoved
    <2> QED BY <1>1, <2>3, <2>4, <2>6, QueueTyped, MaintMoves DEF MaintCheck
  <1>4. CASE MaintEnds /\ UNCHANGED writer
    <2>1. Moved(Maintainer) /\ ~Posted(Maintainer)' BY <1>4, MaintStill DEF MaintCheck
    <2> QED BY <1>1, <1>4, <2>1, QueueTyped, MaintDone, MaintMoves DEF MaintCheck
  <1>5. CASE maint.op # Null /\ MaintGo("inspect") /\ UNCHANGED writer
    <2>1. Moved(Maintainer) /\ ~Posted(Maintainer)' BY <1>5, MaintStill DEF MaintCheck
    <2>2. /\ maint' \in MaintItem /\ maint'.pc = "inspect" /\ maint'.attempt = maint.attempt
          /\ maint'.op = maint.op
      BY <1>5, MaintGoes
    <2>3. MaintOK' BY <1>0, <1>2, <1>5, <2>2 DEF MaintOK
    <2> QED BY <1>1, <2>1, <2>2, <2>3, QueueTyped, MaintMoves DEF MaintCheck
  <1> QED BY <1>3, <1>4, <1>5 DEF MaintCheck

\* The row the mark returns decides: closing only without an operation.
LEMMA MaintMarkOK ==
    ASSUME SystemInv, MaintMark
    PROVE  SystemInv'
  <1>0. PICK a \in Attempt, cause \in Cause :
          /\ a = maint.attempt /\ attempt[a].phase # "absent" /\ cause = maint.cause
    BY QueueTyped DEF MaintMark, SystemInv, MaintOK, MaintItem
  <1>1. StoreCalm /\ Ended(a)' BY <1>0, QueueTyped, RevokeCalm DEF MaintMark
  <1>2. StoreKept /\ HoldsKept BY <1>1, CalmHolds
  <1>3. Moved(Maintainer) /\ ~Posted(Maintainer)'
    BY QueueTyped, OwnersDiffer, CommitsMoved DEF MaintMark
  <1>4. PICK pc \in {"close", "cancel"} :
          MaintGo(pc) /\ (pc = "close" <=> attempt[a].op = Null)
    BY <1>0 DEF MaintMark
  <1>5. maint' \in MaintItem /\ maint'.pc = pc /\ maint'.attempt = maint.attempt
    BY <1>4, MaintGoes
  <1>6. attempt'[a].op = attempt[a].op /\ attempt'[a].phase # "absent"
    BY <1>0, <1>2 DEF StoreKept, RowKept
  <1>7. MaintOK' BY <1>0, <1>1, <1>4, <1>5, <1>6 DEF MaintOK, Ended
  <1> QED BY <1>2, <1>3, <1>5, <1>7, QueueTyped, MaintMoves DEF MaintMark

\* The closure of the pass joins the queue.
LEMMA MaintPostOK ==
    ASSUME SystemInv, MaintPost
    PROVE  SystemInv'
  <1>1. StoreKept /\ HoldsKept BY QueueTyped, UnchangedCalm, CalmHolds DEF MaintPost
  <1>2. Moved(Maintainer) BY QueueTyped, OwnersDiffer, PostsMoved DEF MaintPost
  <1>3. maint' = maint /\ attempt' = attempt BY DEF MaintPost, systemVars, storeVars
  <1>4. MaintOK' BY <1>3 DEF SystemInv, MaintOK, Ended, Live
  <1> QED BY <1>1, <1>2, <1>3, <1>4, QueueTyped, MaintMoves DEF MaintPost, systemVars

\* The attempt is closing, so its operation is still the one the mark saw: none.
LEMMA MaintCloseOK ==
    ASSUME SystemInv, MaintClose
    PROVE  SystemInv'
  <1>0. PICK a \in Attempt :
          /\ a = maint.attempt /\ Ended(a) /\ attempt[a].phase # "absent"
          /\ Live(a) => attempt[a].op = Null
    BY DEF MaintClose, SystemInv, MaintOK
  <1>1. StoreKept /\ HoldsKept
    <2>1. CASE Live(a)
      <3>1. attempt[a].cause \in Cause
        BY <1>0, <2>1, QueueTyped
           DEF Live, Ended, ClosingHasCause, StoreInv, StoreTypeOK, AttemptRow
      <3> DEFINE cause == attempt[a].cause
      <3>2. cause \in Cause /\ RefuseAttempt(a, cause, FALSE) BY <1>0, <3>1 DEF MaintClose
      <3> HIDE DEF cause
      <3> QED BY <1>0, <2>1, <3>2, RefuseHolds
    <2>2. CASE ~Live(a)
      BY <1>0, <2>2, QueueTyped, UnchangedCalm, CalmHolds DEF MaintClose, RefuseAttempt
    <2> QED BY <2>1, <2>2
  <1>2. Moved(Maintainer) /\ ~Posted(Maintainer)'
    BY QueueTyped, OwnersDiffer, CommitsMoved DEF MaintClose
  <1>3. maint' \in MaintItem /\ maint'.pc = "project" /\ maint'.attempt = maint.attempt
    BY MaintGoes DEF MaintClose
  <1>4. MaintOK' BY <1>0, <1>1, <1>3 DEF MaintOK, StoreKept, RowKept
  <1> QED BY <1>1, <1>2, <1>3, <1>4, QueueTyped, MaintMoves DEF MaintClose

\* The pass decides the Turn.
LEMMA MaintProjectOK ==
    ASSUME SystemInv, MaintProject
    PROVE  SystemInv'
  <1>1. StoreKept /\ HoldsKept BY QueueTyped, UnchangedCalm, CalmHolds DEF MaintProject
  <1>2. Moved(Maintainer) /\ ~Posted(Maintainer)' BY MaintStill DEF MaintProject
  <1>3. turn' \in [Turn -> TurnStatus]
    BY QueueTyped, TerminalizeTyped DEF MaintProject, TurnStatus
  <1> QED BY <1>1, <1>2, <1>3, QueueTyped, MaintDone, MaintMoves DEF MaintProject

\* The answer of a cancelled backend is recorded.
LEMMA MaintCancelOK ==
    ASSUME SystemInv, MaintCancel
    PROVE  SystemInv'
  <1>0. PICK a \in Attempt :
          a = maint.attempt /\ attempt[a].phase # "absent" /\ attempt[a].op # Null
    BY DEF MaintCancel, SystemInv, MaintOK
  <1>1. StoreCalm
    <2>1. CASE \E answer \in CancelAnswers(a) : Observe(answer) BY <1>0, <2>1, CancelAnswerCalm
    <2>2. CASE UNCHANGED storeVars BY <2>2, QueueTyped, UnchangedCalm
    <2> QED BY <1>0, <2>1, <2>2 DEF MaintCancel
  <1>2. StoreKept /\ HoldsKept BY <1>1, CalmHolds
  <1>3. Moved(Maintainer) /\ ~Posted(Maintainer)' BY MaintStill DEF MaintCancel, execVars
  <1>4. CASE MaintEnds
    BY <1>2, <1>3, <1>4, QueueTyped, MaintDone, MaintMoves DEF MaintCancel, execVars
  <1>5. CASE maint.op # Null /\ MaintGo("inspect")
    <2>1. /\ maint' \in MaintItem /\ maint'.pc = "inspect" /\ maint'.attempt = maint.attempt
          /\ maint'.op = maint.op
      BY <1>5, MaintGoes
    <2>2. MaintOK' BY <1>0, <1>2, <1>5, <2>1 DEF MaintOK, StoreKept, RowKept
    <2> QED BY <1>2, <1>3, <2>1, <2>2, QueueTyped, MaintMoves DEF MaintCancel, execVars
  <1> QED BY <1>4, <1>5 DEF MaintCancel

\* Evidence is of the operation that was listed.
LEMMA MaintInspectOK ==
    ASSUME SystemInv, MaintInspect
    PROVE  SystemInv'
  <1>0. PICK a \in Attempt :
          a = maint.attempt /\ attempt[a].phase # "absent" /\ maint.op # Null
    BY DEF MaintInspect, SystemInv, MaintOK
  <1>1. StoreKept /\ HoldsKept BY QueueTyped, UnchangedCalm, CalmHolds DEF MaintInspect
  <1>2. attempt' = attempt BY DEF MaintInspect, storeVars
  <1>3. CASE /\ \E seen \in Inspected(a) : maint' = [maint EXCEPT !.pc = "report", !.seen = seen]
             /\ Posts(Maintainer)
    <2>1. PICK seen \in Inspected(a) : maint' = [maint EXCEPT !.pc = "report", !.seen = seen]
      BY <1>3
    <2>2. seen \in Disposition
      <3>1. attempt[a].disposition \in Disposition
        BY QueueTyped DEF StoreInv, StoreTypeOK, AttemptRow
      <3> QED BY <3>1 DEF Inspected, Disposition
    <2>3. /\ maint' \in MaintItem /\ maint'.pc = "report" /\ maint'.seen = seen
          /\ maint'.attempt = maint.attempt /\ maint'.op = maint.op
      BY <2>1, <2>2, QueueTyped DEF MaintItem
    <2>4. MaintOK' BY <1>0, <1>2, <2>2, <2>3 DEF MaintOK
    <2>5. ~Posted(Maintainer) BY DEF SystemInv, WriterOK, MaintInspect
    <2>6. Moved(Maintainer) BY <1>3, <2>5, QueueTyped, OwnersDiffer, PostsMoved
    <2> QED BY <1>1, <2>3, <2>4, <2>6, QueueTyped, MaintMoves DEF MaintInspect
  <1>4. CASE MaintEnds /\ UNCHANGED writer
    <2>1. Moved(Maintainer) /\ ~Posted(Maintainer)' BY <1>4, MaintStill DEF MaintInspect
    <2> QED BY <1>1, <1>4, <2>1, QueueTyped, MaintDone, MaintMoves DEF MaintInspect
  <1> QED BY <1>0, <1>3, <1>4 DEF MaintInspect

\* The evidence is recorded, if it still counts.
LEMMA MaintReportOK ==
    ASSUME SystemInv, MaintReport
    PROVE  SystemInv'
  <1>0. PICK a \in Attempt, op \in Op, seen \in Disposition :
          a = maint.attempt /\ op = maint.op /\ seen = maint.seen
    BY QueueTyped DEF MaintReport, SystemInv, MaintOK, MaintItem
  <1>1. StoreCalm BY <1>0, QueueTyped, ObserveCalm DEF MaintReport
  <1>2. StoreKept /\ HoldsKept BY <1>1, CalmHolds
  <1>3. Moved(Maintainer) /\ ~Posted(Maintainer)'
    BY QueueTyped, OwnersDiffer, CommitsMoved DEF MaintReport
  <1> QED BY <1>2, <1>3, QueueTyped, MaintDone, MaintMoves DEF MaintReport

\* Every step of the pass keeps the invariant.
LEMMA MaintStepOK ==
    ASSUME SystemInv, MaintStep
    PROVE  SystemInv'
  BY MaintCheckOK, MaintMarkOK, MaintPostOK, MaintCloseOK, MaintProjectOK, MaintCancelOK,
     MaintInspectOK, MaintReportOK DEF MaintStep

-----------------------------------------------------------------------------
(* The native stage, the host, time, requests, crash and restart.          *)

\* The frame of a step that no owner takes on the main thread.
LEMMA OtherMoves ==
    ASSUME SystemInv, UNCHANGED <<exec, writer, stop, maint, crashes>>,
           turn' \in [Turn -> TurnStatus], now' \in Nat, host' \in [Attempt -> HostState],
           mode' \in {"up", "boot"},
           StoreKept, HoldsKept, HostsKept,
           \A b \in Attempt : host'[b] = host[b] \/ HostOK(b)'
    PROVE  SystemInv'
  <1>1. SystemTypeOK'
    BY DEF SystemInv, SystemTypeOK, ExecTypeOK, StoreKept, StoreInv
  <1>2. \A u \in Turn : Posted(Dispatcher(u))' <=> Posted(Dispatcher(u)) BY DEF Posted
  <1>3. WriterOK' BY DEF SystemInv, WriterOK, WriterUnique, Posted
  <1> QED BY <1>1, <1>2, <1>3, OwnerStep

\* The modes are typed.
LEMMA ModeTyped == ASSUME SystemInv PROVE mode \in {"up", "boot"}
  BY DEF SystemInv, SystemTypeOK

\* A step that changes the store calmly and nothing else.
LEMMA StoreMoves ==
    ASSUME SystemInv, StoreCalm, UNCHANGED <<execVars, systemVars>>
    PROVE  SystemInv'
  <1>1. StoreKept /\ HoldsKept BY CalmHolds
  <1>2. HostsKept BY DEF HostsKept, execVars
  <1> QED BY <1>1, <1>2, QueueTyped, ModeTyped, OtherMoves DEF execVars, systemVars

\* A step that decides a Turn and perhaps cleans up an ended attempt.
LEMMA ProductMoves ==
    ASSUME SystemInv, UNCHANGED <<storeVars, exec, writer, now, systemVars>>,
           turn' \in [Turn -> TurnStatus],
           UNCHANGED host \/ \E a \in Attempt : Ended(a) /\ Fence(a)
    PROVE  SystemInv'
  <1>1. StoreCalm BY QueueTyped, UnchangedCalm
  <1>2. StoreKept /\ HoldsKept BY <1>1, CalmHolds
  <1>3. /\ host' \in [Attempt -> HostState] /\ HostsKept
        /\ \A b \in Attempt : host'[b] = host[b] \/ HostOK(b)'
    <2>1. CASE UNCHANGED host BY <2>1, QueueTyped DEF HostsKept
    <2>2. CASE \E a \in Attempt : Ended(a) /\ Fence(a) BY <1>1, <2>2, FenceKept
    <2> QED BY <2>1, <2>2
  <1> QED BY <1>2, <1>3, QueueTyped, ModeTyped, OtherMoves DEF systemVars

\* Requests write admissions and authority, or begin a Stop.
LEMMA RequestOK ==
    ASSUME SystemInv, NEW t \in Turn, Request(t)
    PROVE  SystemInv'
  <1>1. CASE AdmissionCommand(t) /\ UNCHANGED <<execVars, systemVars>>
    <2>1. StoreCalm BY <1>1, QueueTyped, AdmissionCalm
    <2> QED BY <1>1, <2>1, StoreMoves
  <1>2. CASE ReadStop(t) BY <1>2, ReadStopOK
  <1> QED BY <1>1, <1>2 DEF Request, AdmissionCommand

\* A Turn is published.
LEMMA PublishOK ==
    ASSUME SystemInv, NEW t \in Turn, PublishTurn(t), UNCHANGED systemVars
    PROVE  SystemInv'
  <1>1. turn' \in [Turn -> TurnStatus] BY QueueTyped DEF PublishTurn, TurnStatus
  <1> QED BY <1>1, ProductMoves DEF PublishTurn

\* A closure that a crash left unpublished is published.
LEMMA PublishFailureOK ==
    ASSUME SystemInv, NEW a \in Attempt, PublishFailure(a)
    PROVE  SystemInv'
  <1>1. turn' \in [Turn -> TurnStatus]
    BY QueueTyped, TerminalizeTyped DEF PublishFailure, TurnStatus
  <1> QED BY <1>1, ProductMoves DEF PublishFailure

\* A late heartbeat stops the attempt.
LEMMA NativeExpireOK ==
    ASSUME SystemInv, NEW a \in Attempt, NativeExpire(a)
    PROVE  SystemInv'
  <1>1. StoreCalm BY QueueTyped, MarkCalm, SystemAssumption DEF NativeExpire, SystemCauses
  <1> QED BY <1>1, StoreMoves DEF NativeExpire

\* The Worker's final status closes its attempt in the same step.
LEMMA AcceptFinalStatusOK ==
    ASSUME SystemInv, NEW a \in Attempt, AcceptFinalStatus(a), UNCHANGED systemVars
    PROVE  SystemInv'
  <1>1. StoreCalm /\ attempt'[a].phase = "closing"
    <2>1. CASE attempt[a].phase = "open" /\ MarkClosing(a, "worker-final-status", Null)
      <3>1. StoreCalm /\ Ended(a)' /\ Live(a) BY <2>1, QueueTyped, MarkCalm, SystemAssumption
        DEF SystemCauses, Live
      <3> QED BY <3>1 DEF StoreCalm, LiveKept, Live, Ended
    <2>2. CASE PendingCancellationFinal(a) /\ UNCHANGED storeVars
      BY <2>2, QueueTyped, UnchangedCalm DEF PendingCancellationFinal, storeVars
    <2> QED BY <2>1, <2>2 DEF AcceptFinalStatus
  <1>2. StoreKept /\ HoldsKept BY <1>1, CalmHolds
  <1>3. /\ host[a] = "started" /\ host' \in [Attempt -> HostState] /\ host'[a] = "final"
        /\ \A b \in Attempt \ {a} : host'[b] = host[b]
    BY QueueTyped DEF AcceptFinalStatus, HostState
  <1>4. HostsKept BY <1>3 DEF HostsKept
  <1>5. HostOK(a)'
    <2>1. attempt[a].turn \in Turn /\ AdmittedKept(attempt[a].turn)
      BY <1>1, <1>3 DEF SystemInv, HostOK, StoreInv, AdmissionHoldsAttempt, StoreCalm
    <2> QED BY <1>1, <1>2, <1>3, <2>1
       DEF SystemInv, HostOK, Ended, Live, AdmittedKept, StoreKept, RowKept
  <1> QED
    BY <1>2, <1>3, <1>4, <1>5, QueueTyped, ModeTyped, OtherMoves DEF AcceptFinalStatus, systemVars

\* The native stage: cleanup of stopped attempts, and releases.
LEMMA NativeStepOK ==
    ASSUME SystemInv, NEW a \in Attempt, NativeStep(a)
    PROVE  SystemInv'
  <1>1. CASE NativeCleanup(a)
    BY <1>1, QueueTyped, ProductMoves DEF NativeCleanup, Ended
  <1>2. CASE NativeProject(a)
    <2>1. turn' \in [Turn -> TurnStatus]
      BY <1>2, QueueTyped, TerminalizeTyped DEF NativeProject, TurnStatus
    <2> QED BY <1>2, <2>1, ProductMoves DEF NativeProject
  <1>3. CASE NativeRelease(a)
    <2>1. /\ StoreKept
          /\ \A b \in Attempt : LiveKept(b) \/ Cleaned(b)
          /\ \A u \in Turn : AdmittedKept(u)
      BY <1>3, QueueTyped, ReleaseKept DEF NativeRelease
    <2>2. \A b \in Attempt : host[b] # "none" => attempt[b].turn \in Turn
      BY DEF SystemInv, HostOK, StoreInv, AdmissionHoldsAttempt
    <2>3. HoldsKept BY <2>1, <2>2 DEF HoldsKept
    <2>4. HostsKept BY <1>3 DEF HostsKept, NativeRelease, execVars
    <2> QED
      BY <1>3, <2>1, <2>3, <2>4, QueueTyped, ModeTyped, OtherMoves
         DEF NativeRelease, execVars, systemVars
  <1>4. CASE NativeCloseout(a)
    BY <1>4, QueueTyped, ProductMoves DEF NativeCloseout, Ended
  <1>5. CASE NativePublish(a)
    <2>1. turn' \in [Turn -> TurnStatus]
      BY <1>5, QueueTyped, TerminalizeTyped DEF NativePublish, FinalOutcomes, TurnStatus
    <2> QED BY <1>5, <2>1, ProductMoves DEF NativePublish
  <1>6. CASE RetireOrphan(a)
    BY <1>6, QueueTyped, ProductMoves DEF RetireOrphan, Ended
  <1> QED BY <1>1, <1>2, <1>3, <1>4, <1>5, <1>6 DEF NativeStep

\* Time passes.
LEMMA TickOK ==
    ASSUME SystemInv, Tick, UNCHANGED systemVars
    PROVE  SystemInv'
  <1>1. StoreKept /\ HoldsKept BY QueueTyped, UnchangedCalm, CalmHolds DEF Tick
  <1>2. HostsKept BY DEF HostsKept, Tick
  <1> QED BY <1>1, <1>2, QueueTyped, ModeTyped, OtherMoves DEF Tick, systemVars

\* A crash forgets every owner; what they knew is gone with them.
LEMMA CrashOK ==
    ASSUME SystemInv, Crash
    PROVE  SystemInv'
  <1>1. StoreKept /\ HoldsKept BY QueueTyped, UnchangedCalm, CalmHolds DEF Crash
  <1>2. HostsKept BY DEF HostsKept, Crash
  <1>3. \A u \in Turn : DispatchOK(u)' BY DEF Crash, DispatchOK, Idle, Uncontacted
  <1>4. \A u \in Turn : StopOK(u)' BY DEF Crash, StopOK, NoStop
  <1>5. MaintOK' BY DEF Crash, MaintOK, NoItem
  <1>6. writer' = <<>> /\ Len(writer') = 0 /\ writer' \in Seq(Owners) BY DEF Crash
  <1>7. WriterOK' BY <1>6 DEF WriterOK, WriterUnique, Posted
  <1>8. SystemTypeOK'
    <2>1. exec' \in [Turn -> Dispatch] BY DEF Crash, Idle, Dispatch, Awaiting
    <2>2. stop' \in [Turn -> StopRequest] BY DEF Crash, NoStop, StopRequest
    <2>3. maint' \in MaintItem BY DEF Crash, NoItem, MaintItem
    <2>4. crashes' \in 0..MaxCrash BY SystemAssumption DEF Crash, SystemInv, SystemTypeOK
    <2> QED BY <1>1, <1>6, <2>1, <2>2, <2>3, <2>4, QueueTyped
      DEF Crash, SystemTypeOK, ExecTypeOK, StoreKept, StoreInv, Owners
  <1> QED BY <1>1, <1>2, <1>3, <1>4, <1>5, <1>7, <1>8, OwnerStep DEF Crash

\* Restart closes what recorded nothing.
LEMMA RestartCloseOK ==
    ASSUME SystemInv, NEW a \in Attempt, RestartClose(a)
    PROVE  SystemInv'
  <1>0. attempt[a].phase # "absent" BY DEF RestartClose, Live
  <1>1. StoreKept /\ HoldsKept
    BY <1>0, RefuseHolds, SystemAssumption DEF RestartClose, RefuseAttempt, SystemCauses
  <1>2. Moved(Maintainer) /\ ~Posted(Maintainer)'
    BY MaintStill DEF RestartClose, NoItem, execVars
  <1>3. maint' \in MaintItem /\ maint'.pc = "project" /\ maint'.attempt = a
    BY DEF RestartClose, NoItem, MaintItem
  <1>4. MaintOK' BY <1>0, <1>1, <1>3 DEF MaintOK, StoreKept, RowKept
  <1> QED BY <1>1, <1>2, <1>3, <1>4, QueueTyped, MaintMoves DEF RestartClose, execVars

\* Every step of restart keeps the invariant.
LEMMA BootStepOK ==
    ASSUME SystemInv, BootStep
    PROVE  SystemInv'
  <1>1. CASE \E a \in Attempt : RestartClose(a) BY <1>1, RestartCloseOK
  <1>2. CASE \E a \in Attempt : RestartClassify(a)
    <2>1. PICK a \in Attempt : RestartClassify(a) BY <1>2
    <2>2. StoreCalm
      BY <2>1, QueueTyped, MarkCalm, SystemAssumption DEF RestartClassify, SystemCauses
    <2> QED BY <2>1, <2>2, StoreMoves DEF RestartClassify
  <1>3. CASE MaintProject BY <1>3, MaintProjectOK
  <1>4. CASE Listen
    <2>1. StoreKept /\ HoldsKept BY <1>4, QueueTyped, UnchangedCalm, CalmHolds DEF Listen
    <2>2. HostsKept BY <1>4 DEF HostsKept, Listen, execVars
    <2> QED BY <1>4, <2>1, <2>2, QueueTyped, OtherMoves DEF Listen, execVars
  <1> QED BY <1>1, <1>2, <1>3, <1>4 DEF BootStep

\* Every step of the scheduler keeps the invariant.
LEMMA SystemStep ==
    ASSUME SystemInv, [Next]_vars
    PROVE  SystemInv'
  <1>1. CASE \E t \in Turn : Request(t) BY <1>1, RequestOK
  <1>2. CASE \E t \in Turn : Publish(t) BY <1>2, PublishOK DEF Publish
  <1>3. CASE \E t \in Turn : Dispatches(t) BY <1>3, ClaimOK DEF Dispatches
  <1>4. CASE \E t \in Turn : Executes(t) BY <1>4, DispatchStepOK DEF Executes
  <1>5. CASE \E t \in Turn : Stops(t) BY <1>5, StopStepOK DEF Stops
  <1>6. CASE Maintains BY <1>6, MaintStepOK DEF Maintains
  <1>7. CASE \E a \in Attempt : NativeExpire(a) BY <1>7, NativeExpireOK
  <1>8. CASE \E a \in Attempt : AcceptFinalStatus(a) /\ UNCHANGED systemVars
    BY <1>8, AcceptFinalStatusOK
  <1>9. CASE \E a \in Attempt : Lists(a) BY <1>9, MaintListOK DEF Lists
  <1>10. CASE \E a \in Attempt : Publishes(a) BY <1>10, PublishFailureOK DEF Publishes
  <1>11. CASE \E a \in Attempt : Recovers(a) BY <1>11, NativeStepOK DEF Recovers
  <1>12. CASE TimePasses BY <1>12, TickOK DEF TimePasses
  <1>13. CASE Crash BY <1>13, CrashOK
  <1>14. CASE BootStep BY <1>14, BootStepOK
  <1>15. CASE UNCHANGED vars
    <2>1. StoreCalm BY <1>15, QueueTyped, UnchangedCalm DEF vars
    <2> QED BY <1>15, <2>1, StoreMoves DEF vars
  <1> QED
    BY <1>1, <1>2, <1>3, <1>4, <1>5, <1>6, <1>7, <1>8, <1>9, <1>10, <1>11, <1>12, <1>13,
       <1>14, <1>15
       DEF Next

\* The start satisfies it.
LEMMA SystemStart == Init => SystemInv
  <1> SUFFICES ASSUME Init PROVE SystemInv
    OBVIOUS
  <1>1. StoreInv BY StoreInitInv DEF Init
  <1>2. \A a \in Attempt : attempt[a] = NoRow /\ host[a] = "none"
    BY DEF Init, StoreInit, ExecInit
  <1>3. ClosingHasCause BY <1>2 DEF ClosingHasCause, NoRow
  <1>4. \A t \in Turn : exec[t] = Idle /\ stop[t] = NoStop BY DEF Init, ExecInit
  <1>5. \A t \in Turn : DispatchOK(t) /\ StopOK(t)
    BY <1>4 DEF DispatchOK, StopOK, Idle, NoStop, Uncontacted
  <1>6. MaintOK BY DEF Init, NoItem, MaintOK
  <1>7. OneSession /\ \A a \in Attempt : HostOK(a)
    BY <1>2 DEF OneSession, HostOK, Unfenced
  <1>8. writer = <<>> /\ Len(writer) = 0 /\ writer \in Seq(Owners) BY DEF Init, ExecInit
  <1>9. WriterOK BY <1>8 DEF WriterOK, WriterUnique, Posted
  <1>10. SystemTypeOK
    <2>1. exec \in [Turn -> Dispatch] BY DEF Init, ExecInit, Idle, Dispatch, Awaiting
    <2>2. stop \in [Turn -> StopRequest] BY DEF Init, NoStop, StopRequest
    <2>3. maint \in MaintItem BY DEF Init, NoItem, MaintItem
    <2>4. crashes \in 0..MaxCrash BY SystemAssumption DEF Init
    <2>5. turn \in [Turn -> TurnStatus] /\ host \in [Attempt -> HostState]
      BY DEF Init, ExecInit, TurnStatus, HostState
    <2> QED BY <1>1, <1>8, <2>1, <2>2, <2>3, <2>4, <2>5
      DEF Init, ExecInit, SystemTypeOK, ExecTypeOK, StoreInv, Owners
  <1> QED BY <1>1, <1>3, <1>5, <1>6, <1>7, <1>9, <1>10 DEF SystemInv

\* The inductive invariant holds in every behaviour.
THEOREM SystemInvariance == Spec => []SystemInv
  BY SystemStart, SystemStep, PTL DEF Spec

\* All records and all process-local state are well typed.
THEOREM SystemTypes == Spec => []SystemTypeOK
  BY SystemInvariance, PTL DEF SystemInv

\* At most one attempt of a Turn ever reaches the host.
THEOREM NothingIsReplayed == Spec => []NoReplay
  <1>1. SystemInv => NoReplay BY DEF SystemInv, OneSession, NoReplay, Affected
  <1> QED BY <1>1, SystemInvariance, PTL

\* What the store promises to arbitrary callers holds for the callers it has,
\* whose commands reach it late and out of date.
THEOREM PromisesKept ==
    Spec => [](AdmissionHoldsAttempt /\ LiveAttemptsExclusive /\ ClosedIsSettled
               /\ SubmissionIsTraceable)
  BY SystemInvariance, PTL DEF SystemInv, StoreInv

\* While the host may run a recorded operation its attempt is live, for every
\* Turn that nobody may stop, whoever else closes attempts.
THEOREM EffectsHeldUnlessStopped ==
    Spec => [](\A a \in Attempt :
        attempt[a].turn \notin Stoppable /\ Unfenced(a) /\ attempt[a].op # Null => Live(a))
  <1>1. SystemInv => (\A a \in Attempt :
          attempt[a].turn \notin Stoppable /\ Unfenced(a) /\ attempt[a].op # Null => Live(a))
    BY DEF SystemInv, HostOK
  <1> QED BY <1>1, SystemInvariance, PTL

\* Without Stop, every recorded effect is held by its attempt until fenced.
THEOREM EffectsHeld ==
    ASSUME Stoppable = {}
    PROVE  Spec => []RecordedEffectsHeld
  <1>1. SystemInv => RecordedEffectsHeld BY DEF SystemInv, HostOK, RecordedEffectsHeld
  <1> QED BY <1>1, SystemInvariance, PTL

-----------------------------------------------------------------------------
(* Outcomes.                                                               *)

\* Decided Turns stay as they are.
Sealed == \A t \in Turn : turn[t] \in Terminal => turn'[t] = turn[t]

\* Terminalize respects a decided Turn.
LEMMA TerminalizeSeals ==
    ASSUME turn \in [Turn -> TurnStatus], NEW x, NEW outcome, Terminalize(x, outcome)
    PROVE  Sealed
  BY DEF Terminalize, Sealed

\* A step that leaves the Turns alone seals them.
LEMMA StillSealed == ASSUME turn' = turn PROVE Sealed
  BY DEF Sealed

\* So does every step of a dispatch,
LEMMA DispatchSeals ==
    ASSUME SystemInv, NEW t \in Turn, DispatchStep(t)
    PROVE  Sealed
  <1>0. turn \in [Turn -> TurnStatus] BY QueueTyped
  <1>1. CASE Start(t) BY <1>0, <1>1 DEF Start, Sealed, Terminal
  <1>2. CASE CapacityUnavailable(t) BY <1>0, <1>2 DEF CapacityUnavailable, Sealed
  <1>3. CASE PublishOutcome(t)
    BY <1>0, <1>3, StillSealed, TerminalizeSeals DEF PublishOutcome
  <1>4. CASE FailTurn(t) BY <1>0, <1>4, TerminalizeSeals DEF FailTurn
  <1>5. CASE \/ Deny(t) \/ Create(t) \/ Post(t) \/ Bind(t) \/ Finalize(t)
             \/ \E busy \in BOOLEAN : PreparationFails(t, busy)
             \/ Materialize(t) \/ \E op \in {"prepare", "submit"} : PostOperation(t, op)
             \/ PrepareWhileClosing(t) \/ Operate(t) \/ Deliver(t) \/ NotEnqueued(t)
    BY <1>5, StillSealed DEF Deny, Create, Post, Bind, Finalize, PreparationFails, Materialize,
       PostOperation, PrepareWhileClosing, Operate, Deliver, NotEnqueued
  <1>6. CASE \/ ObserveUnqueued(t) \/ Reply(t) \/ ExecutionFails(t) \/ AwaitFinal(t)
             \/ Closeout(t) \/ Release(t) \/ Fail(t) \/ Refuse(t) \/ Abandon(t) \/ Cleanup(t) \/ Catch(t)
             \/ Requeue(t) \/ RefuseStart(t)
    BY <1>6, StillSealed DEF ObserveUnqueued, Reply, ExecutionFails, AwaitFinal, Closeout,
       Release, Fail, Refuse, Abandon, Cleanup, Catch, Requeue, RefuseStart
  <1> QED BY <1>1, <1>2, <1>3, <1>4, <1>5, <1>6 DEF DispatchStep

\* of a Stop,
LEMMA StopSeals ==
    ASSUME SystemInv, NEW t \in Turn, StopStep(t)
    PROVE  Sealed
  <1>1. CASE StopSeal(t) BY <1>1, QueueTyped, TerminalizeSeals DEF StopSeal
  <1>2. CASE \/ CancelQueued(t) \/ StopMark(t) \/ StopPost(t) \/ StopClose(t)
             \/ StopCancelBackend(t)
    BY <1>2, StillSealed DEF CancelQueued, StopMark, StopPost, StopClose, StopCancelBackend, execVars
  <1> QED BY <1>1, <1>2 DEF StopStep

\* of the maintenance pass,
LEMMA MaintSeals ==
    ASSUME SystemInv, MaintStep
    PROVE  Sealed
  <1>1. CASE MaintProject BY <1>1, QueueTyped, TerminalizeSeals DEF MaintProject
  <1>2. CASE \/ MaintCheck \/ MaintMark \/ MaintPost \/ MaintClose \/ MaintCancel
             \/ MaintInspect \/ MaintReport
    BY <1>2, StillSealed DEF MaintCheck, MaintMark, MaintPost, MaintClose, MaintCancel,
       MaintInspect, MaintReport, execVars
  <1> QED BY <1>1, <1>2 DEF MaintStep

\* and of the native stage.
LEMMA NativeSeals ==
    ASSUME SystemInv, NEW a \in Attempt, NativeStep(a)
    PROVE  Sealed
  <1>1. CASE NativeProject(a) BY <1>1, QueueTyped, TerminalizeSeals DEF NativeProject
  <1>2. CASE NativePublish(a) BY <1>2, QueueTyped, TerminalizeSeals DEF NativePublish
  <1>3. CASE NativeCleanup(a) \/ NativeRelease(a) \/ NativeCloseout(a) \/ RetireOrphan(a)
    BY <1>3, StillSealed DEF NativeCleanup, NativeRelease, NativeCloseout, RetireOrphan, execVars
  <1> QED BY <1>1, <1>2, <1>3 DEF NativeStep

\* No step of any owner decides a decided Turn again.
LEMMA StepSeals ==
    ASSUME SystemInv, [Next]_vars
    PROVE  Sealed
  <1>1. CASE \E t \in Turn : Publish(t)
    BY <1>1, QueueTyped DEF Publish, PublishTurn, Sealed, Terminal
  <1>2. CASE \E t \in Turn : Executes(t) BY <1>2, DispatchSeals DEF Executes
  <1>3. CASE \E t \in Turn : Stops(t) BY <1>3, StopSeals DEF Stops
  <1>4. CASE Maintains BY <1>4, MaintSeals DEF Maintains
  <1>5. CASE \E a \in Attempt : Publishes(a)
    BY <1>5, QueueTyped, TerminalizeSeals DEF Publishes, PublishFailure
  <1>6. CASE \E a \in Attempt : Recovers(a) BY <1>6, NativeSeals DEF Recovers
  <1>7. CASE BootStep
    <2>1. CASE MaintProject BY <2>1, MaintSeals DEF MaintStep
    <2>2. CASE \/ \E a \in Attempt : RestartClose(a) \/ RestartClassify(a)
               \/ Listen
      BY <2>2, StillSealed DEF RestartClose, RestartClassify, Listen, execVars
    <2> QED BY <1>7, <2>1, <2>2 DEF BootStep
  <1>8. CASE \/ \E t \in Turn : Request(t) \/ Dispatches(t)
             \/ \E a \in Attempt : \/ NativeExpire(a) \/ AcceptFinalStatus(a) \/ Lists(a)
             \/ TimePasses \/ Crash \/ UNCHANGED vars
    BY <1>8, StillSealed DEF Request, ReadStop, Dispatches, Claim, NativeExpire,
       AcceptFinalStatus, Lists, MaintList, TimePasses, Tick, Crash, vars, execVars
  <1> QED BY <1>1, <1>2, <1>3, <1>4, <1>5, <1>6, <1>7, <1>8 DEF Next

\* Executor, Stop, maintenance, recovery and restart race for the outcome of a
\* Turn; the first one stays.
THEOREM FirstOutcomeStays == Spec => OutcomesAreFinal
  <1>1. SystemInv /\ [Next]_vars =>
          [\A t \in Turn : turn[t] \in Terminal => turn'[t] = turn[t]]_vars
    BY StepSeals DEF Sealed
  <1> QED BY <1>1, SystemInvariance, PTL DEF Spec, OutcomesAreFinal

-----------------------------------------------------------------------------
(* The refinement of the lane, step by step, as long as nobody stops a Turn. *)

\* The Turn has a live attempt.
Holding(t) == \E b \in Attempt : Live(b) /\ attempt[b].turn = t

\* What the mapped effect of a Turn is read from.
ActsNow(b) == Unfenced(b) /\ attempt[b].op # Null
HasActed(b) == Affected(b) /\ attempt[b].op # Null

\* What a step does to the lane: one of its steps, or nothing.
LaneStep == [Lane!LaneNext]_(Lane!laneVars)

\* What the lane sees of a Turn is unchanged.
SamePlace(u) == Place(u)' = Place(u)
SameEffect(u) == EffectOf(u)' = EffectOf(u)

\* Where a Turn stands follows from its live attempts and its admission.
LEMMA PlaceSame ==
    ASSUME NEW u \in Turn, Holding(u)' <=> Holding(u),
           status'[u] = status[u] \/ {status[u], status'[u]} \subseteq {"queued", "denied"}
    PROVE  SamePlace(u)
  <1>1. (LiveAttemptsOf(u) = {})' <=> LiveAttemptsOf(u) = {}
    BY DEF Holding, LiveAttemptsOf
  <1>2. CASE status'[u] = status[u] BY <1>1, <1>2 DEF SamePlace, Place
  <1>3. CASE status[u] \in {"queued", "denied"} /\ status'[u] \in {"queued", "denied"}
    BY <1>1, <1>3 DEF SamePlace, Place
  <1> QED BY <1>2, <1>3

\* Its effect follows from its recorded attempts and their hosts.
LEMMA EffectSame ==
    ASSUME NEW u \in Turn,
           \A b \in Attempt : attempt[b].turn = u \/ attempt'[b].turn = u =>
               /\ HasActed(b) \/ HasActed(b)' => attempt'[b].turn = attempt[b].turn
               /\ ActsNow(b)' <=> ActsNow(b)
               /\ HasActed(b)' <=> HasActed(b)
    PROVE  SameEffect(u)
  <1>1. \A b \in Attempt : ActsNow(b) => HasActed(b)
    BY DEF ActsNow, HasActed, Unfenced, Affected
  <1>2. (\E b \in Attempt : attempt[b].turn = u /\ ActsNow(b))' <=>
          \E b \in Attempt : attempt[b].turn = u /\ ActsNow(b)
    BY <1>1
  <1>3. (\E b \in Attempt : attempt[b].turn = u /\ HasActed(b))' <=>
          \E b \in Attempt : attempt[b].turn = u /\ HasActed(b)
    OBVIOUS
  <1> QED BY <1>2, <1>3 DEF SameEffect, EffectOf, ActsNow, HasActed

\* If the lane sees no change, it stutters.
LEMMA LaneStutters ==
    ASSUME \A u \in Turn : SamePlace(u) /\ SameEffect(u)
    PROVE  LaneStep
  BY DEF LaneStep, Lane!laneVars, SamePlace, SameEffect

\* If one Turn moves and no effect changes, the lane moves.
LEMMA LaneMoves ==
    ASSUME NEW t \in Turn, NEW from, NEW to, Place(t) = from, Place(t)' = to,
           \A u \in Turn \ {t} : SamePlace(u), \A u \in Turn : SameEffect(u)
    PROVE  Lane!Move(t, from, to)
  BY DEF Lane!Move, SamePlace, SameEffect

\* If one effect changes and no Turn moves, only the effect changes.
LEMMA EffectMoves ==
    ASSUME NEW t \in Turn, NEW to, EffectOf(t)' = to,
           \A u \in Turn \ {t} : SameEffect(u), \A u \in Turn : SamePlace(u)
    PROVE  /\ [u \in Turn |-> EffectOf(u)]' = [[u \in Turn |-> EffectOf(u)] EXCEPT ![t] = to]
           /\ [u \in Turn |-> Place(u)]' = [u \in Turn |-> Place(u)]
  BY DEF SamePlace, SameEffect

\* Rows keep their Turn and operation, stay as live as they were, and no host
\* changes its side: the lane does not see the step.
LEMMA QuietStep ==
    ASSUME SystemInv, StoreCalm, status' = status,
           \A b \in Attempt : /\ Unfenced(b)' <=> Unfenced(b)
                              /\ Affected(b)' <=> Affected(b)
    PROVE  LaneStep
  <1>1. \A b \in Attempt : attempt'[b].turn = attempt[b].turn /\ attempt'[b].op = attempt[b].op
    BY DEF StoreCalm, StoreKept, RowKept
  <1>2. ASSUME NEW b \in Attempt, attempt[b].turn \in Turn PROVE Live(b)' <=> Live(b)
    <2>1. attempt[b].phase # "absent"
      BY <1>2, ConstantAssumption DEF SystemInv, StoreInv, FreshRowsEmpty, NoRow
    <2>2. attempt[b].phase \in Phase BY DEF SystemInv, StoreInv, StoreTypeOK, AttemptRow
    <2> QED BY <2>1, <2>2 DEF StoreCalm, StoreKept, RowKept, LiveKept, Live, Phase
  <1>3. \A u \in Turn : Holding(u)' <=> Holding(u) BY <1>1, <1>2 DEF Holding
  <1>4. \A u \in Turn : SamePlace(u) BY <1>3, PlaceSame
  <1>5. \A b \in Attempt : (ActsNow(b)' <=> ActsNow(b)) /\ (HasActed(b)' <=> HasActed(b))
    BY <1>1 DEF ActsNow, HasActed
  <1>6. \A u \in Turn : SameEffect(u) BY <1>1, <1>5, EffectSame
  <1> QED BY <1>4, <1>6, LaneStutters

\* An admission enters or withdraws; denial and retry keep it waiting.
LEMMA AdmissionStep ==
    ASSUME SystemInv, NEW t \in Turn, AdmissionCommand(t), host' = host
    PROVE  LaneStep
  <1>1. attempt' = attempt /\ status \in [Turn -> Status]
    BY AdmissionKeepsAdmitted DEF SystemInv, StoreInv, StoreTypeOK
  <1>2. \A u \in Turn : Holding(u)' <=> Holding(u) BY <1>1 DEF Holding, Live
  <1>3. \A u \in Turn : SameEffect(u)
    <2>1. \A b \in Attempt : (ActsNow(b)' <=> ActsNow(b)) /\ (HasActed(b)' <=> HasActed(b))
      BY <1>1 DEF ActsNow, HasActed, Unfenced, Affected
    <2> QED BY <1>1, <2>1, EffectSame
  <1>4. status[t] # "admitted" => LiveAttemptsOf(t) = {} /\ (LiveAttemptsOf(t) = {})'
    BY <1>1 DEF LiveAttemptsOf, Live, SystemInv, StoreInv, AdmissionHoldsAttempt
  <1>5. CASE CreateEntry(t) \/ CreateRecurringEntry(t)
    <2>1. status[t] = "absent" /\ status'[t] = "queued"
          /\ \A u \in Turn \ {t} : status'[u] = status[u]
      BY <1>1, <1>5 DEF CreateEntry, CreateRecurringEntry, InsertEntry
    <2>2. Place(t) = "outside" /\ Place(t)' = "waiting" BY <1>4, <2>1 DEF Place
    <2>3. \A u \in Turn \ {t} : SamePlace(u) BY <1>2, <2>1, PlaceSame
    <2> QED BY <1>3, <2>2, <2>3, LaneMoves DEF LaneStep, Lane!LaneNext, Lane!Enter
  <1>6. CASE CancelEntry(t)
    <2>1. status[t] \in {"queued", "denied"} /\ status'[t] = "cancelled"
          /\ \A u \in Turn \ {t} : status'[u] = status[u]
      BY <1>1, <1>6 DEF CancelEntry, CanCancelEntry
    <2>2. Place(t) = "waiting" /\ Place(t)' = "left" BY <1>4, <2>1 DEF Place
    <2>3. \A u \in Turn \ {t} : SamePlace(u) BY <1>2, <2>1, PlaceSame
    <2> QED BY <1>3, <2>2, <2>3, LaneMoves DEF LaneStep, Lane!LaneNext, Lane!Withdraw
  <1>7. CASE DenyEntry(t) \/ RetryDeniedEntry(t) \/ ChangeAuthority(t)
    <2>1. \A u \in Turn : status'[u] = status[u] \/ {status[u], status'[u]} \subseteq {"queued", "denied"}
      BY <1>1, <1>7 DEF DenyEntry, RetryDeniedEntry, ChangeAuthority
    <2> QED BY <1>2, <1>3, <2>1, PlaceSame, LaneStutters
  <1> QED BY <1>5, <1>6, <1>7 DEF AdmissionCommand

\* An attempt is created for a waiting Turn of a free lane, which has never had
\* a session: its Turn takes the lane.
LEMMA CreateStep ==
    ASSUME SystemInv, NEW a \in Attempt, NEW t \in Turn, CreateAttempt(a, t), host' = host
    PROVE  LaneStep
  <1>1. /\ attempt[a].phase = "absent" /\ status[t] = "queued"
        /\ attempt'[a].phase = "open" /\ attempt'[a].turn = t /\ attempt'[a].op = Null
        /\ \A b \in Attempt \ {a} : attempt'[b] = attempt[b]
    BY QueueTyped, CreateFacts
  <1>2. attempt[a].turn = Null /\ attempt[a].op = Null /\ host[a] = "none"
    BY <1>1 DEF SystemInv, StoreInv, FreshRowsEmpty, NoRow, HostOK
  <1>3. \A u \in Turn \ {t} : status'[u] = status[u]
    BY DEF CreateAttempt, SystemInv, StoreInv, StoreTypeOK
  <1>4. LaneFree(t) BY DEF CreateAttempt, CanCreateAttempt
  <1>5. \A u \in Turn \ {t} : SamePlace(u)
    <2>1. \A b \in Attempt \ {a} : Live(b)' <=> Live(b) BY <1>1 DEF Live
    <2>2. \A u \in Turn \ {t} : Holding(u)' <=> Holding(u)
      BY <1>1, <1>2, <2>1, ConstantAssumption DEF Holding
    <2> QED BY <1>3, <2>2, PlaceSame
  <1>6. \A u \in Turn : SameEffect(u)
    <2>1. \A b \in Attempt : /\ ActsNow(b)' <=> ActsNow(b)
                             /\ HasActed(b)' <=> HasActed(b)
                             /\ HasActed(b) => attempt'[b].turn = attempt[b].turn
      BY <1>1, <1>2 DEF ActsNow, HasActed, Unfenced, Affected
    <2> QED BY <2>1, EffectSame
  <1>7. \A u \in Turn : threadOf[u] = threadOf[t] => Place(u) # "holding"
    BY <1>4 DEF LaneFree, Place, LiveAttemptsOf
  <1>8. Place(t) = "waiting" BY <1>1, <1>7 DEF Place
  <1>9. Place(t)' = "holding"
    <2>1. a \in LiveAttemptsOf(t)' BY <1>1 DEF LiveAttemptsOf, Live
    <2> QED BY <2>1 DEF Place
  <1>10. EffectOf(t) = "none"
    <2>1. \A b \in Attempt : attempt[b].turn = t => host[b] = "none"
      BY <1>1 DEF SystemInv, HostOK
    <2> QED BY <2>1 DEF EffectOf, Unfenced, Affected
  <1>11. Lane!Move(t, "waiting", "holding") BY <1>5, <1>6, <1>8, <1>9, LaneMoves
  <1>12. Lane!Take(t) BY <1>7, <1>10, <1>11 DEF Lane!Take
  <1> QED BY <1>12 DEF LaneStep, Lane!LaneNext

\* An operation is recorded before its effect: the lane sees nothing yet, for an
\* open attempt without an operation has reached no host.
LEMMA RecordStep ==
    ASSUME SystemInv, NEW a \in Attempt, NEW op \in Op, NEW submission \in BOOLEAN,
           NEW time \in Nat, RecordOperation(a, op, submission, time), host' = host
    PROVE  LaneStep
  <1>1. /\ attempt[a].phase = "open" /\ attempt'[a].phase = "open"
        /\ attempt'[a].turn = attempt[a].turn /\ attempt'[a].op = op
        /\ \A b \in Attempt \ {a} : attempt'[b] = attempt[b]
        /\ status' = status
    BY QueueTyped, RecordFacts
  <1>2. attempt[a].op = Null => ~Affected(a) /\ ~Unfenced(a)
    BY <1>1 DEF SystemInv, HostOK, Ended, Affected, Unfenced
  <1>3. op # Null BY ConstantAssumption
  <1>4. \A b \in Attempt : Live(b)' <=> Live(b) BY <1>1 DEF Live
  <1>5. \A u \in Turn : SamePlace(u)
    <2>1. \A u \in Turn : Holding(u)' <=> Holding(u) BY <1>1, <1>4 DEF Holding
    <2> QED BY <1>1, <2>1, PlaceSame
  <1>6. \A u \in Turn : SameEffect(u)
    <2>1. \A b \in Attempt : (ActsNow(b)' <=> ActsNow(b)) /\ (HasActed(b)' <=> HasActed(b))
      BY <1>1, <1>2, <1>3 DEF ActsNow, HasActed, Unfenced, Affected
    <2> QED BY <1>1, <2>1, EffectSame
  <1> QED BY <1>5, <1>6, LaneStutters

\* The only live attempt of a Turn, and the only one whose recorded effects may
\* still run, is the one being closed.
LEMMA OnlyHolder ==
    ASSUME SystemInv, Stoppable = {}, NEW a \in Attempt, Live(a),
           attempt[a].op = Null \/ Cleaned(a)
    PROVE  /\ attempt[a].turn \in Turn /\ status[attempt[a].turn] = "admitted"
           /\ \A b \in Attempt \ {a} : Live(b) => attempt[b].turn # attempt[a].turn
           /\ Place(attempt[a].turn) = "holding"
           /\ EffectOf(attempt[a].turn) # "active"
  <1>1. attempt[a].turn \in Turn /\ status[attempt[a].turn] = "admitted"
    BY DEF SystemInv, StoreInv, AdmissionHoldsAttempt, Live
  <1>2. \A b \in Attempt \ {a} : Live(b) => attempt[b].turn # attempt[a].turn
    BY DEF SystemInv, StoreInv, LiveAttemptsExclusive
  <1>3. \A b \in Attempt : Unfenced(b) /\ attempt[b].op # Null => Live(b)
    BY DEF SystemInv, HostOK
  <1>4. ~(Unfenced(a) /\ attempt[a].op # Null) BY DEF Unfenced, Cleaned
  <1>5. EffectOf(attempt[a].turn) # "active" BY <1>2, <1>3, <1>4 DEF EffectOf
  <1>6. Place(attempt[a].turn) = "holding" BY DEF Place, LiveAttemptsOf
  <1> QED BY <1>1, <1>2, <1>5, <1>6

\* The frame of a closure: the Turn of the closed row gives its lane up, and
\* nothing else changes.
LEMMA ClosedRow ==
    ASSUME SystemInv, Stoppable = {}, NEW a \in Attempt, Live(a),
           attempt[a].op = Null \/ Cleaned(a), host' = host,
           attempt'[a].phase = "closed", attempt'[a].turn = attempt[a].turn,
           attempt'[a].op = attempt[a].op,
           \A b \in Attempt \ {a} : attempt'[b] = attempt[b],
           \A u \in Turn \ {attempt[a].turn} : status'[u] = status[u]
    PROVE  /\ (LiveAttemptsOf(attempt[a].turn))' = {}
           /\ \A u \in Turn \ {attempt[a].turn} : SamePlace(u)
           /\ \A u \in Turn : SameEffect(u)
  <1>1. \A b \in Attempt \ {a} : Live(b)' <=> Live(b) BY DEF Live
  <1>2. ~Live(a)' BY DEF Live
  <1>3. (LiveAttemptsOf(attempt[a].turn))' = {}
    BY <1>1, <1>2, OnlyHolder DEF LiveAttemptsOf
  <1>4. \A u \in Turn \ {attempt[a].turn} : Holding(u)' <=> Holding(u)
    BY <1>1 DEF Holding
  <1>5. \A b \in Attempt : (ActsNow(b)' <=> ActsNow(b)) /\ (HasActed(b)' <=> HasActed(b))
    BY DEF ActsNow, HasActed, Unfenced, Affected
  <1>6. \A u \in Turn : SameEffect(u) BY <1>5, EffectSame
  <1> QED BY <1>3, <1>4, <1>6, PlaceSame

\* A closure of an attempt that recorded nothing: its Turn leaves the lane, or
\* waits again if no attempt of it ever had a session.
LEMMA CloseStep ==
    ASSUME SystemInv, Stoppable = {}, NEW a \in Attempt, NEW cause \in Cause,
           NEW requeue \in BOOLEAN, attempt[a].op = Null, host' = host,
           CloseWithoutEffects(a, cause, requeue),
           requeue => \A b \in Attempt : attempt[b].turn = attempt[a].turn => host[b] = "none"
    PROVE  LaneStep
  <1>0. attempt[a] \in AttemptRow /\ Live(a)
    BY DEF SystemInv, StoreInv, StoreTypeOK, CloseWithoutEffects, CanCloseWithoutEffects
  <1>1. attempt'[a] = [attempt[a] EXCEPT !.phase = "closed", !.disposition = "not_accepted",
                                        !.cause = Coalesce(@, cause)]
        /\ \A b \in Attempt \ {a} : attempt'[b] = attempt[b]
    BY WriteAttemptRows DEF CloseWithoutEffects, SystemInv, StoreInv
  <1>2. attempt'[a].phase = "closed" /\ attempt'[a].turn = attempt[a].turn
        /\ attempt'[a].op = attempt[a].op
    BY <1>0, <1>1 DEF AttemptRow
  <1>3. PICK t \in Turn : t = attempt[a].turn /\ status[t] = "admitted"
    BY <1>0, OnlyHolder
  <1>4. /\ status'[t] = IF requeue THEN "queued" ELSE "admitted"
        /\ \A u \in Turn \ {t} : status'[u] = status[u]
    BY <1>3 DEF CloseWithoutEffects, SystemInv, StoreInv, StoreTypeOK
  <1>5. /\ (LiveAttemptsOf(t))' = {}
        /\ \A u \in Turn \ {t} : SamePlace(u)
        /\ \A u \in Turn : SameEffect(u)
    BY <1>0, <1>1, <1>2, <1>3, <1>4, ClosedRow
  <1>6. Place(t) = "holding" /\ EffectOf(t) # "active" BY <1>0, <1>3, OnlyHolder
  <1>7. CASE requeue
    <2>1. Place(t)' = "waiting" BY <1>4, <1>5, <1>7 DEF Place
    <2>2. EffectOf(t) = "none" BY <1>3, <1>7 DEF EffectOf, Unfenced, Affected
    <2>3. Lane!GiveBack(t) BY <1>5, <1>6, <2>1, <2>2, LaneMoves DEF Lane!GiveBack
    <2> QED BY <2>3 DEF LaneStep, Lane!LaneNext
  <1>8. CASE ~requeue
    <2>1. Place(t)' = "left" BY <1>4, <1>5, <1>8 DEF Place
    <2>2. Lane!Leave(t) BY <1>5, <1>6, <2>1, LaneMoves DEF Lane!Leave
    <2> QED BY <2>2 DEF LaneStep, Lane!LaneNext
  <1> QED BY <1>7, <1>8

\* A refusal that finds its attempt closed changes nothing.
LEMMA RefuseStep ==
    ASSUME SystemInv, Stoppable = {}, NEW a \in Attempt, NEW cause \in Cause,
           NEW requeue \in BOOLEAN, Live(a) => attempt[a].op = Null, host' = host,
           RefuseAttempt(a, cause, requeue),
           requeue => \A b \in Attempt : attempt[b].turn = attempt[a].turn => host[b] = "none"
    PROVE  LaneStep
  <1>1. CASE Live(a) BY <1>1, CloseStep DEF RefuseAttempt
  <1>2. CASE ~Live(a)
    <2>1. UNCHANGED storeVars BY <1>2 DEF RefuseAttempt
    <2>2. StoreCalm /\ status' = status BY <2>1, QueueTyped, UnchangedCalm DEF storeVars
    <2> QED BY <2>2, QuietStep DEF Unfenced, Affected
  <1> QED BY <1>1, <1>2

\* A release behind the fence of a cleaned session: the Turn leaves, settled.
LEMMA ReleaseStep ==
    ASSUME SystemInv, Stoppable = {}, NEW a \in Attempt, ReleaseTerminalAttempt(a), host' = host
    PROVE  LaneStep
  <1>1. CASE ~Live(a)
    <2>1. UNCHANGED storeVars BY <1>1 DEF ReleaseTerminalAttempt
    <2>2. StoreCalm /\ status' = status BY <2>1, QueueTyped, UnchangedCalm DEF storeVars
    <2> QED BY <2>2, QuietStep DEF Unfenced, Affected
  <1>2. CASE Live(a)
    <2>0. attempt[a] \in AttemptRow BY DEF SystemInv, StoreInv, StoreTypeOK
    <2>1. /\ Cleaned(a) /\ status' = status
          /\ WriteAttempt(a, [attempt[a] EXCEPT !.phase = "closed", !.fence = a])
      BY <1>2 DEF ReleaseTerminalAttempt, CloseWithFence
    <2>2. /\ attempt'[a] = [attempt[a] EXCEPT !.phase = "closed", !.fence = a]
          /\ \A b \in Attempt \ {a} : attempt'[b] = attempt[b]
      BY <2>1, WriteAttemptRows DEF SystemInv, StoreInv
    <2>3. attempt'[a].phase = "closed" /\ attempt'[a].turn = attempt[a].turn
          /\ attempt'[a].op = attempt[a].op
      BY <2>0, <2>2 DEF AttemptRow
    <2>4. PICK t \in Turn : t = attempt[a].turn /\ status[t] = "admitted"
      BY <1>2, <2>1, OnlyHolder
    <2>5. /\ (LiveAttemptsOf(t))' = {}
          /\ \A u \in Turn \ {t} : SamePlace(u)
          /\ \A u \in Turn : SameEffect(u)
      BY <1>2, <2>1, <2>2, <2>3, <2>4, ClosedRow
    <2>6. Place(t) = "holding" /\ EffectOf(t) # "active" BY <1>2, <2>1, <2>4, OnlyHolder
    <2>7. Place(t)' = "left" BY <2>1, <2>4, <2>5 DEF Place
    <2>8. Lane!Leave(t) BY <2>5, <2>6, <2>7, LaneMoves DEF Lane!Leave
    <2> QED BY <2>8 DEF LaneStep, Lane!LaneNext
  <1> QED BY <1>1, <1>2

\* A delivery: the first one of a recorded operation is the effect of its Turn,
\* in its lane; what was taken for cleanup is none of the lane's.
LEMMA DeliverStep ==
    ASSUME SystemInv, NEW t \in Turn, Deliver(t)
    PROVE  LaneStep
  <1>0. UNCHANGED storeVars BY DEF Deliver
  <1>1. StoreCalm /\ status' = status /\ attempt' = attempt
    BY <1>0, QueueTyped, UnchangedCalm DEF storeVars
  <1>2. PICK a \in Attempt : a = exec[t].attempt /\ attempt[a].turn = t /\ host[a] # "none"
    BY DEF Deliver, At, SystemInv, DispatchOK, Owned
  <1>3. PICK to \in {"started", "prepared"} : host' = [host EXCEPT ![a] = to]
    BY <1>2 DEF Deliver
  <1>4. host'[a] = to /\ \A b \in Attempt \ {a} : host'[b] = host[b]
    BY <1>3, QueueTyped
  <1>5. attempt[a].op # Null => attempt[a].phase = "open"
    BY <1>2 DEF Deliver, MayPrepare, MaySubmit
  <1>6. CASE attempt[a].op = Null
    <2>1. \A b \in Attempt : (ActsNow(b)' <=> ActsNow(b)) /\ (HasActed(b)' <=> HasActed(b))
      BY <1>1, <1>4, <1>6 DEF ActsNow, HasActed, Unfenced, Affected
    <2>2. \A u \in Turn : SameEffect(u) BY <1>1, <2>1, EffectSame
    <2>3. \A u \in Turn : SamePlace(u) BY <1>1, PlaceSame DEF Holding, Live
    <2> QED BY <2>2, <2>3, LaneStutters
  <1>7. CASE attempt[a].op # Null /\ host[a] # "materializing"
    <2>1. host[a] \in {"prepared", "started"}
      BY <1>2, <1>5, <1>7, QueueTyped DEF SystemInv, HostOK, Ended, HostState
    <2> QED BY <1>1, <1>4, <2>1, QuietStep DEF Unfenced, Affected
  <1>8. CASE attempt[a].op # Null /\ host[a] = "materializing"
    <2>1. \A b \in Attempt : attempt[b].turn = t /\ b # a => host[b] = "none"
      BY <1>2 DEF SystemInv, OneSession
    <2>2. EffectOf(t) = "none" BY <1>8, <2>1 DEF EffectOf, Unfenced, Affected
    <2>3. EffectOf(t)' = "active" BY <1>1, <1>2, <1>4, <1>8 DEF EffectOf, Unfenced
    <2>4. \A u \in Turn \ {t} : SameEffect(u)
      <3>1. \A b \in Attempt \ {a} : (ActsNow(b)' <=> ActsNow(b)) /\ (HasActed(b)' <=> HasActed(b))
        BY <1>1, <1>4 DEF ActsNow, HasActed, Unfenced, Affected
      <3> QED BY <1>1, <1>2, <3>1, EffectSame
    <2>5. \A u \in Turn : SamePlace(u) BY <1>1, PlaceSame DEF Holding, Live
    <2>6. Place(t) = "holding" BY <1>2, <1>5, <1>8 DEF Place, LiveAttemptsOf, Live
    <2>7. Lane!Act(t) BY <2>2, <2>3, <2>4, <2>5, <2>6, EffectMoves DEF Lane!Act
    <2> QED BY <2>7 DEF LaneStep, Lane!LaneNext
  <1> QED BY <1>6, <1>7, <1>8

\* Cleanup: the effect of a recorded operation is settled, once.
LEMMA FenceStep ==
    ASSUME SystemInv, NEW a \in Attempt, Fence(a), UNCHANGED storeVars
    PROVE  LaneStep
  <1>1. StoreCalm /\ status' = status /\ attempt' = attempt
    BY QueueTyped, UnchangedCalm DEF storeVars
  <1>2. /\ host'[a] = (IF host[a] = "materializing" THEN "retired"
                       ELSE IF host[a] = "final" THEN "collected"
                       ELSE IF Unfenced(a) THEN "fenced" ELSE host[a])
        /\ \A b \in Attempt \ {a} : host'[b] = host[b]
    BY QueueTyped DEF Fence, Unfenced
  <1>3. \A u \in Turn : SamePlace(u) BY <1>1, PlaceSame DEF Holding, Live
  <1>4. CASE ~ActsNow(a)
    <2>1. \A b \in Attempt : (ActsNow(b)' <=> ActsNow(b)) /\ (HasActed(b)' <=> HasActed(b))
      BY <1>1, <1>2, <1>4 DEF ActsNow, HasActed, Unfenced, Affected
    <2>2. \A u \in Turn : SameEffect(u) BY <1>1, <2>1, EffectSame
    <2> QED BY <1>3, <2>2, LaneStutters
  <1>5. CASE ActsNow(a)
    <2>1. PICK t \in Turn : t = attempt[a].turn
      BY <1>5 DEF ActsNow, Unfenced, SystemInv, HostOK, StoreInv, AdmissionHoldsAttempt
    <2>2. \A b \in Attempt : attempt[b].turn = t /\ b # a => host[b] = "none"
      BY <1>5, <2>1 DEF SystemInv, OneSession, ActsNow, Unfenced
    <2>3. EffectOf(t) = "active" BY <1>5, <2>1 DEF EffectOf, ActsNow
    <2>4. host'[a] \in {"fenced", "collected"} BY <1>2, <1>5 DEF ActsNow, Unfenced
    <2>5. EffectOf(t)' = "settled"
      <3>1. \A b \in Attempt : attempt'[b].turn = t => ~Unfenced(b)'
        BY <1>1, <1>2, <2>2, <2>4 DEF Unfenced
      <3>2. Affected(a)' /\ attempt'[a].op # Null /\ attempt'[a].turn = t
        BY <1>1, <1>5, <2>1, <2>4 DEF Affected, ActsNow
      <3> QED BY <3>1, <3>2 DEF EffectOf
    <2>6. \A u \in Turn \ {t} : SameEffect(u)
      <3>1. \A b \in Attempt \ {a} : (ActsNow(b)' <=> ActsNow(b)) /\ (HasActed(b)' <=> HasActed(b))
        BY <1>1, <1>2 DEF ActsNow, HasActed, Unfenced, Affected
      <3> QED BY <1>1, <2>1, <3>1, EffectSame
    <2>7. Lane!Settle(t) BY <1>3, <2>3, <2>5, <2>6, EffectMoves DEF Lane!Settle
    <2> QED BY <2>7 DEF LaneStep, Lane!LaneNext
  <1> QED BY <1>4, <1>5

\* A calm command that leaves admissions and hosts alone.
LEMMA CommandStep ==
    ASSUME SystemInv, StoreCalm, status' = status, host' = host
    PROVE  LaneStep
  BY QuietStep DEF Unfenced, Affected

\* A step that leaves records and hosts alone.
LEMMA UnseenStep ==
    ASSUME SystemInv, UNCHANGED storeVars, host' = host
    PROVE  LaneStep
  <1>1. StoreCalm /\ status' = status BY QueueTyped, UnchangedCalm DEF storeVars
  <1> QED BY <1>1, CommandStep

\* An observation, counted or not.
LEMMA ObserveStep ==
    ASSUME SystemInv, NEW a \in Attempt, NEW op \in Op, NEW d \in Disposition,
           Observe(Outcome(a, op, d)), host' = host
    PROVE  LaneStep
  <1>1. StoreCalm BY QueueTyped, ObserveCalm
  <1>2. status' = status BY DEF Observe, AcceptObservation, storeVars
  <1> QED BY <1>1, <1>2, CommandStep

\* A mark: the attempt stays live, its lane taken.
LEMMA RevokeStep ==
    ASSUME SystemInv, NEW a \in Attempt, NEW cause \in Cause, attempt[a].phase # "absent",
           RevokeAttempt(a, cause), host' = host
    PROVE  LaneStep
  <1>1. StoreCalm BY QueueTyped, RevokeCalm
  <1>2. status' = status BY DEF RevokeAttempt, MarkClosing, storeVars
  <1> QED BY <1>1, <1>2, CommandStep

\* Preparation: binding the session and the package.
LEMMA PrepareLane ==
    ASSUME SystemInv, NEW t \in Turn, Bind(t) \/ Finalize(t)
    PROVE  LaneStep
  <1>0. PICK a \in Attempt : a = exec[t].attempt
    BY DEF Bind, Finalize, At, SystemInv, DispatchOK, Owned
  <1>1. CASE UNCHANGED storeVars BY <1>1, UnseenStep DEF Bind, Finalize
  <1>2. CASE BindSession(a, threadOf[t])
    <2>1. StoreCalm BY <1>2, QueueTyped, BindCalm, ConstantAssumption, ExecutionAssumption
    <2>2. status' = status BY <1>2 DEF BindSession
    <2> QED BY <2>1, <2>2, CommandStep DEF Bind, Finalize
  <1>3. CASE FinalizeInput(a, a)
    <2>1. a \in Input BY ExecutionAssumption
    <2>2. StoreCalm BY <1>3, <2>1, QueueTyped, FinalizeCalm
    <2>3. status' = status BY <1>3 DEF FinalizeInput
    <2> QED BY <2>2, <2>3, CommandStep DEF Bind, Finalize
  <1> QED BY <1>0, <1>1, <1>2, <1>3 DEF Bind, Finalize

\* The first contact opens a session with no effect in it.
LEMMA MaterializeLane ==
    ASSUME SystemInv, NEW t \in Turn, Materialize(t)
    PROVE  LaneStep
  <1>1. CASE host' = host BY <1>1, UnseenStep DEF Materialize
  <1>2. CASE host' # host
    <2>1. PICK a \in Attempt : a = exec[t].attempt /\ host[a] = "none"
      BY DEF Materialize, At, SystemInv, DispatchOK, Owned, Uncontacted
    <2>2. host'[a] = "materializing" /\ \A b \in Attempt \ {a} : host'[b] = host[b]
      BY <1>2, <2>1, QueueTyped DEF Materialize
    <2>3. StoreCalm /\ status' = status
      BY QueueTyped, UnchangedCalm DEF Materialize, storeVars
    <2> QED BY <2>1, <2>2, <2>3, QuietStep DEF Unfenced, Affected
  <1> QED BY <1>1, <1>2

\* Recording, and the answers of the host.
LEMMA OperateLane ==
    ASSUME SystemInv, NEW t \in Turn, Operate(t) \/ ObserveUnqueued(t) \/ Reply(t)
    PROVE  LaneStep
  <1>0. PICK a \in Attempt : a = exec[t].attempt
    BY DEF Operate, ObserveUnqueued, Reply, At, SystemInv, DispatchOK, Owned
  <1>1. CASE Operate(t)
    <2>1. Posted(Dispatcher(t)) BY <1>1, QueueTyped, OwnersDiffer, CommitsMoved DEF Operate
    <2>2. PICK op \in Op : op = exec[t].op
      BY <1>1, <2>1, ExecutionAssumption DEF Operate, At, SystemInv, DispatchOK
    <2>3. (op = "submit") \in BOOLEAN OBVIOUS
    <2>4. CASE UNCHANGED storeVars BY <1>1, <2>4, UnseenStep DEF Operate
    <2>5. CASE RecordOperation(a, op, op = "submit", now)
      BY <1>1, <2>3, <2>5, QueueTyped, RecordStep DEF Operate
    <2> QED BY <1>0, <1>1, <2>2, <2>4, <2>5 DEF Operate
  <1>2. CASE ObserveUnqueued(t)
    BY <1>0, <1>2, ObserveStep, ExecutionAssumption DEF ObserveUnqueued, Disposition
  <1>3. CASE Reply(t)
    <2>1. exec[t].op \in Op BY <1>3, ExecutionAssumption DEF Reply, At, SystemInv, DispatchOK
    <2> QED BY <1>0, <1>3, <2>1, ObserveStep DEF Reply, Disposition
  <1> QED BY <1>1, <1>2, <1>3

\* The dispatch's own closures.
LEMMA CloseLane ==
    ASSUME SystemInv, Stoppable = {}, NEW t \in Turn,
           Release(t) \/ Refuse(t) \/ Abandon(t) \/ Requeue(t) \/ RefuseStart(t)
    PROVE  LaneStep
  <1>0. PICK a \in Attempt : a = exec[t].attempt /\ Owned(t, a)
    BY DEF Release, Refuse, Abandon, Requeue, RefuseStart, At, SystemInv, DispatchOK, Owned
  <1>1. CASE Release(t) BY <1>0, <1>1, ReleaseStep DEF Release
  <1>2. CASE Abandon(t)
    BY <1>0, <1>2, RevokeStep, SystemAssumption DEF Abandon, Owned, SystemCauses
  <1>3. CASE Refuse(t) \/ RefuseStart(t)
    <2>1. attempt[a].op = Null
      BY <1>0, <1>3 DEF Refuse, RefuseStart, At, SystemInv, DispatchOK, Uncontacted
    <2> QED BY <1>0, <1>3, <2>1, RefuseStep, SystemAssumption
      DEF Refuse, RefuseStart, SystemCauses
  <1>4. CASE Requeue(t)
    <2>1. attempt[a].op = Null /\ \A b \in Attempt : attempt[b].turn = t => host[b] = "none"
      BY <1>0, <1>4 DEF Requeue, At, SystemInv, DispatchOK, Uncontacted
    <2> QED BY <1>0, <1>4, <2>1, RefuseStep, SystemAssumption
      DEF Requeue, SystemCauses, Owned
  <1> QED BY <1>1, <1>2, <1>3, <1>4

\* Every step of a dispatch is a step of the lane.
LEMMA DispatchLane ==
    ASSUME SystemInv, Stoppable = {}, NEW t \in Turn, DispatchStep(t)
    PROVE  LaneStep
  <1>1. CASE Deny(t)
    <2>1. CASE DenyEntry(t)
      BY <1>1, <2>1, AdmissionStep DEF Deny, AdmissionCommand
    <2>2. CASE UNCHANGED storeVars BY <1>1, <2>2, UnseenStep DEF Deny
    <2> QED BY <1>1, <2>1, <2>2 DEF Deny
  <1>2. CASE Create(t)
    <2>1. CASE \E a \in Attempt : CreateAttempt(a, t) BY <1>2, <2>1, CreateStep DEF Create
    <2>2. CASE UNCHANGED storeVars BY <1>2, <2>2, UnseenStep DEF Create
    <2> QED BY <1>2, <2>1, <2>2 DEF Create
  <1>3. CASE Bind(t) \/ Finalize(t) BY <1>3, PrepareLane
  <1>4. CASE Materialize(t) BY <1>4, MaterializeLane
  <1>5. CASE Operate(t) \/ ObserveUnqueued(t) \/ Reply(t) BY <1>5, OperateLane
  <1>6. CASE Deliver(t) BY <1>6, DeliverStep
  <1>7. CASE Closeout(t) \/ Cleanup(t)
    <2>1. PICK a \in Attempt : a = exec[t].attempt
      BY <1>7 DEF Closeout, Cleanup, At, SystemInv, DispatchOK, Owned
    <2>2. CASE Fence(a) BY <1>7, <2>2, FenceStep DEF Closeout, Cleanup
    <2>3. CASE host' = host BY <1>7, <2>3, UnseenStep DEF Closeout, Cleanup
    <2> QED BY <1>7, <2>1, <2>2, <2>3 DEF Closeout, Cleanup
  <1>8. CASE Release(t) \/ Refuse(t) \/ Abandon(t) \/ Requeue(t) \/ RefuseStart(t)
    BY <1>8, CloseLane
  <1>9. CASE \/ Post(t) \/ Start(t) \/ \E busy \in BOOLEAN : PreparationFails(t, busy)
             \/ CapacityUnavailable(t) \/ \E op \in {"prepare", "submit"} : PostOperation(t, op)
             \/ PrepareWhileClosing(t) \/ NotEnqueued(t) \/ ExecutionFails(t) \/ AwaitFinal(t)
             \/ PublishOutcome(t) \/ Fail(t) \/ FailTurn(t) \/ Catch(t)
    BY <1>9, UnseenStep DEF Post, Start, PreparationFails, CapacityUnavailable, PostOperation,
       PrepareWhileClosing, NotEnqueued, ExecutionFails, AwaitFinal, PublishOutcome, Fail, FailTurn,
       Catch
  <1> QED BY <1>1, <1>2, <1>3, <1>4, <1>5, <1>6, <1>7, <1>8, <1>9 DEF DispatchStep

\* Maintenance leaves a lane only for a row whose mark found no operation.
LEMMA MaintLane ==
    ASSUME SystemInv, Stoppable = {}, MaintStep
    PROVE  LaneStep
  <1>1. CASE MaintMark
    <2>1. PICK a \in Attempt, cause \in Cause :
            a = maint.attempt /\ attempt[a].phase # "absent" /\ cause = maint.cause
      BY <1>1, QueueTyped DEF MaintMark, SystemInv, MaintOK, MaintItem
    <2> QED BY <1>1, <2>1, RevokeStep DEF MaintMark
  <1>2. CASE MaintClose
    <2>1. PICK a \in Attempt :
            a = maint.attempt /\ Ended(a) /\ (Live(a) => attempt[a].op = Null)
      BY <1>2 DEF MaintClose, SystemInv, MaintOK
    <2>2. CASE Live(a)
      <3>1. PICK cause \in Cause : cause = attempt[a].cause
        BY <2>1, <2>2, QueueTyped
           DEF Live, Ended, ClosingHasCause, StoreInv, StoreTypeOK, AttemptRow
      <3> QED BY <1>2, <2>1, <3>1, RefuseStep DEF MaintClose
    <2>3. CASE ~Live(a)
      BY <1>2, <2>1, <2>3, UnseenStep DEF MaintClose, RefuseAttempt
    <2> QED BY <2>2, <2>3
  <1>3. CASE MaintCancel
    <2>1. CASE UNCHANGED storeVars BY <1>3, <2>1, UnseenStep DEF MaintCancel, execVars
    <2>2. CASE \E answer \in CancelAnswers(maint.attempt) : Observe(answer)
      <3>1. maint.attempt \in Attempt /\ attempt[maint.attempt].op # Null
        BY <1>3 DEF MaintCancel, SystemInv, MaintOK
      <3>2. StoreCalm BY <2>2, <3>1, CancelAnswerCalm
      <3>3. status' = status BY <2>2 DEF Observe, AcceptObservation, storeVars
      <3> QED BY <1>3, <3>2, <3>3, CommandStep DEF MaintCancel, execVars
    <2> QED BY <1>3, <2>1, <2>2 DEF MaintCancel
  <1>4. CASE MaintReport
    <2>1. PICK a \in Attempt, op \in Op, seen \in Disposition :
            a = maint.attempt /\ op = maint.op /\ seen = maint.seen
      BY <1>4, QueueTyped DEF MaintReport, SystemInv, MaintOK, MaintItem
    <2> QED BY <1>4, <2>1, ObserveStep DEF MaintReport
  <1>5. CASE MaintCheck \/ MaintPost \/ MaintProject \/ MaintInspect
    BY <1>5, UnseenStep DEF MaintCheck, MaintPost, MaintProject, MaintInspect
  <1> QED BY <1>1, <1>2, <1>3, <1>4, <1>5 DEF MaintStep

\* The native stage only cleans up and releases what it cleaned.
LEMMA NativeLane ==
    ASSUME SystemInv, Stoppable = {}, NEW a \in Attempt, NativeStep(a)
    PROVE  LaneStep
  <1>1. CASE NativeRelease(a) BY <1>1, ReleaseStep DEF NativeRelease, execVars
  <1>2. CASE NativeProject(a) \/ NativePublish(a)
    BY <1>2, UnseenStep DEF NativeProject, NativePublish
  <1>3. CASE NativeCleanup(a) \/ NativeCloseout(a) \/ RetireOrphan(a)
    BY <1>3, FenceStep DEF NativeCleanup, NativeCloseout, RetireOrphan
  <1> QED BY <1>1, <1>2, <1>3 DEF NativeStep

\* The final status ends no effect: only cleanup does.
LEMMA FinalLane ==
    ASSUME SystemInv, NEW a \in Attempt, AcceptFinalStatus(a)
    PROVE  LaneStep
  <1>1. StoreCalm /\ status' = status
    <2>1. CASE MarkClosing(a, "worker-final-status", Null)
      BY <2>1, QueueTyped, MarkCalm, SystemAssumption DEF SystemCauses, MarkClosing
    <2>2. CASE UNCHANGED storeVars BY <2>2, QueueTyped, UnchangedCalm DEF storeVars
    <2> QED BY <2>1, <2>2 DEF AcceptFinalStatus
  <1>2. /\ host[a] = "started" /\ host'[a] = "final"
        /\ \A b \in Attempt \ {a} : host'[b] = host[b]
    BY QueueTyped DEF AcceptFinalStatus
  <1> QED BY <1>1, <1>2, QuietStep DEF Unfenced, Affected

\* Restart leaves a lane only for a row without an operation.
LEMMA BootLane ==
    ASSUME SystemInv, Stoppable = {}, BootStep
    PROVE  LaneStep
  <1>1. CASE \E a \in Attempt : RestartClose(a)
    BY <1>1, CloseStep, SystemAssumption DEF RestartClose, SystemCauses, execVars
  <1>2. CASE \E a \in Attempt : RestartClassify(a)
    BY <1>2, RevokeStep, SystemAssumption
       DEF RestartClassify, RevokeAttempt, Live, SystemCauses, execVars
  <1>3. CASE MaintProject \/ Listen BY <1>3, UnseenStep DEF MaintProject, Listen, execVars
  <1> QED BY <1>1, <1>2, <1>3 DEF BootStep

\* Every step of the scheduler is a step of the lane or unseen by it.
LEMMA SystemLane ==
    ASSUME SystemInv, Stoppable = {}, [Next]_vars
    PROVE  LaneStep
  <1>1. CASE \E t \in Turn : Request(t)
    <2>1. PICK t \in Turn : Request(t) BY <1>1
    <2>2. ~ReadStop(t) BY DEF ReadStop
    <2>3. AdmissionCommand(t) /\ host' = host
      BY <2>1, <2>2 DEF Request, AdmissionCommand, execVars
    <2> QED BY <2>3, AdmissionStep
  <1>2. CASE \E t \in Turn : Executes(t) BY <1>2, DispatchLane DEF Executes
  <1>3. CASE \E t \in Turn : Stops(t)
    <2>1. \A t \in Turn : stop[t].pc = "idle" BY DEF SystemInv, StopOK
    <2> QED BY <1>3, <2>1 DEF Stops, StopStep, CancelQueued, StopMark, StopPost, StopClose,
         StopSeal, StopCancelBackend
  <1>4. CASE Maintains BY <1>4, MaintLane DEF Maintains
  <1>5. CASE \E a \in Attempt : NativeExpire(a)
    BY <1>5, RevokeStep, SystemAssumption
       DEF NativeExpire, RevokeAttempt, Live, SystemCauses, execVars
  <1>6. CASE \E a \in Attempt : AcceptFinalStatus(a) BY <1>6, FinalLane
  <1>7. CASE \E a \in Attempt : Recovers(a) BY <1>7, NativeLane DEF Recovers
  <1>8. CASE BootStep BY <1>8, BootLane
  <1>9. CASE \/ \E t \in Turn : Publish(t) \/ Dispatches(t)
             \/ \E a \in Attempt : Lists(a) \/ Publishes(a)
             \/ TimePasses \/ Crash \/ UNCHANGED vars
    BY <1>9, UnseenStep DEF Publish, PublishTurn, Dispatches, Claim, Lists, MaintList, Publishes,
       PublishFailure, TimePasses, Tick, Crash, vars, execVars
  <1> QED BY <1>1, <1>2, <1>3, <1>4, <1>5, <1>6, <1>7, <1>8, <1>9 DEF Next

\* At the start every Turn is outside and has done nothing.
LEMMA LaneStart == Init => Lane!LaneInit
  <1> SUFFICES ASSUME Init PROVE Lane!LaneInit
    OBVIOUS
  <1>1. \A a \in Attempt : attempt[a] = NoRow /\ host[a] = "none"
    BY DEF Init, StoreInit, ExecInit
  <1>2. \A t \in Turn : Place(t) = "outside" /\ EffectOf(t) = "none"
    BY <1>1 DEF Place, EffectOf, LiveAttemptsOf, Live, NoRow, Unfenced, Affected, Init, StoreInit
  <1> QED BY <1>2 DEF Lane!LaneInit

\* Dispatch, execution, maintenance, crash and restart implement the lane, for
\* any number of Turns, Threads and attempts, as long as nobody stops a Turn.
THEOREM ImplementsLane ==
    ASSUME Stoppable = {}
    PROVE  Spec => KeepsLane
  <1>1. SystemInv /\ [Next]_vars => [Lane!LaneNext]_(Lane!laneVars)
    BY SystemLane DEF LaneStep
  <1> QED BY <1>1, LaneStart, SystemInvariance, PTL DEF Spec, KeepsLane, Lane!LaneSpec

\* What the lane guarantees to the backends holds of the scheduler: two Turns of a
\* Thread never have recorded effects at the same time, and a Turn that waits
\* (again) has never had any.
THEOREM EffectsApart ==
    ASSUME Stoppable = {}
    PROVE  Spec => []Lane!EffectsExclusive
  <1>1. ASSUME SystemInv PROVE Lane!EffectsExclusive
    <2>1. \A t \in Turn : EffectOf(t) = "active" =>
            \E a \in Attempt : Live(a) /\ attempt[a].turn = t
      BY <1>1 DEF EffectOf, SystemInv, HostOK
    <2>2. \A t, u \in Turn :
            EffectOf(t) = "active" /\ EffectOf(u) = "active" /\ threadOf[t] = threadOf[u] => t = u
      BY <1>1, <2>1 DEF SystemInv, StoreInv, LiveAttemptsExclusive
    <2>3. ASSUME NEW t \in Turn, Place(t) = "waiting" PROVE EffectOf(t) = "none"
      <3>1. status[t] \in {"queued", "denied"} BY <2>3 DEF Place
      <3>2. \A a \in Attempt : attempt[a].turn = t => host[a] = "none"
        BY <1>1, <3>1 DEF SystemInv, HostOK
      <3> QED BY <3>2 DEF EffectOf, Unfenced, Affected
    <2> QED BY <2>2, <2>3 DEF Lane!EffectsExclusive
  <1> QED BY <1>1, SystemInvariance, PTL
=============================================================================
