------------------------ MODULE SchedulerStoreProofs ------------------------
(***************************************************************************)
(* Proofs about SchedulerStore for every number of Turns, Threads,         *)
(* sessions, attempts and operations.  The inductive invariant is the      *)
(* conjunction of the store's types, its four promises and the fact that   *)
(* an unused identity carries nothing.  Each promise is needed by another  *)
(* (a requeue keeps AdmissionHoldsAttempt only because live attempts are   *)
(* exclusive, exclusion only because a live attempt's entry is admitted    *)
(* and so cannot be selected again).                                       *)
(***************************************************************************)
EXTENDS SchedulerStore, FiniteSetTheorems, TLAPS

\* An attempt identity that was never used carries no facts.
FreshRowsEmpty == \A a \in Attempt : attempt[a].phase = "absent" => attempt[a] = NoRow

StoreInv ==
    /\ StoreTypeOK
    /\ AdmissionHoldsAttempt
    /\ LiveAttemptsExclusive
    /\ ClosedIsSettled
    /\ SubmissionIsTraceable
    /\ FreshRowsEmpty

\* A command on an attempt, its submission at any reading of the clock: what the
\* owners of SchedulerSystem issue.
TimedCommand(a) ==
    \/ AttemptCommand(a)
    \/ \E op \in Op, submission \in BOOLEAN, now \in Nat : RecordOperation(a, op, submission, now)

\* The next row number of the queue table is a natural number.
LEMMA NextRowidType == NextRowid \in Nat
  <1>1. IsFiniteSet({t \in Turn : rowid[t] # 0})
    BY FS_Subset, ConstantAssumption
  <1>2. Cardinality({t \in Turn : rowid[t] # 0}) \in Nat
    BY <1>1, FS_CardinalityType
  <1> QED BY <1>2 DEF NextRowid

\* Every admission command keeps the types.
LEMMA AdmissionTypes ==
    ASSUME StoreTypeOK, NEW t \in Turn, AdmissionCommand(t)
    PROVE  StoreTypeOK'
  <1> USE DEF StoreTypeOK, Status
  <1>1. CASE CreateEntry(t) BY <1>1, NextRowidType DEF CreateEntry, InsertEntry
  <1>2. CASE CreateRecurringEntry(t)
    BY <1>2, NextRowidType DEF CreateRecurringEntry, InsertEntry
  <1>3. CASE DenyEntry(t) BY <1>3 DEF DenyEntry
  <1>4. CASE RetryDeniedEntry(t) BY <1>4 DEF RetryDeniedEntry
  <1>5. CASE CancelEntry(t) BY <1>5 DEF CancelEntry
  <1>6. CASE ChangeAuthority(t) BY <1>6 DEF ChangeAuthority
  <1> QED BY <1>1, <1>2, <1>3, <1>4, <1>5, <1>6 DEF AdmissionCommand

\* A well-typed row keeps the attempt table well typed.
LEMMA WriteAttemptType ==
    ASSUME StoreTypeOK, NEW a \in Attempt, NEW row \in AttemptRow, WriteAttempt(a, row)
    PROVE  attempt' \in [Attempt -> AttemptRow]
  BY DEF StoreTypeOK, WriteAttempt

\* What a write does to the table: the addressed row changes, the others stay.
LEMMA WriteAttemptRows ==
    ASSUME StoreTypeOK, NEW a \in Attempt, NEW row, WriteAttempt(a, row)
    PROVE  /\ attempt'[a] = row
           /\ \A b \in Attempt \ {a} : attempt'[b] = attempt[b]
  BY DEF StoreTypeOK, WriteAttempt

\* Every attempt command keeps the types.
LEMMA AttemptTypes ==
    ASSUME StoreTypeOK, NEW a \in Attempt, TimedCommand(a)
    PROVE  StoreTypeOK'
  <1>0. attempt[a] \in AttemptRow BY DEF StoreTypeOK
  <1>1. CASE \E t \in Turn : CreateAttempt(a, t)
    <2>1. PICK t \in Turn : CreateAttempt(a, t) BY <1>1
    <2>2. [NoRow EXCEPT !.phase = "open", !.turn = t] \in AttemptRow
      BY DEF NoRow, AttemptRow, Phase, Disposition
    <2> QED BY <2>1, <2>2, WriteAttemptType DEF CreateAttempt, StoreTypeOK, Status
  <1>2. CASE \E s \in Session : BindSession(a, s)
    <2>1. PICK s \in Session : BindSession(a, s) BY <1>2
    <2>2. [attempt[a] EXCEPT !.session = s] \in AttemptRow BY <1>0 DEF AttemptRow
    <2> QED BY <2>1, <2>2, WriteAttemptType DEF BindSession, StoreTypeOK
  <1>3. CASE \E i \in Input : FinalizeInput(a, i)
    <2>1. PICK i \in Input : FinalizeInput(a, i) BY <1>3
    <2>2. [attempt[a] EXCEPT !.input = i] \in AttemptRow BY <1>0 DEF AttemptRow
    <2> QED BY <2>1, <2>2, WriteAttemptType DEF FinalizeInput, StoreTypeOK
  <1>4. CASE \E op \in Op, submission \in BOOLEAN, now \in Nat :
               RecordOperation(a, op, submission, now)
    <2>1. PICK op \in Op, submission \in BOOLEAN, now \in Nat :
               RecordOperation(a, op, submission, now) BY <1>4
    <2>2. now + Budget \in Nat BY ConstantAssumption
    <2>3. [attempt[a] EXCEPT !.op = op, !.disposition = "unknown",
            !.deadline = IF submission THEN now + Budget ELSE @] \in AttemptRow
      BY <1>0, <2>2 DEF AttemptRow, Disposition
    <2> QED BY <2>1, <2>3, WriteAttemptType DEF RecordOperation, StoreTypeOK
  <1>5. CASE \E o \in Observation : o.attempt = a /\ AcceptObservation(o)
    <2>1. PICK o \in Observation : o.attempt = a /\ AcceptObservation(o) BY <1>5
    <2>2. ObservedDisposition(o) \in Disposition
      BY DEF ObservedDisposition, Observation, Disposition
    <2>3. Coalesce(attempt[a].outcome, o.outcome) \in Ref \cup {Null}
      BY <1>0 DEF AttemptRow, Observation, Coalesce
    <2>4. Coalesce(attempt[a].fence, o.fence) \in Ref \cup {Null}
      BY <1>0 DEF AttemptRow, Observation, Coalesce
    <2>5. [attempt[a] EXCEPT !.disposition = ObservedDisposition(o),
            !.outcome = Coalesce(@, o.outcome), !.fence = Coalesce(@, o.fence)] \in AttemptRow
      BY <1>0, <2>2, <2>3, <2>4 DEF AttemptRow
    <2> QED BY <2>1, <2>5, WriteAttemptType DEF AcceptObservation, StoreTypeOK
  <1>6. CASE \E cause \in Cause, outcome \in Ref \cup {Null} : MarkClosing(a, cause, outcome)
    <2>1. PICK cause \in Cause, outcome \in Ref \cup {Null} : MarkClosing(a, cause, outcome)
      BY <1>6
    <2>2. Coalesce(attempt[a].cause, cause) \in Cause \cup {Null}
      BY <1>0 DEF AttemptRow, Coalesce
    <2>3. Coalesce(attempt[a].outcome, outcome) \in Ref \cup {Null}
      BY <1>0 DEF AttemptRow, Coalesce
    <2>4. [attempt[a] EXCEPT !.phase = "closing", !.cause = Coalesce(@, cause),
            !.outcome = Coalesce(@, outcome)] \in AttemptRow
      BY <1>0, <2>2, <2>3 DEF AttemptRow, Phase
    <2> QED BY <2>1, <2>4, WriteAttemptType DEF MarkClosing, StoreTypeOK
  <1>7. CASE \E cause \in Cause, requeue \in BOOLEAN : CloseWithoutEffects(a, cause, requeue)
    <2>1. PICK cause \in Cause, requeue \in BOOLEAN : CloseWithoutEffects(a, cause, requeue)
      BY <1>7
    <2>0. Coalesce(attempt[a].cause, cause) \in Cause \cup {Null}
      BY <1>0 DEF AttemptRow, Coalesce
    <2>2. [attempt[a] EXCEPT !.phase = "closed", !.disposition = "not_accepted",
            !.cause = Coalesce(@, cause)] \in AttemptRow
      BY <1>0, <2>0 DEF AttemptRow, Phase, Disposition
    <2>3. status' \in [Turn -> Status]
      BY <2>1 DEF CloseWithoutEffects, StoreTypeOK, Status
    <2> QED BY <2>1, <2>2, <2>3, WriteAttemptType DEF CloseWithoutEffects, StoreTypeOK
  <1>8. CASE \E i \in Input \cup {Null}, op \in Op, proof \in SUBSET ReleaseBarriers,
                fence \in Ref : CloseWithFence(a, i, op, proof, fence)
    <2>1. PICK i \in Input \cup {Null}, op \in Op, proof \in SUBSET ReleaseBarriers,
                fence \in Ref : CloseWithFence(a, i, op, proof, fence)
      BY <1>8
    <2>2. [attempt[a] EXCEPT !.phase = "closed", !.fence = fence] \in AttemptRow
      BY <1>0 DEF AttemptRow, Phase
    <2> QED BY <2>1, <2>2, WriteAttemptType DEF CloseWithFence, StoreTypeOK
  <1> QED
    BY <1>1, <1>2, <1>3, <1>4, <1>5, <1>6, <1>7, <1>8, ConstantAssumption
       DEF AttemptCommand, TimedCommand
-----------------------------------------------------------------------------
(* The promises, command by command.                                       *)

\* Admission commands never touch attempts, nor who is admitted: an admitted
\* entry can only leave that status through the close of its attempt.
LEMMA AdmissionKeepsAdmitted ==
    ASSUME StoreTypeOK, NEW t \in Turn, AdmissionCommand(t)
    PROVE  /\ attempt' = attempt
           /\ \A u \in Turn : status'[u] = "admitted" <=> status[u] = "admitted"
  <1> USE DEF StoreTypeOK
  <1>1. CASE CreateEntry(t) BY <1>1 DEF CreateEntry, InsertEntry
  <1>2. CASE CreateRecurringEntry(t) BY <1>2 DEF CreateRecurringEntry, InsertEntry
  <1>3. CASE DenyEntry(t) BY <1>3 DEF DenyEntry
  <1>4. CASE RetryDeniedEntry(t) BY <1>4 DEF RetryDeniedEntry
  <1>5. CASE CancelEntry(t) BY <1>5 DEF CancelEntry, CanCancelEntry
  <1>6. CASE ChangeAuthority(t) BY <1>6 DEF ChangeAuthority
  <1> QED BY <1>1, <1>2, <1>3, <1>4, <1>5, <1>6 DEF AdmissionCommand

\* Admission commands preserve the inductive invariant.
LEMMA AdmissionPreserves ==
    ASSUME StoreInv, NEW t \in Turn, AdmissionCommand(t)
    PROVE  StoreInv'
  <1>1. StoreTypeOK' BY AdmissionTypes DEF StoreInv
  <1>2. /\ attempt' = attempt
        /\ \A u \in Turn : status'[u] = "admitted" <=> status[u] = "admitted"
    BY AdmissionKeepsAdmitted DEF StoreInv
  <1>3. AdmissionHoldsAttempt' BY <1>2 DEF StoreInv, AdmissionHoldsAttempt, Live
  <1>4. LiveAttemptsExclusive' BY <1>2 DEF StoreInv, LiveAttemptsExclusive, Live
  <1>5. ClosedIsSettled' BY <1>2 DEF StoreInv, ClosedIsSettled
  <1>6. SubmissionIsTraceable' BY <1>2 DEF StoreInv, SubmissionIsTraceable
  <1>7. FreshRowsEmpty' BY <1>2 DEF StoreInv, FreshRowsEmpty
  <1> QED BY <1>1, <1>3, <1>4, <1>5, <1>6, <1>7 DEF StoreInv

\* A command on a live attempt that keeps its Turn, and its session unless
\* the new one is free, keeps both the admission link and the exclusion.
LEMMA LiveRowUpdate ==
    ASSUME StoreInv, NEW a \in Attempt, Live(a), status' = status,
           attempt'[a].phase # "absent",
           attempt'[a].turn = attempt[a].turn,
           \/ attempt'[a].session = attempt[a].session
           \/ \A b \in Attempt \ {a} : Live(b) => attempt[b].session # attempt'[a].session,
           \A b \in Attempt \ {a} : attempt'[b] = attempt[b]
    PROVE  AdmissionHoldsAttempt' /\ LiveAttemptsExclusive'
  <1>1. AdmissionHoldsAttempt' BY DEF StoreInv, AdmissionHoldsAttempt, Live
  <1>2. LiveAttemptsExclusive'
    <2> SUFFICES ASSUME NEW b \in Attempt, NEW c \in Attempt, b # c, Live(b)', Live(c)'
                 PROVE  /\ threadOf[attempt'[b].turn] # threadOf[attempt'[c].turn]
                        /\ attempt'[b].session = attempt'[c].session =>
                              attempt'[b].session = Null
      BY DEF LiveAttemptsExclusive
    <2>1. Live(b) /\ Live(c) BY DEF Live
    <2>2. threadOf[attempt'[b].turn] # threadOf[attempt'[c].turn]
      BY <2>1 DEF StoreInv, LiveAttemptsExclusive
    <2>3. attempt'[b].session = attempt'[c].session => attempt'[b].session = Null
      BY <2>1 DEF StoreInv, LiveAttemptsExclusive
    <2> QED BY <2>2, <2>3
  <1> QED BY <1>1, <1>2

\* The promises about single rows only have to be shown for the row that was
\* written.
LEMMA RowPromises ==
    ASSUME StoreInv, NEW a \in Attempt,
           \A b \in Attempt \ {a} : attempt'[b] = attempt[b],
           attempt'[a].phase # "absent",
           attempt'[a].phase = "closed" =>
              \/ attempt'[a].disposition = "not_accepted"
              \/ attempt'[a].op # Null /\ attempt'[a].fence # Null,
           attempt'[a].deadline # Null =>
              Null \notin {attempt'[a].session, attempt'[a].input, attempt'[a].op},
           attempt'[a].disposition # "not_accepted" => attempt'[a].op # Null,
           attempt'[a].input # Null => attempt'[a].session # Null
    PROVE  ClosedIsSettled' /\ SubmissionIsTraceable' /\ FreshRowsEmpty'
  BY DEF StoreInv, ClosedIsSettled, SubmissionIsTraceable, FreshRowsEmpty

\* Attempt commands preserve the inductive invariant.
LEMMA AttemptPreserves ==
    ASSUME StoreInv, NEW a \in Attempt, TimedCommand(a)
    PROVE  StoreInv'
  <1>0. attempt[a] \in AttemptRow BY DEF StoreInv, StoreTypeOK
  <1>t. StoreTypeOK' BY AttemptTypes DEF StoreInv
  <1>o. /\ attempt[a].deadline # Null =>
              Null \notin {attempt[a].session, attempt[a].input, attempt[a].op}
        /\ attempt[a].disposition # "not_accepted" => attempt[a].op # Null
        /\ attempt[a].input # Null => attempt[a].session # Null
    BY DEF StoreInv, SubmissionIsTraceable
  <1>n. Null \notin Session \cup Input \cup Op \cup Ref BY ConstantAssumption
  <1> SUFFICES /\ AdmissionHoldsAttempt' /\ LiveAttemptsExclusive'
               /\ ClosedIsSettled' /\ SubmissionIsTraceable' /\ FreshRowsEmpty'
    BY <1>t DEF StoreInv
  <1>1. CASE \E t \in Turn : CreateAttempt(a, t)
    <2>1. PICK t \in Turn : CreateAttempt(a, t) BY <1>1
    <2>2. /\ attempt'[a] = [NoRow EXCEPT !.phase = "open", !.turn = t]
          /\ \A b \in Attempt \ {a} : attempt'[b] = attempt[b]
      BY <2>1, WriteAttemptRows DEF CreateAttempt, StoreInv
    <2>3. /\ attempt'[a].phase = "open" /\ attempt'[a].turn = t
          /\ attempt'[a].session = Null /\ attempt'[a].input = Null
          /\ attempt'[a].deadline = Null /\ attempt'[a].disposition = "not_accepted"
      BY <2>2 DEF NoRow
    <2>4. ClosedIsSettled' /\ SubmissionIsTraceable' /\ FreshRowsEmpty'
      BY <2>2, <2>3, RowPromises
    <2>5. /\ attempt[a].phase = "absent" /\ status[t] = "queued" /\ LaneFree(t)
          /\ status' = [status EXCEPT ![t] = "admitted"]
      BY <2>1 DEF CreateAttempt, CanCreateAttempt
    <2>6. /\ status'[t] = "admitted"
          /\ \A u \in Turn \ {t} : status'[u] = status[u]
      BY <2>5 DEF StoreInv, StoreTypeOK
    <2>7. AdmissionHoldsAttempt'
      <3>1. \A b \in Attempt : attempt'[b].phase # "absent" => attempt'[b].turn \in Turn
        BY <2>2, <2>3 DEF StoreInv, AdmissionHoldsAttempt
      <3>2. ASSUME NEW b \in Attempt, Live(b)'
            PROVE  status'[attempt'[b].turn] = "admitted"
        <4>1. CASE b = a BY <2>3, <2>6, <4>1
        <4>2. CASE b # a
          <5>1. Live(b) /\ attempt'[b].turn = attempt[b].turn BY <2>2, <3>2, <4>2 DEF Live
          <5>2. attempt[b].turn \in Turn /\ status[attempt[b].turn] = "admitted"
            BY <5>1 DEF StoreInv, AdmissionHoldsAttempt, Live
          <5> QED BY <2>6, <5>1, <5>2
        <4> QED BY <4>1, <4>2
      <3>3. ASSUME NEW u \in Turn, status'[u] = "admitted"
            PROVE  \E b \in Attempt : attempt'[b].phase # "absent" /\ attempt'[b].turn = u
        <4>1. CASE u = t BY <2>3, <4>1
        <4>2. CASE u # t
          <5>1. PICK b \in Attempt : attempt[b].phase # "absent" /\ attempt[b].turn = u
            BY <2>6, <3>3, <4>2 DEF StoreInv, AdmissionHoldsAttempt
          <5>2. attempt'[b].phase # "absent" /\ attempt'[b].turn = u
            BY <2>2, <2>5, <5>1
          <5> QED BY <5>2
        <4> QED BY <4>1, <4>2
      <3> QED BY <3>1, <3>2, <3>3 DEF AdmissionHoldsAttempt
    <2>8. LiveAttemptsExclusive'
      <3> SUFFICES ASSUME NEW b \in Attempt, NEW c \in Attempt, b # c, Live(b)', Live(c)'
                   PROVE  /\ threadOf[attempt'[b].turn] # threadOf[attempt'[c].turn]
                          /\ attempt'[b].session = attempt'[c].session =>
                                attempt'[b].session = Null
        BY DEF LiveAttemptsExclusive
      <3>1. CASE b = a BY <2>2, <2>3, <2>5, <3>1 DEF Live, LaneFree
      <3>2. CASE c = a BY <2>2, <2>3, <2>5, <3>2 DEF Live, LaneFree
      <3>3. CASE b # a /\ c # a
        BY <2>2, <3>3 DEF StoreInv, LiveAttemptsExclusive, Live
      <3> QED BY <3>1, <3>2, <3>3
    <2> QED BY <2>4, <2>7, <2>8
  <1>2. CASE \E s \in Session : BindSession(a, s)
    <2>1. PICK s \in Session : BindSession(a, s) BY <1>2
    <2>2. /\ attempt'[a] = [attempt[a] EXCEPT !.session = s]
          /\ \A b \in Attempt \ {a} : attempt'[b] = attempt[b]
      BY <2>1, WriteAttemptRows DEF BindSession, StoreInv
    <2>3. /\ attempt'[a].session = s
          /\ \A f \in {"phase", "turn", "input", "op", "deadline", "disposition"} :
                attempt'[a][f] = attempt[a][f]
      BY <1>0, <2>2 DEF AttemptRow
    <2>4. /\ attempt[a].phase = "open" /\ status' = status
          /\ \A b \in Attempt \ {a} : Live(b) => attempt[b].session # s
      BY <2>1 DEF BindSession, CanBindSession
    <2>5. ClosedIsSettled' /\ SubmissionIsTraceable' /\ FreshRowsEmpty'
      BY <1>n, <1>o, <2>2, <2>3, <2>4, RowPromises
    <2> QED BY <2>2, <2>3, <2>4, <2>5, LiveRowUpdate DEF Live
  <1>3. CASE \E i \in Input : FinalizeInput(a, i)
    <2>1. PICK i \in Input : FinalizeInput(a, i) BY <1>3
    <2>2. /\ attempt'[a] = [attempt[a] EXCEPT !.input = i]
          /\ \A b \in Attempt \ {a} : attempt'[b] = attempt[b]
      BY <2>1, WriteAttemptRows DEF FinalizeInput, StoreInv
    <2>3. /\ attempt'[a].input = i
          /\ \A f \in {"phase", "turn", "session", "op", "deadline", "disposition"} :
                attempt'[a][f] = attempt[a][f]
      BY <1>0, <2>2 DEF AttemptRow
    <2>4. attempt[a].phase = "open" /\ status' = status /\ attempt[a].session # Null
      BY <2>1 DEF FinalizeInput, CanFinalizeInput
    <2>5. ClosedIsSettled' /\ SubmissionIsTraceable' /\ FreshRowsEmpty'
      BY <1>n, <1>o, <2>2, <2>3, <2>4, RowPromises
    <2> QED BY <2>2, <2>3, <2>4, <2>5, LiveRowUpdate DEF Live
  <1>4. CASE \E op \in Op, submission \in BOOLEAN, now \in Nat :
               RecordOperation(a, op, submission, now)
    <2>1. PICK op \in Op, submission \in BOOLEAN, now \in Nat :
               RecordOperation(a, op, submission, now) BY <1>4
    <2>2. /\ attempt'[a] = [attempt[a] EXCEPT !.op = op, !.disposition = "unknown",
                              !.deadline = IF submission THEN now + Budget ELSE @]
          /\ \A b \in Attempt \ {a} : attempt'[b] = attempt[b]
      BY <2>1, WriteAttemptRows DEF RecordOperation, StoreInv
    <2>3. /\ attempt'[a].op = op
          /\ submission \/ attempt'[a].deadline = attempt[a].deadline
          /\ \A f \in {"phase", "turn", "session", "input"} : attempt'[a][f] = attempt[a][f]
      BY <1>0, <2>2 DEF AttemptRow
    <2>4. /\ attempt[a].phase = "open" /\ status' = status
          /\ submission => attempt[a].session # Null /\ attempt[a].input # Null
      BY <2>1 DEF RecordOperation, CanRecordOperation
    <2>5. ClosedIsSettled' /\ SubmissionIsTraceable' /\ FreshRowsEmpty'
      BY <1>n, <1>o, <2>2, <2>3, <2>4, RowPromises
    <2> QED BY <2>2, <2>3, <2>4, <2>5, LiveRowUpdate DEF Live
  <1>5. CASE \E o \in Observation : o.attempt = a /\ AcceptObservation(o)
    <2>1. PICK o \in Observation : o.attempt = a /\ AcceptObservation(o) BY <1>5
    <2>2. /\ attempt'[a] = [attempt[a] EXCEPT !.disposition = ObservedDisposition(o),
                !.outcome = Coalesce(@, o.outcome), !.fence = Coalesce(@, o.fence)]
          /\ \A b \in Attempt \ {a} : attempt'[b] = attempt[b]
      BY <2>1, WriteAttemptRows DEF AcceptObservation, StoreInv
    <2>3. \A f \in {"phase", "turn", "session", "input", "op", "deadline"} :
              attempt'[a][f] = attempt[a][f]
      BY <1>0, <2>2 DEF AttemptRow
    <2>4. Live(a) /\ status' = status /\ attempt[a].op # Null
      BY <1>n, <2>1 DEF AcceptObservation, ObservationCounts, Observation
    <2>5. ClosedIsSettled' /\ SubmissionIsTraceable' /\ FreshRowsEmpty'
      BY <1>o, <2>2, <2>3, <2>4, RowPromises DEF Live
    <2> QED BY <2>2, <2>3, <2>4, <2>5, LiveRowUpdate DEF Live
  <1>6. CASE \E cause \in Cause, outcome \in Ref \cup {Null} : MarkClosing(a, cause, outcome)
    <2>1. PICK cause \in Cause, outcome \in Ref \cup {Null} : MarkClosing(a, cause, outcome)
      BY <1>6
    <2>2. /\ attempt'[a] = [attempt[a] EXCEPT !.phase = "closing",
                !.cause = Coalesce(@, cause), !.outcome = Coalesce(@, outcome)]
          /\ \A b \in Attempt \ {a} : attempt'[b] = attempt[b]
      BY <2>1, WriteAttemptRows DEF MarkClosing, StoreInv
    <2>3. /\ attempt'[a].phase = "closing"
          /\ \A f \in {"turn", "session", "input", "op", "deadline", "disposition"} :
                attempt'[a][f] = attempt[a][f]
      BY <1>0, <2>2 DEF AttemptRow
    <2>4. Live(a) /\ status' = status BY <2>1 DEF MarkClosing
    <2>5. ClosedIsSettled' /\ SubmissionIsTraceable' /\ FreshRowsEmpty'
      BY <1>o, <2>2, <2>3, RowPromises
    <2> QED BY <2>2, <2>3, <2>4, <2>5, LiveRowUpdate
  <1>7. CASE \E cause \in Cause, requeue \in BOOLEAN : CloseWithoutEffects(a, cause, requeue)
    <2>1. PICK cause \in Cause, requeue \in BOOLEAN : CloseWithoutEffects(a, cause, requeue)
      BY <1>7
    <2>2. /\ attempt'[a] = [attempt[a] EXCEPT !.phase = "closed",
                !.disposition = "not_accepted", !.cause = Coalesce(@, cause)]
          /\ \A b \in Attempt \ {a} : attempt'[b] = attempt[b]
      BY <2>1, WriteAttemptRows DEF CloseWithoutEffects, StoreInv
    <2>3. /\ attempt'[a].phase = "closed" /\ attempt'[a].disposition = "not_accepted"
          /\ \A f \in {"turn", "session", "input", "op", "deadline"} :
                attempt'[a][f] = attempt[a][f]
      BY <1>0, <2>2 DEF AttemptRow
    <2>4. Live(a) /\ attempt[a].turn \in Turn
      BY <2>1 DEF CloseWithoutEffects, CanCloseWithoutEffects, StoreInv,
                  AdmissionHoldsAttempt, Live
    <2>5. ClosedIsSettled' /\ SubmissionIsTraceable' /\ FreshRowsEmpty'
      BY <1>o, <2>2, <2>3, RowPromises
    <2>6. LiveAttemptsExclusive'
      <3> SUFFICES ASSUME NEW b \in Attempt, NEW c \in Attempt, b # c, Live(b)', Live(c)'
                   PROVE  /\ threadOf[attempt'[b].turn] # threadOf[attempt'[c].turn]
                          /\ attempt'[b].session = attempt'[c].session =>
                                attempt'[b].session = Null
        BY DEF LiveAttemptsExclusive
      <3>1. b # a /\ c # a BY <2>3 DEF Live
      <3> QED BY <2>2, <3>1 DEF StoreInv, LiveAttemptsExclusive, Live
    <2>7. \A b \in Attempt \ {a} : Live(b) => attempt[b].turn # attempt[a].turn
      BY <2>4 DEF StoreInv, LiveAttemptsExclusive
    <2>8. /\ \A u \in Turn \ {attempt[a].turn} : status'[u] = status[u]
          /\ status'[attempt[a].turn] = "admitted" => status[attempt[a].turn] = "admitted"
      BY <2>1, <2>4 DEF CloseWithoutEffects, StoreInv, StoreTypeOK
    <2>9. AdmissionHoldsAttempt'
      <3>1. \A b \in Attempt : attempt'[b].phase # "absent" => attempt'[b].turn \in Turn
        BY <2>2, <2>3, <2>4 DEF StoreInv, AdmissionHoldsAttempt
      <3>2. ASSUME NEW b \in Attempt, Live(b)'
            PROVE  status'[attempt'[b].turn] = "admitted"
        <4>1. b # a BY <2>3, <3>2 DEF Live
        <4>2. Live(b) /\ attempt'[b].turn = attempt[b].turn BY <2>2, <3>2, <4>1 DEF Live
        <4>3. attempt[b].turn \in Turn \ {attempt[a].turn}
          BY <2>7, <4>1, <4>2 DEF StoreInv, AdmissionHoldsAttempt, Live
        <4> QED BY <2>8, <4>2, <4>3 DEF StoreInv, AdmissionHoldsAttempt
      <3>3. ASSUME NEW u \in Turn, status'[u] = "admitted"
            PROVE  \E b \in Attempt : attempt'[b].phase # "absent" /\ attempt'[b].turn = u
        <4>1. status[u] = "admitted" BY <2>8, <3>3
        <4>2. PICK b \in Attempt : attempt[b].phase # "absent" /\ attempt[b].turn = u
          BY <4>1 DEF StoreInv, AdmissionHoldsAttempt
        <4>3. attempt'[b].phase # "absent" /\ attempt'[b].turn = u BY <2>2, <2>3, <4>2
        <4> QED BY <4>3
      <3> QED BY <3>1, <3>2, <3>3 DEF AdmissionHoldsAttempt
    <2> QED BY <2>5, <2>6, <2>9
  <1>8. CASE \E i \in Input \cup {Null}, op \in Op, proof \in SUBSET ReleaseBarriers,
                fence \in Ref : CloseWithFence(a, i, op, proof, fence)
    <2>1. PICK i \in Input \cup {Null}, op \in Op, proof \in SUBSET ReleaseBarriers,
                fence \in Ref : CloseWithFence(a, i, op, proof, fence)
      BY <1>8
    <2>2. /\ attempt'[a] = [attempt[a] EXCEPT !.phase = "closed", !.fence = fence]
          /\ \A b \in Attempt \ {a} : attempt'[b] = attempt[b]
      BY <2>1, WriteAttemptRows DEF CloseWithFence, StoreInv
    <2>3. /\ attempt'[a].phase = "closed" /\ attempt'[a].fence = fence
          /\ \A f \in {"turn", "session", "input", "op", "deadline", "disposition"} :
                attempt'[a][f] = attempt[a][f]
      BY <1>0, <2>2 DEF AttemptRow
    <2>4. Live(a) /\ status' = status /\ attempt[a].op # Null
      BY <2>1 DEF CloseWithFence, CanCloseWithFence, Live
    <2>5. ClosedIsSettled' /\ SubmissionIsTraceable' /\ FreshRowsEmpty'
      BY <1>n, <1>o, <2>2, <2>3, <2>4, RowPromises
    <2> QED BY <2>2, <2>3, <2>4, <2>5, LiveRowUpdate
  <1> QED
    BY <1>1, <1>2, <1>3, <1>4, <1>5, <1>6, <1>7, <1>8, ConstantAssumption
       DEF AttemptCommand, TimedCommand

\* The inductive invariant is about the store alone.
LEMMA StoreFramed ==
    ASSUME StoreInv, UNCHANGED storeVars
    PROVE  StoreInv'
  BY DEF storeVars, StoreInv, StoreTypeOK, AdmissionHoldsAttempt, Live,
         LiveAttemptsExclusive, ClosedIsSettled, SubmissionIsTraceable, FreshRowsEmpty

\* An empty store satisfies it.
LEMMA StoreInitInv == StoreInit => StoreInv
  BY DEF StoreInit, NoRow, StoreInv, StoreTypeOK, AdmissionHoldsAttempt, Live,
         LiveAttemptsExclusive, ClosedIsSettled, SubmissionIsTraceable, FreshRowsEmpty,
         AttemptRow, Phase, Disposition, Status

\* Init implies the inductive invariant, every step keeps it.
LEMMA StoreInvHolds == StoreSpec => []StoreInv
  <1>1. StoreInit => StoreInv BY StoreInitInv
  <1>2. StoreInv /\ [StoreNext]_storeVars => StoreInv'
    <2> SUFFICES ASSUME StoreInv, [StoreNext]_storeVars PROVE StoreInv'
      OBVIOUS
    <2>1. CASE \E t \in Turn : AdmissionCommand(t) BY <2>1, AdmissionPreserves
    <2>2. CASE \E a \in Attempt : AttemptCommand(a)
      BY <2>2, AttemptPreserves DEF TimedCommand
    <2>3. CASE UNCHANGED storeVars BY <2>3, StoreFramed
    <2> QED BY <2>1, <2>2, <2>3 DEF StoreNext
  <1> QED BY <1>1, <1>2, PTL DEF StoreSpec

\* Every command keeps both tables well typed.
THEOREM TypeCorrectness == StoreSpec => []StoreTypeOK
  BY StoreInvHolds, PTL DEF StoreInv

\* A live attempt always belongs to an admitted entry and an admitted entry
\* always has an attempt: cancel, deny, retry and requeue cannot separate them.
THEOREM AdmissionLink == StoreSpec => []AdmissionHoldsAttempt
  BY StoreInvHolds, PTL DEF StoreInv

\* Never two live attempts on one Thread or one AgentSession.
THEOREM Exclusion == StoreSpec => []LiveAttemptsExclusive
  BY StoreInvHolds, PTL DEF StoreInv

\* A closed attempt was refused definitely or released behind a fence.
THEOREM ClosureIsSettled == StoreSpec => []ClosedIsSettled
  BY StoreInvHolds, PTL DEF StoreInv

\* An attempt that may have submitted names session, package and operation.
THEOREM SubmissionTrace == StoreSpec => []SubmissionIsTraceable
  BY StoreInvHolds, PTL DEF StoreInv

-----------------------------------------------------------------------------
(* What no step may do.                                                    *)

\* An attempt command addresses one row that is not closed, and keeps the
\* facts already recorded in it.
LEMMA AttemptCommandKeeps ==
    ASSUME StoreInv, NEW a \in Attempt, TimedCommand(a)
    PROVE  /\ attempt[a].phase # "closed"
           /\ \A b \in Attempt \ {a} : attempt'[b] = attempt[b]
           /\ FactsKept(a)
  <1>0. attempt[a] \in AttemptRow BY DEF StoreInv, StoreTypeOK
  <1>1. CASE \E t \in Turn : CreateAttempt(a, t)
    <2>1. PICK t \in Turn : CreateAttempt(a, t) BY <1>1
    <2>2. attempt[a].phase = "absent" BY <2>1 DEF CreateAttempt, CanCreateAttempt
    <2>3. attempt[a] = NoRow BY <2>2 DEF StoreInv, FreshRowsEmpty
    <2>4. FactsKept(a) BY <2>3 DEF FactsKept, NoRow
    <2> QED BY <2>1, <2>2, <2>4, WriteAttemptRows DEF CreateAttempt, StoreInv
  <1>2. CASE \E s \in Session : BindSession(a, s)
    <2>1. PICK s \in Session : BindSession(a, s) BY <1>2
    <2>2. /\ attempt'[a] = [attempt[a] EXCEPT !.session = s]
          /\ \A b \in Attempt \ {a} : attempt'[b] = attempt[b]
      BY <2>1, WriteAttemptRows DEF BindSession, StoreInv
    <2>3. attempt[a].phase = "open" /\ attempt[a].session \in {Null, s}
      BY <2>1 DEF BindSession, CanBindSession
    <2>4. FactsKept(a) BY <1>0, <2>2, <2>3 DEF FactsKept, AttemptRow
    <2> QED BY <2>2, <2>3, <2>4
  <1>3. CASE \E i \in Input : FinalizeInput(a, i)
    <2>1. PICK i \in Input : FinalizeInput(a, i) BY <1>3
    <2>2. /\ attempt'[a] = [attempt[a] EXCEPT !.input = i]
          /\ \A b \in Attempt \ {a} : attempt'[b] = attempt[b]
      BY <2>1, WriteAttemptRows DEF FinalizeInput, StoreInv
    <2>3. attempt[a].phase = "open" /\ attempt[a].input \in {Null, i}
      BY <2>1 DEF FinalizeInput, CanFinalizeInput
    <2>4. FactsKept(a) BY <1>0, <2>2, <2>3 DEF FactsKept, AttemptRow
    <2> QED BY <2>2, <2>3, <2>4
  <1>4. CASE \E op \in Op, submission \in BOOLEAN, now \in Nat :
               RecordOperation(a, op, submission, now)
    <2>1. PICK op \in Op, submission \in BOOLEAN, now \in Nat :
               RecordOperation(a, op, submission, now) BY <1>4
    <2>2. /\ attempt'[a] = [attempt[a] EXCEPT !.op = op, !.disposition = "unknown",
                              !.deadline = IF submission THEN now + Budget ELSE @]
          /\ \A b \in Attempt \ {a} : attempt'[b] = attempt[b]
      BY <2>1, WriteAttemptRows DEF RecordOperation, StoreInv
    <2>3. attempt[a].phase = "open" /\ (submission => attempt[a].deadline = Null)
      BY <2>1 DEF RecordOperation, CanRecordOperation
    <2>4. FactsKept(a) BY <1>0, <2>2, <2>3 DEF FactsKept, AttemptRow
    <2> QED BY <2>2, <2>3, <2>4
  <1>5. CASE \E o \in Observation : o.attempt = a /\ AcceptObservation(o)
    <2>1. PICK o \in Observation : o.attempt = a /\ AcceptObservation(o) BY <1>5
    <2>2. /\ attempt'[a] = [attempt[a] EXCEPT !.disposition = ObservedDisposition(o),
                !.outcome = Coalesce(@, o.outcome), !.fence = Coalesce(@, o.fence)]
          /\ \A b \in Attempt \ {a} : attempt'[b] = attempt[b]
      BY <2>1, WriteAttemptRows DEF AcceptObservation, StoreInv
    <2>3. Live(a) BY <2>1 DEF AcceptObservation
    <2>4. attempt[a].disposition = "accepted" => ObservedDisposition(o) = "accepted"
      BY <2>1 DEF AcceptObservation, ObservationCounts, ObservedDisposition,
                  Observation, Disposition
    <2>5. FactsKept(a) BY <1>0, <2>2, <2>4 DEF FactsKept, AttemptRow, Coalesce
    <2> QED BY <2>2, <2>3, <2>5 DEF Live
  <1>6. CASE \E cause \in Cause, outcome \in Ref \cup {Null} : MarkClosing(a, cause, outcome)
    <2>1. PICK cause \in Cause, outcome \in Ref \cup {Null} : MarkClosing(a, cause, outcome)
      BY <1>6
    <2>2. /\ attempt'[a] = [attempt[a] EXCEPT !.phase = "closing",
                !.cause = Coalesce(@, cause), !.outcome = Coalesce(@, outcome)]
          /\ \A b \in Attempt \ {a} : attempt'[b] = attempt[b]
      BY <2>1, WriteAttemptRows DEF MarkClosing, StoreInv
    <2>3. FactsKept(a) BY <1>0, <2>2 DEF FactsKept, AttemptRow, Coalesce
    <2> QED BY <2>1, <2>2, <2>3 DEF MarkClosing, Live
  <1>7. CASE \E cause \in Cause, requeue \in BOOLEAN : CloseWithoutEffects(a, cause, requeue)
    <2>1. PICK cause \in Cause, requeue \in BOOLEAN : CloseWithoutEffects(a, cause, requeue)
      BY <1>7
    <2>2. /\ attempt'[a] = [attempt[a] EXCEPT !.phase = "closed",
                !.disposition = "not_accepted", !.cause = Coalesce(@, cause)]
          /\ \A b \in Attempt \ {a} : attempt'[b] = attempt[b]
      BY <2>1, WriteAttemptRows DEF CloseWithoutEffects, StoreInv
    <2>3. Live(a) /\ attempt[a].disposition # "accepted"
      BY <2>1 DEF CloseWithoutEffects, CanCloseWithoutEffects
    <2>4. FactsKept(a) BY <1>0, <2>2, <2>3 DEF FactsKept, AttemptRow, Coalesce
    <2> QED BY <2>2, <2>3, <2>4 DEF Live
  <1>8. CASE \E i \in Input \cup {Null}, op \in Op, proof \in SUBSET ReleaseBarriers,
                fence \in Ref : CloseWithFence(a, i, op, proof, fence)
    <2>1. PICK i \in Input \cup {Null}, op \in Op, proof \in SUBSET ReleaseBarriers,
                fence \in Ref : CloseWithFence(a, i, op, proof, fence)
      BY <1>8
    <2>2. /\ attempt'[a] = [attempt[a] EXCEPT !.phase = "closed", !.fence = fence]
          /\ \A b \in Attempt \ {a} : attempt'[b] = attempt[b]
      BY <2>1, WriteAttemptRows DEF CloseWithFence, StoreInv
    <2>3. attempt[a].phase = "closing" /\ attempt[a].fence \in {Null, fence}
      BY <2>1 DEF CloseWithFence, CanCloseWithFence
    <2>4. FactsKept(a) BY <1>0, <2>2, <2>3 DEF FactsKept, AttemptRow
    <2> QED BY <2>2, <2>3, <2>4
  <1> QED
    BY <1>1, <1>2, <1>3, <1>4, <1>5, <1>6, <1>7, <1>8, ConstantAssumption
       DEF AttemptCommand, TimedCommand

\* Every step of the store leaves closed rows alone and keeps recorded facts.
LEMMA StepKeeps ==
    ASSUME StoreInv, StoreNext
    PROVE  \A a \in Attempt : /\ attempt[a].phase = "closed" => attempt'[a] = attempt[a]
                              /\ FactsKept(a)
  <1>1. CASE \E t \in Turn : AdmissionCommand(t)
    <2>1. attempt' = attempt BY <1>1, AdmissionKeepsAdmitted DEF StoreInv
    <2> QED BY <2>1 DEF FactsKept
  <1>2. CASE \E b \in Attempt : AttemptCommand(b)
    <2>1. PICK b \in Attempt : AttemptCommand(b) BY <1>2
    <2>2. /\ attempt[b].phase # "closed" /\ FactsKept(b)
          /\ \A c \in Attempt \ {b} : attempt'[c] = attempt[c]
      BY <2>1, AttemptCommandKeeps DEF TimedCommand
    <2> SUFFICES ASSUME NEW a \in Attempt, a # b
                 PROVE  attempt'[a] = attempt[a] /\ FactsKept(a)
      BY <2>2
    <2> QED BY <2>2 DEF FactsKept
  <1> QED BY <1>1, <1>2 DEF StoreNext

\* No command reopens or rewrites a closed attempt.
THEOREM ClosureIsFinal == StoreSpec => ClosedIsFinal
  <1>1. StoreInv /\ [StoreNext]_storeVars =>
          [\A a \in Attempt : attempt[a].phase = "closed" => attempt'[a] = attempt[a]]_storeVars
    BY StepKeeps
  <1> QED BY <1>1, StoreInvHolds, PTL DEF StoreSpec, ClosedIsFinal

\* The first cause, outcome, fence, deadline, session and package survive
\* every later command, and acceptance is never forgotten.
THEOREM FactsSurvive == StoreSpec => FirstFactsSurvive
  <1>1. StoreInv /\ [StoreNext]_storeVars => [\A a \in Attempt : FactsKept(a)]_storeVars
    BY StepKeeps
  <1> QED BY <1>1, StoreInvHolds, PTL DEF StoreSpec, FirstFactsSurvive

=============================================================================
