-------------------------- MODULE RecurringSchedule --------------------------
(***************************************************************************)
(* One recurring schedule: the definition its owner creates, pauses,       *)
(* resumes, edits and deletes; the scanner that every few seconds turns    *)
(* due instants into occurrences, and occurrences into queued Turns; and   *)
(* the queue entries those leave behind.  The owner's commands commit      *)
(* between any two steps of a scan, which reads, awaits and decides again. *)
(*                                                                         *)
(* Time is counted in units of the cadence.  Left out: monthly cadences    *)
(* (the same cursor with uneven gaps), other schedules that compete for    *)
(* the scan's limit, the frozen selection of Agent and model, audits, and  *)
(* the reconciliation of a queue entry that already exists, which no       *)
(* pending occurrence has.                                                 *)
(***************************************************************************)
EXTENDS Integers, FiniteSets, FiniteSetsExt

CONSTANTS
    MaxTime,        \* bound of the clock
    LastInstant,    \* end of the calendar: no nominal instant lies beyond it
    Deadline,       \* how long after its instant an occurrence may be admitted
    Interval,       \* cadences the owner may choose
    ScanLimit,      \* occurrences that one scan handles
    MaxAttempt,     \* admission attempts of an occurrence
    MaxRevision,    \* bound of the definition's revisions
    MaxFault        \* crashes, refused and lost commands, fenced workspaces

ASSUME RecurringAssumption ==
    /\ {MaxTime, LastInstant, MaxFault} \subseteq Nat
    /\ MaxTime <= LastInstant
    /\ {Deadline, ScanLimit, MaxAttempt, MaxRevision} \subseteq Nat \ {0}
    /\ Interval \subseteq Nat \ {0}

VARIABLES
    now,
    authority,      \* the schedule's actor may run Turns
    schedule,       \* the definition with its cursor
    occurrence,     \* occurrence[x]: the one of instant x
    ranges,         \* expired ranges: instants missed altogether
    entry,          \* entry[x]: the queue entry of an accepted occurrence
    published,      \* instants whose Turn is published
    scanner,
    faults,
    anchor,         \* history: the instant given at the last resumption
    owed            \* history: nominal instants that passed while the schedule was active

vars == <<now, authority, schedule, occurrence, ranges, entry, published, scanner, faults, anchor, owed>>

Instant == 0..LastInstant
NoInstant == -1

Settled == {"accepted", "failed", "expired", "cancelled", "recovery"}
OccurrenceRow == [state : {"none", "pending"} \cup Settled, attempts : 0..MaxAttempt,
                  revision : 0..MaxRevision]
ScheduleRow == [status : {"absent", "paused", "active", "deleted"}, revision : 0..MaxRevision,
                interval : Interval,
                next : Instant \cup {NoInstant}, greatest : Instant \cup {NoInstant}]
ExpiredRow == [first : Instant, last : Instant, interval : Interval, count : Nat]

\* "out": admitted, denied or cancelled; "again": put back by the dispatcher.
EntryStatus == {"none", "queued", "again", "out"}
Preparation == {"none", "ready", "failure", "recovery"}

\* Nobody reads the attempts or the revision of an occurrence that is not pending.
Row(state) == [state |-> state, attempts |-> 0, revision |-> 0]
NoPlan == [at |-> 0, live |-> {}, stale |-> {}, due |-> FALSE, rows |-> [x \in {} |-> Row("none")],
           definition |-> {}]

IdleScanner == [pc |-> "idle", plan |-> NoPlan, todo |-> {}, preparation |-> "none",
                current |-> "none", at |-> 0, had |-> FALSE]

Init ==
    /\ now = 0
    /\ authority = TRUE
    /\ schedule \in [status : {"absent"}, revision : {0}, interval : Interval,
                     next : {NoInstant}, greatest : {NoInstant}]
    /\ occurrence = [x \in Instant |-> Row("none")]
    /\ ranges = {}
    /\ entry = [x \in Instant |-> "none"]
    /\ published = {}
    /\ scanner = IdleScanner
    /\ faults = 0
    /\ anchor = NoInstant
    /\ owed = {}

-----------------------------------------------------------------------------
(* The cadence *)

\* Mutant: the end of the calendar is not noticed.
SuccessorUnbounded(s, x) == x + s.interval

Successor(s, x) == IF x + s.interval <= LastInstant THEN x + s.interval ELSE NoInstant

Oldest(S, n) == {x \in S : Cardinality({y \in S : y < x}) < n}

\* The cursor moves past x.
Advance(s, x) == [s EXCEPT !.greatest = x, !.next = Successor(s, x)]

\* The instants from the cursor on that are due at t and in the calendar.
DueInstants(s, t) ==
    IF s.next = NoInstant THEN {}
    ELSE {x \in Instant : s.next <= x /\ x <= t /\ (x - s.next) % s.interval = 0}

Overdue(s, t) == s.next # NoInstant /\ s.next <= t - Deadline
LastOverdue(s, t) == s.next + ((t - Deadline - s.next) \div s.interval) * s.interval

\* What is too old to be admitted is recorded as one range.
ExpiredRange(s, t) ==
    IF ~Overdue(s, t) THEN {}
    ELSE {[first |-> s.next, last |-> LastOverdue(s, t), interval |-> s.interval,
           count |-> (LastOverdue(s, t) - s.next) \div s.interval + 1]}

\* Mutant: the cursor is moved to the range's end and not past it.
AccountPrefixInclusive(s, t) ==
    IF Overdue(s, t) THEN [s EXCEPT !.greatest = LastOverdue(s, t), !.next = LastOverdue(s, t)] ELSE s

AccountPrefix(s, t) == IF Overdue(s, t) THEN Advance(s, LastOverdue(s, t)) ELSE s

-----------------------------------------------------------------------------
(* The owner's commands *)

\* Mutant: pausing leaves the pending occurrences to the scanner.
SealedKeepingPending(x, live) ==
    IF x \in live THEN Row("cancelled") ELSE occurrence[x]

Sealed(x, live) ==
    IF x \in live \/ occurrence[x].state = "pending" THEN Row("cancelled") ELSE occurrence[x]

\* All instants of the old cadence up to now are accounted for: missed ones as
\* a range, live ones and pending occurrences as cancelled.  A schedule that is
\* not active has no cursor.
Seal(status) ==
    LET s == AccountPrefix(schedule, now)
        live == DueInstants(s, now)
    IN  /\ ranges' = ranges \cup ExpiredRange(schedule, now)
        /\ occurrence' = [x \in Instant |-> Sealed(x, live)]
        /\ schedule' = [s EXCEPT !.status = status, !.revision = @ + 1, !.next = NoInstant,
                                 !.greatest = IF live = {} THEN @ ELSE Max(live)]

Create ==
    /\ schedule.status = "absent"
    /\ now + schedule.interval <= LastInstant
    /\ schedule' = [schedule EXCEPT !.status = "paused", !.revision = 1]
    /\ UNCHANGED <<now, authority, occurrence, ranges, entry, published, scanner, faults, anchor, owed>>

Pause ==
    /\ schedule.status \in {"active", "paused"}
    /\ schedule.revision < MaxRevision
    /\ Seal("paused")
    /\ UNCHANGED <<now, authority, entry, published, scanner, faults, anchor, owed>>

\* The new anchor repeats no instant that was accounted for.
Resume(x) ==
    /\ schedule.status = "paused"
    /\ schedule.revision < MaxRevision
    /\ x >= now
    /\ x > schedule.greatest
    /\ Successor(schedule, x) # NoInstant
    /\ schedule' = [schedule EXCEPT !.status = "active", !.revision = @ + 1, !.next = x]
    /\ anchor' = x
    /\ owed' = IF x = now THEN owed \cup {x} ELSE owed
    /\ UNCHANGED <<now, authority, occurrence, ranges, entry, published, scanner, faults>>

Edit(interval) ==
    /\ schedule.status = "paused"
    /\ schedule.revision < MaxRevision
    /\ now + interval <= LastInstant
    /\ schedule' = [schedule EXCEPT !.interval = interval, !.revision = @ + 1]
    /\ UNCHANGED <<now, authority, occurrence, ranges, entry, published, scanner, faults, anchor, owed>>

Delete ==
    /\ schedule.status \in {"active", "paused"}
    /\ schedule.revision < MaxRevision
    /\ Seal("deleted")
    /\ UNCHANGED <<now, authority, entry, published, scanner, faults, anchor, owed>>

\* As a bound, authority that is lost does not come back.
LoseAuthority ==
    /\ authority
    /\ authority' = FALSE
    /\ UNCHANGED <<now, schedule, occurrence, ranges, entry, published, scanner, faults, anchor, owed>>

OwnerStep ==
    \/ Create \/ Pause \/ Delete \/ LoseAuthority
    \/ \E x \in Instant : Resume(x)
    \/ \E interval \in Interval : Edit(interval)

-----------------------------------------------------------------------------
(* The scanner *)

Pending == {x \in Instant : occurrence[x].state = "pending"}

\* Mutant: expiry is left to the attempts, for which overdue occurrences are not selected.
StaleLeft(t) == {}

Stale(t) == Oldest({x \in Pending : x + Deadline <= t}, ScanLimit)

\* What a scan at time t reads: pending and stale occurrences, and the
\* definition if it is due or owns one of them.
Plan(t) ==
    LET live == Oldest({x \in Pending : x <= t /\ t < x + Deadline /\ schedule.status = "active"}, ScanLimit)
        due == schedule.status = "active" /\ DueInstants(schedule, t) # {}
    IN  [at |-> t, live |-> live, stale |-> Stale(t), due |-> due,
         rows |-> [x \in live \cup Stale(t) |-> occurrence[x]],
         definition |-> IF due \/ live # {} THEN {schedule} ELSE {}]

\* One timestamp serves the whole publication.
ScanPlan ==
    /\ scanner.pc = "idle"
    /\ Plan(now).live \cup Plan(now).stale # {} \/ Plan(now).due
    /\ scanner' = [scanner EXCEPT !.pc = "planned", !.plan = Plan(now)]
    /\ UNCHANGED <<now, authority, schedule, occurrence, ranges, entry, published, faults, anchor, owed>>

\* The scanner with these candidates left.
Scanning(todo) ==
    IF todo = {} THEN IdleScanner ELSE [IdleScanner EXCEPT !.pc = "candidates", !.todo = todo]

\* What the publication selects: the oldest of the live occurrences and the
\* due instants that are not overdue.
Selected(plan) ==
    Oldest(plan.live \cup (IF plan.due THEN DueInstants(AccountPrefix(schedule, plan.at), plan.at) ELSE {}),
           ScanLimit)

PlanHolds(plan) == Plan(plan.at) = plan

\* New occurrences, the range of missed instants and expiries, in one commit.
ScanPublish ==
    /\ scanner.pc = "planned"
    /\ PlanHolds(scanner.plan)
    /\ LET plan == scanner.plan
           new == Selected(plan) \ plan.live
       IN  /\ ranges' = ranges \cup (IF plan.due THEN ExpiredRange(schedule, plan.at) ELSE {})
           /\ schedule' = IF new # {} THEN Advance(schedule, Max(new))
                          ELSE IF plan.due THEN AccountPrefix(schedule, plan.at) ELSE schedule
           /\ occurrence' = [x \in Instant |->
                 IF x \in new THEN [state |-> "pending", attempts |-> 0, revision |-> schedule.revision]
                 ELSE IF x \in plan.stale THEN Row("expired")
                 ELSE occurrence[x]]
           /\ scanner' = Scanning(Selected(plan))
    /\ UNCHANGED <<now, authority, entry, published, faults, anchor, owed>>

\* Rows changed since they were read: the scan ends.
ScanConflict ==
    /\ scanner.pc = "planned"
    /\ ~PlanHolds(scanner.plan)
    /\ scanner' = IdleScanner
    /\ UNCHANGED <<now, authority, schedule, occurrence, ranges, entry, published, faults, anchor, owed>>

Candidate == Min(scanner.todo)
Valid == schedule.status = "active" /\ authority

NextCandidate == scanner' = Scanning(scanner.todo \ {Candidate})

\* Resolving the selection may fail, or throw.
Prepare(outcome) ==
    /\ scanner.pc = "candidates"
    /\ ~Valid => outcome = "failure"
    /\ scanner' = [scanner EXCEPT !.pc = "prepared", !.preparation = outcome]
    /\ UNCHANGED <<now, authority, schedule, occurrence, ranges, entry, published, faults, anchor, owed>>

\* The attempt is posted with a fresh validation and timestamp.
PostAttempt ==
    /\ scanner.pc = "prepared"
    /\ scanner' = [scanner EXCEPT !.pc = "posted", !.at = now, !.had = entry[Candidate] # "none",
          !.preparation = "none",
          !.current = IF scanner.preparation # "recovery" /\ ~Valid THEN "failure" ELSE scanner.preparation]
    /\ UNCHANGED <<now, authority, schedule, occurrence, ranges, entry, published, faults, anchor, owed>>

Waiting == {x \in Instant : entry[x] \in {"queued", "again"}}

\* Mutant: the attempt is decided by the validation at its posting.
DecisionPosted(full) ==
    IF scanner.current = "recovery" THEN "recovery"
    ELSE IF scanner.current = "ready" /\ Waiting = {} /\ ~full THEN "accepted"
    ELSE IF occurrence[Candidate].attempts + 1 = MaxAttempt THEN "failed" ELSE "pending"

\* Authority is checked again in the commit; the queue may be full of other work.
Decision(full) ==
    IF scanner.current = "recovery" THEN "recovery"
    ELSE IF scanner.current = "ready" /\ authority /\ Waiting = {} /\ ~full THEN "accepted"
    ELSE IF occurrence[Candidate].attempts + 1 = MaxAttempt THEN "failed" ELSE "pending"

Decidable(x) ==
    /\ occurrence[x].state = "pending"
    /\ schedule.status = "active"
    /\ occurrence[x].revision = schedule.revision

\* One transaction: the attempt's outcome and the queue entry.
ApplyAttempt(x, full) ==
    IF ~Decidable(x)
    THEN UNCHANGED <<occurrence, entry>>
    ELSE IF scanner.at >= x + Deadline
    THEN /\ occurrence' = [occurrence EXCEPT ![x] = Row("expired")]
         /\ UNCHANGED entry
    ELSE /\ occurrence' = [occurrence EXCEPT ![x] = IF Decision(full) = "pending"
                THEN [occurrence[x] EXCEPT !.attempts = @ + 1] ELSE Row(Decision(full))]
         /\ entry' = IF Decision(full) = "accepted" THEN [entry EXCEPT ![x] = "queued"] ELSE entry

CommitAttempt(full) ==
    /\ scanner.pc = "posted"
    /\ ApplyAttempt(Candidate, full)
    /\ IF occurrence'[Candidate].state = "accepted" /\ ~scanner.had
       THEN scanner' = [scanner EXCEPT !.pc = "publish"]
       ELSE NextCandidate
    /\ UNCHANGED <<now, authority, schedule, ranges, published, faults, anchor, owed>>

\* The one attempt to publish the accepted Turn.
PublishTurn ==
    /\ scanner.pc = "publish"
    /\ published' = published \cup {Candidate}
    /\ NextCandidate
    /\ UNCHANGED <<now, authority, schedule, occurrence, ranges, entry, faults, anchor, owed>>

ScannerStep ==
    \/ ScanPlan \/ ScanPublish \/ ScanConflict \/ PostAttempt \/ PublishTurn
    \/ \E outcome \in {"ready", "failure", "recovery"} : Prepare(outcome)
    \/ \E full \in BOOLEAN : CommitAttempt(full)

-----------------------------------------------------------------------------
(* Faults *)

\* The workspace is fenced, or a command fails before it is committed.
CandidateFails ==
    /\ faults < MaxFault
    /\ scanner.pc \in {"candidates", "posted", "publish"}
    /\ faults' = faults + 1
    /\ NextCandidate
    /\ UNCHANGED <<now, authority, schedule, occurrence, ranges, entry, published, anchor, owed>>

\* The command commits and its answer is lost: nothing is published.
AnswerLost ==
    /\ faults < MaxFault
    /\ scanner.pc = "posted"
    /\ faults' = faults + 1
    /\ ApplyAttempt(Candidate, FALSE)
    /\ NextCandidate
    /\ UNCHANGED <<now, authority, schedule, ranges, published, anchor, owed>>

\* Core crashes or stops; a posted attempt may have been the last commit.
Crash ==
    /\ faults < MaxFault
    /\ scanner.pc # "idle"
    /\ faults' = faults + 1
    /\ scanner' = IdleScanner
    /\ \/ scanner.pc = "posted" /\ ApplyAttempt(Candidate, FALSE)
       \/ UNCHANGED <<occurrence, entry>>
    /\ UNCHANGED <<now, authority, schedule, ranges, published, anchor, owed>>

-----------------------------------------------------------------------------
(* The queue and the clock *)

\* Mutant: a retry does not compete for the schedule's slot.
CanRetryAnyway(x) == entry[x] = "out"

CanRetry(x) == entry[x] = "out" /\ Waiting = {}

QueueStep(x) ==
    /\ \/ x \in Waiting /\ entry' = [entry EXCEPT ![x] = "out"]
       \/ CanRetry(x) /\ entry' = [entry EXCEPT ![x] = "queued"]
       \/ entry[x] = "out" /\ entry' = [entry EXCEPT ![x] = "again"]
    /\ UNCHANGED <<now, authority, schedule, occurrence, ranges, published, scanner, faults, anchor, owed>>

\* The instant that comes is owed if the cadence in force names it.
Tick ==
    /\ now < MaxTime
    /\ now' = now + 1
    /\ owed' = IF /\ schedule.status = "active"
                  /\ anchor <= now'
                  /\ (now' - anchor) % schedule.interval = 0
               THEN owed \cup {now'} ELSE owed
    /\ UNCHANGED <<authority, schedule, occurrence, ranges, entry, published, scanner, faults, anchor>>

Next ==
    \/ OwnerStep \/ ScannerStep
    \/ CandidateFails \/ AnswerLost \/ Crash
    \/ Tick \/ \E x \in Instant : QueueStep(x)

\* The scanner runs every few seconds, and time passes.
RecurringSpec == Init /\ [][Next]_vars /\ WF_vars(ScannerStep) /\ WF_vars(Tick)

-----------------------------------------------------------------------------
\* Types of the records and of the scanner.
RecurringTypeOK ==
    /\ now \in 0..MaxTime
    /\ authority \in BOOLEAN
    /\ schedule \in ScheduleRow
    /\ occurrence \in [Instant -> OccurrenceRow]
    /\ ranges \subseteq ExpiredRow
    /\ entry \in [Instant -> EntryStatus]
    /\ published \subseteq Instant
    /\ scanner.pc \in {"idle", "planned", "candidates", "prepared", "posted", "publish"}
    /\ scanner.todo \subseteq Instant
    /\ scanner.preparation \in Preparation /\ scanner.current \in Preparation
    /\ faults \in 0..MaxFault
    /\ anchor \in Instant \cup {NoInstant}
    /\ owed \subseteq 0..MaxTime

Covered(r) == {x \in Instant : r.first <= x /\ x <= r.last /\ (x - r.first) % r.interval = 0}

\* No nominal instant is lost or counted twice, through pauses, changes of
\* cadence, overload and restarts: it has one occurrence or lies in one range,
\* or the cursor of the active schedule is yet to reach it.
ExactAccounting ==
    /\ \A x \in Instant :
          LET missed == {r \in ranges : x \in Covered(r)}
          IN  IF occurrence[x].state # "none" THEN x \in owed /\ missed = {}
              ELSE IF missed # {} THEN x \in owed /\ Cardinality(missed) = 1
              ELSE x \in owed => schedule.status = "active" /\ x \in DueInstants(schedule, now)
    /\ \A r \in ranges : r.count = Cardinality(Covered(r))

\* A pending occurrence belongs to the definition in force, and still has attempts left.
PendingIsCurrent ==
    \A x \in Instant : occurrence[x].state = "pending" =>
        /\ schedule.status = "active"
        /\ occurrence[x].revision = schedule.revision
        /\ occurrence[x].attempts < MaxAttempt

\* Only a busy requeue can put a second occurrence of the schedule in the queue.
OneWaitingOccurrence == Cardinality({x \in Instant : entry[x] = "queued"}) <= 1

\* An occurrence is decided once, and a Turn is queued for it only in the step
\* that accepts it, by an active schedule whose actor is authorized then.
DecidedOnce ==
    [][\A x \in Instant :
          /\ occurrence[x].state \in Settled => occurrence'[x] = occurrence[x]
          /\ entry[x] = "none" /\ entry'[x] # "none" =>
                /\ occurrence[x].state = "pending" /\ occurrence'[x].state = "accepted"
                /\ schedule.status = "active" /\ authority]_vars

\* In the end, that is when no more instants come, every nominal instant is settled.
InstantsSettle ==
    <>[](\A x \in owed : occurrence[x].state \in Settled \/ \E r \in ranges : x \in Covered(r))
=============================================================================
