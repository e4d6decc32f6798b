---------------------- MODULE RecurringScheduleProofs ----------------------
(***************************************************************************)
(* Proofs about RecurringSchedule for every clock, calendar, deadline, set *)
(* of cadences, scan limit and number of attempts.  Two invariants:        *)
(*   - RecurringInv: the types, with the scanner's snapshot; the cursor is *)
(*     ahead of every occurrence, so no publication and no sealing touches *)
(*     a decided one; pending occurrences follow the definition; one entry *)
(*     is queued.                                                          *)
(*   - AccountInv, on top of it: what is owed and not yet passed by the    *)
(*     cursor is exactly what the cadence counts from its anchor, and what *)
(*     the cursor passed has an occurrence or lies in one range.           *)
(***************************************************************************)
EXTENDS RecurringSchedule, FiniteSetTheorems, WellFoundedInduction, TLAPS

\* What a scan reads, and the scanner that keeps it.
PlanRow == [at : Nat, live : SUBSET Instant, stale : SUBSET Instant, due : BOOLEAN,
            rows : UNION {[S -> OccurrenceRow] : S \in SUBSET Instant},
            definition : SUBSET ScheduleRow]
ScannerRow ==
    [pc : {"idle", "planned", "candidates", "prepared", "posted", "publish"},
     plan : PlanRow, todo : SUBSET Instant, preparation : Preparation, current : Preparation,
     at : Nat, had : BOOLEAN]

\* A scan has read at a time that has come, and a scan of candidates has one.
ScannerIs(sc, t) ==
    /\ sc \in ScannerRow
    /\ sc.plan.at <= t
    /\ sc.pc \notin {"idle", "planned"} => sc.todo # {}
ScannerOK == ScannerIs(scanner, now)

\* Every occurrence lies behind the cursor, and the cursor ahead of what it passed.
CursorAhead ==
    /\ \A x \in Instant : occurrence[x].state # "none" => x <= schedule.greatest
    /\ schedule.next # NoInstant => schedule.greatest < schedule.next

\* One entry is queued; the second way into the queue, a busy requeue, is marked
\* "again".
OneQueued == \A x, y \in Instant : entry[x] = "queued" /\ entry[y] = "queued" => x = y

RecurringInv ==
    /\ RecurringTypeOK
    /\ ScannerOK
    /\ CursorAhead
    /\ PendingIsCurrent
    /\ OneQueued

\* The instants of the cadence in force that have come and that the cursor has
\* not passed.
Outstanding(s, a, t) ==
    {x \in Instant : /\ s.status = "active"
                     /\ s.greatest < x /\ a <= x /\ x <= t
                     /\ (x - a) % s.interval = 0}

\* The cursor stands at the anchor, or next to an instant of the cadence.
CadenceOK(s, a, t) ==
    /\ s.greatest <= t
    /\ s.status # "active" => s.next = NoInstant
    /\ s.status = "active" =>
          /\ a \in Instant
          /\ \/ s.next = a /\ s.greatest < a
             \/ /\ a <= s.greatest
                /\ (s.greatest - a) % s.interval = 0
                /\ s.next = Successor(s, s.greatest)

\* A range counts what it covers, all of it owed and behind the cursor.
RangeOK(r, s) ==
    /\ r.last <= s.greatest
    /\ r.count = Cardinality(Covered(r))
    /\ \A x \in Covered(r) : x \in owed /\ occurrence[x].state = "none"

AccountInv ==
    /\ CadenceOK(schedule, anchor, now)
    /\ \A x \in owed : x <= now
    /\ Outstanding(schedule, anchor, now) = {x \in owed : schedule.greatest < x}
    /\ \A x \in owed : x <= schedule.greatest =>
          occurrence[x].state # "none" \/ \E r \in ranges : x \in Covered(r)
    /\ \A x \in Instant : occurrence[x].state # "none" => x \in owed
    /\ \A r \in ranges : RangeOK(r, schedule)
    /\ \A r, q \in ranges : r # q => Covered(r) \cap Covered(q) = {}

-----------------------------------------------------------------------------
(* Numbers *)

\* What the assumption says of each constant.
LEMMA Bounds ==
    /\ MaxTime \in Nat /\ LastInstant \in Nat /\ MaxFault \in Nat /\ MaxTime <= LastInstant
    /\ Deadline \in Nat /\ Deadline > 0 /\ ScanLimit \in Nat /\ ScanLimit > 0
    /\ MaxAttempt \in Nat /\ MaxAttempt > 0 /\ MaxRevision \in Nat /\ MaxRevision > 0
    /\ \A i \in Interval : i \in Nat /\ i > 0
  <1>1. /\ MaxTime \in {MaxTime, LastInstant, MaxFault}
        /\ LastInstant \in {MaxTime, LastInstant, MaxFault}
        /\ MaxFault \in {MaxTime, LastInstant, MaxFault}
    OBVIOUS
  <1>2. /\ Deadline \in {Deadline, ScanLimit, MaxAttempt, MaxRevision}
        /\ ScanLimit \in {Deadline, ScanLimit, MaxAttempt, MaxRevision}
        /\ MaxAttempt \in {Deadline, ScanLimit, MaxAttempt, MaxRevision}
        /\ MaxRevision \in {Deadline, ScanLimit, MaxAttempt, MaxRevision}
    OBVIOUS
  <1>3. MaxTime \in Nat /\ LastInstant \in Nat /\ MaxFault \in Nat
    BY <1>1, RecurringAssumption, Zenon
  <1>4. /\ Deadline \in Nat \ {0} /\ ScanLimit \in Nat \ {0} /\ MaxAttempt \in Nat \ {0}
        /\ MaxRevision \in Nat \ {0}
    BY <1>2, RecurringAssumption, Zenon
  <1>5. \A i \in Interval : i \in Nat \ {0} BY RecurringAssumption, Zenon
  <1>6. MaxTime <= LastInstant BY RecurringAssumption, Zenon
  <1> QED BY <1>3, <1>4, <1>5, <1>6

\* Whole intervals that fit into a span do not exceed it.
LEMMA DivBounds ==
    ASSUME NEW n \in Nat, NEW i \in Nat, i > 0
    PROVE  /\ n \div i \in Nat
           /\ (n \div i) * i \in Nat
           /\ (n \div i) * i <= n
  <1>1. /\ n \div i \in Int /\ n % i \in Int
        /\ n = i * (n \div i) + (n % i) /\ 0 <= n % i /\ n % i < i
    BY Z3
  <1> QED BY <1>1, Z3

\* Divisible means a multiple.
LEMMA ModIsMultiple ==
    ASSUME NEW a \in Int, NEW i \in Nat, i > 0
    PROVE  a % i = 0 <=> \E k \in Int : a = k * i
  <1>1. /\ a \div i \in Int /\ a % i \in Int
        /\ a = i * (a \div i) + (a % i) /\ 0 <= a % i /\ a % i < i
    BY Z3
  <1>2. ASSUME NEW k \in Int, a = k * i PROVE a % i = 0
    BY <1>2, Z3
  <1>3. a % i = 0 => a = (a \div i) * i BY <1>1, Z3
  <1> QED BY <1>1, <1>2, <1>3

\* Sums and differences of multiples are multiples.
LEMMA ModSum ==
    ASSUME NEW a \in Int, NEW b \in Int, NEW i \in Nat, i > 0, a % i = 0, b % i = 0
    PROVE  (a + b) % i = 0 /\ (a - b) % i = 0
  <1> PICK k \in Int : a = k * i BY ModIsMultiple
  <1> PICK m \in Int : b = m * i BY ModIsMultiple
  <1>1. a + b = (k + m) * i /\ a - b = (k - m) * i BY Z3
  <1> QED BY <1>1, ModIsMultiple

\* Two instants of a cadence are at least an interval apart.
LEMMA ModGap ==
    ASSUME NEW a \in Int, NEW i \in Nat, i > 0, a % i = 0, a > 0
    PROVE  a >= i
  <1> PICK k \in Int : a = k * i BY ModIsMultiple
  <1>1. k >= 1 BY Z3
  <1> QED BY <1>1, Z3

\* Products with an interval keep the order.
LEMMA MulMono ==
    ASSUME NEW j \in Nat, NEW k \in Nat, NEW i \in Nat, i > 0
    PROVE  j <= k <=> j * i <= k * i
  BY Z3

\* Different numbers of intervals are different spans.
LEMMA MulInj ==
    ASSUME NEW j \in Nat, NEW k \in Nat, NEW i \in Nat, i > 0, j * i = k * i
    PROVE  j = k
  BY Z3

\* A whole number of intervals divides exactly.
LEMMA DivMul ==
    ASSUME NEW k \in Nat, NEW i \in Nat, i > 0
    PROVE  (k * i) \div i = k /\ k * i \in Nat
  BY Z3

\* A set of numbers has a least element.
LEMMA HasLeast ==
    ASSUME NEW S \in SUBSET Nat, S # {}
    PROVE  \E x \in S : \A y \in S : x <= y
  <1> DEFINE R == {ss \in Nat \X Nat : ss[1] < ss[2]}
  <1>1. IsWellFoundedOn(R, Nat) BY NatLessThanWellFounded DEF OpToRel
  <1>2. \A x, y \in Nat : ~ (<<y, x>> \in R) => x <= y OBVIOUS
  <1> HIDE DEF R
  <1>3. \E x \in S : \A y \in S : ~ (<<y, x>> \in R)
    BY <1>1, WFMin
  <1>4. PICK x \in S : \A y \in S : ~ (<<y, x>> \in R) BY <1>3
  <1> QED BY <1>2, <1>4

\* Min names an element.
LEMMA MinIsLeast ==
    ASSUME NEW S \in SUBSET Nat, S # {}
    PROVE  Min(S) \in S
  BY HasLeast DEF Min

\* Max names the greatest element of a set of instants.
LEMMA MaxIsGreatest ==
    ASSUME NEW S \in SUBSET Instant, S # {}
    PROVE  /\ Max(S) \in S
           /\ \A y \in S : y <= Max(S)
  <1> DEFINE T == {LastInstant - y : y \in S}
  <1>1. LastInstant \in Nat BY Bounds
  <1> PICK z \in S : TRUE OBVIOUS
  <1>0. \A y \in S : LastInstant - y \in Nat BY <1>1 DEF Instant
  <1>2. T \in SUBSET Nat /\ T # {}
    <2>1. T \in SUBSET Nat BY <1>0
    <2>2. LastInstant - z \in T OBVIOUS
    <2> QED BY <2>1, <2>2
  <1>3. PICK t \in T : \A y \in T : t <= y BY <1>2, HasLeast
  <1>4. PICK x \in S : t = LastInstant - x OBVIOUS
  <1>5. \A y \in S : LastInstant - y \in T OBVIOUS
  <1>6. \A y \in S : x >= y BY <1>1, <1>3, <1>4, <1>5 DEF Instant
  <1>7. \A y \in S : Max(S) >= y /\ Max(S) \in S BY <1>6 DEF Max
  <1> QED BY <1>7 DEF Instant

-----------------------------------------------------------------------------
(* The cadence *)

\* a is s with its cursor moved forward, or s itself.
MovedOn(s, a) ==
    /\ a \in ScheduleRow
    /\ a.status = s.status /\ a.revision = s.revision /\ a.interval = s.interval
    /\ s.greatest <= a.greatest
    /\ a.next # NoInstant => a.greatest < a.next

\* The cursor is ahead of what it passed.
CursorOK(s) == s.next # NoInstant => s.greatest < s.next

\* Advance moves the cursor on, to just behind x.
LEMMA AdvanceMovesOn ==
    ASSUME NEW s \in ScheduleRow, NEW x \in Instant, s.greatest <= x
    PROVE  MovedOn(s, Advance(s, x)) /\ Advance(s, x).greatest = x
  <1> PICK n \in Instant \cup {NoInstant} : n = Successor(s, x)
    BY Bounds DEF Successor, Instant, ScheduleRow, NoInstant
  <1>1. n # NoInstant => x < n
    BY Bounds DEF Successor, Instant, ScheduleRow, NoInstant
  <1>2. Advance(s, x) = [s EXCEPT !.greatest = x, !.next = n] BY DEF Advance
  <1> QED BY <1>1, <1>2 DEF MovedOn, ScheduleRow

\* The last missed instant lies between the cursor and the deadline.
LEMMA OverdueIsInstant ==
    ASSUME NEW s \in ScheduleRow, NEW t \in 0..MaxTime, Overdue(s, t)
    PROVE  /\ LastOverdue(s, t) \in Instant
           /\ s.next <= LastOverdue(s, t)
           /\ LastOverdue(s, t) <= t - Deadline
           /\ (LastOverdue(s, t) - s.next) \div s.interval + 1 \in Nat
  <1> USE Bounds
  <1>1. s.next \in Nat /\ s.interval \in Nat /\ s.interval > 0 /\ t - Deadline - s.next \in Nat
    BY DEF Overdue, ScheduleRow, Instant, NoInstant
  <1> DEFINE n == t - Deadline - s.next
  <1> PICK k \in Nat : k = (n \div s.interval) * s.interval /\ k <= n
    BY <1>1, DivBounds
  <1>2. LastOverdue(s, t) = s.next + k BY DEF LastOverdue
  <1>3. k \div s.interval \in Nat BY <1>1, DivBounds
  <1>4. LastOverdue(s, t) - s.next = k BY <1>1, <1>2
  <1> QED BY <1>1, <1>2, <1>3, <1>4 DEF Instant

\* Skipping the missed prefix moves the cursor on.
LEMMA AccountPrefixMovesOn ==
    ASSUME NEW s \in ScheduleRow, CursorOK(s), NEW t \in 0..MaxTime
    PROVE  MovedOn(s, AccountPrefix(s, t))
  <1>1. CASE Overdue(s, t)
    <2>1. s.greatest <= LastOverdue(s, t) /\ LastOverdue(s, t) \in Instant
      BY <1>1, OverdueIsInstant, Bounds DEF CursorOK, Overdue, ScheduleRow, Instant, NoInstant
    <2> QED BY <1>1, <2>1, AdvanceMovesOn DEF AccountPrefix
  <1>2. CASE ~Overdue(s, t)
    <2>1. s.greatest \in Int BY Bounds DEF ScheduleRow, Instant, NoInstant
    <2> QED BY <1>2, <2>1 DEF AccountPrefix, MovedOn, CursorOK
  <1> QED BY <1>1, <1>2

\* The recorded range is well typed.
LEMMA ExpiredRangeType ==
    ASSUME NEW s \in ScheduleRow, NEW t \in 0..MaxTime
    PROVE  ExpiredRange(s, t) \subseteq ExpiredRow
  <1>1. CASE Overdue(s, t)
    <2>1. s.next \in Instant BY <1>1 DEF Overdue, ScheduleRow
    <2>2. s.interval \in Interval BY DEF ScheduleRow
    <2> QED BY <1>1, <2>1, <2>2, OverdueIsInstant DEF ExpiredRange, ExpiredRow
  <1>2. CASE ~Overdue(s, t) BY <1>2 DEF ExpiredRange
  <1> QED BY <1>1, <1>2

\* What is due lies ahead of everything the cursor passed.
LEMMA DueIsAhead ==
    ASSUME NEW s \in ScheduleRow, NEW a, MovedOn(s, a), NEW t
    PROVE  /\ DueInstants(a, t) \in SUBSET Instant
           /\ \A x \in DueInstants(a, t) : s.greatest < x /\ a.greatest < x
  BY Bounds DEF MovedOn, DueInstants, ScheduleRow, Instant, NoInstant

-----------------------------------------------------------------------------
(* Initial states *)

\* The idle scanner is well formed.
LEMMA IdleScannerIs ==
    ASSUME NEW t \in Nat
    PROVE  ScannerIs(IdleScanner, t)
  <1>1. [x \in {} |-> Row("none")] \in [{} -> OccurrenceRow] OBVIOUS
  <1>2. [{} -> OccurrenceRow] \in {[S -> OccurrenceRow] : S \in SUBSET Instant} OBVIOUS
  <1>3. NoPlan \in PlanRow BY <1>1, <1>2 DEF NoPlan, PlanRow
  <1>4. IdleScanner \in ScannerRow BY <1>3 DEF IdleScanner, ScannerRow, Preparation
  <1>5. IdleScanner.plan.at = 0 /\ IdleScanner.pc = "idle" BY DEF IdleScanner, NoPlan
  <1> QED BY <1>4, <1>5 DEF ScannerIs

\* The scanner with candidates left is well formed.
LEMMA ScanningIs ==
    ASSUME NEW t \in Nat, NEW todo \in SUBSET Instant
    PROVE  ScannerIs(Scanning(todo), t)
  <1>1. CASE todo = {} BY <1>1, IdleScannerIs DEF Scanning
  <1>2. CASE todo # {}
    <2> PICK sc \in ScannerRow : sc = IdleScanner /\ sc.plan.at <= t
      BY IdleScannerIs DEF ScannerIs
    <2>1. Scanning(todo) = [sc EXCEPT !.pc = "candidates", !.todo = todo] BY <1>2 DEF Scanning
    <2> QED BY <1>2, <2>1 DEF ScannerIs, ScannerRow
  <1> QED BY <1>1, <1>2

\* A settled row is well typed.
LEMMA RowType ==
    ASSUME NEW st \in Settled \cup {"none", "pending"}
    PROVE  Row(st) \in OccurrenceRow /\ Row(st).state = st
  BY Bounds DEF Row, OccurrenceRow

\* The initial states satisfy the invariant.
LEMMA InitInv == Init => RecurringInv
  <1> SUFFICES ASSUME Init PROVE RecurringInv OBVIOUS
  <1> USE DEF Init
  <1>1. schedule \in ScheduleRow /\ schedule.next = NoInstant /\ schedule.greatest = NoInstant
    BY Bounds DEF ScheduleRow
  <1>2. ScannerOK BY IdleScannerIs DEF ScannerOK
  <1>3. \A x \in Instant : occurrence[x] = Row("none") /\ occurrence[x].state = "none"
    BY RowType
  <1>4. occurrence \in [Instant -> OccurrenceRow] BY RowType
  <1>5. RecurringTypeOK
    <2>1. scanner \in ScannerRow BY <1>2 DEF ScannerOK, ScannerIs
    <2> QED BY <1>1, <1>4, <2>1, Bounds DEF RecurringTypeOK, ScannerRow, EntryStatus
  <1>6. CursorAhead BY <1>1, <1>3 DEF CursorAhead
  <1>7. PendingIsCurrent BY <1>3 DEF PendingIsCurrent
  <1>8. OneQueued BY DEF OneQueued
  <1> QED BY <1>2, <1>5, <1>6, <1>7, <1>8 DEF RecurringInv

-----------------------------------------------------------------------------
(* The steps.  Each lemma shows the invariant after the step, and what the  *)
(* step does to a decided occurrence and to the queue.                     *)

\* The body of DecidedOnce.
DecidesOnce ==
    \A x \in Instant :
        /\ occurrence[x].state \in Settled => occurrence'[x] = occurrence[x]
        /\ entry[x] = "none" /\ entry'[x] # "none" =>
              /\ occurrence[x].state = "pending" /\ occurrence'[x].state = "accepted"
              /\ schedule.status = "active" /\ authority

\* What every step is shown to do.
StepOK == RecurringInv' /\ DecidesOnce

\* A step that changes nothing but the scanner.
LEMMA ScannerSteps ==
    ASSUME RecurringInv, ScannerIs(scanner', now), faults' \in 0..MaxFault,
           published' \subseteq Instant,
           UNCHANGED <<now, authority, schedule, occurrence, ranges, entry, anchor, owed>>
    PROVE  StepOK
  <1> USE DEF RecurringInv
  <1>1. scanner' \in ScannerRow BY DEF ScannerIs
  <1>2. RecurringTypeOK' BY <1>1 DEF RecurringTypeOK, ScannerRow
  <1>3. ScannerOK' BY DEF ScannerOK
  <1>4. CursorAhead' BY DEF CursorAhead
  <1>5. PendingIsCurrent' BY DEF PendingIsCurrent
  <1>6. OneQueued' BY DEF OneQueued
  <1>7. DecidesOnce BY DEF DecidesOnce
  <1> QED BY <1>2, <1>3, <1>4, <1>5, <1>6, <1>7 DEF StepOK

\* A step of the owner that finds no pending occurrence.
LEMMA DefinitionSteps ==
    ASSUME RecurringInv, \A x \in Instant : occurrence[x].state # "pending",
           schedule' \in ScheduleRow, CursorOK(schedule'), schedule'.greatest = schedule.greatest,
           anchor' \in Instant \cup {NoInstant}, owed' \subseteq 0..MaxTime,
           UNCHANGED <<now, authority, occurrence, ranges, entry, published, scanner, faults>>
    PROVE  StepOK
  <1> USE DEF RecurringInv
  <1>2. RecurringTypeOK' BY DEF RecurringTypeOK
  <1>3. ScannerOK' BY DEF ScannerOK
  <1>4. CursorAhead' BY DEF CursorAhead, CursorOK
  <1>5. PendingIsCurrent' BY DEF PendingIsCurrent
  <1>6. OneQueued' BY DEF OneQueued
  <1>7. DecidesOnce BY DEF DecidesOnce
  <1> QED BY <1>2, <1>3, <1>4, <1>5, <1>6, <1>7 DEF StepOK

\* What sealing leaves: s is the cursor past the missed prefix, live what was
\* still due.
SealedAs(s, live) ==
    /\ s = AccountPrefix(schedule, now) /\ MovedOn(schedule, s)
    /\ live = DueInstants(s, now)
    /\ ranges' = ranges \cup ExpiredRange(schedule, now)
    /\ \A x \in live : schedule.greatest < x /\ s.greatest < x /\ x <= schedule'.greatest
    /\ schedule' \in ScheduleRow /\ schedule'.next = NoInstant /\ schedule'.status # "active"
    /\ s.greatest <= schedule'.greatest
    /\ schedule'.greatest \in live \cup {s.greatest}
    /\ occurrence' \in [Instant -> OccurrenceRow]
    /\ \A x \in Instant :
          /\ occurrence'[x].state # "pending"
          /\ occurrence'[x].state # "none" <=> x \in live \/ occurrence[x].state # "none"
          /\ x \notin live /\ occurrence[x].state # "pending" => occurrence'[x] = occurrence[x]

\* Sealing leaves what SealedAs says.
LEMMA SealResult ==
    ASSUME RecurringInv, NEW status \in {"paused", "deleted"}, schedule.revision < MaxRevision,
           Seal(status)
    PROVE  \E s \in ScheduleRow, live \in SUBSET Instant : SealedAs(s, live)
  <1> USE DEF RecurringInv
  <1>1. schedule \in ScheduleRow /\ CursorOK(schedule) /\ now \in 0..MaxTime
        /\ occurrence \in [Instant -> OccurrenceRow]
    BY DEF RecurringTypeOK, CursorAhead, CursorOK
  <1> PICK s \in ScheduleRow : s = AccountPrefix(schedule, now) /\ MovedOn(schedule, s)
    BY <1>1, AccountPrefixMovesOn DEF MovedOn
  <1> PICK live \in SUBSET Instant : /\ live = DueInstants(s, now)
                                     /\ \A x \in live : schedule.greatest < x /\ s.greatest < x
    BY <1>1, DueIsAhead
  <1> PICK g \in Instant \cup {NoInstant} : g = IF live = {} THEN s.greatest ELSE Max(live)
    BY MaxIsGreatest DEF ScheduleRow
  <1>2. s.greatest <= g /\ g \in live \cup {s.greatest} /\ \A x \in live : x <= g
    <2>1. s.greatest \in Int /\ g \in Int /\ \A x \in live : x \in Int
      BY <1>1, Bounds DEF ScheduleRow, Instant, NoInstant
    <2>2. CASE live = {} BY <2>1, <2>2
    <2>3. CASE live # {}
      <3>1. g \in live /\ \A x \in live : x <= g BY <2>3, MaxIsGreatest
      <3> QED BY <2>1, <3>1
    <2> QED BY <2>2, <2>3
  <1>3. schedule' = [s EXCEPT !.status = status, !.revision = s.revision + 1, !.next = NoInstant,
                              !.greatest = g]
    BY DEF Seal
  <1>4. /\ schedule' \in ScheduleRow /\ schedule'.next = NoInstant /\ schedule'.greatest = g
        /\ schedule'.status = status
    <2>1. s.revision + 1 \in 0..MaxRevision BY <1>1, Bounds DEF ScheduleRow, MovedOn
    <2> QED BY <1>3, <2>1 DEF ScheduleRow
  <1>5. \A x \in Instant : occurrence'[x] = Sealed(x, live)
    BY DEF Seal
  <1>6. \A x \in Instant :
          /\ occurrence'[x] \in OccurrenceRow /\ occurrence'[x].state # "pending"
          /\ occurrence'[x].state # "none" <=> x \in live \/ occurrence[x].state # "none"
          /\ x \notin live /\ occurrence[x].state # "pending" => occurrence'[x] = occurrence[x]
    <2> TAKE x \in Instant
    <2>1. CASE x \in live \/ occurrence[x].state = "pending"
      <3>1. occurrence'[x] = Row("cancelled") BY <1>5, <2>1 DEF Sealed
      <3>2. Row("cancelled") \in OccurrenceRow /\ Row("cancelled").state = "cancelled"
        BY RowType DEF Settled
      <3> QED BY <2>1, <3>1, <3>2
    <2>2. CASE x \notin live /\ occurrence[x].state # "pending"
      BY <1>1, <1>5, <2>2 DEF Sealed
    <2> QED BY <2>1, <2>2
  <1>7. occurrence' \in [Instant -> OccurrenceRow] BY <1>6 DEF Seal
  <1>8. ranges' = ranges \cup ExpiredRange(schedule, now) BY DEF Seal
  <1>9. SealedAs(s, live) BY <1>2, <1>4, <1>6, <1>7, <1>8 DEF SealedAs
  <1> QED BY <1>9

\* Pausing and deleting keep the invariant.
LEMMA SealSteps ==
    ASSUME RecurringInv, NEW status \in {"paused", "deleted"}, schedule.revision < MaxRevision,
           Seal(status),
           UNCHANGED <<now, authority, entry, published, scanner, faults, anchor, owed>>
    PROVE  StepOK
  <1> USE DEF RecurringInv
  <1> PICK s \in ScheduleRow, live \in SUBSET Instant : SealedAs(s, live) BY SealResult
  <1>1. schedule \in ScheduleRow /\ now \in 0..MaxTime BY DEF RecurringTypeOK
  <1>2. schedule.greatest <= schedule'.greatest
    BY <1>1, Bounds DEF SealedAs, MovedOn, ScheduleRow, Instant, NoInstant
  <1>8. ranges' \subseteq ExpiredRow
    BY <1>1, ExpiredRangeType DEF SealedAs, RecurringTypeOK
  <1>9. \A x \in live : occurrence[x].state = "none"
    <2> SUFFICES ASSUME NEW x \in live, occurrence[x].state # "none" PROVE FALSE OBVIOUS
    <2>1. x <= schedule.greatest BY DEF CursorAhead
    <2>2. schedule.greatest < x BY DEF SealedAs
    <2> QED BY <1>1, <2>1, <2>2, Bounds DEF ScheduleRow, Instant, NoInstant
  <1>10. RecurringTypeOK' BY <1>8 DEF RecurringTypeOK, SealedAs
  <1>11. ScannerOK' BY DEF ScannerOK
  <1>12. CursorAhead'
    <2> SUFFICES ASSUME NEW x \in Instant, occurrence'[x].state # "none" PROVE x <= schedule'.greatest
      BY DEF CursorAhead, SealedAs
    <2>1. CASE x \in live BY <2>1 DEF SealedAs
    <2>2. CASE x \notin live
      <3>1. x <= schedule.greatest BY <2>2 DEF CursorAhead, SealedAs
      <3>2. schedule' \in ScheduleRow BY DEF SealedAs
      <3> QED BY <1>1, <1>2, <3>1, <3>2, Bounds DEF ScheduleRow, Instant, NoInstant
    <2> QED BY <2>1, <2>2
  <1>13. PendingIsCurrent' BY DEF PendingIsCurrent, SealedAs
  <1>14. OneQueued' BY DEF OneQueued
  <1>15. DecidesOnce BY <1>9 DEF DecidesOnce, Settled, SealedAs
  <1> QED BY <1>10, <1>11, <1>12, <1>13, <1>14, <1>15 DEF StepOK

\* So does every command of the owner.
LEMMA OwnerSteps ==
    ASSUME RecurringInv, OwnerStep
    PROVE  StepOK
  <1>1. /\ schedule \in ScheduleRow /\ CursorOK(schedule) /\ now \in 0..MaxTime
        /\ anchor \in Instant \cup {NoInstant} /\ owed \subseteq 0..MaxTime
    BY DEF RecurringInv, RecurringTypeOK, CursorAhead, CursorOK
  <1>2. schedule.status # "active" => \A x \in Instant : occurrence[x].state # "pending"
    BY DEF RecurringInv, PendingIsCurrent
  <1>3. CASE Create
    <2>0. 1 \in 0..MaxRevision BY Bounds
    <2>2. schedule' = [schedule EXCEPT !.status = "paused", !.revision = 1] BY <1>3 DEF Create
    <2>1. schedule' \in ScheduleRow /\ CursorOK(schedule') /\ schedule'.greatest = schedule.greatest
      BY <1>1, <2>0, <2>2 DEF ScheduleRow, CursorOK
    <2> QED BY <1>1, <1>2, <1>3, <2>1, DefinitionSteps DEF Create
  <1>4. CASE Pause BY <1>4, SealSteps DEF Pause
  <1>5. CASE Delete BY <1>5, SealSteps DEF Delete
  <1>6. CASE LoseAuthority
    <2> USE <1>6 DEF LoseAuthority, RecurringInv
    <2>2. RecurringTypeOK' BY DEF RecurringTypeOK
    <2>3. ScannerOK' BY DEF ScannerOK
    <2>4. CursorAhead' BY DEF CursorAhead
    <2>5. PendingIsCurrent' BY DEF PendingIsCurrent
    <2>6. OneQueued' BY DEF OneQueued
    <2>7. DecidesOnce BY DEF DecidesOnce
    <2> QED BY <2>2, <2>3, <2>4, <2>5, <2>6, <2>7 DEF StepOK
  <1>7. ASSUME NEW x \in Instant, Resume(x) PROVE StepOK
    <2>0. schedule.revision + 1 \in 0..MaxRevision BY <1>1, <1>7, Bounds DEF Resume, ScheduleRow
    <2>1. schedule' = [schedule EXCEPT !.status = "active", !.revision = schedule.revision + 1, !.next = x]
      BY <1>7 DEF Resume
    <2>2. schedule.greatest < x BY <1>1, <1>7, Bounds DEF Resume, ScheduleRow, Instant, NoInstant
    <2>3. schedule' \in ScheduleRow /\ CursorOK(schedule') /\ schedule'.greatest = schedule.greatest
      BY <1>1, <2>0, <2>1, <2>2 DEF ScheduleRow, CursorOK
    <2>4. owed' \subseteq 0..MaxTime BY <1>1, <1>7 DEF Resume
    <2> QED BY <1>1, <1>2, <1>7, <2>3, <2>4, DefinitionSteps DEF Resume
  <1>8. ASSUME NEW i \in Interval, Edit(i) PROVE StepOK
    <2>0. schedule.revision + 1 \in 0..MaxRevision BY <1>1, <1>8, Bounds DEF Edit, ScheduleRow
    <2>1. schedule' = [schedule EXCEPT !.interval = i, !.revision = schedule.revision + 1]
      BY <1>8 DEF Edit
    <2>3. schedule' \in ScheduleRow /\ CursorOK(schedule') /\ schedule'.greatest = schedule.greatest
      BY <1>1, <2>0, <2>1 DEF ScheduleRow, CursorOK
    <2> QED BY <1>1, <1>2, <1>8, <2>3, DefinitionSteps DEF Edit
  <1> QED BY <1>3, <1>4, <1>5, <1>6, <1>7, <1>8 DEF OwnerStep

\* Oldest selects from its set.
LEMMA OldestSubset ==
    ASSUME NEW S \in SUBSET Instant, NEW n
    PROVE  Oldest(S, n) \in SUBSET Instant /\ Oldest(S, n) \subseteq S
  BY DEF Oldest

\* What a plan says of the records it was read from.
PlanFits(plan) ==
    /\ plan \in PlanRow
    /\ plan.due => schedule.status = "active"
    /\ plan.stale \subseteq Pending /\ plan.live \subseteq Pending

\* A plan fits the records at the moment it is read.
LEMMA PlanIsFit ==
    ASSUME RecurringInv, NEW t \in Nat
    PROVE  PlanFits(Plan(t)) /\ Plan(t).at = t
  <1> DEFINE L == {x \in Pending : x <= t /\ t < x + Deadline /\ schedule.status = "active"}
             live == Oldest(L, ScanLimit)
             old == {x \in Pending : x + Deadline <= t}
             due == schedule.status = "active" /\ DueInstants(schedule, t) # {}
             rows == [x \in live \cup Stale(t) |-> occurrence[x]]
             definition == IF due \/ live # {} THEN {schedule} ELSE {}
  <1>1. L \in SUBSET Instant /\ old \in SUBSET Instant /\ old \subseteq Pending BY DEF Pending
  <1>0. L \subseteq Pending OBVIOUS
  <1>2. live \in SUBSET Instant /\ live \subseteq Pending BY <1>0, <1>1, OldestSubset
  <1>3. Stale(t) \in SUBSET Instant /\ Stale(t) \subseteq Pending
    <2>1. Stale(t) = Oldest(old, ScanLimit) BY DEF Stale
    <2> QED BY <1>1, <2>1, OldestSubset
  <1>4. rows \in [live \cup Stale(t) -> OccurrenceRow]
    BY <1>2, <1>3 DEF RecurringInv, RecurringTypeOK
  <1>5. live \cup Stale(t) \in SUBSET Instant BY <1>2, <1>3
  <1>6. rows \in UNION {[S -> OccurrenceRow] : S \in SUBSET Instant} BY <1>4, <1>5
  <1>7. definition \in SUBSET ScheduleRow BY DEF RecurringInv, RecurringTypeOK
  <1>8. Plan(t) = [at |-> t, live |-> live, stale |-> Stale(t), due |-> due, rows |-> rows,
                   definition |-> definition]
    BY DEF Plan
  <1>9. due \in BOOLEAN OBVIOUS
  <1> HIDE DEF live, due, rows, definition
  <1>10. Plan(t) \in PlanRow BY <1>2, <1>3, <1>6, <1>7, <1>8, <1>9 DEF PlanRow
  <1>11. Plan(t).due = due /\ Plan(t).stale = Stale(t) /\ Plan(t).at = t /\ Plan(t).live = live BY <1>8
  <1>12. due => schedule.status = "active" BY DEF due
  <1> QED BY <1>2, <1>3, <1>10, <1>11, <1>12 DEF PlanFits

\* What a publication leaves: s is the cursor past the missed prefix, due what
\* it finds due, chosen the candidates, new those that get an occurrence.
PublishedAs(plan, s, due, chosen, new) ==
    /\ plan.at \in 0..MaxTime /\ plan.at <= now /\ PlanFits(plan)
    /\ s = AccountPrefix(schedule, plan.at) /\ MovedOn(schedule, s)
    /\ due = IF plan.due THEN DueInstants(s, plan.at) ELSE {}
    /\ chosen = Oldest(plan.live \cup due, ScanLimit)
    /\ new = chosen \ plan.live
    /\ \A x \in new : x \in due /\ schedule.greatest < x /\ x <= schedule'.greatest
    /\ ranges' = ranges \cup (IF plan.due THEN ExpiredRange(schedule, plan.at) ELSE {})
    /\ new # {} => /\ schedule' = Advance(schedule, schedule'.greatest)
                   /\ schedule'.greatest \in new
    /\ new = {} => schedule' = IF plan.due THEN s ELSE schedule
    /\ MovedOn(schedule, schedule')
    /\ occurrence' \in [Instant -> OccurrenceRow]
    /\ \A x \in Instant :
          /\ x \in new => /\ occurrence'[x].state = "pending" /\ occurrence'[x].attempts = 0
                          /\ occurrence'[x].revision = schedule.revision
          /\ x \notin new => \/ occurrence'[x] = occurrence[x]
                             \/ occurrence[x].state = "pending" /\ occurrence'[x].state = "expired"
    /\ ScannerIs(scanner', now)

\* A publication leaves what PublishedAs says.
LEMMA PublishResult ==
    ASSUME RecurringInv, ScanPublish
    PROVE  \E plan \in PlanRow, s \in ScheduleRow, due, chosen, new \in SUBSET Instant :
               PublishedAs(plan, s, due, chosen, new)
  <1> USE DEF RecurringInv
  <1>1. /\ schedule \in ScheduleRow /\ CursorOK(schedule) /\ now \in 0..MaxTime
        /\ occurrence \in [Instant -> OccurrenceRow]
    BY DEF RecurringTypeOK, CursorAhead, CursorOK
  <1> PICK plan \in PlanRow : plan = scanner.plan /\ plan.at <= now
    BY DEF ScannerOK, ScannerIs, ScannerRow
  <1>2. plan.at \in 0..MaxTime /\ plan.at \in Nat BY <1>1, Bounds DEF PlanRow
  <1>3. PlanFits(plan)
    <2>1. Plan(plan.at) = plan BY DEF ScanPublish, PlanHolds
    <2> QED BY <1>2, <2>1, PlanIsFit
  <1> PICK s \in ScheduleRow : s = AccountPrefix(schedule, plan.at) /\ MovedOn(schedule, s)
    BY <1>1, <1>2, AccountPrefixMovesOn DEF MovedOn
  <1> PICK due \in SUBSET Instant : /\ due = IF plan.due THEN DueInstants(s, plan.at) ELSE {}
                                    /\ \A x \in due : schedule.greatest < x /\ s.greatest < x
    <2>1. /\ DueInstants(s, plan.at) \in SUBSET Instant
          /\ \A x \in DueInstants(s, plan.at) : schedule.greatest < x /\ s.greatest < x
      BY <1>1, DueIsAhead
    <2> DEFINE d == IF plan.due THEN DueInstants(s, plan.at) ELSE {}
    <2>2. d \in SUBSET Instant /\ \A x \in d : schedule.greatest < x /\ s.greatest < x BY <2>1
    <2> QED BY <2>2
  <1> PICK chosen \in SUBSET Instant : /\ chosen = Oldest(plan.live \cup due, ScanLimit)
                                       /\ chosen = Selected(plan)
                                       /\ chosen \subseteq plan.live \cup due
    <2>1. plan.live \cup due \in SUBSET Instant BY DEF PlanRow
    <2>2. Selected(plan) = Oldest(plan.live \cup due, ScanLimit)
      BY DEF Selected
    <2> QED BY <2>1, <2>2, OldestSubset
  <1> PICK new \in SUBSET Instant : new = chosen \ plan.live OBVIOUS
  <1>5. \A x \in new : x \in due OBVIOUS
  <1>6. /\ ranges' = ranges \cup (IF plan.due THEN ExpiredRange(schedule, plan.at) ELSE {})
        /\ schedule' = IF new # {} THEN Advance(schedule, Max(new))
                       ELSE IF plan.due THEN s ELSE schedule
        /\ occurrence' = [x \in Instant |->
                 IF x \in new THEN [state |-> "pending", attempts |-> 0, revision |-> schedule.revision]
                 ELSE IF x \in plan.stale THEN Row("expired")
                 ELSE occurrence[x]]
        /\ scanner' = Scanning(chosen)
    BY DEF ScanPublish
  <1>7. /\ MovedOn(schedule, schedule') /\ \A x \in new : x <= schedule'.greatest
        /\ new # {} => schedule' = Advance(schedule, schedule'.greatest) /\ schedule'.greatest \in new
    <2>1. CASE new # {}
      <3>1. Max(new) \in new /\ \A y \in new : y <= Max(new) BY <2>1, MaxIsGreatest
      <3>2. schedule.greatest <= Max(new)
        BY <1>1, <1>5, <3>1, Bounds DEF ScheduleRow, Instant, NoInstant
      <3>3. Max(new) \in Instant BY <3>1
      <3>4. MovedOn(schedule, Advance(schedule, Max(new))) /\ Advance(schedule, Max(new)).greatest = Max(new)
        BY <1>1, <3>2, <3>3, AdvanceMovesOn
      <3> QED BY <1>6, <2>1, <3>1, <3>4
    <2>2. CASE new = {} /\ plan.due BY <1>6, <2>2
    <2>3. CASE new = {} /\ ~plan.due
      <3>1. schedule.greatest \in Int BY <1>1, Bounds DEF ScheduleRow, Instant, NoInstant
      <3> QED BY <1>1, <1>6, <2>3, <3>1 DEF MovedOn, CursorOK
    <2> QED BY <2>1, <2>2, <2>3
  <1>9. \A x \in Instant :
          /\ occurrence'[x] \in OccurrenceRow
          /\ x \in new => /\ occurrence'[x].state = "pending" /\ occurrence'[x].attempts = 0
                          /\ occurrence'[x].revision = schedule.revision
          /\ x \notin new => \/ occurrence'[x] = occurrence[x]
                             \/ occurrence[x].state = "pending" /\ occurrence'[x].state = "expired"
    <2> TAKE x \in Instant
    <2>1. CASE x \in new
      <3>1. occurrence'[x] = [state |-> "pending", attempts |-> 0, revision |-> schedule.revision]
        BY <1>6, <2>1
      <3>2. schedule.revision \in 0..MaxRevision BY <1>1 DEF ScheduleRow
      <3>3. 0 \in 0..MaxAttempt BY Bounds
      <3> QED BY <2>1, <3>1, <3>2, <3>3 DEF OccurrenceRow
    <2>2. CASE x \notin new /\ x \in plan.stale
      <3>1. occurrence'[x] = Row("expired") BY <1>6, <2>2
      <3>2. Row("expired") \in OccurrenceRow /\ Row("expired").state = "expired"
        BY RowType DEF Settled
      <3>3. occurrence[x].state = "pending" BY <1>3, <2>2 DEF PlanFits, Pending
      <3> QED BY <2>2, <3>1, <3>2, <3>3
    <2>3. CASE x \notin new /\ x \notin plan.stale BY <1>1, <1>6, <2>3
    <2> QED BY <2>1, <2>2, <2>3
  <1>10. occurrence' \in [Instant -> OccurrenceRow] BY <1>6, <1>9
  <1>11. ScannerIs(scanner', now) BY <1>1, <1>6, ScanningIs
  <1>12. new = {} => schedule' = IF plan.due THEN s ELSE schedule BY <1>6
  <1>13. PublishedAs(plan, s, due, chosen, new)
    BY <1>2, <1>3, <1>5, <1>6, <1>7, <1>9, <1>10, <1>11, <1>12 DEF PublishedAs
  <1> QED BY <1>13

\* A publication keeps the invariant.
LEMMA ScanPublishStep ==
    ASSUME RecurringInv, ScanPublish
    PROVE  StepOK
  <1> USE DEF RecurringInv
  <1> PICK plan \in PlanRow, s \in ScheduleRow, due, chosen, new \in SUBSET Instant :
           PublishedAs(plan, s, due, chosen, new)
    BY PublishResult
  <1>1. schedule \in ScheduleRow /\ now \in 0..MaxTime BY DEF RecurringTypeOK
  <1>2. UNCHANGED <<now, authority, entry, published, faults, anchor, owed>> BY DEF ScanPublish
  <1>3. new # {} => schedule.status = "active" BY DEF PublishedAs, PlanFits
  <1>4. \A x \in new : occurrence[x].state = "none"
    <2> SUFFICES ASSUME NEW x \in new, occurrence[x].state # "none" PROVE FALSE OBVIOUS
    <2>1. x <= schedule.greatest BY DEF CursorAhead
    <2>2. schedule.greatest < x BY DEF PublishedAs
    <2> QED BY <1>1, <2>1, <2>2, Bounds DEF ScheduleRow, Instant, NoInstant
  <1>5. \A x \in Instant :
          /\ x \in new => /\ occurrence'[x].state = "pending" /\ occurrence'[x].attempts = 0
                          /\ occurrence'[x].revision = schedule.revision
          /\ x \notin new => \/ occurrence'[x] = occurrence[x]
                             \/ occurrence[x].state = "pending" /\ occurrence'[x].state = "expired"
    BY DEF PublishedAs
  <1>6. MovedOn(schedule, schedule') /\ \A x \in new : x <= schedule'.greatest BY DEF PublishedAs
  <1>7. ScannerIs(scanner', now') BY <1>2 DEF PublishedAs
  <1>8. ranges' \subseteq ExpiredRow
    BY <1>1, ExpiredRangeType DEF RecurringTypeOK, PublishedAs
  <1>9. RecurringTypeOK'
    <2>1. scanner' \in ScannerRow BY <1>7 DEF ScannerIs
    <2>2. schedule' \in ScheduleRow BY <1>6 DEF MovedOn
    <2>3. occurrence' \in [Instant -> OccurrenceRow] BY DEF PublishedAs
    <2> QED BY <1>2, <1>8, <2>1, <2>2, <2>3 DEF RecurringTypeOK, ScannerRow
  <1>10. ScannerOK' BY <1>7 DEF ScannerOK
  <1>11. CursorAhead'
    <2>1. schedule'.next # NoInstant => schedule'.greatest < schedule'.next BY <1>6 DEF MovedOn
    <2> SUFFICES ASSUME NEW x \in Instant, occurrence'[x].state # "none" PROVE x <= schedule'.greatest
      BY <2>1 DEF CursorAhead
    <2>2. CASE x \in new BY <1>6, <2>2
    <2>3. CASE x \notin new
      <3>1. x <= schedule.greatest BY <1>5, <2>3 DEF CursorAhead
      <3> QED BY <1>1, <1>6, <3>1, Bounds DEF MovedOn, ScheduleRow, Instant, NoInstant
    <2> QED BY <2>2, <2>3
  <1>12. PendingIsCurrent'
    <2> SUFFICES ASSUME NEW x \in Instant, occurrence'[x].state = "pending"
                 PROVE  /\ schedule.status = "active"
                        /\ occurrence'[x].revision = schedule.revision
                        /\ occurrence'[x].attempts < MaxAttempt
      BY <1>6 DEF PendingIsCurrent, MovedOn
    <2>1. CASE x \in new BY <1>3, <1>5, <2>1, Bounds
    <2>2. CASE x \notin new BY <1>5, <2>2 DEF PendingIsCurrent
    <2> QED BY <2>1, <2>2
  <1>13. OneQueued' BY <1>2 DEF OneQueued
  <1>14. DecidesOnce BY <1>2, <1>4, <1>5 DEF DecidesOnce, Settled
  <1> QED BY <1>9, <1>10, <1>11, <1>12, <1>13, <1>14 DEF StepOK

-----------------------------------------------------------------------------
(* Attempts *)

\* A scan of candidates has a next candidate.
LEMMA CandidateIs ==
    ASSUME RecurringInv, scanner.pc \notin {"idle", "planned"}
    PROVE  Candidate \in Instant /\ Candidate \in scanner.todo
  <1>1. scanner.todo \in SUBSET Instant /\ scanner.todo # {}
    BY DEF RecurringInv, ScannerOK, ScannerIs, ScannerRow
  <1>2. Instant \subseteq Nat BY Bounds DEF Instant
  <1> QED BY <1>1, <1>2, MinIsLeast DEF Candidate

\* Going on to the next candidate keeps the scanner well formed.
LEMMA NextCandidateIs ==
    ASSUME RecurringInv, NextCandidate
    PROVE  ScannerIs(scanner', now)
  <1>1. scanner.todo \ {Candidate} \in SUBSET Instant /\ now \in Nat
    BY Bounds DEF RecurringInv, RecurringTypeOK
  <1> QED BY <1>1, ScanningIs DEF NextCandidate

\* What one attempt does to the occurrences and to the queue.
AttemptOK ==
    /\ occurrence' \in [Instant -> OccurrenceRow]
    /\ entry' \in [Instant -> EntryStatus]
    /\ OneQueued'
    /\ \A x \in Instant :
          /\ occurrence[x].state # "pending" => occurrence'[x] = occurrence[x]
          /\ occurrence[x].state = "pending" => occurrence'[x].state # "none"
          /\ occurrence'[x].state = "pending" =>
                /\ occurrence'[x].revision = occurrence[x].revision
                /\ occurrence'[x].attempts < MaxAttempt
          /\ entry'[x] # entry[x] =>
                /\ occurrence[x].state = "pending" /\ occurrence'[x].state = "accepted"
                /\ schedule.status = "active" /\ authority

\* An attempt does what AttemptOK says, whatever it decides.
LEMMA AttemptIsOK ==
    ASSUME RecurringInv, scanner.pc = "posted", NEW full \in BOOLEAN,
           ApplyAttempt(Candidate, full)
    PROVE  AttemptOK
  <1> USE DEF RecurringInv
  <1> PICK c \in Instant : c = Candidate BY CandidateIs
  <1>1. occurrence \in [Instant -> OccurrenceRow] /\ entry \in [Instant -> EntryStatus]
    BY DEF RecurringTypeOK
  <1>2. \A x \in Instant : occurrence[x].state = "pending" => occurrence[x].attempts < MaxAttempt
    BY DEF PendingIsCurrent
  <1>3. CASE UNCHANGED <<occurrence, entry>>
    BY <1>1, <1>2, <1>3 DEF AttemptOK, OneQueued
  <1>4. CASE /\ Decidable(c)
             /\ \E st \in Settled \ {"accepted"} : occurrence' = [occurrence EXCEPT ![c] = Row(st)]
             /\ UNCHANGED entry
    <2> PICK st \in Settled \ {"accepted"} : occurrence' = [occurrence EXCEPT ![c] = Row(st)] BY <1>4
    <2>1. Row(st) \in OccurrenceRow /\ Row(st).state = st BY RowType
    <2>2. occurrence' \in [Instant -> OccurrenceRow] BY <1>1, <2>1
    <2>3. \A x \in Instant : x # c => occurrence'[x] = occurrence[x] BY <1>1
    <2>4. occurrence'[c].state \notin {"pending", "none"} /\ occurrence[c].state = "pending"
      BY <1>1, <1>4, <2>1 DEF Settled, Decidable
    <2> QED BY <1>1, <1>2, <1>4, <2>2, <2>3, <2>4 DEF AttemptOK, OneQueued
  <1>5. CASE /\ Decidable(c)
             /\ occurrence[c].attempts + 1 # MaxAttempt
             /\ occurrence' = [occurrence EXCEPT ![c] =
                    [occurrence[c] EXCEPT !.attempts = occurrence[c].attempts + 1]]
             /\ UNCHANGED entry
    <2> PICK n \in Nat : n = occurrence[c].attempts BY <1>1 DEF OccurrenceRow
    <2>1. occurrence[c].state = "pending" /\ n < MaxAttempt BY <1>2, <1>5 DEF Decidable
    <2>2. n + 1 \in 0..MaxAttempt /\ n + 1 < MaxAttempt BY <1>5, <2>1, Bounds
    <2> PICK m \in 0..MaxAttempt : m = n + 1 BY <2>2
    <2>3. occurrence' = [occurrence EXCEPT ![c] = [occurrence[c] EXCEPT !.attempts = m]] BY <1>5
    <2>4. [occurrence[c] EXCEPT !.attempts = m] \in OccurrenceRow BY <1>1 DEF OccurrenceRow
    <2>5. occurrence' \in [Instant -> OccurrenceRow] BY <1>1, <2>3, <2>4
    <2>6. \A x \in Instant : x # c => occurrence'[x] = occurrence[x] BY <1>1, <2>3
    <2>7. /\ occurrence'[c].revision = occurrence[c].revision /\ occurrence'[c].attempts = m
          /\ occurrence'[c].state = occurrence[c].state
      BY <1>1, <2>3 DEF OccurrenceRow
    <2> QED BY <1>1, <1>2, <1>5, <2>1, <2>2, <2>5, <2>6, <2>7 DEF AttemptOK, OneQueued
  <1>6. CASE /\ Decidable(c) /\ authority /\ Waiting = {}
             /\ occurrence' = [occurrence EXCEPT ![c] = Row("accepted")]
             /\ entry' = [entry EXCEPT ![c] = "queued"]
    <2>1. Row("accepted") \in OccurrenceRow /\ Row("accepted").state = "accepted"
      BY RowType DEF Settled
    <2>2. occurrence' \in [Instant -> OccurrenceRow] BY <1>1, <1>6, <2>1
    <2>3. \A x \in Instant : x # c => occurrence'[x] = occurrence[x] /\ entry'[x] = entry[x]
      BY <1>1, <1>6
    <2>4. occurrence'[c].state = "accepted" BY <1>1, <1>6, <2>1
    <2>5. entry' \in [Instant -> EntryStatus] BY <1>1, <1>6 DEF EntryStatus
    <2>6. \A x \in Instant : entry[x] # "queued" BY <1>6 DEF Waiting
    <2>7. OneQueued' BY <2>3, <2>6 DEF OneQueued
    <2>8. occurrence[c].state = "pending" /\ schedule.status = "active" BY <1>6 DEF Decidable
    <2> QED BY <1>2, <1>6, <2>2, <2>3, <2>4, <2>5, <2>7, <2>8 DEF AttemptOK
  <1>7. CASE ~Decidable(c) BY <1>3, <1>7 DEF ApplyAttempt
  <1>8. CASE Decidable(c) /\ scanner.at >= c + Deadline
    <2>1. "expired" \in Settled \ {"accepted"} BY DEF Settled
    <2> QED BY <1>4, <1>8, <2>1 DEF ApplyAttempt
  <1>9. CASE Decidable(c) /\ ~(scanner.at >= c + Deadline)
    <2>1. /\ occurrence' = [occurrence EXCEPT ![c] = IF Decision(full) = "pending"
                THEN [occurrence[c] EXCEPT !.attempts = occurrence[c].attempts + 1] ELSE Row(Decision(full))]
          /\ entry' = IF Decision(full) = "accepted" THEN [entry EXCEPT ![c] = "queued"] ELSE entry
      BY <1>9 DEF ApplyAttempt
    <2>2. CASE Decision(full) = "accepted"
      <3>1. authority /\ Waiting = {} BY <2>2 DEF Decision
      <3> QED BY <1>6, <1>9, <2>1, <2>2, <3>1
    <2>3. CASE Decision(full) = "pending"
      <3>1. occurrence[c].attempts + 1 # MaxAttempt BY <2>3 DEF Decision
      <3> QED BY <1>5, <1>9, <2>1, <2>3, <3>1
    <2>4. CASE Decision(full) \in {"recovery", "failed"}
      <3>1. Decision(full) \in Settled \ {"accepted"} BY <2>4 DEF Settled
      <3> QED BY <1>4, <1>9, <2>1, <2>4, <3>1
    <2> QED BY <2>2, <2>3, <2>4 DEF Decision
  <1> QED BY <1>7, <1>8, <1>9

\* An attempt, whatever becomes of the scanner.
LEMMA AttemptSteps ==
    ASSUME RecurringInv, AttemptOK, ScannerIs(scanner', now), faults' \in 0..MaxFault,
           UNCHANGED <<now, authority, schedule, ranges, published, anchor, owed>>
    PROVE  StepOK
  <1> USE DEF RecurringInv, AttemptOK
  <1>1. scanner' \in ScannerRow BY DEF ScannerIs
  <1>2. RecurringTypeOK' BY <1>1 DEF RecurringTypeOK, ScannerRow
  <1>3. ScannerOK' BY DEF ScannerOK
  <1>4. CursorAhead'
    <2>1. \A x \in Instant : occurrence'[x].state # "none" => occurrence[x].state # "none" OBVIOUS
    <2> QED BY <2>1 DEF CursorAhead
  <1>5. PendingIsCurrent'
    <2>1. \A x \in Instant : occurrence'[x].state = "pending" => occurrence[x].state = "pending" OBVIOUS
    <2> QED BY <2>1 DEF PendingIsCurrent
  <1>6. OneQueued' OBVIOUS
  <1>7. DecidesOnce BY DEF DecidesOnce, Settled
  <1> QED BY <1>2, <1>3, <1>4, <1>5, <1>6, <1>7 DEF StepOK

\* Every step of the scanner keeps the invariant.
LEMMA ScannerMoves ==
    ASSUME RecurringInv, ScannerStep
    PROVE  StepOK
  <1>1. /\ scanner \in ScannerRow /\ now \in Nat /\ faults \in 0..MaxFault /\ published \subseteq Instant
        /\ scanner.plan.at <= now
        /\ scanner.pc \notin {"idle", "planned"} => scanner.todo # {}
    BY Bounds DEF RecurringInv, RecurringTypeOK, ScannerOK, ScannerIs
  <1>2. CASE ScanPlan
    <2> PICK plan \in PlanRow : plan = Plan(now) /\ plan.at = now BY <1>1, PlanIsFit DEF PlanFits
    <2>1. scanner' = [scanner EXCEPT !.pc = "planned", !.plan = plan] BY <1>2 DEF ScanPlan
    <2>3. scanner' \in ScannerRow /\ scanner'.pc = "planned" /\ scanner'.plan = plan
      BY <1>1, <2>1 DEF ScannerRow
    <2>2. ScannerIs(scanner', now) BY <1>1, <2>3 DEF ScannerIs
    <2> QED BY <1>1, <1>2, <2>2, ScannerSteps DEF ScanPlan
  <1>3. CASE ScanPublish BY <1>3, ScanPublishStep
  <1>4. CASE ScanConflict
    BY <1>1, <1>4, IdleScannerIs, ScannerSteps DEF ScanConflict
  <1>5. CASE PostAttempt
    <2>0. scanner.preparation \in Preparation BY <1>1 DEF ScannerRow
    <2> PICK p \in Preparation :
             p = IF scanner.preparation # "recovery" /\ ~Valid THEN "failure" ELSE scanner.preparation
      BY <2>0 DEF Preparation
    <2> PICK had \in BOOLEAN : had = (entry[Candidate] # "none") OBVIOUS
    <2>1. scanner' = [scanner EXCEPT !.pc = "posted", !.at = now, !.had = had,
                         !.preparation = "none", !.current = p]
      BY <1>5 DEF PostAttempt
    <2>2. "none" \in Preparation BY DEF Preparation
    <2>3. scanner.pc = "prepared" BY <1>5 DEF PostAttempt
    <2>4. ScannerIs(scanner', now) BY <1>1, <2>1, <2>2, <2>3 DEF ScannerIs, ScannerRow
    <2> QED BY <1>1, <1>5, <2>4, ScannerSteps DEF PostAttempt
  <1>6. CASE PublishTurn
    <2>1. ScannerIs(scanner', now) BY <1>6, NextCandidateIs DEF PublishTurn
    <2>2. Candidate \in Instant BY <1>6, CandidateIs DEF PublishTurn
    <2>3. published' \subseteq Instant BY <1>1, <1>6, <2>2 DEF PublishTurn
    <2> QED BY <1>1, <1>6, <2>1, <2>3, ScannerSteps DEF PublishTurn
  <1>7. ASSUME NEW outcome \in {"ready", "failure", "recovery"}, Prepare(outcome) PROVE StepOK
    <2>1. scanner' = [scanner EXCEPT !.pc = "prepared", !.preparation = outcome]
          /\ scanner.pc = "candidates"
      BY <1>7 DEF Prepare
    <2>2. outcome \in Preparation BY DEF Preparation
    <2>4. ScannerIs(scanner', now) BY <1>1, <2>1, <2>2 DEF ScannerIs, ScannerRow
    <2> QED BY <1>1, <1>7, <2>4, ScannerSteps DEF Prepare
  <1>8. ASSUME NEW full \in BOOLEAN, CommitAttempt(full) PROVE StepOK
    <2>1. AttemptOK BY <1>8, AttemptIsOK DEF CommitAttempt
    <2>2. scanner.pc = "posted" BY <1>8 DEF CommitAttempt
    <2>3. CASE scanner' = [scanner EXCEPT !.pc = "publish"]
      <3>1. ScannerIs(scanner', now) BY <1>1, <2>2, <2>3 DEF ScannerIs, ScannerRow
      <3> QED BY <1>1, <1>8, <2>1, <3>1, AttemptSteps DEF CommitAttempt
    <2>4. CASE NextCandidate
      BY <1>1, <1>8, <2>1, <2>4, NextCandidateIs, AttemptSteps DEF CommitAttempt
    <2> QED BY <1>8, <2>3, <2>4 DEF CommitAttempt
  <1> QED BY <1>2, <1>3, <1>4, <1>5, <1>6, <1>7, <1>8 DEF ScannerStep

\* So does every fault.
LEMMA FaultSteps ==
    ASSUME RecurringInv, CandidateFails \/ AnswerLost \/ Crash
    PROVE  StepOK
  <1>1. /\ now \in Nat /\ published \subseteq Instant
        /\ occurrence \in [Instant -> OccurrenceRow] /\ entry \in [Instant -> EntryStatus]
    BY Bounds DEF RecurringInv, RecurringTypeOK
  <1>2. faults' \in 0..MaxFault
    <2>1. faults < MaxFault /\ faults' = faults + 1 BY Zenon DEF CandidateFails, AnswerLost, Crash
    <2> QED BY <2>1, Bounds DEF RecurringInv, RecurringTypeOK
  <1>3. CASE CandidateFails
    BY <1>1, <1>2, <1>3, NextCandidateIs, ScannerSteps DEF CandidateFails
  <1>4. CASE AnswerLost
    <2>1. AttemptOK BY <1>4, AttemptIsOK DEF AnswerLost
    <2> QED BY <1>2, <1>4, <2>1, NextCandidateIs, AttemptSteps DEF AnswerLost
  <1>5. CASE Crash
    <2>1. ScannerIs(scanner', now) BY <1>1, <1>5, IdleScannerIs DEF Crash
    <2>2. CASE scanner.pc = "posted" /\ ApplyAttempt(Candidate, FALSE)
      <3>1. AttemptOK BY <2>2, AttemptIsOK
      <3> QED BY <1>2, <1>5, <2>1, <3>1, AttemptSteps DEF Crash
    <2>3. CASE UNCHANGED <<occurrence, entry>>
      BY <1>1, <1>2, <1>5, <2>1, <2>3, ScannerSteps DEF Crash
    <2> QED BY <1>5, <2>2, <2>3 DEF Crash
  <1> QED BY <1>3, <1>4, <1>5

\* So does time.
LEMMA TickStep ==
    ASSUME RecurringInv, Tick
    PROVE  StepOK
  <1> USE DEF RecurringInv, Tick
  <1>1. now \in Nat /\ now' \in 0..MaxTime /\ now <= now' BY Bounds DEF RecurringTypeOK
  <1>2. owed' \subseteq 0..MaxTime BY <1>1 DEF RecurringTypeOK
  <1>3. RecurringTypeOK' BY <1>1, <1>2 DEF RecurringTypeOK
  <1>4. ScannerOK' BY <1>1, Bounds DEF ScannerOK, ScannerIs, ScannerRow, PlanRow
  <1>5. CursorAhead' BY DEF CursorAhead
  <1>6. PendingIsCurrent' BY DEF PendingIsCurrent
  <1>7. OneQueued' BY DEF OneQueued
  <1>8. DecidesOnce BY DEF DecidesOnce
  <1> QED BY <1>3, <1>4, <1>5, <1>6, <1>7, <1>8 DEF StepOK

\* So does the queue.
LEMMA QueueSteps ==
    ASSUME RecurringInv, NEW x \in Instant, QueueStep(x)
    PROVE  StepOK
  <1> USE DEF RecurringInv
  <1>1. entry \in [Instant -> EntryStatus] BY DEF RecurringTypeOK
  <1>2. UNCHANGED <<now, authority, schedule, occurrence, ranges, published, scanner, faults, anchor, owed>>
    BY DEF QueueStep
  <1> PICK st \in {"out", "queued", "again"} :
           /\ entry' = [entry EXCEPT ![x] = st] /\ entry[x] # "none"
           /\ st = "queued" => \A y \in Instant : entry[y] # "queued"
    BY DEF QueueStep, Waiting, CanRetry
  <1>3. entry' \in [Instant -> EntryStatus] BY <1>1 DEF EntryStatus
  <1>4. RecurringTypeOK' BY <1>2, <1>3 DEF RecurringTypeOK
  <1>5. ScannerOK' BY <1>2 DEF ScannerOK
  <1>6. CursorAhead' BY <1>2 DEF CursorAhead
  <1>7. PendingIsCurrent' BY <1>2 DEF PendingIsCurrent
  <1>8. OneQueued' BY <1>1 DEF OneQueued
  <1>9. DecidesOnce BY <1>1, <1>2 DEF DecidesOnce
  <1> QED BY <1>4, <1>5, <1>6, <1>7, <1>8, <1>9 DEF StepOK

\* The invariant is inductive, and every step decides at most once.
LEMMA NextSteps == RecurringInv /\ [Next]_vars => RecurringInv' /\ (DecidesOnce \/ UNCHANGED vars)
  <1> SUFFICES ASSUME RecurringInv, [Next]_vars PROVE RecurringInv' /\ (DecidesOnce \/ UNCHANGED vars)
    OBVIOUS
  <1>1. CASE UNCHANGED vars
    BY <1>1 DEF vars, RecurringInv, RecurringTypeOK, ScannerOK, CursorAhead, PendingIsCurrent, OneQueued
  <1>2. CASE Next
    <2>1. StepOK
      BY <1>2, OwnerSteps, ScannerMoves, FaultSteps, TickStep, QueueSteps DEF Next
    <2> QED BY <2>1 DEF StepOK
  <1> QED BY <1>1, <1>2

-----------------------------------------------------------------------------
(* The accounts *)

\* The numbers of a definition.
RowNumbers(s) ==
    /\ s.greatest \in Int /\ s.next \in Int /\ s.interval \in Nat /\ s.interval > 0
    /\ s.next # NoInstant => s.next \in Instant
    /\ s.greatest >= NoInstant

\* A well-typed definition has these numbers.
LEMMA RowHasNumbers ==
    ASSUME NEW s \in ScheduleRow
    PROVE  RowNumbers(s)
  BY Bounds DEF RowNumbers, ScheduleRow, Instant, NoInstant

\* Instants are numbers, and no instant is none.
LEMMA InstantIsNat == Instant \subseteq Nat /\ NoInstant \in Int /\ NoInstant \notin Instant /\ NoInstant = -1
  BY Bounds DEF Instant, NoInstant

\* d is a whole number of intervals.
Beat(d, i) == d % i = 0

\* The facts about multiples, stated of Beat so that a proof need not divide.
LEMMA BeatIsMultiple ==
    ASSUME NEW d \in Int, NEW i \in Nat, i > 0
    PROVE  Beat(d, i) <=> \E k \in Int : d = k * i
  BY ModIsMultiple DEF Beat

\* Sums and differences of beats are beats.
LEMMA BeatSum ==
    ASSUME NEW a \in Int, NEW b \in Int, NEW i \in Nat, i > 0, Beat(a, i), Beat(b, i)
    PROVE  Beat(a + b, i) /\ Beat(a - b, i)
  BY ModSum DEF Beat

\* Two beats are an interval apart at least.
LEMMA BeatGap ==
    ASSUME NEW a \in Int, NEW i \in Nat, i > 0, Beat(a, i), a > 0
    PROVE  a >= i
  BY ModGap DEF Beat

\* The interval and zero are beats.
LEMMA BeatSelf ==
    ASSUME NEW i \in Nat, i > 0
    PROVE  Beat(i, i) /\ Beat(0, i)
  <1>1. i = 1 * i /\ 0 = 0 * i OBVIOUS
  <1> QED BY <1>1, BeatIsMultiple

\* Membership in the three sets of instants, stated with Beat.
LEMMA DueMember ==
    ASSUME NEW s, NEW t, NEW x
    PROVE  x \in DueInstants(s, t) <=>
              s.next # NoInstant /\ x \in Instant /\ s.next <= x /\ x <= t /\ Beat(x - s.next, s.interval)
  BY Zenon DEF DueInstants, Beat

\* The instants owed beyond the cursor.
LEMMA OutstandingMember ==
    ASSUME NEW s, NEW a, NEW t, NEW x
    PROVE  x \in Outstanding(s, a, t) <=>
              /\ s.status = "active" /\ x \in Instant /\ s.greatest < x /\ a <= x /\ x <= t
              /\ Beat(x - a, s.interval)
  BY Zenon DEF Outstanding, Beat

\* The instants an overrun range stands for.
LEMMA CoveredMember ==
    ASSUME NEW r, NEW x
    PROVE  x \in Covered(r) <=>
              x \in Instant /\ r.first <= x /\ x <= r.last /\ Beat(x - r.first, r.interval)
  BY Zenon DEF Covered, Beat

\* What the cursor finds due is what is outstanding.
LEMMA DueIsOutstanding ==
    ASSUME NEW s \in ScheduleRow, NEW a \in Int, NEW u, CadenceOK(s, a, u), NEW t \in Int
    PROVE  DueInstants(s, t) = Outstanding(s, a, t)
  <1> USE InstantIsNat
  <1>1. RowNumbers(s) BY RowHasNumbers
  <1> SUFFICES ASSUME NEW x PROVE x \in DueInstants(s, t) <=> x \in Outstanding(s, a, t)
    OBVIOUS
  <1>2. CASE s.status # "active"
    BY <1>2, DueMember, OutstandingMember DEF CadenceOK
  <1>3. CASE s.status = "active" /\ s.next = a /\ s.greatest < a /\ a \in Instant
    <2>1. ASSUME x \in Instant, a <= x PROVE s.greatest < x BY <1>1, <1>3, <2>1 DEF RowNumbers
    <2> QED BY <1>3, <2>1, DueMember, OutstandingMember
  <1>4. CASE /\ s.status = "active" /\ a \in Instant /\ a <= s.greatest
             /\ Beat(s.greatest - a, s.interval) /\ s.next = Successor(s, s.greatest)
    <2> PICK g \in Int : g = s.greatest BY <1>1 DEF RowNumbers
    <2> PICK i \in Nat : i = s.interval /\ i > 0 BY <1>1 DEF RowNumbers
    <2>1. ASSUME x \in Instant, g < x, Beat(x - a, i)
          PROVE  s.next # NoInstant /\ s.next <= x /\ Beat(x - s.next, i)
      <3>1. Beat(x - g, i)
        <4>1. x - g = (x - a) - (g - a) BY <2>1
        <4>2. x - a \in Int /\ g - a \in Int BY <2>1
        <4>3. Beat((x - a) - (g - a), i) BY <1>4, <2>1, <4>2, BeatSum
        <4> QED BY <4>1, <4>3
      <3>2. x - g \in Int /\ x - g > 0 BY <2>1
      <3>8. x - g >= i BY <3>1, <3>2, BeatGap
      <3>3. s.next = g + i BY <1>4, <2>1, <3>8, Bounds DEF Successor, Instant
      <3>4. x - s.next = (x - g) - i BY <2>1, <3>3
      <3>5. i \in Int /\ Beat(i, i) BY BeatSelf
      <3>6. Beat((x - g) - i, i) BY <3>1, <3>2, <3>5, BeatSum
      <3>7. g + i # NoInstant BY <1>4
      <3> QED BY <2>1, <3>8, <3>3, <3>4, <3>6, <3>7
    <2>2. ASSUME x \in Instant, s.next # NoInstant, s.next <= x, Beat(x - s.next, i)
          PROVE  g < x /\ a <= x /\ Beat(x - a, i)
      <3>1. s.next = g + i BY <1>4, <2>2 DEF Successor
      <3>2. g < x /\ a <= x BY <1>4, <2>2, <3>1
      <3>3. x - s.next \in Int /\ x - g \in Int /\ g - a \in Int BY <2>2, <3>1
      <3>9. i \in Int /\ Beat(i, i) BY BeatSelf
      <3>4. Beat((x - s.next) + i, i) BY <2>2, <3>3, <3>9, BeatSum
      <3>5. x - g = (x - s.next) + i BY <2>2, <3>1
      <3>6. Beat(x - g, i) BY <3>4, <3>5
      <3>7. Beat((x - g) + (g - a), i) BY <1>4, <3>3, <3>6, BeatSum
      <3>8. x - a = (x - g) + (g - a) BY <2>2
      <3> QED BY <3>2, <3>7, <3>8
    <2> QED BY <1>4, <2>1, <2>2, DueMember, OutstandingMember
  <1> QED BY <1>2, <1>3, <1>4 DEF CadenceOK, Beat

\* The cursor moves past an instant of the cadence.
LEMMA AdvanceKeepsCadence ==
    ASSUME NEW s \in ScheduleRow, NEW a \in Int, NEW t \in Nat, CadenceOK(s, a, t),
           NEW x \in Outstanding(s, a, t)
    PROVE  CadenceOK(Advance(s, x), a, t)
  <1>1. x \in Instant /\ s.status = "active" /\ a <= x /\ x <= t /\ (x - a) % s.interval = 0
    BY Zenon DEF Outstanding
  <1>2. a \in Instant BY <1>1 DEF CadenceOK
  <1> PICK n \in Instant \cup {NoInstant} : n = Successor(s, x)
    BY <1>1, Bounds DEF Successor, Instant, ScheduleRow, NoInstant
  <1> PICK s2 : s2 = Advance(s, x) OBVIOUS
  <1>3. s2 = [s EXCEPT !.greatest = x, !.next = n] BY DEF Advance
  <1>4. s2.greatest = x /\ s2.next = n /\ s2.interval = s.interval /\ s2.status = s.status
    BY <1>3 DEF ScheduleRow
  <1>5. n = Successor(s2, x) BY <1>4 DEF Successor
  <1> QED BY <1>1, <1>2, <1>4, <1>5 DEF CadenceOK

\* The instants of a cadence up to one of them are as many as the range says.
LEMMA CountCovered ==
    ASSUME NEW r \in ExpiredRow, NEW k \in Nat, r.last = r.first + k * r.interval
    PROVE  Cardinality(Covered(r)) = k + 1
  <1> PICK i \in Nat : i = r.interval /\ i > 0 BY Bounds DEF ExpiredRow
  <1> PICK a \in Instant : a = r.first BY DEF ExpiredRow
  <1> PICK z \in Instant : z = r.last BY DEF ExpiredRow
  <1> USE InstantIsNat
  <1> DEFINE f == [j \in 0..k |-> a + j * i]
  <1>1. \A j \in 0..k : j * i \in Nat /\ j * i <= k * i
    <2> TAKE j \in 0..k
    <2>1. j \in Nat /\ j <= k OBVIOUS
    <2> QED BY <2>1, DivMul, MulMono
  <1>2. ASSUME NEW j \in 0..k PROVE a + j * i \in Covered(r)
    <2>1. j * i \in Nat /\ a + j * i <= z /\ a <= a + j * i BY <1>1, DivMul
    <2>2. a + j * i \in Instant BY <2>1, Bounds DEF Instant
    <2>3. (a + j * i) - a = j * i BY <2>1
    <2>4. Beat(j * i, i) BY <2>1, BeatIsMultiple
    <2> QED BY <2>1, <2>2, <2>3, <2>4, CoveredMember
  <1>3. ASSUME NEW x \in Covered(r) PROVE \E j \in 0..k : x = a + j * i
    <2>1. x \in Nat /\ a <= x /\ x <= z /\ Beat(x - a, i) BY CoveredMember
    <2>6. x - a \in Int BY <2>1
    <2> PICK m \in Int : x - a = m * i BY <2>1, <2>6, BeatIsMultiple
    <2>2. m >= 0 BY <2>1, Z3
    <2>3. k * i \in Nat BY DivMul
    <2>4. m * i <= k * i BY <2>1, <2>3
    <2>5. m <= k BY <2>2, <2>4, MulMono
    <2> QED BY <2>1, <2>2, <2>5
  <1>4. \A j, m \in 0..k : a + j * i = a + m * i => j = m
    <2> SUFFICES ASSUME NEW j \in 0..k, NEW m \in 0..k, a + j * i = a + m * i PROVE j = m OBVIOUS
    <2>1. j * i = m * i BY <1>1
    <2> QED BY <2>1, MulInj
  <1>5. f \in Bijection(0..k, Covered(r))
    <2>1. f \in [0..k -> Covered(r)] BY <1>2
    <2>2. f \in Injection(0..k, Covered(r)) BY <1>4, <2>1 DEF Injection, IsInjective
    <2>3. f \in Surjection(0..k, Covered(r)) BY <1>3, <2>1 DEF Surjection
    <2> QED BY <2>2, <2>3 DEF Bijection
  <1>6. ExistsBijection(0..k, Covered(r)) BY <1>5 DEF ExistsBijection
  <1>7. IsFiniteSet(0..k) /\ Cardinality(0..k) = k + 1
    <2>1. 0 \in Int /\ k \in Int /\ ~(0 > k) /\ k - 0 + 1 = k + 1 OBVIOUS
    <2>2. IsFiniteSet(0..k) /\ Cardinality(0..k) = IF 0 > k THEN 0 ELSE k - 0 + 1
      BY <2>1, FS_Interval
    <2> QED BY <2>1, <2>2
  <1> QED BY <1>6, <1>7, FS_Bijection

\* The missed prefix ends a whole number of intervals after the cursor.
LEMMA OverdueIsBeat ==
    ASSUME NEW s \in ScheduleRow, NEW t \in 0..MaxTime, Overdue(s, t)
    PROVE  \E k \in Nat : /\ LastOverdue(s, t) = s.next + k * s.interval
                          /\ (LastOverdue(s, t) - s.next) \div s.interval = k
                          /\ LastOverdue(s, t) - s.next = k * s.interval
  <1> USE Bounds
  <1>1. s.next \in Nat /\ s.interval \in Nat /\ s.interval > 0 /\ t - Deadline - s.next \in Nat
    BY DEF Overdue, ScheduleRow, Instant, NoInstant
  <1> PICK n \in Nat : n = t - Deadline - s.next BY <1>1
  <1> PICK i \in Nat : i = s.interval /\ i > 0 BY <1>1
  <1> PICK k \in Nat : k = n \div i BY DivBounds
  <1>2. LastOverdue(s, t) = s.next + k * i BY DEF LastOverdue
  <1>3. k * i \in Nat /\ (k * i) \div i = k BY DivMul
  <1>4. LastOverdue(s, t) - s.next = k * i BY <1>1, <1>2, <1>3
  <1> QED BY <1>2, <1>3, <1>4

\* The cursor p that skipped the missed prefix, and the range R that records it.
PrefixOK(s, a, t, p, R, u) ==
    /\ MovedOn(s, p)
    /\ CadenceOK(p, a, u)
    /\ R \subseteq ExpiredRow
    /\ \A r, q \in R : r = q
    /\ \A r \in R : /\ r.last <= p.greatest
                    /\ r.count = Cardinality(Covered(r))
                    /\ Covered(r) \subseteq Outstanding(s, a, t)
    /\ \A x \in Outstanding(s, a, t) : x <= p.greatest => \E r \in R : x \in Covered(r)

\* Skipping the missed prefix records exactly the instants that are skipped.
LEMMA PrefixIsOK ==
    ASSUME NEW s \in ScheduleRow, CursorOK(s), NEW a \in Int, NEW u \in Nat, CadenceOK(s, a, u),
           NEW t \in 0..MaxTime, t <= u
    PROVE  PrefixOK(s, a, t, AccountPrefix(s, t), ExpiredRange(s, t), u)
  <1> USE InstantIsNat
  <1>1. RowNumbers(s) BY RowHasNumbers
  <1>2. DueInstants(s, t) = Outstanding(s, a, t) BY DueIsOutstanding, Bounds
  <1>3. MovedOn(s, AccountPrefix(s, t)) BY AccountPrefixMovesOn
  <1>4. ExpiredRange(s, t) \subseteq ExpiredRow BY ExpiredRangeType
  <1>5. CASE ~Overdue(s, t)
    <2>1. AccountPrefix(s, t) = s /\ ExpiredRange(s, t) = {} BY <1>5 DEF AccountPrefix, ExpiredRange
    <2>2. ASSUME NEW x \in Outstanding(s, a, t), x <= s.greatest PROVE FALSE
      <3>1. x \in Instant /\ s.greatest < x BY OutstandingMember
      <3>2. x \in Nat /\ s.greatest \in Int BY <1>1, <3>1 DEF RowNumbers
      <3> QED BY <2>2, <3>1, <3>2
    <2> QED BY <1>3, <2>1, <2>2 DEF PrefixOK
  <1>6. CASE Overdue(s, t)
    <2> PICK lo \in Instant : /\ lo = LastOverdue(s, t) /\ s.next <= lo /\ lo <= t - Deadline
      BY <1>6, OverdueIsInstant
    <2> PICK i \in Nat : i = s.interval /\ i > 0 BY <1>1 DEF RowNumbers
    <2> PICK k \in Nat : lo = s.next + k * i /\ (lo - s.next) \div i = k /\ lo - s.next = k * i
      BY <1>6, OverdueIsBeat
    <2> PICK r \in ExpiredRow : /\ ExpiredRange(s, t) = {r}
                                /\ r.first = s.next /\ r.last = lo /\ r.interval = i /\ r.count = k + 1
      <3> DEFINE row == [first |-> s.next, last |-> lo, interval |-> i, count |-> k + 1]
      <3>1. ExpiredRange(s, t) = {row} BY <1>6 DEF ExpiredRange
      <3>2. row \in ExpiredRow BY <1>4, <3>1
      <3>3. row.first = s.next /\ row.last = lo /\ row.interval = i /\ row.count = k + 1 OBVIOUS
      <3> QED BY <3>1, <3>2, <3>3
    <2>1. lo <= t /\ t \in Nat BY Bounds
    <2>2. s.next # NoInstant BY <1>6 DEF Overdue
    <2>3. Beat(lo - s.next, i)
      <3>1. k * i \in Int BY DivMul
      <3> QED BY <3>1, BeatIsMultiple
    <2>4. lo \in Outstanding(s, a, t) /\ lo \in Outstanding(s, a, u)
      <3>1. lo \in Outstanding(s, a, t) BY <1>2, <2>1, <2>2, <2>3, DueMember
      <3>2. lo <= u BY <2>1
      <3> QED BY <3>1, <3>2, OutstandingMember
    <2> PICK p \in ScheduleRow : p = AccountPrefix(s, t) /\ p.greatest = lo /\ CadenceOK(p, a, u)
      <3>1. AccountPrefix(s, t) = Advance(s, lo) BY <1>6 DEF AccountPrefix
      <3>2. s.greatest <= lo BY <1>1, <2>4, OutstandingMember DEF RowNumbers
      <3>3. MovedOn(s, Advance(s, lo)) /\ Advance(s, lo).greatest = lo BY <3>2, AdvanceMovesOn
      <3>4. CadenceOK(Advance(s, lo), a, u) BY <2>4, AdvanceKeepsCadence
      <3> QED BY <3>1, <3>3, <3>4 DEF MovedOn
    <2>5. r.count = Cardinality(Covered(r)) BY CountCovered
    <2>6. Covered(r) \subseteq Outstanding(s, a, t)
      <3> SUFFICES ASSUME NEW x \in Covered(r) PROVE x \in DueInstants(s, t) BY <1>2
      <3>1. x \in Instant /\ s.next <= x /\ x <= lo /\ Beat(x - s.next, i) BY CoveredMember
      <3>2. x <= t BY <2>1, <3>1
      <3> QED BY <2>2, <3>1, <3>2, DueMember
    <2>7. \A x \in Outstanding(s, a, t) : x <= lo => x \in Covered(r)
      BY <1>2, DueMember, CoveredMember
    <2>8. MovedOn(s, p) BY <1>3
    <2>9. r.last <= p.greatest OBVIOUS
    <2>10. {r} \subseteq ExpiredRow /\ \A q, z \in {r} : q = z OBVIOUS
    <2>11. \A x \in Outstanding(s, a, t) : x <= p.greatest => \E q \in {r} : x \in Covered(q)
      BY <2>7
    <2>12. PrefixOK(s, a, t, p, {r}, u)
      BY <2>5, <2>6, <2>8, <2>9, <2>10, <2>11, Zenon DEF PrefixOK
    <2> QED BY <2>12
  <1> QED BY <1>5, <1>6

-----------------------------------------------------------------------------
\* A step accounts for the outstanding instants D up to the new cursor: N as
\* occurrences, what R covers as missed.
AccountsFor(N, R, D) ==
    /\ N \in SUBSET Instant /\ R \in SUBSET ExpiredRow
    /\ D = Outstanding(schedule, anchor, now)
    /\ UNCHANGED <<now, owed, anchor>> /\ ranges' = ranges \cup R
    /\ \A r, q \in R : r = q
    /\ \A x \in Instant : occurrence'[x].state # "none" <=> occurrence[x].state # "none" \/ x \in N
    /\ \A r \in R : /\ r.last <= schedule'.greatest
                    /\ r.count = Cardinality(Covered(r))
                    /\ \A x \in Covered(r) : x \in D /\ x \notin N
    /\ N \subseteq D
    /\ \A x \in D : x <= schedule'.greatest => x \in N \/ \E r \in R : x \in Covered(r)
    /\ schedule' \in ScheduleRow /\ schedule.greatest <= schedule'.greatest
    /\ CadenceOK(schedule', anchor, now)
    /\ \/ schedule'.status = schedule.status /\ schedule'.interval = schedule.interval
       \/ schedule'.status # "active" /\ \A x \in D : x <= schedule'.greatest

\* Such a step keeps the accounts.
LEMMA AccountStep ==
    ASSUME RecurringInv, AccountInv, NEW N, NEW R, NEW D, AccountsFor(N, R, D)
    PROVE  AccountInv'
  <1> USE InstantIsNat DEF AccountsFor
  <1>1. /\ schedule \in ScheduleRow /\ ranges \subseteq ExpiredRow
        /\ owed \subseteq Instant /\ now \in Nat
    BY Bounds DEF RecurringInv, RecurringTypeOK, Instant
  <1> PICK g \in Int : g = schedule.greatest BY <1>1, RowHasNumbers DEF RowNumbers
  <1> PICK h \in Int : h = schedule'.greatest /\ g <= h BY RowHasNumbers DEF RowNumbers
  <1>2. D = {x \in owed : g < x} BY DEF AccountInv
  <1>3. D \subseteq owed /\ D \subseteq Instant /\ \A x \in D : g < x BY <1>1, <1>2
  <1>4. \A x \in Instant : g < x => occurrence[x].state = "none"
    <2> SUFFICES ASSUME NEW x \in Instant, g < x, occurrence[x].state # "none" PROVE FALSE OBVIOUS
    <2>1. x <= g BY DEF RecurringInv, CursorAhead
    <2> QED BY <2>1
  <1>5. \A r \in ranges : \A x \in Covered(r) : x <= g /\ x \in Instant
    <2> SUFFICES ASSUME NEW r \in ranges, NEW x \in Covered(r) PROVE x <= g /\ x \in Instant OBVIOUS
    <2>1. r.last <= g /\ r.last \in Instant BY <1>1 DEF AccountInv, RangeOK, ExpiredRow
    <2>2. x \in Instant /\ x <= r.last BY CoveredMember
    <2>3. x \in Nat /\ r.last \in Nat BY <2>1, <2>2
    <2> QED BY <2>1, <2>2, <2>3
  <1>6. Outstanding(schedule', anchor, now) = {x \in owed : h < x}
    <2>1. CASE schedule'.status = schedule.status /\ schedule'.interval = schedule.interval
      <3> SUFFICES ASSUME NEW x PROVE x \in Outstanding(schedule', anchor, now) <=> x \in owed /\ h < x
        OBVIOUS
      <3>1. x \in Outstanding(schedule', anchor, now) <=> x \in D /\ h < x
        <4>1. ASSUME x \in Instant, h < x PROVE g < x BY <4>1
        <4> QED BY <2>1, <4>1, OutstandingMember
      <3>2. x \in owed /\ h < x => g < x BY <1>1
      <3> QED BY <1>2, <3>1, <3>2
    <2>2. CASE schedule'.status # "active" /\ \A x \in D : x <= h
      <3>1. Outstanding(schedule', anchor, now) = {} BY <2>2 DEF Outstanding
      <3>2. ASSUME NEW x \in owed, h < x PROVE FALSE
        <4>1. x \in D BY <1>1, <1>2, <3>2
        <4>2. x <= h BY <2>2, <4>1
        <4> QED BY <1>1, <3>2, <4>2
      <3> QED BY <3>1, <3>2
    <2> QED BY <2>1, <2>2
  <1>7. \A x \in owed : x <= h => occurrence'[x].state # "none" \/ \E r \in ranges' : x \in Covered(r)
    <2> SUFFICES ASSUME NEW x \in owed, x <= h
                 PROVE  occurrence'[x].state # "none" \/ \E r \in ranges' : x \in Covered(r)
      OBVIOUS
    <2>1. CASE x <= g BY <1>1, <2>1 DEF AccountInv
    <2>2. CASE ~(x <= g)
      <3>1. x \in D BY <1>1, <1>2, <2>2
      <3>2. x \in N \/ \E r \in R : x \in Covered(r) BY <3>1
      <3> QED BY <1>1, <3>2
    <2> QED BY <2>1, <2>2
  <1>8. \A x \in Instant : occurrence'[x].state # "none" => x \in owed
    BY <1>3 DEF AccountInv
  <1>9. ASSUME NEW r \in ranges' PROVE RangeOK(r, schedule)'
    <2>1. CASE r \in R
      <3>1. \A x \in Covered(r) : x \in owed /\ occurrence'[x].state = "none" BY <1>3, <1>4, <2>1
      <3> QED BY <2>1, <3>1 DEF RangeOK
    <2>2. CASE r \in ranges
      <3>1. RangeOK(r, schedule) BY <2>2 DEF AccountInv
      <3>2. r.last \in Int /\ r.last <= g
        <4>1. r \in ExpiredRow BY <1>1, <2>2
        <4>2. r.last \in Instant BY <4>1 DEF ExpiredRow
        <4>3. r.last \in Nat BY <4>2
        <4>4. r.last <= g BY <3>1 DEF RangeOK
        <4> QED BY <4>3, <4>4
      <3>3. ASSUME NEW x \in Covered(r), x \in N PROVE FALSE
        <4>1. x <= g /\ x \in Nat BY <1>5, <2>2
        <4>2. g < x BY <1>3, <3>3
        <4> QED BY <4>1, <4>2
      <3>4. \A x \in Covered(r) : x \in owed /\ occurrence'[x].state = "none"
        BY <1>5, <2>2, <3>1, <3>3 DEF RangeOK
      <3>5. r.last <= h BY <3>2
      <3> QED BY <3>1, <3>4, <3>5 DEF RangeOK
    <2> QED BY <2>1, <2>2
  <1>10. \A r, q \in ranges' : r # q => Covered(r) \cap Covered(q) = {}
    <2>1. \A r \in ranges : \A q \in R : Covered(r) \cap Covered(q) = {}
      <3> SUFFICES ASSUME NEW r \in ranges, NEW q \in R, NEW x \in Covered(r), x \in Covered(q) PROVE FALSE
        OBVIOUS
      <3>1. x \in D BY Zenon
      <3> QED BY <1>3, <1>5, <3>1
    <2>2. \A r, q \in ranges : r # q => Covered(r) \cap Covered(q) = {} BY DEF AccountInv
    <2> QED BY <2>1, <2>2, Zenon
  <1>11. \A x \in owed : x <= now BY DEF AccountInv
  <1> QED BY <1>6, <1>7, <1>8, <1>9, <1>10, <1>11 DEF AccountInv

-----------------------------------------------------------------------------
(* Each step keeps the accounts. *)

\* A step that neither accounts for instants nor lets one come.
LEMMA AccountFrame ==
    ASSUME AccountInv, UNCHANGED <<now, schedule, ranges, anchor, owed>>, owed \subseteq Instant,
           \A x \in Instant : occurrence'[x].state # "none" <=> occurrence[x].state # "none"
    PROVE  AccountInv'
  <1>1. /\ CadenceOK(schedule, anchor, now)' /\ (\A x \in owed : x <= now)'
        /\ (Outstanding(schedule, anchor, now) = {x \in owed : schedule.greatest < x})'
    BY DEF AccountInv
  <1>2. \A x \in owed : x <= schedule.greatest =>
            occurrence'[x].state # "none" \/ \E r \in ranges : x \in Covered(r)
    BY DEF AccountInv
  <1>3. \A x \in Instant : occurrence'[x].state # "none" => x \in owed BY DEF AccountInv
  <1>4. ASSUME NEW r \in ranges PROVE RangeOK(r, schedule)'
    <2>1. RangeOK(r, schedule) BY DEF AccountInv
    <2>2. \A x \in Covered(r) : x \in Instant BY CoveredMember
    <2> QED BY <2>1, <2>2 DEF RangeOK
  <1>5. \A r, q \in ranges : r # q => Covered(r) \cap Covered(q) = {} BY DEF AccountInv
  <1> QED BY <1>1, <1>2, <1>3, <1>4, <1>5 DEF AccountInv

\* The types the accounting rests on.
LEMMA Accounted ==
    ASSUME RecurringInv
    PROVE  /\ schedule \in ScheduleRow /\ CursorOK(schedule) /\ RowNumbers(schedule)
           /\ now \in 0..MaxTime /\ now \in Nat /\ anchor \in Int
           /\ ranges \subseteq ExpiredRow /\ owed \subseteq Instant
  <1>1. schedule \in ScheduleRow /\ CursorOK(schedule) /\ now \in 0..MaxTime /\ ranges \subseteq ExpiredRow
    BY DEF RecurringInv, RecurringTypeOK, CursorAhead, CursorOK
  <1>2. anchor \in Int /\ owed \subseteq Instant /\ now \in Nat
    BY Bounds DEF RecurringInv, RecurringTypeOK, Instant, NoInstant
  <1> QED BY <1>1, <1>2, RowHasNumbers

\* Pausing and deleting account for everything that has come.
LEMMA SealAccounts ==
    ASSUME RecurringInv, AccountInv, NEW status \in {"paused", "deleted"},
           schedule.revision < MaxRevision, Seal(status), UNCHANGED <<now, anchor, owed>>
    PROVE  AccountInv'
  <1> USE InstantIsNat, Accounted
  <1> PICK s \in ScheduleRow, live \in SUBSET Instant : SealedAs(s, live) BY SealResult
  <1> PICK R : R = ExpiredRange(schedule, now) OBVIOUS
  <1> PICK D : D = Outstanding(schedule, anchor, now) OBVIOUS
  <1>1. CadenceOK(schedule, anchor, now) BY DEF AccountInv
  <1>2. PrefixOK(schedule, anchor, now, s, R, now)
    <2>1. now <= now OBVIOUS
    <2> QED BY <1>1, <2>1, PrefixIsOK DEF SealedAs
  <1>3. live = Outstanding(s, anchor, now)
    <2>1. CadenceOK(s, anchor, now) BY <1>2 DEF PrefixOK
    <2> QED BY <2>1, DueIsOutstanding DEF SealedAs
  <1>4. /\ RowNumbers(s) /\ schedule' \in ScheduleRow /\ RowNumbers(schedule')
        /\ schedule.greatest <= s.greatest /\ s.greatest <= schedule'.greatest
        /\ s.status = schedule.status /\ s.interval = schedule.interval
    BY RowHasNumbers DEF SealedAs, MovedOn
  <1> PICK g \in Int : g = schedule.greatest BY DEF RowNumbers
  <1> PICK p \in Int : p = s.greatest /\ g <= p BY <1>4 DEF RowNumbers
  <1> PICK h \in Int : h = schedule'.greatest /\ p <= h BY <1>4 DEF RowNumbers
  <1>5. \A x : x \in live <=> x \in D /\ p < x
    <2> TAKE x
    <2>1. ASSUME x \in Instant, p < x PROVE g < x BY <2>1
    <2> QED BY <1>3, <1>4, <2>1, OutstandingMember
  <1>6. \A x \in D : x \in Nat BY OutstandingMember
  <1>7. \A x \in live : x <= h BY DEF SealedAs
  <1>8. \A r \in R : \A x \in Covered(r) : x <= p /\ x \in D
    <2> SUFFICES ASSUME NEW r \in R, NEW x \in Covered(r) PROVE x <= p /\ x \in D OBVIOUS
    <2>1. r \in ExpiredRow /\ r.last <= p /\ x \in D BY <1>2 DEF PrefixOK
    <2>2. r.last \in Instant BY <2>1 DEF ExpiredRow
    <2>3. x <= r.last BY CoveredMember
    <2>4. r.last \in Nat /\ x \in Nat BY <1>6, <2>1, <2>2
    <2> QED BY <2>1, <2>3, <2>4
  <1>9. \A r \in R : \A x \in Covered(r) : x \notin live
    <2> SUFFICES ASSUME NEW r \in R, NEW x \in Covered(r), x \in live PROVE FALSE OBVIOUS
    <2>1. x <= p /\ x \in D /\ p < x BY <1>5, <1>8
    <2> QED BY <1>6, <2>1
  <1>10. \A x \in D : x \in live \/ \E r \in R : x \in Covered(r)
    <2> SUFFICES ASSUME NEW x \in D, ~(p < x) PROVE \E r \in R : x \in Covered(r) BY <1>5
    <2>1. x <= p BY <1>6
    <2> QED BY <1>2, <2>1 DEF PrefixOK
  <1>11. \A x \in D : x <= h
    <2> SUFFICES ASSUME NEW x \in D, ~(p < x) PROVE x <= h BY <1>5, <1>7
    <2> QED BY <1>6
  <1>12. \A r \in R : r.last <= h /\ r.count = Cardinality(Covered(r))
    <2> SUFFICES ASSUME NEW r \in R PROVE r.last <= h /\ r.count = Cardinality(Covered(r)) OBVIOUS
    <2>1. r \in ExpiredRow /\ r.last <= p /\ r.count = Cardinality(Covered(r)) BY <1>2 DEF PrefixOK
    <2>2. r.last \in Instant BY <2>1 DEF ExpiredRow
    <2>3. r.last \in Nat BY <2>2
    <2> QED BY <2>1, <2>3
  <1>13. h <= now
    <2>1. CASE h \in live
      <3>1. h \in D BY <1>5, <2>1
      <3> QED BY <3>1, OutstandingMember
    <2>2. CASE h = p BY <1>2, <2>2 DEF PrefixOK, CadenceOK
    <2> QED BY <2>1, <2>2 DEF SealedAs
  <1>14. CadenceOK(schedule', anchor, now) BY <1>13 DEF CadenceOK, SealedAs
  <1>15. \A x \in Instant : occurrence'[x].state # "none" <=> occurrence[x].state # "none" \/ x \in live
    BY DEF SealedAs
  <1>16. R \in SUBSET ExpiredRow /\ \A r, q \in R : r = q BY <1>2 DEF PrefixOK
  <1>17. ranges' = ranges \cup R /\ schedule'.status # "active" BY DEF SealedAs
  <1>18. live \subseteq D BY <1>5
  <1>19. schedule.greatest <= schedule'.greatest OBVIOUS
  <1>20. AccountsFor(live, R, D)
    BY <1>4, <1>8, <1>9, <1>10, <1>11, <1>12, <1>14, <1>15, <1>16, <1>17, <1>18, <1>19 DEF AccountsFor
  <1> QED BY <1>20, AccountStep

\* Oldest takes no element without the older ones.
LEMMA OldestIsClosed ==
    ASSUME NEW S \in SUBSET Instant, NEW n \in Nat, NEW x \in Oldest(S, n), NEW y \in S, y <= x
    PROVE  y \in Oldest(S, n)
  <1>1. IsFiniteSet(Instant)
    <2>1. 0 \in Int /\ LastInstant \in Int BY Bounds
    <2> QED BY <2>1, FS_Interval DEF Instant
  <1> DEFINE below(z) == {w \in S : w < z}
  <1>2. IsFiniteSet(below(x)) /\ IsFiniteSet(below(y))
    <2>1. below(x) \in SUBSET Instant /\ below(y) \in SUBSET Instant OBVIOUS
    <2> QED BY <1>1, <2>1, FS_Subset
  <1>0. x \in S BY DEF Oldest
  <1>3. x \in Nat /\ y \in Nat /\ \A w \in S : w \in Nat
    BY <1>0, InstantIsNat
  <1>4. below(y) \in SUBSET below(x)
    <2> SUFFICES ASSUME NEW w \in S, w < y PROVE w < x OBVIOUS
    <2>1. w \in Nat BY <1>3
    <2> QED BY <1>3, <2>1
  <1>5. Cardinality(below(y)) <= Cardinality(below(x)) BY <1>2, <1>4, FS_Subset
  <1>6. Cardinality(below(y)) \in Nat /\ Cardinality(below(x)) \in Nat BY <1>2, FS_CardinalityType
  <1>7. Cardinality(below(x)) < n BY DEF Oldest
  <1>8. Cardinality(below(y)) < n BY <1>5, <1>6, <1>7
  <1> QED BY <1>8 DEF Oldest

\* A publication accounts for everything up to its new cursor, also when the
\* limit of the scan cuts it short.
LEMMA PublishAccounts ==
    ASSUME RecurringInv, AccountInv, ScanPublish
    PROVE  AccountInv'
  <1> USE InstantIsNat, Accounted
  <1> PICK plan \in PlanRow, s \in ScheduleRow, due, chosen, new \in SUBSET Instant :
           PublishedAs(plan, s, due, chosen, new)
    BY PublishResult
  <1> PICK t \in 0..MaxTime : t = plan.at /\ t \in Nat /\ t <= now
    BY Bounds DEF PublishedAs
  <1> PICK R : R = IF plan.due THEN ExpiredRange(schedule, t) ELSE {} OBVIOUS
  <1> PICK D : D = Outstanding(schedule, anchor, now) OBVIOUS
  <1>1. CadenceOK(schedule, anchor, now) BY DEF AccountInv
  <1>2. PrefixOK(schedule, anchor, t, s, ExpiredRange(schedule, t), now)
    BY <1>1, PrefixIsOK DEF PublishedAs
  <1>3. DueInstants(s, t) = Outstanding(s, anchor, t)
    <2>1. CadenceOK(s, anchor, now) BY <1>2 DEF PrefixOK
    <2>2. t \in Int OBVIOUS
    <2> QED BY <2>1, <2>2, DueIsOutstanding
  <1>4. /\ RowNumbers(s) /\ schedule' \in ScheduleRow /\ RowNumbers(schedule')
        /\ schedule.greatest <= s.greatest /\ schedule.greatest <= schedule'.greatest
        /\ s.status = schedule.status /\ s.interval = schedule.interval
        /\ schedule'.status = schedule.status /\ schedule'.interval = schedule.interval
    BY RowHasNumbers DEF PublishedAs, MovedOn
  <1> PICK g \in Int : g = schedule.greatest BY DEF RowNumbers
  <1> PICK p \in Int : p = s.greatest /\ g <= p BY <1>4 DEF RowNumbers
  <1> PICK h \in Int : h = schedule'.greatest /\ g <= h BY <1>4 DEF RowNumbers
  <1>5. \A x : x \in DueInstants(s, t) <=> x \in D /\ p < x /\ x <= t
    <2> TAKE x
    <2>1. ASSUME x \in Instant, p < x PROVE g < x BY <2>1
    <2>2. ASSUME x \in Instant, x <= t PROVE x <= now BY <2>2
    <2> QED BY <1>3, <1>4, <2>1, <2>2, OutstandingMember
  <1>6. \A x \in D : x \in Nat /\ x \in Instant BY OutstandingMember
  <1>7. \A x : x \in Outstanding(schedule, anchor, t) => x \in D
    <2> TAKE x
    <2>2. ASSUME x \in Instant, x <= t PROVE x <= now BY <2>2
    <2> QED BY <2>2, OutstandingMember
  <1>8. new \subseteq due /\ due \subseteq D /\ \A x \in due : p < x /\ x <= t /\ plan.due
    BY <1>5 DEF PublishedAs
  <1>9. \A r \in R : \A x \in Covered(r) : x <= p /\ x \in D
    <2> SUFFICES ASSUME NEW r \in R, NEW x \in Covered(r) PROVE x <= p /\ x \in D OBVIOUS
    <2>0. r \in ExpiredRange(schedule, t) OBVIOUS
    <2>1. r \in ExpiredRow /\ r.last <= p /\ x \in D BY <1>2, <1>7, <2>0 DEF PrefixOK
    <2>2. r.last \in Instant BY <2>1 DEF ExpiredRow
    <2>3. x <= r.last BY CoveredMember
    <2>4. r.last \in Nat /\ x \in Nat BY <1>6, <2>1, <2>2
    <2> QED BY <2>1, <2>3, <2>4
  <1>10. \A r \in R : \A x \in Covered(r) : x \notin new
    <2> SUFFICES ASSUME NEW r \in R, NEW x \in Covered(r), x \in new PROVE FALSE OBVIOUS
    <2>1. x <= p /\ x \in D /\ p < x BY <1>8, <1>9
    <2> QED BY <1>6, <2>1
  <1>11. h <= t \/ h = g
    <2>1. CASE new # {}
      <3>1. h \in due BY <1>8, <2>1 DEF PublishedAs
      <3> QED BY <1>8, <3>1
    <2>2. CASE new = {} /\ plan.due
      <3>1. h = p BY <2>2 DEF PublishedAs
      <3>2. p <= t \/ p = g
        <4>1. CASE Overdue(schedule, t)
          <5> PICK lo \in Instant : lo = LastOverdue(schedule, t) /\ g <= lo /\ lo <= t - Deadline
            <6>1. LastOverdue(schedule, t) \in Instant /\ schedule.next <= LastOverdue(schedule, t)
                  /\ LastOverdue(schedule, t) <= t - Deadline
              BY <4>1, OverdueIsInstant
            <6>2. g < schedule.next /\ schedule.next \in Int BY <4>1 DEF CursorOK, Overdue, RowNumbers
            <6>3. LastOverdue(schedule, t) \in Nat BY <6>1
            <6>4. g <= LastOverdue(schedule, t) BY <6>1, <6>2, <6>3
            <6> QED BY <6>1, <6>4
          <5>1. s = Advance(schedule, lo) BY <4>1 DEF PublishedAs, AccountPrefix
          <5>2. p = lo BY <5>1, AdvanceMovesOn
          <5>3. lo \in Nat OBVIOUS
          <5> QED BY <5>2, <5>3, Bounds
        <4>2. CASE ~Overdue(schedule, t) BY <4>2 DEF PublishedAs, AccountPrefix
        <4> QED BY <4>1, <4>2
      <3> QED BY <3>1, <3>2
    <2>3. CASE new = {} /\ ~plan.due BY <2>3 DEF PublishedAs
    <2> QED BY <2>1, <2>2, <2>3
  <1>12. \A x \in D : x <= h => x \in new \/ \E r \in R : x \in Covered(r)
    <2> SUFFICES ASSUME NEW x \in D, x <= h, x \notin new PROVE \E r \in R : x \in Covered(r) OBVIOUS
    <2>1. x \in Nat /\ g < x /\ x \in Instant BY <1>6, OutstandingMember
    <2>2. x <= t BY <1>11, <2>1
    <2>3. plan.due
      <3>1. CASE new # {} BY <1>8, <3>1
      <3>2. CASE new = {} /\ ~plan.due
        <4>1. h = g BY <3>2 DEF PublishedAs
        <4> QED BY <2>1, <4>1
      <3> QED BY <3>1, <3>2
    <2>4. CASE x <= p
      <3>1. x \in Outstanding(schedule, anchor, t) BY <2>2, OutstandingMember
      <3> QED BY <1>2, <2>3, <2>4, <3>1 DEF PrefixOK
    <2>5. CASE p < x
      <3>1. x \in due BY <1>5, <2>2, <2>3, <2>5 DEF PublishedAs
      <3>2. CASE new = {}
        <4>1. h = p BY <2>3, <3>2 DEF PublishedAs
        <4> QED BY <2>1, <2>5, <4>1
      <3>3. CASE new # {}
        <4>1. h \in chosen BY <3>3 DEF PublishedAs
        <4>2. plan.live \cup due \in SUBSET Instant BY DEF PlanRow
        <4>3. chosen = Oldest(plan.live \cup due, ScanLimit) BY DEF PublishedAs
        <4>4. x \in chosen BY <3>1, <4>1, <4>2, <4>3, OldestIsClosed, Bounds
        <4>5. x \notin plan.live
          <5> SUFFICES ASSUME x \in plan.live PROVE FALSE OBVIOUS
          <5>1. x \in Pending BY DEF PublishedAs, PlanFits
          <5>2. occurrence[x].state = "pending" BY <5>1 DEF Pending
          <5>3. x <= g BY <2>1, <5>2 DEF RecurringInv, CursorAhead
          <5> QED BY <2>1, <5>3
        <4> QED BY <4>4, <4>5 DEF PublishedAs
      <3> QED BY <3>2, <3>3
    <2> QED BY <2>1, <2>4, <2>5
  <1>13. \A r \in R : r.last <= h /\ r.count = Cardinality(Covered(r))
    <2> SUFFICES ASSUME NEW r \in R PROVE r.last <= h /\ r.count = Cardinality(Covered(r)) OBVIOUS
    <2>0. r \in ExpiredRange(schedule, t) /\ plan.due OBVIOUS
    <2>1. r \in ExpiredRow /\ r.last <= p /\ r.count = Cardinality(Covered(r)) BY <1>2, <2>0 DEF PrefixOK
    <2>2. r.last \in Instant BY <2>1 DEF ExpiredRow
    <2>3. r.last \in Nat BY <2>2
    <2>4. p <= h
      <3>1. CASE new # {}
        <4>1. h \in due BY <1>8, <3>1 DEF PublishedAs
        <4> QED BY <1>8, <4>1
      <3>2. CASE new = {}
        <4>1. schedule' = s BY <2>0, <3>2 DEF PublishedAs
        <4> QED BY <4>1
      <3> QED BY <3>1, <3>2
    <2> QED BY <2>1, <2>3, <2>4
  <1>14. CadenceOK(schedule', anchor, now)
    <2>1. CASE new # {}
      <3>1. h \in D /\ schedule' = Advance(schedule, h) BY <1>8, <2>1 DEF PublishedAs
      <3> QED BY <1>1, <3>1, AdvanceKeepsCadence
    <2>2. CASE new = {} /\ plan.due BY <1>2, <2>2 DEF PublishedAs, PrefixOK
    <2>3. CASE new = {} /\ ~plan.due BY <1>1, <2>3 DEF PublishedAs
    <2> QED BY <2>1, <2>2, <2>3
  <1>15. \A x \in Instant : occurrence'[x].state # "none" <=> occurrence[x].state # "none" \/ x \in new
    BY DEF PublishedAs
  <1>16. R \in SUBSET ExpiredRow /\ \A r, q \in R : r = q BY <1>2 DEF PrefixOK
  <1>17. ranges' = ranges \cup R BY DEF PublishedAs
  <1>18. new \subseteq D BY <1>8
  <1>19. UNCHANGED <<now, owed, anchor>> BY DEF ScanPublish
  <1>20. AccountsFor(new, R, D)
    BY <1>4, <1>9, <1>10, <1>12, <1>13, <1>14, <1>15, <1>16, <1>17, <1>18, <1>19 DEF AccountsFor
  <1> QED BY <1>20, AccountStep

\* A step of the owner on a schedule that is not active and stays so.
LEMMA InactiveAccounts ==
    ASSUME RecurringInv, AccountInv, schedule.status # "active", schedule' \in ScheduleRow,
           schedule'.status # "active", schedule'.next = schedule.next,
           schedule'.greatest = schedule.greatest,
           UNCHANGED <<now, occurrence, ranges, anchor, owed>>
    PROVE  AccountInv'
  <1>1. Outstanding(schedule, anchor, now) = {} BY DEF Outstanding
  <1>2. CadenceOK(schedule', anchor, now) BY DEF AccountInv, CadenceOK
  <1>3. schedule.greatest <= schedule'.greatest BY Accounted DEF RowNumbers
  <1>4. AccountsFor({}, {}, {}) BY <1>1, <1>2, <1>3 DEF AccountsFor
  <1> QED BY <1>4, AccountStep

\* A resumption begins a cadence ahead of all that was accounted for.
LEMMA ResumeAccounts ==
    ASSUME RecurringInv, AccountInv, NEW x \in Instant, Resume(x)
    PROVE  AccountInv'
  <1> USE InstantIsNat, Accounted
  <1>1. /\ schedule.status # "active" /\ x >= now /\ x > schedule.greatest
        /\ anchor' = x /\ owed' = (IF x = now THEN owed \cup {x} ELSE owed)
        /\ UNCHANGED <<now, occurrence, ranges>>
    BY DEF Resume
  <1>2. schedule' = [schedule EXCEPT !.status = "active", !.revision = schedule.revision + 1, !.next = x]
    BY DEF Resume
  <1>3. /\ schedule'.status = "active" /\ schedule'.next = x
        /\ schedule'.greatest = schedule.greatest /\ schedule'.interval = schedule.interval
    BY <1>2 DEF ScheduleRow
  <1> PICK g \in Int : g = schedule.greatest BY DEF RowNumbers
  <1> PICK i \in Nat : i = schedule.interval /\ i > 0 BY DEF RowNumbers
  <1>4. x \in Nat /\ g < x /\ now <= x BY <1>1
  <1>5. g <= now BY DEF AccountInv, CadenceOK
  <1>6. CadenceOK(schedule', x, now) BY <1>3, <1>4, <1>5 DEF CadenceOK
  <1>7. \A y \in owed : y \in Nat /\ y <= g
    <2> SUFFICES ASSUME NEW y \in owed, ~(y <= g) PROVE FALSE OBVIOUS
    <2>1. y \in Nat OBVIOUS
    <2>2. y \in Outstanding(schedule, anchor, now) BY <2>1 DEF AccountInv
    <2> QED BY <1>1, <2>2, OutstandingMember
  <1>8. \A y \in owed' : y \in Instant /\ y <= now
    BY <1>1 DEF AccountInv
  <1>9. Outstanding(schedule', x, now) = {y \in owed' : g < y}
    <2> SUFFICES ASSUME NEW y PROVE y \in Outstanding(schedule', x, now) <=> y \in owed' /\ g < y
      OBVIOUS
    <2>1. ASSUME y \in owed', g < y PROVE y = x /\ x = now BY <1>1, <1>7, <2>1
    <2>2. x - x = 0 BY <1>4
    <2>3. Beat(x - x, i) BY <2>2, BeatSelf
    <2>4. ASSUME y \in Instant, x <= y, y <= now PROVE y = x /\ x = now BY <1>4, <2>4
    <2>5. ASSUME y \in Outstanding(schedule', x, now) PROVE y \in owed' /\ g < y
      <3>1. y \in Instant /\ x <= y /\ y <= now BY <2>5, OutstandingMember
      <3> QED BY <1>1, <1>4, <2>4, <3>1
    <2>6. ASSUME y \in owed', g < y PROVE y \in Outstanding(schedule', x, now)
      <3>1. y = x /\ x = now BY <2>1, <2>6
      <3>2. x <= y /\ y <= now BY <1>4, <3>1
      <3> QED BY <1>3, <1>4, <2>3, <3>1, <3>2, OutstandingMember
    <2> QED BY <2>5, <2>6
  <1>10. \A y \in owed' : y <= g => occurrence[y].state # "none" \/ \E r \in ranges : y \in Covered(r)
    <2> SUFFICES ASSUME NEW y \in owed', y <= g PROVE y \in owed BY DEF AccountInv
    <2>1. y # x BY <1>4
    <2> QED BY <1>1, <2>1
  <1>11. owed \subseteq owed' BY <1>1
  <1>12. \A y \in Instant : occurrence[y].state # "none" => y \in owed' BY <1>11 DEF AccountInv
  <1>13. \A r \in ranges : RangeOK(r, schedule)'
    <2> SUFFICES ASSUME NEW r \in ranges PROVE RangeOK(r, schedule)' OBVIOUS
    <2>1. RangeOK(r, schedule) BY DEF AccountInv
    <2> QED BY <1>1, <1>3, <1>11, <2>1 DEF RangeOK
  <1>14. \A r, q \in ranges : r # q => Covered(r) \cap Covered(q) = {} BY DEF AccountInv
  <1> QED BY <1>1, <1>3, <1>6, <1>8, <1>9, <1>10, <1>12, <1>13, <1>14 DEF AccountInv

\* An instant that comes is outstanding if the cadence names it.
LEMMA TickAccounts ==
    ASSUME RecurringInv, AccountInv, Tick
    PROVE  AccountInv'
  <1> USE InstantIsNat, Accounted
  <1> PICK n \in Nat : n = now' /\ n = now + 1 /\ n \in Instant
    BY Bounds DEF Tick, Instant
  <1> PICK g \in Int : g = schedule.greatest BY DEF RowNumbers
  <1> DEFINE comes == schedule.status = "active" /\ anchor <= n /\ Beat(n - anchor, schedule.interval)
  <1>1. /\ owed' = (IF comes THEN owed \cup {n} ELSE owed)
        /\ UNCHANGED <<schedule, occurrence, ranges, anchor>>
    BY DEF Tick, Beat
  <1>2. g <= now BY DEF AccountInv, CadenceOK
  <1>3. CadenceOK(schedule, anchor, n)
    <2>1. g <= n BY <1>2
    <2> QED BY <2>1 DEF AccountInv, CadenceOK
  <1>4. \A y \in owed : y \in Nat /\ y <= now BY DEF AccountInv
  <1>5. \A y \in owed' : y <= n BY <1>1, <1>4
  <1>6. Outstanding(schedule, anchor, n) = {y \in owed' : g < y}
    <2> SUFFICES ASSUME NEW y PROVE y \in Outstanding(schedule, anchor, n) <=> y \in owed' /\ g < y
      OBVIOUS
    <2>1. CASE y = n
      <3>1. g < y /\ n <= n /\ n \notin owed BY <1>2, <1>4, <2>1
      <3>2. y \in Outstanding(schedule, anchor, n) <=> comes BY <2>1, <3>1, OutstandingMember
      <3> QED BY <1>1, <2>1, <3>1, <3>2
    <2>2. CASE y # n
      <3>1. y \in owed' <=> y \in owed BY <1>1, <2>2
      <3>2. ASSUME y \in Instant PROVE y <= n <=> y <= now
        <4>1. y \in Nat BY <3>2
        <4> QED BY <2>2, <4>1
      <3>3. y \in Outstanding(schedule, anchor, n) <=> y \in Outstanding(schedule, anchor, now)
        BY <3>2, OutstandingMember
      <3> QED BY <3>1, <3>3 DEF AccountInv
    <2> QED BY <2>1, <2>2
  <1>7. \A y \in owed' : y <= g => occurrence[y].state # "none" \/ \E r \in ranges : y \in Covered(r)
    <2> SUFFICES ASSUME NEW y \in owed', y <= g PROVE y \in owed BY DEF AccountInv
    <2>1. y # n BY <1>2
    <2> QED BY <1>1, <2>1
  <1>8. owed \subseteq owed' BY <1>1
  <1>9. \A y \in Instant : occurrence[y].state # "none" => y \in owed' BY <1>8 DEF AccountInv
  <1>10. \A r \in ranges : RangeOK(r, schedule)'
    <2> SUFFICES ASSUME NEW r \in ranges PROVE RangeOK(r, schedule)' OBVIOUS
    <2>1. RangeOK(r, schedule) BY DEF AccountInv
    <2> QED BY <1>1, <1>8, <2>1 DEF RangeOK
  <1>11. \A r, q \in ranges : r # q => Covered(r) \cap Covered(q) = {} BY DEF AccountInv
  <1> QED BY <1>1, <1>3, <1>5, <1>6, <1>7, <1>9, <1>10, <1>11 DEF AccountInv

\* The steps of an attempt leave every occurrence that exists in existence.
LEMMA AttemptAccounts ==
    ASSUME RecurringInv, AccountInv, UNCHANGED <<now, schedule, ranges, anchor, owed>>,
           \/ UNCHANGED occurrence
           \/ scanner.pc = "posted" /\ \E full \in BOOLEAN : ApplyAttempt(Candidate, full)
    PROVE  AccountInv'
  <1>1. \A x \in Instant : occurrence'[x].state # "none" <=> occurrence[x].state # "none"
    <2>1. CASE UNCHANGED occurrence BY <2>1
    <2>2. CASE scanner.pc = "posted" /\ \E full \in BOOLEAN : ApplyAttempt(Candidate, full)
      <3>1. AttemptOK BY <2>2, AttemptIsOK
      <3> QED BY <3>1 DEF AttemptOK
    <2> QED BY <2>1, <2>2
  <1> QED BY <1>1, Accounted, AccountFrame

\* The accounts are kept by every step.
LEMMA NextAccounts == RecurringInv /\ AccountInv /\ [Next]_vars => AccountInv'
  <1> SUFFICES ASSUME RecurringInv, AccountInv, [Next]_vars PROVE AccountInv' OBVIOUS
  <1> USE Accounted
  <1>1. CASE UNCHANGED vars BY <1>1, AttemptAccounts DEF vars
  <1>2. CASE Create
    <2>1. schedule' \in ScheduleRow BY <1>2, OwnerSteps DEF OwnerStep, StepOK, RecurringInv, RecurringTypeOK
    <2>2. schedule' = [schedule EXCEPT !.status = "paused", !.revision = 1] BY <1>2 DEF Create
    <2>3. /\ schedule'.status = "paused" /\ schedule'.next = schedule.next
          /\ schedule'.greatest = schedule.greatest
      BY <2>2 DEF ScheduleRow
    <2> QED BY <1>2, <2>1, <2>3, InactiveAccounts DEF Create
  <1>3. CASE Pause BY <1>3, SealAccounts DEF Pause
  <1>4. CASE Delete BY <1>4, SealAccounts DEF Delete
  <1>5. CASE LoseAuthority BY <1>5, AttemptAccounts DEF LoseAuthority
  <1>6. CASE \E x \in Instant : Resume(x) BY <1>6, ResumeAccounts
  <1>7. ASSUME NEW i \in Interval, Edit(i) PROVE AccountInv'
    <2>1. schedule' \in ScheduleRow
      <3>1. OwnerStep BY <1>7 DEF OwnerStep
      <3> QED BY <3>1, OwnerSteps DEF StepOK, RecurringInv, RecurringTypeOK
    <2>2. schedule' = [schedule EXCEPT !.interval = i, !.revision = schedule.revision + 1]
      BY <1>7 DEF Edit
    <2>3. /\ schedule'.status = schedule.status /\ schedule'.next = schedule.next
          /\ schedule'.greatest = schedule.greatest
      BY <2>2 DEF ScheduleRow
    <2> QED BY <1>7, <2>1, <2>3, InactiveAccounts DEF Edit
  <1>8. CASE ScannerStep
    <2>1. CASE ScanPublish BY <2>1, PublishAccounts
    <2>2. CASE ScanPlan \/ ScanConflict \/ PostAttempt \/ PublishTurn
      <3>1. UNCHANGED <<now, schedule, occurrence, ranges, anchor, owed>>
        BY <2>2, Zenon DEF ScanPlan, ScanConflict, PostAttempt, PublishTurn
      <3> QED BY <3>1, AttemptAccounts
    <2>3. ASSUME NEW outcome, Prepare(outcome) PROVE AccountInv'
      BY <2>3, AttemptAccounts DEF Prepare
    <2>4. ASSUME NEW full \in BOOLEAN, CommitAttempt(full) PROVE AccountInv'
      BY <2>4, AttemptAccounts DEF CommitAttempt
    <2> QED BY <1>8, <2>1, <2>2, <2>3, <2>4 DEF ScannerStep
  <1>9. CASE CandidateFails BY <1>9, AttemptAccounts DEF CandidateFails
  <1>10. CASE AnswerLost BY <1>10, AttemptAccounts DEF AnswerLost
  <1>11. CASE Crash BY <1>11, AttemptAccounts DEF Crash
  <1>12. CASE Tick BY <1>12, TickAccounts
  <1>13. ASSUME NEW x \in Instant, QueueStep(x) PROVE AccountInv'
    BY <1>13, AttemptAccounts DEF QueueStep
  <1> QED
    BY <1>1, <1>2, <1>3, <1>4, <1>5, <1>6, <1>7, <1>8, <1>9, <1>10, <1>11, <1>12, <1>13
    DEF Next, OwnerStep

\* Nothing is owed initially.
LEMMA InitAccounts == Init => AccountInv
  <1> SUFFICES ASSUME Init PROVE AccountInv OBVIOUS
  <1> USE DEF Init
  <1>1. /\ schedule.status = "absent" /\ schedule.next = NoInstant /\ schedule.greatest = NoInstant
        /\ now = 0 /\ owed = {} /\ ranges = {}
    OBVIOUS
  <1>2. \A x \in Instant : occurrence[x].state = "none" BY RowType
  <1>3. CadenceOK(schedule, anchor, now) BY <1>1 DEF CadenceOK, NoInstant
  <1>4. Outstanding(schedule, anchor, now) = {} BY <1>1 DEF Outstanding
  <1> QED BY <1>1, <1>2, <1>3, <1>4 DEF AccountInv

\* The invariants together give the exact account.
LEMMA AccountsAreExact == RecurringInv /\ AccountInv => ExactAccounting
  <1> SUFFICES ASSUME RecurringInv, AccountInv PROVE ExactAccounting OBVIOUS
  <1> USE Accounted
  <1>1. \A r \in ranges : r.count = Cardinality(Covered(r)) BY DEF AccountInv, RangeOK
  <1>2. ASSUME NEW x \in Instant
        PROVE  LET missed == {r \in ranges : x \in Covered(r)}
               IN  IF occurrence[x].state # "none" THEN x \in owed /\ missed = {}
                   ELSE IF missed # {} THEN x \in owed /\ Cardinality(missed) = 1
                   ELSE x \in owed => schedule.status = "active" /\ x \in DueInstants(schedule, now)
    <2> DEFINE missed == {r \in ranges : x \in Covered(r)}
    <2>1. \A r \in missed : x \in owed /\ occurrence[x].state = "none" BY DEF AccountInv, RangeOK
    <2>2. CASE occurrence[x].state # "none"
      <3>1. missed = {} BY <2>1, <2>2
      <3>2. x \in owed BY <2>2 DEF AccountInv
      <3> QED BY <2>2, <3>1, <3>2
    <2>3. CASE occurrence[x].state = "none" /\ missed # {}
      <3> PICK r \in missed : TRUE BY <2>3
      <3>1. missed = {r} BY DEF AccountInv
      <3>2. Cardinality(missed) = 1 BY <3>1, FS_Singleton
      <3>3. x \in owed BY <2>1
      <3> QED BY <2>3, <3>2, <3>3
    <2>4. CASE occurrence[x].state = "none" /\ missed = {} /\ x \in owed
      <3>1. ~(x <= schedule.greatest) BY <2>4 DEF AccountInv
      <3>2. schedule.greatest < x BY <3>1, InstantIsNat DEF RowNumbers
      <3>3. x \in Outstanding(schedule, anchor, now) BY <2>4, <3>2 DEF AccountInv
      <3>4. DueInstants(schedule, now) = Outstanding(schedule, anchor, now)
        <4>1. CadenceOK(schedule, anchor, now) /\ now \in Int BY DEF AccountInv
        <4> QED BY <4>1, DueIsOutstanding
      <3> QED BY <2>4, <3>3, <3>4, OutstandingMember
    <2> QED BY <2>2, <2>3, <2>4
  <1> QED BY <1>1, <1>2 DEF ExactAccounting

-----------------------------------------------------------------------------
(* The theorems *)

\* The inductive invariant holds in every reachable state.
THEOREM RecurringInvariance == RecurringSpec => []RecurringInv
  BY InitInv, NextSteps, PTL DEF RecurringSpec

\* The records of the schedule store and the scanner stay well typed.
THEOREM RecurringTypes == RecurringSpec => []RecurringTypeOK
  <1>1. RecurringInv => RecurringTypeOK BY DEF RecurringInv
  <1> QED BY <1>1, RecurringInvariance, PTL

\* A pending occurrence always belongs to the active definition in force and has
\* attempts left, whatever the owner commits between the steps of a scan.
THEOREM PendingFollowsDefinition == RecurringSpec => []PendingIsCurrent
  <1>1. RecurringInv => PendingIsCurrent BY DEF RecurringInv
  <1> QED BY <1>1, RecurringInvariance, PTL

\* At most one occurrence of a schedule is queued by admission or retry.
THEOREM OneOccurrenceQueued == RecurringSpec => []OneWaitingOccurrence
  <1>1. RecurringInv => OneWaitingOccurrence
    <2> SUFFICES ASSUME OneQueued PROVE OneWaitingOccurrence BY DEF RecurringInv
    <2> DEFINE Q == {x \in Instant : entry[x] = "queued"}
    <2>1. CASE Q = {}
      <3>1. Cardinality(Q) = 0 BY <2>1, FS_EmptySet
      <3> QED BY <3>1 DEF OneWaitingOccurrence
    <2>2. CASE Q # {}
      <3> PICK x \in Q : TRUE BY <2>2
      <3>1. Q = {x} BY DEF OneQueued
      <3>2. Cardinality(Q) = 1 BY <3>1, FS_Singleton
      <3> QED BY <3>2 DEF OneWaitingOccurrence
    <2> QED BY <2>1, <2>2
  <1> QED BY <1>1, RecurringInvariance, PTL

\* A decided occurrence never changes, and a Turn is queued only in the step that
\* accepts its occurrence under an active, authorized schedule.
THEOREM OccurrencesDecidedOnce == RecurringSpec => DecidedOnce
  <1>1. RecurringInv /\ [Next]_vars => [DecidesOnce]_vars BY NextSteps
  <1>2. RecurringSpec => [][DecidesOnce]_vars
    BY <1>1, RecurringInvariance, PTL DEF RecurringSpec
  <1> QED BY <1>2, PTL DEF DecidedOnce, DecidesOnce

\* No nominal instant is lost or counted twice, for every cadence, deadline, scan
\* limit and calendar: each has one occurrence, lies in one range whose count is
\* exact, or is still ahead of the active cursor.
THEOREM AccountsKept == RecurringSpec => []ExactAccounting
  <1>1. RecurringInv /\ AccountInv => ExactAccounting BY AccountsAreExact
  <1>2. Init => AccountInv BY InitAccounts
  <1>3. RecurringInv /\ AccountInv /\ [Next]_vars => AccountInv' BY NextAccounts
  <1> QED BY <1>1, <1>2, <1>3, RecurringInvariance, PTL DEF RecurringSpec
=============================================================================
