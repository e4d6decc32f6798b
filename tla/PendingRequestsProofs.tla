----------------------- MODULE PendingRequestsProofs -----------------------
(***************************************************************************)
(* Proofs about PendingRequests for every number of requests, callers,     *)
(* Turns and faults.  A command that was posted holds rows as they are     *)
(* (JobOK): whatever changes one of them drops it.  The claim of a row is  *)
(* owned by at most one job (OneOwner), so its effect happens at most once *)
(* and its disposition is the owner's (ExecOK).  A frozen outcome belongs  *)
(* to one Turn, and as long as that Turn may still be refused its outcomes *)
(* were not submitted (DeliveryOK).                                        *)
(***************************************************************************)
EXTENDS PendingRequests, FiniteSetTheorems, TLAPS

\* A row and the number n of executions of its request.
ExecOK(x, n) ==
    /\ n \in {0, 1}
    /\ x.claim = "unclaimed" => n = 0
    /\ x.claim # "unclaimed" => x.state = "resolved" /\ x.resolution = "granted" /\ x.disposition # "not-executed"
    /\ x.disposition = "executed" => n = 1
    /\ x.disposition \in {"executed", "failed"} => x.claim = "finished"
    /\ x.disposition # "none" => x.state = "resolved"
    /\ x.resolution # "none" => x.state = "resolved"
    /\ x.inval => x.disposition = "not-executed"

\* The outcome of request r with s submissions, and the Turns T: a Turn that was not submitted
\* holds outcomes nobody saw, a submitted one outcomes its Worker saw.
Unsent == {"pending", "preparing", "recorded", "releasing", "refused"}
Over == {"done", "refused"}
DeliveryOK(r, x, s, T) ==
    /\ x.delivery = "frozen" =>
          /\ x.by \in Turn
          /\ T[x.by].executor = Executor(r)
          /\ T[x.by].status \in Unsent \cup {"submitted", "done"}
    /\ r \notin Command =>
          /\ s \in {0, 1}
          /\ x.delivery = "delivered" => s = 1
          /\ x.delivery \in {"undelivered", "closed-out"} => s = 0
          /\ x.delivery = "frozen" => /\ T[x.by].status \in Unsent => s = 0
                                      /\ T[x.by].status = "submitted" => s = 1

\* What job x may count on, in the rows R and the executions E.
RaisedIn(R) == {r \in Request : R[r].state # "absent"}
JobOK(x, R, E) ==
    /\ x.pc = "decide" => \A r \in x.reads : R[r].state = "pending" /\ x.op \in Offered(r)
    /\ x.pc \in {"consume", "refuse"} =>
          \A r \in x.reads : /\ r \in Command /\ R[r].resolution = "granted"
                             /\ R[r].claim = "unclaimed" /\ R[r].disposition = "none"
    /\ x.pc = "submit" => \A r \in x.reads : Unfinished(R[r]) /\ E[r] = 0
    /\ x.pc = "finish" => /\ x.op \in {"executed", "failed"}
                          /\ \A r \in x.reads : R[r].claim # "unclaimed" /\ (x.op = "executed" => E[r] = 1)
    /\ x.pc = "associate" => \A r \in x.reads : R[r].disposition = "not-executed"
    /\ x.pc = "archive-closeout" => x.reads = RaisedIn(R) /\ \A r \in x.reads : ~Unfinished(R[r])

\* A claim is carried out by one job.
Executing(x, r) == x.pc \in {"submit", "finish"} /\ r \in x.reads
OneOwner == \A j, k \in Job : \A r \in Request : Executing(job[j], r) /\ Executing(job[k], r) => j = k

\* Turns are created in order; a Turn that is being refused keeps its job.
TurnsInOrder == \E n \in Nat : n <= MaxTurn /\ Created = 1..n
RefusalsKept == \A t \in Turn : At(t, "fail") => turn[t].status = "releasing"

\* An archived Thread waits for no delivery that could be given back.
ArchivedIsQuiet ==
    thread = "archived" =>
        \A r \in Request : row[r].delivery = "frozen" => turn[row[r].by].status \in Over

DownIsIdle == mode = "down" => \A j \in Job : job[j] = Idle

PendingInv ==
    /\ PendingTypeOK
    /\ effects \in [Request -> Nat] /\ shown \in [Request -> Nat]
    /\ \A r \in Request : ExecOK(row[r], effects[r])
    /\ \A r \in Request : DeliveryOK(r, row[r], shown[r], turn)
    /\ \A j \in Job : JobOK(job[j], row, effects)
    /\ OneOwner
    /\ TurnsInOrder
    /\ RefusalsKept
    /\ ArchivedIsSettled
    /\ ArchivedIsQuiet
    /\ DownIsIdle

-----------------------------------------------------------------------------
(* Steps *)

JobRecord == [pc : JobPC, op : JobOp, reads : SUBSET Request]

\* What an archived Thread leaves of a row.
SettledRow(r, x) ==
    /\ x.state # "pending" /\ ~Unfinished(x)
    /\ ~(x.delivery = "undelivered" /\ Final(r, x)) /\ ~NeedsInvalidation(r, x)

\* What no step changes of row x, when it becomes y.
Keeps(x, y) ==
    /\ x.state \in {"resolved", "ended"} => y.state = x.state /\ y.resolution = x.resolution
    /\ x.claim # "unclaimed" => y.claim # "unclaimed"
    /\ x.disposition # "none" => y.disposition = x.disposition
    /\ x.pub # NoTurn => y.pub = x.pub
    /\ x.delivery \in {"delivered", "unknown", "closed-out"} => y.delivery = x.delivery

StepOK == PendingInv' /\ \A r \in Request : Keeps(row[r], row'[r])

\* A job that counts on nothing.
Harmless(x) == x \in JobRecord /\ x.pc \in {"idle", "wake", "barrier", "record", "closeout", "create", "archive", "prepare", "reserve"}

\* A job c may take up: what it counts on holds, and it shares no claim.
FreshJob(c, x) ==
    /\ x \in JobRecord /\ x.pc # "fail"
    /\ JobOK(x, row', effects)
    /\ \A r \in Request : Executing(x, r) => \A j \in Job \ {c} : ~Executing(job[j], r)

\* The job of a refused start.
Failing(x) == \E op \in {"none", "failed"} : x = Doing("fail", op, {})

\* The step of job c: the others stay, are dropped as stale, or start afresh.
JobsMove(c) ==
    /\ job' = [k \in Job |-> job'[k]]
    /\ \A k \in Job : \/ job'[k] = Jobs(row')[k]
                      \/ Harmless(job'[k])
                      \/ k = c /\ FreshJob(c, job'[k])
                      \/ k \in Turn /\ Failing(job'[k]) /\ turn'[k].status = "releasing"

\* Claims end only with their owner's work.
ClaimsKept(c) ==
    \A r \in Request :
        Unfinished(row[r]) => Unfinished(row'[r]) \/ (Executing(job[c], r) /\ Harmless(job'[c]))

JobsInv ==
    /\ job \in [Job -> JobRecord]
    /\ \A j \in Job : JobOK(job[j], row, effects)
    /\ OneOwner

\* A job whose reading went stale is dropped; one that is kept keeps its reading.
LEMMA JobsShape ==
    ASSUME job \in [Job -> JobRecord], NEW R, NEW k \in Job
    PROVE  LET x == job[k]  y == Jobs(R)[k]
           IN  \/ y = Idle
               \/ /\ y \in JobRecord /\ y.pc = x.pc /\ y.reads = x.reads /\ (x.pc # "submit" => y = x)
                  /\ ~Stale(x, R)
  <1> DEFINE x == job[k]
             y == Jobs(R)[k]
  <1>1. x \in JobRecord OBVIOUS
  <1>2. CASE Stale(x, R) BY <1>2 DEF Jobs
  <1>3. CASE ~Stale(x, R) /\ Overtaken(x, R)
    <2>1. y = [x EXCEPT !.op = "stale"] BY <1>3 DEF Jobs
    <2>2. x.pc = "submit" BY <1>3 DEF Overtaken
    <2>3. y \in JobRecord /\ y.pc = x.pc /\ y.reads = x.reads BY <1>1, <2>1 DEF JobRecord, JobOp
    <2> QED BY <1>3, <2>2, <2>3
  <1>4. CASE ~Stale(x, R) /\ ~Overtaken(x, R)
    <2>1. y = x BY <1>4 DEF Jobs
    <2> QED BY <1>1, <1>4, <2>1
  <1> QED BY <1>2, <1>3, <1>4

\* As long as no row changes, no job is dropped.
LEMMA JobsUnchanged ==
    ASSUME job \in [Job -> JobRecord]
    PROVE  Jobs(row) = job
  BY DEF Jobs, Stale, Overtaken, Grew

\* A job at rest.
LEMMA IdleIsHarmless == Harmless(Idle) /\ Idle.pc = "idle" /\ Idle.reads = {}
  BY DEF Harmless, Idle, JobRecord, JobPC, JobOp

\* A job that has read nothing and executes nothing is always in order.
LEMMA HarmlessOK ==
    ASSUME NEW x, Harmless(x), NEW R, NEW E
    PROVE  JobOK(x, R, E) /\ x \in JobRecord /\ \A r : ~Executing(x, r)
  BY DEF Harmless, JobOK, Executing

\* A job that is kept still counts on what it read.
LEMMA JobKept ==
    ASSUME job \in [Job -> JobRecord], NEW k \in Job, JobOK(job[k], row, effects),
           \A r \in job[k].reads : job[k].pc = "submit" => Unfinished(row'[r])
    PROVE  JobOK(Jobs(row')[k], row', effects)
  <1> DEFINE x == job[k]
             y == Jobs(row')[k]
  <1>0. x \in JobRecord OBVIOUS
  <1>1. CASE y = Idle BY <1>1, IdleIsHarmless, HarmlessOK
  <1>2. CASE /\ y \in JobRecord /\ y.pc = x.pc /\ y.reads = x.reads /\ (x.pc # "submit" => y = x)
             /\ ~Stale(x, row')
    <2>1. x.pc \in Posted => \A r \in x.reads : row'[r] = row[r] BY <1>2 DEF Stale
    <2>2. y.pc = "decide" => \A r \in y.reads : row'[r].state = "pending" /\ y.op \in Offered(r)
      BY <1>2, <2>1 DEF JobOK, Posted
    <2>3. y.pc \in {"consume", "refuse"} =>
             \A r \in y.reads : /\ r \in Command /\ row'[r].resolution = "granted"
                                /\ row'[r].claim = "unclaimed" /\ row'[r].disposition = "none"
      BY <1>2, <2>1 DEF JobOK, Posted
    <2>4. y.pc = "submit" => \A r \in y.reads : Unfinished(row'[r]) /\ effects[r] = 0
      BY <1>2 DEF JobOK
    <2>5. y.pc = "finish" =>
             /\ y.op \in {"executed", "failed"}
             /\ \A r \in y.reads : row'[r].claim # "unclaimed" /\ (y.op = "executed" => effects[r] = 1)
      BY <1>2, <2>1 DEF JobOK, Posted
    <2>6. y.pc = "associate" => \A r \in y.reads : row'[r].disposition = "not-executed"
      BY <1>2, <2>1 DEF JobOK, Posted
    <2>7. y.pc = "archive-closeout" => y.reads = RaisedIn(row') /\ \A r \in y.reads : ~Unfinished(row'[r])
      <3>1. SUFFICES ASSUME y.pc = "archive-closeout"
                     PROVE  y.reads = RaisedIn(row') /\ \A r \in y.reads : ~Unfinished(row'[r])
        OBVIOUS
      <3>2. x.reads = RaisedIn(row) /\ \A r \in x.reads : ~Unfinished(row[r]) BY <1>2, <3>1 DEF JobOK
      <3>3. ~Grew(row') BY <1>2, <3>1 DEF Stale, Whole
      <3>4. \A r \in x.reads : row'[r] = row[r] BY <1>2, <2>1, <3>1 DEF Posted, Whole
      <3>5. RaisedIn(row') = RaisedIn(row) BY <3>2, <3>3, <3>4 DEF RaisedIn, Grew
      <3> QED BY <1>2, <3>2, <3>4, <3>5
    <2> QED BY <2>2, <2>3, <2>4, <2>5, <2>6, <2>7 DEF JobOK
  <1> QED BY <1>1, <1>2, JobsShape

\* The jobs after a step.
LEMMA JobsKept ==
    ASSUME PendingInv, NEW c \in Job, JobsMove(c), ClaimsKept(c), effects' = effects
    PROVE  /\ JobsInv'
           /\ \A k \in Job : job'[k].pc = "fail" => job[k].pc = "fail" \/ (k \in Turn /\ turn'[k].status = "releasing")
  <1>0. job \in [Job -> JobRecord] /\ (\A j \in Job : JobOK(job[j], row, effects)) /\ OneOwner
    BY DEF PendingInv, PendingTypeOK, JobRecord
  <1> DEFINE New(k) == \/ job'[k] = Jobs(row')[k] /\ ~Harmless(job'[k])
                       \/ Harmless(job'[k])
                       \/ k = c /\ FreshJob(c, job'[k])
                       \/ k \in Turn /\ Failing(job'[k]) /\ turn'[k].status = "releasing"
  <1>a. \A k \in Job : New(k) BY DEF JobsMove
  <1>b. ASSUME NEW x, Failing(x) PROVE x \in JobRecord /\ x.pc = "fail" /\ x.reads = {}
    BY <1>b DEF Failing, Doing, JobRecord, JobPC, JobOp
  <1>1. ASSUME NEW k \in Job, job'[k] = Jobs(row')[k], ~Harmless(job'[k])
        PROVE  /\ job'[k] \in JobRecord /\ job'[k].pc = job[k].pc /\ job'[k].reads = job[k].reads
               /\ JobOK(job'[k], row', effects)
    <2>1. job'[k] # Idle BY <1>1, IdleIsHarmless
    <2>2. job'[k] \in JobRecord /\ job'[k].pc = job[k].pc /\ job'[k].reads = job[k].reads
      BY <1>0, <1>1, <2>1, JobsShape
    <2>3. ASSUME NEW r \in job[k].reads, job[k].pc = "submit" PROVE Unfinished(row'[r])
      <3>1. r \in Request BY <1>0 DEF JobRecord
      <3>2. Unfinished(row[r]) /\ Executing(job[k], r) BY <1>0, <2>3 DEF JobOK, Executing
      <3>3. k = c => ~Harmless(job'[c]) BY <1>1
      <3>4. Executing(job[c], r) => k = c BY <1>0, <3>1, <3>2 DEF OneOwner
      <3> QED BY <3>1, <3>2, <3>3, <3>4 DEF ClaimsKept
    <2> QED BY <1>0, <1>1, <2>2, <2>3, JobKept
  <1>2. ASSUME NEW k \in Job
        PROVE  job'[k] \in JobRecord /\ JobOK(job'[k], row', effects)
    <2>1. CASE job'[k] = Jobs(row')[k] /\ ~Harmless(job'[k]) BY <1>1, <2>1
    <2>2. CASE Harmless(job'[k]) BY <2>2, HarmlessOK
    <2>3. CASE k = c /\ FreshJob(c, job'[k]) BY <2>3 DEF FreshJob
    <2>4. CASE Failing(job'[k]) BY <1>b, <2>4 DEF JobOK
    <2> QED BY <1>a, <2>1, <2>2, <2>3, <2>4
  <1>3. ASSUME NEW k \in Job, NEW r \in Request, Executing(job'[k], r)
        PROVE  Executing(job[k], r) \/ (k = c /\ \A j \in Job \ {c} : ~Executing(job[j], r))
    <2>1. CASE job'[k] = Jobs(row')[k] /\ ~Harmless(job'[k]) BY <1>1, <1>3, <2>1 DEF Executing
    <2>2. CASE Harmless(job'[k]) BY <1>3, <2>2, HarmlessOK
    <2>3. CASE k = c /\ FreshJob(c, job'[k]) BY <1>3, <2>3 DEF FreshJob
    <2>4. CASE Failing(job'[k]) BY <1>3, <1>b, <2>4 DEF Executing
    <2> QED BY <1>a, <2>1, <2>2, <2>3, <2>4
  <1>4. ASSUME NEW j \in Job, NEW k \in Job, NEW r \in Request, Executing(job'[j], r), Executing(job'[k], r)
        PROVE  j = k
    BY <1>0, <1>3, <1>4 DEF OneOwner
  <1>5. job' \in [Job -> JobRecord] BY <1>2 DEF JobsMove
  <1>6. ASSUME NEW k \in Job, job'[k].pc = "fail"
        PROVE  job[k].pc = "fail" \/ (k \in Turn /\ turn'[k].status = "releasing")
    BY <1>1, <1>6, <1>a DEF Harmless, FreshJob
  <1> QED BY <1>2, <1>4, <1>5, <1>6 DEF JobsInv, OneOwner

-----------------------------------------------------------------------------
(* Rows *)

\* A row after a step is in order.
Good(r) ==
    /\ row'[r] \in Row
    /\ ExecOK(row'[r], effects'[r])
    /\ DeliveryOK(r, row'[r], shown'[r], turn')
    /\ Keeps(row[r], row'[r])
    /\ thread' = "archived" =>
          /\ SettledRow(r, row'[r])
          /\ row'[r].delivery = "frozen" => turn'[row'[r].by].status \in Over

\* The Turns after a step: a refusal ends with its job.
TurnsMove ==
    /\ turn' \in [Turn -> TurnRecord]
    /\ TurnsInOrder'
    /\ \A t \in Turn : turn[t].status = "releasing" => turn'[t].status = "releasing" \/ job'[t].pc # "fail"

\* What a step has to show.
LEMMA StepKeeps ==
    ASSUME PendingInv, mode # "down", UNCHANGED <<mode, effects>>,
           thread' \in {"active", "archived"}, lost' \subseteq {"worker", "person"}, faults' \in 0..MaxFault,
           shown' \in [Request -> Nat], NEW c \in Job, JobsMove(c), ClaimsKept(c), TurnsMove,
           row' = [r \in Request |-> row'[r]], \A r \in Request : Good(r)
    PROVE  StepOK
  <1>1. JobsInv' /\ \A k \in Job : job'[k].pc = "fail" => job[k].pc = "fail" \/ (k \in Turn /\ turn'[k].status = "releasing")
    BY JobsKept
  <1>2. row' \in [Request -> Row] BY DEF Good
  <1>3. PendingTypeOK' BY <1>1, <1>2 DEF PendingTypeOK, PendingInv, JobsInv, JobRecord, TurnsMove
  <1>4. effects' \in [Request -> Nat] BY DEF PendingInv
  <1>5. \A r \in Request : ExecOK(row'[r], effects'[r]) /\ DeliveryOK(r, row'[r], shown'[r], turn') BY DEF Good
  <1>6. RefusalsKept'
    <2>1. ASSUME NEW t \in Turn, job'[t].pc = "fail" PROVE turn'[t].status = "releasing"
      <3>1. t \in Job BY DEF Job, Turn
      <3>2. job[t].pc = "fail" => turn[t].status = "releasing" BY DEF PendingInv, RefusalsKept, At
      <3> QED BY <1>1, <2>1, <3>1, <3>2 DEF TurnsMove
    <2> QED BY <2>1 DEF RefusalsKept, At
  <1>7. ArchivedIsSettled' BY DEF Good, SettledRow, ArchivedIsSettled, Ready
  <1>8. ArchivedIsQuiet' BY DEF Good, ArchivedIsQuiet
  <1>9. DownIsIdle' BY DEF DownIsIdle
  <1>10. (\A j \in Job : JobOK(job[j], row, effects))' /\ OneOwner' BY <1>1 DEF JobsInv
  <1>11. PendingInv'
    BY <1>3, <1>4, <1>5, <1>6, <1>7, <1>8, <1>9, <1>10 DEF PendingInv, TurnsMove
  <1> QED BY <1>11 DEF StepOK, Good

\* Rows that a step leaves alone are in order.
LEMMA GoodSame ==
    ASSUME PendingInv, NEW r \in Request, row'[r] = row[r], UNCHANGED <<turn, thread, effects, shown>>
    PROVE  Good(r)
  BY DEF Good, Keeps, PendingInv, PendingTypeOK, ArchivedIsSettled, ArchivedIsQuiet, SettledRow, Ready

\* Steps that leave the Turns alone.
LEMMA TurnsSame ==
    ASSUME PendingInv, turn' = turn
    PROVE  TurnsMove
  BY DEF TurnsMove, PendingInv, PendingTypeOK, TurnsInOrder, Created

\* How job c moves: alone, or with the jobs its write makes stale.
LEMMA JobsMoveOnly ==
    ASSUME PendingInv, row' = row, NEW c \in Job, NEW next, job' = [job EXCEPT ![c] = next],
           Harmless(next) \/ FreshJob(c, next)
    PROVE  JobsMove(c)
  <1>1. job \in [Job -> JobRecord] BY DEF PendingInv, PendingTypeOK, JobRecord
  <1>2. Jobs(row') = job BY <1>1, JobsUnchanged
  <1> QED BY <1>1, <1>2 DEF JobsMove

\* The same, when the step of c also wrote rows.
LEMMA JobsMoveBy ==
    ASSUME NEW c \in Job, NEW next, job' = [Jobs(row') EXCEPT ![c] = next],
           Harmless(next) \/ FreshJob(c, next)
    PROVE  JobsMove(c)
  BY DEF JobsMove, Jobs

\* A job that steps has work to do, so Core runs.
LEMMA WorkingIsUp ==
    ASSUME PendingInv, NEW j \in Job, job[j].pc # "idle"
    PROVE  mode # "down"
  BY DEF PendingInv, DownIsIdle, Idle

\* A step that only moves job c.
LEMMA JobOnly ==
    ASSUME PendingInv, mode # "down", NEW c \in Job, NEW next, Harmless(next) \/ FreshJob(c, next),
           job' = [job EXCEPT ![c] = next],
           UNCHANGED <<row, turn, thread, lost, mode, faults, effects, shown>>
    PROVE  StepOK
  <1>1. JobsMove(c) BY JobsMoveOnly
  <1>2. ClaimsKept(c) BY DEF ClaimsKept
  <1>3. TurnsMove BY TurnsSame
  <1>4. \A r \in Request : Good(r) BY GoodSame
  <1>5. /\ row' = [r \in Request |-> row'[r]] /\ shown' \in [Request -> Nat]
        /\ thread' \in {"active", "archived"} /\ lost' \subseteq {"worker", "person"} /\ faults' \in 0..MaxFault
    BY DEF PendingInv, PendingTypeOK
  <1> QED BY <1>1, <1>2, <1>3, <1>4, <1>5, StepKeeps

\* Row x rewritten to y without touching its delivery.
Rewritten(x, y, n) ==
    /\ y \in Row /\ ExecOK(y, n) /\ Keeps(x, y)
    /\ y.delivery = x.delivery /\ y.by = x.by

\* A step of job c that rewrites one row.
LEMMA RowOnly ==
    ASSUME PendingInv, mode # "down", NEW c \in Job, NEW r \in Request, NEW y,
           row' = [row EXCEPT ![r] = y], Rewritten(row[r], y, effects[r]),
           thread = "archived" => SettledRow(r, y),
           Unfinished(row[r]) => Unfinished(y) \/ (Executing(job[c], r) /\ Harmless(job'[c])),
           JobsMove(c),
           UNCHANGED <<turn, thread, lost, mode, faults, effects, shown>>
    PROVE  StepOK
  <1>0. /\ row \in [Request -> Row] /\ shown' \in [Request -> Nat]
        /\ thread' \in {"active", "archived"} /\ lost' \subseteq {"worker", "person"} /\ faults' \in 0..MaxFault
    BY DEF PendingInv, PendingTypeOK
  <1>1. row'[r] = y /\ row' = [q \in Request |-> row'[q]] /\ \A q \in Request \ {r} : row'[q] = row[q]
    BY <1>0
  <1>2. ClaimsKept(c) BY <1>1 DEF ClaimsKept
  <1>3. Good(r)
    <2>1. DeliveryOK(r, y, shown[r], turn) BY DEF Rewritten, PendingInv, DeliveryOK
    <2>2. thread = "archived" => (y.delivery = "frozen" => turn[y.by].status \in Over)
      BY DEF Rewritten, PendingInv, ArchivedIsQuiet
    <2> QED BY <1>1, <2>1, <2>2 DEF Good, Rewritten
  <1>4. \A q \in Request : Good(q) BY <1>1, <1>3, GoodSame
  <1> QED BY <1>0, <1>1, <1>2, <1>4, TurnsSame, StepKeeps

-----------------------------------------------------------------------------
(* Raise and decide *)

\* A job that was just given its work is well typed.
LEMMA DoingTypes ==
    ASSUME NEW pc \in JobPC, NEW op \in JobOp, NEW S \in SUBSET Request
    PROVE  Doing(pc, op, S) \in JobRecord
  BY DEF Doing, JobRecord

\* At these points a job neither executes a call nor submits what it read.
LEMMA DoingHarmless ==
    ASSUME NEW pc \in {"wake", "barrier", "record", "closeout", "create", "archive", "prepare", "reserve"},
           NEW op \in JobOp, NEW S \in SUBSET Request
    PROVE  Harmless(Doing(pc, op, S))
  <1>1. pc \in JobPC BY DEF JobPC
  <1> QED BY <1>1, DoingTypes DEF Harmless, Doing

\* Raise: a request appears, pending and never executed.
LEMMA RaiseKeeps ==
    ASSUME PendingInv, NEW r \in Request, Raise(r)
    PROVE  StepOK
  <1> DEFINE y == [row[r] EXCEPT !.state = "pending"]
  <1>1. row[r] \in Row /\ ExecOK(row[r], effects[r]) /\ row[r].state = "absent"
    BY DEF PendingInv, PendingTypeOK, Raise
  <1>2. Rewritten(row[r], y, effects[r]) BY <1>1 DEF Rewritten, Row, ExecOK, Keeps
  <1>3. row' = [row EXCEPT ![r] = y] /\ job' = Jobs(row') /\ mode # "down" /\ thread # "archived"
    BY DEF Raise, Write
  <1>4. 0 \in Job BY PendingAssumption DEF Job
  <1>5. JobsMove(0) BY <1>3 DEF JobsMove, Jobs
  <1>6. Unfinished(row[r]) => Unfinished(y) BY <1>1 DEF Unfinished, Row
  <1>7. UNCHANGED <<turn, thread, lost, mode, faults, effects, shown>> BY DEF Raise
  <1> QED BY <1>2, <1>3, <1>4, <1>5, <1>6, <1>7, RowOnly

\* Respond: the caller has read a pending row and has written nothing yet.
LEMMA RespondKeeps ==
    ASSUME PendingInv, NEW c \in Caller, NEW r \in Request, NEW d \in Decision, Respond(c, r, d)
    PROVE  StepOK
  <1>1. c \in Job BY DEF Job
  <1>2. d \in JobOp /\ {r} \in SUBSET Request BY DEF JobOp
  <1>3. Harmless(Doing("prepare", d, {r})) BY <1>2, DoingHarmless
  <1>4. FreshJob(c, Doing("decide", d, {r}))
    <2>1. Doing("decide", d, {r}) \in JobRecord BY <1>2, DoingTypes DEF JobPC
    <2>2. row'[r].state = "pending" /\ d \in Offered(r) BY DEF Respond
    <2> QED BY <2>1, <2>2 DEF FreshJob, JobOK, Doing, Executing
  <1>5. mode # "down" /\ \E next : (Harmless(next) \/ FreshJob(c, next)) /\ job' = [job EXCEPT ![c] = next]
    BY <1>3, <1>4 DEF Respond, Become, Free
  <1>6. UNCHANGED <<row, turn, thread, lost, mode, faults, effects, shown>> BY DEF Respond
  <1> QED BY <1>1, <1>5, <1>6, JobOnly

\* Decide: the first decision wins; a later one finds the row decided.
LEMMA DecideKeeps ==
    ASSUME PendingInv, NEW c \in Job, Decide(c)
    PROVE  StepOK
  <1>1. PICK r \in job[c].reads :
           WriteBy(c, [row EXCEPT ![r] = Decided(r, @, job[c].op)], Doing("wake", "none", {}))
    BY DEF Decide
  <1> DEFINE y == Decided(r, row[r], job[c].op)
  <1>2. job[c] \in JobRecord /\ JobOK(job[c], row, effects) /\ job[c].pc = "decide"
    BY DEF PendingInv, PendingTypeOK, JobRecord, Decide, At
  <1>3. r \in Request /\ row[r].state = "pending" /\ job[c].op \in Offered(r)
    BY <1>1, <1>2 DEF JobOK, JobRecord
  <1>4. row[r] \in Row /\ ExecOK(row[r], effects[r]) BY <1>3 DEF PendingInv, PendingTypeOK
  <1>5. row' = [row EXCEPT ![r] = y] /\ job' = [Jobs(row') EXCEPT ![c] = Doing("wake", "none", {})]
    BY <1>1 DEF WriteBy
  <1>6. JobsMove(c)
    <2>1. Harmless(Doing("wake", "none", {})) BY DoingHarmless DEF JobOp
    <2> QED BY <1>5, <2>1, JobsMoveBy
  <1>7. job[c].op \in {"withdraw", "answer", "grant", "deny"} BY <1>3 DEF Offered
  <1>8. Rewritten(row[r], y, effects[r])
    <2>1. CASE job[c].op = "withdraw"
      <3>1. y = [row[r] EXCEPT !.state = "ended"] BY <2>1 DEF Decided
      <3> QED BY <1>3, <1>4, <3>1 DEF Rewritten, Row, ExecOK, Keeps
    <2>2. CASE job[c].op = "answer"
      <3>1. y = [row[r] EXCEPT !.state = "resolved", !.resolution = "answered"] BY <2>2 DEF Decided
      <3> QED BY <1>3, <1>4, <3>1 DEF Rewritten, Row, ExecOK, Keeps
    <2>3. CASE job[c].op = "grant"
      <3>1. y = [row[r] EXCEPT !.state = "resolved", !.resolution = "granted"] BY <2>3 DEF Decided
      <3> QED BY <1>3, <1>4, <3>1 DEF Rewritten, Row, ExecOK, Keeps
    <2>4. CASE job[c].op = "deny"
      <3>1. y = [row[r] EXCEPT !.state = "resolved", !.resolution = "denied",
                               !.disposition = IF r \in Call THEN "not-executed" ELSE "none"]
        BY <2>4 DEF Decided
      <3> QED BY <1>3, <1>4, <3>1 DEF Rewritten, Row, ExecOK, Keeps
    <2> QED BY <1>7, <2>1, <2>2, <2>3, <2>4
  <1>9. ~Unfinished(row[r]) BY <1>3, <1>4 DEF ExecOK, Unfinished
  <1>10. thread # "archived" BY <1>3 DEF PendingInv, ArchivedIsSettled
  <1>11. mode # "down" BY <1>2, WorkingIsUp
  <1>12. UNCHANGED <<turn, thread, lost, mode, faults, effects, shown>> BY DEF Decide
  <1> QED BY <1>3, <1>5, <1>6, <1>8, <1>9, <1>10, <1>11, <1>12, RowOnly

-----------------------------------------------------------------------------
(* Execute *)

\* Who may start to execute r: nobody does while it is unclaimed.
LEMMA SubmitFresh ==
    ASSUME PendingInv, NEW c \in Job, NEW r \in Request, row[r].claim = "unclaimed", Unfinished(row'[r])
    PROVE  FreshJob(c, Doing("submit", "none", {r}))
  <1>1. Doing("submit", "none", {r}) \in JobRecord BY DoingTypes DEF JobPC, JobOp
  <1>2. effects[r] = 0 BY DEF PendingInv, ExecOK
  <1>3. \A j \in Job : ~Executing(job[j], r) BY DEF PendingInv, JobOK, Executing, Unfinished
  <1> QED BY <1>1, <1>2, <1>3 DEF FreshJob, JobOK, Executing, Doing

\* Prepare: the caller's own reading, before the reservation.
LEMMA PrepareKeeps ==
    ASSUME PendingInv, NEW c \in Job, Prepare(c)
    PROVE  StepOK
  <1>1. job[c] \in JobRecord BY DEF PendingInv, PendingTypeOK, JobRecord
  <1>2. Harmless(Doing("reserve", "none", job[c].reads)) BY <1>1, DoingHarmless DEF JobRecord, JobOp
  <1>3. mode # "down" BY WorkingIsUp DEF Prepare, At
  <1> QED BY <1>2, <1>3, JobOnly DEF Prepare, Become

\* Reserve: one caller gets the grant, and no other job executes that call.
LEMMA ReserveKeeps ==
    ASSUME PendingInv, NEW c \in Job, Reserve(c)
    PROVE  StepOK
  <1>1. PICK r \in job[c].reads :
           IF Reservable(row[r])
           THEN IF thread = "active"
                THEN WriteBy(c, [row EXCEPT ![r] = Claimed(@)], Doing("submit", "none", {r}))
                ELSE WriteBy(c, [row EXCEPT ![r] = [@ EXCEPT !.state = "ended"]], Idle)
           ELSE row' = row /\ Stop(c)
    BY DEF Reserve
  <1>2. /\ job[c] \in JobRecord /\ thread \in {"active", "archived"}
        /\ UNCHANGED <<turn, thread, lost, mode, faults, effects, shown>>
    BY DEF PendingInv, PendingTypeOK, JobRecord, Reserve
  <1>3. mode # "down" BY WorkingIsUp DEF Reserve, At
  <1>4. r \in Request /\ row \in [Request -> Row] BY <1>1, <1>2 DEF JobRecord, PendingInv, PendingTypeOK
  <1>5. row[r] \in Row /\ ExecOK(row[r], effects[r]) BY <1>4 DEF PendingInv
  <1>6. CASE ~Reservable(row[r])
    BY <1>1, <1>2, <1>3, <1>6, IdleIsHarmless, JobOnly DEF Stop, Become
  <1>7. CASE Reservable(row[r]) /\ thread = "active"
    <2> DEFINE y == Claimed(row[r])
    <2>1. row' = [row EXCEPT ![r] = y] /\ job' = [Jobs(row') EXCEPT ![c] = Doing("submit", "none", {r})]
      BY <1>1, <1>7 DEF WriteBy
    <2>2. row[r].state = "pending" /\ row[r].claim = "unclaimed" BY <1>7 DEF Reservable
    <2>3. Rewritten(row[r], y, effects[r]) BY <1>5, <2>2 DEF Rewritten, Row, ExecOK, Keeps, Claimed
    <2>4. Unfinished(y) BY <1>5, <2>2 DEF Unfinished, Claimed, Row, ExecOK
    <2>5. row'[r] = y BY <1>4, <2>1
    <2>6. FreshJob(c, Doing("submit", "none", {r})) BY <1>4, <2>2, <2>4, <2>5, SubmitFresh
    <2>7. JobsMove(c) BY <2>1, <2>6, JobsMoveBy
    <2>8. thread # "archived" BY <1>7
    <2> QED BY <1>2, <1>3, <1>4, <2>1, <2>3, <2>4, <2>7, <2>8, RowOnly
  <1>8. CASE Reservable(row[r]) /\ thread # "active"
    <2>1. row[r].state = "pending" BY <1>8 DEF Reservable
    <2> QED BY <1>2, <1>4, <1>8, <2>1 DEF PendingInv, ArchivedIsSettled
  <1> QED BY <1>6, <1>7, <1>8

\* Consume: the owner of a command's effect has read the grant and written nothing.
LEMMA ConsumeKeeps ==
    ASSUME PendingInv, NEW c \in Caller, NEW r \in Request, Consume(c, r)
    PROVE  StepOK
  <1>1. PICK pc \in {"consume", "refuse"} : job' = [job EXCEPT ![c] = Doing(pc, "none", {r})]
    BY DEF Consume, Become
  <1>2. c \in Job /\ mode # "down" BY DEF Consume, Free, Job
  <1>3. UNCHANGED <<row, turn, thread, lost, mode, faults, effects, shown>> BY DEF Consume
  <1>4. FreshJob(c, Doing(pc, "none", {r}))
    <2>1. Doing(pc, "none", {r}) \in JobRecord BY DoingTypes DEF JobPC, JobOp
    <2>2. r \in Command /\ row'[r].resolution = "granted" /\ row'[r].claim = "unclaimed"
          /\ row'[r].disposition = "none"
      BY <1>3 DEF Consume, Consumable
    <2> QED BY <2>1, <2>2 DEF FreshJob, JobOK, Executing, Doing
  <1> QED BY <1>1, <1>2, <1>3, <1>4, JobOnly

\* A grant that may still be consumed belongs to an active Thread.
LEMMA GrantIsActive ==
    ASSUME PendingInv, NEW c \in Job, job[c].pc \in {"consume", "refuse"}, NEW r \in job[c].reads
    PROVE  /\ r \in Request /\ row[r] \in Row /\ ExecOK(row[r], effects[r])
           /\ row[r].state = "resolved" /\ row[r].resolution = "granted" /\ row[r].claim = "unclaimed"
           /\ row[r].disposition = "none" /\ thread # "archived"
  <1>1. job[c] \in JobRecord /\ JobOK(job[c], row, effects) BY DEF PendingInv, PendingTypeOK, JobRecord
  <1>2. r \in Request BY <1>1 DEF JobRecord
  <1>3. row[r] \in Row /\ ExecOK(row[r], effects[r]) BY <1>2 DEF PendingInv, PendingTypeOK
  <1>4. r \in Command /\ row[r].resolution = "granted" /\ row[r].claim = "unclaimed" /\ row[r].disposition = "none"
    BY <1>1 DEF JobOK
  <1>5. row[r].state = "resolved" /\ ~row[r].inval BY <1>3, <1>4 DEF ExecOK, Row
  <1>6. NeedsInvalidation(r, row[r]) BY <1>4, <1>5 DEF NeedsInvalidation
  <1> QED BY <1>2, <1>3, <1>4, <1>5, <1>6 DEF PendingInv, ArchivedIsSettled

\* ClaimCommand: the claim turns away every other job that read the row.
LEMMA ClaimCommandKeeps ==
    ASSUME PendingInv, NEW c \in Job, ClaimCommand(c)
    PROVE  StepOK
  <1>1. PICK r \in job[c].reads :
           IF thread = "active"
           THEN WriteBy(c, [row EXCEPT ![r] = [@ EXCEPT !.claim = "claimed"]], Doing("submit", "none", {r}))
           ELSE row' = row /\ Stop(c)
    BY DEF ClaimCommand
  <1>2. UNCHANGED <<turn, thread, lost, mode, faults, effects, shown>> BY DEF ClaimCommand
  <1>3. mode # "down" BY WorkingIsUp DEF ClaimCommand, At
  <1>4. /\ r \in Request /\ row[r] \in Row /\ ExecOK(row[r], effects[r])
        /\ row[r].state = "resolved" /\ row[r].resolution = "granted" /\ row[r].claim = "unclaimed"
        /\ row[r].disposition = "none" /\ thread # "archived"
    BY <1>1, GrantIsActive DEF ClaimCommand, At
  <1>5. thread = "active" /\ row \in [Request -> Row] BY <1>4 DEF PendingInv, PendingTypeOK
  <1> DEFINE y == [row[r] EXCEPT !.claim = "claimed"]
  <1>6. row' = [row EXCEPT ![r] = y] /\ job' = [Jobs(row') EXCEPT ![c] = Doing("submit", "none", {r})]
    BY <1>1, <1>5 DEF WriteBy
  <1>7. Rewritten(row[r], y, effects[r]) BY <1>4 DEF Rewritten, Row, ExecOK, Keeps
  <1>8. Unfinished(y) BY <1>4 DEF Unfinished, Row
  <1>9. row'[r] = y BY <1>4, <1>5, <1>6
  <1>10. FreshJob(c, Doing("submit", "none", {r})) BY <1>4, <1>8, <1>9, SubmitFresh
  <1>11. JobsMove(c) BY <1>6, <1>10, JobsMoveBy
  <1> QED BY <1>2, <1>3, <1>4, <1>6, <1>7, <1>8, <1>11, RowOnly

\* RefuseCommand: a command that is never contacted gets its final disposition.
LEMMA RefuseCommandKeeps ==
    ASSUME PendingInv, NEW c \in Job, RefuseCommand(c)
    PROVE  StepOK
  <1>1. PICK r \in job[c].reads :
           WriteBy(c, [row EXCEPT ![r] = [@ EXCEPT !.disposition = "not-executed"]], Doing("wake", "none", {}))
    BY DEF RefuseCommand
  <1>2. UNCHANGED <<turn, thread, lost, mode, faults, effects, shown>> BY DEF RefuseCommand
  <1>3. mode # "down" BY WorkingIsUp DEF RefuseCommand, At
  <1>4. /\ r \in Request /\ row[r] \in Row /\ ExecOK(row[r], effects[r])
        /\ row[r].state = "resolved" /\ row[r].resolution = "granted" /\ row[r].claim = "unclaimed"
        /\ row[r].disposition = "none" /\ thread # "archived"
    BY <1>1, GrantIsActive DEF RefuseCommand, At
  <1> DEFINE y == [row[r] EXCEPT !.disposition = "not-executed"]
  <1>5. row' = [row EXCEPT ![r] = y] /\ job' = [Jobs(row') EXCEPT ![c] = Doing("wake", "none", {})]
    BY <1>1 DEF WriteBy
  <1>6. Rewritten(row[r], y, effects[r]) BY <1>4 DEF Rewritten, Row, ExecOK, Keeps
  <1>7. ~Unfinished(row[r]) BY <1>4 DEF Unfinished
  <1>8. JobsMove(c)
    <2>1. Harmless(Doing("wake", "none", {})) BY DoingHarmless DEF JobOp
    <2> QED BY <1>5, <2>1, JobsMoveBy
  <1> QED BY <1>2, <1>3, <1>4, <1>5, <1>6, <1>7, <1>8, RowOnly

\* FinishExecution: the disposition of a claim that is still unfinished.
LEMMA FinishKeeps ==
    ASSUME PendingInv, NEW c \in Job, FinishExecution(c)
    PROVE  StepOK
  <1>1. PICK r \in job[c].reads :
           IF Unfinished(row[r])
           THEN WriteBy(c, [row EXCEPT ![r] = [@ EXCEPT !.claim = "finished", !.disposition = job[c].op]],
                        IF r \in Call THEN Doing("wake", "none", {}) ELSE Idle)
           ELSE row' = row /\ Stop(c)
    BY DEF FinishExecution
  <1>2. UNCHANGED <<turn, thread, lost, mode, faults, effects, shown>> BY DEF FinishExecution
  <1>3. mode # "down" BY WorkingIsUp DEF FinishExecution, At
  <1>4. job[c] \in JobRecord /\ JobOK(job[c], row, effects) /\ job[c].pc = "finish"
    BY DEF PendingInv, PendingTypeOK, JobRecord, FinishExecution, At
  <1>5. r \in Request /\ Executing(job[c], r) BY <1>1, <1>4 DEF JobRecord, Executing
  <1>6. row[r] \in Row /\ ExecOK(row[r], effects[r]) /\ row \in [Request -> Row]
    BY <1>5 DEF PendingInv, PendingTypeOK
  <1>7. job[c].op \in {"executed", "failed"} /\ (job[c].op = "executed" => effects[r] = 1)
    BY <1>4 DEF JobOK
  <1>8. CASE ~Unfinished(row[r])
    BY <1>1, <1>2, <1>3, <1>8, IdleIsHarmless, JobOnly DEF Stop, Become
  <1>9. CASE Unfinished(row[r])
    <2> DEFINE y == [row[r] EXCEPT !.claim = "finished", !.disposition = job[c].op]
               next == IF r \in Call THEN Doing("wake", "none", {}) ELSE Idle
    <2>1. row' = [row EXCEPT ![r] = y] /\ job' = [Jobs(row') EXCEPT ![c] = next]
      BY <1>1, <1>9 DEF WriteBy
    <2>2. Harmless(next) BY DoingHarmless, IdleIsHarmless DEF JobOp
    <2>3. JobsMove(c) BY <2>1, <2>2, JobsMoveBy
    <2>4. Harmless(job'[c]) BY <2>1, <2>2 DEF Jobs
    <2>5. Rewritten(row[r], y, effects[r]) BY <1>6, <1>7, <1>9 DEF Rewritten, Row, ExecOK, Keeps, Unfinished
    <2>6. thread # "archived" BY <1>5, <1>9 DEF PendingInv, ArchivedIsSettled
    <2> QED BY <1>2, <1>3, <1>5, <2>1, <2>3, <2>4, <2>5, <2>6, RowOnly
  <1> QED BY <1>8, <1>9

\* The effect happens at most once: its only owner moves on to the finish.
LEMMA SubmitKeeps ==
    ASSUME PendingInv, NEW c \in Job, Submit(c)
    PROVE  StepOK
  <1>1. PICK r \in job[c].reads, d \in {"executed", "failed"}, contact \in BOOLEAN :
           /\ d = "executed" => contact
           /\ effects' = [effects EXCEPT ![r] = @ + IF contact THEN 1 ELSE 0]
           /\ Become(c, IF job[c].op = "stale" THEN Idle ELSE Doing("finish", d, {r}))
    BY DEF Submit
  <1>2. UNCHANGED <<row, turn, thread, lost, mode, faults, shown>> BY DEF Submit
  <1>3. job \in [Job -> JobRecord] /\ effects \in [Request -> Nat] /\ row \in [Request -> Row]
    BY DEF PendingInv, PendingTypeOK, JobRecord
  <1>4. JobOK(job[c], row, effects) /\ job[c].pc = "submit" BY DEF PendingInv, Submit, At
  <1>5. r \in Request /\ Executing(job[c], r) BY <1>3, <1>4 DEF JobRecord, Executing
  <1>6. Unfinished(row[r]) /\ effects[r] = 0 BY <1>4 DEF JobOK
  <1>7. /\ effects' \in [Request -> Nat] /\ effects'[r] \in {0, 1} /\ (d = "executed" => effects'[r] = 1)
        /\ \A q \in Request \ {r} : effects'[q] = effects[q]
    BY <1>1, <1>3, <1>5, <1>6
  <1>8. \A q \in Request : ExecOK(row[q], effects'[q])
    <2>1. ExecOK(row[r], effects'[r]) BY <1>5, <1>6, <1>7 DEF PendingInv, ExecOK, Unfinished
    <2> QED BY <1>7, <2>1 DEF PendingInv
  <1> DEFINE next == IF job[c].op = "stale" THEN Idle ELSE Doing("finish", d, {r})
  <1>9. job' = [job EXCEPT ![c] = next] BY <1>1 DEF Become
  <1>10. /\ next \in JobRecord /\ JobOK(next, row, effects') /\ next.pc # "fail"
         /\ \A q \in Request : Executing(next, q) => q = r
    <2>1. CASE job[c].op = "stale"
      BY <2>1, IdleIsHarmless, HarmlessOK DEF Harmless
    <2>2. CASE job[c].op # "stale"
      <3>1. next = Doing("finish", d, {r}) BY <2>2
      <3>2. next \in JobRecord BY <1>5, <3>1, DoingTypes DEF JobPC, JobOp
      <3>3. next.pc = "finish" /\ next.op = d /\ next.reads = {r} BY <3>1 DEF Doing
      <3> QED BY <1>6, <1>7, <3>2, <3>3 DEF JobOK, Executing, Unfinished
    <2> QED BY <2>1, <2>2
  <1>11. job' \in [Job -> JobRecord] BY <1>3, <1>9, <1>10
  <1>12. ASSUME NEW k \in Job, k # c PROVE JobOK(job[k], row, effects')
    <2>1. JobOK(job[k], row, effects) BY DEF PendingInv
    <2>2. ~Executing(job[k], r) BY <1>5, <1>12 DEF PendingInv, OneOwner
    <2>3. job[k].reads \subseteq Request BY <1>3 DEF JobRecord
    <2> QED BY <1>7, <2>1, <2>2, <2>3 DEF JobOK, Executing
  <1>13. \A k \in Job : JobOK(job'[k], row', effects') BY <1>2, <1>3, <1>9, <1>10, <1>12
  <1>14. OneOwner' BY <1>3, <1>5, <1>9, <1>10 DEF PendingInv, OneOwner
  <1>15. RefusalsKept'
    <2>1. \A t \in Turn : t \in Job BY DEF Turn, Job
    <2>2. \A t \in Turn : job'[t].pc = "fail" => job[t].pc = "fail" BY <1>3, <1>9, <1>10, <2>1
    <2> QED BY <1>2, <2>2 DEF PendingInv, RefusalsKept, At
  <1>16. mode # "down" BY <1>4, WorkingIsUp
  <1>17. PendingTypeOK' BY <1>2, <1>11 DEF PendingInv, PendingTypeOK, JobRecord
  <1>18. TurnsInOrder' /\ ArchivedIsSettled' /\ ArchivedIsQuiet' /\ DownIsIdle'
    BY <1>2, <1>16 DEF PendingInv, TurnsInOrder, Created, ArchivedIsSettled, ArchivedIsQuiet, Ready, DownIsIdle
  <1>19. /\ shown' \in [Request -> Nat]
         /\ \A q \in Request : DeliveryOK(q, row'[q], shown'[q], turn') /\ ExecOK(row'[q], effects'[q])
    BY <1>2, <1>8 DEF PendingInv
  <1>20. PendingInv'
    BY <1>7, <1>13, <1>14, <1>15, <1>17, <1>18, <1>19 DEF PendingInv
  <1> QED BY <1>2, <1>20 DEF StepOK, Keeps

-----------------------------------------------------------------------------
(* Admission and closeout *)

\* The job that an admission hands on counts on rows that are still unfinished.
LEMMA AdmitNextFresh ==
    ASSUME PendingInv, NEW c \in Job, row' = row
    PROVE  Harmless(AdmitNext) \/ FreshJob(c, AdmitNext)
  <1>1. Unavailable \subseteq Request /\ LateInvalidations \subseteq Request /\ Raised \subseteq Request
    BY DEF Unavailable, LateInvalidations, Raised
  <1>2. Harmless(CloseoutOf(Unavailable))
    BY <1>1, DoingHarmless, IdleIsHarmless DEF CloseoutOf, JobOp
  <1>3. FreshJob(c, Doing("associate", "none", LateInvalidations))
    <2>1. Doing("associate", "none", LateInvalidations) \in JobRecord BY <1>1, DoingTypes DEF JobPC, JobOp
    <2>2. \A r \in LateInvalidations : row'[r].disposition = "not-executed" BY DEF LateInvalidations
    <2> QED BY <2>1, <2>2 DEF FreshJob, JobOK, Executing, Doing
  <1>4. Harmless(Doing("create", "worker", Raised)) /\ Harmless(Doing("create", "person", Raised))
    BY <1>1, DoingHarmless DEF JobOp
  <1> QED BY <1>2, <1>3, <1>4, IdleIsHarmless DEF AdmitNext

\* Wake: the admission reads again before it goes on.
LEMMA WakeKeeps ==
    ASSUME PendingInv, NEW j \in Job, Wake(j) \/ Barrier(j)
    PROVE  StepOK
  <1>1. mode # "down" BY WorkingIsUp DEF Wake, Barrier, At
  <1>2. UNCHANGED <<row, turn, thread, lost, mode, faults, effects, shown>> BY DEF Wake, Barrier
  <1>3. Harmless(AdmitNext) \/ FreshJob(j, AdmitNext) BY <1>2, AdmitNextFresh
  <1>4. \E next : (Harmless(next) \/ FreshJob(j, next)) /\ job' = [job EXCEPT ![j] = next]
    BY <1>3, IdleIsHarmless DEF Wake, Barrier, Become
  <1> QED BY <1>1, <1>2, <1>4, JobOnly

\* StartTurn: a caller is about to create a user's Turn.
LEMMA StartTurnKeeps ==
    ASSUME PendingInv, NEW c \in Caller, StartTurn(c)
    PROVE  StepOK
  <1>1. c \in Job /\ mode # "down" BY DEF Job, StartTurn, Free
  <1>2. Harmless(Doing("create", "carried", Raised)) BY DoingHarmless DEF JobOp, Raised
  <1> QED BY <1>1, <1>2, JobOnly DEF StartTurn, Become

\* Row x closed out as y.
ClosedWell(r, x, y, n) ==
    /\ y \in Row /\ ExecOK(y, n) /\ Keeps(x, y)
    /\ Unfinished(x) => Unfinished(y)
    /\ ~Unfinished(x) => SettledRow(r, y)
    /\ y.by = x.by
    /\ y.delivery = x.delivery \/ (x.delivery = "undelivered" /\ y.delivery = "closed-out")

\* A close-out decides and delivers a row, and executes nothing.
LEMMA CloseoutRow ==
    ASSUME NEW r \in Request, NEW x \in Row, NEW n, ExecOK(x, n)
    PROVE  ClosedWell(r, x, Closeout(r, x), n)
  <1> DEFINE y == IF x.state = "pending" /\ x.claim = "unclaimed" THEN [x EXCEPT !.state = "ended"] ELSE x
             z == IF NeedsInvalidation(r, y) THEN [y EXCEPT !.disposition = "not-executed", !.inval = TRUE] ELSE y
             e == IF z.delivery = "undelivered" /\ Final(r, z)
                  THEN [z EXCEPT !.delivery = "closed-out", !.pub = IF @ = NoTurn THEN Service ELSE @] ELSE z
  <1> DEFINE Part(u) == /\ u \in Row /\ ExecOK(u, n) /\ Keeps(x, u)
                        /\ (Unfinished(x) <=> Unfinished(u)) /\ u.state # "pending"
                        /\ u.by = x.by
  <1>1. Part(y) /\ y.delivery = x.delivery BY DEF Row, ExecOK, Keeps, Unfinished
  <1> HIDE DEF y
  <1>2. Part(z) /\ z.delivery = x.delivery /\ ~NeedsInvalidation(r, z)
    <2>1. CASE NeedsInvalidation(r, y)
      <3>1. /\ y.resolution = "granted" /\ y.claim = "unclaimed" /\ ~y.inval
            /\ y.disposition \in {"none", "not-executed"}
        BY <2>1 DEF NeedsInvalidation
      <3>2. z = [y EXCEPT !.disposition = "not-executed", !.inval = TRUE] BY <2>1
      <3>a. y \in Row BY <1>1
      <3> HIDE DEF z
      <3>3. z \in Row /\ z.inval /\ z.delivery = y.delivery /\ z.by = y.by /\ z.state = y.state
            /\ z.resolution = y.resolution /\ z.claim = y.claim /\ z.disposition = "not-executed" /\ z.pub = y.pub
        BY <3>2, <3>a DEF Row
      <3>4. ExecOK(z, n) BY <1>1, <3>1, <3>3 DEF ExecOK
      <3>5. Keeps(x, z) BY <1>1, <3>1, <3>3 DEF Keeps, ExecOK
      <3> QED BY <1>1, <3>1, <3>3, <3>4, <3>5 DEF Unfinished, NeedsInvalidation
    <2>2. CASE ~NeedsInvalidation(r, y) BY <1>1, <2>2
    <2> QED BY <2>1, <2>2
  <1> HIDE DEF z
  <1>3. CASE z.delivery = "undelivered" /\ Final(r, z)
    <2>a. z \in Row /\ z.pub \in {NoTurn, Service} \cup Turn BY <1>2 DEF Row
    <2>b. PICK pub \in {NoTurn, Service} \cup Turn :
             pub = (IF z.pub = NoTurn THEN Service ELSE z.pub)
      BY <2>a
    <2>1. e = [z EXCEPT !.delivery = "closed-out", !.pub = pub] BY <1>3, <2>b
    <2> HIDE DEF e
    <2>2. e \in Row /\ e.delivery = "closed-out" /\ e.by = z.by /\ e.state = z.state /\ e.inval = z.inval
          /\ e.resolution = z.resolution /\ e.claim = z.claim /\ e.disposition = z.disposition
          /\ e.pub = pub
      BY <2>a, <2>1 DEF Row
    <2>3. ExecOK(e, n) /\ Keeps(x, e) BY <1>2, <1>3, <2>b, <2>2 DEF ExecOK, Keeps
    <2>4. SettledRow(r, e) \/ Unfinished(x) BY <1>2, <2>2 DEF SettledRow, NeedsInvalidation, Unfinished
    <2>5. ClosedWell(r, x, e, n) BY <1>2, <1>3, <2>2, <2>3, <2>4 DEF ClosedWell, Unfinished
    <2> QED BY <2>5 DEF Closeout, e, z, y
  <1>4. CASE ~(z.delivery = "undelivered" /\ Final(r, z))
    <2>1. e = z BY <1>4
    <2>2. ClosedWell(r, x, e, n) BY <1>2, <1>4, <2>1 DEF ClosedWell, SettledRow
    <2> QED BY <2>2 DEF Closeout, z, y
  <1> QED BY <1>3, <1>4

\* Closing out any of the rows keeps them all in order, and settles those
\* that no execution holds.
LEMMA ClosedOutKeeps ==
    ASSUME PendingInv, mode # "down", NEW c \in Job, NEW S \in SUBSET Request, row' = ClosedOut(S), JobsMove(c),
           UNCHANGED <<turn, lost, mode, faults, effects, shown>>,
           \/ thread' = thread
           \/ /\ thread' = "archived"
              /\ \A r \in Request : ~Unfinished(row[r]) /\ (r \notin S => row[r].state = "absent")
              /\ \A r \in Request : row[r].delivery = "frozen" => turn[row[r].by].status \in Over
    PROVE  StepOK
  <1>0. row \in [Request -> Row] /\ thread' \in {"active", "archived"} /\ shown' \in [Request -> Nat]
        /\ lost' \subseteq {"worker", "person"} /\ faults' \in 0..MaxFault
    BY DEF PendingInv, PendingTypeOK
  <1>1. row' = [r \in Request |-> IF r \in S THEN Closeout(r, row[r]) ELSE row[r]] BY DEF ClosedOut, With
  <1>2. ASSUME NEW r \in Request
        PROVE  Good(r) /\ (Unfinished(row[r]) => Unfinished(row'[r]))
    <2>0. row[r] \in Row /\ ExecOK(row[r], effects[r]) /\ DeliveryOK(r, row[r], shown[r], turn)
      BY <1>0 DEF PendingInv
    <2>a. thread = "archived" => /\ SettledRow(r, row[r])
                                 /\ row[r].delivery = "frozen" => turn[row[r].by].status \in Over
      BY DEF PendingInv, ArchivedIsSettled, ArchivedIsQuiet, SettledRow, Ready
    <2>1. CASE r \in S
      <3>1. ClosedWell(r, row[r], row'[r], effects[r]) BY <1>1, <2>0, <2>1, CloseoutRow
      <3>2. DeliveryOK(r, row'[r], shown[r], turn) BY <2>0, <3>1 DEF ClosedWell, DeliveryOK
      <3>3. thread' = "archived" => ~Unfinished(row[r]) /\ (row[r].delivery = "frozen" => turn[row[r].by].status \in Over)
        BY <2>a DEF SettledRow
      <3>4. thread' = "archived" => /\ SettledRow(r, row'[r])
                                    /\ row'[r].delivery = "frozen" => turn'[row'[r].by].status \in Over
        BY <3>1, <3>3 DEF ClosedWell
      <3> QED BY <3>1, <3>2, <3>4 DEF Good, ClosedWell
    <2>2. CASE r \notin S
      <3>1. row'[r] = row[r] BY <1>1, <2>2
      <3>2. thread' = "archived" => SettledRow(r, row[r])
        BY <2>0, <2>2, <2>a DEF SettledRow, Final, NeedsInvalidation, ExecOK
      <3>3. Keeps(row[r], row'[r]) BY <3>1 DEF Keeps
      <3> QED BY <2>0, <2>a, <3>1, <3>2, <3>3 DEF Good
    <2> QED BY <2>1, <2>2
  <1>3. ClaimsKept(c) BY <1>2 DEF ClaimsKept
  <1>4. row' = [r \in Request |-> row'[r]] BY <1>1
  <1> QED BY <1>0, <1>2, <1>3, <1>4, TurnsSame, StepKeeps

\* CloseoutUnavailable: the rows whose authority is gone are closed out.
LEMMA CloseoutUnavailableKeeps ==
    ASSUME PendingInv, NEW j \in Job, CloseoutUnavailable(j)
    PROVE  StepOK
  <1>1. job[j].reads \in SUBSET Request BY DEF PendingInv, PendingTypeOK
  <1>2. row' = ClosedOut(job[j].reads) /\ job' = [Jobs(row') EXCEPT ![j] = Idle]
    BY DEF CloseoutUnavailable, WriteBy
  <1>3. mode # "down" BY WorkingIsUp DEF CloseoutUnavailable, At
  <1>4. JobsMove(j) BY <1>2, IdleIsHarmless, JobsMoveBy
  <1> QED BY <1>1, <1>2, <1>3, <1>4, ClosedOutKeeps DEF CloseoutUnavailable

\* Associate: late invalidations are published; their rows were decided before.
LEMMA AssociateKeeps ==
    ASSUME PendingInv, NEW j \in Job, Associate(j)
    PROVE  StepOK
  <1>0. row \in [Request -> Row] /\ job[j] \in JobRecord /\ shown' \in [Request -> Nat]
        /\ thread' \in {"active", "archived"} /\ lost' \subseteq {"worker", "person"} /\ faults' \in 0..MaxFault
        /\ UNCHANGED <<turn, thread, lost, mode, faults, effects, shown>>
    BY DEF PendingInv, PendingTypeOK, JobRecord, Associate
  <1>1. row' = [r \in Request |-> IF r \in job[j].reads THEN [row[r] EXCEPT !.inval = TRUE] ELSE row[r]]
        /\ job' = [Jobs(row') EXCEPT ![j] = Idle]
    BY DEF Associate, WriteBy, With
  <1>2. ASSUME NEW r \in Request
        PROVE  Good(r) /\ (Unfinished(row[r]) => Unfinished(row'[r]))
    <2>1. CASE r \in job[j].reads
      <3>1. row[r].disposition = "not-executed" BY <2>1 DEF PendingInv, JobOK, Associate, At
      <3>2. row[r] \in Row /\ ExecOK(row[r], effects[r]) /\ DeliveryOK(r, row[r], shown[r], turn)
        BY <1>0 DEF PendingInv
      <3>3. row'[r] = [row[r] EXCEPT !.inval = TRUE] BY <1>1, <2>1
      <3>4. /\ row'[r] \in Row /\ row'[r].inval /\ row'[r].state = row[r].state
            /\ row'[r].resolution = row[r].resolution /\ row'[r].claim = row[r].claim
            /\ row'[r].disposition = row[r].disposition /\ row'[r].delivery = row[r].delivery
            /\ row'[r].by = row[r].by /\ row'[r].pub = row[r].pub
        BY <3>2, <3>3 DEF Row
      <3>5. ExecOK(row'[r], effects[r]) BY <3>1, <3>2, <3>4 DEF ExecOK
      <3>6. DeliveryOK(r, row'[r], shown[r], turn) BY <3>2, <3>4 DEF DeliveryOK
      <3>7. Keeps(row[r], row'[r]) BY <3>4 DEF Keeps
      <3>8. SettledRow(r, row[r]) => SettledRow(r, row'[r])
        BY <3>4 DEF SettledRow, Unfinished, Final, NeedsInvalidation
      <3>9. thread = "archived" => SettledRow(r, row[r]) /\ (row[r].delivery = "frozen" => turn[row[r].by].status \in Over)
        BY DEF PendingInv, ArchivedIsSettled, ArchivedIsQuiet, SettledRow, Ready
      <3> QED BY <1>0, <3>4, <3>5, <3>6, <3>7, <3>8, <3>9 DEF Good, Unfinished
    <2>2. CASE r \notin job[j].reads
      <3>1. row'[r] = row[r] BY <1>1, <2>2
      <3> QED BY <1>0, <3>1, GoodSame
    <2> QED BY <2>1, <2>2
  <1>3. ClaimsKept(j) BY <1>2 DEF ClaimsKept
  <1>4. mode # "down" BY WorkingIsUp DEF Associate, At
  <1>5. JobsMove(j) BY <1>1, IdleIsHarmless, JobsMoveBy
  <1>6. row' = [r \in Request |-> row'[r]] BY <1>1
  <1> QED BY <1>0, <1>2, <1>3, <1>4, <1>5, <1>6, TurnsSame, StepKeeps

-----------------------------------------------------------------------------
(* Archive *)

\* BeginArchive: the caller has written nothing yet.
LEMMA BeginArchiveKeeps ==
    ASSUME PendingInv, NEW c \in Caller, BeginArchive(c)
    PROVE  StepOK
  <1>1. c \in Job /\ mode # "down" BY DEF Job, BeginArchive, Free
  <1>2. UNCHANGED <<row, turn, thread, lost, mode, faults, effects, shown>> BY DEF BeginArchive
  <1>3. Harmless(Doing("archive", "none", {})) BY DoingHarmless DEF JobOp
  <1>4. FreshJob(c, Doing("archive-closeout", "none", Raised))
    <2>1. Doing("archive-closeout", "none", Raised) \in JobRecord BY DoingTypes DEF JobPC, JobOp, Raised
    <2>2. Raised = RaisedIn(row') /\ \A r \in Request : ~Unfinished(row'[r])
      BY <1>2 DEF Raised, RaisedIn, BeginArchive
    <2>3. \A r \in Raised : r \in Request BY DEF Raised
    <2> QED BY <2>1, <2>2, <2>3 DEF FreshJob, JobOK, Executing, Doing
  <1>5. \E next : (Harmless(next) \/ FreshJob(c, next)) /\ job' = [job EXCEPT ![c] = next]
    BY <1>3, <1>4 DEF BeginArchive, Become
  <1> QED BY <1>1, <1>2, <1>5, JobOnly

\* Archive: the commit finds no claim unfinished and nothing to close out.
LEMMA ArchiveKeeps ==
    ASSUME PendingInv, NEW c \in Job, Archive(c)
    PROVE  StepOK
  <1>0. /\ row \in [Request -> Row] /\ shown' \in [Request -> Nat] /\ thread \in {"active", "archived"}
        /\ lost' \subseteq {"worker", "person"} /\ faults' \in 0..MaxFault
        /\ UNCHANGED <<row, turn, lost, mode, faults, effects, shown>>
    BY DEF PendingInv, PendingTypeOK, Archive
  <1>1. mode # "down" BY WorkingIsUp DEF Archive, At
  <1>2. job' = [job EXCEPT ![c] = Idle] /\ thread' = IF CanArchive THEN "archived" ELSE thread
    BY DEF Archive, Stop, Become
  <1>3. JobsMove(c) BY <1>0, <1>2, IdleIsHarmless, JobsMoveOnly
  <1>4. ClaimsKept(c) BY <1>0 DEF ClaimsKept
  <1>5. ASSUME NEW r \in Request PROVE Good(r)
    <2>1. CASE CanArchive
      <3>1. /\ SettledRow(r, row[r]) /\ row[r].delivery # "frozen"
        BY <2>1 DEF CanArchive, Selected, ArchiveSelects, SettledRow
      <3> QED BY <1>0, <3>1 DEF Good, PendingInv, Keeps
    <2>2. CASE ~CanArchive BY <1>0, <1>2, <2>2, GoodSame
    <2> QED BY <2>1, <2>2
  <1>6. thread' \in {"active", "archived"} /\ row' = [r \in Request |-> row'[r]] BY <1>0, <1>2
  <1> QED BY <1>0, <1>1, <1>3, <1>4, <1>5, <1>6, TurnsSame, StepKeeps

\* ArchiveCloseout: every row of the thread is closed out first.
LEMMA ArchiveCloseoutKeeps ==
    ASSUME PendingInv, NEW c \in Job, ArchiveCloseout(c)
    PROVE  StepOK
  <1>1. mode # "down" BY WorkingIsUp DEF ArchiveCloseout, At
  <1>2. UNCHANGED <<turn, lost, mode, faults, effects, shown>> BY DEF ArchiveCloseout
  <1>3. CASE Busy
    BY <1>1, <1>2, <1>3, IdleIsHarmless, JobOnly DEF ArchiveCloseout, Stop, Become
  <1>4. CASE ~Busy
    <2>1. row' = ClosedOut(Raised) /\ job' = [Jobs(row') EXCEPT ![c] = Idle] /\ thread' = "archived"
      BY <1>4 DEF ArchiveCloseout, WriteBy
    <2>2. JobsMove(c) BY <2>1, IdleIsHarmless, JobsMoveBy
    <2>3. Raised \in SUBSET Request /\ \A r \in Request : r \notin Raised => row[r].state = "absent" BY DEF Raised
    <2>4. \A r \in Request : ~Unfinished(row[r])
      <3>1. JobOK(job[c], row, effects) /\ job[c].pc = "archive-closeout" BY DEF PendingInv, ArchiveCloseout, At
      <3>2. \A r \in Request : row[r].state # "absent" => ~Unfinished(row[r]) BY <3>1 DEF JobOK, RaisedIn
      <3>3. \A r \in Request : row[r].state = "absent" => ~Unfinished(row[r])
        BY DEF PendingInv, ExecOK, Unfinished
      <3> QED BY <3>2, <3>3
    <2>5. ASSUME NEW r \in Request, row[r].delivery = "frozen" PROVE turn[row[r].by].status \in Over
      <3>1. row[r].by \in Turn /\ turn[row[r].by].status \in Unsent \cup {"submitted", "done"}
        BY <2>5 DEF PendingInv, DeliveryOK
      <3> QED BY <1>4, <3>1 DEF Busy, Created, Unsent, Over
    <2> QED BY <1>1, <1>2, <2>1, <2>2, <2>3, <2>4, <2>5, ClosedOutKeeps
  <1> QED BY <1>3, <1>4

-----------------------------------------------------------------------------
(* Turns *)

\* Turn t, which exists, has this status now; the others are as they were.
TurnIs(t, status) ==
    /\ turn'[t].status = status /\ turn'[t].executor = turn[t].executor
    /\ \A u \in Turn \ {t} : turn'[u] = turn[u]

\* A Turn that changes status leaves the others and their order alone.
LEMMA TurnBecomesMoves ==
    ASSUME PendingInv, NEW t \in Turn, turn[t].status # "absent",
           NEW status \in {"pending", "preparing", "recorded", "submitted", "settled", "stranded",
                           "releasing", "refused", "done", "disputed"},
           TurnBecomes(t, status), turn[t].status = "releasing" => job'[t].pc # "fail"
    PROVE  TurnsMove /\ TurnIs(t, status)
  <1>1. turn \in [Turn -> TurnRecord] /\ turn[t] \in TurnRecord BY DEF PendingInv, PendingTypeOK
  <1>2. [turn[t] EXCEPT !.status = status] \in TurnRecord BY <1>1 DEF TurnRecord
  <1>3. turn' = [turn EXCEPT ![t] = [turn[t] EXCEPT !.status = status]] BY DEF TurnBecomes
  <1>4. turn' \in [Turn -> TurnRecord] BY <1>1, <1>2, <1>3
  <1>5. TurnIs(t, status) BY <1>1, <1>3 DEF TurnIs, TurnRecord
  <1>6. Created' = Created BY <1>5 DEF Created, TurnIs
  <1>7. TurnsInOrder' BY <1>6 DEF PendingInv, TurnsInOrder
  <1>8. \A u \in Turn : turn[u].status = "releasing" => turn'[u].status = "releasing" \/ job'[u].pc # "fail"
    BY <1>5 DEF TurnIs
  <1> QED BY <1>4, <1>5, <1>7, <1>8 DEF TurnsMove

\* Row x with another delivery, as y.
Redelivered(x, y) ==
    /\ y \in Row
    /\ y.state = x.state /\ y.resolution = x.resolution /\ y.claim = x.claim
    /\ y.disposition = x.disposition /\ y.inval = x.inval
    /\ x.pub # NoTurn => y.pub = x.pub
    /\ x.delivery \notin {"delivered", "unknown", "closed-out"}

\* A row whose delivery alone changes stays executed as it was, and as final.
LEMMA RedeliveredKeeps ==
    ASSUME NEW r, NEW x, NEW y, NEW n, Redelivered(x, y), ExecOK(x, n)
    PROVE  /\ ExecOK(y, n) /\ Keeps(x, y) /\ (Unfinished(x) <=> Unfinished(y))
           /\ SettledRow(r, x) /\ y.delivery # "undelivered" => SettledRow(r, y)
  BY DEF Redelivered, ExecOK, Keeps, Unfinished, SettledRow, NeedsInvalidation

\* What a row that Turn t does not hold becomes when t moves.
LEMMA OtherRows ==
    ASSUME PendingInv, NEW t \in Turn, NEW status, TurnIs(t, status), NEW r \in Request \ FrozenBy(t),
           row'[r] = row[r], shown'[r] = shown[r], UNCHANGED <<thread, effects>>
    PROVE  Good(r)
  <1>1. row[r] \in Row /\ ExecOK(row[r], effects[r]) /\ DeliveryOK(r, row[r], shown[r], turn)
    BY DEF PendingInv, PendingTypeOK
  <1>2. row[r].delivery = "frozen" => row[r].by \in Turn \ {t} BY <1>1 DEF FrozenBy, DeliveryOK
  <1>3. row[r].delivery = "frozen" => turn'[row[r].by] = turn[row[r].by] BY <1>2 DEF TurnIs
  <1>4. DeliveryOK(r, row[r], shown[r], turn') BY <1>1, <1>3 DEF DeliveryOK
  <1>5. Keeps(row[r], row'[r]) BY DEF Keeps
  <1>6. thread = "archived" =>
           SettledRow(r, row[r]) /\ (row[r].delivery = "frozen" => turn[row[r].by].status \in Over)
    BY DEF PendingInv, ArchivedIsSettled, ArchivedIsQuiet, SettledRow, Ready
  <1> QED BY <1>1, <1>3, <1>4, <1>5, <1>6 DEF Good

\* A Turn decides the delivery of what it holds.
LEMMA TurnDecides ==
    ASSUME PendingInv, mode # "down", NEW c \in Job, NEW t \in Turn, NEW status, TurnIs(t, status), TurnsMove,
           JobsMove(c), NEW d \in {"delivered", "unknown", "undelivered"},
           row' = [r \in Request |-> IF r \in FrozenBy(t)
                                     THEN [row[r] EXCEPT !.delivery = d, !.by = NoTurn] ELSE row[r]],
           \A r \in FrozenBy(t) : r \notin Command =>
               (d = "undelivered" => shown[r] = 0) /\ (d = "delivered" => shown[r] = 1),
           d = "undelivered" => turn[t].status \notin Over,
           UNCHANGED <<thread, lost, mode, effects, shown>>, faults' \in 0..MaxFault
    PROVE  StepOK
  <1>0. /\ row \in [Request -> Row] /\ shown' \in [Request -> Nat]
        /\ thread' \in {"active", "archived"} /\ lost' \subseteq {"worker", "person"}
    BY DEF PendingInv, PendingTypeOK
  <1>1. ASSUME NEW r \in FrozenBy(t)
        PROVE  Good(r) /\ (Unfinished(row[r]) => Unfinished(row'[r]))
    <2>1. r \in Request /\ row[r].delivery = "frozen" /\ row[r].by = t BY DEF FrozenBy
    <2>2. row[r] \in Row /\ ExecOK(row[r], effects[r]) /\ DeliveryOK(r, row[r], shown[r], turn)
      BY <1>0, <2>1 DEF PendingInv
    <2>3. row'[r] = [row[r] EXCEPT !.delivery = d, !.by = NoTurn] BY <2>1
    <2>4. Redelivered(row[r], row'[r]) /\ row'[r].delivery = d BY <2>1, <2>2, <2>3 DEF Redelivered, Row
    <2>5. /\ ExecOK(row'[r], effects[r]) /\ Keeps(row[r], row'[r])
          /\ (Unfinished(row[r]) <=> Unfinished(row'[r]))
          /\ SettledRow(r, row[r]) /\ row'[r].delivery # "undelivered" => SettledRow(r, row'[r])
      BY <2>2, <2>4, RedeliveredKeeps
    <2>6. DeliveryOK(r, row'[r], shown[r], turn') BY <2>1, <2>2, <2>4 DEF DeliveryOK
    <2>7. thread = "archived" => SettledRow(r, row[r]) /\ turn[t].status \in Over
      BY <2>1 DEF PendingInv, ArchivedIsSettled, ArchivedIsQuiet, SettledRow, Ready
    <2> QED BY <2>4, <2>5, <2>6, <2>7 DEF Good, Redelivered
  <1>2. ASSUME NEW r \in Request \ FrozenBy(t) PROVE Good(r) /\ row'[r] = row[r]
    BY <1>2, OtherRows
  <1>3. ClaimsKept(c) BY <1>1, <1>2 DEF ClaimsKept
  <1>4. \A r \in Request : Good(r) BY <1>1, <1>2
  <1>5. row' = [r \in Request |-> row'[r]] OBVIOUS
  <1> QED BY <1>0, <1>3, <1>4, <1>5, StepKeeps

\* A Turn moves and the rows it holds stay.
LEMMA TurnOnly ==
    ASSUME PendingInv, mode # "down", NEW c \in Job, NEW t \in Turn, NEW status, TurnIs(t, status), TurnsMove,
           JobsMove(c), shown' \in [Request -> Nat],
           \A r \in FrozenBy(t) : DeliveryOK(r, row[r], shown'[r], turn'),
           \A r \in Request \ FrozenBy(t) : shown'[r] = shown[r],
           turn[t].status \in Over => status \in Over,
           UNCHANGED <<row, thread, lost, mode, effects>>, faults' \in 0..MaxFault
    PROVE  StepOK
  <1>0. /\ row \in [Request -> Row]
        /\ thread' \in {"active", "archived"} /\ lost' \subseteq {"worker", "person"}
    BY DEF PendingInv, PendingTypeOK
  <1>1. ASSUME NEW r \in FrozenBy(t) PROVE Good(r)
    <2>1. r \in Request /\ row[r].delivery = "frozen" /\ row[r].by = t BY DEF FrozenBy
    <2>2. row[r] \in Row /\ ExecOK(row[r], effects[r]) BY <1>0, <2>1 DEF PendingInv
    <2>3. thread = "archived" => SettledRow(r, row[r]) /\ turn[t].status \in Over
      BY <2>1 DEF PendingInv, ArchivedIsSettled, ArchivedIsQuiet, SettledRow, Ready
    <2>4. Keeps(row[r], row'[r]) BY DEF Keeps
    <2> QED BY <2>1, <2>2, <2>3, <2>4 DEF Good, TurnIs
  <1>2. \A r \in Request \ FrozenBy(t) : Good(r) BY OtherRows
  <1>3. ClaimsKept(c) BY DEF ClaimsKept
  <1>4. \A r \in Request : Good(r) BY <1>1, <1>2
  <1>5. row' = [r \in Request |-> row'[r]] BY <1>0
  <1> QED BY <1>0, <1>3, <1>4, <1>5, StepKeeps

\* Every Turn has a job, and job 0 belongs to no Turn.
LEMMA TurnJobs == Turn \subseteq Job /\ 0 \in Job
  BY PendingAssumption DEF Turn, Job

\* The jobs after a write that concerns no job.
LEMMA JobsMoveWrite ==
    ASSUME job' = Jobs(row')
    PROVE  JobsMove(0)
  BY DEF JobsMove, Jobs

\* No job moves.
LEMMA JobsStay ==
    ASSUME PendingInv, UNCHANGED <<row, job>>
    PROVE  JobsMove(0)
  <1>1. job \in [Job -> JobRecord] BY DEF PendingInv, PendingTypeOK, JobRecord
  <1>2. Jobs(row') = job BY <1>1, JobsUnchanged
  <1> QED BY <1>1, <1>2 DEF JobsMove

\* What Turn t holds: outcomes of its own executor's requests.
LEMMA HeldRows ==
    ASSUME PendingInv, NEW t \in Turn, NEW r \in FrozenBy(t)
    PROVE  /\ r \in Request /\ row[r].delivery = "frozen" /\ row[r].by = t
           /\ turn[t].executor = Executor(r) /\ turn[t].status \in Unsent \cup {"submitted", "done"}
           /\ r \notin Command => /\ shown[r] \in {0, 1}
                                  /\ turn[t].status \in Unsent => shown[r] = 0
                                  /\ turn[t].status = "submitted" => shown[r] = 1
  <1>1. r \in Request /\ row[r].delivery = "frozen" /\ row[r].by = t BY DEF FrozenBy
  <1>2. DeliveryOK(r, row[r], shown[r], turn) BY <1>1 DEF PendingInv
  <1> QED BY <1>1, <1>2 DEF DeliveryOK

\* A request that a worker executes is no command.
LEMMA WorkerHolds ==
    ASSUME NEW r, Executor(r) = "worker"
    PROVE  r \notin Command
  BY DEF Executor

\* A Turn that is not submitted moves on and is not submitted still.
LEMMA UnsentKeeps ==
    ASSUME PendingInv, NEW t \in Turn, NEW status \in {"pending", "preparing", "recorded"},
           mode # "down", turn[t].status \in {"pending", "preparing"}, TurnBecomes(t, status),
           UNCHANGED <<row, thread, lost, job, mode, effects, shown>>, faults' \in 0..MaxFault
    PROVE  StepOK
  <1>1. TurnsMove /\ TurnIs(t, status) BY TurnBecomesMoves
  <1>2. JobsMove(0) /\ 0 \in Job BY JobsStay, TurnJobs
  <1>3. shown' \in [Request -> Nat] BY DEF PendingInv
  <1>4. ASSUME NEW r \in FrozenBy(t) PROVE DeliveryOK(r, row[r], shown'[r], turn')
    <2>1. /\ r \in Request /\ row[r].delivery = "frozen" /\ row[r].by = t /\ turn[t].executor = Executor(r)
          /\ r \notin Command => shown[r] = 0
      BY HeldRows DEF Unsent
    <2> QED BY <1>1, <2>1 DEF DeliveryOK, TurnIs, Unsent
  <1>5. turn[t].status \notin Over BY DEF Over
  <1> QED BY <1>1, <1>2, <1>3, <1>4, <1>5, TurnOnly

\* DispatchTurn, RequeueTurn and RecordSubmission show nothing.
LEMMA DispatchKeeps ==
    ASSUME PendingInv, NEW t \in Turn, DispatchTurn(t) \/ RequeueTurn(t) \/ RecordSubmission(t)
    PROVE  StepOK
  <1>1. faults \in 0..MaxFault BY DEF PendingInv, PendingTypeOK
  <1>2. CASE DispatchTurn(t) BY <1>1, <1>2, UnsentKeeps DEF DispatchTurn, WorkerTurn
  <1>3. CASE RequeueTurn(t)
    <2>1. faults' \in 0..MaxFault BY <1>1, <1>3, PendingAssumption DEF RequeueTurn
    <2> QED BY <1>3, <2>1, UnsentKeeps DEF RequeueTurn, WorkerTurn
  <1>4. CASE RecordSubmission(t) BY <1>1, <1>4, UnsentKeeps DEF RecordSubmission, WorkerTurn
  <1> QED BY <1>2, <1>3, <1>4

\* SubmitTurn: the outcomes the Turn holds are shown, each for the first time.
LEMMA SubmitTurnKeeps ==
    ASSUME PendingInv, NEW t \in Turn, SubmitTurn(t)
    PROVE  StepOK
  <1>1. /\ mode # "down" /\ turn[t].status = "recorded" /\ turn[t].executor = "worker"
        /\ TurnBecomes(t, "submitted")
        /\ UNCHANGED <<row, thread, lost, job, mode, faults, effects>>
        /\ shown' = [r \in Request |-> shown[r] + IF r \in FrozenBy(t) THEN 1 ELSE 0]
    BY DEF SubmitTurn, WorkerTurn
  <1>2. TurnsMove /\ TurnIs(t, "submitted") BY <1>1, TurnBecomesMoves
  <1>3. JobsMove(0) /\ 0 \in Job BY <1>1, JobsStay, TurnJobs
  <1>4. shown \in [Request -> Nat] /\ faults' \in 0..MaxFault BY <1>1 DEF PendingInv, PendingTypeOK
  <1>5. shown' \in [Request -> Nat] /\ \A r \in Request \ FrozenBy(t) : shown'[r] = shown[r]
    BY <1>1, <1>4
  <1>6. ASSUME NEW r \in FrozenBy(t) PROVE DeliveryOK(r, row[r], shown'[r], turn')
    <2>1. /\ r \in Request /\ row[r].delivery = "frozen" /\ row[r].by = t /\ r \notin Command
          /\ turn[t].executor = Executor(r) /\ shown[r] = 0
      BY <1>1, HeldRows, WorkerHolds DEF Unsent
    <2>2. shown'[r] = 1 BY <1>1, <2>1
    <2> QED BY <1>2, <2>1, <2>2 DEF DeliveryOK, TurnIs, Unsent
  <1>7. turn[t].status \notin Over BY <1>1 DEF Over
  <1> QED BY <1>1, <1>2, <1>3, <1>4, <1>5, <1>6, <1>7, TurnOnly

\* TurnEnds: what the Turn still holds stays frozen.
LEMMA TurnEndsKeeps ==
    ASSUME PendingInv, NEW t \in Turn, TurnEnds(t)
    PROVE  StepOK
  <1>1. /\ mode # "down" /\ turn[t].status \in {"pending", "recorded", "submitted", "settled", "stranded"}
        /\ TurnBecomes(t, "done") /\ job' = [job EXCEPT ![t] = Doing("barrier", "none", {})]
        /\ UNCHANGED <<row, thread, lost, mode, faults, effects, shown>>
    BY DEF TurnEnds, WorkerTurn, Become
  <1>2. TurnsMove /\ TurnIs(t, "done") BY <1>1, TurnBecomesMoves
  <1>3. JobsMove(t) /\ t \in Job
    <2>1. Harmless(Doing("barrier", "none", {})) BY DoingHarmless DEF JobOp
    <2> QED BY <1>1, <2>1, TurnJobs, JobsMoveOnly
  <1>4. ASSUME NEW r \in FrozenBy(t) PROVE DeliveryOK(r, row[r], shown'[r], turn')
    <2>1. /\ r \in Request /\ row[r].delivery = "frozen" /\ row[r].by = t /\ turn[t].executor = Executor(r)
          /\ r \notin Command => shown[r] \in {0, 1}
      BY HeldRows
    <2> QED BY <1>1, <1>2, <2>1 DEF DeliveryOK, TurnIs, Unsent
  <1>5. shown' \in [Request -> Nat] /\ faults' \in 0..MaxFault BY <1>1 DEF PendingInv, PendingTypeOK
  <1>6. "done" \in Over BY DEF Over
  <1> QED BY <1>1, <1>2, <1>3, <1>4, <1>5, <1>6, TurnOnly

\* FailRefused: the Turn gave its outcomes back before, or keeps them unshown.
LEMMA FailRefusedKeeps ==
    ASSUME PendingInv, NEW t \in Turn, FailRefused(t)
    PROVE  StepOK
  <1>0. PICK next : next = IF job[t].op = "none" THEN CloseoutOf(Unavailable) ELSE Idle OBVIOUS
  <1>1. /\ job[t].pc = "fail" /\ TurnBecomes(t, "refused")
        /\ job' = [job EXCEPT ![t] = next]
        /\ UNCHANGED <<row, thread, lost, mode, faults, effects, shown>>
    BY <1>0 DEF FailRefused, Become, At
  <1>2. t \in Job /\ turn[t].status = "releasing" BY <1>1, TurnJobs DEF PendingInv, RefusalsKept, At
  <1>3. mode # "down" BY <1>1, <1>2, WorkingIsUp
  <1>4. Harmless(next)
    <2>1. Harmless(CloseoutOf(Unavailable))
      BY DoingHarmless, IdleIsHarmless DEF CloseoutOf, JobOp, Unavailable, Raised
    <2> QED BY <1>0, <2>1, IdleIsHarmless
  <1>5. job'[t].pc # "fail"
    <2>1. job \in [Job -> JobRecord] BY DEF PendingInv, PendingTypeOK, JobRecord
    <2>2. job'[t] = next BY <1>1, <1>2, <2>1
    <2> QED BY <1>4, <2>2 DEF Harmless
  <1>6. TurnsMove /\ TurnIs(t, "refused") BY <1>1, <1>2, <1>5, TurnBecomesMoves
  <1>7. JobsMove(t) BY <1>1, <1>2, <1>4, JobsMoveOnly
  <1>8. ASSUME NEW r \in FrozenBy(t) PROVE DeliveryOK(r, row[r], shown'[r], turn')
    <2>1. /\ r \in Request /\ row[r].delivery = "frozen" /\ row[r].by = t /\ turn[t].executor = Executor(r)
          /\ r \notin Command => shown[r] = 0
      BY <1>2, HeldRows DEF Unsent
    <2> QED BY <1>1, <1>6, <2>1 DEF DeliveryOK, TurnIs, Unsent
  <1>9. shown' \in [Request -> Nat] /\ faults' \in 0..MaxFault BY <1>1 DEF PendingInv, PendingTypeOK
  <1>10. "refused" \in Over BY DEF Over
  <1> QED BY <1>1, <1>2, <1>3, <1>6, <1>7, <1>8, <1>9, <1>10, TurnOnly

\* AcceptTurn: what was shown is delivered.
LEMMA AcceptTurnKeeps ==
    ASSUME PendingInv, NEW t \in Turn, AcceptTurn(t)
    PROVE  StepOK
  <1>1. /\ mode # "down" /\ turn[t].status = "submitted"
        /\ row' = Delivered(t, "delivered") /\ job' = Jobs(row') /\ TurnBecomes(t, "settled")
        /\ UNCHANGED <<thread, lost, mode, faults, effects, shown>>
    BY DEF AcceptTurn, WorkerTurn, Write
  <1>2. TurnsMove /\ TurnIs(t, "settled") BY <1>1, TurnBecomesMoves
  <1>3. JobsMove(0) /\ 0 \in Job BY <1>1, JobsMoveWrite, TurnJobs
  <1>4. row' = [r \in Request |-> IF r \in FrozenBy(t)
                                  THEN [row[r] EXCEPT !.delivery = "delivered", !.by = NoTurn] ELSE row[r]]
    BY <1>1 DEF Delivered, With
  <1>5. \A r \in FrozenBy(t) : r \notin Command => shown[r] = 1 BY <1>1, HeldRows
  <1>6. faults' \in 0..MaxFault BY <1>1 DEF PendingInv, PendingTypeOK
  <1> QED BY <1>1, <1>2, <1>3, <1>4, <1>5, <1>6, TurnDecides

\* DeliveryUnknown: outcomes that may have been shown are never offered again.
LEMMA DeliveryUnknownKeeps ==
    ASSUME PendingInv, NEW t \in Turn, DeliveryUnknown(t)
    PROVE  StepOK
  <1>0. turn[t].status \in {"pending", "recorded", "submitted", "done"} BY DEF DeliveryUnknown, WorkerTurn
  <1>a. PICK status \in {"settled", "stranded", "disputed"} : status = AfterUnknown(turn[t].status)
    BY <1>0 DEF AfterUnknown
  <1>1. /\ mode # "down"
        /\ row' = Delivered(t, "unknown") /\ job' = Jobs(row') /\ TurnBecomes(t, status)
        /\ UNCHANGED <<thread, lost, mode, faults, effects, shown>>
    BY <1>a DEF DeliveryUnknown, WorkerTurn, Write
  <1>2. TurnsMove /\ TurnIs(t, status) BY <1>0, <1>1, TurnBecomesMoves
  <1>3. JobsMove(0) /\ 0 \in Job BY <1>1, JobsMoveWrite, TurnJobs
  <1>4. row' = [r \in Request |-> IF r \in FrozenBy(t)
                                  THEN [row[r] EXCEPT !.delivery = "unknown", !.by = NoTurn] ELSE row[r]]
    BY <1>1 DEF Delivered, With
  <1>5. faults' \in 0..MaxFault BY <1>1 DEF PendingInv, PendingTypeOK
  <1> QED BY <1>1, <1>2, <1>3, <1>4, <1>5, TurnDecides

\* RefuseStart: the Turn never was submitted and gives its outcomes back, or keeps them, unshown.
LEMMA RefuseStartKeeps ==
    ASSUME PendingInv, NEW t \in Turn, RefuseStart(t)
    PROVE  StepOK
  <1>1. PICK op \in {"none", "failed"} :
           row' \in {row, Released(t)} /\ job' = [Jobs(row') EXCEPT ![t] = Doing("fail", op, {})]
    BY DEF RefuseStart, WriteBy
  <1>2. /\ mode # "down" /\ turn[t].status = "pending"
        /\ TurnBecomes(t, "releasing") /\ faults < MaxFault /\ faults' = faults + 1
        /\ UNCHANGED <<thread, lost, mode, effects, shown>>
    BY DEF RefuseStart, WorkerTurn
  <1>3. TurnsMove /\ TurnIs(t, "releasing") BY <1>2, TurnBecomesMoves
  <1>4. JobsMove(t) /\ t \in Job BY <1>1, <1>3, TurnJobs DEF JobsMove, Jobs, TurnIs, Failing
  <1>5. \A r \in FrozenBy(t) : r \notin Command => shown[r] = 0 BY <1>2, HeldRows DEF Unsent
  <1>6. faults' \in 0..MaxFault BY <1>2, PendingAssumption DEF PendingInv, PendingTypeOK
  <1>7. turn[t].status \notin Over BY <1>2 DEF Over
  <1>8. CASE row' = Released(t)
    <2>1. row' = [r \in Request |-> IF r \in FrozenBy(t)
                                    THEN [row[r] EXCEPT !.delivery = "undelivered", !.by = NoTurn] ELSE row[r]]
      BY <1>8 DEF Released, With
    <2> QED BY <1>2, <1>3, <1>4, <1>5, <1>6, <1>7, <2>1, TurnDecides
  <1>9. CASE row' = row
    <2>1. ASSUME NEW r \in FrozenBy(t) PROVE DeliveryOK(r, row[r], shown'[r], turn')
      <3>1. r \in Request /\ row[r].delivery = "frozen" /\ row[r].by = t /\ turn[t].executor = Executor(r)
        BY HeldRows
      <3> QED BY <1>2, <1>3, <1>5, <3>1 DEF DeliveryOK, TurnIs, Unsent
    <2>2. shown' \in [Request -> Nat] BY <1>2 DEF PendingInv
    <2>3. UNCHANGED <<row, thread, lost, mode, effects>> BY <1>2, <1>9
    <2>4. \A r \in Request \ FrozenBy(t) : shown'[r] = shown[r] BY <1>2
    <2> QED BY <1>2, <1>3, <1>4, <1>6, <1>7, <2>1, <2>2, <2>3, <2>4, TurnOnly
  <1> QED BY <1>1, <1>8, <1>9

\* RefuseAttempt: the same for an attempt closed before any operation.
LEMMA RefuseAttemptKeeps ==
    ASSUME PendingInv, NEW t \in Turn, RefuseAttempt(t)
    PROVE  StepOK
  <1>1. /\ mode # "down" /\ turn[t].status = "preparing"
        /\ row' = Released(t) /\ job' = Jobs(row')
        /\ TurnBecomes(t, "refused") /\ faults < MaxFault /\ faults' = faults + 1
        /\ UNCHANGED <<thread, lost, mode, effects, shown>>
    BY DEF RefuseAttempt, WorkerTurn, Write
  <1>2. TurnsMove /\ TurnIs(t, "refused") BY <1>1, TurnBecomesMoves
  <1>3. JobsMove(0) /\ 0 \in Job BY <1>1, JobsMoveWrite, TurnJobs
  <1>4. row' = [r \in Request |-> IF r \in FrozenBy(t)
                                  THEN [row[r] EXCEPT !.delivery = "undelivered", !.by = NoTurn] ELSE row[r]]
    BY <1>1 DEF Released, With
  <1>5. \A r \in FrozenBy(t) : r \notin Command => shown[r] = 0 BY <1>1, HeldRows DEF Unsent
  <1>6. faults' \in 0..MaxFault BY <1>1, PendingAssumption DEF PendingInv, PendingTypeOK
  <1>7. turn[t].status \notin Over BY <1>1 DEF Over
  <1> QED BY <1>1, <1>2, <1>3, <1>4, <1>5, <1>6, <1>7, TurnDecides

\* RecordOutcome: a person's outcomes are delivered with the record of its Turn.
LEMMA RecordOutcomeKeeps ==
    ASSUME PendingInv, NEW j \in Job, RecordOutcome(j)
    PROVE  StepOK
  <1>1. PICK t \in Created :
           /\ turn[t] = [status |-> "pending", executor |-> "person"]
           /\ row' = Delivered(t, "delivered")
           /\ TurnBecomes(t, "done")
           /\ job' = [Jobs(row') EXCEPT ![j] = Idle, ![t] = Doing("barrier", "none", {})]
    BY DEF RecordOutcome
  <1>2. t \in Turn /\ turn[t].status = "pending" /\ turn[t].executor = "person" BY <1>1 DEF Created
  <1>3. mode # "down" BY WorkingIsUp DEF RecordOutcome, At
  <1>4. UNCHANGED <<thread, lost, mode, faults, effects, shown>> BY DEF RecordOutcome
  <1>5. TurnsMove /\ TurnIs(t, "done") BY <1>1, <1>2, TurnBecomesMoves
  <1>6. JobsMove(j)
    <2>1. Harmless(Doing("barrier", "none", {})) BY DoingHarmless DEF JobOp
    <2> QED BY <1>1, <2>1, IdleIsHarmless DEF JobsMove, Jobs
  <1>7. row' = [r \in Request |-> IF r \in FrozenBy(t)
                                  THEN [row[r] EXCEPT !.delivery = "delivered", !.by = NoTurn] ELSE row[r]]
    BY <1>1 DEF Delivered, With
  <1>8. \A r \in FrozenBy(t) : r \in Command BY <1>2, HeldRows DEF Executor
  <1>9. faults' \in 0..MaxFault BY <1>4 DEF PendingInv, PendingTypeOK
  <1> QED BY <1>2, <1>3, <1>4, <1>5, <1>6, <1>7, <1>8, <1>9, TurnDecides

\* The next Turn is a new one.
LEMMA NextTurn ==
    ASSUME PendingInv, Cardinality(Created) < MaxTurn
    PROVE  \E n \in Nat : /\ Cardinality(Created) = n /\ n + 1 \in Turn /\ n + 1 <= MaxTurn
                          /\ Created = 1..n /\ turn[n + 1].status = "absent"
  <1>1. PICK n \in Nat : n <= MaxTurn /\ Created = 1..n BY DEF PendingInv, TurnsInOrder
  <1>2. Cardinality(1..n) = n BY FS_Interval
  <1>3. n < MaxTurn /\ MaxTurn \in Nat BY <1>1, <1>2, PendingAssumption
  <1>4. n + 1 \in Turn /\ n + 1 <= MaxTurn BY <1>3 DEF Turn
  <1>5. n + 1 \notin Created BY <1>1
  <1>6. turn[n + 1].status = "absent" BY <1>4, <1>5 DEF Created
  <1> QED BY <1>1, <1>2, <1>4, <1>6

\* CreateTurn: the Turn freezes outcomes that no other Turn holds.
LEMMA CreateTurnKeeps ==
    ASSUME PendingInv, NEW j \in Job, CreateTurn(j)
    PROVE  StepOK
  <1> DEFINE e == IF job[j].op = "person" THEN "person" ELSE "worker"
             t == Cardinality(Created) + 1
  <1>0. /\ mode # "down" /\ UNCHANGED <<thread, lost, mode, faults, effects, shown>>
        /\ row \in [Request -> Row] /\ shown' \in [Request -> Nat] /\ turn \in [Turn -> TurnRecord]
        /\ thread' \in {"active", "archived"} /\ lost' \subseteq {"worker", "person"} /\ faults' \in 0..MaxFault
    BY WorkingIsUp DEF CreateTurn, At, PendingInv, PendingTypeOK
  <1>1. CASE ~CanCreate(j)
    BY <1>0, <1>1, IdleIsHarmless, JobOnly DEF CreateTurn, Stop, Become
  <1>2. CASE CanCreate(j)
    <2>1. PICK B \in SUBSET ReadyFor(e) :
             /\ row' = [r \in Request |-> IF r \in B THEN Frozen(row[r], t) ELSE row[r]]
             /\ job' = [k \in Job |-> IF k = j THEN (IF e = "person" THEN Doing("record", "none", {}) ELSE Idle)
                                      ELSE IF At(k, "create") THEN Idle ELSE Jobs(row')[k]]
             /\ turn' = [turn EXCEPT ![t] = [status |-> "pending", executor |-> e]]
      BY <1>2 DEF CreateTurn, With
    <2>2. thread = "active" /\ Cardinality(Created) < MaxTurn BY <1>2 DEF CanCreate
    <2>3. PICK n \in Nat : /\ Cardinality(Created) = n /\ n + 1 \in Turn /\ n + 1 <= MaxTurn
                           /\ Created = 1..n /\ turn[n + 1].status = "absent"
      BY <2>2, NextTurn
    <2>4. t = n + 1 /\ t \in Turn /\ turn[t].status = "absent" BY <2>3
    <2> HIDE DEF t, e
    <2>5. e \in {"worker", "person"} BY DEF e
    <2>6. [status |-> "pending", executor |-> e] \in TurnRecord BY <2>5 DEF TurnRecord
    <2>7. /\ turn' \in [Turn -> TurnRecord] /\ turn'[t].status = "pending" /\ turn'[t].executor = e
          /\ \A u \in Turn \ {t} : turn'[u] = turn[u]
      BY <1>0, <2>1, <2>4, <2>6
    <2>8. TurnsMove
      <3>1. Created' = Created \cup {t} BY <2>4, <2>7 DEF Created
      <3>2. Created' = 1..(n + 1) BY <2>3, <2>4, <3>1
      <3>3. TurnsInOrder' BY <2>3, <3>2 DEF TurnsInOrder
      <3>4. \A u \in Turn : turn[u].status = "releasing" => turn'[u].status = "releasing" BY <2>4, <2>7
      <3> QED BY <2>7, <3>3, <3>4 DEF TurnsMove
    <2>9. JobsMove(j)
      <3>1. Harmless(Doing("record", "none", {})) BY DoingHarmless DEF JobOp
      <3> QED BY <2>1, <3>1, IdleIsHarmless DEF JobsMove
    <2>10. ASSUME NEW r \in Request PROVE Good(r) /\ (Unfinished(row[r]) => Unfinished(row'[r]))
      <3>0. row[r] \in Row /\ ExecOK(row[r], effects[r]) /\ DeliveryOK(r, row[r], shown[r], turn)
        BY <1>0 DEF PendingInv
      <3>1. CASE r \in B
        <4>1. row[r].delivery = "undelivered" /\ Executor(r) = e BY <3>1 DEF ReadyFor, Ready
        <4>a. row[r].pub \in {NoTurn, Service} \cup Turn BY <3>0 DEF Row
        <4>2. PICK pub \in {NoTurn, Service} \cup Turn : pub = (IF row[r].pub = NoTurn THEN t ELSE row[r].pub)
          BY <2>4, <4>a
        <4>3. row'[r] = [row[r] EXCEPT !.delivery = "frozen", !.by = t, !.pub = pub]
          BY <2>1, <3>1, <4>2 DEF Frozen
        <4>4. Redelivered(row[r], row'[r]) /\ row'[r].delivery = "frozen" /\ row'[r].by = t
          BY <2>4, <3>0, <4>1, <4>2, <4>3 DEF Redelivered, Row
        <4>5. /\ ExecOK(row'[r], effects[r]) /\ Keeps(row[r], row'[r])
              /\ (Unfinished(row[r]) <=> Unfinished(row'[r]))
          BY <3>0, <4>4, RedeliveredKeeps
        <4>6. DeliveryOK(r, row'[r], shown[r], turn')
          BY <2>4, <2>7, <3>0, <4>1, <4>4 DEF DeliveryOK, Unsent
        <4> QED BY <1>0, <2>2, <4>4, <4>5, <4>6 DEF Good, Redelivered
      <3>2. CASE r \notin B
        <4>1. row'[r] = row[r] BY <2>1, <3>2
        <4>2. row[r].delivery = "frozen" => turn'[row[r].by] = turn[row[r].by]
          BY <2>4, <2>7, <3>0 DEF DeliveryOK, Unsent
        <4>3. DeliveryOK(r, row[r], shown[r], turn') BY <3>0, <4>2 DEF DeliveryOK
        <4> QED BY <1>0, <2>2, <3>0, <4>1, <4>3 DEF Good, Keeps
      <3> QED BY <3>1, <3>2
    <2>11. ClaimsKept(j) BY <2>10 DEF ClaimsKept
    <2>12. row' = [r \in Request |-> row'[r]] BY <2>1
    <2> QED BY <1>0, <2>8, <2>9, <2>10, <2>11, <2>12, StepKeeps
  <1> QED BY <1>1, <1>2

-----------------------------------------------------------------------------
(* Faults and boot *)

\* LoseAuthority: an executor loses its authority; the close-out comes later.
LEMMA LoseAuthorityKeeps ==
    ASSUME PendingInv, NEW e \in {"worker", "person"}, LoseAuthority(e)
    PROVE  StepOK
  <1>1. /\ mode # "down" /\ lost' = lost \cup {e} /\ faults < MaxFault /\ faults' = faults + 1
        /\ UNCHANGED <<row, turn, thread, job, mode, effects, shown>>
    BY DEF LoseAuthority
  <1>2. faults' \in 0..MaxFault BY <1>1, PendingAssumption DEF PendingInv, PendingTypeOK
  <1>3. /\ row' = [r \in Request |-> row'[r]] /\ shown' \in [Request -> Nat]
        /\ thread' \in {"active", "archived"} /\ lost' \subseteq {"worker", "person"}
    BY <1>1 DEF PendingInv, PendingTypeOK
  <1>4. JobsMove(0) /\ 0 \in Job BY <1>1, JobsStay, TurnJobs
  <1>5. ClaimsKept(0) BY <1>1 DEF ClaimsKept
  <1>6. \A r \in Request : Good(r) BY <1>1, GoodSame
  <1>7. TurnsMove BY <1>1, TurnsSame
  <1>8. UNCHANGED <<mode, effects>> BY <1>1
  <1> QED BY <1>1, <1>2, <1>3, <1>4, <1>5, <1>6, <1>7, <1>8, StepKeeps

\* With nothing but harmless jobs, the jobs are in order whatever the rows are.
LEMMA HarmlessJobs ==
    ASSUME job' = [k \in Job |-> job'[k]], \A k \in Job : Harmless(job'[k])
    PROVE  JobsInv' /\ RefusalsKept'
  <1>1. job' \in [Job -> JobRecord] BY DEF Harmless
  <1>2. \A k \in Job : JobOK(job'[k], row', effects') BY HarmlessOK
  <1>3. OneOwner' BY HarmlessOK DEF OneOwner
  <1>4. RefusalsKept' BY TurnJobs DEF RefusalsKept, At, Harmless
  <1> QED BY <1>1, <1>2, <1>3, <1>4 DEF JobsInv

\* Crash: jobs are lost, rows and Turns stay.
LEMMA CrashKeeps ==
    ASSUME PendingInv, Crash
    PROVE  StepOK
  <1>1. /\ mode' = "down" /\ faults < MaxFault /\ faults' = faults + 1 /\ job' = [j \in Job |-> Idle]
        /\ UNCHANGED <<row, turn, thread, lost, effects, shown>>
    BY DEF Crash
  <1>2. JobsInv' /\ RefusalsKept' BY <1>1, IdleIsHarmless, HarmlessJobs
  <1>3. faults' \in 0..MaxFault BY <1>1, PendingAssumption DEF PendingInv, PendingTypeOK
  <1>4. PendingTypeOK' BY <1>1, <1>2, <1>3 DEF PendingInv, PendingTypeOK, JobsInv, JobRecord
  <1>5. TurnsInOrder' /\ ArchivedIsSettled' /\ ArchivedIsQuiet' /\ DownIsIdle'
    BY <1>1 DEF PendingInv, TurnsInOrder, Created, ArchivedIsSettled, ArchivedIsQuiet, Ready, DownIsIdle
  <1>6. PendingInv' BY <1>1, <1>2, <1>4, <1>5 DEF PendingInv, JobsInv
  <1> QED BY <1>1, <1>6 DEF StepOK, Keeps

\* Listen: Core starts to serve.
LEMMA ListenKeeps ==
    ASSUME PendingInv, Listen
    PROVE  StepOK
  <1>1. mode' = "up" /\ UNCHANGED <<row, turn, thread, lost, job, faults, effects, shown>> BY DEF Listen
  <1>2. PendingTypeOK' BY <1>1 DEF PendingInv, PendingTypeOK
  <1>3. TurnsInOrder' /\ ArchivedIsSettled' /\ ArchivedIsQuiet' /\ DownIsIdle' /\ OneOwner' /\ RefusalsKept'
    BY <1>1 DEF PendingInv, TurnsInOrder, Created, ArchivedIsSettled, ArchivedIsQuiet, Ready, DownIsIdle,
       OneOwner, RefusalsKept, At
  <1>4. PendingInv' BY <1>1, <1>2, <1>3 DEF PendingInv
  <1> QED BY <1>1, <1>4 DEF StepOK, Keeps

\* The boot ends claims and settles deliveries from the records alone.
LEMMA BootRow ==
    ASSUME PendingInv, Boot, NEW r \in Request
    PROVE  Good(r)
  <1>0. /\ row'[r] = RecoveredDelivery(Settled(row[r])) /\ turn' = [t \in Turn |-> RecoveredTurn(t)]
        /\ UNCHANGED <<thread, effects, shown>>
    BY DEF Boot
  <1>1. row[r] \in Row /\ ExecOK(row[r], effects[r]) /\ DeliveryOK(r, row[r], shown[r], turn)
    BY DEF PendingInv, PendingTypeOK
  <1> DEFINE x == row[r]
             y == Settled(x)
             z == RecoveredDelivery(y)
  <1>2. /\ y \in Row /\ ExecOK(y, effects[r]) /\ Keeps(x, y) /\ y.delivery = x.delivery /\ y.by = x.by
    <2>1. CASE Unfinished(x)
      <3>1. y = [x EXCEPT !.claim = "finished", !.disposition = "failed"] BY <2>1 DEF Settled
      <3> QED BY <1>1, <2>1, <3>1 DEF Row, ExecOK, Keeps, Unfinished
    <2>2. CASE ~Unfinished(x)
      <3>1. y = x BY <2>2 DEF Settled
      <3> QED BY <1>1, <3>1 DEF Keeps
    <2> QED BY <2>1, <2>2
  <1>3. thread = "archived" => SettledRow(r, y) /\ (x.delivery = "frozen" => turn[x.by].status \in Over)
    <2>1. thread = "archived" => SettledRow(r, x) /\ (x.delivery = "frozen" => turn[x.by].status \in Over)
      BY DEF PendingInv, ArchivedIsSettled, ArchivedIsQuiet, SettledRow, Ready
    <2>2. SettledRow(r, x) => y = x BY DEF SettledRow, Settled
    <2> QED BY <2>1, <2>2
  <1>4. DeliveryOK(r, y, shown[r], turn) BY <1>1, <1>2 DEF DeliveryOK
  <1> HIDE DEF y
  <1>5. CASE z = y /\ (y.delivery = "frozen" => turn[y.by].executor # "person" /\ turn[y.by].status \in {"pending", "releasing"})
    <2>0. ASSUME y.delivery = "frozen"
          PROVE  turn'[y.by].status = "pending" /\ turn'[y.by].executor = turn[y.by].executor
      <3>1. y.by \in Turn /\ turn[y.by] \in TurnRecord BY <1>4, <2>0 DEF DeliveryOK, PendingInv, PendingTypeOK
      <3>2. r \in FrozenBy(y.by) BY <1>2, <2>0 DEF FrozenBy
      <3>3. turn'[y.by] = RecoveredTurn(y.by) BY <1>0, <3>1
      <3> QED BY <1>5, <2>0, <3>1, <3>2, <3>3 DEF RecoveredTurn, TurnRecord
    <2>1. y.delivery = "frozen" => turn[y.by].status \notin Over BY <1>5 DEF Over
    <2>2. DeliveryOK(r, y, shown[r], turn')
      <3>1. y.delivery = "frozen" /\ r \notin Command => shown[r] = 0 BY <1>4, <1>5 DEF DeliveryOK, Unsent
      <3> QED BY <1>4, <2>0, <3>1 DEF DeliveryOK, Unsent
    <2>3. row'[r] = y BY <1>0, <1>5 DEF y
    <2> QED BY <1>0, <1>2, <1>3, <2>1, <2>2, <2>3 DEF Good
  <1>6. CASE y.delivery = "frozen" /\ \E d \in {"delivered", "unknown"} :
                /\ z = [y EXCEPT !.delivery = d, !.by = NoTurn]
                /\ d = "delivered" => turn[y.by].executor = "person"
    <2>1. PICK d \in {"delivered", "unknown"} :
                /\ z = [y EXCEPT !.delivery = d, !.by = NoTurn]
                /\ d = "delivered" => turn[y.by].executor = "person"
      BY <1>6
    <2>2. row'[r] = z BY <1>0 DEF y
    <2> HIDE DEF z
    <2>3. Redelivered(y, z) /\ z.delivery = d BY <1>2, <1>6, <2>1 DEF Redelivered, Row
    <2>4. /\ ExecOK(z, effects[r]) /\ Keeps(y, z)
          /\ SettledRow(r, y) /\ z.delivery # "undelivered" => SettledRow(r, z)
      BY <1>2, <2>3, RedeliveredKeeps
    <2>5. Keeps(x, z)
      <3>1. ASSUME NEW u, NEW v, NEW w, Keeps(u, v), Keeps(v, w), u.delivery = "frozen" PROVE Keeps(u, w)
        BY <3>1 DEF Keeps
      <3> QED BY <1>2, <1>6, <2>4, <3>1
    <2>6. d = "delivered" => r \in Command BY <1>4, <1>6, <2>1 DEF DeliveryOK, Executor
    <2>8. DeliveryOK(r, z, shown[r], turn') BY <1>4, <2>3, <2>6 DEF DeliveryOK
    <2> QED BY <1>0, <1>3, <2>2, <2>3, <2>4, <2>5, <2>8 DEF Good, Redelivered
  <1>7. CASE y.delivery # "frozen"
    <2>1. z = y BY <1>7 DEF RecoveredDelivery
    <2> QED BY <1>5, <1>7, <2>1
  <1>8. CASE y.delivery = "frozen" BY <1>5, <1>6, <1>8 DEF RecoveredDelivery
  <1> QED BY <1>7, <1>8

\* Boot: the rows of interrupted work are settled before Core serves.
LEMMA BootKeeps ==
    ASSUME PendingInv, Boot
    PROVE  StepOK
  <1>1. /\ mode = "down" /\ mode' = "boot" /\ turn' = [t \in Turn |-> RecoveredTurn(t)]
        /\ UNCHANGED <<thread, lost, faults, effects, shown>> /\ row' = [r \in Request |-> row'[r]]
        /\ job' = [job EXCEPT ![0] = IF thread = "active" THEN Doing("wake", "none", {}) ELSE Idle]
    BY DEF Boot, Become
  <1>2. \A k \in Job : Harmless(job'[k])
    <2>1. Harmless(Doing("wake", "none", {})) BY DoingHarmless DEF JobOp
    <2>2. job \in [Job -> JobRecord] /\ \A k \in Job : job[k] = Idle
      BY <1>1 DEF PendingInv, PendingTypeOK, JobRecord, DownIsIdle
    <2> QED BY <1>1, <2>1, <2>2, IdleIsHarmless
  <1>3. JobsInv' /\ RefusalsKept'
    <2>1. job' = [k \in Job |-> job'[k]] BY <1>1 DEF PendingInv, PendingTypeOK
    <2> QED BY <1>2, <2>1, HarmlessJobs
  <1>4. \A r \in Request : Good(r) BY BootRow
  <1>5. turn' \in [Turn -> TurnRecord] /\ \A t \in Turn : turn'[t].status = "absent" <=> turn[t].status = "absent"
    <2>1. ASSUME NEW t \in Turn
          PROVE  RecoveredTurn(t) \in TurnRecord
                 /\ (RecoveredTurn(t).status = "absent" <=> turn[t].status = "absent")
      <3>1. turn[t] \in TurnRecord BY DEF PendingInv, PendingTypeOK
      <3> QED BY <3>1 DEF RecoveredTurn, TurnRecord
    <2> QED BY <1>1, <2>1
  <1>6. TurnsInOrder'
    <2>1. Created' = Created BY <1>5 DEF Created
    <2> QED BY <2>1 DEF PendingInv, TurnsInOrder
  <1>7. row' \in [Request -> Row] BY <1>1, <1>4 DEF Good
  <1>8. PendingTypeOK' BY <1>1, <1>3, <1>5, <1>7 DEF PendingInv, PendingTypeOK, JobsInv, JobRecord
  <1>9. ArchivedIsSettled' /\ ArchivedIsQuiet' /\ DownIsIdle'
    BY <1>1, <1>4 DEF Good, ArchivedIsSettled, ArchivedIsQuiet, SettledRow, Ready, DownIsIdle
  <1>10. /\ effects' \in [Request -> Nat] /\ shown' \in [Request -> Nat]
         /\ \A r \in Request : ExecOK(row'[r], effects'[r]) /\ DeliveryOK(r, row'[r], shown'[r], turn')
    BY <1>1, <1>4 DEF Good, PendingInv
  <1>11. PendingInv' BY <1>3, <1>6, <1>8, <1>9, <1>10 DEF PendingInv, JobsInv
  <1> QED BY <1>4, <1>11 DEF StepOK, Good

-----------------------------------------------------------------------------
(* The theorems *)

\* The first state.
LEMMA InitPendingInv ==
    ASSUME Init
    PROVE  PendingInv
  <1>1. /\ NoRow \in Row /\ NoRow.state = "absent" /\ NoRow.claim = "unclaimed" /\ NoRow.delivery = "undelivered"
        /\ ExecOK(NoRow, 0)
    BY DEF NoRow, Row, ExecOK, NoTurn, Service
  <1>2. Idle \in JobRecord /\ (\A E : JobOK(Idle, row, E)) /\ \A r : ~Executing(Idle, r)
    BY IdleIsHarmless, HarmlessOK
  <1>3. \A r \in Request : DeliveryOK(r, NoRow, 0, turn) BY <1>1 DEF DeliveryOK
  <1>4. /\ turn \in [Turn -> TurnRecord] /\ Created = {t \in Turn : t = 1} BY DEF Init, TurnRecord, Created
  <1>5. TurnsInOrder
    <2>1. 1 \in Turn /\ 1 <= MaxTurn BY PendingAssumption DEF Turn
    <2>2. Created = 1..1 BY <1>4, <2>1
    <2> QED BY <2>1, <2>2 DEF TurnsInOrder
  <1>6. PendingTypeOK
    <2>1. faults \in 0..MaxFault BY PendingAssumption DEF Init
    <2> QED BY <1>1, <1>2, <1>4, <2>1 DEF Init, PendingTypeOK, JobRecord
  <1>7. /\ \A r \in Request : ExecOK(row[r], effects[r]) /\ DeliveryOK(r, row[r], shown[r], turn)
        /\ effects \in [Request -> Nat] /\ shown \in [Request -> Nat]
    BY <1>1, <1>3 DEF Init
  <1>8. (\A j \in Job : JobOK(job[j], row, effects)) /\ OneOwner /\ DownIsIdle
    BY <1>2 DEF Init, OneOwner, DownIsIdle
  <1>9. RefusalsKept BY TurnJobs, IdleIsHarmless DEF Init, RefusalsKept, At
  <1>10. ArchivedIsSettled /\ ArchivedIsQuiet BY DEF Init, ArchivedIsSettled, ArchivedIsQuiet
  <1> QED BY <1>5, <1>6, <1>7, <1>8, <1>9, <1>10 DEF PendingInv

\* Every step, by the lemmas above.
LEMMA NextStepOK ==
    ASSUME PendingInv, Next
    PROVE  StepOK
  <1>1. ASSUME NEW j \in Job, JobStep(j) PROVE StepOK
    BY <1>1, DecideKeeps, PrepareKeeps, ReserveKeeps, ClaimCommandKeeps, RefuseCommandKeeps, SubmitKeeps,
       FinishKeeps, WakeKeeps, CloseoutUnavailableKeeps, AssociateKeeps, CreateTurnKeeps, RecordOutcomeKeeps,
       ArchiveKeeps, ArchiveCloseoutKeeps, FailRefusedKeeps DEF JobStep
  <1>2. ASSUME NEW c \in Caller, Begin(c) PROVE StepOK
    BY <1>2, ConsumeKeeps, RespondKeeps, StartTurnKeeps, BeginArchiveKeeps DEF Begin
  <1>3. ASSUME NEW t \in Turn, TurnStep(t) \/ Refusal(t) PROVE StepOK
    BY <1>3, DispatchKeeps, SubmitTurnKeeps, AcceptTurnKeeps, DeliveryUnknownKeeps, TurnEndsKeeps,
       RefuseStartKeeps, RefuseAttemptKeeps DEF TurnStep, Refusal
  <1>4. ASSUME NEW r \in Request, Raise(r) PROVE StepOK BY <1>4, RaiseKeeps
  <1>5. CASE Boot \/ Listen \/ Fault BY <1>5, BootKeeps, ListenKeeps, CrashKeeps, LoseAuthorityKeeps DEF Fault
  <1> QED BY <1>1, <1>2, <1>3, <1>4, <1>5 DEF Next

\* A step of somebody else.
LEMMA StutterOK ==
    ASSUME PendingInv, UNCHANGED vars
    PROVE  PendingInv'
  BY DEF vars, PendingInv, PendingTypeOK, OneOwner, TurnsInOrder, Created, RefusalsKept, At, ArchivedIsSettled,
     ArchivedIsQuiet, Ready, DownIsIdle

\* The inductive invariant of requests, Turns and jobs holds in every
\* reachable state, whatever commands, archives, crashes and boots interleave.
THEOREM PendingInvariance == Spec => []PendingInv
  <1>1. Init => PendingInv BY InitPendingInv
  <1>2. PendingInv /\ [Next]_vars => PendingInv' BY NextStepOK, StutterOK DEF StepOK
  <1> QED BY <1>1, <1>2, PTL DEF Spec

\* Records, Turns and jobs stay of their types.
THEOREM PendingTypes == Spec => []PendingTypeOK
  <1>1. PendingInv => PendingTypeOK BY DEF PendingInv
  <1> QED BY <1>1, PendingInvariance, PTL

\* A request is executed at most once, only when granted and claimed, and its
\* recorded disposition is what happened.
THEOREM GrantsExecuteOnce == Spec => []ExecutedOnce
  <1>1. PendingInv => ExecutedOnce
    <2>1. SUFFICES ASSUME PendingInv, NEW r \in Request
                   PROVE  /\ effects[r] <= 1
                          /\ effects[r] = 1 => /\ row[r].resolution = "granted"
                                               /\ row[r].claim # "unclaimed" /\ row[r].disposition # "not-executed"
                          /\ row[r].disposition = "executed" => effects[r] = 1
      BY DEF ExecutedOnce
    <2>2. ExecOK(row[r], effects[r]) BY <2>1 DEF PendingInv
    <2> QED BY <2>2 DEF ExecOK
  <1> QED BY <1>1, PendingInvariance, PTL

\* An outcome is submitted to a Worker at most once, is never offered again or
\* closed out after that, and counts as delivered only then.
THEOREM OutcomesDeliverOnce == Spec => []DeliveredOnce
  <1>1. PendingInv => DeliveredOnce
    <2>1. SUFFICES ASSUME PendingInv, NEW r \in Request \ Command
                   PROVE  /\ shown[r] <= 1
                          /\ shown[r] = 1 => row[r].delivery \in {"frozen", "delivered", "unknown"}
                          /\ row[r].delivery = "delivered" => shown[r] = 1
      BY DEF DeliveredOnce
    <2>2. DeliveryOK(r, row[r], shown[r], turn) /\ row[r] \in Row BY <2>1 DEF PendingInv, PendingTypeOK
    <2>3. row[r].delivery \in {"undelivered", "frozen", "delivered", "unknown", "closed-out"} BY <2>2 DEF Row
    <2> QED BY <2>2, <2>3 DEF DeliveryOK
  <1> QED BY <1>1, PendingInvariance, PTL

\* An archived Thread leaves no open request, no running execution, no
\* unpublished outcome and no grant that could still be consumed.
THEOREM ArchivesAreSettled == Spec => []ArchivedIsSettled
  <1>1. PendingInv => ArchivedIsSettled BY DEF PendingInv
  <1> QED BY <1>1, PendingInvariance, PTL

\* One response wins, and what was decided, claimed, recorded or published of
\* a request never changes.
THEOREM DecisionsStayFinal == Spec => DecisionsAreFinal
  <1> DEFINE Stays ==
         \A r \in Request :
            /\ row[r].state \in {"resolved", "ended"} =>
                  row'[r].state = row[r].state /\ row'[r].resolution = row[r].resolution
            /\ row[r].claim # "unclaimed" => row'[r].claim # "unclaimed"
            /\ row[r].disposition # "none" => row'[r].disposition = row[r].disposition
            /\ row[r].pub # NoTurn => row'[r].pub = row[r].pub
            /\ row[r].delivery \in {"delivered", "unknown", "closed-out"} => row'[r].delivery = row[r].delivery
  <1>1. PendingInv /\ [Next]_vars => [Stays]_vars BY NextStepOK DEF StepOK, Keeps
  <1> QED BY <1>1, PendingInvariance, PTL DEF Spec, DecisionsAreFinal
=============================================================================
