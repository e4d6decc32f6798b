-------------------------- MODULE PendingRequests --------------------------
(***************************************************************************)
(* The questions and approvals a Thread's Workers and people raise: their  *)
(* decision, the execution a grant permits, the delivery of the outcome on *)
(* a later Turn, and the archive of the Thread.  A command reads rows on   *)
(* the main thread, awaits, and is committed by the writer only if those   *)
(* rows are still what it read: the hash it expects covers the time of the *)
(* last update, so a row that changed never matches again.  A refused      *)
(* command changes nothing; the model drops it when its reading becomes    *)
(* stale instead of when it is committed.  A freeze or a closeout also     *)
(* compares the Thread's list of requests (expectedThreadCensus).          *)
(* The actors, each a job with its own program counter:                    *)
(*   - callers: they decide or withdraw a request, consume a granted       *)
(*     command, start a Turn, archive the Thread;                          *)
(*   - the terminal barrier of a Turn, which admits what is ready;         *)
(*   - the recovery at boot (job 0), before Core listens.                  *)
(* A Worker's outcome is submitted natively with the Turn that froze it; a *)
(* person's is recorded by a Turn that Core completes itself.              *)
(*                                                                         *)
(* Left out: contents, Assistant and Coordinator requesters (delivered as  *)
(* a Worker's), several Agents or users on a Thread, order within a batch, *)
(* reactivation of a Thread, and unusable rows.                            *)
(***************************************************************************)
EXTENDS Naturals, FiniteSets

CONSTANTS
    Call,           \* approvals of a Worker's captured call
    Input,          \* questions of a Worker
    Command,        \* approvals of a person's governed command
    Caller,         \* concurrent commands
    PendingBound,   \* PENDING_REQUEST_BOUND
    DeliveryBound,  \* OUTCOME_DELIVERY_BOUND
    MaxTurn,        \* bound on Turns
    MaxFault        \* bound on faults, refused starts and losses of authority

Request == Call \union Input \union Command
Turn == 1..MaxTurn
Job == Caller \union (0..MaxTurn)
NoTurn == 0
Service == MaxTurn + 1   \* the Turns of closeouts, complete when published

ASSUME PendingAssumption ==
    /\ Call \intersect Input = {} /\ Call \intersect Command = {} /\ Input \intersect Command = {}
    /\ {PendingBound, DeliveryBound, MaxTurn} \subseteq Nat \ {0}
    /\ MaxFault \in Nat

VARIABLES
    row,       \* row[r]: the record of request r
    turn,      \* turn[t]: the Turns of the Thread
    thread,    \* "active" or "archived"
    lost,      \* requesters without authority
    job,       \* job[j]: what actor j is about to do
    mode,      \* Core is "up", "boot"ing or "down"
    faults,
    effects,   \* history: executions of request r
    shown      \* history: native submissions of the outcome of r

vars == <<row, turn, thread, lost, job, mode, faults, effects, shown>>

Row == [state : {"absent", "pending", "resolved", "ended"},
        resolution : {"none", "granted", "denied", "answered"},
        claim : {"unclaimed", "claimed", "finished"},
        disposition : {"none", "executed", "failed", "not-executed"},   \* an error or an unknown outcome is "failed"
        delivery : {"undelivered", "frozen", "delivered", "unknown", "closed-out"},
        by : {NoTurn} \union Turn,              \* deliveryTurnId while frozen
        pub : {NoTurn, Service} \union Turn,    \* publicationTurnId
        inval : BOOLEAN]                        \* has an invalidationTurnId
NoRow == [state |-> "absent", resolution |-> "none", claim |-> "unclaimed", disposition |-> "none",
          delivery |-> "undelivered", by |-> NoTurn, pub |-> NoTurn, inval |-> FALSE]
\* A Worker's Turn is "pending" until a dispatch holds it ("preparing"), then its operation is
\* "recorded", then "submitted", and "settled" once its delivery is decided.  "stranded": it has
\* no Worker and only ends.  "releasing" is pending still, its start refused.  "disputed": done,
\* and its delivery was called unknown afterwards.  A person's Turn is "pending", then "done".
TurnRecord == [status : {"absent", "pending", "preparing", "recorded", "submitted", "settled",
                         "stranded", "releasing", "refused", "done", "disputed"},
               executor : {"worker", "person"}]
Decision == {"grant", "deny", "answer", "withdraw"}
JobPC == {"idle", "decide", "prepare", "reserve", "submit", "finish", "consume", "refuse",
          "wake", "barrier", "closeout", "associate", "create", "record", "fail", "archive", "archive-closeout"}
JobOp == {"none", "carried", "worker", "person", "executed", "failed", "stale"} \union Decision

Executor(r) == IF r \in Command THEN "person" ELSE "worker"
Raised == {r \in Request : row[r].state # "absent"}
Created == {t \in Turn : turn[t].status # "absent"}
Busy == \E t \in Created : turn[t].status \notin {"done", "disputed", "refused"}
Unfinished(x) == x.claim = "claimed" /\ x.disposition = "none"

\* isFinalOutcome: a granted call has an outcome only once its disposition is recorded.
Final(r, x) ==
    \/ x.state = "ended"
    \/ /\ x.state = "resolved"
       /\ x.resolution \in {"denied", "answered"} \/ r \in Command \/ x.disposition # "none"
Ready(r) == row[r].delivery = "undelivered" /\ Final(r, row[r])
NeedsInvalidation(r, x) ==
    /\ r \in Command /\ x.resolution = "granted" /\ x.claim = "unclaimed" /\ ~x.inval
    /\ x.disposition \in {"none", "not-executed"}
ArchiveSelects(r, x) ==
    \/ x.state = "pending" \/ x.delivery = "frozen"
    \/ x.delivery = "undelivered" /\ Final(r, x)
    \/ NeedsInvalidation(r, x)

Idle == [pc |-> "idle", op |-> "none", reads |-> {}]
Doing(pc, op, S) == [pc |-> pc, op |-> op, reads |-> S]

\* The posted command of job x expects other rows, or another census, than row' = new.
Whole == {"create", "closeout", "archive-closeout"}
Posted == Whole \union {"decide", "reserve", "consume", "refuse", "finish", "associate"}
Grew(new) == \E r \in Request : row[r].state = "absent" /\ new[r].state # "absent"
Stale(x, new) ==
    \/ x.pc \in Posted /\ \E r \in x.reads : new[r] # row[r]
    \/ x.pc \in Whole /\ Grew(new)
\* A call's finish expects the row as it was claimed, a command's the row read after the effect.
Overtaken(x, new) == x.pc = "submit" /\ \E r \in x.reads \intersect Call : new[r] # row[r]
Jobs(new) == [j \in Job |-> IF Stale(job[j], new) THEN Idle
                            ELSE IF Overtaken(job[j], new) THEN [job[j] EXCEPT !.op = "stale"] ELSE job[j]]
Write(new) == row' = new /\ job' = Jobs(new)
WriteBy(j, new, next) == row' = new /\ job' = [Jobs(new) EXCEPT ![j] = next]
With(S, F(_)) == [r \in Request |-> IF r \in S THEN F(r) ELSE row[r]]
Become(j, next) == job' = [job EXCEPT ![j] = next]
Stop(j) == Become(j, Idle)
At(j, pc) == job[j].pc = pc
Free(c) == mode = "up" /\ At(c, "idle")

\* A Worker's Turn of a user is running; no request was raised yet.
Init ==
    /\ row = [r \in Request |-> NoRow]
    /\ turn = [t \in Turn |-> [status |-> IF t = 1 THEN "settled" ELSE "absent", executor |-> "worker"]]
    /\ thread = "active"
    /\ lost = {}
    /\ job = [j \in Job |-> Idle]
    /\ mode = "up"
    /\ faults = 0
    /\ effects = [r \in Request |-> 0]
    /\ shown = [r \in Request |-> 0]

(***************************************************************************)
(* Raise and decide.                                                       *)
(***************************************************************************)

Raise(r) ==
    /\ mode = "up" /\ thread = "active" /\ row[r].state = "absent"
    /\ r \notin Command => \E t \in Created : turn[t] \in [status : {"submitted", "settled"}, executor : {"worker"}]
    /\ Cardinality({q \in Request : row[q].state = "pending"}) < PendingBound
    /\ Write([row EXCEPT ![r] = [@ EXCEPT !.state = "pending"]])
    /\ UNCHANGED <<turn, thread, lost, mode, faults, effects, shown>>

Offered(r) == CASE r \in Input -> {"answer", "withdraw"} [] OTHER -> {"grant", "deny", "withdraw"}

\* A granted call is prepared first; any other decision is posted at once.
Respond(c, r, d) ==
    /\ Free(c) /\ row[r].state = "pending" /\ d \in Offered(r)
    /\ Become(c, Doing(IF d = "grant" /\ r \in Call THEN "prepare" ELSE "decide", d, {r}))
    /\ UNCHANGED <<row, turn, thread, lost, mode, faults, effects, shown>>

\* Mutant: the decision is stored as it was posted.
DecidedAsPosted(r, x, d) == [x EXCEPT !.state = "resolved", !.resolution = d]
Decided(r, x, d) ==
    CASE d = "withdraw" -> [x EXCEPT !.state = "ended"]
      [] d = "answer" -> [x EXCEPT !.state = "resolved", !.resolution = "answered"]
      [] d = "grant" -> [x EXCEPT !.state = "resolved", !.resolution = "granted"]
      [] d = "deny" -> [x EXCEPT !.state = "resolved", !.resolution = "denied",
                                 !.disposition = IF r \in Call THEN "not-executed" ELSE "none"]

Decide(c) ==
    /\ At(c, "decide")
    /\ \E r \in job[c].reads :
        WriteBy(c, [row EXCEPT ![r] = Decided(r, @, job[c].op)], Doing("wake", "none", {}))
    /\ UNCHANGED <<turn, thread, lost, mode, faults, effects, shown>>

(***************************************************************************)
(* Execute a granted call inside its command, or a granted command by its  *)
(* effect owner.                                                           *)
(***************************************************************************)

\* The call's row is read again after the preparation.
Prepare(c) ==
    /\ At(c, "prepare")
    /\ Become(c, Doing("reserve", "none", job[c].reads))
    /\ UNCHANGED <<row, turn, thread, lost, mode, faults, effects, shown>>

\* Mutant: a row that was decided during the preparation is claimed.
ReservableAny(x) == x.claim = "unclaimed"
Reservable(x) == x.state = "pending" /\ x.claim = "unclaimed"
Claimed(x) == [x EXCEPT !.state = "resolved", !.resolution = "granted", !.claim = "claimed"]

Reserve(c) ==
    /\ At(c, "reserve")
    /\ \E r \in job[c].reads :
        IF Reservable(row[r])
        THEN IF thread = "active"
             THEN WriteBy(c, [row EXCEPT ![r] = Claimed(@)], Doing("submit", "none", {r}))
             ELSE WriteBy(c, [row EXCEPT ![r] = [@ EXCEPT !.state = "ended"]], Idle)
        ELSE row' = row /\ Stop(c)
    /\ UNCHANGED <<turn, thread, lost, mode, faults, effects, shown>>

Consumable(r) == r \in Command /\ row[r].resolution = "granted" /\ row[r].claim = "unclaimed" /\ row[r].disposition = "none"

\* The owner of a command's effect finds the grant, and current authority or not.
Consume(c, r) ==
    /\ Free(c) /\ Consumable(r)
    /\ \E pc \in {"consume", "refuse"} :
        /\ Executor(r) \in lost => pc = "refuse"
        /\ Become(c, Doing(pc, "none", {r}))
    /\ UNCHANGED <<row, turn, thread, lost, mode, faults, effects, shown>>

ClaimCommand(c) ==
    /\ At(c, "consume")
    /\ \E r \in job[c].reads :
        IF thread = "active"
        THEN WriteBy(c, [row EXCEPT ![r] = [@ EXCEPT !.claim = "claimed"]], Doing("submit", "none", {r}))
        ELSE row' = row /\ Stop(c)
    /\ UNCHANGED <<turn, thread, lost, mode, faults, effects, shown>>

RefuseCommand(c) ==
    /\ At(c, "refuse")
    /\ \E r \in job[c].reads :
        WriteBy(c, [row EXCEPT ![r] = [@ EXCEPT !.disposition = "not-executed"]], Doing("wake", "none", {}))
    /\ UNCHANGED <<turn, thread, lost, mode, faults, effects, shown>>

\* The last check of authority, then the effect.  A command's row is read again after it.
Submit(c) ==
    /\ At(c, "submit")
    /\ \E r \in job[c].reads, d \in {"executed", "failed"}, contact \in BOOLEAN :
        /\ contact => Executor(r) \notin lost
        /\ d = "executed" => contact
        /\ effects' = [effects EXCEPT ![r] = @ + IF contact THEN 1 ELSE 0]
        /\ Become(c, IF job[c].op = "stale" THEN Idle ELSE Doing("finish", d, {r}))
    /\ UNCHANGED <<row, turn, thread, lost, mode, faults, shown>>

\* A refused finish leaves the claim to the next boot.  Only a call's command admits afterwards.
FinishExecution(c) ==
    /\ At(c, "finish")
    /\ \E r \in job[c].reads :
        IF Unfinished(row[r])
        THEN WriteBy(c, [row EXCEPT ![r] = [@ EXCEPT !.claim = "finished", !.disposition = job[c].op]],
                     IF r \in Call THEN Doing("wake", "none", {}) ELSE Idle)
        ELSE row' = row /\ Stop(c)
    /\ UNCHANGED <<turn, thread, lost, mode, faults, effects, shown>>

(***************************************************************************)
(* Admission of what is ready: admitIfIdle, admitNextOutcome.              *)
(***************************************************************************)

Unavailable == {r \in Raised : /\ Executor(r) \in lost /\ row[r].claim # "claimed"
                               /\ \/ row[r].state = "pending" \/ row[r].delivery = "undelivered"
                                  \/ NeedsInvalidation(r, row[r])}
LateInvalidations == {r \in Request : NeedsInvalidation(r, row[r]) /\ row[r].disposition = "not-executed"}
ReadyFor(e) == {r \in Request : Ready(r) /\ Executor(r) = e}

CloseoutOf(S) == IF S = {} THEN Idle ELSE Doing("closeout", "none", S)

\* admitNextOutcome up to its first command: requests without authority, then late
\* invalidations, then a Worker's outcomes, then a person's.  The reads follow each other
\* without waiting and are one step.
AdmitNext ==
    IF Unavailable # {} THEN CloseoutOf(Unavailable)
    ELSE IF LateInvalidations # {} THEN Doing("associate", "none", LateInvalidations)
    ELSE IF ReadyFor("worker") # {} THEN Doing("create", "worker", Raised)
    ELSE IF ReadyFor("person") # {} THEN Doing("create", "person", Raised)
    ELSE Idle

\* admitIfIdle.
\* Mutant: the response leaves what it made ready to the next Turn.
WakeNever(j) ==
    /\ At(j, "wake") /\ Stop(j)
    /\ UNCHANGED <<row, turn, thread, lost, mode, faults, effects, shown>>
Wake(j) ==
    /\ At(j, "wake")
    /\ Become(j, IF Busy THEN Idle ELSE AdmitNext)
    /\ UNCHANGED <<row, turn, thread, lost, mode, faults, effects, shown>>

\* onTerminal.
Barrier(j) ==
    /\ At(j, "barrier")
    /\ Become(j, IF thread = "archived" THEN Idle ELSE AdmitNext)
    /\ UNCHANGED <<row, turn, thread, lost, mode, faults, effects, shown>>

\* applyPendingCloseout of one row: a frozen one is left to its Turn.
Closeout(r, x) ==
    LET y == IF x.state = "pending" /\ x.claim = "unclaimed" THEN [x EXCEPT !.state = "ended"] ELSE x
        z == IF NeedsInvalidation(r, y) THEN [y EXCEPT !.disposition = "not-executed", !.inval = TRUE] ELSE y IN
    IF z.delivery = "undelivered" /\ Final(r, z)
    THEN [z EXCEPT !.delivery = "closed-out", !.pub = IF @ = NoTurn THEN Service ELSE @] ELSE z
ClosedOut(S) == LET F(r) == Closeout(r, row[r]) IN With(S, F)

\* The closeout's Turn is complete at once and has no barrier.
CloseoutUnavailable(j) ==
    /\ At(j, "closeout")
    /\ WriteBy(j, ClosedOut(job[j].reads), Idle)
    /\ UNCHANGED <<turn, thread, lost, mode, faults, effects, shown>>

\* admitInvalidations, whose Turn is complete at once too.
Associate(j) ==
    /\ At(j, "associate")
    /\ LET F(r) == [row[r] EXCEPT !.inval = TRUE] IN WriteBy(j, With(job[j].reads, F), Idle)
    /\ UNCHANGED <<turn, thread, lost, mode, faults, effects, shown>>

\* A user's Turn carries what is ready for its Worker.
StartTurn(c) ==
    /\ Free(c) /\ thread = "active" /\ ~Busy /\ Cardinality(Created) < MaxTurn
    /\ Become(c, Doing("create", "carried", Raised))
    /\ UNCHANGED <<row, turn, thread, lost, mode, faults, effects, shown>>

Frozen(x, t) == [x EXCEPT !.delivery = "frozen", !.by = t, !.pub = IF @ = NoTurn THEN t ELSE @]

\* createTurn: the Turn and its freeze are one commit, conditioned on the Thread's revision,
\* which every creation moves; otherwise the admission fails.
CanCreate(j) == thread = "active" /\ ~Busy /\ Cardinality(Created) < MaxTurn
CreateTurn(j) ==
    /\ At(j, "create")
    /\ LET e == IF job[j].op = "person" THEN "person" ELSE "worker"
           t == Cardinality(Created) + 1
           F(r) == Frozen(row[r], t) IN
       IF CanCreate(j)
       THEN \E B \in SUBSET ReadyFor(e) :
              /\ Cardinality(B) = DeliveryBound \/ (B = ReadyFor(e) /\ Cardinality(B) < DeliveryBound)
              /\ row' = With(B, F)
              /\ job' = [k \in Job |-> IF k = j THEN (IF e = "person" THEN Doing("record", "none", {}) ELSE Idle)
                                       ELSE IF At(k, "create") THEN Idle ELSE Jobs(row')[k]]
              /\ turn' = [turn EXCEPT ![t] = [status |-> "pending", executor |-> e]]
       ELSE UNCHANGED <<row, turn>> /\ Stop(j)
    /\ UNCHANGED <<thread, lost, mode, faults, effects, shown>>

FrozenBy(t) == {r \in Request : row[r].delivery = "frozen" /\ row[r].by = t}
Delivered(t, d) == LET F(r) == [row[r] EXCEPT !.delivery = d, !.by = NoTurn] IN With(FrozenBy(t), F)
Released(t) == LET F(r) == [row[r] EXCEPT !.delivery = "undelivered", !.by = NoTurn] IN With(FrozenBy(t), F)
TurnBecomes(t, status) == turn' = [turn EXCEPT ![t] = [@ EXCEPT !.status = status]]

\* A person's Turn records the outcome and is complete; its own barrier follows.
RecordOutcome(j) ==
    /\ At(j, "record")
    /\ \E t \in Created :
        /\ turn[t] = [status |-> "pending", executor |-> "person"]
        /\ row' = Delivered(t, "delivered")
        /\ TurnBecomes(t, "done")
        /\ job' = [Jobs(row') EXCEPT ![j] = Idle, ![t] = Doing("barrier", "none", {})]
    /\ UNCHANGED <<thread, lost, mode, faults, effects, shown>>

(***************************************************************************)
(* Delivery by a Worker's Turn.                                            *)
(***************************************************************************)

WorkerTurn(t, status) == mode = "up" /\ turn[t] = [status |-> status, executor |-> "worker"]

\* The dispatch admits an attempt, prepares it, records an operation and submits: a crash may
\* come between any two.  A recorded preparation counts as a recorded submission: neither can
\* be refused any more.
DispatchTurn(t) ==
    /\ WorkerTurn(t, "pending") /\ TurnBecomes(t, "preparing")
    /\ UNCHANGED <<row, thread, lost, job, mode, faults, effects, shown>>

\* No capacity: the Turn waits again.
RequeueTurn(t) ==
    /\ WorkerTurn(t, "preparing") /\ TurnBecomes(t, "pending")
    /\ faults < MaxFault /\ faults' = faults + 1
    /\ UNCHANGED <<row, thread, lost, job, mode, effects, shown>>

RecordSubmission(t) ==
    /\ WorkerTurn(t, "preparing") /\ TurnBecomes(t, "recorded")
    /\ UNCHANGED <<row, thread, lost, job, mode, faults, effects, shown>>

SubmitTurn(t) ==
    /\ WorkerTurn(t, "recorded") /\ TurnBecomes(t, "submitted")
    /\ shown' = [r \in Request |-> shown[r] + IF r \in FrozenBy(t) THEN 1 ELSE 0]
    /\ UNCHANGED <<row, thread, lost, job, mode, faults, effects>>

AcceptTurn(t) ==
    /\ WorkerTurn(t, "submitted")
    /\ Write(Delivered(t, "delivered")) /\ TurnBecomes(t, "settled")
    /\ UNCHANGED <<thread, lost, mode, faults, effects, shown>>

\* Any error of the start but a refusal makes the delivery unknown: before the dispatch, when
\* the submission is unresolved, or after the failed Turn was published.
AfterUnknown(status) ==
    CASE status = "submitted" -> "settled" [] status = "done" -> "disputed" [] OTHER -> "stranded"
\* Mutant: the uncertain outcome is offered again.
DeliveryUnknownReleased(t) ==
    /\ \E s \in {"pending", "recorded", "submitted", "done"} : WorkerTurn(t, s)
    /\ FrozenBy(t) # {}
    /\ Write(Released(t)) /\ TurnBecomes(t, AfterUnknown(turn[t].status))
    /\ UNCHANGED <<thread, lost, mode, faults, effects, shown>>
DeliveryUnknown(t) ==
    /\ \E s \in {"pending", "recorded", "submitted", "done"} : WorkerTurn(t, s)
    /\ FrozenBy(t) # {}
    /\ Write(Delivered(t, "unknown")) /\ TurnBecomes(t, AfterUnknown(turn[t].status))
    /\ UNCHANGED <<thread, lost, mode, faults, effects, shown>>

\* The Turn ends, by its executor, by the recovery of its attempt or, queued, by a Stop.  It
\* may leave its outcomes frozen.
TurnEnds(t) ==
    /\ \E s \in {"pending", "recorded", "submitted", "settled", "stranded"} : WorkerTurn(t, s)
    /\ TurnBecomes(t, "done")
    /\ Become(t, Doing("barrier", "none", {}))
    /\ UNCHANGED <<row, thread, lost, mode, faults, effects, shown>>

\* The start is refused before submission: released, then failed, without a barrier.  A
\* failed release is tried once more ("failed"), which may fail too.
RefuseStart(t) ==
    /\ WorkerTurn(t, "pending") /\ TurnBecomes(t, "releasing")
    /\ \E op \in {"none", "failed"}, new \in {row, Released(t)} :
        /\ op = "none" => new = Released(t)
        /\ WriteBy(t, new, Doing("fail", op, {}))
    /\ faults < MaxFault /\ faults' = faults + 1
    /\ UNCHANGED <<thread, lost, mode, effects, shown>>

FailRefused(t) ==
    /\ At(t, "fail")
    /\ TurnBecomes(t, "refused")
    /\ Become(t, IF job[t].op = "none" THEN CloseoutOf(Unavailable) ELSE Idle)
    /\ UNCHANGED <<row, thread, lost, mode, faults, effects, shown>>

\* prepareTerminal: the attempt was closed before any operation.
RefuseAttempt(t) ==
    /\ WorkerTurn(t, "preparing")
    /\ Write(Released(t)) /\ TurnBecomes(t, "refused")
    /\ faults < MaxFault /\ faults' = faults + 1
    /\ UNCHANGED <<thread, lost, mode, effects, shown>>

(***************************************************************************)
(* Archive.                                                                *)
(***************************************************************************)

Selected == {r \in Request : ArchiveSelects(r, row[r])}

BeginArchive(c) ==
    /\ Free(c) /\ thread = "active"
    /\ \A r \in Request : ~Unfinished(row[r])
    /\ Selected # {} => ~Busy
    /\ Become(c, IF Selected = {} THEN Doing("archive", "none", {}) ELSE Doing("archive-closeout", "none", Raised))
    /\ UNCHANGED <<row, turn, thread, lost, mode, faults, effects, shown>>

\* assertControlPendingArchive repeats the checks inside the commit.
\* Mutant: it trusts the earlier ones.
CanArchiveUnchecked == TRUE
CanArchive == (\A r \in Request : ~Unfinished(row[r])) /\ Selected = {}
Archive(c) ==
    /\ At(c, "archive")
    /\ thread' = IF CanArchive THEN "archived" ELSE thread
    /\ Stop(c)
    /\ UNCHANGED <<row, turn, lost, mode, faults, effects, shown>>

ArchiveCloseout(c) ==
    /\ At(c, "archive-closeout")
    /\ IF ~Busy
       THEN WriteBy(c, ClosedOut(Raised), Idle) /\ thread' = "archived"
       ELSE UNCHANGED <<row, thread>> /\ Stop(c)
    /\ UNCHANGED <<turn, lost, mode, faults, effects, shown>>

(***************************************************************************)
(* Faults and boot.                                                        *)
(***************************************************************************)

LoseAuthority(e) ==
    /\ mode = "up" /\ e \notin lost /\ faults < MaxFault
    /\ lost' = lost \union {e} /\ faults' = faults + 1
    /\ UNCHANGED <<row, turn, thread, job, mode, effects, shown>>

Crash ==
    /\ mode # "down" /\ faults < MaxFault
    /\ mode' = "down" /\ faults' = faults + 1
    /\ job' = [j \in Job |-> Idle]
    /\ UNCHANGED <<row, turn, thread, lost, effects, shown>>

\* settleUnfinishedClaims; a delivery of a Turn that left pending is unknown, a person's is
\* completed on its Turn.
\* Mutants: an unfinished claim stays claimed; it may be claimed again.
SettledNever(x) == x
SettledAnew(x) == IF Unfinished(x) THEN [x EXCEPT !.claim = "unclaimed"] ELSE x
Settled(x) == IF Unfinished(x) THEN [x EXCEPT !.claim = "finished", !.disposition = "failed"] ELSE x
RecoveredDelivery(x) ==
    IF x.delivery # "frozen" THEN x
    ELSE IF turn[x.by].executor = "person" THEN [x EXCEPT !.delivery = "delivered", !.by = NoTurn]
    ELSE IF turn[x.by].status \in {"pending", "releasing"} THEN x
    ELSE [x EXCEPT !.delivery = "unknown", !.by = NoTurn]
\* The scheduler's recovery ran before: an attempt without operation is closed and its Turn
\* fails, with no hooks installed that would release its outcomes.  One with an operation is
\* kept, its Turn runs until that attempt is recovered.
RecoveredTurn(t) ==
    LET x == turn[t] IN
    IF x.status = "preparing" \/ (x.executor = "person" /\ x.status = "pending") THEN [x EXCEPT !.status = "done"]
    ELSE IF x.status = "recorded" THEN [x EXCEPT !.status = "stranded"]
    ELSE IF x.status = "submitted" THEN [x EXCEPT !.status = "settled"]
    ELSE IF x.status = "releasing" /\ FrozenBy(t) # {} THEN [x EXCEPT !.status = "pending"]
    ELSE x

Boot ==
    /\ mode = "down"
    /\ mode' = "boot"
    /\ row' = [r \in Request |-> RecoveredDelivery(Settled(row[r]))]
    /\ turn' = [t \in Turn |-> RecoveredTurn(t)]
    /\ Become(0, IF thread = "active" THEN Doing("wake", "none", {}) ELSE Idle)
    /\ UNCHANGED <<thread, lost, faults, effects, shown>>

Listen ==
    /\ mode = "boot" /\ \A j \in Job : At(j, "idle")
    /\ mode' = "up"
    /\ UNCHANGED <<row, turn, thread, lost, job, faults, effects, shown>>

(***************************************************************************)
(* Specification.                                                          *)
(***************************************************************************)

JobStep(j) == ~At(j, "idle") /\
    \/ Decide(j) \/ Prepare(j) \/ Reserve(j) \/ ClaimCommand(j) \/ RefuseCommand(j)
    \/ Submit(j) \/ FinishExecution(j)
    \/ Wake(j) \/ Barrier(j) \/ CloseoutUnavailable(j) \/ Associate(j) \/ CreateTurn(j) \/ RecordOutcome(j)
    \/ Archive(j) \/ ArchiveCloseout(j)
    \/ j \in Turn /\ FailRefused(j)
Begin(c) ==
    \/ \E r \in Request : Consume(c, r) \/ \E d \in Decision : Respond(c, r, d)
    \/ StartTurn(c) \/ BeginArchive(c)
TurnStep(t) ==
    \/ DispatchTurn(t) \/ RecordSubmission(t) \/ SubmitTurn(t) \/ AcceptTurn(t)
    \/ DeliveryUnknown(t) \/ TurnEnds(t)
Refusal(t) == RequeueTurn(t) \/ RefuseStart(t) \/ RefuseAttempt(t)
Fault == Crash \/ \E e \in {"worker", "person"} : LoseAuthority(e)

Next ==
    \/ \E j \in Job : JobStep(j)
    \/ \E c \in Caller : Begin(c)
    \/ \E t \in Turn : TurnStep(t) \/ Refusal(t)
    \/ \E r \in Request : Raise(r)
    \/ Boot \/ Listen \/ Fault

\* Every job is driven by its own promise and a crashed Core is started again.  Nobody has to
\* raise or respond, and a Turn may run, or wait for its recovery, for ever.
Fairness ==
    /\ \A j \in Job : WF_vars(JobStep(j))
    /\ WF_vars(Boot \/ Listen)

Spec == Init /\ [][Next]_vars /\ Fairness

(***************************************************************************)
(* Properties.                                                             *)
(***************************************************************************)

\* Records, Turns and jobs are well typed.
PendingTypeOK ==
    /\ row \in [Request -> Row]
    /\ turn \in [Turn -> TurnRecord]
    /\ thread \in {"active", "archived"}
    /\ lost \subseteq {"worker", "person"}
    /\ job \in [Job -> [pc : JobPC, op : JobOp, reads : SUBSET Request]]
    /\ mode \in {"up", "boot", "down"}
    /\ faults \in 0..MaxFault

\* Whatever responses, consumers, archives, losses of authority and faults do, a request is
\* executed at most once, only when granted and claimed, and its disposition does not lie:
\* what is recorded as not executed was not, what is recorded as executed was (claim, finish,
\* settle-unfinished, closeout).
ExecutedOnce ==
    \A r \in Request :
        /\ effects[r] <= 1
        /\ effects[r] = 1 => /\ row[r].resolution = "granted"
                             /\ row[r].claim # "unclaimed" /\ row[r].disposition # "not-executed"
        /\ row[r].disposition = "executed" => effects[r] = 1

\* An outcome reaches a Worker at most once although its delivery may be refused, uncertain or
\* cut by a crash at any point: one that was submitted is never offered again or closed out, and
\* only one that was submitted counts as delivered.  One whose delivery is unknown may have
\* been submitted or not (freeze, delivery-release, delivery-prove, delivery-unknown).
DeliveredOnce ==
    \A r \in Request \ Command :
        /\ shown[r] <= 1
        /\ shown[r] = 1 => row[r].delivery \in {"frozen", "delivered", "unknown"}
        /\ row[r].delivery = "delivered" => shown[r] = 1

\* An archived Thread leaves nothing behind: no open request, no running execution, no outcome
\* that nobody was told, no grant that could still be consumed, whatever was decided or
\* claimed between the archive's checks and its commit (archiveThreadWithCloseout).
ArchivedIsSettled ==
    thread = "archived" =>
        \A r \in Request : /\ row[r].state # "pending" /\ ~Unfinished(row[r])
                            /\ ~Ready(r) /\ ~NeedsInvalidation(r, row[r])

\* One response wins and what was published stays where it was published: a decided or ended
\* request is never decided again, a disposition, a publication Turn and a proved, unknown or
\* closed-out delivery never change, and a claim is never given back.
DecisionsAreFinal ==
    [][\A r \in Request :
        /\ row[r].state \in {"resolved", "ended"} =>
            row'[r].state = row[r].state /\ row'[r].resolution = row[r].resolution
        /\ row[r].claim # "unclaimed" => row'[r].claim # "unclaimed"
        /\ row[r].disposition # "none" => row'[r].disposition = row[r].disposition
        /\ row[r].pub # NoTurn => row'[r].pub = row[r].pub
        /\ row[r].delivery \in {"delivered", "unknown", "closed-out"} => row'[r].delivery = row[r].delivery]_vars

\* A claimed call gets its disposition, from its command or from the next boot: no other
\* command can change the claimed row and make the finish fail.
ClaimedCallsEnd == \A r \in Call : Unfinished(row[r]) ~> ~Unfinished(row[r])

\* A decided outcome that is on no Turn, at a Thread with nothing running.
Waiting(r) == Ready(r) /\ row[r].pub = NoTurn /\ ~Busy
TurnsExhausted == turn[MaxTurn].status # "absent"
Refused == \E t \in Turn : turn[t].status \in {"releasing", "refused"}
Overtook == Raised \intersect Command # {} \/ \E t \in Turn : turn[t].status = "disputed"

\* No decided outcome stays at an idle Thread: the response, the barrier of the Turn that
\* ran meanwhile or the next boot admits it on a Turn, or the archive closes it, although
\* responses, barriers and starts of Turns make each other's commands stale and a crash may cut
\* any of them (admitIfIdle, onTerminal).  Not promised after what makes a posted
\* admission stale, or ends a Turn, and does not admit anew: a closeout after a loss of authority,
\* a refused Turn (no barrier), a request raised at the idle Thread, a delivery called unknown
\* when its Turn was over.
OutcomesAreAdmitted ==
    (\E r \in Request : Waiting(r)) ~>
        (\A r \in Request : ~Waiting(r)) \/ TurnsExhausted \/ lost # {} \/ Refused \/ Overtook
====
