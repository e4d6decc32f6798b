---------------------------- MODULE TurnJournal ----------------------------
(***************************************************************************)
(* The execution journal of one Worker Turn, kept in its Workspace, and    *)
(* everybody who writes it: the executor that admits it, materializes and  *)
(* releases; the effects it (or Stop, or recovery) sends to the host, each *)
(* with a caller that may give up and a receiver that records the result;  *)
(* the publishers of the Turn's outcome; and native recovery.  All of them *)
(* read the root, await, and then settle against the revision they read.   *)
(*                                                                         *)
(* A call is one fixed effect, made in line by the Turn's owner (executor  *)
(* or recovery), which waits for it.  Stop's Harness interrupt runs beside *)
(* it.  The host's fence is taken from how Core asks for it, and an        *)
(* unacknowledged result is delivered again.  Left out: the parent and     *)
(* receipt steps of the interrupt, the owner's own collection steps, which *)
(* are settled like materialization, and the release of an attempt that is *)
(* closed already, which no caller reaches.                                *)
(***************************************************************************)
EXTENDS ExecutionJournal, FiniteSets

CONSTANTS
    Call,       \* host effects of the Turn (positive numbers)
    MaxCrash    \* crashes of Core

ASSUME TurnJournalAssumption ==
    /\ Call \subseteq Nat \ {0}
    /\ IsFiniteSet(Call)
    /\ MaxCrash \in Nat

Materialize == <<"materialize", 0>>
Terminal == <<"terminal-publication", 0>>
Release == <<"release", 0>>
Effect(i) == <<"effect", i>>
Consume(i) == <<"consume", i>>
Interrupt == <<"interrupt", 0>>
Link(s) == <<"link", s>>   \* the release's inspection of an unknown s

Step == LET decided == {Materialize, Interrupt} \cup {Effect(i) : i \in Call}
        IN  decided \cup {Terminal, Release} \cup {Consume(i) : i \in Call} \cup {Link(s) : s \in decided}

Output == {"result", "fence"}
Held == {"attempt", "binding"}

VARIABLES
    journal,    \* the root with its steps
    attempt,    \* the scheduler's attempt, with how it was closed
    host,       \* host[i]: what the host does with call i
    call,       \* call[i]: the caller of effect i
    receipt,    \* receipt[i]: the receiver of its result
    interrupt,  \* the interrupt of a Stop
    executor,   \* the executor of the Turn
    publisher,  \* what the owner that is publishing the Turn's outcome has read
    crashes

vars == <<journal, attempt, host, call, receipt, interrupt, executor, publisher, crashes>>

\* "refused": closed without effects by the executor; "restart": by restart recovery.
AttemptState == {"open", "closing", "fenced", "refused", "restart"}
HostEffect == {"none", "running", "done", "failed"}

\* What a writer read of the root before it awaited.
Reading == [revision : Nat, phase : RootPhase, exclusion : SUBSET Held]
Unread == [revision |-> 0, phase |-> "absent", exclusion |-> {}]
Read == [revision |-> journal.revision, phase |-> journal.phase, exclusion |-> journal.exclusion]

CallRow == [pc : {"idle", "planned", "begun", "waiting", "ending", "done"}, kind : Kind,
            state : {"none", "failed", "unknown"}, read : Reading]
ReceiptRow == [pc : {"idle", "settle", "link", "consume", "ending", "acked"},
               seen : BOOLEAN, read : Reading]
InterruptRow == [pc : {"idle", "begun", "ending", "done"}, state : Ended \cup {"none"}, read : Reading]
ExecutorRow == [pc : {"idle", "materializing", "materialized", "running", "release", "linking",
                      "linked", "linkEnding", "releasing"},
                state : {"none", "completed", "unknown"}, todo : SUBSET Step, close : BOOLEAN,
                read : Reading]

IdleCall == [pc |-> "idle", kind |-> "work", state |-> "none", read |-> Unread]
IdleReceipt == [pc |-> "idle", seen |-> FALSE, read |-> Unread]
IdleInterrupt == [pc |-> "idle", state |-> "none", read |-> Unread]
IdleExecutor == [pc |-> "idle", state |-> "none", todo |-> {}, close |-> FALSE, read |-> Unread]

Init ==
    /\ journal = AbsentRoot("workspace", Step)
    /\ attempt = "open"
    /\ host = [i \in Call |-> "none"]
    /\ call = [i \in Call |-> IdleCall]
    /\ receipt = [i \in Call |-> IdleReceipt]
    /\ interrupt = IdleInterrupt
    /\ executor = IdleExecutor
    /\ publisher = Unread
    /\ crashes = 0

AttemptLive == attempt \in {"open", "closing"}

\* The owner waits for a call it made.
OwnerWaits == \E i \in Call : call[i].pc \notin {"idle", "done"}

\* A step ends; the root keeps the phase and the exclusion that were read.
Ending(s, read, state, outputs) ==
    Settlement(s, read.revision, state, outputs, read.phase, read.exclusion)

-----------------------------------------------------------------------------
(* The executor *)

\* One transaction with the Turn's start: the three obligations it will owe.
Admit ==
    /\ executor.pc = "idle"
    /\ attempt = "open"
    /\ journal.phase = "absent"
    /\ crashes = 0
    /\ journal' = Intend(Intend(Intend(OpenRoot(journal, Held),
                     Materialize, "work", NoStep), Terminal, "work", NoStep), Release, "release", NoStep)
    /\ executor' = [executor EXCEPT !.pc = "materializing"]
    /\ UNCHANGED <<attempt, host, call, receipt, interrupt, publisher, crashes>>

\* The backend returned or threw: read the root, then settle.
MaterializeRead(state) ==
    /\ executor.pc = "materializing"
    /\ ~OwnerWaits
    /\ executor' = [executor EXCEPT !.pc = "materialized", !.state = state, !.read = Read]
    /\ UNCHANGED <<journal, attempt, host, call, receipt, interrupt, publisher, crashes>>

\* A refused settlement throws; the obligation stays an intent.
MaterializeSettle ==
    /\ executor.pc = "materialized"
    /\ LET z == Ending(Materialize, executor.read, executor.state,
                       IF executor.state = "completed" THEN "result" ELSE NoOutput)
       IN  journal' = IF CanSettle(journal, z) THEN Settle(journal, z) ELSE journal
    /\ executor' = [IdleExecutor EXCEPT !.pc = "running"]
    /\ UNCHANGED <<attempt, host, call, receipt, interrupt, publisher, crashes>>

\* It gives up without releasing; native recovery takes over.
ExecutorEnds ==
    /\ executor.pc = "running"
    /\ ~OwnerWaits
    /\ executor' = IdleExecutor
    /\ UNCHANGED <<journal, attempt, host, call, receipt, interrupt, publisher, crashes>>

\* The definite no-effect closure by the executor keeps the obligations.
RefuseAttempt ==
    /\ executor.pc = "running"
    /\ ~OwnerWaits
    /\ AttemptLive
    /\ \A i \in Call : call[i].pc = "idle"
    /\ attempt' = "refused"
    /\ executor' = IdleExecutor
    /\ UNCHANGED <<journal, host, call, receipt, interrupt, publisher, crashes>>

\* External: the backend proves that nothing it was given still runs.
NothingRuns == \A i \in Call : host[i] # "running"

\* Close the attempt with the fence, then end the journal's release.
ReleaseTerminalAttempt ==
    /\ executor.pc = "running"
    /\ ~OwnerWaits
    /\ AttemptLive
    /\ journal.step[Terminal].state = "completed"
    /\ NothingRuns
    /\ attempt' = "fenced"
    /\ executor' = [executor EXCEPT !.pc = "release"]
    /\ UNCHANGED <<journal, host, call, receipt, interrupt, publisher, crashes>>

\* The unknown steps of this reading are linked to the fence, one by one.
ReleaseRead ==
    /\ executor.pc = "release"
    /\ journal.step[Release].state = "intent"
    /\ executor' = [executor EXCEPT !.pc = "linking", !.todo = StepsIn(journal, "unknown")]
    /\ UNCHANGED <<journal, attempt, host, call, receipt, interrupt, publisher, crashes>>

Oldest == CHOOSE s \in executor.todo : TRUE

LinkBegin ==
    /\ executor.pc = "linking"
    /\ executor.todo # {}
    /\ CanIntend(journal, Link(Oldest), "inspect-cleanup", Oldest)
    /\ journal' = Intend(journal, Link(Oldest), "inspect-cleanup", Oldest)
    /\ executor' = [executor EXCEPT !.pc = "linked"]
    /\ UNCHANGED <<attempt, host, call, receipt, interrupt, publisher, crashes>>

LinkRead ==
    /\ executor.pc = "linked"
    /\ executor' = [executor EXCEPT !.pc = "linkEnding", !.read = Read]
    /\ UNCHANGED <<journal, attempt, host, call, receipt, interrupt, publisher, crashes>>

LinkSettle ==
    /\ executor.pc = "linkEnding"
    /\ LET z == Ending(Link(Oldest), executor.read, "completed", "fence")
       IN  IF CanSettle(journal, z)
           THEN /\ journal' = Settle(journal, z)
                /\ executor' = [executor EXCEPT !.pc = "linking", !.todo = @ \ {Oldest}, !.read = Unread]
           ELSE /\ executor' = IdleExecutor
                /\ UNCHANGED journal
    /\ UNCHANGED <<attempt, host, call, receipt, interrupt, publisher, crashes>>

\* Close only if nothing but the release is open in the reading.
LastRead ==
    /\ executor.pc = "linking"
    /\ executor.todo = {}
    /\ executor' = [executor EXCEPT !.pc = "releasing", !.read = Read,
                                    !.close = StepsIn(journal, "intent") = {Release}]
    /\ UNCHANGED <<journal, attempt, host, call, receipt, interrupt, publisher, crashes>>

\* Mutant: the fence is taken to end the exclusion in any case.
ReleaseDropping ==
    Settlement(Release, executor.read.revision, "completed", "fence",
               IF executor.close THEN "closed" ELSE "closing", {})

ReleaseSettlement ==
    Settlement(Release, executor.read.revision, "completed", "fence",
               IF executor.close THEN "closed" ELSE "closing",
               IF executor.close THEN {} ELSE executor.read.exclusion)

ReleaseSettle ==
    /\ executor.pc = "releasing"
    /\ journal' = IF CanSettle(journal, ReleaseSettlement)
                  THEN Settle(journal, ReleaseSettlement) ELSE journal
    /\ executor' = IdleExecutor
    /\ UNCHANGED <<attempt, host, call, receipt, interrupt, publisher, crashes>>

ExecutorStep ==
    \/ Admit
    \/ \E state \in {"completed", "unknown"} : MaterializeRead(state)
    \/ MaterializeSettle \/ ExecutorEnds \/ RefuseAttempt \/ ReleaseTerminalAttempt
    \/ ReleaseRead \/ LinkBegin \/ LinkRead \/ LinkSettle \/ LastRead \/ ReleaseSettle

-----------------------------------------------------------------------------
(* Effects: the caller *)

\* The kind is chosen from the attempt as it is before anything is awaited;
\* the owner may also send cleanup while the attempt is open.
Plan(i, kind) ==
    /\ call[i].pc = "idle"
    /\ journal.phase # "absent"
    /\ AttemptLive
    /\ executor.pc \in {"idle", "materializing", "running"}
    /\ ~OwnerWaits
    /\ attempt # "open" => kind = "inspect-cleanup"
    /\ call' = [call EXCEPT ![i] = [@ EXCEPT !.pc = "planned", !.kind = kind]]
    /\ UNCHANGED <<journal, attempt, host, receipt, interrupt, executor, publisher, crashes>>

Begin(i) ==
    /\ call[i].pc = "planned"
    /\ IF CanIntend(journal, Effect(i), call[i].kind, NoStep)
       THEN /\ journal' = Intend(journal, Effect(i), call[i].kind, NoStep)
            /\ call' = [call EXCEPT ![i] = [@ EXCEPT !.pc = "begun"]]
       ELSE /\ call' = [call EXCEPT ![i] = [@ EXCEPT !.pc = "done"]]
            /\ UNCHANGED journal
    /\ UNCHANGED <<attempt, host, receipt, interrupt, executor, publisher, crashes>>

\* The last check before contact: still an intent, and work needs an open attempt.
Deliver(i) ==
    /\ call[i].pc = "begun"
    /\ journal.step[Effect(i)].state = "intent"
    /\ call[i].kind = "work" => attempt = "open"
    /\ host' = [host EXCEPT ![i] = "running"]
    /\ call' = [call EXCEPT ![i] = [@ EXCEPT !.pc = "waiting"]]
    /\ UNCHANGED <<journal, attempt, receipt, interrupt, executor, publisher, crashes>>

\* The host finishes, one way or the other.
HostEnds(i, end) ==
    /\ host[i] = "running"
    /\ host' = [host EXCEPT ![i] = end]
    /\ UNCHANGED <<journal, attempt, call, receipt, interrupt, executor, publisher, crashes>>

\* Mutant: every failure of the call is recorded as the effect's failure.
GiveUpOutcomeFailed(i) == {"failed"}

\* Only the dispatcher's refusal to enqueue proves that nothing was sent.
GiveUpOutcome(i) == IF call[i].pc = "begun" THEN {"failed", "unknown"} ELSE {"unknown"}

\* Deadline, abort, refusal or lost connection; a received result wins.
GiveUp(i) ==
    /\ call[i].pc \in {"begun", "waiting"}
    /\ IF receipt[i].seen \/ journal.step[Effect(i)].state # "intent"
       THEN call' = [call EXCEPT ![i] = [@ EXCEPT !.pc = "done"]]
       ELSE \E state \in GiveUpOutcome(i) :
               call' = [call EXCEPT ![i] = [@ EXCEPT !.pc = "ending", !.state = state, !.read = Read]]
    /\ UNCHANGED <<journal, attempt, host, receipt, interrupt, executor, publisher, crashes>>

EndCall(i) ==
    /\ call[i].pc = "ending"
    /\ LET z == Ending(Effect(i), call[i].read, call[i].state, NoOutput)
       IN  journal' = IF CanSettle(journal, z) THEN Settle(journal, z) ELSE journal
    /\ call' = [call EXCEPT ![i] = [IdleCall EXCEPT !.pc = "done"]]
    /\ UNCHANGED <<attempt, host, receipt, interrupt, executor, publisher, crashes>>

-----------------------------------------------------------------------------
(* Effects: the receiver, run before the host's result is acknowledged *)

\* Mutant: the host's word is recorded as it comes.
ResultOfUnmapped(i) == host[i]

ResultOf(i) == IF host[i] = "failed" THEN "failed" ELSE "completed"

\* A result of a call this process still correlates.
Receive(i) ==
    /\ call[i].pc \in {"waiting", "ending", "done"}
    /\ host[i] \in {"done", "failed"}
    /\ receipt[i].pc = "idle"
    /\ LET prior == journal.step[Effect(i)]
       IN  \/ /\ prior.state = "intent"
              /\ receipt' = [receipt EXCEPT ![i] = [pc |-> "settle", seen |-> TRUE, read |-> Read]]
           \/ /\ prior.state = "unknown" /\ prior.outputs = NoOutput
              /\ receipt' = [receipt EXCEPT ![i] = [pc |-> "link", seen |-> TRUE, read |-> Unread]]
           \/ /\ prior.state = ResultOf(i) /\ prior.outputs = "result"
              /\ receipt' = [receipt EXCEPT ![i] = [pc |-> "consume", seen |-> TRUE, read |-> Unread]]
    /\ UNCHANGED <<journal, attempt, host, call, interrupt, executor, publisher, crashes>>

\* Mutant: the result is acknowledged although it was not recorded.
ReceiptFailsAcked(i) == receipt' = [receipt EXCEPT ![i] = [IdleReceipt EXCEPT !.pc = "acked", !.seen = TRUE]]

\* A failure of the receiver forgets the attempt; redelivery tries again.
ReceiptFails(i) == receipt' = [receipt EXCEPT ![i] = [IdleReceipt EXCEPT !.seen = TRUE]]

\* The outcome and the intent to consume it commit together.
SettleResult(i) ==
    /\ receipt[i].pc = "settle"
    /\ LET z == Ending(Effect(i), receipt[i].read, ResultOf(i), "result")
       IN  IF CanSettle(journal, z) /\ CanIntend(Settle(journal, z), Consume(i), "consume-receipt", Effect(i))
           THEN /\ journal' = Intend(Settle(journal, z), Consume(i), "consume-receipt", Effect(i))
                /\ receipt' = [receipt EXCEPT ![i] = [@ EXCEPT !.pc = "consume", !.read = Unread]]
           ELSE ReceiptFails(i) /\ UNCHANGED journal
    /\ UNCHANGED <<attempt, host, call, interrupt, executor, publisher, crashes>>

\* The outcome stays unknown; the late result is linked to it.
LinkResult(i) ==
    /\ receipt[i].pc = "link"
    /\ \/ /\ CanIntend(journal, Consume(i), "consume-receipt", Effect(i))
          /\ journal' = Intend(journal, Consume(i), "consume-receipt", Effect(i))
          /\ receipt' = [receipt EXCEPT ![i] = [@ EXCEPT !.pc = "consume"]]
       \/ /\ journal.step[Consume(i)].state # "none"
          /\ receipt' = [receipt EXCEPT ![i] = [@ EXCEPT !.pc = "consume"]]
          /\ UNCHANGED journal
       \/ /\ journal.phase = "closed" /\ journal.step[Consume(i)].state = "none"
          /\ ReceiptFails(i)
          /\ UNCHANGED journal
    /\ UNCHANGED <<attempt, host, call, interrupt, executor, publisher, crashes>>

ConsumeRead(i) ==
    /\ receipt[i].pc = "consume"
    /\ receipt' = [receipt EXCEPT ![i] = IF journal.step[Consume(i)].state = "intent"
          THEN [@ EXCEPT !.pc = "ending", !.read = Read] ELSE [@ EXCEPT !.pc = "acked"]]
    /\ UNCHANGED <<journal, attempt, host, call, interrupt, executor, publisher, crashes>>

EndConsume(i) ==
    /\ receipt[i].pc = "ending"
    /\ LET z == Ending(Consume(i), receipt[i].read, "completed", "result")
       IN  IF CanSettle(journal, z)
           THEN /\ journal' = Settle(journal, z)
                /\ receipt' = [receipt EXCEPT ![i] = [@ EXCEPT !.pc = "acked", !.read = Unread]]
           ELSE ReceiptFails(i) /\ UNCHANGED journal
    /\ UNCHANGED <<attempt, host, call, interrupt, executor, publisher, crashes>>

CallerStep(i) == (\E kind \in {"work", "inspect-cleanup"} : Plan(i, kind)) \/ Begin(i) \/ Deliver(i) \/ GiveUp(i) \/ EndCall(i)
ReceiverStep(i) == Receive(i) \/ SettleResult(i) \/ LinkResult(i) \/ ConsumeRead(i) \/ EndConsume(i)

-----------------------------------------------------------------------------
(* The other owners *)

\* Stop, revocation, deadline or failure: the attempt is marked closing.
MarkClosing ==
    /\ attempt = "open"
    /\ attempt' = "closing"
    /\ UNCHANGED <<journal, host, call, receipt, interrupt, executor, publisher, crashes>>

\* Stop interrupts a running Worker through the Harness, beside the executor.
InterruptBegin ==
    /\ interrupt.pc = "idle"
    /\ attempt = "closing"
    /\ executor.pc = "running"
    /\ CanIntend(journal, Interrupt, "work", NoStep)
    /\ journal' = Intend(journal, Interrupt, "work", NoStep)
    /\ interrupt' = [interrupt EXCEPT !.pc = "begun"]
    /\ UNCHANGED <<attempt, host, call, receipt, executor, publisher, crashes>>

InterruptRead(state) ==
    /\ interrupt.pc = "begun"
    /\ interrupt' = [pc |-> "ending", state |-> state, read |-> Read]
    /\ UNCHANGED <<journal, attempt, host, call, receipt, executor, publisher, crashes>>

InterruptSettle ==
    /\ interrupt.pc = "ending"
    /\ LET z == Ending(Interrupt, interrupt.read, interrupt.state, NoOutput)
       IN  journal' = IF CanSettle(journal, z) THEN Settle(journal, z) ELSE journal
    /\ interrupt' = [IdleInterrupt EXCEPT !.pc = "done"]
    /\ UNCHANGED <<attempt, host, call, receipt, executor, publisher, crashes>>

\* A terminal outcome of the Turn is prepared against a reading of the root,
PublishRead ==
    /\ publisher = Unread
    /\ journal.step[Terminal].state = "intent"
    /\ publisher' = Read
    /\ UNCHANGED <<journal, attempt, host, call, receipt, interrupt, executor, crashes>>

\* and commits with the settlement of its obligation, while release is owed.
PublishCommit ==
    /\ publisher # Unread
    /\ LET z == Settlement(Terminal, publisher.revision, "completed", "result", "closing", journal.exclusion)
       IN  journal' = IF journal.step[Release].state = "intent" /\ CanSettle(journal, z)
                      THEN Settle(journal, z) ELSE journal
    /\ publisher' = Unread
    /\ UNCHANGED <<attempt, host, call, receipt, interrupt, executor, crashes>>

\* Native recovery closes the attempt of an inactive Turn with the fence, and
\* does nothing about the journal.
NativeFence ==
    /\ executor.pc = "idle"
    /\ ~OwnerWaits
    /\ AttemptLive
    /\ journal.step[Terminal].state = "completed"
    /\ NothingRuns
    /\ attempt' = "fenced"
    /\ UNCHANGED <<journal, host, call, receipt, interrupt, executor, publisher, crashes>>

\* Everything local to the process is lost; the host and the records are not.
Crash ==
    /\ crashes < MaxCrash
    /\ crashes' = crashes + 1
    /\ call' = [i \in Call |-> IF call[i].pc = "idle" THEN IdleCall ELSE [IdleCall EXCEPT !.pc = "done"]]
    /\ receipt' = [i \in Call |-> IF call[i].pc = "idle" THEN IdleReceipt
                                  ELSE [IdleReceipt EXCEPT !.pc = "acked", !.seen = TRUE]]
    /\ interrupt' = [IdleInterrupt EXCEPT !.pc = "done"]
    /\ executor' = IdleExecutor
    /\ publisher' = Unread
    /\ UNCHANGED <<journal, attempt, host>>

\* An accepted final status is closed out by a restored executor.
Resume ==
    /\ crashes > 0
    /\ executor.pc = "idle"
    /\ journal.phase # "absent"
    /\ AttemptLive
    /\ \E i \in Call : host[i] # "none"
    /\ executor' = [executor EXCEPT !.pc = "running"]
    /\ UNCHANGED <<journal, attempt, host, call, receipt, interrupt, publisher, crashes>>

\* Restart: nothing was recorded before the crash, so nothing was sent.
RestartClose ==
    /\ crashes > 0
    /\ executor.pc = "idle"
    /\ AttemptLive
    /\ \A i \in Call : journal.step[Effect(i)].state = "none" /\ call[i].pc = "idle"
    /\ attempt' = "restart"
    /\ UNCHANGED <<journal, host, call, receipt, interrupt, executor, publisher, crashes>>

\* The proved absence of any allocation cancels the two other obligations;
\* the release, last, closes the root.
CancelObligation(s) ==
    /\ attempt = "restart"
    /\ journal.phase = "closing"
    /\ {x \in Step : journal.step[x].state # "none"} = {Materialize, Terminal, Release}
    /\ journal.step[Terminal].state = "completed"
    /\ s = Release => journal.step[Materialize].state = "cancelled"
    /\ LET z == Settlement(s, journal.revision, "cancelled", NoOutput,
                           IF s = Release THEN "closed" ELSE "closing",
                           IF s = Release THEN {} ELSE journal.exclusion)
       IN  CanSettle(journal, z) /\ journal' = Settle(journal, z)
    /\ UNCHANGED <<attempt, host, call, receipt, interrupt, executor, publisher, crashes>>

OtherStep ==
    \/ InterruptBegin \/ InterruptSettle \/ \E state \in {"completed", "failed", "unknown"} : InterruptRead(state)
    \/ MarkClosing \/ PublishRead \/ PublishCommit \/ NativeFence \/ Crash \/ Resume \/ RestartClose
    \/ \E s \in {Materialize, Release} : CancelObligation(s)

-----------------------------------------------------------------------------
Next ==
    \/ ExecutorStep
    \/ \E i \in Call : CallerStep(i) \/ ReceiverStep(i) \/ \E end \in {"done", "failed"} : HostEnds(i, end)
    \/ OtherStep

\* An unacknowledged result is redelivered until its receiver acknowledges it.
TurnJournalSpec == Init /\ [][Next]_vars /\ \A i \in Call : WF_vars(ReceiverStep(i))

-----------------------------------------------------------------------------
\* Types of the journal and of the state of its writers.
TurnJournalTypeOK ==
    /\ journal \in Root(Step, Output, Held)
    /\ attempt \in AttemptState
    /\ host \in [Call -> HostEffect]
    /\ call \in [Call -> CallRow]
    /\ receipt \in [Call -> ReceiptRow]
    /\ interrupt \in InterruptRow
    /\ executor \in ExecutorRow
    /\ publisher \in Reading
    /\ crashes \in 0..MaxCrash

\* The exclusion outlives the effects: while anything this Turn sent may run,
\* whoever settled what meanwhile, the root still excludes, and it stops doing
\* so only for an attempt that is fenced or proved to have sent nothing, and
\* with no step left undecided.
ExclusionHeld ==
    journal.phase # "absent" /\ journal.exclusion # Held =>
        NothingRuns /\ attempt \in {"fenced", "restart"} /\ StepsIn(journal, "intent") = {}

\* The journal never states what did not happen: completed means the host did
\* it, failed that it did not succeed, cancelled that it was never sent.
OutcomesAreTrue ==
    \A i \in Call :
        LET state == journal.step[Effect(i)].state
        IN  /\ state = "completed" => host[i] = "done"
            /\ state = "failed" => host[i] \in {"none", "failed"}
            /\ journal.step[Consume(i)].state # "none" => host[i] \in {"done", "failed"}

\* A closed root is proved: nothing is open or excluded, and every unknown
\* effect is linked to the fence of the release.
ClosedIsProved == Proved(journal)

\* Writers that settle against old readings never undo each other's work.
JournalAdvances == [][Advances(journal, journal')]_vars

\* A fixed effect's result that arrives while Core runs is recorded in the end, as the
\* outcome or linked to an unknown one, through any number of refused
\* settlements, unless the root was closed without it.
ResultsAreRecorded ==
    \A i \in Call :
        (host[i] \in {"done", "failed"} /\ crashes = 0) ~>
            (journal.step[Consume(i)].state = "completed" \/ journal.phase = "closed" \/ crashes > 0)
=============================================================================
