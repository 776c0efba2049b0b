---------------------------- MODULE JourneyEngine ----------------------------
(***************************************************************************)
(* The engine: the dispatcher's overlapping ticks and the use cases that   *)
(* write journeys, over the rows they share, with exceptions and crashes   *)
(* of the process.                                                         *)
(***************************************************************************)
EXTENDS JourneyDispatcher, JourneyRequests

vars == <<status, currentStepOrder, nextTouchAt, errorReason, touchAttempt,
          ownerUserId, lockedBy, now, faults,
          tickPc, tickNow, tickIds, tickJourney, tickStep, tickResult, tickAction,
          sends, activities, exitRuns, lostSends,
          replyPc, replyJourney, replyAction,
          controlPc, controlJourney, controlAction, controlAt, commands,
          bulkPc, bulkEvent, bulkTodo, bulkHeld, bulkAt, bulkUser,
          replyRuns, heard>>

ASSUME EngineAssumption == Ticks \cap Bulks = {}

\* Journeys as ingestion creates them: running when the lead's owner is known,
\* parked in error_state when it is not mapped or could not be looked up.
Init ==
    /\ ownerUserId \in [Leads -> Users \cup {NoUser}]
    /\ errorReason \in [Journeys -> {"none", "owner_not_mapped", "owner_lookup_failed"}]
    /\ \A j \in Journeys : (errorReason[j] = "none") <=> (ownerUserId[LeadOf[j]] # NoUser)
    /\ status = [j \in Journeys |->
                   IF errorReason[j] = "none" THEN "running" ELSE "error_state"]
    /\ nextTouchAt = [j \in Journeys |->
                   IF errorReason[j] = "none" THEN Delay[0] ELSE NoTouch]
    /\ currentStepOrder = [j \in Journeys |-> -1]
    /\ touchAttempt = [j \in Journeys |-> [s \in Steps |-> "none"]]
    /\ lockedBy = [j \in Journeys |-> Nobody]
    /\ now = 0
    /\ faults = 0
    /\ DispatcherInit
    /\ RequestsInit

\* The API process dies and restarts: what it held in memory is gone, the
\* transactions it had open are rolled back.
Crash ==
    /\ Fault
    /\ lostSends' = [j \in Journeys |-> [s \in Steps |->
          IF \E t \in Ticks : /\ tickJourney[t] = j
                              /\ tickStep[t] = s
                              /\ tickResult[t] = "sent"
            THEN lostSends[j][s] + 1
            ELSE lostSends[j][s]]]
    /\ lockedBy' = [j \in Journeys |-> Nobody]
    /\ tickPc' = [t \in Ticks |-> "idle"]
    /\ tickNow' = [t \in Ticks |-> 0]
    /\ tickIds' = [t \in Ticks |-> {}]
    /\ tickJourney' = [t \in Ticks |-> NoJourney]
    /\ tickStep' = [t \in Ticks |-> 0]
    /\ tickResult' = [t \in Ticks |-> "none"]
    /\ tickAction' = [t \in Ticks |-> 0]
    /\ replyPc' = [r \in Replies |-> "idle"]
    /\ replyJourney' = [r \in Replies |-> NoJourney]
    /\ replyAction' = [r \in Replies |-> 0]
    /\ controlPc' = [r \in Controls |-> "idle"]
    /\ controlJourney' = [r \in Controls |-> NoJourney]
    /\ controlAction' = [r \in Controls |-> "pause"]
    /\ controlAt' = [r \in Controls |-> 0]
    /\ bulkPc' = [b \in Bulks |-> "idle"]
    /\ bulkEvent' = [b \in Bulks |-> "pause"]
    /\ bulkTodo' = [b \in Bulks |-> {}]
    /\ bulkHeld' = [b \in Bulks |-> {}]
    /\ bulkAt' = [b \in Bulks |-> 0]
    /\ bulkUser' = [b \in Bulks |-> NoUser]
    /\ UNCHANGED <<journeyRow, touchAttempt, ownerUserId, now, worldVars, commands,
                   replyRuns, heard>>

Dispatch(t) == TickStep(t) /\ UNCHANGED requestVars
Reply(r) == ReplyStep(r) /\ UNCHANGED dispatcherVars
Control(r) == ControlStep(r) /\ UNCHANGED dispatcherVars
Bulk(b) == BulkStep(b) /\ UNCHANGED dispatcherVars
Backfill ==
    /\ \E L \in SUBSET Leads, u \in Users : BackfillOwner(L, u)
    /\ UNCHANGED dispatcherVars
Nothing(t) == TickNothing(t) /\ UNCHANGED requestVars
Time == ClockTick /\ UNCHANGED requestVars
Failure ==
    \/ \E t \in Ticks : TickThrows(t) /\ UNCHANGED requestVars
    \/ RequestThrows /\ UNCHANGED dispatcherVars
    \/ Crash

Next ==
    \/ \E t \in Ticks : Dispatch(t) \/ Nothing(t)
    \/ \E r \in Replies : Reply(r)
    \/ \E r \in Controls : Control(r)
    \/ \E b \in Bulks : Bulk(b)
    \/ Backfill
    \/ Time
    \/ Failure

Spec == Init /\ [][Next]_vars

\* The interval timer keeps firing and every promise a tick or a handler awaits
\* settles.  Nothing obliges messages, operators, faults or time to happen.
Fairness ==
    /\ \A t \in Ticks : WF_vars(Dispatch(t))
    /\ \A r \in Replies : WF_vars(Reply(r) /\ replyPc[r] # "idle")
    /\ \A r \in Controls : WF_vars(Control(r) /\ controlPc[r] # "idle")
    /\ \A b \in Bulks : WF_vars(Bulk(b) /\ bulkPc[b] # "idle")

FairSpec == Spec /\ Fairness

-----------------------------------------------------------------------------
(* Type invariant *)

\* Every variable stays within its type.
TypeOK ==
    /\ StoreTypeOK
    /\ lockedBy \in [Journeys -> Ticks \cup Bulks \cup {Nobody}]
    /\ DispatcherTypeOK
    /\ RequestsTypeOK

-----------------------------------------------------------------------------
(* Safety *)

AcceptedOpen(j, s) ==
    \E t \in Ticks : /\ tickJourney[t] = j
                     /\ tickStep[t] = s
                     /\ tickResult[t] = "sent"

\* What tick t relies on while its transaction is open: it holds the row's lock,
\* and what it read under the lock still holds of the row.
TickView(t) ==
    /\ tickNow[t] <= now
    /\ (tickPc[t] \in InTransaction) <=> (tickJourney[t] # NoJourney)
    /\ tickPc[t] \notin InTransaction => tickResult[t] = "none" /\ tickAction[t] = 0
    /\ tickJourney[t] # NoJourney =>
          /\ lockedBy[tickJourney[t]] = t
          /\ IsDue(tickJourney[t], tickNow[t])
    /\ tickPc[t] \in {"sending", "logging", "recording"} =>
          /\ tickStep[t] = currentStepOrder[tickJourney[t]] + 1
          /\ touchAttempt[tickJourney[t]][tickStep[t]] = "none"
          /\ tickResult[t] = "none" <=> tickPc[t] = "sending"
          /\ tickPc[t] = "recording" => activities[tickJourney[t]][tickStep[t]] >= 1
    /\ tickPc[t] = "actions" =>
          /\ currentStepOrder[tickJourney[t]] = StepCount - 1
          /\ tickResult[t] = "none"
          /\ \A a \in 1 .. tickAction[t] : exitRuns[tickJourney[t]][a] >= 1

\* A bulk update holds the locks of the rows it has reached.
BulkView == \A b \in Bulks : \A j \in bulkHeld[b] : lockedBy[j] = b

\* A handler at work has its journey in hand.
HandlerView ==
    /\ \A r \in Replies : replyPc[r] # "idle" => replyJourney[r] # NoJourney
    /\ \A r \in Controls : controlPc[r] # "idle" => controlJourney[r] # NoJourney

\* Whatever the others do meanwhile, an open transaction of the dispatcher is
\* the only one with its journey and acts on what the row still says; bulk
\* updates keep their locks and handlers their journeys.
OpenTransactions ==
    /\ \A t \in Ticks : TickView(t)
    /\ BulkView
    /\ HandlerView

\* Every touch a channel accepted is accounted for exactly once: by the
\* attempt recorded as sent, by the transaction still holding the row lock, or
\* by a transaction that was rolled back after the send.  So a step is sent
\* again only after such a rollback, however ticks overlap.
EverySendAccounted ==
    \A j \in Journeys, s \in Steps :
        sends[j][s] = lostSends[j][s]
                      + (IF touchAttempt[j][s] = "sent" THEN 1 ELSE 0)
                      + (IF AcceptedOpen(j, s) THEN 1 ELSE 0)

\* The attempts of a journey are exactly the steps it has gone through: none
\* is skipped over, and beyond the current step there is at most the failed
\* attempt of the step that put the journey in error.
AttemptsMatchProgress ==
    \A j \in Journeys, s \in Steps :
        /\ s <= currentStepOrder[j] => touchAttempt[j][s] # "none"
        /\ s = currentStepOrder[j] + 1 => touchAttempt[j][s] \in {"none", "failed"}
        /\ s > currentStepOrder[j] + 1 => touchAttempt[j][s] = "none"

\* A touch recorded as sent has its activity in the CRM.
SentIsLogged ==
    \A j \in Journeys, s \in Steps :
        touchAttempt[j][s] = "sent" => activities[j][s] >= 1

\* A journey shown as exhausted has been through all its steps and has had
\* every onExhausted action run, crashes and retries notwithstanding.
ExhaustedAfterActions ==
    \A j \in Journeys : status[j] = "exhausted" =>
        /\ currentStepOrder[j] = StepCount - 1
        /\ \A a \in 1 .. ExitActions : exitRuns[j][a] >= 1

\* Exit actions run in the order the cadence lists them: a retry that repeats
\* some of them never lets a later one get ahead of an earlier one.
ExitActionsInOrder ==
    \A j \in Journeys, a \in 1 .. ExitActions - 1 :
        exitRuns[j][a + 1] <= exitRuns[j][a]

\* onReply runs at most once for a journey, even when the same message is
\* delivered to two handlers at once, until an operator's command may bring a
\* replied journey back.
OnReplyAtMostOnce ==
    commands = 0 => \A j \in Journeys, a \in 1 .. ReplyActions : replyRuns[j][a] <= 1

\* The slot of the step a running journey has before it is taken: every tick
\* that finds the journey due returns, and it stays due.
Stuck(j) ==
    /\ status[j] = "running"
    /\ ~IsExhausted(currentStepOrder[j], StepCount)
    /\ AttemptExists(j, NextStep(j))

\* Whatever is skipped, refused, rolled back or crashes, the engine never leaves
\* a running journey behind its own attempt: only an operator's command, written
\* over the error of that attempt, does.
StuckOnlyByCommand == \A j \in Journeys : Stuck(j) => commands > 0

\* An error reason is shown exactly on the journeys that are in error.
ReasonExplainsError ==
    \A j \in Journeys : (status[j] = "error_state") <=> (errorReason[j] # "none")

\* A touch leaves while the journey's committed row still says running, due
\* and one step behind: no pause, stop or reply slips in between the check
\* under the lock and the call to the channel.
TouchOnlyWhileRunning ==
    [][\A j \in Journeys, s \in Steps :
          sends'[j][s] > sends[j][s] =>
              /\ status[j] = "running"
              /\ nextTouchAt[j] # NoTouch /\ nextTouchAt[j] <= now
              /\ s = currentStepOrder[j] + 1]_vars

\* Once the message of a lead has been handled, the lead's journey is not
\* touched any more, until an operator's command may bring it back.
NoTouchAfterReply ==
    [][commands = 0 => \A j \in heard, s \in Steps : sends'[j][s] = sends[j][s]]_vars

\* The transition table has no event from replied, exhausted or stopped, so a
\* journey stays there.  ControlJourney checks the table against a status it
\* read without the lock, and writes without looking again.
TerminalIsFinal ==
    [][\A j \in Journeys :
          status[j] \in {"replied", "exhausted", "stopped"} => status'[j] = status[j]]_vars

-----------------------------------------------------------------------------
(* Refinement *)

Lifecycle == INSTANCE JourneyLifecycle WITH
    touched <- [j \in Journeys |-> {s \in Steps : sends[j][s] > 0}]

\* Seen through the statuses, the steps and the touches that left, every
\* behaviour of the engine is one the lifecycle allows.
ImplementsLifecycle == Lifecycle!Spec

-----------------------------------------------------------------------------
(* Liveness *)

\* The batch has no room for others than stuck journeys: findDueIds may return
\* the same ones for ever.
BatchFull == Cardinality({j \in Due(now) : Stuck(j)}) >= BatchSize

\* A running journey that is due is dealt with: it moves on to another step,
\* another time or another status.  Journeys whose slot is taken are the
\* exception, and enough of them shut out all others.
DueIsHandled ==
    \A j \in Journeys : []<>(~IsDue(j, now) \/ Stuck(j) \/ BatchFull)

\* A reply that found its journey does not wait for its row for ever, and when
\* it stops waiting the journey is not running, unless something failed.
ReplyTakesEffect ==
    /\ \A r \in Replies : []<>(replyPc[r] # "lock")
    /\ [][\A r \in Replies : replyPc[r] = "lock" /\ replyPc'[r] # "lock" =>
             status'[replyJourney[r]] # "running" \/ faults' > faults]_vars

=============================================================================
