--------------------------- MODULE JourneyDispatcher ---------------------------
(***************************************************************************)
(* The poller and the dispatcher.  Each tick of the poller reads a batch   *)
(* of due journeys without a lock and then runs one transaction per        *)
(* journey: lock the row, decide what the journey's next step calls for,   *)
(* and either commit at once (stale, deferred, skipped, errored) or keep   *)
(* the lock across the external calls (channel send, CRM activity, exit    *)
(* actions) and commit afterwards.  The interval timer does not wait for   *)
(* the previous tick, so ticks overlap.  An exception anywhere in a        *)
(* transaction rolls it back and the tick goes on with the next journey.   *)
(***************************************************************************)
EXTENDS JourneyStore

CONSTANTS
    Ticks,           \* ticks that may be under way at the same time
    BatchSize,       \* BATCH_SIZE of findDueIds
    Delay,           \* delayMinutes of each step
    JitterMinutes,   \* jitterMinutes, the same for every step
    DayLength,       \* period of the sending window
    OpenSlots,       \* the times of a period inside the sending window
    Verdicts,        \* what validation and variable resolution may answer
    ExitActions      \* number of onExhausted actions

ASSUME DispatcherAssumption ==
    /\ Delay \in [Steps -> Nat]
    /\ JitterMinutes \in Nat
    /\ DayLength \in Nat \ {0}
    /\ OpenSlots \subseteq 0 .. DayLength - 1
    /\ OpenSlots # {}
    /\ BatchSize \in Nat \ {0}
    /\ Verdicts \subseteq {"send", "skip", "template_required", "template_variable"}
    /\ ExitActions \in Nat
    /\ Nobody \notin Ticks

VARIABLES
    tickPc,
    tickNow,       \* the clock when the tick began
    tickIds,       \* journeys of the batch not processed yet
    tickJourney,   \* journey whose transaction is open
    tickStep,      \* its stepOrder, read under the lock
    tickResult,    \* answer of the channel
    tickAction,    \* exit actions already run by this transaction
    \* the outside world, which no rollback undoes
    sends,         \* touches the channel accepted, per journey and step
    activities,    \* CRM activities logged, per journey and step
    exitRuns,      \* runs of each onExhausted action, per journey
    \* bookkeeping
    lostSends      \* accepted touches whose transaction did not commit

tickVars == <<tickPc, tickNow, tickIds, tickJourney, tickStep, tickResult, tickAction>>
worldVars == <<sends, activities, exitRuns>>
dispatcherVars == <<tickPc, tickNow, tickIds, tickJourney, tickStep, tickResult,
                    tickAction, sends, activities, exitRuns, lostSends>>

InTransaction == {"sending", "logging", "recording", "actions"}
TickPc == {"idle", "loop"} \cup InTransaction

Bump(f, j, s) == [f EXCEPT ![j][s] = @ + 1]

DispatcherInit ==
    /\ tickPc = [t \in Ticks |-> "idle"]
    /\ tickNow = [t \in Ticks |-> 0]
    /\ tickIds = [t \in Ticks |-> {}]
    /\ tickJourney = [t \in Ticks |-> NoJourney]
    /\ tickStep = [t \in Ticks |-> 0]
    /\ tickResult = [t \in Ticks |-> "none"]
    /\ tickAction = [t \in Ticks |-> 0]
    /\ sends = [j \in Journeys |-> [s \in Steps |-> 0]]
    /\ activities = [j \in Journeys |-> [s \in Steps |-> 0]]
    /\ exitRuns = [j \in Journeys |-> [a \in 1 .. ExitActions |-> 0]]
    /\ lostSends = [j \in Journeys |-> [s \in Steps |-> 0]]

-----------------------------------------------------------------------------
(* The sending window *)

isWithinWindow(t) == t % DayLength \in OpenSlots

\* u is the earliest time from t on that lies in the window.
IsNextSlot(t, u) ==
    /\ isWithinWindow(u)
    /\ \A v \in t .. u - 1 : ~isWithinWindow(v)

-----------------------------------------------------------------------------
(* A tick: findDueIds, then the loop over its ids *)

findDueIds(t, limit) ==
    {ids \in SUBSET Due(t) :
        /\ Cardinality(ids) <= limit
        /\ ids = Due(t) \/ Cardinality(ids) = limit}

TickStart(t) ==
    /\ tickPc[t] = "idle"
    /\ \E ids \in findDueIds(now, BatchSize) :
         /\ ids # {}
         /\ tickIds' = [tickIds EXCEPT ![t] = ids]
    /\ tickNow' = [tickNow EXCEPT ![t] = now]
    /\ tickPc' = [tickPc EXCEPT ![t] = "loop"]
    /\ UNCHANGED <<storeVars, tickJourney, tickStep, tickResult, tickAction,
                   worldVars, lostSends>>

\* A tick that finds nothing due.
TickNothing(t) ==
    /\ tickPc[t] = "idle"
    /\ Due(now) = {}
    /\ UNCHANGED <<storeVars, dispatcherVars>>

\* Mutant: a tick whose ids are used up never ends.
NextIdNeverEnds(t, j) ==
    /\ tickIds' = [tickIds EXCEPT ![t] = @ \ {j}]
    /\ tickPc' = [tickPc EXCEPT ![t] = "loop"]
    /\ UNCHANGED tickNow

\* The transaction on j is over, committed or rolled back.
NextId(t, j) ==
    /\ tickIds' = [tickIds EXCEPT ![t] = @ \ {j}]
    /\ tickPc' = [tickPc EXCEPT ![t] = IF tickIds[t] = {j} THEN "idle" ELSE "loop"]
    /\ tickNow' = [tickNow EXCEPT ![t] = IF tickIds[t] = {j} THEN 0 ELSE @]

-----------------------------------------------------------------------------
(* Transactions that commit without an external call.  lockById succeeds   *)
(* when nobody holds the row and reads its latest committed version.       *)

\* Mutant: a plain SELECT, without FOR UPDATE.
lockByIdNoForUpdate(t, j) ==
    /\ tickPc[t] = "loop"
    /\ j \in tickIds[t]

lockById(t, j) ==
    /\ tickPc[t] = "loop"
    /\ j \in tickIds[t]
    /\ Unlocked(j)

\* The check made again under the lock.
Eligible(t, j) == lockById(t, j) /\ IsDue(j, tickNow[t])

\* There is a step to dispatch and the tick began inside the sending window.
StepDue(t, j) ==
    /\ Eligible(t, j)
    /\ ~IsExhausted(currentStepOrder[j], StepCount)
    /\ isWithinWindow(tickNow[t])

NextStep(j) == NextStepOrder(currentStepOrder[j])

\* The lead's owner may have a primary account for the step's channel.
ChannelPossible(j) == ownerUserId[LeadOf[j]] # NoUser

CommitAtOnce(t, j) ==
    /\ NextId(t, j)
    /\ UNCHANGED <<tickJourney, tickStep, tickResult, tickAction, worldVars,
                   lostSends, ownerUserId, lockedBy, now>>

SkipStale(t, j) ==
    /\ lockById(t, j)
    /\ ~IsDue(j, tickNow[t])
    /\ CommitAtOnce(t, j)
    /\ UNCHANGED <<journeyRow, touchAttempt, faults>>

Defer(t, j) ==
    /\ Eligible(t, j)
    /\ ~IsExhausted(currentStepOrder[j], StepCount)
    /\ ~isWithinWindow(tickNow[t])
    /\ \E u \in tickNow[t] .. tickNow[t] + DayLength :
         /\ IsNextSlot(tickNow[t], u)
         /\ advance(j, currentStepOrder[j], u)
    /\ CommitAtOnce(t, j)
    /\ UNCHANGED <<touchAttempt, faults>>

NoChannel(t, j) ==
    /\ StepDue(t, j)
    /\ setStatus(j, TransitionTo.error, "no_channel")
    /\ CommitAtOnce(t, j)
    /\ UNCHANGED <<touchAttempt, faults>>

\* The (journey, step) slot is taken: return, the journey stays due.
SkipClaimed(t, j) ==
    /\ StepDue(t, j)
    /\ ChannelPossible(j)
    /\ AttemptExists(j, NextStep(j))
    /\ CommitAtOnce(t, j)
    /\ UNCHANGED <<journeyRow, touchAttempt, faults>>

Claim(t, j) ==
    /\ StepDue(t, j)
    /\ ChannelPossible(j)
    /\ ~AttemptExists(j, NextStep(j))

RejectStep(t, j) ==
    /\ Claim(t, j)
    /\ \E reason \in Verdicts \cap LeadJourneyErrorReason :
         setStatus(j, TransitionTo.error, reason)
    /\ recordAttempt(j, NextStep(j), "failed")
    /\ CommitAtOnce(t, j)
    /\ UNCHANGED faults

\* scheduleNext: the next touch is the following step's delay (the step's own
\* when it is the last) plus jitter after the time the tick began.
DelayAfter(s) == IF s + 1 \in Steps THEN Delay[s + 1] ELSE Delay[s]

\* Mutant: the step after the dispatched one is stored as the current one.
scheduleNextOffByOne(t, j, s) ==
    \E jitter \in 0 .. JitterMinutes :
        advance(j, s + 1, tickNow[t] + DelayAfter(s) + jitter)

\* Mutant: the journey is not moved on.
scheduleNextForgotten(t, j, s) ==
    UNCHANGED <<status, currentStepOrder, nextTouchAt, errorReason>>

scheduleNext(t, j, s) ==
    \E jitter \in 0 .. JitterMinutes :
        advance(j, s, tickNow[t] + DelayAfter(s) + jitter)

SkipStep(t, j) ==
    /\ Claim(t, j)
    /\ "skip" \in Verdicts
    /\ recordAttempt(j, NextStep(j), "skipped")
    /\ scheduleNext(t, j, NextStep(j))
    /\ CommitAtOnce(t, j)
    /\ UNCHANGED faults

\* A query throws before anything is sent: nothing is written.
DispatchThrows(t, j) ==
    /\ Eligible(t, j)
    /\ Fault
    /\ CommitAtOnce(t, j)
    /\ UNCHANGED <<journeyRow, touchAttempt>>

-----------------------------------------------------------------------------
(* Transactions that hold the row lock across external calls *)

Open(t, j, pc) ==
    /\ lockedBy' = [lockedBy EXCEPT ![j] = t]
    /\ tickPc' = [tickPc EXCEPT ![t] = pc]
    /\ tickJourney' = [tickJourney EXCEPT ![t] = j]
    /\ UNCHANGED <<journeyRow, touchAttempt, ownerUserId, now, tickNow, tickIds,
                   worldVars, lostSends, faults>>

BeginSend(t, j) ==
    /\ Claim(t, j)
    /\ "send" \in Verdicts
    /\ Open(t, j, "sending")
    /\ tickStep' = [tickStep EXCEPT ![t] = NextStep(j)]
    /\ UNCHANGED <<tickResult, tickAction>>

BeginExhaust(t, j) ==
    /\ Eligible(t, j)
    /\ IsExhausted(currentStepOrder[j], StepCount)
    /\ Open(t, j, "actions")
    /\ UNCHANGED <<tickStep, tickResult, tickAction>>

Continue(t, pc) ==
    /\ tickPc' = [tickPc EXCEPT ![t] = pc]
    /\ UNCHANGED <<storeVars, tickNow, tickIds, tickJourney, tickStep, lostSends>>

\* The channel takes the message and says so.
SendAccepted(t) ==
    /\ tickPc[t] = "sending"
    /\ sends' = Bump(sends, tickJourney[t], tickStep[t])
    /\ tickResult' = [tickResult EXCEPT ![t] = "sent"]
    /\ Continue(t, "logging")
    /\ UNCHANGED <<tickAction, activities, exitRuns>>

\* The channel answers with an error, which is a result and not an exception.
SendRefused(t) ==
    /\ tickPc[t] = "sending"
    /\ tickResult' = [tickResult EXCEPT ![t] = "failed"]
    /\ Continue(t, "logging")
    /\ UNCHANGED <<tickAction, worldVars>>

\* Mutant: an exception of the CRM is swallowed.
LogTouchSwallowed(t) ==
    /\ tickPc[t] = "logging"
    /\ Continue(t, "recording")
    /\ UNCHANGED <<tickResult, tickAction, worldVars>>

LogTouch(t) ==
    /\ tickPc[t] = "logging"
    /\ activities' = Bump(activities, tickJourney[t], tickStep[t])
    /\ Continue(t, "recording")
    /\ UNCHANGED <<tickResult, tickAction, sends, exitRuns>>

\* Mutant: the list of actions is run from its end.
RunExitActionReversed(t) ==
    /\ tickPc[t] = "actions"
    /\ tickAction[t] < ExitActions
    /\ tickAction' = [tickAction EXCEPT ![t] = @ + 1]
    /\ exitRuns' = Bump(exitRuns, tickJourney[t], ExitActions - tickAction[t])
    /\ Continue(t, "actions")
    /\ UNCHANGED <<tickResult, sends, activities>>

RunExitAction(t) ==
    /\ tickPc[t] = "actions"
    /\ tickAction[t] < ExitActions
    /\ tickAction' = [tickAction EXCEPT ![t] = @ + 1]
    /\ exitRuns' = Bump(exitRuns, tickJourney[t], tickAction[t] + 1)
    /\ Continue(t, "actions")
    /\ UNCHANGED <<tickResult, sends, activities>>

\* The end of a transaction, committed or not: the lock is released and the
\* process forgets what it knew of the journey.
CloseTx(t) ==
    /\ NextId(t, tickJourney[t])
    /\ lockedBy' = [lockedBy EXCEPT ![tickJourney[t]] = Nobody]
    /\ tickJourney' = [tickJourney EXCEPT ![t] = NoJourney]
    /\ tickStep' = [tickStep EXCEPT ![t] = 0]
    /\ tickResult' = [tickResult EXCEPT ![t] = "none"]
    /\ tickAction' = [tickAction EXCEPT ![t] = 0]
    /\ UNCHANGED <<ownerUserId, now, worldVars>>

CommitSend(t) ==
    /\ tickPc[t] = "recording"
    /\ recordAttempt(tickJourney[t], tickStep[t], tickResult[t])
    /\ scheduleNext(t, tickJourney[t], tickStep[t])
    /\ CloseTx(t)
    /\ UNCHANGED <<lostSends, faults>>

\* Mutant: the exit actions are not awaited.
CommitExhaustEarly(t) ==
    /\ tickPc[t] = "actions"
    /\ setStatus(tickJourney[t], TransitionTo.exhaust, "none")
    /\ CloseTx(t)
    /\ UNCHANGED <<touchAttempt, lostSends, faults>>

CommitExhaust(t) ==
    /\ tickPc[t] = "actions"
    /\ tickAction[t] = ExitActions
    /\ setStatus(tickJourney[t], TransitionTo.exhaust, "none")
    /\ CloseTx(t)
    /\ UNCHANGED <<touchAttempt, lostSends, faults>>

\* An exception after the lock was taken (the channel, the CRM, an action or
\* the commit fails): the claim of the slot is rolled back with the rest.
TxThrows(t) ==
    /\ tickPc[t] \in InTransaction
    /\ Fault
    /\ lostSends' = IF tickResult[t] = "sent"
                      THEN Bump(lostSends, tickJourney[t], tickStep[t])
                      ELSE lostSends
    /\ CloseTx(t)
    /\ UNCHANGED <<journeyRow, touchAttempt>>

-----------------------------------------------------------------------------
ClockTick ==
    /\ now < MaxTime
    /\ now' = now + 1
    /\ UNCHANGED <<journeyRow, touchAttempt, ownerUserId, lockedBy, faults,
                   dispatcherVars>>

DispatchOne(t, j) ==
    \/ SkipStale(t, j)
    \/ Defer(t, j)
    \/ NoChannel(t, j)
    \/ SkipClaimed(t, j)
    \/ RejectStep(t, j)
    \/ SkipStep(t, j)
    \/ BeginSend(t, j)
    \/ BeginExhaust(t, j)

Proceed(t) ==
    \/ SendAccepted(t)
    \/ SendRefused(t)
    \/ LogTouch(t)
    \/ RunExitAction(t)
    \/ CommitSend(t)
    \/ CommitExhaust(t)

\* What a tick does when nothing throws.
TickStep(t) ==
    \/ TickStart(t)
    \/ \E j \in Journeys : DispatchOne(t, j)
    \/ Proceed(t)

TickThrows(t) ==
    \/ \E j \in Journeys : DispatchThrows(t, j)
    \/ TxThrows(t)

-----------------------------------------------------------------------------
DispatcherTypeOK ==
    /\ tickPc \in [Ticks -> TickPc]
    /\ tickNow \in [Ticks -> Nat]
    /\ tickIds \in [Ticks -> SUBSET Journeys]
    /\ tickJourney \in [Ticks -> Journeys \cup {NoJourney}]
    /\ tickStep \in [Ticks -> Steps]
    /\ tickResult \in [Ticks -> {"none", "sent", "failed"}]
    /\ tickAction \in [Ticks -> 0 .. ExitActions]
    /\ sends \in [Journeys -> [Steps -> Nat]]
    /\ activities \in [Journeys -> [Steps -> Nat]]
    /\ exitRuns \in [Journeys -> [1 .. ExitActions -> Nat]]
    /\ lostSends \in [Journeys -> [Steps -> Nat]]

=============================================================================
