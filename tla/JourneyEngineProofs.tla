------------------------- MODULE JourneyEngineProofs -------------------------
(***************************************************************************)
(* Safety of the engine for any number of journeys, steps, ticks and       *)
(* handlers: types, the accounting of every send, the condition under      *)
(* which a touch leaves, the order of the exit actions; and, where no      *)
(* operator command overwrites a status, that the engine implements the    *)
(* lifecycle, with what follows for replies.                               *)
(***************************************************************************)
EXTENDS JourneyEngine, TLAPS

USE StoreAssumption, DispatcherAssumption, RequestsAssumption, EngineAssumption

\* The initial states are well typed.
LEMMA InitTypes == Init => TypeOK
<1> SUFFICES ASSUME Init PROVE TypeOK
  OBVIOUS
<1>1. StoreTypeOK
  BY DEF Init, StoreTypeOK, LeadJourneyStatus, Touch, Reason, LeadJourneyErrorReason,
         AttemptStatus, Steps
<1>2. DispatcherTypeOK
  BY DEF Init, DispatcherInit, DispatcherTypeOK, TickPc, Steps
<1>3. RequestsTypeOK
  BY DEF Init, RequestsInit, RequestsTypeOK, JourneyControlAction, BulkEvent
<1>4. lockedBy \in [Journeys -> Ticks \cup Bulks \cup {Nobody}]
  BY DEF Init
<1> QED
  BY <1>1, <1>2, <1>3, <1>4 DEF TypeOK

-----------------------------------------------------------------------------
(* The requests: what they preserve of the types, and what they leave to   *)
(* the dispatcher.                                                         *)

\* What the table says of the events requests raise.
LEMMA RequestTargets ==
    \A event \in JourneyControlAction \cup BulkEvent :
        TransitionTo[event] \in LeadJourneyStatus \ {"exhausted"}
BY DEF JourneyControlAction, BulkEvent, TransitionTo, LeadJourneyStatus

\* A step of a handler or of a bulk update, faults included.
RequestStep ==
    \/ \E r \in Replies : ReplyStep(r)
    \/ \E r \in Controls : ControlStep(r)
    \/ \E b \in Bulks : BulkStep(b)
    \/ \E L \in SUBSET Leads, u \in Users : BackfillOwner(L, u)
    \/ RequestThrows

\* What a request may not do to the rows and the clock.
RowFrame ==
    /\ UNCHANGED <<currentStepOrder, touchAttempt, now>>
    /\ \A j \in Journeys : lockedBy[j] \in Ticks /\ status[j] = "running" =>
          /\ lockedBy'[j] = lockedBy[j]
          /\ status'[j] = status[j]
          /\ nextTouchAt'[j] = nextTouchAt[j]
    /\ \A j \in Journeys : status'[j] = "exhausted" => status[j] = "exhausted"
    /\ BulkView'
    /\ StoreTypeOK'
    /\ lockedBy' \in [Journeys -> Ticks \cup Bulks \cup {Nobody}]

RequestFrame == RowFrame /\ HandlerView' /\ RequestsTypeOK'

\* A reply handler respects the frame: it writes only a row nobody holds.
LEMMA ReplyFrame ==
    ASSUME TypeOK, BulkView, HandlerView,
           NEW r \in Replies, ReplyStep(r) \/ ReplyThrows(r)
    PROVE  RequestFrame
<1> USE DEF TypeOK, StoreTypeOK, RequestsTypeOK, BulkView, HandlerView, RequestFrame, RowFrame,
            storeVars, journeyRow, replyVars, controlVars, bulkVars
<1>1. ASSUME NEW l \in Leads, ReplyUnheeded(r, l)
      PROVE  RequestFrame
  BY <1>1 DEF ReplyUnheeded, InFlight
<1>2. ASSUME NEW l \in Leads, ReplyFind(r, l)
      PROVE  RequestFrame
  BY <1>2 DEF ReplyFind, RunningOfLead
<1>3. CASE ReplyMark(r)
  <2>1. RowFrame
    BY <1>3 DEF ReplyMark, ReplyLock, setStatus, Unlocked, TransitionTo, LeadJourneyStatus, Touch, Reason
  <2>2. HandlerView' /\ RequestsTypeOK'
    BY <1>3 DEF ReplyMark, ReplyLock, InFlight
  <2> QED
    BY <2>1, <2>2
<1>4. CASE ReplyTooLate(r)
  <2>1. RowFrame
    BY <1>4 DEF ReplyTooLate, ReplyLock
  <2>2. HandlerView' /\ RequestsTypeOK'
    BY <1>4 DEF ReplyTooLate, ReplyLock, ReplyDone, InFlight
  <2> QED
    BY <2>1, <2>2
<1>5. CASE ReplyAudit(r)
  BY <1>5 DEF ReplyAudit
<1>6. CASE ReplyRunAction(r)
  <2>1. replyRuns' \in [Journeys -> [1 .. ReplyActions -> Nat]]
    <3>1. replyJourney[r] \in Journeys /\ replyAction[r] + 1 \in 1 .. ReplyActions
      BY <1>6 DEF ReplyRunAction
    <3>2. replyRuns[replyJourney[r]] \in [1 .. ReplyActions -> Nat]
      BY <3>1
    <3>3. [replyRuns[replyJourney[r]] EXCEPT ![replyAction[r] + 1] = @ + 1]
             \in [1 .. ReplyActions -> Nat]
      BY <3>1, <3>2
    <3>4. replyRuns' = [replyRuns EXCEPT ![replyJourney[r]] =
                          [replyRuns[replyJourney[r]] EXCEPT ![replyAction[r] + 1] = @ + 1]]
      BY <1>6 DEF ReplyRunAction
    <3>5. replyRuns \in [Journeys -> [1 .. ReplyActions -> Nat]]
      OBVIOUS
    <3> HIDE DEF TypeOK, StoreTypeOK, RequestsTypeOK, BulkView, HandlerView, RequestFrame, RowFrame
    <3> QED
      BY <3>1, <3>3, <3>4, <3>5
  <2>2. replyAction' \in [Replies -> 0 .. ReplyActions]
    BY <1>6 DEF ReplyRunAction
  <2>3. RowFrame
    BY <1>6 DEF ReplyRunAction
  <2>4. HandlerView' /\ RequestsTypeOK'
    BY <1>6, <2>1, <2>2 DEF ReplyRunAction
  <2> QED
    BY <2>3, <2>4
<1>7. CASE ReplyFinish(r)
  <2>1. RowFrame
    BY <1>7 DEF ReplyFinish
  <2>2. HandlerView' /\ RequestsTypeOK'
    BY <1>7 DEF ReplyFinish, ReplyDone
  <2> QED
    BY <2>1, <2>2
<1>8. CASE ReplyThrows(r)
  <2>1. RowFrame
    BY <1>8 DEF ReplyThrows, Fault
  <2>2. HandlerView' /\ RequestsTypeOK'
    BY <1>8 DEF ReplyThrows, ReplyDone
  <2> QED
    BY <2>1, <2>2
<1> HIDE DEF TypeOK, StoreTypeOK, RequestsTypeOK, BulkView, HandlerView, RequestFrame, RowFrame
<1> QED
  BY <1>1, <1>2, <1>3, <1>4, <1>5, <1>6, <1>7, <1>8 DEF ReplyStep

\* So does an operator command, unconditional as its write is.
LEMMA ControlFrame ==
    ASSUME TypeOK, BulkView, HandlerView,
           NEW r \in Controls, ControlStep(r) \/ ControlThrows(r)
    PROVE  RequestFrame
<1> USE DEF TypeOK, StoreTypeOK, RequestsTypeOK, BulkView, HandlerView, RequestFrame, RowFrame,
            storeVars, journeyRow, replyVars, controlVars, bulkVars, JourneyControlAction
<1>1. ASSUME NEW j \in Journeys, NEW action \in JourneyControlAction, ControlRead(r, j, action)
      PROVE  RequestFrame
  BY <1>1 DEF ControlRead
<1>2. CASE ControlWrite(r)
  <2> DEFINE target == TransitionTo[controlAction[r]]
             at == IF controlAction[r] = "resume" THEN controlAt[r] ELSE NoTouch
  <2>1. target \in LeadJourneyStatus \ {"exhausted"} /\ at \in Touch
    BY RequestTargets DEF Touch
  <2>2. updateStatus(controlJourney[r], target, at) /\ Unlocked(controlJourney[r])
    BY <1>2 DEF ControlWrite
  <2> HIDE DEF target, at
  <2>3. UNCHANGED <<currentStepOrder, touchAttempt, now, lockedBy, errorReason, ownerUserId,
                    faults, replyVars, controlJourney, controlAction, controlAt, commands,
                    bulkVars, replyRuns, heard>>
    BY <1>2, <2>2 DEF ControlWrite, updateStatus
  <2>4. controlPc' = [controlPc EXCEPT ![r] = "audit"] /\ controlPc[r] = "write"
    BY <1>2 DEF ControlWrite
  <2> QED
    BY <2>1, <2>2, <2>3, <2>4 DEF updateStatus, Unlocked
<1>3. CASE ControlAudit(r)
  BY <1>3 DEF ControlAudit, ControlDone
<1>4. CASE ControlThrows(r)
  BY <1>4 DEF ControlThrows, ControlDone, Fault
<1> HIDE DEF TypeOK, StoreTypeOK, RequestsTypeOK, BulkView, HandlerView, RequestFrame, RowFrame
<1> QED
  BY <1>1, <1>2, <1>3, <1>4 DEF ControlStep

\* Taking the snapshot of a bulk update changes no row.
LEMMA BulkBeginFrame ==
    ASSUME TypeOK, BulkView, HandlerView, NEW b \in Bulks,
           NEW event \in BulkEvent, NEW S \in SUBSET Journeys, BulkBegin(b, event, S)
    PROVE  RequestFrame
BY DEF BulkBegin, TypeOK, StoreTypeOK, RequestsTypeOK, BulkView, HandlerView, RequestFrame, RowFrame,
       storeVars, journeyRow, replyVars, controlVars

\* A bulk update writes only the rows it has locked.
LEMMA BulkFrame ==
    ASSUME TypeOK, BulkView, HandlerView,
           NEW b \in Bulks, BulkStep(b) \/ BulkThrows(b)
    PROVE  RequestFrame
<1>1. CASE WorkspacePauseAll(b)
  BY <1>1, BulkBeginFrame DEF WorkspacePauseAll, BulkEvent
<1>2. ASSUME NEW u \in Users, PauseOwnerJourneys(b, u)
      PROVE  RequestFrame
  <2>1. BulkBegin(b, "owner_inactive", OwnedBy(u))
    BY <1>2 DEF PauseOwnerJourneys
  <2> QED
    BY <2>1, BulkBeginFrame DEF OwnedBy, BulkEvent
<1>3. CASE ResumeReassigned(b)
  <2>1. BulkBegin(b, "owner_reactivated", OwnedBy(bulkUser[b]))
    BY <1>3 DEF ResumeReassigned
  <2> QED
    BY <2>1, BulkBeginFrame DEF OwnedBy, BulkEvent
<1>4. ASSUME NEW from \in Users, NEW to \in Users, ReassignLeads(b, from, to)
      PROVE  RequestFrame
  BY <1>4 DEF ReassignLeads, TypeOK, StoreTypeOK, RequestsTypeOK, BulkView, HandlerView,
              RequestFrame, RowFrame, journeyRow, replyVars, controlVars
<1> USE DEF TypeOK, StoreTypeOK, RequestsTypeOK, BulkView, HandlerView, RequestFrame, RowFrame,
            journeyRow, replyVars, controlVars
<1>5. ASSUME NEW j \in Journeys, BulkRow(b, j)
      PROVE  RequestFrame
  <2>1. CASE CanTransition(status[j], bulkEvent[b])
    <3>1. /\ bulkTodo' = [bulkTodo EXCEPT ![b] = @ \ {j}]
          /\ bulkHeld' = [bulkHeld EXCEPT ![b] = @ \cup {j}]
          /\ lockedBy' = [lockedBy EXCEPT ![j] = b]
          /\ lockedBy[j] = Nobody
      BY <1>5, <2>1 DEF BulkRow, Unlocked
    <3>2. RowFrame
      BY <1>5, <3>1 DEF BulkRow
    <3>3. HandlerView' /\ RequestsTypeOK'
      BY <1>5, <3>1 DEF BulkRow
    <3> QED
      BY <3>2, <3>3
  <2>2. CASE ~CanTransition(status[j], bulkEvent[b])
    BY <1>5, <2>2 DEF BulkRow
  <2> QED
    BY <2>1, <2>2
<1>6. CASE BulkCommit(b)
  <2> DEFINE target == TransitionTo[bulkEvent[b]]
             at == IF bulkEvent[b] = "owner_reactivated" THEN bulkAt[b] ELSE NoTouch
  <2>1. target \in LeadJourneyStatus \ {"exhausted"} /\ at \in Touch
    BY RequestTargets DEF Touch
  <2>2. updateRows(bulkHeld[b], target, at) /\ BulkClose(b) /\ UNCHANGED faults
    BY <1>6 DEF BulkCommit
  <2> HIDE DEF target, at
  <2>3. \A j \in bulkHeld[b] : lockedBy[j] \notin Ticks
    OBVIOUS
  <2> QED
    BY <2>1, <2>2, <2>3 DEF updateRows, BulkClose, BulkEvent
<1>7. CASE BulkThrows(b)
  BY <1>7 DEF BulkThrows, BulkClose, Fault, BulkEvent
<1> HIDE DEF TypeOK, StoreTypeOK, RequestsTypeOK, BulkView, HandlerView, RequestFrame, RowFrame
<1> QED
  BY <1>1, <1>2, <1>3, <1>4, <1>5, <1>6, <1>7 DEF BulkStep

\* The backfill writes only rows in error_state, which no dispatch holds.
LEMMA BackfillFrame ==
    ASSUME TypeOK, BulkView, HandlerView,
           NEW L \in SUBSET Leads, NEW u \in Users, BackfillOwner(L, u)
    PROVE  RequestFrame
BY DEF BackfillOwner, requestVars, TypeOK, StoreTypeOK, RequestsTypeOK, BulkView,
       HandlerView, RequestFrame, RowFrame, LeadJourneyStatus, Touch, Reason

\* Every step of a request respects the frame.
LEMMA RequestsKeepFrame ==
    TypeOK /\ BulkView /\ HandlerView /\ RequestStep => RequestFrame
BY ReplyFrame, ControlFrame, BulkFrame, BackfillFrame DEF RequestStep, RequestThrows

-----------------------------------------------------------------------------
(* The dispatcher: what a step of tick t does to the types, to its own     *)
(* view and to the rows others hold.                                       *)

LockTypeOK == lockedBy \in [Journeys -> Ticks \cup Bulks \cup {Nobody}]

WorldGrows ==
    /\ \A j \in Journeys, s \in Steps : activities'[j][s] >= activities[j][s]
    /\ \A j \in Journeys, a \in 1 .. ExitActions : exitRuns'[j][a] >= exitRuns[j][a]

\* Tick t leaves alone the other ticks and the rows it neither holds nor takes,
\* and what happened in the world stays.
TickFrame(t) ==
    /\ now' = now
    /\ \A u \in Ticks \ {t} :
          /\ tickPc'[u] = tickPc[u]
          /\ tickNow'[u] = tickNow[u]
          /\ tickJourney'[u] = tickJourney[u]
          /\ tickStep'[u] = tickStep[u]
          /\ tickResult'[u] = tickResult[u]
          /\ tickAction'[u] = tickAction[u]
    /\ \A j \in Journeys : lockedBy[j] \notin {Nobody, t} =>
          /\ lockedBy'[j] = lockedBy[j]
          /\ status'[j] = status[j]
          /\ nextTouchAt'[j] = nextTouchAt[j]
          /\ currentStepOrder'[j] = currentStepOrder[j]
          /\ touchAttempt'[j] = touchAttempt[j]
    /\ WorldGrows

TickOutcome(t) ==
    /\ TickFrame(t)
    /\ StoreTypeOK'
    /\ LockTypeOK'
    /\ DispatcherTypeOK'
    /\ TickView(t)'

\* A step that does not reach the outside world leaves it as it was.
LEMMA WorldStays == DispatcherTypeOK /\ UNCHANGED <<activities, exitRuns>> => WorldGrows
BY DEF DispatcherTypeOK, WorldGrows

\* Reading a batch takes no lock.
LEMMA TickStartOutcome ==
    ASSUME TypeOK, NEW t \in Ticks, TickView(t), TickStart(t)
    PROVE  TickOutcome(t)
<1>1. TickFrame(t)
  <2>1. WorldGrows
    BY WorldStays DEF TickStart, TypeOK, worldVars
  <2> QED
    BY <2>1 DEF TickStart, TickFrame, TypeOK, DispatcherTypeOK, storeVars
<1>2. StoreTypeOK' /\ LockTypeOK'
  BY DEF TickStart, TypeOK, StoreTypeOK, LockTypeOK, storeVars
<1>3. DispatcherTypeOK'
  <2>1. PICK ids \in findDueIds(now, BatchSize) : tickIds' = [tickIds EXCEPT ![t] = ids]
    BY DEF TickStart
  <2>2. ids \subseteq Journeys
    BY DEF findDueIds, Due
  <2> QED
    BY <2>1, <2>2 DEF TickStart, TypeOK, StoreTypeOK, DispatcherTypeOK, TickPc, worldVars
<1>4. TickView(t)'
  <2>1. tickPc[t] = "idle" /\ tickPc'[t] = "loop" /\ tickNow'[t] = now /\ now' = now
    BY DEF TickStart, TypeOK, DispatcherTypeOK, storeVars
  <2>2. tickJourney'[t] = NoJourney /\ tickResult'[t] = "none" /\ tickAction'[t] = 0
    BY <2>1 DEF TickStart, TickView, InTransaction
  <2> QED
    BY <2>1, <2>2 DEF TickView, InTransaction, TypeOK, StoreTypeOK
<1> QED
  BY <1>1, <1>2, <1>3, <1>4 DEF TickOutcome

\* How a tick leaves the journey it is done with.
LEMMA NextIdOutcome ==
    ASSUME DispatcherTypeOK, NEW t \in Ticks, NEW j \in Journeys, NextId(t, j)
    PROVE  /\ tickPc' \in [Ticks -> TickPc] /\ tickPc'[t] \in {"idle", "loop"}
           /\ tickNow' \in [Ticks -> Nat] /\ tickNow'[t] \in {0, tickNow[t]}
           /\ tickIds' \in [Ticks -> SUBSET Journeys]
           /\ \A u \in Ticks \ {t} : tickPc'[u] = tickPc[u] /\ tickNow'[u] = tickNow[u]
<1> USE DEF NextId, DispatcherTypeOK
<1>1. tickPc' \in [Ticks -> TickPc] /\ tickPc'[t] \in {"idle", "loop"}
  BY DEF TickPc
<1>2. tickNow' \in [Ticks -> Nat] /\ tickNow'[t] \in {0, tickNow[t]}
  OBVIOUS
<1>3. tickIds' \in [Ticks -> SUBSET Journeys]
  OBVIOUS
<1> QED
  BY <1>1, <1>2, <1>3

\* A transaction that commits at once leaves its tick without a journey.
LEMMA AtOnceOutcome ==
    ASSUME TypeOK, NEW t \in Ticks, TickView(t), NEW j \in Journeys,
           tickPc[t] = "loop", Unlocked(j), CommitAtOnce(t, j), StoreTypeOK',
           \A i \in Journeys \ {j} :
              /\ status'[i] = status[i]
              /\ nextTouchAt'[i] = nextTouchAt[i]
              /\ currentStepOrder'[i] = currentStepOrder[i]
              /\ touchAttempt'[i] = touchAttempt[i]
    PROVE  TickOutcome(t)
<1>1. /\ tickPc' \in [Ticks -> TickPc] /\ tickPc'[t] \in {"idle", "loop"}
      /\ tickNow' \in [Ticks -> Nat] /\ tickNow'[t] \in {0, tickNow[t]}
      /\ tickIds' \in [Ticks -> SUBSET Journeys]
      /\ \A u \in Ticks \ {t} : tickPc'[u] = tickPc[u] /\ tickNow'[u] = tickNow[u]
  BY NextIdOutcome DEF CommitAtOnce, TypeOK
<1>2. UNCHANGED <<tickJourney, tickStep, tickResult, tickAction, sends, activities, exitRuns,
                  lostSends, lockedBy, now>>
  BY DEF CommitAtOnce, worldVars
<1>3. tickJourney[t] = NoJourney /\ tickResult[t] = "none" /\ tickAction[t] = 0
  BY DEF TickView, InTransaction
<1>4. TickFrame(t)
  <2>1. WorldGrows
    BY <1>2, WorldStays DEF TypeOK
  <2> QED
    BY <1>1, <1>2, <2>1 DEF TickFrame, Unlocked
<1>5. DispatcherTypeOK' /\ LockTypeOK'
  BY <1>1, <1>2 DEF TypeOK, DispatcherTypeOK, LockTypeOK
<1>6. TickView(t)'
  BY <1>1, <1>2, <1>3 DEF TickView, InTransaction, TypeOK, DispatcherTypeOK, StoreTypeOK
<1> QED
  BY <1>4, <1>5, <1>6 DEF TickOutcome

Accounting ==
    /\ EverySendAccounted
    /\ AttemptsMatchProgress
    /\ SentIsLogged
    /\ ExhaustedAfterActions

\* Nothing was sent or run, and no attempt became, or ceased to be, a sent one.
LEMMA AtOnceAccounting ==
    ASSUME EverySendAccounted, SentIsLogged,
           UNCHANGED <<tickJourney, tickStep, tickResult, sends, activities, lostSends>>,
           \A i \in Journeys, s \in Steps :
              touchAttempt'[i][s] = "sent" <=> touchAttempt[i][s] = "sent"
    PROVE  EverySendAccounted' /\ SentIsLogged'
BY DEF EverySendAccounted, SentIsLogged, AcceptedOpen

\* A step that neither sends, records, runs an action nor exhausts keeps the books.
LEMMA QuietAccounting ==
    ASSUME Accounting,
           UNCHANGED <<tickJourney, tickStep, tickResult, sends, activities, exitRuns, lostSends,
                       touchAttempt, currentStepOrder>>,
           \A i \in Journeys : status'[i] = "exhausted" => status[i] = "exhausted"
    PROVE  Accounting'
<1>1. EverySendAccounted' /\ SentIsLogged'
  BY AtOnceAccounting DEF Accounting
<1>2. AttemptsMatchProgress' /\ ExhaustedAfterActions'
  BY DEF Accounting, AttemptsMatchProgress, ExhaustedAfterActions
<1> QED
  BY <1>1, <1>2 DEF Accounting

\* Stale and claimed journeys are left alone, and so is one whose queries throw.
LEMMA SkipOutcome ==
    ASSUME TypeOK, NEW t \in Ticks, TickView(t), Accounting, NEW j \in Journeys,
           SkipStale(t, j) \/ SkipClaimed(t, j) \/ DispatchThrows(t, j)
    PROVE  TickOutcome(t) /\ Accounting'
<1>1. /\ tickPc[t] = "loop" /\ Unlocked(j) /\ CommitAtOnce(t, j)
      /\ UNCHANGED <<journeyRow, touchAttempt>> /\ faults' \in Nat
  BY DEF SkipStale, SkipClaimed, DispatchThrows, StepDue, Eligible, lockById, Fault, TypeOK,
         StoreTypeOK
<1>2. StoreTypeOK'
  BY <1>1 DEF journeyRow, CommitAtOnce, TypeOK, StoreTypeOK
<1>3. TickOutcome(t)
  BY <1>1, <1>2, AtOnceOutcome DEF journeyRow
<1> QED
  BY <1>1, <1>3, QuietAccounting DEF journeyRow, CommitAtOnce, worldVars

\* Deferring to the next open slot moves the time only.
LEMMA DeferOutcome ==
    ASSUME TypeOK, NEW t \in Ticks, TickView(t), Accounting, NEW j \in Journeys, Defer(t, j)
    PROVE  TickOutcome(t) /\ Accounting'
<1>1. PICK u \in tickNow[t] .. tickNow[t] + DayLength : advance(j, currentStepOrder[j], u)
  BY DEF Defer
<1>2. u \in Nat
  BY DEF TypeOK, DispatcherTypeOK
<1>3. /\ tickPc[t] = "loop" /\ Unlocked(j) /\ CommitAtOnce(t, j)
      /\ UNCHANGED <<touchAttempt, faults>>
  BY DEF Defer, Eligible, lockById
<1>4. UNCHANGED currentStepOrder
  BY <1>1 DEF advance, TypeOK, StoreTypeOK
<1>5. StoreTypeOK'
  BY <1>1, <1>2, <1>3, <1>4 DEF advance, CommitAtOnce, TypeOK, StoreTypeOK, Touch
<1>6. TickOutcome(t)
  BY <1>1, <1>3, <1>4, <1>5, AtOnceOutcome DEF advance, TypeOK, StoreTypeOK
<1> QED
  BY <1>1, <1>3, <1>4, <1>6, QuietAccounting DEF advance, CommitAtOnce, worldVars

\* A journey without a channel goes to error_state before anything is recorded.
LEMMA NoChannelOutcome ==
    ASSUME TypeOK, NEW t \in Ticks, TickView(t), Accounting, NEW j \in Journeys, NoChannel(t, j)
    PROVE  TickOutcome(t) /\ Accounting'
<1>1. /\ tickPc[t] = "loop" /\ Unlocked(j) /\ CommitAtOnce(t, j)
      /\ UNCHANGED <<touchAttempt, faults>>
      /\ setStatus(j, "error_state", "no_channel")
  BY DEF NoChannel, StepDue, Eligible, lockById, TransitionTo
<1>2. StoreTypeOK'
  BY <1>1 DEF setStatus, CommitAtOnce, TypeOK, StoreTypeOK, Touch, LeadJourneyStatus, Reason,
              LeadJourneyErrorReason
<1>3. TickOutcome(t)
  BY <1>1, <1>2, AtOnceOutcome DEF setStatus, TypeOK, StoreTypeOK
<1> QED
  BY <1>1, <1>3, QuietAccounting DEF setStatus, CommitAtOnce, worldVars, TypeOK, StoreTypeOK

\* What a transaction that claims the next step starts from.
LEMMA ClaimFacts ==
    ASSUME TypeOK, NEW t \in Ticks, NEW j \in Journeys, Claim(t, j)
    PROVE  /\ tickPc[t] = "loop" /\ Unlocked(j) /\ IsDue(j, tickNow[t])
           /\ NextStep(j) \in Steps /\ NextStep(j) = currentStepOrder[j] + 1
           /\ touchAttempt[j][NextStep(j)] = "none"
BY DEF Claim, StepDue, Eligible, lockById, NextStep, NextStepOrder, IsExhausted, AttemptExists,
       Steps, TypeOK, StoreTypeOK

\* A step that cannot be sent leaves a failed attempt just beyond the current step.
LEMMA RejectOutcome ==
    ASSUME TypeOK, NEW t \in Ticks, TickView(t), Accounting, NEW j \in Journeys, RejectStep(t, j)
    PROVE  TickOutcome(t) /\ Accounting'
<1> DEFINE step == NextStep(j)
<1>1. /\ tickPc[t] = "loop" /\ Unlocked(j) /\ step \in Steps
      /\ step = currentStepOrder[j] + 1 /\ touchAttempt[j][step] = "none"
  BY ClaimFacts DEF RejectStep
<1>2. CommitAtOnce(t, j) /\ UNCHANGED faults /\ recordAttempt(j, step, "failed")
  BY DEF RejectStep
<1>3. PICK reason \in LeadJourneyErrorReason : setStatus(j, "error_state", reason)
  BY DEF RejectStep, TransitionTo
<1> HIDE DEF step
<1>4. StoreTypeOK'
  BY <1>1, <1>2, <1>3 DEF setStatus, recordAttempt, CommitAtOnce, TypeOK, StoreTypeOK, Touch,
                          LeadJourneyStatus, Reason, AttemptStatus
<1>5. TickOutcome(t)
  BY <1>1, <1>2, <1>3, <1>4, AtOnceOutcome DEF setStatus, recordAttempt, TypeOK, StoreTypeOK
<1>6. \A i \in Journeys, s \in Steps :
          touchAttempt'[i][s] = IF i = j /\ s = step THEN "failed" ELSE touchAttempt[i][s]
  BY <1>1, <1>2 DEF recordAttempt, TypeOK, StoreTypeOK
<1>7. EverySendAccounted' /\ SentIsLogged'
  BY <1>1, <1>2, <1>6, AtOnceAccounting DEF CommitAtOnce, worldVars, Accounting
<1>8. AttemptsMatchProgress'
  <2>1. UNCHANGED currentStepOrder /\ currentStepOrder[j] \in Int
    BY <1>3 DEF setStatus, TypeOK, StoreTypeOK
  <2> SUFFICES ASSUME NEW i \in Journeys, NEW s \in Steps
               PROVE  /\ s <= currentStepOrder[i] => touchAttempt'[i][s] # "none"
                      /\ s = currentStepOrder[i] + 1 => touchAttempt'[i][s] \in {"none", "failed"}
                      /\ s > currentStepOrder[i] + 1 => touchAttempt'[i][s] = "none"
    BY <2>1 DEF AttemptsMatchProgress
  <2>2. CASE i = j /\ s = step
    BY <1>1, <1>6, <2>1, <2>2 DEF Steps
  <2>3. CASE ~(i = j /\ s = step)
    BY <1>6, <2>3 DEF Accounting, AttemptsMatchProgress
  <2> QED
    BY <2>2, <2>3
<1>9. ExhaustedAfterActions'
  BY <1>2, <1>3 DEF setStatus, Accounting, ExhaustedAfterActions, TypeOK, StoreTypeOK,
                    CommitAtOnce, worldVars
<1> QED
  BY <1>5, <1>7, <1>8, <1>9 DEF Accounting

\* The next touch is some time from now on.
LEMMA ScheduleNext ==
    ASSUME TypeOK, NEW t \in Ticks, NEW j \in Journeys, NEW s \in Steps, scheduleNext(t, j, s)
    PROVE  \E at \in Nat : advance(j, s, at)
<1>1. PICK jitter \in 0 .. JitterMinutes : advance(j, s, tickNow[t] + DelayAfter(s) + jitter)
  BY DEF scheduleNext
<1>2. DelayAfter(s) \in Nat /\ tickNow[t] \in Nat
  BY DEF DelayAfter, TypeOK, DispatcherTypeOK
<1>3. tickNow[t] + DelayAfter(s) + jitter \in Nat
  BY <1>2
<1> QED
  BY <1>1, <1>3

\* The attempts of a journey after its next step was recorded and it advanced.
LEMMA AdvanceAccounting ==
    ASSUME TypeOK, Accounting, NEW j \in Journeys, NEW s \in Steps, NEW at \in Nat,
           NEW result \in AttemptStatus \ {"none"},
           status[j] = "running", s = currentStepOrder[j] + 1,
           recordAttempt(j, s, result), advance(j, s, at), UNCHANGED exitRuns
    PROVE  AttemptsMatchProgress' /\ ExhaustedAfterActions'
<1>1. \A i \in Journeys, q \in Steps :
          touchAttempt'[i][q] = IF i = j /\ q = s THEN result ELSE touchAttempt[i][q]
  BY DEF recordAttempt, TypeOK, StoreTypeOK
<1>2. \A i \in Journeys : /\ currentStepOrder[i] \in Int
                          /\ currentStepOrder'[i] = IF i = j THEN s ELSE currentStepOrder[i]
                          /\ status'[i] = status[i]
  BY DEF advance, TypeOK, StoreTypeOK
<1>3. AttemptsMatchProgress'
  <2> SUFFICES ASSUME NEW i \in Journeys, NEW q \in Steps
               PROVE  /\ q <= currentStepOrder'[i] => touchAttempt'[i][q] # "none"
                      /\ q = currentStepOrder'[i] + 1 => touchAttempt'[i][q] \in {"none", "failed"}
                      /\ q > currentStepOrder'[i] + 1 => touchAttempt'[i][q] = "none"
    BY DEF AttemptsMatchProgress
  <2>1. CASE i = j
    <3>1. currentStepOrder'[i] = s /\ s = currentStepOrder[i] + 1 /\ q \in Int /\ s \in Int
      BY <1>2, <2>1 DEF Steps
    <3>2. CASE q = s
      BY <1>1, <2>1, <3>1, <3>2 DEF AttemptStatus
    <3>3. CASE q < s
      BY <1>1, <1>2, <2>1, <3>1, <3>3 DEF Accounting, AttemptsMatchProgress
    <3>4. CASE q > s
      BY <1>1, <1>2, <2>1, <3>1, <3>4 DEF Accounting, AttemptsMatchProgress
    <3> QED
      BY <3>1, <3>2, <3>3, <3>4
  <2>2. CASE i # j
    BY <1>1, <1>2, <2>2 DEF Accounting, AttemptsMatchProgress
  <2> QED
    BY <2>1, <2>2
<1>4. ExhaustedAfterActions'
  BY <1>2 DEF Accounting, ExhaustedAfterActions
<1> QED
  BY <1>3, <1>4

\* A skipped step is recorded and passed.
LEMMA SkipStepOutcome ==
    ASSUME TypeOK, NEW t \in Ticks, TickView(t), Accounting, NEW j \in Journeys, SkipStep(t, j)
    PROVE  TickOutcome(t) /\ Accounting'
<1> DEFINE step == NextStep(j)
<1>1. /\ tickPc[t] = "loop" /\ Unlocked(j) /\ status[j] = "running" /\ step \in Steps
      /\ step = currentStepOrder[j] + 1 /\ touchAttempt[j][step] = "none"
  BY ClaimFacts DEF SkipStep, IsDue
<1>2. CommitAtOnce(t, j) /\ UNCHANGED faults /\ recordAttempt(j, step, "skipped")
  BY DEF SkipStep
<1>3. PICK at \in Nat : advance(j, step, at)
  BY <1>1, ScheduleNext DEF SkipStep
<1> HIDE DEF step
<1>4. StoreTypeOK'
  BY <1>1, <1>2, <1>3 DEF advance, recordAttempt, CommitAtOnce, TypeOK, StoreTypeOK, Touch,
                          AttemptStatus, Steps
<1>5. TickOutcome(t)
  BY <1>1, <1>2, <1>3, <1>4, AtOnceOutcome DEF advance, recordAttempt, TypeOK, StoreTypeOK
<1>6. EverySendAccounted' /\ SentIsLogged'
  <2>1. \A i \in Journeys, s \in Steps :
           touchAttempt'[i][s] = "sent" <=> touchAttempt[i][s] = "sent"
    BY <1>1, <1>2 DEF recordAttempt, TypeOK, StoreTypeOK
  <2> QED
    BY <1>2, <2>1, AtOnceAccounting DEF CommitAtOnce, worldVars, Accounting
<1>7. AttemptsMatchProgress' /\ ExhaustedAfterActions'
  BY <1>1, <1>2, <1>3, AdvanceAccounting DEF CommitAtOnce, worldVars, AttemptStatus
<1> QED
  BY <1>5, <1>6, <1>7 DEF Accounting

\* The transaction of a send opens on the step after the current one.
LEMMA BeginSendOutcome ==
    ASSUME TypeOK, NEW t \in Ticks, TickView(t), Accounting, NEW j \in Journeys, BeginSend(t, j)
    PROVE  TickOutcome(t) /\ Accounting'
<1> DEFINE step == NextStep(j)
<1>1. /\ tickPc[t] = "loop" /\ Unlocked(j) /\ IsDue(j, tickNow[t]) /\ step \in Steps
      /\ step = currentStepOrder[j] + 1 /\ touchAttempt[j][step] = "none"
  BY ClaimFacts DEF BeginSend
<1>2. /\ Open(t, j, "sending") /\ tickStep' = [tickStep EXCEPT ![t] = step]
      /\ UNCHANGED <<tickResult, tickAction>>
  BY DEF BeginSend
<1> HIDE DEF step
<1>3. UNCHANGED <<status, currentStepOrder, nextTouchAt, errorReason, touchAttempt, ownerUserId,
                  now, tickNow, tickIds, sends, activities, exitRuns, lostSends, faults>>
  BY <1>2 DEF Open, journeyRow, worldVars
<1>4. /\ tickPc' = [tickPc EXCEPT ![t] = "sending"]
      /\ tickJourney' = [tickJourney EXCEPT ![t] = j]
      /\ lockedBy' = [lockedBy EXCEPT ![j] = t]
  BY <1>2 DEF Open
<1>5. tickJourney[t] = NoJourney /\ tickResult[t] = "none" /\ tickAction[t] = 0
  BY <1>1 DEF TickView, InTransaction
<1>6. TickFrame(t)
  <2>1. WorldGrows
    BY <1>3, WorldStays DEF TypeOK
  <2> QED
    BY <1>1, <1>2, <1>3, <1>4, <2>1 DEF TickFrame, TypeOK, DispatcherTypeOK, Unlocked
<1>7. StoreTypeOK' /\ LockTypeOK' /\ DispatcherTypeOK'
  BY <1>1, <1>2, <1>3, <1>4 DEF TypeOK, StoreTypeOK, LockTypeOK, DispatcherTypeOK, TickPc,
                                InTransaction
<1>8. TickView(t)'
  BY <1>1, <1>2, <1>3, <1>4, <1>5 DEF TickView, InTransaction, TypeOK, DispatcherTypeOK, IsDue
<1>9. Accounting'
  <2>1. \A i \in Journeys, s \in Steps : AcceptedOpen(i, s)' <=> AcceptedOpen(i, s)
    BY <1>2, <1>4, <1>5 DEF AcceptedOpen, TypeOK, DispatcherTypeOK
  <2> QED
    BY <1>3, <2>1 DEF Accounting, EverySendAccounted, AttemptsMatchProgress, SentIsLogged,
                      ExhaustedAfterActions
<1> QED
  BY <1>6, <1>7, <1>8, <1>9 DEF TickOutcome

\* The transaction of an exhaustion opens behind the last step.
LEMMA BeginExhaustOutcome ==
    ASSUME TypeOK, NEW t \in Ticks, TickView(t), Accounting, NEW j \in Journeys,
           BeginExhaust(t, j)
    PROVE  TickOutcome(t) /\ Accounting'
<1>1. /\ tickPc[t] = "loop" /\ Unlocked(j) /\ IsDue(j, tickNow[t])
      /\ currentStepOrder[j] = StepCount - 1
  BY DEF BeginExhaust, Eligible, lockById, IsExhausted, NextStepOrder, TypeOK, StoreTypeOK
<1>2. Open(t, j, "actions") /\ UNCHANGED <<tickStep, tickResult, tickAction>>
  BY DEF BeginExhaust
<1>3. UNCHANGED <<status, currentStepOrder, nextTouchAt, errorReason, touchAttempt, ownerUserId,
                  now, tickNow, tickIds, sends, activities, exitRuns, lostSends, faults>>
  BY <1>2 DEF Open, journeyRow, worldVars
<1>4. /\ tickPc' = [tickPc EXCEPT ![t] = "actions"]
      /\ tickJourney' = [tickJourney EXCEPT ![t] = j]
      /\ lockedBy' = [lockedBy EXCEPT ![j] = t]
  BY <1>2 DEF Open
<1>5. tickJourney[t] = NoJourney /\ tickResult[t] = "none" /\ tickAction[t] = 0
  BY <1>1 DEF TickView, InTransaction
<1>6. TickFrame(t)
  <2>1. WorldGrows
    BY <1>3, WorldStays DEF TypeOK
  <2> QED
    BY <1>1, <1>2, <1>3, <1>4, <2>1 DEF TickFrame, TypeOK, DispatcherTypeOK, Unlocked
<1>7. StoreTypeOK' /\ LockTypeOK' /\ DispatcherTypeOK'
  BY <1>1, <1>2, <1>3, <1>4 DEF TypeOK, StoreTypeOK, LockTypeOK, DispatcherTypeOK, TickPc,
                                InTransaction
<1>8. TickView(t)'
  BY <1>1, <1>2, <1>3, <1>4, <1>5 DEF TickView, InTransaction, TypeOK, DispatcherTypeOK, IsDue
<1>9. Accounting'
  <2>1. \A i \in Journeys, s \in Steps : AcceptedOpen(i, s)' <=> AcceptedOpen(i, s)
    BY <1>2, <1>4, <1>5 DEF AcceptedOpen, TypeOK, DispatcherTypeOK
  <2> QED
    BY <1>3, <2>1 DEF Accounting, EverySendAccounted, AttemptsMatchProgress, SentIsLogged,
                      ExhaustedAfterActions
<1> QED
  BY <1>6, <1>7, <1>8, <1>9 DEF TickOutcome

-----------------------------------------------------------------------------
(* Steps of a transaction that is open. *)

\* The view of every tick.
TickViews == \A u \in Ticks : TickView(u)

\* Counting one more event keeps the counters counters.
LEMMA BumpType ==
    ASSUME NEW S, NEW f \in [Journeys -> [S -> Nat]], NEW j \in Journeys, NEW s \in S
    PROVE  Bump(f, j, s) \in [Journeys -> [S -> Nat]]
BY DEF Bump

\* No two transactions are open on one journey.
LEMMA SoleHolder ==
    ASSUME TickViews, NEW t \in Ticks, NEW u \in Ticks,
           tickJourney[t] # NoJourney, tickJourney[u] = tickJourney[t]
    PROVE  u = t
BY DEF TickViews, TickView

\* What an open transaction has in hand.
LEMMA OpenFacts ==
    ASSUME TypeOK, NEW t \in Ticks, TickView(t), tickPc[t] \in InTransaction
    PROVE  /\ tickJourney[t] \in Journeys /\ tickStep[t] \in Steps
           /\ lockedBy[tickJourney[t]] = t
           /\ status[tickJourney[t]] = "running"
BY DEF TickView, TypeOK, DispatcherTypeOK, IsDue

\* The transaction goes on: nothing but its own program counter and the world
\* changes.
LEMMA ContinueOutcome ==
    ASSUME TypeOK, NEW t \in Ticks, TickView(t), NEW pc \in InTransaction, Continue(t, pc),
           tickPc[t] \in InTransaction, WorldGrows, DispatcherTypeOK',
           \A u \in Ticks \ {t} : tickResult'[u] = tickResult[u] /\ tickAction'[u] = tickAction[u],
           TickView(t)'
    PROVE  TickOutcome(t)
<1>1. TickFrame(t)
  BY DEF TickFrame, Continue, storeVars, TypeOK, DispatcherTypeOK
<1>2. StoreTypeOK' /\ LockTypeOK'
  BY DEF Continue, storeVars, TypeOK, StoreTypeOK, LockTypeOK
<1> QED
  BY <1>1, <1>2 DEF TickOutcome

\* An accepted send is accounted for by its open transaction.
LEMMA SendAcceptedOutcome ==
    ASSUME TypeOK, NEW t \in Ticks, TickViews, Accounting, SendAccepted(t)
    PROVE  TickOutcome(t) /\ Accounting'
<1> DEFINE j == tickJourney[t]
           step == tickStep[t]
<1>1. tickPc[t] = "sending" /\ tickPc[t] \in InTransaction /\ TickView(t)
  BY DEF SendAccepted, InTransaction, TickViews
<1>2. j \in Journeys /\ step \in Steps /\ lockedBy[j] = t
  BY <1>1, OpenFacts
<1>3. /\ sends' = Bump(sends, j, step)
      /\ tickResult' = [tickResult EXCEPT ![t] = "sent"]
      /\ tickPc' = [tickPc EXCEPT ![t] = "logging"]
      /\ Continue(t, "logging")
      /\ UNCHANGED <<status, currentStepOrder, nextTouchAt, touchAttempt, lockedBy, now, tickNow,
                     tickIds, tickJourney, tickStep, tickAction, activities, exitRuns, lostSends>>
  BY DEF SendAccepted, Continue, storeVars
<1>4. tickResult[t] = "none" /\ j # NoJourney
  BY <1>1 DEF TickView
<1> HIDE DEF j, step
<1>5. DispatcherTypeOK'
  <2>1. sends' \in [Journeys -> [Steps -> Nat]]
    BY <1>2, <1>3, BumpType DEF TypeOK, DispatcherTypeOK
  <2> QED
    BY <1>3, <2>1 DEF TypeOK, DispatcherTypeOK, TickPc, InTransaction
<1>6. TickView(t)'
  BY <1>1, <1>3, <1>4 DEF TickView, InTransaction, TypeOK, DispatcherTypeOK, IsDue
<1>7. TickOutcome(t)
  <2>1. WorldGrows
    BY <1>3, WorldStays DEF TypeOK
  <2> QED
    BY <1>1, <1>3, <1>5, <1>6, <2>1, ContinueOutcome DEF InTransaction, TypeOK, DispatcherTypeOK
<1>8. EverySendAccounted'
  <2>1. \A i \in Journeys, s \in Steps : i = j /\ s = step => ~AcceptedOpen(i, s)
    BY <1>4, SoleHolder DEF AcceptedOpen, j
  <2>2. \A i \in Journeys, s \in Steps : i = j /\ s = step => AcceptedOpen(i, s)'
    BY <1>3 DEF AcceptedOpen, TypeOK, DispatcherTypeOK, j, step
  <2>3. \A i \in Journeys, s \in Steps :
           ~(i = j /\ s = step) => (AcceptedOpen(i, s)' <=> AcceptedOpen(i, s))
    BY <1>3, <1>4 DEF AcceptedOpen, TypeOK, DispatcherTypeOK, j, step
  <2>4. \A i \in Journeys, s \in Steps :
           sends'[i][s] = IF i = j /\ s = step THEN sends[i][s] + 1 ELSE sends[i][s]
    <3>1. sends \in [Journeys -> [Steps -> Nat]]
      BY DEF TypeOK, DispatcherTypeOK
    <3> QED
      BY <1>2, <1>3, <3>1 DEF Bump
  <2> SUFFICES ASSUME NEW i \in Journeys, NEW s \in Steps
               PROVE  sends'[i][s] = lostSends[i][s]
                                     + (IF touchAttempt[i][s] = "sent" THEN 1 ELSE 0)
                                     + (IF AcceptedOpen(i, s)' THEN 1 ELSE 0)
    BY <1>3 DEF EverySendAccounted
  <2>5. lostSends[i][s] \in Nat /\ sends[i][s] \in Nat
    BY DEF TypeOK, DispatcherTypeOK
  <2>6. sends[i][s] = lostSends[i][s] + (IF touchAttempt[i][s] = "sent" THEN 1 ELSE 0)
                                      + (IF AcceptedOpen(i, s) THEN 1 ELSE 0)
    BY DEF Accounting, EverySendAccounted
  <2>7. CASE i = j /\ s = step
    BY <2>1, <2>2, <2>4, <2>5, <2>6, <2>7
  <2>8. CASE ~(i = j /\ s = step)
    BY <2>3, <2>4, <2>6, <2>8
  <2> QED
    BY <2>7, <2>8
<1>9. (AttemptsMatchProgress /\ SentIsLogged /\ ExhaustedAfterActions)'
  BY <1>3 DEF Accounting, AttemptsMatchProgress, SentIsLogged, ExhaustedAfterActions
<1> QED
  BY <1>7, <1>8, <1>9 DEF Accounting

\* A refused send leaves nothing to account for.
LEMMA SendRefusedOutcome ==
    ASSUME TypeOK, NEW t \in Ticks, TickViews, Accounting, SendRefused(t)
    PROVE  TickOutcome(t) /\ Accounting'
<1>1. tickPc[t] = "sending" /\ tickPc[t] \in InTransaction /\ TickView(t)
  BY DEF SendRefused, InTransaction, TickViews
<1>2. /\ tickResult' = [tickResult EXCEPT ![t] = "failed"]
      /\ tickPc' = [tickPc EXCEPT ![t] = "logging"]
      /\ Continue(t, "logging")
      /\ UNCHANGED <<status, currentStepOrder, nextTouchAt, touchAttempt, lockedBy, now, tickNow,
                     tickIds, tickJourney, tickStep, tickAction, sends, activities, exitRuns,
                     lostSends>>
  BY DEF SendRefused, Continue, storeVars, worldVars
<1>3. tickResult[t] = "none"
  BY <1>1 DEF TickView
<1>4. DispatcherTypeOK'
  BY <1>2 DEF TypeOK, DispatcherTypeOK, TickPc, InTransaction
<1>5. TickView(t)'
  BY <1>1, <1>2, <1>3 DEF TickView, InTransaction, TypeOK, DispatcherTypeOK, IsDue
<1>6. TickOutcome(t)
  <2>1. WorldGrows
    BY <1>2, WorldStays DEF TypeOK
  <2> QED
    BY <1>1, <1>2, <1>4, <1>5, <2>1, ContinueOutcome DEF InTransaction, TypeOK, DispatcherTypeOK
<1>7. \A i \in Journeys, s \in Steps : AcceptedOpen(i, s)' <=> AcceptedOpen(i, s)
  BY <1>2, <1>3 DEF AcceptedOpen, TypeOK, DispatcherTypeOK
<1>8. Accounting'
  BY <1>2, <1>7 DEF Accounting, EverySendAccounted, AttemptsMatchProgress, SentIsLogged,
                    ExhaustedAfterActions
<1> QED
  BY <1>6, <1>8

\* The activity of a touch is logged before the touch is recorded.
LEMMA LogTouchOutcome ==
    ASSUME TypeOK, NEW t \in Ticks, TickViews, Accounting, LogTouch(t)
    PROVE  TickOutcome(t) /\ Accounting'
<1> DEFINE j == tickJourney[t]
           step == tickStep[t]
<1>1. tickPc[t] = "logging" /\ tickPc[t] \in InTransaction /\ TickView(t)
  BY DEF LogTouch, InTransaction, TickViews
<1>2. j \in Journeys /\ step \in Steps
  BY <1>1, OpenFacts
<1>3. /\ activities' = Bump(activities, j, step)
      /\ tickPc' = [tickPc EXCEPT ![t] = "recording"]
      /\ Continue(t, "recording")
      /\ UNCHANGED <<status, currentStepOrder, nextTouchAt, touchAttempt, lockedBy, now, tickNow,
                     tickIds, tickJourney, tickStep, tickResult, tickAction, sends, exitRuns,
                     lostSends>>
  BY DEF LogTouch, Continue, storeVars
<1> HIDE DEF j, step
<1>4. \A i \in Journeys, s \in Steps :
         /\ activities[i][s] \in Nat
         /\ activities'[i][s] = IF i = j /\ s = step THEN activities[i][s] + 1
                                                    ELSE activities[i][s]
  <2>1. activities \in [Journeys -> [Steps -> Nat]]
    BY DEF TypeOK, DispatcherTypeOK
  <2> QED
    BY <1>2, <1>3, <2>1 DEF Bump
<1>5. DispatcherTypeOK'
  <2>1. activities' \in [Journeys -> [Steps -> Nat]]
    BY <1>2, <1>3, BumpType DEF TypeOK, DispatcherTypeOK
  <2> QED
    BY <1>3, <2>1 DEF TypeOK, DispatcherTypeOK, TickPc, InTransaction
<1>6. WorldGrows
  <2>1. \A i \in Journeys, a \in 1 .. ExitActions : exitRuns[i][a] \in Nat
    BY DEF TypeOK, DispatcherTypeOK
  <2> QED
    BY <1>3, <1>4, <2>1 DEF WorldGrows
<1>7. TickView(t)'
  <2>1. activities'[j][step] >= 1
    BY <1>2, <1>4
  <2> QED
    BY <1>1, <1>3, <2>1 DEF j, step, TickView, InTransaction, TypeOK, DispatcherTypeOK, IsDue
<1>8. TickOutcome(t)
  BY <1>1, <1>3, <1>5, <1>6, <1>7, ContinueOutcome DEF InTransaction, TypeOK, DispatcherTypeOK
<1>9. Accounting'
  <2>1. EverySendAccounted'
    BY <1>3 DEF Accounting, EverySendAccounted, AcceptedOpen
  <2>2. SentIsLogged'
    BY <1>3, <1>4 DEF Accounting, SentIsLogged
  <2>3. AttemptsMatchProgress' /\ ExhaustedAfterActions'
    BY <1>3 DEF Accounting, AttemptsMatchProgress, ExhaustedAfterActions
  <2> QED
    BY <2>1, <2>2, <2>3 DEF Accounting
<1> QED
  BY <1>8, <1>9

\* The exit actions run so far are a prefix of the list.
LEMMA RunExitActionOutcome ==
    ASSUME TypeOK, NEW t \in Ticks, TickViews, Accounting, RunExitAction(t)
    PROVE  TickOutcome(t) /\ Accounting'
<1> DEFINE j == tickJourney[t]
           n == tickAction[t] + 1
<1>1. tickPc[t] = "actions" /\ tickPc[t] \in InTransaction /\ TickView(t)
  BY DEF RunExitAction, InTransaction, TickViews
<1>2. j \in Journeys /\ n \in 1 .. ExitActions
  BY <1>1, OpenFacts DEF RunExitAction, TypeOK, DispatcherTypeOK
<1>3. /\ exitRuns' = Bump(exitRuns, j, n)
      /\ tickAction' = [tickAction EXCEPT ![t] = n]
      /\ tickPc' = [tickPc EXCEPT ![t] = "actions"]
      /\ Continue(t, "actions")
      /\ UNCHANGED <<status, currentStepOrder, nextTouchAt, touchAttempt, lockedBy, now, tickNow,
                     tickIds, tickJourney, tickStep, tickResult, sends, activities, lostSends>>
  BY DEF RunExitAction, Continue, storeVars, TypeOK, DispatcherTypeOK
<1>4. \A i \in Journeys, a \in 1 .. ExitActions :
         /\ exitRuns[i][a] \in Nat
         /\ exitRuns'[i][a] = IF i = j /\ a = n THEN exitRuns[i][a] + 1 ELSE exitRuns[i][a]
  <2>1. exitRuns \in [Journeys -> [1 .. ExitActions -> Nat]]
    BY DEF TypeOK, DispatcherTypeOK
  <2> QED
    BY <1>2, <1>3, <2>1 DEF Bump
<1>5. DispatcherTypeOK'
  <2>1. exitRuns' \in [Journeys -> [1 .. ExitActions -> Nat]]
    BY <1>2, <1>3, BumpType DEF TypeOK, DispatcherTypeOK
  <2>2. tickAction' \in [Ticks -> 0 .. ExitActions]
    BY <1>2, <1>3 DEF TypeOK, DispatcherTypeOK
  <2> QED
    BY <1>3, <2>1, <2>2 DEF TypeOK, DispatcherTypeOK, TickPc, InTransaction
<1>6. WorldGrows
  <2>1. \A i \in Journeys, s \in Steps : activities[i][s] \in Nat
    BY DEF TypeOK, DispatcherTypeOK
  <2> QED
    BY <1>3, <1>4, <2>1 DEF WorldGrows
<1>7. TickView(t)'
  <2>1. tickAction[t] \in Nat /\ tickAction'[t] = n
    BY <1>3 DEF TypeOK, DispatcherTypeOK
  <2>2. \A a \in 1 .. tickAction'[t] : exitRuns'[j][a] >= 1
    <3> SUFFICES ASSUME NEW a \in 1 .. n PROVE exitRuns'[j][a] >= 1
      BY <2>1
    <3>1. a \in 1 .. ExitActions /\ (a = n \/ a \in 1 .. tickAction[t])
      BY <1>2, <2>1
    <3>2. CASE a = n
      BY <1>2, <1>4, <3>1, <3>2
    <3>3. CASE a \in 1 .. tickAction[t]
      BY <1>1, <1>2, <1>4, <3>1, <3>3 DEF TickView
    <3> QED
      BY <3>1, <3>2, <3>3
  <2> QED
    BY <1>1, <1>3, <2>1, <2>2 DEF TickView, InTransaction, TypeOK, DispatcherTypeOK, IsDue
<1>8. TickOutcome(t)
  BY <1>1, <1>3, <1>5, <1>6, <1>7, ContinueOutcome DEF InTransaction, TypeOK, DispatcherTypeOK
<1>9. Accounting'
  <2>1. EverySendAccounted' /\ SentIsLogged' /\ AttemptsMatchProgress'
    BY <1>3 DEF Accounting, EverySendAccounted, AcceptedOpen, SentIsLogged, AttemptsMatchProgress
  <2>2. ExhaustedAfterActions'
    BY <1>3, <1>4 DEF Accounting, ExhaustedAfterActions
  <2> QED
    BY <2>1, <2>2 DEF Accounting
<1> QED
  BY <1>8, <1>9

-----------------------------------------------------------------------------
(* The end of a transaction. *)

\* The tick forgets its journey and releases the row; only that row changed.
LEMMA CloseOutcome ==
    ASSUME TypeOK, NEW t \in Ticks, TickView(t), tickPc[t] \in InTransaction, CloseTx(t),
           StoreTypeOK', lostSends' \in [Journeys -> [Steps -> Nat]],
           \A i \in Journeys \ {tickJourney[t]} :
              /\ status'[i] = status[i]
              /\ nextTouchAt'[i] = nextTouchAt[i]
              /\ currentStepOrder'[i] = currentStepOrder[i]
              /\ touchAttempt'[i] = touchAttempt[i]
    PROVE  TickOutcome(t)
<1>1. /\ tickPc' \in [Ticks -> TickPc] /\ tickPc'[t] \in {"idle", "loop"}
      /\ tickNow' \in [Ticks -> Nat] /\ tickNow'[t] \in {0, tickNow[t]}
      /\ tickIds' \in [Ticks -> SUBSET Journeys]
      /\ \A u \in Ticks \ {t} : tickPc'[u] = tickPc[u] /\ tickNow'[u] = tickNow[u]
  <2>1. tickJourney[t] \in Journeys
    BY OpenFacts
  <2> QED
    BY <2>1, NextIdOutcome DEF CloseTx, TypeOK
<1>2. /\ tickJourney' = [tickJourney EXCEPT ![t] = NoJourney]
      /\ tickStep' = [tickStep EXCEPT ![t] = 0]
      /\ tickResult' = [tickResult EXCEPT ![t] = "none"]
      /\ tickAction' = [tickAction EXCEPT ![t] = 0]
      /\ lockedBy' = [lockedBy EXCEPT ![tickJourney[t]] = Nobody]
      /\ UNCHANGED <<now, sends, activities, exitRuns>>
  BY DEF CloseTx, worldVars
<1>3. tickJourney[t] \in Journeys /\ lockedBy[tickJourney[t]] = t
  BY OpenFacts
<1>4. TickFrame(t)
  <2>1. WorldGrows
    BY <1>2, WorldStays DEF TypeOK
  <2>2. \A u \in Ticks \ {t} :
           /\ tickJourney'[u] = tickJourney[u] /\ tickStep'[u] = tickStep[u]
           /\ tickResult'[u] = tickResult[u] /\ tickAction'[u] = tickAction[u]
    BY <1>2 DEF TypeOK, DispatcherTypeOK
  <2>3. \A i \in Journeys : lockedBy[i] \notin {Nobody, t} =>
           i # tickJourney[t] /\ lockedBy'[i] = lockedBy[i]
    BY <1>2, <1>3 DEF TypeOK
  <2> QED
    BY <1>1, <1>2, <2>1, <2>2, <2>3 DEF TickFrame
<1>5. DispatcherTypeOK' /\ LockTypeOK'
  <2>1. LockTypeOK'
    BY <1>2 DEF TypeOK, LockTypeOK
  <2>2. 0 \in Steps /\ 0 \in 0 .. ExitActions
    BY DEF Steps
  <2>3. /\ tickJourney' \in [Ticks -> Journeys \cup {NoJourney}]
        /\ tickStep' \in [Ticks -> Steps]
        /\ tickResult' \in [Ticks -> {"none", "sent", "failed"}]
        /\ tickAction' \in [Ticks -> 0 .. ExitActions]
    BY <1>2, <2>2 DEF TypeOK, DispatcherTypeOK
  <2> QED
    BY <1>1, <1>2, <2>1, <2>3 DEF TypeOK, DispatcherTypeOK
<1>6. TickView(t)'
  <2>1. tickJourney'[t] = NoJourney /\ tickResult'[t] = "none" /\ tickAction'[t] = 0
    BY <1>2 DEF TypeOK, DispatcherTypeOK
  <2>2. tickNow'[t] <= now'
    BY <1>1, <1>2 DEF TickView, TypeOK, StoreTypeOK
  <2> QED
    BY <1>1, <2>1, <2>2 DEF TickView, InTransaction
<1> QED
  BY <1>4, <1>5, <1>6 DEF TickOutcome

\* After the transaction closed, no accepted send of its journey is open; the
\* other journeys' are as they were.
LEMMA CloseAccepted ==
    ASSUME TypeOK, TickViews, NEW t \in Ticks, tickJourney[t] # NoJourney, CloseTx(t)
    PROVE  \A i \in Journeys, s \in Steps :
              AcceptedOpen(i, s)' <=> AcceptedOpen(i, s) /\ i # tickJourney[t]
<1>1. /\ tickJourney' = [tickJourney EXCEPT ![t] = NoJourney]
      /\ tickStep' = [tickStep EXCEPT ![t] = 0]
      /\ tickResult' = [tickResult EXCEPT ![t] = "none"]
  BY DEF CloseTx
<1> SUFFICES ASSUME NEW i \in Journeys, NEW s \in Steps
             PROVE  AcceptedOpen(i, s)' <=> AcceptedOpen(i, s) /\ i # tickJourney[t]
  OBVIOUS
<1>2. CASE i = tickJourney[t]
  <2>1. \A u \in Ticks \ {t} : tickJourney[u] # i
    BY <1>2, SoleHolder
  <2> QED
    BY <1>1, <1>2, <2>1 DEF AcceptedOpen, TypeOK, DispatcherTypeOK
<1>3. CASE i # tickJourney[t]
  BY <1>1, <1>3 DEF AcceptedOpen, TypeOK, DispatcherTypeOK
<1> QED
  BY <1>2, <1>3

\* An accepted send of an open journey is the one of its transaction.
LEMMA AcceptedByHolder ==
    ASSUME TickViews, NEW t \in Ticks, tickJourney[t] # NoJourney, NEW s \in Steps,
           NEW i \in Journeys, i = tickJourney[t]
    PROVE  AcceptedOpen(i, s) <=> s = tickStep[t] /\ tickResult[t] = "sent"
BY SoleHolder DEF AcceptedOpen

\* At the commit the recorded attempt takes over from the open transaction.
LEMMA CommitSendOutcome ==
    ASSUME TypeOK, NEW t \in Ticks, TickViews, Accounting, CommitSend(t)
    PROVE  TickOutcome(t) /\ Accounting'
<1> DEFINE j == tickJourney[t]
           step == tickStep[t]
           result == tickResult[t]
<1>1. tickPc[t] = "recording" /\ tickPc[t] \in InTransaction /\ TickView(t)
  BY DEF CommitSend, InTransaction, TickViews
<1>2. j \in Journeys /\ step \in Steps /\ status[j] = "running" /\ j # NoJourney
  BY <1>1, OpenFacts
<1>3. /\ step = currentStepOrder[j] + 1 /\ touchAttempt[j][step] = "none"
      /\ result \in {"sent", "failed"} /\ activities[j][step] >= 1
  BY <1>1 DEF TickView, TypeOK, DispatcherTypeOK
<1>4. recordAttempt(j, step, result) /\ CloseTx(t) /\ UNCHANGED <<lostSends, faults>>
  BY DEF CommitSend
<1>5. PICK at \in Nat : advance(j, step, at)
  BY <1>2, ScheduleNext DEF CommitSend
<1>6. \A i \in Journeys, s \in Steps :
         AcceptedOpen(i, s)' <=> AcceptedOpen(i, s) /\ i # j
  BY <1>2, <1>4, CloseAccepted
<1>7. \A i \in Journeys, s \in Steps :
         i = j => (AcceptedOpen(i, s) <=> s = step /\ result = "sent")
  BY <1>2, AcceptedByHolder
<1> HIDE DEF j, step, result
<1>8. StoreTypeOK'
  BY <1>2, <1>3, <1>4, <1>5 DEF advance, recordAttempt, CloseTx, TypeOK, StoreTypeOK, Touch,
                                AttemptStatus, Steps
<1>9. TickOutcome(t)
  <2>1. \A i \in Journeys \ {j} :
              /\ status'[i] = status[i]
              /\ nextTouchAt'[i] = nextTouchAt[i]
              /\ currentStepOrder'[i] = currentStepOrder[i]
              /\ touchAttempt'[i] = touchAttempt[i]
    BY <1>4, <1>5 DEF advance, recordAttempt, TypeOK, StoreTypeOK
  <2>2. lostSends' \in [Journeys -> [Steps -> Nat]]
    BY <1>4 DEF TypeOK, DispatcherTypeOK
  <2> QED
    BY <1>1, <1>4, <1>8, <2>1, <2>2, CloseOutcome DEF j
<1>10. UNCHANGED <<sends, activities, exitRuns, lostSends>>
  BY <1>4 DEF CloseTx, worldVars
<1>11. \A i \in Journeys, s \in Steps :
          touchAttempt'[i][s] = IF i = j /\ s = step THEN result ELSE touchAttempt[i][s]
  BY <1>2, <1>4 DEF recordAttempt, TypeOK, StoreTypeOK
<1>12. EverySendAccounted'
  <2> SUFFICES ASSUME NEW i \in Journeys, NEW s \in Steps
               PROVE  sends[i][s] = lostSends[i][s]
                                    + (IF touchAttempt'[i][s] = "sent" THEN 1 ELSE 0)
                                    + (IF AcceptedOpen(i, s)' THEN 1 ELSE 0)
    BY <1>10 DEF EverySendAccounted
  <2>1. sends[i][s] = lostSends[i][s] + (IF touchAttempt[i][s] = "sent" THEN 1 ELSE 0)
                                      + (IF AcceptedOpen(i, s) THEN 1 ELSE 0)
    BY DEF Accounting, EverySendAccounted
  <2>2. lostSends[i][s] \in Nat
    BY DEF TypeOK, DispatcherTypeOK
  <2>3. CASE i = j /\ s = step
    BY <1>3, <1>6, <1>7, <1>11, <2>1, <2>2, <2>3
  <2>4. CASE i = j /\ s # step
    BY <1>6, <1>7, <1>11, <2>1, <2>4
  <2>5. CASE i # j
    BY <1>6, <1>11, <2>1, <2>5
  <2> QED
    BY <2>3, <2>4, <2>5
<1>13. SentIsLogged'
  BY <1>3, <1>10, <1>11 DEF Accounting, SentIsLogged
<1>14. AttemptsMatchProgress' /\ ExhaustedAfterActions'
  BY <1>2, <1>3, <1>4, <1>5, <1>10, AdvanceAccounting DEF AttemptStatus
<1> QED
  BY <1>9, <1>12, <1>13, <1>14 DEF Accounting

\* At the commit of an exhaustion every action has been run.
LEMMA CommitExhaustOutcome ==
    ASSUME TypeOK, NEW t \in Ticks, TickViews, Accounting, CommitExhaust(t)
    PROVE  TickOutcome(t) /\ Accounting'
<1> DEFINE j == tickJourney[t]
<1>1. tickPc[t] = "actions" /\ tickPc[t] \in InTransaction /\ TickView(t)
  BY DEF CommitExhaust, InTransaction, TickViews
<1>2. j \in Journeys /\ j # NoJourney
  BY <1>1, OpenFacts
<1>3. /\ currentStepOrder[j] = StepCount - 1 /\ tickResult[t] = "none"
      /\ \A a \in 1 .. ExitActions : exitRuns[j][a] >= 1
  BY <1>1 DEF TickView, CommitExhaust
<1>4. /\ setStatus(j, "exhausted", "none") /\ CloseTx(t)
      /\ UNCHANGED <<touchAttempt, lostSends, faults>>
  BY DEF CommitExhaust, TransitionTo
<1>5. \A i \in Journeys, s \in Steps : AcceptedOpen(i, s)' <=> AcceptedOpen(i, s)
  BY <1>2, <1>3, <1>4, CloseAccepted, AcceptedByHolder
<1> HIDE DEF j
<1>6. StoreTypeOK'
  BY <1>4 DEF setStatus, CloseTx, TypeOK, StoreTypeOK, Touch, LeadJourneyStatus, Reason
<1>7. TickOutcome(t)
  <2>1. \A i \in Journeys \ {j} :
              /\ status'[i] = status[i]
              /\ nextTouchAt'[i] = nextTouchAt[i]
              /\ currentStepOrder'[i] = currentStepOrder[i]
              /\ touchAttempt'[i] = touchAttempt[i]
    BY <1>4 DEF setStatus, TypeOK, StoreTypeOK
  <2>2. lostSends' \in [Journeys -> [Steps -> Nat]]
    BY <1>4 DEF TypeOK, DispatcherTypeOK
  <2> QED
    BY <1>1, <1>4, <1>6, <2>1, <2>2, CloseOutcome DEF j
<1>8. UNCHANGED <<sends, activities, exitRuns, lostSends, touchAttempt, currentStepOrder>>
  BY <1>4 DEF CloseTx, worldVars, setStatus
<1>9. EverySendAccounted' /\ SentIsLogged' /\ AttemptsMatchProgress'
  BY <1>5, <1>8 DEF Accounting, EverySendAccounted, SentIsLogged, AttemptsMatchProgress
<1>10. ExhaustedAfterActions'
  BY <1>3, <1>4, <1>8 DEF Accounting, ExhaustedAfterActions, setStatus, TypeOK, StoreTypeOK
<1> QED
  BY <1>7, <1>9, <1>10 DEF Accounting

\* A rolled-back transaction turns an accepted send into a lost one.
LEMMA TxThrowsOutcome ==
    ASSUME TypeOK, NEW t \in Ticks, TickViews, Accounting, TxThrows(t)
    PROVE  TickOutcome(t) /\ Accounting'
<1> DEFINE j == tickJourney[t]
           step == tickStep[t]
           result == tickResult[t]
<1>1. tickPc[t] \in InTransaction /\ TickView(t)
  BY DEF TxThrows, TickViews
<1>2. j \in Journeys /\ step \in Steps /\ j # NoJourney
  BY <1>1, OpenFacts
<1>3. /\ faults' \in Nat /\ CloseTx(t) /\ UNCHANGED <<journeyRow, touchAttempt>>
      /\ lostSends' = IF result = "sent" THEN Bump(lostSends, j, step) ELSE lostSends
  BY DEF TxThrows, Fault, TypeOK, StoreTypeOK
<1>4. \A i \in Journeys, s \in Steps :
         AcceptedOpen(i, s)' <=> AcceptedOpen(i, s) /\ i # j
  BY <1>2, <1>3, CloseAccepted
<1>5. \A i \in Journeys, s \in Steps :
         i = j => (AcceptedOpen(i, s) <=> s = step /\ result = "sent")
  BY <1>2, AcceptedByHolder
<1> HIDE DEF j, step, result
<1>6. StoreTypeOK'
  BY <1>3 DEF journeyRow, CloseTx, TypeOK, StoreTypeOK
<1>7. lostSends \in [Journeys -> [Steps -> Nat]]
  BY DEF TypeOK, DispatcherTypeOK
<1>8. lostSends' \in [Journeys -> [Steps -> Nat]]
  BY <1>2, <1>3, <1>7, BumpType
<1>9. TickOutcome(t)
  BY <1>1, <1>3, <1>6, <1>8, CloseOutcome DEF journeyRow
<1>10. \A i \in Journeys, s \in Steps :
          lostSends'[i][s] = IF i = j /\ s = step /\ result = "sent"
                               THEN lostSends[i][s] + 1 ELSE lostSends[i][s]
  <2>1. CASE result = "sent"
    <3>1. lostSends' = Bump(lostSends, j, step)
      BY <1>3, <2>1
    <3> QED
      BY <1>2, <1>7, <2>1, <3>1 DEF Bump
  <2>2. CASE result # "sent"
    BY <1>3, <2>2
  <2> QED
    BY <2>1, <2>2
<1>11. UNCHANGED <<sends, activities, exitRuns, status, currentStepOrder>>
  BY <1>3 DEF CloseTx, worldVars, journeyRow
<1>12. EverySendAccounted'
  <2> SUFFICES ASSUME NEW i \in Journeys, NEW s \in Steps
               PROVE  sends[i][s] = lostSends'[i][s]
                                    + (IF touchAttempt[i][s] = "sent" THEN 1 ELSE 0)
                                    + (IF AcceptedOpen(i, s)' THEN 1 ELSE 0)
    BY <1>3, <1>11 DEF EverySendAccounted
  <2>1. sends[i][s] = lostSends[i][s] + (IF touchAttempt[i][s] = "sent" THEN 1 ELSE 0)
                                      + (IF AcceptedOpen(i, s) THEN 1 ELSE 0)
    BY DEF Accounting, EverySendAccounted
  <2>2. lostSends[i][s] \in Nat
    BY <1>7
  <2> QED
    BY <1>4, <1>5, <1>10, <2>1, <2>2
<1>13. (SentIsLogged /\ AttemptsMatchProgress /\ ExhaustedAfterActions)'
  BY <1>3, <1>11 DEF Accounting, SentIsLogged, AttemptsMatchProgress, ExhaustedAfterActions
<1> QED
  BY <1>9, <1>12, <1>13 DEF Accounting

-----------------------------------------------------------------------------
(* Putting the steps together *)

\* The safety invariants together; none but TypeOK is inductive without the
\* others, and all need OpenTransactions.
IInv ==
    /\ TypeOK
    /\ OpenTransactions
    /\ Accounting

\* Every step of a tick has the outcome and keeps the books.
LEMMA TickStepOutcome ==
    ASSUME IInv, NEW t \in Ticks, TickStep(t) \/ TickThrows(t)
    PROVE  TickOutcome(t) /\ Accounting'
<1>1. TypeOK /\ TickViews /\ TickView(t) /\ Accounting
  BY DEF IInv, OpenTransactions, TickViews
<1>2. CASE TickStart(t)
  <2>1. UNCHANGED <<tickJourney, tickStep, tickResult, sends, activities, exitRuns, lostSends,
                    touchAttempt, currentStepOrder, status>>
    BY <1>2 DEF TickStart, storeVars, worldVars
  <2> QED
    BY <1>1, <1>2, <2>1, TickStartOutcome, QuietAccounting
<1>3. ASSUME NEW j \in Journeys, DispatchOne(t, j) \/ DispatchThrows(t, j)
      PROVE  TickOutcome(t) /\ Accounting'
  BY <1>1, <1>3, SkipOutcome, DeferOutcome, NoChannelOutcome, RejectOutcome, SkipStepOutcome,
     BeginSendOutcome, BeginExhaustOutcome DEF DispatchOne
<1>4. CASE Proceed(t) \/ TxThrows(t)
  BY <1>1, <1>4, SendAcceptedOutcome, SendRefusedOutcome, LogTouchOutcome, RunExitActionOutcome,
     CommitSendOutcome, CommitExhaustOutcome, TxThrowsOutcome DEF Proceed
<1> QED
  BY <1>2, <1>3, <1>4 DEF TickStep, TickThrows

\* A view survives when its tick and its row are left alone.
LEMMA ViewKept ==
    ASSUME TypeOK, TypeOK', NEW u \in Ticks, TickView(u), WorldGrows, now <= now',
           tickPc'[u] = tickPc[u], tickNow'[u] = tickNow[u], tickJourney'[u] = tickJourney[u],
           tickStep'[u] = tickStep[u], tickResult'[u] = tickResult[u],
           tickAction'[u] = tickAction[u],
           tickJourney[u] # NoJourney =>
              /\ lockedBy'[tickJourney[u]] = lockedBy[tickJourney[u]]
              /\ status'[tickJourney[u]] = status[tickJourney[u]]
              /\ nextTouchAt'[tickJourney[u]] = nextTouchAt[tickJourney[u]]
              /\ currentStepOrder'[tickJourney[u]] = currentStepOrder[tickJourney[u]]
              /\ touchAttempt'[tickJourney[u]] = touchAttempt[tickJourney[u]]
    PROVE  TickView(u)'
<1>1. tickNow'[u] <= now'
  BY DEF TickView, TypeOK, StoreTypeOK, DispatcherTypeOK
<1>2. CASE tickPc[u] \notin InTransaction
  BY <1>1, <1>2 DEF TickView, InTransaction
<1>3. CASE tickPc[u] \in InTransaction
  <2>1. tickJourney[u] \in Journeys /\ tickStep[u] \in Steps /\ tickJourney[u] # NoJourney
    BY <1>3, OpenFacts
  <2>2. tickPc[u] = "recording" => activities'[tickJourney[u]][tickStep[u]] >= 1
    BY <2>1 DEF TickView, WorldGrows, TypeOK, DispatcherTypeOK
  <2>3. tickPc[u] = "actions" =>
           \A a \in 1 .. tickAction[u] : exitRuns'[tickJourney[u]][a] >= 1
    <3> SUFFICES ASSUME tickPc[u] = "actions", NEW a \in 1 .. tickAction[u]
                 PROVE  exitRuns'[tickJourney[u]][a] >= 1
      OBVIOUS
    <3>1. a \in 1 .. ExitActions
      BY DEF TypeOK, DispatcherTypeOK
    <3>2. exitRuns[tickJourney[u]][a] >= 1
      BY DEF TickView
    <3>3. /\ exitRuns[tickJourney[u]][a] \in Nat /\ exitRuns'[tickJourney[u]][a] \in Nat
          /\ exitRuns'[tickJourney[u]][a] >= exitRuns[tickJourney[u]][a]
      <4>1. exitRuns \in [Journeys -> [1 .. ExitActions -> Nat]]
        BY DEF TypeOK, DispatcherTypeOK
      <4>2. exitRuns' \in [Journeys -> [1 .. ExitActions -> Nat]]
        BY DEF TypeOK, DispatcherTypeOK
      <4>3. exitRuns'[tickJourney[u]][a] >= exitRuns[tickJourney[u]][a]
        BY <2>1, <3>1 DEF WorldGrows
      <4>4. /\ exitRuns[tickJourney[u]] \in [1 .. ExitActions -> Nat]
            /\ exitRuns'[tickJourney[u]] \in [1 .. ExitActions -> Nat]
        BY <2>1, <4>1, <4>2
      <4> QED
        BY <3>1, <4>3, <4>4
    <3> QED
      BY <3>2, <3>3
  <2> QED
    BY <1>1, <1>3, <2>1, <2>2, <2>3 DEF TickView, IsDue
<1> QED
  BY <1>2, <1>3

\* The steps of the dispatcher preserve the invariant.
LEMMA DispatchKeeps ==
    ASSUME IInv, NEW t \in Ticks, TickStep(t) \/ TickThrows(t), UNCHANGED requestVars
    PROVE  IInv'
<1>1. TickOutcome(t) /\ Accounting'
  BY TickStepOutcome
<1>2. TypeOK'
  BY <1>1 DEF IInv, TickOutcome, TypeOK, LockTypeOK, RequestsTypeOK, requestVars
<1>3. BulkView' /\ HandlerView'
  <2>1. HandlerView'
    BY DEF IInv, OpenTransactions, HandlerView, requestVars
  <2>2. ASSUME NEW b \in Bulks, NEW j \in bulkHeld[b]
        PROVE  lockedBy'[j] = b
    <3>1. j \in Journeys /\ lockedBy[j] = b
      BY DEF IInv, OpenTransactions, BulkView, TypeOK, RequestsTypeOK
    <3>2. b \notin {Nobody, t}
      OBVIOUS
    <3> QED
      BY <1>1, <3>1, <3>2 DEF TickOutcome, TickFrame
  <2> QED
    BY <2>1, <2>2 DEF BulkView, requestVars
<1>4. ASSUME NEW u \in Ticks
      PROVE  TickView(u)'
  <2>1. CASE u = t
    BY <1>1, <2>1 DEF TickOutcome
  <2>2. CASE u # t
    <3>1. TypeOK /\ TickView(u)
      BY DEF IInv, OpenTransactions
    <3>2. now <= now' /\ WorldGrows
      BY <1>1, <3>1 DEF TickOutcome, TickFrame, TypeOK, StoreTypeOK
    <3>3. tickJourney[u] # NoJourney =>
             tickJourney[u] \in Journeys /\ lockedBy[tickJourney[u]] \notin {Nobody, t}
      BY <2>2, <3>1 DEF TickView, TypeOK, DispatcherTypeOK
    <3> QED
      BY <1>1, <1>2, <2>2, <3>1, <3>2, <3>3, ViewKept DEF TickOutcome, TickFrame
  <2> QED
    BY <2>1, <2>2
<1> QED
  BY <1>1, <1>2, <1>3, <1>4 DEF IInv, OpenTransactions

\* The steps of the requests preserve the invariant.
LEMMA RequestsKeep ==
    ASSUME IInv, RequestStep, UNCHANGED dispatcherVars
    PROVE  IInv'
<1>1. RequestFrame
  BY RequestsKeepFrame DEF IInv, OpenTransactions
<1>2. UNCHANGED <<tickPc, tickNow, tickIds, tickJourney, tickStep, tickResult, tickAction, sends,
                  activities, exitRuns, lostSends>>
  BY DEF dispatcherVars
<1>3. TypeOK'
  BY <1>1, <1>2 DEF IInv, RequestFrame, RowFrame, TypeOK, DispatcherTypeOK
<1>4. ASSUME NEW u \in Ticks
      PROVE  TickView(u)'
  <2>1. TypeOK /\ TickView(u)
    BY DEF IInv, OpenTransactions
  <2>2. WorldGrows /\ now <= now'
    BY <1>1, <1>2, <2>1, WorldStays DEF TypeOK, StoreTypeOK, RequestFrame, RowFrame
  <2>3. tickJourney[u] # NoJourney =>
           /\ tickJourney[u] \in Journeys /\ lockedBy[tickJourney[u]] \in Ticks
           /\ status[tickJourney[u]] = "running"
    BY <2>1 DEF TickView, IsDue, TypeOK, DispatcherTypeOK
  <2> QED
    BY <1>1, <1>2, <1>3, <2>1, <2>2, <2>3, ViewKept DEF RequestFrame, RowFrame
<1>5. Accounting'
  BY <1>1, <1>2, QuietAccounting DEF IInv, RequestFrame, RowFrame
<1> QED
  BY <1>1, <1>3, <1>4, <1>5 DEF IInv, OpenTransactions, RequestFrame, RowFrame

\* The passing of time preserves the invariant.
LEMMA TimeKeeps ==
    ASSUME IInv, ClockTick, UNCHANGED requestVars
    PROVE  IInv'
<1>1. now' = now + 1 /\ UNCHANGED <<journeyRow, touchAttempt, ownerUserId, lockedBy, faults,
                                    dispatcherVars, requestVars>>
  BY DEF ClockTick
<1>2. TypeOK'
  BY <1>1 DEF IInv, TypeOK, StoreTypeOK, DispatcherTypeOK, RequestsTypeOK, journeyRow,
              dispatcherVars, requestVars
<1>3. ASSUME NEW u \in Ticks
      PROVE  TickView(u)'
  <2>1. TypeOK /\ TickView(u)
    BY DEF IInv, OpenTransactions
  <2>2. WorldGrows /\ now <= now'
    BY <1>1, <2>1, WorldStays DEF TypeOK, StoreTypeOK, dispatcherVars
  <2> QED
    BY <1>1, <1>2, <2>1, <2>2, ViewKept DEF journeyRow, dispatcherVars
<1>4. Accounting'
  BY <1>1, QuietAccounting DEF IInv, journeyRow, dispatcherVars
<1>5. BulkView' /\ HandlerView'
  BY <1>1 DEF IInv, OpenTransactions, BulkView, HandlerView, requestVars
<1> QED
  BY <1>2, <1>3, <1>4, <1>5 DEF IInv, OpenTransactions

\* After a crash nothing is open; the sends whose transaction it rolled back
\* are lost sends.
LEMMA CrashKeeps ==
    ASSUME IInv, Crash
    PROVE  IInv'
<1>1. StoreTypeOK' /\ lockedBy' \in [Journeys -> Ticks \cup Bulks \cup {Nobody}]
  BY DEF Crash, Fault, IInv, TypeOK, StoreTypeOK, journeyRow
<1>2. lostSends \in [Journeys -> [Steps -> Nat]]
  BY DEF IInv, TypeOK, DispatcherTypeOK
<1>3. lostSends' = [j \in Journeys |-> [s \in Steps |->
          IF AcceptedOpen(j, s) THEN lostSends[j][s] + 1 ELSE lostSends[j][s]]]
  BY DEF Crash, AcceptedOpen
<1>4. lostSends' \in [Journeys -> [Steps -> Nat]]
  BY <1>2, <1>3
<1>5. DispatcherTypeOK'
  <2>1. 0 \in Steps /\ 0 \in 0 .. ExitActions
    BY DEF Steps
  <2>2. /\ tickPc' \in [Ticks -> TickPc]
        /\ tickNow' \in [Ticks -> Nat]
        /\ tickIds' \in [Ticks -> SUBSET Journeys]
        /\ tickJourney' \in [Ticks -> Journeys \cup {NoJourney}]
        /\ tickStep' \in [Ticks -> Steps]
        /\ tickResult' \in [Ticks -> {"none", "sent", "failed"}]
        /\ tickAction' \in [Ticks -> 0 .. ExitActions]
    BY <2>1 DEF Crash, TickPc
  <2> QED
    BY <1>4, <2>2 DEF Crash, IInv, TypeOK, DispatcherTypeOK, worldVars
<1>6. RequestsTypeOK'
  BY DEF Crash, IInv, TypeOK, RequestsTypeOK, JourneyControlAction, BulkEvent
<1>7. ASSUME NEW u \in Ticks
      PROVE  TickView(u)'
  BY <1>1 DEF Crash, TickView, InTransaction, StoreTypeOK
<1>8. BulkView' /\ HandlerView'
  BY DEF Crash, BulkView, HandlerView
<1>9. UNCHANGED <<sends, activities, exitRuns, touchAttempt, currentStepOrder, status>>
  BY DEF Crash, journeyRow, worldVars
<1>10. EverySendAccounted'
  <2> SUFFICES ASSUME NEW i \in Journeys, NEW s \in Steps
               PROVE  sends[i][s] = lostSends'[i][s]
                                    + (IF touchAttempt[i][s] = "sent" THEN 1 ELSE 0)
                                    + (IF AcceptedOpen(i, s)' THEN 1 ELSE 0)
    BY <1>9 DEF EverySendAccounted
  <2>1. ~AcceptedOpen(i, s)'
    BY DEF Crash, AcceptedOpen
  <2>2. sends[i][s] = lostSends[i][s] + (IF touchAttempt[i][s] = "sent" THEN 1 ELSE 0)
                                      + (IF AcceptedOpen(i, s) THEN 1 ELSE 0)
    BY DEF IInv, Accounting, EverySendAccounted
  <2>3. lostSends'[i][s] = IF AcceptedOpen(i, s) THEN lostSends[i][s] + 1 ELSE lostSends[i][s]
    BY <1>3
  <2>4. lostSends[i][s] \in Nat
    BY <1>2
  <2> QED
    BY <2>1, <2>2, <2>3, <2>4
<1>11. (AttemptsMatchProgress /\ SentIsLogged /\ ExhaustedAfterActions)'
  BY <1>9 DEF IInv, Accounting, AttemptsMatchProgress, SentIsLogged, ExhaustedAfterActions
<1> QED
  BY <1>1, <1>5, <1>6, <1>7, <1>8, <1>10, <1>11 DEF IInv, TypeOK, OpenTransactions, Accounting

\* The invariant holds initially.
LEMMA InitInvariant == Init => IInv
<1> SUFFICES ASSUME Init PROVE IInv
  OBVIOUS
<1>1. TypeOK
  BY InitTypes
<1>2. OpenTransactions
  BY DEF Init, DispatcherInit, RequestsInit, OpenTransactions, TickView, BulkView, HandlerView,
         InTransaction
<1>3. Accounting
  <2>1. \A j \in Journeys, s \in Steps :
           /\ ~AcceptedOpen(j, s) /\ sends[j][s] = 0 /\ lostSends[j][s] = 0
           /\ touchAttempt[j][s] = "none" /\ currentStepOrder[j] = -1
           /\ status[j] # "exhausted"
    BY DEF Init, DispatcherInit, AcceptedOpen
  <2>2. EverySendAccounted /\ SentIsLogged
    BY <2>1 DEF EverySendAccounted, SentIsLogged
  <2>3. AttemptsMatchProgress
    BY <2>1 DEF AttemptsMatchProgress, Steps
  <2>4. ExhaustedAfterActions
    BY DEF Init, ExhaustedAfterActions
  <2> QED
    BY <2>2, <2>3, <2>4 DEF Accounting
<1> QED
  BY <1>1, <1>2, <1>3 DEF IInv

\* Every step of the engine preserves the invariant.
LEMMA NextInvariant == IInv /\ [Next]_vars => IInv'
<1> SUFFICES ASSUME IInv, [Next]_vars PROVE IInv'
  OBVIOUS
<1>1. ASSUME NEW t \in Ticks, Dispatch(t) \/ (TickThrows(t) /\ UNCHANGED requestVars)
      PROVE  IInv'
  BY <1>1, DispatchKeeps DEF Dispatch
<1>2. ASSUME RequestStep, UNCHANGED dispatcherVars
      PROVE  IInv'
  BY <1>2, RequestsKeep
<1>3. CASE Time
  BY <1>3, TimeKeeps DEF Time
<1>4. CASE Crash
  BY <1>4, CrashKeeps
<1>5. CASE UNCHANGED vars
  BY <1>5 DEF vars, IInv, TypeOK, StoreTypeOK, DispatcherTypeOK, RequestsTypeOK,
              OpenTransactions, TickView, BulkView, HandlerView, IsDue, Accounting,
              EverySendAccounted, AcceptedOpen, AttemptsMatchProgress, SentIsLogged,
              ExhaustedAfterActions
<1>6. ASSUME NEW t \in Ticks, Nothing(t)
      PROVE  IInv'
  <2>1. UNCHANGED vars
    BY <1>6 DEF Nothing, TickNothing, vars, storeVars, dispatcherVars, requestVars
  <2> QED
    BY <1>5, <2>1
<1> QED
  BY <1>1, <1>2, <1>3, <1>4, <1>5, <1>6
     DEF Next, Reply, Control, Bulk, Backfill, Failure, RequestStep

\* The inductive invariant: types, the view of every open transaction, and the
\* books of what was sent, recorded, logged and run.
THEOREM Invariant == Spec => []IInv
BY InitInvariant, NextInvariant, PTL DEF Spec

\* Every variable stays within its type, whatever the number of journeys,
\* ticks and handlers: the step of the dispatcher never leaves the cadence.
THEOREM EngineTypes == Spec => []TypeOK
BY Invariant, PTL DEF IInv

\* An open dispatch transaction stays the only one with its journey and acts on
\* what the row still says, whatever ticks and requests do meanwhile.
THEOREM EngineOpenTransactions == Spec => []OpenTransactions
BY Invariant, PTL DEF IInv

\* Every touch a channel accepted is accounted for exactly once: sends exceed
\* the recorded attempt only by rolled-back transactions, however ticks overlap.
THEOREM EngineSends == Spec => []EverySendAccounted
BY Invariant, PTL DEF IInv, Accounting

\* The attempts of a journey are the steps it has gone through.
THEOREM EngineProgress == Spec => []AttemptsMatchProgress
BY Invariant, PTL DEF IInv, Accounting

\* A touch recorded as sent has its activity in the CRM.
THEOREM EngineLogs == Spec => []SentIsLogged
BY Invariant, PTL DEF IInv, Accounting

\* An exhausted journey went through all its steps and had every onExhausted
\* action run.
THEOREM EngineExhausts == Spec => []ExhaustedAfterActions
BY Invariant, PTL DEF IInv, Accounting

\* Only a channel that accepts a message counts a send.
LEMMA OnlySendSends ==
    ASSUME [Next]_vars, sends' # sends
    PROVE  \E t \in Ticks : SendAccepted(t)
BY DEF Next, Dispatch, TickStep, TickStart, DispatchOne, SkipStale, Defer, NoChannel,
       SkipClaimed, RejectStep, SkipStep, CommitAtOnce, BeginSend, BeginExhaust, Open,
       Proceed, SendRefused, LogTouch, RunExitAction, CommitSend, CommitExhaust, CloseTx,
       TickThrows, DispatchThrows, TxThrows, Nothing, TickNothing, Reply, Control, Bulk,
       Backfill, Time, ClockTick, Failure, Crash, dispatcherVars, worldVars, vars

\* A touch leaves only while the committed row says running, due and one step
\* behind: the row lock keeps pauses, stops and replies out.
THEOREM EngineTouches == Spec => TouchOnlyWhileRunning
<1> DEFINE Touching ==
      \A j \in Journeys, s \in Steps :
          sends'[j][s] > sends[j][s] =>
              /\ status[j] = "running"
              /\ nextTouchAt[j] # NoTouch /\ nextTouchAt[j] <= now
              /\ s = currentStepOrder[j] + 1
<1>1. IInv /\ [Next]_vars => [Touching]_vars
  <2> SUFFICES ASSUME IInv, [Next]_vars, NEW j \in Journeys, NEW s \in Steps,
                      sends'[j][s] > sends[j][s]
               PROVE  /\ status[j] = "running"
                      /\ nextTouchAt[j] # NoTouch /\ nextTouchAt[j] <= now
                      /\ s = currentStepOrder[j] + 1
    OBVIOUS
  <2>1. sends \in [Journeys -> [Steps -> Nat]]
    BY DEF IInv, TypeOK, DispatcherTypeOK
  <2>2. sends' # sends
    BY <2>1
  <2>3. PICK t \in Ticks : SendAccepted(t)
    BY <2>2, OnlySendSends
  <2>4. tickPc[t] = "sending" /\ sends' = Bump(sends, tickJourney[t], tickStep[t])
    BY <2>3 DEF SendAccepted
  <2>5. TypeOK /\ TickView(t)
    BY DEF IInv, OpenTransactions
  <2>6. tickJourney[t] \in Journeys /\ tickStep[t] \in Steps
    BY <2>4, <2>5, OpenFacts DEF InTransaction
  <2>7. j = tickJourney[t] /\ s = tickStep[t]
    BY <2>1, <2>4, <2>6 DEF Bump
  <2>8. IsDue(j, tickNow[t]) /\ tickNow[t] <= now /\ s = currentStepOrder[j] + 1
    BY <2>4, <2>5, <2>7 DEF TickView, InTransaction
  <2>9. nextTouchAt[j] <= now
    BY <2>5, <2>8 DEF IsDue, TypeOK, StoreTypeOK, DispatcherTypeOK, Touch
  <2> QED
    BY <2>8, <2>9 DEF IsDue
<1> QED
  BY <1>1, Invariant, PTL DEF Spec, TouchOnlyWhileRunning

-----------------------------------------------------------------------------
(* The order of the exit actions *)

\* The order, with what an open transaction adds: of the actions it is going
\* through, the last one run is strictly ahead of the next.
ExitOrder ==
    /\ ExitActionsInOrder
    /\ \A t \in Ticks, a \in 1 .. ExitActions - 1 :
          tickPc[t] = "actions" /\ tickAction[t] = a =>
              exitRuns[tickJourney[t]][a + 1] < exitRuns[tickJourney[t]][a]

\* What a step that runs no exit action does to tick u: it is not, or not yet,
\* through any, or it is where it was.
ExitKept(u) ==
    tickPc'[u] = "actions" =>
        \/ tickAction'[u] = 0
        \/ /\ tickPc[u] = "actions"
           /\ tickAction'[u] = tickAction[u]
           /\ tickJourney'[u] = tickJourney[u]

\* Where nothing is run, the order stays.
LEMMA QuietExits ==
    ASSUME ExitOrder, exitRuns' = exitRuns, \A u \in Ticks : ExitKept(u)
    PROVE  ExitOrder'
<1>1. ExitActionsInOrder'
  BY DEF ExitOrder, ExitActionsInOrder
<1>2. ASSUME NEW u \in Ticks, NEW a \in 1 .. ExitActions - 1,
             tickPc'[u] = "actions", tickAction'[u] = a
      PROVE  exitRuns'[tickJourney'[u]][a + 1] < exitRuns'[tickJourney'[u]][a]
  BY <1>2 DEF ExitKept, ExitOrder
<1> QED
  BY <1>1, <1>2 DEF ExitOrder

\* Of the steps of a tick, all but one run no exit action, and only the opening
\* of a transaction takes it to the actions.
LEMMA ExitTick ==
    ASSUME DispatcherTypeOK, NEW t \in Ticks, TickStep(t) \/ TickThrows(t), ~RunExitAction(t)
    PROVE  /\ exitRuns' = exitRuns
           /\ tickPc'[t] = "actions" => tickPc[t] = "loop" /\ tickAction' = tickAction
<1>1. CASE TickStart(t)
  BY <1>1 DEF TickStart, worldVars, DispatcherTypeOK
<1>2. ASSUME NEW j \in Journeys,
             DispatchOne(t, j) \/ DispatchThrows(t, j), ~BeginSend(t, j), ~BeginExhaust(t, j)
      PROVE  exitRuns' = exitRuns /\ tickPc'[t] # "actions"
  <2>1. CommitAtOnce(t, j)
    BY <1>2 DEF DispatchOne, SkipStale, Defer, NoChannel, SkipClaimed, RejectStep, SkipStep,
                DispatchThrows
  <2> QED
    BY <2>1, NextIdOutcome DEF CommitAtOnce, worldVars
<1>3. ASSUME NEW j \in Journeys, BeginSend(t, j)
      PROVE  exitRuns' = exitRuns /\ tickPc'[t] # "actions"
  BY <1>3 DEF BeginSend, Open, worldVars, DispatcherTypeOK
<1>4. ASSUME NEW j \in Journeys, BeginExhaust(t, j)
      PROVE  exitRuns' = exitRuns /\ tickPc[t] = "loop" /\ tickAction' = tickAction
  BY <1>4 DEF BeginExhaust, Open, Eligible, lockById, worldVars
<1>5. CASE SendAccepted(t) \/ SendRefused(t) \/ LogTouch(t)
  BY <1>5 DEF SendAccepted, SendRefused, LogTouch, Continue, worldVars, DispatcherTypeOK
<1>6. CASE CommitSend(t) \/ CommitExhaust(t) \/ TxThrows(t)
  <2>1. CloseTx(t)
    BY <1>6 DEF CommitSend, CommitExhaust, TxThrows
  <2> QED
    BY <2>1 DEF CloseTx, NextId, worldVars, DispatcherTypeOK
<1> QED
  BY <1>1, <1>2, <1>3, <1>4, <1>5, <1>6 DEF TickStep, TickThrows, Proceed

\* Running the next action of the list keeps its predecessors ahead.
LEMMA ExitRun ==
    ASSUME IInv, ExitOrder, NEW t \in Ticks, RunExitAction(t)
    PROVE  ExitOrder'
<1> DEFINE j == tickJourney[t]
           n == tickAction[t] + 1
<1>1. TypeOK /\ TickViews /\ TickView(t) /\ tickPc[t] = "actions" /\ tickPc[t] \in InTransaction
  BY DEF IInv, OpenTransactions, TickViews, RunExitAction, InTransaction
<1>2. j \in Journeys /\ j # NoJourney /\ n \in 1 .. ExitActions /\ tickAction[t] = n - 1
  <2>1. tickAction[t] \in 0 .. ExitActions /\ tickAction[t] < ExitActions
    BY <1>1 DEF RunExitAction, TypeOK, DispatcherTypeOK
  <2> QED
    BY <1>1, <2>1, OpenFacts
<1>3. /\ exitRuns' = Bump(exitRuns, j, n)
      /\ tickAction' = [tickAction EXCEPT ![t] = n]
      /\ tickPc' = [tickPc EXCEPT ![t] = "actions"]
      /\ tickJourney' = tickJourney
  BY <1>1 DEF RunExitAction, Continue, TypeOK, DispatcherTypeOK
<1>4. \A i \in Journeys, a \in 1 .. ExitActions :
         /\ exitRuns[i][a] \in Nat
         /\ exitRuns'[i][a] = IF i = j /\ a = n THEN exitRuns[i][a] + 1 ELSE exitRuns[i][a]
  <2>1. exitRuns \in [Journeys -> [1 .. ExitActions -> Nat]]
    BY <1>1 DEF TypeOK, DispatcherTypeOK
  <2> QED
    BY <1>2, <1>3, <2>1 DEF Bump
<1>5. \A a \in 1 .. ExitActions - 1 : a + 1 = n => exitRuns[j][n] < exitRuns[j][a]
  <2> SUFFICES ASSUME NEW a \in 1 .. ExitActions - 1, a + 1 = n
               PROVE  exitRuns[j][a + 1] < exitRuns[j][a]
    OBVIOUS
  <2>1. tickAction[t] = a
    BY <1>2
  <2> QED
    BY <1>1, <2>1 DEF ExitOrder
<1>6. \A i \in Journeys, a \in 1 .. ExitActions - 1 : exitRuns[i][a + 1] <= exitRuns[i][a]
  BY DEF ExitOrder, ExitActionsInOrder
<1>7. ASSUME NEW u \in Ticks \ {t}, tickPc[u] = "actions"
      PROVE  tickJourney[u] \in Journeys /\ tickJourney[u] # j
  <2>1. TickView(u) /\ tickPc[u] \in InTransaction
    BY <1>1, <1>7 DEF TickViews, InTransaction
  <2> QED
    BY <1>1, <1>2, <2>1, OpenFacts, SoleHolder
<1> HIDE DEF j, n
<1>8. ExitActionsInOrder'
  <2> SUFFICES ASSUME NEW i \in Journeys, NEW a \in 1 .. ExitActions - 1
               PROVE  exitRuns'[i][a + 1] <= exitRuns'[i][a]
    BY DEF ExitActionsInOrder
  <2>1. a \in 1 .. ExitActions /\ a + 1 \in 1 .. ExitActions
    OBVIOUS
  <2> QED
    BY <1>2, <1>4, <1>5, <1>6, <2>1
<1>9. ASSUME NEW u \in Ticks, NEW a \in 1 .. ExitActions - 1,
             tickPc'[u] = "actions", tickAction'[u] = a
      PROVE  exitRuns'[tickJourney[u]][a + 1] < exitRuns'[tickJourney[u]][a]
  <2>1. a \in 1 .. ExitActions /\ a + 1 \in 1 .. ExitActions
    OBVIOUS
  <2>2. CASE u = t
    <3>1. a = n /\ tickJourney[u] = j
      BY <1>1, <1>3, <1>9, <2>2 DEF TypeOK, DispatcherTypeOK, j
    <3>2. exitRuns'[j][a] = exitRuns[j][a] + 1 /\ exitRuns'[j][a + 1] = exitRuns[j][a + 1]
      BY <1>2, <1>4, <2>1, <3>1
    <3> QED
      BY <1>2, <1>4, <1>6, <2>1, <3>1, <3>2
  <2>3. CASE u # t
    <3>1. tickPc[u] = "actions" /\ tickAction[u] = a
      BY <1>1, <1>3, <1>9, <2>3 DEF TypeOK, DispatcherTypeOK
    <3>2. exitRuns[tickJourney[u]][a + 1] < exitRuns[tickJourney[u]][a]
      BY <3>1 DEF ExitOrder
    <3> QED
      BY <1>4, <1>7, <2>1, <2>3, <3>1, <3>2
  <2> QED
    BY <2>2, <2>3
<1> QED
  BY <1>3, <1>8, <1>9 DEF ExitOrder

\* Every step keeps the order.
LEMMA ExitNext == IInv /\ ExitOrder /\ [Next]_vars => ExitOrder'
<1> SUFFICES ASSUME IInv, ExitOrder, [Next]_vars PROVE ExitOrder'
  OBVIOUS
<1>1. ASSUME NEW t \in Ticks, TickStep(t) \/ TickThrows(t)
      PROVE  ExitOrder'
  <2>1. CASE RunExitAction(t)
    BY <2>1, ExitRun
  <2>2. CASE ~RunExitAction(t)
    <3>1. DispatcherTypeOK /\ TickView(t)
      BY DEF IInv, TypeOK, OpenTransactions
    <3>2. /\ exitRuns' = exitRuns
          /\ tickPc'[t] = "actions" => tickPc[t] = "loop" /\ tickAction' = tickAction
      BY <1>1, <2>2, <3>1, ExitTick
    <3>3. ExitKept(t)
      BY <3>1, <3>2 DEF ExitKept, TickView, InTransaction
    <3>4. ASSUME NEW u \in Ticks \ {t}
          PROVE  ExitKept(u)
      <4>1. TickFrame(t)
        BY <1>1, TickStepOutcome DEF TickOutcome
      <4> QED
        BY <4>1 DEF TickFrame, ExitKept
    <3> QED
      BY <3>2, <3>3, <3>4, QuietExits
  <2> QED
    BY <2>1, <2>2
<1>2. CASE UNCHANGED dispatcherVars
  <2>1. UNCHANGED <<exitRuns, tickPc, tickAction, tickJourney>>
    BY <1>2 DEF dispatcherVars
  <2> QED
    BY <2>1, QuietExits DEF ExitKept
<1>3. CASE Crash
  BY <1>3, QuietExits DEF Crash, worldVars, ExitKept
<1>4. CASE UNCHANGED vars
  BY <1>2, <1>4 DEF vars, dispatcherVars
<1> QED
  BY <1>1, <1>2, <1>3, <1>4 DEF Next, Dispatch, Nothing, TickNothing, Reply, Control, Bulk,
     Backfill, Time, ClockTick, Failure

\* Exit actions run in the order the cadence lists them, for any number of
\* actions, overlapping ticks and transactions cut short and repeated.
THEOREM EngineExitOrder == Spec => []ExitActionsInOrder
<1>1. Init => ExitOrder
  <2> SUFFICES ASSUME Init PROVE ExitOrder
    OBVIOUS
  <2>1. /\ exitRuns = [j \in Journeys |-> [a \in 1 .. ExitActions |-> 0]]
        /\ \A t \in Ticks : tickPc[t] = "idle"
    BY DEF Init, DispatcherInit
  <2> QED
    BY <2>1 DEF ExitOrder, ExitActionsInOrder
<1>2. ExitOrder => ExitActionsInOrder
  BY DEF ExitOrder
<1> QED
  BY <1>1, <1>2, ExitNext, Invariant, PTL DEF Spec

-----------------------------------------------------------------------------
(* What the lifecycle guarantees whoever implements it *)

\* What the transition table allows, in the form the proofs use.
LEMMA Table ==
    ASSUME NEW current \in LeadJourneyStatus, NEW event \in JourneyEvent
    PROVE  /\ TransitionTo[event] \in LeadJourneyStatus
           /\ CanTransition(current, event)
                => current \notin {"replied", "exhausted", "stopped"}
BY DEF TransitionTo, CanTransition, TransitionFrom, JourneyEvent, NonTerminalStatuses,
       LeadJourneyStatus

\* The steps for which a message of the journey has left.
touched == [j \in Journeys |-> {s \in Steps : sends[j][s] > 0}]

\* The lifecycle's actions over the engine's variables.
LEMMA LifecycleRaise ==
    ASSUME NEW S, NEW event
    PROVE  Lifecycle!Raise(S, event) <=>
              /\ \A j \in S : /\ CanTransition(status[j], event)
                              /\ event = "exhaust" => IsExhausted(currentStepOrder[j], StepCount)
              /\ status' = [j \in Journeys |-> IF j \in S THEN TransitionTo[event] ELSE status[j]]
              /\ currentStepOrder' = currentStepOrder /\ touched' = touched
BY DEF Lifecycle!Raise, Lifecycle!CanTransition, Lifecycle!IsExhausted, Lifecycle!NextStepOrder,
       Lifecycle!TransitionTo, Lifecycle!TransitionFrom, Lifecycle!NonTerminalStatuses,
       CanTransition, IsExhausted, NextStepOrder, TransitionTo, TransitionFrom,
       NonTerminalStatuses, touched

LEMMA LifecycleOwnerMapped ==
    ASSUME NEW S
    PROVE  Lifecycle!OwnerMapped(S) <=>
              /\ \A j \in S : status[j] = "error_state"
              /\ status' = [j \in Journeys |-> IF j \in S THEN "running" ELSE status[j]]
              /\ currentStepOrder' = currentStepOrder /\ touched' = touched
BY DEF Lifecycle!OwnerMapped, touched

LEMMA LifecycleTouch ==
    ASSUME NEW j
    PROVE  Lifecycle!TouchStep(j) <=>
              /\ status[j] = "running" /\ ~IsExhausted(currentStepOrder[j], StepCount)
              /\ touched' = [touched EXCEPT ![j] = @ \cup {currentStepOrder[j] + 1}]
              /\ status' = status /\ currentStepOrder' = currentStepOrder
BY DEF Lifecycle!TouchStep, Lifecycle!IsExhausted, Lifecycle!NextStepOrder, IsExhausted,
       NextStepOrder, touched

LEMMA LifecycleAdvance ==
    ASSUME NEW j
    PROVE  Lifecycle!Advance(j) <=>
              /\ status[j] = "running" /\ ~IsExhausted(currentStepOrder[j], StepCount)
              /\ currentStepOrder' = [currentStepOrder EXCEPT ![j] = @ + 1]
              /\ status' = status /\ touched' = touched
BY DEF Lifecycle!Advance, Lifecycle!IsExhausted, Lifecycle!NextStepOrder, IsExhausted,
       NextStepOrder, touched

LEMMA LifecycleVars ==
    UNCHANGED Lifecycle!vars <=>
        status' = status /\ currentStepOrder' = currentStepOrder /\ touched' = touched
BY DEF Lifecycle!vars, touched

\* The lifecycle's types and order, and what no step of it touches once a
\* journey is at rest.
Typed ==
    /\ status \in [Journeys -> LeadJourneyStatus]
    /\ currentStepOrder \in [Journeys -> -1 .. StepCount - 1]
    /\ touched \in [Journeys -> SUBSET Steps]

Ordered == \A j \in Journeys : \A s \in touched[j] : s <= currentStepOrder[j] + 1

LEMMA LifecycleTyped ==
    (Lifecycle!TypeOK <=> Typed) /\ (Lifecycle!TypeOK' <=> Typed')
BY DEF Lifecycle!TypeOK, Lifecycle!Steps, Lifecycle!LeadJourneyStatus,
       Lifecycle!NonTerminalStatuses, LeadJourneyStatus, Steps, touched, Typed

LEMMA LifecycleOrdered ==
    (Lifecycle!TouchedInOrder <=> Ordered) /\ (Lifecycle!TouchedInOrder' <=> Ordered')
BY DEF Lifecycle!TouchedInOrder, touched, Ordered

LEMMA LifecycleNext ==
    Lifecycle!Next <=>
        \/ \E S \in SUBSET Journeys : \/ \E event \in JourneyEvent : Lifecycle!Raise(S, event)
                                      \/ Lifecycle!OwnerMapped(S)
        \/ \E j \in Journeys : Lifecycle!TouchStep(j) \/ Lifecycle!Advance(j)
BY DEF Lifecycle!Next, Lifecycle!JourneyEvent, JourneyEvent

Rest ==
    \A j \in Journeys : status[j] \in {"replied", "exhausted", "stopped"} =>
        /\ status'[j] = status[j]
        /\ currentStepOrder'[j] = currentStepOrder[j]
        /\ touched'[j] = touched[j]

\* A step of the lifecycle keeps the types, the order and what is at rest.
LEMMA LifecycleStep ==
    ASSUME Lifecycle!TypeOK, [Lifecycle!Next]_(Lifecycle!vars)
    PROVE  /\ Lifecycle!TypeOK'
           /\ Lifecycle!TouchedInOrder => Lifecycle!TouchedInOrder'
           /\ Rest
<1> DEFINE Outcome == Typed' /\ (Ordered => Ordered') /\ Rest
<1>1. /\ Lifecycle!TypeOK <=> Typed
      /\ Lifecycle!TypeOK' <=> Typed'
      /\ Lifecycle!TouchedInOrder <=> Ordered
      /\ Lifecycle!TouchedInOrder' <=> Ordered'
  BY LifecycleTyped, LifecycleOrdered
<1>2. Typed
  BY <1>1
<1>3. ASSUME NEW S \in SUBSET Journeys, NEW event \in JourneyEvent, Lifecycle!Raise(S, event)
      PROVE  Outcome
  <2>1. /\ \A j \in S : CanTransition(status[j], event)
        /\ status' = [j \in Journeys |-> IF j \in S THEN TransitionTo[event] ELSE status[j]]
        /\ currentStepOrder' = currentStepOrder /\ touched' = touched
    BY <1>3, LifecycleRaise
  <2> QED
    BY <1>2, <2>1, Table DEF Rest, Typed, Ordered
<1>4. ASSUME NEW S \in SUBSET Journeys, Lifecycle!OwnerMapped(S)
      PROVE  Outcome
  <2>1. /\ \A j \in S : status[j] = "error_state"
        /\ status' = [j \in Journeys |-> IF j \in S THEN "running" ELSE status[j]]
        /\ currentStepOrder' = currentStepOrder /\ touched' = touched
    BY <1>4, LifecycleOwnerMapped
  <2> QED
    BY <1>2, <2>1 DEF Rest, Typed, Ordered, LeadJourneyStatus
<1>5. ASSUME NEW j \in Journeys, Lifecycle!TouchStep(j)
      PROVE  Outcome
  <2>1. /\ status[j] = "running" /\ ~IsExhausted(currentStepOrder[j], StepCount)
        /\ touched' = [touched EXCEPT ![j] = @ \cup {currentStepOrder[j] + 1}]
        /\ status' = status /\ currentStepOrder' = currentStepOrder
    BY <1>5, LifecycleTouch
  <2>2. currentStepOrder[j] + 1 \in Steps
    BY <1>2, <2>1 DEF Typed, IsExhausted, NextStepOrder, Steps
  <2>3. Typed' /\ Rest
    BY <1>2, <2>1, <2>2 DEF Rest, Typed, Ordered
  <2>4. Ordered => Ordered'
    BY <1>2, <2>1 DEF Typed, Ordered
  <2> QED
    BY <2>3, <2>4
<1>6. ASSUME NEW j \in Journeys, Lifecycle!Advance(j)
      PROVE  Outcome
  <2>1. /\ status[j] = "running" /\ ~IsExhausted(currentStepOrder[j], StepCount)
        /\ currentStepOrder' = [currentStepOrder EXCEPT ![j] = @ + 1]
        /\ status' = status /\ touched' = touched
    BY <1>6, LifecycleAdvance
  <2>2. currentStepOrder[j] + 1 \in -1 .. StepCount - 1
    BY <1>2, <2>1 DEF Typed, IsExhausted, NextStepOrder
  <2>3. Typed' /\ Rest
    BY <1>2, <2>1, <2>2 DEF Rest, Typed, Ordered
  <2>4. Ordered => Ordered'
    <3> SUFFICES ASSUME Ordered, NEW i \in Journeys, NEW s \in touched[i]
                 PROVE  s <= currentStepOrder'[i] + 1
      BY <2>1 DEF Ordered
    <3> QED
      BY <1>2, <2>1 DEF Typed, Ordered, Steps
  <2> QED
    BY <2>3, <2>4
<1>7. ASSUME UNCHANGED Lifecycle!vars
      PROVE  Outcome
  <2>1. status' = status /\ currentStepOrder' = currentStepOrder /\ touched' = touched
    BY <1>7, LifecycleVars
  <2> QED
    BY <1>2, <2>1 DEF Rest, Typed, Ordered
<1>8. Outcome
  <2> HIDE DEF Outcome
  <2> QED
    BY <1>3, <1>4, <1>5, <1>6, <1>7, LifecycleNext
<1> QED
  BY <1>1, <1>8

\* The lifecycle starts well typed, with nothing touched.
LEMMA LifecycleInit == Lifecycle!Init => Lifecycle!TypeOK /\ Lifecycle!TouchedInOrder
<1> SUFFICES ASSUME Lifecycle!Init PROVE Lifecycle!TypeOK /\ Lifecycle!TouchedInOrder
  OBVIOUS
<1>1. /\ status \in [Journeys -> {"running", "error_state"}]
      /\ currentStepOrder = [j \in Journeys |-> -1]
      /\ touched = [j \in Journeys |-> {}]
  BY DEF Lifecycle!Init, touched
<1>2. Lifecycle!TypeOK
  BY <1>1, LifecycleTyped DEF LeadJourneyStatus, Typed
<1>3. Lifecycle!TouchedInOrder
  BY <1>1, LifecycleOrdered DEF Ordered
<1> QED
  BY <1>2, <1>3

\* In the lifecycle every variable stays within its type; the current step
\* never passes the last.
THEOREM LifecycleTypes == Lifecycle!Spec => []Lifecycle!TypeOK
BY LifecycleInit, LifecycleStep, PTL DEF Lifecycle!Spec

\* In the lifecycle steps are touched in order: never one beyond the step after
\* the current.
THEOREM LifecycleOrder == Lifecycle!Spec => []Lifecycle!TouchedInOrder
BY LifecycleInit, LifecycleStep, LifecycleTypes, PTL DEF Lifecycle!Spec

\* In the lifecycle a journey replied to, exhausted or stopped is at rest:
\* neither its status, nor its step, nor what was sent to its lead changes.
THEOREM LifecycleRest == Lifecycle!Spec => Lifecycle!AtRest
<1>1. Lifecycle!TypeOK /\ [Lifecycle!Next]_(Lifecycle!vars) => [Rest]_(Lifecycle!vars)
  BY LifecycleStep
<1>2. Lifecycle!AtRest <=> [][Rest]_(Lifecycle!vars)
  BY DEF Lifecycle!AtRest, Rest, touched
<1> QED
  BY <1>1, <1>2, LifecycleTypes, PTL DEF Lifecycle!Spec

-----------------------------------------------------------------------------
(* What a bulk update has in hand *)

\* A bulk update holds rows only while its statement runs, and each is in a
\* status its event may be applied from: nobody changes a row it has locked.
BulkHolds ==
    \A b \in Bulks :
        /\ bulkPc[b] # "locking" => bulkHeld[b] = {}
        /\ \A j \in bulkHeld[b] : CanTransition(status[j], bulkEvent[b])

\* What the table says of the events bulk updates raise.
LEMMA BulkEvents ==
    ASSUME NEW event \in BulkEvent, NEW current, CanTransition(current, event)
    PROVE  /\ current # "error_state" /\ TransitionTo[event] # "error_state"
           /\ event \in JourneyEvent /\ event # "exhaust"
<1>1. event \in {"pause", "owner_inactive", "owner_reactivated"}
  BY DEF BulkEvent
<1>2. CASE event = "pause"
  BY <1>2 DEF CanTransition, TransitionFrom, TransitionTo, JourneyEvent
<1>3. CASE event = "owner_inactive"
  BY <1>3 DEF CanTransition, TransitionFrom, TransitionTo, JourneyEvent
<1>4. CASE event = "owner_reactivated"
  BY <1>4 DEF CanTransition, TransitionFrom, TransitionTo, JourneyEvent
<1> QED
  BY <1>1, <1>2, <1>3, <1>4

\* The rows in hand stay as they are when nobody touches them.
LEMMA HoldsKept ==
    ASSUME BulkHolds, UNCHANGED <<bulkPc, bulkEvent, bulkHeld>>,
           \A b \in Bulks : \A j \in bulkHeld[b] : status'[j] = status[j]
    PROVE  BulkHolds'
BY DEF BulkHolds

\* A step of the dispatcher writes no row a bulk update holds.
LEMMA TickHolds ==
    ASSUME IInv, BulkHolds, NEW t \in Ticks, TickStep(t) \/ TickThrows(t), UNCHANGED requestVars
    PROVE  BulkHolds'
<1>1. TickFrame(t)
  BY TickStepOutcome DEF TickOutcome
<1>2. ASSUME NEW b \in Bulks, NEW j \in bulkHeld[b]
      PROVE  status'[j] = status[j]
  <2>1. j \in Journeys /\ lockedBy[j] = b /\ b \notin {Nobody, t}
    BY DEF IInv, TypeOK, RequestsTypeOK, OpenTransactions, BulkView
  <2> QED
    BY <1>1, <2>1 DEF TickFrame
<1> QED
  BY <1>2, HoldsKept DEF requestVars

\* A write to one row nobody holds leaves the rows in hand alone.
LEMMA FreeRowHolds ==
    ASSUME IInv, BulkHolds, NEW i \in Journeys, Unlocked(i), UNCHANGED bulkVars,
           \A j \in Journeys \ {i} : status'[j] = status[j]
    PROVE  BulkHolds'
<1>1. ASSUME NEW b \in Bulks, NEW j \in bulkHeld[b]
      PROVE  status'[j] = status[j]
  <2>1. j \in Journeys /\ lockedBy[j] = b
    BY DEF IInv, TypeOK, RequestsTypeOK, OpenTransactions, BulkView
  <2> QED
    BY <2>1 DEF Unlocked
<1> QED
  BY <1>1, HoldsKept DEF bulkVars

\* Nor do the handlers.
LEMMA HandlerHolds ==
    ASSUME IInv, BulkHolds,
           \/ \E r \in Replies : ReplyStep(r) \/ ReplyThrows(r)
           \/ \E r \in Controls : ControlStep(r) \/ ControlThrows(r)
    PROVE  BulkHolds'
<1>1. ASSUME NEW r \in Replies, ReplyMark(r)
      PROVE  BulkHolds'
  <2>1. replyJourney[r] \in Journeys
    BY <1>1 DEF ReplyMark, ReplyLock, IInv, TypeOK, RequestsTypeOK, OpenTransactions, HandlerView
  <2>2. Unlocked(replyJourney[r]) /\ UNCHANGED bulkVars
    BY <1>1 DEF ReplyMark, ReplyLock
  <2>3. \A j \in Journeys \ {replyJourney[r]} : status'[j] = status[j]
    BY <1>1 DEF ReplyMark, setStatus, IInv, TypeOK, StoreTypeOK
  <2> QED
    BY <2>1, <2>2, <2>3, FreeRowHolds
<1>2. ASSUME NEW r \in Controls, ControlWrite(r)
      PROVE  BulkHolds'
  <2>1. controlJourney[r] \in Journeys
    BY <1>2 DEF ControlWrite, IInv, TypeOK, RequestsTypeOK, OpenTransactions, HandlerView
  <2>2. Unlocked(controlJourney[r]) /\ UNCHANGED bulkVars
    BY <1>2 DEF ControlWrite
  <2>3. \A j \in Journeys \ {controlJourney[r]} : status'[j] = status[j]
    BY <1>2 DEF ControlWrite, updateStatus, IInv, TypeOK, StoreTypeOK
  <2> QED
    BY <2>1, <2>2, <2>3, FreeRowHolds
<1>3. ASSUME NEW r \in Replies, ReplyStep(r) \/ ReplyThrows(r), ~ReplyMark(r)
      PROVE  UNCHANGED <<bulkPc, bulkEvent, bulkHeld, status>>
  BY <1>3 DEF ReplyStep, ReplyThrows, ReplyUnheeded, ReplyFind, ReplyTooLate, ReplyLock, ReplyAudit,
              ReplyRunAction, ReplyFinish, bulkVars, storeVars, journeyRow
<1>4. ASSUME NEW r \in Controls, ControlStep(r) \/ ControlThrows(r), ~ControlWrite(r)
      PROVE  UNCHANGED <<bulkPc, bulkEvent, bulkHeld, status>>
  BY <1>4 DEF ControlStep, ControlThrows, ControlRead, ControlAudit, ControlDone, bulkVars,
              storeVars, journeyRow
<1> QED
  BY <1>1, <1>2, <1>3, <1>4, HoldsKept

\* A bulk update leaves the rows another one holds alone, and takes only rows
\* its event applies to.
LEMMA BulkStepHolds ==
    ASSUME IInv, BulkHolds, NEW b \in Bulks, BulkStep(b) \/ BulkThrows(b)
    PROVE  BulkHolds'
<1>1. /\ bulkPc \in [Bulks -> {"idle", "reassigned", "locking"}]
      /\ bulkEvent \in [Bulks -> BulkEvent]
      /\ bulkHeld \in [Bulks -> SUBSET Journeys]
      /\ status \in [Journeys -> LeadJourneyStatus]
  BY DEF IInv, TypeOK, StoreTypeOK, RequestsTypeOK
<1>2. ASSUME NEW event, NEW S, bulkPc[b] # "locking", BulkBegin(b, event, S)
      PROVE  BulkHolds'
  <2>1. /\ bulkPc' = [bulkPc EXCEPT ![b] = "locking"]
        /\ bulkEvent' = [bulkEvent EXCEPT ![b] = event]
        /\ bulkHeld' = bulkHeld /\ status' = status
    BY <1>2 DEF BulkBegin, storeVars
  <2> QED
    BY <1>1, <1>2, <2>1 DEF BulkHolds
<1>3. ASSUME NEW from, NEW to, ReassignLeads(b, from, to)
      PROVE  BulkHolds'
  BY <1>1, <1>3 DEF ReassignLeads, journeyRow, BulkHolds
<1>4. ASSUME NEW j \in Journeys, BulkRow(b, j)
      PROVE  BulkHolds'
  <2>1. /\ bulkPc[b] = "locking" /\ UNCHANGED <<bulkPc, bulkEvent, status>>
        /\ \/ bulkHeld' = bulkHeld
           \/ /\ bulkHeld' = [bulkHeld EXCEPT ![b] = @ \cup {j}]
              /\ CanTransition(status[j], bulkEvent[b])
    BY <1>4 DEF BulkRow, journeyRow
  <2> QED
    BY <1>1, <2>1 DEF BulkHolds
<1>5. CASE BulkCommit(b) \/ BulkThrows(b)
  <2>1. /\ bulkPc' = [bulkPc EXCEPT ![b] = "idle"]
        /\ bulkEvent' = [bulkEvent EXCEPT ![b] = "pause"]
        /\ bulkHeld' = [bulkHeld EXCEPT ![b] = {}]
    BY <1>5 DEF BulkCommit, BulkThrows, BulkClose
  <2>2. \A j \in Journeys \ bulkHeld[b] : status'[j] = status[j]
    BY <1>5 DEF BulkCommit, BulkThrows, updateRows, journeyRow
  <2>3. \A c \in Bulks \ {b} : \A j \in bulkHeld[c] : j \in Journeys /\ j \notin bulkHeld[b]
    BY <1>1 DEF IInv, OpenTransactions, BulkView
  <2> QED
    BY <1>1, <2>1, <2>2, <2>3 DEF BulkHolds
<1> QED
  BY <1>2, <1>3, <1>4, <1>5 DEF BulkStep, WorkspacePauseAll, PauseOwnerJourneys, ResumeReassigned

\* Every step keeps it.
LEMMA HoldsNext == IInv /\ BulkHolds /\ [Next]_vars => BulkHolds'
<1> SUFFICES ASSUME IInv, BulkHolds, [Next]_vars PROVE BulkHolds'
  OBVIOUS
<1>1. ASSUME NEW L, NEW u, BackfillOwner(L, u)
      PROVE  BulkHolds'
  <2>1. /\ \A j \in Journeys : status[j] # "error_state" => status'[j] = status[j]
        /\ UNCHANGED requestVars
    BY <1>1 DEF BackfillOwner
  <2>2. \A b \in Bulks : \A j \in bulkHeld[b] : j \in Journeys /\ status[j] # "error_state"
    BY BulkEvents DEF BulkHolds, IInv, TypeOK, RequestsTypeOK
  <2> QED
    BY <2>1, <2>2, HoldsKept DEF requestVars
<1>2. CASE Crash
  BY <1>2 DEF Crash, BulkHolds
<1>3. CASE Time
  BY <1>3, HoldsKept DEF Time, ClockTick, journeyRow, requestVars
<1>4. CASE UNCHANGED vars
  BY <1>4, HoldsKept DEF vars
<1>5. ASSUME NEW t \in Ticks, Nothing(t)
      PROVE  BulkHolds'
  BY <1>5, HoldsKept DEF Nothing, TickNothing, storeVars, requestVars
<1> QED
  BY <1>1, <1>2, <1>3, <1>4, <1>5, TickHolds, HandlerHolds, BulkStepHolds
     DEF Next, Dispatch, Reply, Control, Bulk, Backfill, Failure, RequestThrows

\* A bulk update in progress holds only rows its event applies to, up to the
\* commit that applies it.
THEOREM EngineBulkHolds == Spec => []BulkHolds
<1>1. Init => BulkHolds
  BY DEF Init, RequestsInit, BulkHolds
<1> QED
  BY <1>1, HoldsNext, Invariant, PTL DEF Spec

-----------------------------------------------------------------------------
(* Every step is a step of the lifecycle *)

\* What a step means for the lifecycle and for the reasons shown.
StatusOutcome ==
    /\ [Lifecycle!Next]_(Lifecycle!vars)
    /\ ReasonExplainsError => ReasonExplainsError'

\* A step that leaves these rows and sends nothing means nothing.
LEMMA StatusStays ==
    ASSUME UNCHANGED <<status, errorReason, sends>>,
           currentStepOrder' = currentStepOrder
    PROVE  StatusOutcome
<1>1. UNCHANGED Lifecycle!vars
  BY LifecycleVars DEF touched
<1>2. ReasonExplainsError => ReasonExplainsError'
  BY DEF ReasonExplainsError
<1> QED
  BY <1>1, <1>2 DEF StatusOutcome

\* setStatus raises an event on one journey, and the reason goes with it.
LEMMA SetStatusRaises ==
    ASSUME StoreTypeOK, NEW j \in Journeys, NEW event \in JourneyEvent, NEW reason,
           CanTransition(status[j], event),
           event = "exhaust" => IsExhausted(currentStepOrder[j], StepCount),
           (TransitionTo[event] = "error_state") <=> (reason # "none"),
           setStatus(j, TransitionTo[event], reason), sends' = sends
    PROVE  StatusOutcome
<1> DEFINE target == TransitionTo[event]
<1>1. /\ status' = [status EXCEPT ![j] = target]
      /\ errorReason' = [errorReason EXCEPT ![j] = reason]
      /\ currentStepOrder' = currentStepOrder /\ touched' = touched
  BY DEF setStatus, touched
<1> HIDE DEF target
<1>2. status' = [i \in Journeys |-> IF i \in {j} THEN target ELSE status[i]]
  BY <1>1 DEF StoreTypeOK
<1>3. Lifecycle!Raise({j}, event)
  BY <1>1, <1>2, LifecycleRaise DEF target
<1>4. Lifecycle!Next
  BY <1>3, LifecycleNext
<1>5. ReasonExplainsError => ReasonExplainsError'
  BY <1>1 DEF StoreTypeOK, ReasonExplainsError, target
<1> QED
  BY <1>4, <1>5 DEF StatusOutcome

\* A running journey that has a step left moves on to it.
LEMMA AdvanceMoves ==
    ASSUME StoreTypeOK, NEW j \in Journeys, NEW at, status[j] = "running",
           currentStepOrder[j] + 1 \in Steps,
           advance(j, currentStepOrder[j] + 1, at), sends' = sends
    PROVE  StatusOutcome
<1>1. /\ status' = status /\ errorReason' = errorReason /\ touched' = touched
      /\ currentStepOrder' = [currentStepOrder EXCEPT ![j] = @ + 1]
  BY DEF advance, touched
<1>2. ~IsExhausted(currentStepOrder[j], StepCount)
  BY DEF IsExhausted, NextStepOrder, Steps, StoreTypeOK
<1>3. Lifecycle!Advance(j)
  BY <1>1, <1>2, LifecycleAdvance
<1>4. Lifecycle!Next
  BY <1>3, LifecycleNext
<1>5. ReasonExplainsError => ReasonExplainsError'
  BY <1>1 DEF ReasonExplainsError
<1> QED
  BY <1>4, <1>5 DEF StatusOutcome

\* The steps of a tick that open no transaction and the opening of one.
LEMMA DispatchStatus ==
    ASSUME TypeOK, NEW t \in Ticks, NEW j \in Journeys,
           DispatchOne(t, j) \/ DispatchThrows(t, j)
    PROVE  StatusOutcome
<1>1. StoreTypeOK
  BY DEF TypeOK
<1>2. CASE SkipStale(t, j) \/ SkipClaimed(t, j) \/ DispatchThrows(t, j)
  BY <1>2, StatusStays DEF SkipStale, SkipClaimed, DispatchThrows, CommitAtOnce, journeyRow,
                           worldVars
<1>3. CASE BeginSend(t, j) \/ BeginExhaust(t, j)
  BY <1>3, StatusStays DEF BeginSend, BeginExhaust, Open, journeyRow, worldVars
<1>4. CASE Defer(t, j)
  <2>1. PICK u : advance(j, currentStepOrder[j], u) /\ sends' = sends
    BY <1>4 DEF Defer, CommitAtOnce, worldVars
  <2>2. currentStepOrder' = currentStepOrder
    BY <1>1, <2>1 DEF advance, StoreTypeOK
  <2> QED
    BY <2>1, <2>2, StatusStays DEF advance
<1>5. CASE NoChannel(t, j)
  <2>1. /\ setStatus(j, TransitionTo["error"], "no_channel") /\ sends' = sends
        /\ status[j] = "running"
    BY <1>5 DEF NoChannel, CommitAtOnce, worldVars, StepDue, Eligible, IsDue
  <2>2. "error" \in JourneyEvent /\ CanTransition("running", "error")
    BY DEF JourneyEvent, CanTransition, TransitionFrom
  <2>3. TransitionTo["error"] = "error_state"
    BY DEF TransitionTo
  <2> QED
    BY <1>1, <2>1, <2>2, <2>3, SetStatusRaises
<1>6. CASE RejectStep(t, j)
  <2>1. PICK reason \in Verdicts \cap LeadJourneyErrorReason :
           setStatus(j, TransitionTo["error"], reason)
    BY <1>6 DEF RejectStep
  <2>2. sends' = sends /\ status[j] = "running" /\ reason # "none"
    BY <1>6 DEF RejectStep, CommitAtOnce, worldVars, Claim, StepDue, Eligible, IsDue,
                LeadJourneyErrorReason
  <2>3. "error" \in JourneyEvent /\ CanTransition("running", "error")
    BY DEF JourneyEvent, CanTransition, TransitionFrom
  <2>4. TransitionTo["error"] = "error_state"
    BY DEF TransitionTo
  <2> QED
    BY <1>1, <2>1, <2>2, <2>3, <2>4, SetStatusRaises
<1>7. CASE SkipStep(t, j)
  <2>1. PICK at : advance(j, currentStepOrder[j] + 1, at)
    BY <1>7 DEF SkipStep, scheduleNext, NextStep, NextStepOrder
  <2>2. sends' = sends /\ status[j] = "running" /\ ~IsExhausted(currentStepOrder[j], StepCount)
    BY <1>7 DEF SkipStep, CommitAtOnce, worldVars, Claim, StepDue, Eligible, IsDue
  <2>3. currentStepOrder[j] + 1 \in Steps
    BY <1>1, <2>2 DEF IsExhausted, NextStepOrder, Steps, StoreTypeOK
  <2> QED
    BY <1>1, <2>1, <2>2, <2>3, AdvanceMoves
<1> QED
  BY <1>2, <1>3, <1>4, <1>5, <1>6, <1>7 DEF DispatchOne

\* The steps of an open transaction: the send is the touch of the step, the
\* commit its completion.
LEMMA ProceedStatus ==
    ASSUME TypeOK, NEW t \in Ticks, TickView(t), Proceed(t) \/ TxThrows(t)
    PROVE  StatusOutcome
<1> DEFINE j == tickJourney[t]
<1>1. StoreTypeOK
  BY DEF TypeOK
<1>2. tickPc[t] \in InTransaction
  BY DEF Proceed, TxThrows, SendAccepted, SendRefused, LogTouch, RunExitAction, CommitSend,
         CommitExhaust, InTransaction
<1>3. j \in Journeys /\ tickStep[t] \in Steps /\ status[j] = "running"
  BY <1>2, OpenFacts
<1>4. tickPc[t] \in {"sending", "recording"} => tickStep[t] = currentStepOrder[j] + 1
  BY DEF TickView
<1>5. CASE SendRefused(t) \/ LogTouch(t) \/ RunExitAction(t)
  BY <1>5, StatusStays DEF SendRefused, LogTouch, RunExitAction, Continue, storeVars, worldVars
<1>6. CASE TxThrows(t)
  BY <1>6, StatusStays DEF TxThrows, CloseTx, worldVars, journeyRow
<1>7. CASE SendAccepted(t)
  <2>1. /\ sends' = Bump(sends, j, tickStep[t]) /\ tickPc[t] = "sending"
        /\ UNCHANGED <<status, errorReason, currentStepOrder>>
    BY <1>7 DEF SendAccepted, Continue, storeVars
  <2>2. sends \in [Journeys -> [Steps -> Nat]]
    BY DEF TypeOK, DispatcherTypeOK
  <2>3. tickStep[t] = currentStepOrder[j] + 1
    BY <1>4, <2>1
  <2> HIDE DEF j
  <2>4. \A i \in Journeys, s \in Steps :
           sends'[i][s] = IF i = j /\ s = tickStep[t] THEN sends[i][s] + 1 ELSE sends[i][s]
    BY <1>3, <2>1, <2>2 DEF Bump
  <2>5. \A i \in Journeys, s \in Steps :
           sends'[i][s] > 0 <=> (sends[i][s] > 0 \/ (i = j /\ s = tickStep[t]))
    BY <2>2, <2>4
  <2>6. touched' = [touched EXCEPT ![j] = @ \cup {currentStepOrder[j] + 1}]
    <3>1. ASSUME NEW i \in Journeys
          PROVE  touched'[i] = IF i = j THEN touched[i] \cup {tickStep[t]} ELSE touched[i]
      BY <1>3, <2>5 DEF touched
    <3>2. /\ touched = [i \in Journeys |-> touched[i]]
          /\ touched' = [i \in Journeys |-> touched'[i]]
      BY DEF touched
    <3> HIDE DEF touched
    <3> QED
      BY <1>3, <2>3, <3>1, <3>2
  <2>7. ~IsExhausted(currentStepOrder[j], StepCount)
    BY <1>1, <1>3, <2>3 DEF IsExhausted, NextStepOrder, Steps, StoreTypeOK
  <2>8. Lifecycle!Next
    BY <1>3, <2>1, <2>6, <2>7, LifecycleTouch, LifecycleNext
  <2> QED
    BY <2>1, <2>8 DEF StatusOutcome, ReasonExplainsError
<1>8. CASE CommitSend(t)
  <2>1. PICK at : advance(j, tickStep[t], at)
    BY <1>8 DEF CommitSend, scheduleNext
  <2>2. sends' = sends /\ tickPc[t] = "recording"
    BY <1>8 DEF CommitSend, CloseTx, worldVars
  <2> QED
    BY <1>1, <1>3, <1>4, <2>1, <2>2, AdvanceMoves
<1>9. CASE CommitExhaust(t)
  <2>1. setStatus(j, TransitionTo["exhaust"], "none") /\ sends' = sends
    BY <1>9 DEF CommitExhaust, CloseTx, worldVars
  <2>2. IsExhausted(currentStepOrder[j], StepCount)
    BY <1>9 DEF CommitExhaust, TickView, IsExhausted, NextStepOrder
  <2>3. "exhaust" \in JourneyEvent /\ CanTransition("running", "exhaust")
    BY DEF JourneyEvent, CanTransition, TransitionFrom
  <2>4. TransitionTo["exhaust"] # "error_state"
    BY DEF TransitionTo
  <2> QED
    BY <1>1, <1>3, <2>1, <2>2, <2>3, <2>4, SetStatusRaises
<1> QED
  BY <1>5, <1>6, <1>7, <1>8, <1>9 DEF Proceed

\* A reply is raised under the lock, on a running journey.
LEMMA ReplyStatus ==
    ASSUME IInv, NEW r \in Replies, ReplyStep(r) \/ ReplyThrows(r), sends' = sends
    PROVE  StatusOutcome
<1>1. CASE ReplyMark(r)
  <2> DEFINE j == replyJourney[r]
  <2>1. j \in Journeys /\ StoreTypeOK
    BY <1>1 DEF ReplyMark, ReplyLock, IInv, TypeOK, RequestsTypeOK, OpenTransactions, HandlerView
  <2>2. /\ setStatus(j, TransitionTo["reply"], "none")
        /\ status[j] = "running"
    BY <1>1 DEF ReplyMark
  <2>3. "reply" \in JourneyEvent /\ CanTransition("running", "reply")
    BY DEF JourneyEvent, CanTransition, TransitionFrom, NonTerminalStatuses
  <2>4. TransitionTo["reply"] # "error_state"
    BY DEF TransitionTo
  <2> HIDE DEF j
  <2>5. CanTransition(status[j], "reply")
    BY <2>2, <2>3
  <2> QED
    BY <2>1, <2>2, <2>3, <2>4, <2>5, SetStatusRaises
<1>2. CASE ~ReplyMark(r)
  <2>1. UNCHANGED <<status, errorReason, currentStepOrder>>
    BY <1>2 DEF ReplyStep, ReplyThrows, ReplyUnheeded, ReplyFind, ReplyTooLate, ReplyLock,
                ReplyAudit, ReplyRunAction, ReplyFinish, storeVars, journeyRow
  <2> QED
    BY <2>1, StatusStays
<1> QED
  BY <1>1, <1>2

\* A bulk update raises its event on the rows it holds, when it commits.
LEMMA BulkStatus ==
    ASSUME IInv, BulkHolds, NEW b \in Bulks, BulkStep(b) \/ BulkThrows(b), sends' = sends
    PROVE  StatusOutcome
<1>1. CASE BulkCommit(b)
  <2> DEFINE held == bulkHeld[b]
             event == bulkEvent[b]
             target == TransitionTo[event]
  <2>1. /\ status' = [j \in Journeys |-> IF j \in held THEN target ELSE status[j]]
        /\ errorReason' = errorReason
        /\ currentStepOrder' = currentStepOrder /\ touched' = touched
    BY <1>1 DEF BulkCommit, updateRows, touched
  <2>2. event \in BulkEvent /\ held \in SUBSET Journeys /\ event \in JourneyEvent
    BY DEF IInv, TypeOK, RequestsTypeOK, BulkEvent, JourneyEvent
  <2>3. \A j \in held : CanTransition(status[j], event)
    BY DEF BulkHolds
  <2> HIDE DEF held, event
  <2>4. event # "exhaust"
    BY <2>2 DEF BulkEvent
  <2>5. Lifecycle!Raise(held, event)
    BY <2>1, <2>3, <2>4, LifecycleRaise
  <2>6. Lifecycle!Next
    BY <2>2, <2>5, LifecycleNext
  <2>7. \A j \in held : status[j] # "error_state" /\ target # "error_state"
    BY <2>2, <2>3, BulkEvents
  <2> HIDE DEF target
  <2>8. ReasonExplainsError => ReasonExplainsError'
    BY <2>1, <2>7 DEF ReasonExplainsError
  <2> QED
    BY <2>6, <2>8 DEF StatusOutcome
<1>2. CASE ~BulkCommit(b)
  <2>1. UNCHANGED <<status, errorReason, currentStepOrder>>
    BY <1>2 DEF BulkStep, BulkThrows, WorkspacePauseAll, PauseOwnerJourneys, ResumeReassigned,
                BulkBegin, ReassignLeads, BulkRow, storeVars, journeyRow
  <2> QED
    BY <2>1, StatusStays
<1> QED
  BY <1>1, <1>2

\* The backfill lets the parked journeys run.
LEMMA BackfillStatus ==
    ASSUME IInv, NEW L, NEW u, BackfillOwner(L, u), sends' = sends
    PROVE  StatusOutcome
<1> DEFINE parked == {j \in Journeys : /\ LeadOf[j] \in L
                                       /\ status[j] = "error_state"
                                       /\ errorReason[j] = "owner_not_mapped"}
<1>1. /\ status' = [j \in Journeys |-> IF j \in parked THEN "running" ELSE status[j]]
      /\ errorReason' = [j \in Journeys |-> IF j \in parked THEN "none" ELSE errorReason[j]]
      /\ currentStepOrder' = currentStepOrder /\ touched' = touched
  BY DEF BackfillOwner, touched
<1>2. parked \in SUBSET Journeys /\ \A j \in parked : status[j] = "error_state"
  OBVIOUS
<1> HIDE DEF parked
<1>3. Lifecycle!OwnerMapped(parked)
  BY <1>1, <1>2, LifecycleOwnerMapped
<1>4. Lifecycle!Next
  BY <1>2, <1>3, LifecycleNext
<1>5. ReasonExplainsError => ReasonExplainsError'
  BY <1>1, <1>2 DEF ReasonExplainsError
<1> QED
  BY <1>4, <1>5 DEF StatusOutcome

\* No operator command takes a step.
NoCommand == \A r \in Controls : ~Control(r) /\ ~ControlThrows(r)

\* Without operator commands every step of the engine is one of the lifecycle.
LEMMA NextStatus ==
    ASSUME NoCommand, IInv, BulkHolds, [Next]_vars
    PROVE  StatusOutcome
<1>1. ASSUME NEW t \in Ticks, TickStep(t) \/ TickThrows(t)
      PROVE  StatusOutcome
  <2>1. TypeOK /\ TickView(t)
    BY DEF IInv, OpenTransactions
  <2>2. CASE TickStart(t)
    BY <2>2, StatusStays DEF TickStart, storeVars, worldVars
  <2> QED
    BY <1>1, <2>1, <2>2, DispatchStatus, ProceedStatus DEF TickStep, TickThrows
<1>2. UNCHANGED dispatcherVars => sends' = sends
  BY DEF dispatcherVars
<1>3. CASE Crash
  BY <1>3, StatusStays DEF Crash, journeyRow, worldVars
<1>4. CASE Time
  BY <1>4, StatusStays DEF Time, ClockTick, journeyRow, dispatcherVars
<1>5. CASE UNCHANGED vars
  BY <1>5, StatusStays DEF vars
<1>6. ASSUME NEW t \in Ticks, Nothing(t)
      PROVE  StatusOutcome
  BY <1>6, StatusStays DEF Nothing, TickNothing, storeVars, dispatcherVars
<1> QED
  BY <1>1, <1>2, <1>3, <1>4, <1>5, <1>6, ReplyStatus, BulkStatus, BackfillStatus
     DEF Next, NoCommand, Dispatch, Reply, Bulk, Backfill, Failure, RequestThrows

\* The engine starts as the lifecycle does.
LEMMA InitStatus == Init => Lifecycle!Init /\ ReasonExplainsError
<1> SUFFICES ASSUME Init PROVE Lifecycle!Init /\ ReasonExplainsError
  OBVIOUS
<1>1. /\ status \in [Journeys -> {"running", "error_state"}]
      /\ currentStepOrder = [j \in Journeys |-> -1]
      /\ \A j \in Journeys : (status[j] = "error_state") <=> (errorReason[j] # "none")
  BY DEF Init
<1>2. \A j \in Journeys, s \in Steps : sends[j][s] = 0
  BY DEF Init, DispatcherInit
<1>3. touched = [j \in Journeys |-> {}]
  BY <1>2 DEF touched
<1>4. Lifecycle!Init
  BY <1>1, <1>3 DEF Lifecycle!Init, touched
<1> QED
  BY <1>1, <1>4 DEF ReasonExplainsError

\* Seen through the statuses, the steps and the touches that left, every
\* behaviour of the engine without operator commands is one of the lifecycle.
\* ControlJourney's write, which does not look at the status again, is the only
\* step that is not: hence the hypothesis.
THEOREM EngineImplementsLifecycle ==
    ASSUME Controls = {}
    PROVE  Spec => ImplementsLifecycle
<1>1. IInv /\ BulkHolds /\ [Next]_vars => [Lifecycle!Next]_(Lifecycle!vars)
  BY NextStatus DEF StatusOutcome, NoCommand
<1>2. Init => Lifecycle!Init
  BY InitStatus
<1>3. Spec => [](IInv /\ BulkHolds)
  BY Invariant, EngineBulkHolds, PTL
<1>4. Spec => Lifecycle!Spec
  BY <1>1, <1>2, <1>3, PTL DEF Spec, Lifecycle!Spec
<1> QED
  BY <1>4 DEF ImplementsLifecycle

\* An error reason is shown exactly on the journeys in error.  (A command that
\* overwrites a journey which failed meanwhile leaves its reason behind.)
THEOREM EngineReasons ==
    ASSUME Controls = {}
    PROVE  Spec => []ReasonExplainsError
<1>1. IInv /\ BulkHolds /\ ReasonExplainsError /\ [Next]_vars => ReasonExplainsError'
  BY NextStatus DEF StatusOutcome, NoCommand
<1> QED
  BY <1>1, InitStatus, Invariant, EngineBulkHolds, PTL DEF Spec

\* A journey replied to, exhausted or stopped is at rest: the engine changes
\* neither its status nor its step and sends its lead no step for the first time.
THEOREM EngineRests ==
    ASSUME Controls = {}
    PROVE  Spec => Lifecycle!AtRest
BY EngineImplementsLifecycle, LifecycleRest DEF ImplementsLifecycle

\* What is at rest stays so, in the form the proofs below use.
LEMMA NextRests ==
    ASSUME NoCommand, IInv, BulkHolds, [Next]_vars
    PROVE  Rest
<1>1. Lifecycle!TypeOK
  <2>1. touched \in [Journeys -> SUBSET Steps]
    BY DEF touched
  <2> QED
    BY <2>1, LifecycleTyped DEF IInv, TypeOK, StoreTypeOK, Typed
<1>2. [Lifecycle!Next]_(Lifecycle!vars)
  BY NextStatus DEF StatusOutcome
<1> QED
  BY <1>1, <1>2, LifecycleStep

\* A status from which the table has no event is final: what a stale command
\* can undo, nothing else can.
THEOREM EngineTerminal ==
    ASSUME Controls = {}
    PROVE  Spec => TerminalIsFinal
<1> DEFINE Final ==
      \A j \in Journeys :
          status[j] \in {"replied", "exhausted", "stopped"} => status'[j] = status[j]
<1>1. IInv /\ BulkHolds /\ [Next]_vars => [Final]_vars
  BY NextRests DEF Rest, NoCommand
<1> QED
  BY <1>1, Invariant, EngineBulkHolds, PTL DEF Spec, TerminalIsFinal

-----------------------------------------------------------------------------
(* As long as no operator has given a command *)

\* No command is at work before one was given.
Quiet == commands = 0 => \A r \in Controls : controlPc[r] = "idle"

\* Every step keeps it so, and none takes commands back.
LEMMA QuietNext ==
    ASSUME IInv, Quiet, [Next]_vars
    PROVE  /\ Quiet'
           /\ commands' = 0 => commands = 0 /\ NoCommand
<1>1. commands \in Nat /\ controlPc \in [Controls -> {"idle", "write", "audit"}]
  BY DEF IInv, TypeOK, RequestsTypeOK
<1>2. ASSUME NEW r \in Controls, Control(r) \/ ControlThrows(r)
      PROVE  commands' # 0
  <2>1. ASSUME NEW j, NEW action, ControlRead(r, j, action)
        PROVE  commands' # 0
    BY <1>1, <2>1 DEF ControlRead
  <2>2. CASE ControlWrite(r) \/ ControlAudit(r) \/ ControlThrows(r)
    <3>1. controlPc[r] # "idle" /\ commands' = commands
      BY <2>2 DEF ControlWrite, ControlAudit, ControlThrows, ControlDone
    <3> QED
      BY <3>1 DEF Quiet
  <2> QED
    BY <1>2, <2>1, <2>2 DEF Control, ControlStep
<1>3. \/ \E r \in Controls : Control(r) \/ ControlThrows(r)
      \/ /\ commands' = commands
         /\ \/ controlPc' = controlPc
            \/ controlPc' = [r \in Controls |-> "idle"]
  <2>1. ASSUME NEW r \in Replies, ReplyStep(r) \/ ReplyThrows(r)
        PROVE  UNCHANGED <<commands, controlPc>>
    BY <2>1 DEF ReplyStep, ReplyThrows, ReplyUnheeded, ReplyFind, ReplyMark, ReplyTooLate, ReplyLock,
                ReplyAudit, ReplyRunAction, ReplyFinish, controlVars
  <2>2. ASSUME NEW b \in Bulks, BulkStep(b) \/ BulkThrows(b)
        PROVE  UNCHANGED <<commands, controlPc>>
    BY <2>2 DEF BulkStep, BulkThrows, WorkspacePauseAll, PauseOwnerJourneys, ResumeReassigned,
                BulkBegin, ReassignLeads, BulkRow, BulkCommit, BulkClose, controlVars
  <2>3. CASE UNCHANGED requestVars \/ UNCHANGED vars
    BY <2>3 DEF requestVars, vars
  <2>4. CASE Crash
    BY <2>4 DEF Crash
  <2> QED
    BY <2>1, <2>2, <2>3, <2>4 DEF Next, Dispatch, Nothing, Reply, Bulk, Backfill, BackfillOwner, Time,
       Failure, RequestThrows
<1> QED
  BY <1>1, <1>2, <1>3 DEF Quiet, NoCommand

\* It is so from the start on.
LEMMA QuietAlways == Spec => []Quiet
<1>1. Init => Quiet
  BY DEF Init, RequestsInit, Quiet
<1>2. IInv /\ Quiet /\ [Next]_vars => Quiet'
  BY QuietNext
<1> QED
  BY <1>1, <1>2, Invariant, PTL DEF Spec

-----------------------------------------------------------------------------
(* Replies *)

Marked(r) == replyPc[r] \in {"audit", "actions"}

\* A journey is marked by one handler, which runs each action once; whatever of
\* onReply has run, has run for a journey that is replied.
ReplyOnce ==
    /\ \A r \in Replies : replyPc[r] # "actions" => replyAction[r] = 0
    /\ \A r \in Replies : Marked(r) =>
          /\ status[replyJourney[r]] = "replied"
          /\ \A q \in Replies \ {r} : Marked(q) => replyJourney[q] # replyJourney[r]
          /\ \A a \in 1 .. ReplyActions :
                a > replyAction[r] => replyRuns[replyJourney[r]][a] = 0
    /\ \A j \in Journeys, a \in 1 .. ReplyActions :
          /\ replyRuns[j][a] <= 1
          /\ replyRuns[j][a] > 0 => status[j] = "replied"

\* It stays when handlers go nowhere, or forget their journeys.
LEMMA ReplyOnceKept ==
    ASSUME TypeOK, ReplyOnce, HandlerView, Rest, replyRuns' = replyRuns,
           \A r \in Replies :
              \/ /\ replyPc'[r] \in {"idle", "lock"} /\ replyAction'[r] = 0
              \/ /\ replyPc'[r] = replyPc[r]
                 /\ replyAction'[r] = replyAction[r]
                 /\ replyJourney'[r] = replyJourney[r]
              \/ /\ replyPc[r] = "audit" /\ replyPc'[r] = "actions"
                 /\ replyAction'[r] = replyAction[r]
                 /\ replyJourney'[r] = replyJourney[r]
    PROVE  ReplyOnce'
<1>1. \A j \in Journeys : status[j] = "replied" => status'[j] = "replied"
  BY DEF Rest
<1>2. ASSUME NEW r \in Replies, Marked(r)'
      PROVE  /\ Marked(r) /\ replyAction'[r] = replyAction[r]
             /\ replyJourney'[r] = replyJourney[r] /\ replyJourney[r] \in Journeys
  <2>1. Marked(r) /\ replyAction'[r] = replyAction[r] /\ replyJourney'[r] = replyJourney[r]
    BY <1>2 DEF Marked
  <2>2. replyPc[r] # "idle"
    BY <2>1 DEF Marked
  <2>3. replyJourney[r] # NoJourney
    BY <2>2 DEF HandlerView
  <2>4. replyJourney[r] \in Journeys \cup {NoJourney}
    BY DEF TypeOK, RequestsTypeOK
  <2> QED
    BY <2>1, <2>3, <2>4
<1>3. \A r \in Replies : replyPc'[r] # "actions" => replyAction'[r] = 0
  BY DEF ReplyOnce
<1>4. \A r \in Replies : Marked(r)' =>
          /\ status'[replyJourney'[r]] = "replied"
          /\ \A q \in Replies \ {r} : Marked(q)' => replyJourney'[q] # replyJourney'[r]
          /\ \A a \in 1 .. ReplyActions :
                a > replyAction'[r] => replyRuns'[replyJourney'[r]][a] = 0
  BY <1>1, <1>2 DEF ReplyOnce
<1>5. \A j \in Journeys, a \in 1 .. ReplyActions :
          /\ replyRuns'[j][a] <= 1
          /\ replyRuns'[j][a] > 0 => status'[j] = "replied"
  BY <1>1 DEF ReplyOnce
<1> QED
  BY <1>3, <1>4, <1>5 DEF ReplyOnce

\* Marking takes a running journey, which nobody has marked and for which
\* nothing has run.
LEMMA ReplyMarkOnce ==
    ASSUME IInv, ReplyOnce, Rest, NEW r \in Replies, ReplyMark(r)
    PROVE  ReplyOnce'
<1> DEFINE j == replyJourney[r]
<1>1. /\ status[j] = "running" /\ replyPc[r] = "lock" /\ replyAction[r] = 0
      /\ replyPc' = [replyPc EXCEPT ![r] = "audit"]
      /\ status' = [status EXCEPT ![j] = "replied"]
      /\ UNCHANGED <<replyJourney, replyAction, replyRuns>>
  BY DEF ReplyMark, ReplyLock, setStatus, TransitionTo, ReplyOnce
<1>2. j \in Journeys
  BY <1>1 DEF IInv, TypeOK, RequestsTypeOK, OpenTransactions, HandlerView
<1>3. replyPc \in [Replies -> {"idle", "lock", "audit", "actions"}]
      /\ status \in [Journeys -> LeadJourneyStatus]
      /\ replyRuns \in [Journeys -> [1 .. ReplyActions -> Nat]]
  BY DEF IInv, TypeOK, StoreTypeOK, RequestsTypeOK
<1>4. \A q \in Replies \ {r} : Marked(q)' =>
          /\ Marked(q) /\ replyJourney[q] # j /\ status'[replyJourney[q]] = "replied"
  <2> SUFFICES ASSUME NEW q \in Replies \ {r}, Marked(q)'
               PROVE  /\ Marked(q) /\ replyJourney[q] # j /\ status'[replyJourney[q]] = "replied"
    OBVIOUS
  <2>1. Marked(q) /\ status[replyJourney[q]] = "replied"
    BY <1>1, <1>3 DEF Marked, ReplyOnce
  <2>2. replyJourney[q] \in Journeys
    BY <2>1 DEF Marked, IInv, TypeOK, RequestsTypeOK, OpenTransactions, HandlerView
  <2> QED
    BY <1>1, <2>1, <2>2 DEF Rest
<1>5. \A a \in 1 .. ReplyActions : replyRuns[j][a] = 0
  <2> SUFFICES ASSUME NEW a \in 1 .. ReplyActions PROVE replyRuns[j][a] = 0
    OBVIOUS
  <2>1. replyRuns[j][a] > 0 => status[j] = "replied"
    BY <1>2 DEF ReplyOnce
  <2>2. replyRuns[j][a] \in Nat
    BY <1>2, <1>3
  <2> QED
    BY <1>1, <2>1, <2>2
<1> HIDE DEF j
<1>6. status'[j] = "replied"
  BY <1>1, <1>2, <1>3
<1>7. \A q \in Replies : replyPc'[q] # "actions" => replyAction'[q] = 0
  BY <1>1, <1>3 DEF ReplyOnce
<1>8. \A q \in Replies : Marked(q)' =>
          /\ status'[replyJourney'[q]] = "replied"
          /\ \A p \in Replies \ {q} : Marked(p)' => replyJourney'[p] # replyJourney'[q]
          /\ \A a \in 1 .. ReplyActions :
                a > replyAction'[q] => replyRuns'[replyJourney'[q]][a] = 0
  <2> SUFFICES ASSUME NEW q \in Replies, Marked(q)'
               PROVE  /\ status'[replyJourney[q]] = "replied"
                      /\ \A p \in Replies \ {q} : Marked(p)' => replyJourney[p] # replyJourney[q]
                      /\ \A a \in 1 .. ReplyActions :
                            a > replyAction[q] => replyRuns[replyJourney[q]][a] = 0
    BY <1>1
  <2>1. CASE q = r
    BY <1>4, <1>5, <1>6, <2>1 DEF j
  <2>2. CASE q # r
    <3>1. Marked(q) /\ replyJourney[q] # j /\ status'[replyJourney[q]] = "replied"
      BY <1>4, <2>2
    <3>2. ASSUME NEW p \in Replies \ {q}, Marked(p)'
          PROVE  replyJourney[p] # replyJourney[q]
      <4>1. CASE p = r
        BY <3>1, <4>1 DEF j
      <4>2. CASE p # r
        BY <1>4, <3>1, <3>2, <4>2 DEF ReplyOnce
      <4> QED
        BY <4>1, <4>2
    <3> QED
      BY <3>1, <3>2 DEF ReplyOnce
  <2> QED
    BY <2>1, <2>2
<1>9. \A i \in Journeys, a \in 1 .. ReplyActions :
          /\ replyRuns'[i][a] <= 1
          /\ replyRuns'[i][a] > 0 => status'[i] = "replied"
  BY <1>1 DEF ReplyOnce, Rest
<1> QED
  BY <1>7, <1>8, <1>9 DEF ReplyOnce

\* Running an action counts it once, for the handler's own journey.
LEMMA ReplyRunOnce ==
    ASSUME IInv, ReplyOnce, NEW r \in Replies, ReplyRunAction(r)
    PROVE  ReplyOnce'
<1> DEFINE j == replyJourney[r]
           n == replyAction[r] + 1
<1>1. replyPc[r] = "actions" /\ Marked(r)
  BY DEF ReplyRunAction, Marked
<1>2. j \in Journeys /\ n \in 1 .. ReplyActions /\ replyAction[r] = n - 1
  <2>1. replyAction[r] \in 0 .. ReplyActions /\ replyAction[r] < ReplyActions
    BY DEF ReplyRunAction, IInv, TypeOK, RequestsTypeOK
  <2>2. j \in Journeys
    BY <1>1 DEF IInv, TypeOK, RequestsTypeOK, OpenTransactions, HandlerView
  <2> QED
    BY <2>1, <2>2
<1>3. /\ replyAction \in [Replies -> 0 .. ReplyActions]
      /\ replyRuns \in [Journeys -> [1 .. ReplyActions -> Nat]]
  BY DEF IInv, TypeOK, RequestsTypeOK
<1>4. /\ replyAction' = [replyAction EXCEPT ![r] = n]
      /\ replyRuns' = Bump(replyRuns, j, n)
      /\ UNCHANGED <<replyPc, replyJourney, status>>
  BY DEF ReplyRunAction, Bump, storeVars
<1>5. \A i \in Journeys, a \in 1 .. ReplyActions :
         replyRuns'[i][a] = IF i = j /\ a = n THEN replyRuns[i][a] + 1 ELSE replyRuns[i][a]
  BY <1>2, <1>3, <1>4 DEF Bump
<1>6. status[j] = "replied" /\ \A a \in 1 .. ReplyActions : a >= n => replyRuns[j][a] = 0
  BY <1>1, <1>2 DEF ReplyOnce
<1>7. \A q \in Replies \ {r} : Marked(q) =>
          replyJourney[q] # j /\ replyJourney[q] \in Journeys
  BY <1>1 DEF ReplyOnce, Marked, IInv, TypeOK, RequestsTypeOK, OpenTransactions, HandlerView
<1> HIDE DEF j, n
<1>8. \A q \in Replies : replyPc'[q] # "actions" => replyAction'[q] = 0
  BY <1>1, <1>3, <1>4 DEF ReplyOnce
<1>9. ASSUME NEW q \in Replies, Marked(q)
      PROVE  /\ status[replyJourney[q]] = "replied"
             /\ \A p \in Replies \ {q} : Marked(p) => replyJourney[p] # replyJourney[q]
             /\ \A a \in 1 .. ReplyActions :
                   a > replyAction'[q] => replyRuns'[replyJourney[q]][a] = 0
  <2>1. ASSUME NEW a \in 1 .. ReplyActions, a > replyAction'[q]
        PROVE  replyRuns'[replyJourney[q]][a] = 0
    <3>1. CASE q = r
      <4>1. replyAction'[q] = n /\ replyJourney[q] = j
        BY <1>3, <1>4, <3>1 DEF j
      <4>2. a > n /\ replyRuns[j][a] = 0
        BY <1>2, <1>6, <2>1, <4>1
      <4> QED
        BY <1>2, <1>5, <4>1, <4>2
    <3>2. CASE q # r
      <4>1. replyAction'[q] = replyAction[q]
        BY <1>3, <1>4, <3>2
      <4>2. replyRuns[replyJourney[q]][a] = 0
        BY <1>9, <2>1, <4>1 DEF ReplyOnce
      <4> QED
        BY <1>5, <1>7, <1>9, <3>2, <4>2
    <3> QED
      BY <3>1, <3>2
  <2> QED
    BY <1>9, <2>1 DEF ReplyOnce
<1>10. \A i \in Journeys, a \in 1 .. ReplyActions :
          /\ replyRuns'[i][a] <= 1
          /\ replyRuns'[i][a] > 0 => status[i] = "replied"
  <2> SUFFICES ASSUME NEW i \in Journeys, NEW a \in 1 .. ReplyActions
               PROVE  /\ replyRuns'[i][a] <= 1
                      /\ replyRuns'[i][a] > 0 => status[i] = "replied"
    OBVIOUS
  <2>1. CASE i = j /\ a = n
    BY <1>2, <1>5, <1>6, <2>1
  <2>2. CASE ~(i = j /\ a = n)
    BY <1>5, <2>2 DEF ReplyOnce
  <2> QED
    BY <2>1, <2>2
<1> QED
  BY <1>4, <1>8, <1>9, <1>10 DEF ReplyOnce, Marked

\* Every step keeps it.
LEMMA ReplyOnceNext ==
    ASSUME NoCommand, IInv, BulkHolds, ReplyOnce, [Next]_vars
    PROVE  ReplyOnce'
<1>1. TypeOK /\ HandlerView /\ Rest
  BY NextRests DEF IInv, OpenTransactions
<1>2. ASSUME UNCHANGED <<replyPc, replyJourney, replyAction, replyRuns>>
      PROVE  ReplyOnce'
  BY <1>1, <1>2, ReplyOnceKept
<1>3. ASSUME NEW r \in Replies, ReplyStep(r) \/ ReplyThrows(r)
      PROVE  ReplyOnce'
  <2>1. ASSUME NEW l, ReplyUnheeded(r, l)
        PROVE  ReplyOnce'
    BY <1>2, <2>1 DEF ReplyUnheeded, replyVars
  <2>2. ASSUME NEW l, ReplyFind(r, l)
        PROVE  ReplyOnce'
    <3>1. /\ replyPc[r] = "idle" /\ replyPc' = [replyPc EXCEPT ![r] = "lock"]
          /\ \E j : replyJourney' = [replyJourney EXCEPT ![r] = j]
          /\ UNCHANGED <<replyAction, replyRuns>>
      BY <2>2 DEF ReplyFind
    <3>2. \A q \in Replies :
              \/ /\ replyPc'[q] \in {"idle", "lock"} /\ replyAction'[q] = 0
              \/ /\ replyPc'[q] = replyPc[q]
                 /\ replyAction'[q] = replyAction[q]
                 /\ replyJourney'[q] = replyJourney[q]
      BY <1>1, <3>1 DEF TypeOK, RequestsTypeOK, ReplyOnce
    <3> QED
      BY <1>1, <3>1, <3>2, ReplyOnceKept
  <2>3. CASE ReplyMark(r)
    BY <1>1, <2>3, ReplyMarkOnce
  <2>4. CASE ReplyTooLate(r) \/ ReplyFinish(r) \/ ReplyThrows(r)
    <3>1. ReplyDone(r) /\ replyRuns' = replyRuns
      BY <2>4 DEF ReplyTooLate, ReplyLock, ReplyFinish, ReplyThrows
    <3>2. \A q \in Replies :
              \/ /\ replyPc'[q] \in {"idle", "lock"} /\ replyAction'[q] = 0
              \/ /\ replyPc'[q] = replyPc[q]
                 /\ replyAction'[q] = replyAction[q]
                 /\ replyJourney'[q] = replyJourney[q]
      BY <1>1, <3>1 DEF ReplyDone, TypeOK, RequestsTypeOK
    <3> QED
      BY <1>1, <3>1, <3>2, ReplyOnceKept
  <2>5. CASE ReplyAudit(r)
    <3>1. \A q \in Replies :
              /\ \/ replyPc'[q] = replyPc[q]
                 \/ replyPc[q] = "audit" /\ replyPc'[q] = "actions"
              /\ replyAction'[q] = replyAction[q]
              /\ replyJourney'[q] = replyJourney[q]
      BY <1>1, <2>5 DEF ReplyAudit, TypeOK, RequestsTypeOK
    <3>2. replyRuns' = replyRuns
      BY <2>5 DEF ReplyAudit
    <3> QED
      BY <1>1, <3>1, <3>2, ReplyOnceKept
  <2>6. CASE ReplyRunAction(r)
    BY <2>6, ReplyRunOnce
  <2> QED
    BY <1>3, <2>1, <2>2, <2>3, <2>4, <2>5, <2>6 DEF ReplyStep
<1>4. CASE Crash
  <2>1. /\ replyRuns' = replyRuns
        /\ \A q \in Replies : replyPc'[q] = "idle" /\ replyAction'[q] = 0
    BY <1>4 DEF Crash
  <2> QED
    BY <1>1, <2>1, ReplyOnceKept
<1>5. ASSUME NEW b \in Bulks, BulkStep(b) \/ BulkThrows(b)
      PROVE  ReplyOnce'
  BY <1>2, <1>5 DEF BulkStep, BulkThrows, WorkspacePauseAll, PauseOwnerJourneys, ResumeReassigned,
     BulkBegin, ReassignLeads, BulkRow, BulkCommit, BulkClose, replyVars
<1>6. CASE UNCHANGED requestVars \/ UNCHANGED vars
  BY <1>2, <1>6 DEF requestVars, vars
<1> QED
  BY <1>3, <1>4, <1>5, <1>6 DEF Next, NoCommand, Dispatch, Nothing, Reply, Bulk, Backfill,
     BackfillOwner, Time, Failure, RequestThrows

\* onReply runs at most once for a journey, however many messages of its lead
\* are handled at once: the lock and the check under it choose one handler.  (A
\* stale resume would let a replied journey run, and be replied to, again: so it
\* is until the first command.)
THEOREM EngineReplies == Spec => []OnReplyAtMostOnce
<1> DEFINE Once == commands = 0 => ReplyOnce
<1>1. Init => Once
  BY DEF Init, RequestsInit, ReplyOnce, Marked
<1>2. Once => OnReplyAtMostOnce
  BY DEF ReplyOnce, OnReplyAtMostOnce
<1>3. IInv /\ BulkHolds /\ Quiet /\ Once /\ [Next]_vars => Once'
  BY ReplyOnceNext, QuietNext
<1> HIDE DEF Once
<1> QED
  BY <1>1, <1>2, <1>3, Invariant, EngineBulkHolds, QuietAlways, PTL DEF Spec

\* With nobody pausing journeys, those a message was about are replied.
HeardReplied ==
    /\ \A j \in Journeys : status[j] \notin {"paused", "paused_owner_inactive"}
    /\ \A j \in heard : status[j] = "replied"

\* Neither the dispatcher nor the handlers of messages pause a journey.
LEMMA NeverPauses ==
    ASSUME NoCommand, Bulks = {}, IInv, [Next]_vars
    PROVE  \A j \in Journeys :
              status'[j] \in {status[j], "running", "error_state", "exhausted", "replied"}
<1>1. ASSUME NEW j \in Journeys, NEW st, NEW reason, setStatus(j, st, reason)
      PROVE  \A i \in Journeys : status'[i] \in {status[i], st}
  BY <1>1 DEF setStatus, IInv, TypeOK, StoreTypeOK
<1>2. ASSUME NEW t \in Ticks, TickStep(t) \/ TickThrows(t)
      PROVE  \A j \in Journeys : status'[j] \in {status[j], "error_state", "exhausted"}
  <2>1. ASSUME NEW j \in Journeys, NoChannel(t, j) \/ RejectStep(t, j)
        PROVE  \A i \in Journeys : status'[i] \in {status[i], "error_state"}
    <3>1. \E reason : setStatus(j, "error_state", reason)
      BY <2>1 DEF NoChannel, RejectStep, TransitionTo
    <3> QED
      BY <1>1, <3>1
  <2>2. CASE CommitExhaust(t)
    <3>1. TypeOK /\ TickView(t) /\ tickPc[t] \in InTransaction
      BY <2>2 DEF CommitExhaust, InTransaction, IInv, OpenTransactions
    <3>2. tickJourney[t] \in Journeys
      BY <3>1, OpenFacts
    <3>3. setStatus(tickJourney[t], "exhausted", "none")
      BY <2>2 DEF CommitExhaust, TransitionTo
    <3> QED
      BY <1>1, <3>2, <3>3
  <2>3. \/ status' = status
        \/ \E j \in Journeys : NoChannel(t, j) \/ RejectStep(t, j)
        \/ CommitExhaust(t)
    BY <1>2 DEF TickStep, TickThrows, TickStart, DispatchOne, SkipStale, Defer, SkipClaimed,
       SkipStep, scheduleNext, advance, BeginSend, BeginExhaust, Open, DispatchThrows, Proceed,
       SendAccepted, SendRefused, LogTouch, RunExitAction, Continue, CommitSend, TxThrows,
       storeVars, journeyRow
  <2> QED
    BY <2>1, <2>2, <2>3
<1>3. ASSUME NEW r \in Replies, ReplyStep(r) \/ ReplyThrows(r)
      PROVE  \A j \in Journeys : status'[j] \in {status[j], "replied"}
  <2>1. CASE ReplyMark(r)
    <3>1. replyJourney[r] \in Journeys
      BY <2>1 DEF ReplyMark, ReplyLock, IInv, TypeOK, RequestsTypeOK, OpenTransactions,
                  HandlerView
    <3>2. setStatus(replyJourney[r], "replied", "none")
      BY <2>1 DEF ReplyMark, TransitionTo
    <3> QED
      BY <1>1, <3>1, <3>2
  <2>2. CASE ~ReplyMark(r)
    <3>1. status' = status
      BY <1>3, <2>2 DEF ReplyStep, ReplyThrows, ReplyUnheeded, ReplyFind, ReplyTooLate, ReplyLock,
                        ReplyAudit, ReplyRunAction, ReplyFinish, storeVars, journeyRow
    <3> QED
      BY <3>1
  <2> QED
    BY <2>1, <2>2
<1>4. ASSUME NEW L, NEW u, BackfillOwner(L, u)
      PROVE  \A j \in Journeys : status'[j] \in {status[j], "running"}
  BY <1>4 DEF BackfillOwner
<1>5. CASE Crash \/ Time \/ UNCHANGED vars \/ \E t \in Ticks : Nothing(t)
  <2>1. status' = status
    BY <1>5 DEF Crash, Time, ClockTick, Nothing, TickNothing, storeVars, journeyRow, vars
  <2> QED
    BY <2>1
<1> QED
  BY <1>2, <1>3, <1>4, <1>5 DEF Next, NoCommand, Dispatch, Reply, Bulk, Backfill, Failure,
     RequestThrows

\* A message is about journeys in flight; unless they are replied to already,
\* the handler that records it marks the one there is.
LEMMA HeardNext ==
    ASSUME NoCommand, Bulks = {}, \A i, j \in Journeys : LeadOf[i] = LeadOf[j] => i = j,
           IInv, BulkHolds, HeardReplied, [Next]_vars
    PROVE  HeardReplied'
<1>1. \A j \in Journeys : status'[j] \notin {"paused", "paused_owner_inactive"}
  BY NeverPauses DEF HeardReplied
<1>2. heard \subseteq Journeys /\ status \in [Journeys -> LeadJourneyStatus]
  BY DEF IInv, TypeOK, StoreTypeOK, RequestsTypeOK
<1>3. \A j \in Journeys : status[j] = "replied" => status'[j] = "replied"
  BY NextRests DEF Rest
<1>4. ASSUME NEW j \in heard' \ heard
      PROVE  status'[j] = "replied"
  <2>1. ASSUME NEW r \in Replies, NEW l, ReplyUnheeded(r, l)
        PROVE  FALSE
    <3>1. j \in InFlight(l) /\ RunningOfLead(l) = {}
      BY <1>4, <2>1 DEF ReplyUnheeded
    <3> QED
      BY <3>1 DEF InFlight, RunningOfLead, NonTerminalStatuses, HeardReplied
  <2>2. ASSUME NEW r \in Replies, ReplyLock(r)
        PROVE  /\ j \in Journeys /\ j = replyJourney[r] /\ status[j] = "running"
    <3>1. replyJourney[r] \in Journeys
      BY <2>2 DEF ReplyLock, IInv, TypeOK, RequestsTypeOK, OpenTransactions, HandlerView
    <3>2. j \in InFlight(LeadOf[replyJourney[r]])
      BY <1>4, <2>2 DEF ReplyLock
    <3> QED
      BY <3>1, <3>2 DEF InFlight, NonTerminalStatuses, HeardReplied
  <2>3. ASSUME NEW r \in Replies, ReplyMark(r)
        PROVE  status'[j] = "replied"
    BY <1>2, <2>2, <2>3 DEF ReplyMark, setStatus, TransitionTo
  <2>4. ASSUME NEW r \in Replies, ReplyTooLate(r)
        PROVE  FALSE
    BY <2>2, <2>4 DEF ReplyTooLate
  <2>5. ASSUME NEW r \in Replies, ReplyStep(r) \/ ReplyThrows(r)
        PROVE  \/ heard' = heard \/ ReplyMark(r) \/ ReplyTooLate(r)
               \/ \E l \in Leads : ReplyUnheeded(r, l)
    BY <2>5 DEF ReplyStep, ReplyThrows, ReplyFind, ReplyAudit, ReplyRunAction, ReplyFinish
  <2>6. heard' # heard
    BY <1>4
  <2>7. \E r \in Replies : ReplyStep(r) \/ ReplyThrows(r)
    BY <2>6 DEF Next, NoCommand, Dispatch, Nothing, Reply, Bulk, Backfill, BackfillOwner, Time,
       Failure, RequestThrows, Crash, requestVars, vars
  <2> QED
    BY <2>1, <2>3, <2>4, <2>5, <2>6, <2>7
<1>5. ASSUME NEW j \in heard'
      PROVE  status'[j] = "replied"
  BY <1>2, <1>3, <1>4, <1>5 DEF HeardReplied
<1> QED
  BY <1>1, <1>5 DEF HeardReplied

\* Once the message of a lead has been handled, its journey is not touched any
\* more: for leads with one journey each, as long as nobody pauses journeys in
\* bulk, and until the first command.  (A message for a paused journey is not
\* kept, and of two running journeys of a lead it takes one: both hypotheses are
\* needed.)
THEOREM EngineNoTouchAfterReply ==
    ASSUME Bulks = {}, \A i, j \in Journeys : LeadOf[i] = LeadOf[j] => i = j
    PROVE  Spec => NoTouchAfterReply
<1> DEFINE Replied == commands = 0 => HeardReplied
           Untouched == commands = 0 => \A j \in heard, s \in Steps : sends'[j][s] = sends[j][s]
<1>1. Init => Replied
  BY DEF Init, RequestsInit, HeardReplied
<1>2. IInv /\ BulkHolds /\ Quiet /\ Replied /\ [Next]_vars => Replied'
  BY HeardNext, QuietNext
<1>3. IInv /\ Replied /\ [Next]_vars => [Untouched]_vars
  <2> SUFFICES ASSUME IInv, HeardReplied, [Next]_vars, NEW j \in heard, NEW s \in Steps
               PROVE  sends'[j][s] = sends[j][s]
    BY DEF Replied, Untouched
  <2>1. j \in Journeys /\ status[j] = "replied"
    BY DEF IInv, TypeOK, RequestsTypeOK, HeardReplied
  <2>2. CASE sends' = sends
    BY <2>2
  <2>3. CASE sends' # sends
    <3>1. PICK t \in Ticks : SendAccepted(t)
      BY <2>3, OnlySendSends
    <3>2. tickPc[t] = "sending" /\ sends' = Bump(sends, tickJourney[t], tickStep[t])
      BY <3>1 DEF SendAccepted
    <3>3. tickJourney[t] \in Journeys /\ tickStep[t] \in Steps /\ status[tickJourney[t]] = "running"
      BY <3>2, OpenFacts DEF IInv, OpenTransactions, InTransaction
    <3>4. j # tickJourney[t] /\ sends \in [Journeys -> [Steps -> Nat]]
      BY <2>1, <3>3 DEF IInv, TypeOK, DispatcherTypeOK
    <3> QED
      BY <2>1, <3>2, <3>3, <3>4 DEF Bump
  <2> QED
    BY <2>2, <2>3
<1> HIDE DEF Replied
<1> QED
  BY <1>1, <1>2, <1>3, Invariant, EngineBulkHolds, QuietAlways, PTL DEF Spec, NoTouchAfterReply

-----------------------------------------------------------------------------
(* Stuck journeys *)

\* Its next step is taken, as a refusal leaves it: the journey is in error, for
\* a reason no backfill clears.
ClaimRefused(j) ==
    NextStep(j) \in Steps /\ AttemptExists(j, NextStep(j)) =>
        status[j] = "error_state" /\ errorReason[j] # "owner_not_mapped"

Refused == \A j \in Journeys : ClaimRefused(j)

\* The attempts and the step stay, and an error that is not the owner's as well.
Untouched(j) ==
    /\ touchAttempt'[j] = touchAttempt[j] /\ currentStepOrder'[j] = currentStepOrder[j]
    /\ status[j] = "error_state" /\ errorReason[j] # "owner_not_mapped" =>
          status'[j] = status[j] /\ errorReason'[j] = errorReason[j]

LEMMA UntouchedRefused ==
    ASSUME NEW j \in Journeys, ClaimRefused(j), Untouched(j)
    PROVE  ClaimRefused(j)'
BY DEF ClaimRefused, Untouched, NextStep, NextStepOrder, AttemptExists

\* Steps that write none of these rows.
LEMMA RowsRefused ==
    ASSUME Refused, UNCHANGED <<status, errorReason, currentStepOrder, touchAttempt>>
    PROVE  Refused'
BY UntouchedRefused DEF Refused, Untouched

\* A journey that runs gets a status, and no attempt.
LEMMA SetStatusRefused ==
    ASSUME StoreTypeOK, Refused, NEW j \in Journeys, NEW st, NEW reason, status[j] = "running",
           setStatus(j, st, reason), touchAttempt' = touchAttempt
    PROVE  Refused'
<1>1. \A i \in Journeys : Untouched(i)
  BY DEF setStatus, StoreTypeOK, Untouched
<1> QED
  BY <1>1, UntouchedRefused DEF Refused

\* An attempt at the next step moves the journey on to a step not yet attempted.
LEMMA AdvanceRefused ==
    ASSUME StoreTypeOK, AttemptsMatchProgress, Refused, NEW j \in Journeys, NEW at, NEW result,
           currentStepOrder[j] + 1 \in Steps,
           advance(j, currentStepOrder[j] + 1, at),
           recordAttempt(j, currentStepOrder[j] + 1, result)
    PROVE  Refused'
<1> DEFINE s == currentStepOrder[j] + 1
<1>1. /\ currentStepOrder' = [currentStepOrder EXCEPT ![j] = s]
      /\ status' = status /\ errorReason' = errorReason
      /\ touchAttempt' = [touchAttempt EXCEPT ![j][s] = result]
  BY DEF advance, recordAttempt
<1>2. s \in Steps /\ s \in Int /\ Steps \subseteq Int
  BY DEF Steps
<1>3. ASSUME NEW i \in Journeys, i # j
      PROVE  ClaimRefused(i)'
  <2>1. Untouched(i)
    BY <1>1, <1>3 DEF Untouched, StoreTypeOK
  <2> QED
    BY <2>1, UntouchedRefused DEF Refused
<1>4. ClaimRefused(j)'
  <2>1. currentStepOrder'[j] = s
    BY <1>1 DEF StoreTypeOK
  <2>2. s + 1 \in Steps => touchAttempt[j][s + 1] = "none"
    BY <1>2 DEF AttemptsMatchProgress, StoreTypeOK
  <2>3. s + 1 \in Steps => touchAttempt'[j][s + 1] = "none"
    <3>1. touchAttempt'[j] = [touchAttempt[j] EXCEPT ![s] = result]
      BY <1>1 DEF StoreTypeOK
    <3>2. s + 1 # s
      BY <1>2
    <3> HIDE DEF s
    <3> QED
      BY <2>2, <3>1, <3>2 DEF StoreTypeOK
  <2>4. NextStep(j)' = s + 1
    BY <2>1 DEF NextStep, NextStepOrder
  <2> HIDE DEF s
  <2> QED
    BY <2>3, <2>4 DEF ClaimRefused, AttemptExists
<1> QED
  BY <1>3, <1>4 DEF Refused

\* The dispatches that commit at once, and those that open a transaction.
LEMMA DispatchRefused ==
    ASSUME IInv, Refused, NEW t \in Ticks, NEW j \in Journeys,
           DispatchOne(t, j) \/ DispatchThrows(t, j)
    PROVE  Refused'
<1>1. StoreTypeOK /\ AttemptsMatchProgress
  BY DEF IInv, TypeOK, Accounting
<1>2. CASE SkipStale(t, j) \/ SkipClaimed(t, j) \/ DispatchThrows(t, j)
  BY <1>2, RowsRefused DEF SkipStale, SkipClaimed, DispatchThrows, journeyRow
<1>3. CASE BeginSend(t, j) \/ BeginExhaust(t, j)
  BY <1>3, RowsRefused DEF BeginSend, BeginExhaust, Open, journeyRow
<1>4. CASE Defer(t, j)
  <2>1. PICK u : advance(j, currentStepOrder[j], u) /\ touchAttempt' = touchAttempt
    BY <1>4 DEF Defer
  <2>2. currentStepOrder' = currentStepOrder
    BY <1>1, <2>1 DEF advance, StoreTypeOK
  <2> QED
    BY <2>1, <2>2, RowsRefused DEF advance
<1>5. CASE NoChannel(t, j)
  BY <1>1, <1>5, SetStatusRefused DEF NoChannel, StepDue, Eligible, IsDue
<1>6. CASE RejectStep(t, j)
  <2>1. PICK reason \in Verdicts \cap LeadJourneyErrorReason :
           setStatus(j, TransitionTo["error"], reason)
    BY <1>6 DEF RejectStep
  <2>2. recordAttempt(j, NextStep(j), "failed")
    BY <1>6 DEF RejectStep
  <2>3. reason # "owner_not_mapped"
    BY <2>1, DispatcherAssumption
  <2>4. TransitionTo["error"] = "error_state"
    BY DEF TransitionTo
  <2>5. ASSUME NEW i \in Journeys, i # j
        PROVE  ClaimRefused(i)'
    <3>1. Untouched(i)
      BY <1>1, <2>1, <2>2, <2>5 DEF Untouched, StoreTypeOK, setStatus, recordAttempt
    <3> QED
      BY <3>1, UntouchedRefused DEF Refused
  <2>6. ClaimRefused(j)'
    BY <1>1, <2>1, <2>3, <2>4 DEF ClaimRefused, StoreTypeOK, setStatus
  <2> QED
    BY <2>5, <2>6 DEF Refused
<1>7. CASE SkipStep(t, j)
  <2>1. PICK at : advance(j, currentStepOrder[j] + 1, at)
    BY <1>7 DEF SkipStep, scheduleNext, NextStep, NextStepOrder
  <2>2. /\ recordAttempt(j, currentStepOrder[j] + 1, "skipped")
        /\ ~IsExhausted(currentStepOrder[j], StepCount)
    BY <1>7 DEF SkipStep, Claim, StepDue, NextStep, NextStepOrder
  <2>3. currentStepOrder[j] + 1 \in Steps
    BY <1>1, <2>2 DEF IsExhausted, NextStepOrder, Steps, StoreTypeOK
  <2> QED
    BY <1>1, <2>1, <2>2, <2>3, AdvanceRefused
<1> QED
  BY <1>2, <1>3, <1>4, <1>5, <1>6, <1>7 DEF DispatchOne

\* The steps of an open transaction.
LEMMA ProceedRefused ==
    ASSUME IInv, Refused, NEW t \in Ticks, Proceed(t) \/ TxThrows(t)
    PROVE  Refused'
<1> DEFINE j == tickJourney[t]
<1>1. StoreTypeOK /\ AttemptsMatchProgress /\ TypeOK /\ TickView(t)
  BY DEF IInv, TypeOK, Accounting, OpenTransactions
<1>2. tickPc[t] \in InTransaction
  BY DEF Proceed, TxThrows, SendAccepted, SendRefused, LogTouch, RunExitAction, CommitSend,
         CommitExhaust, InTransaction
<1>3. j \in Journeys /\ tickStep[t] \in Steps /\ status[j] = "running"
  BY <1>1, <1>2, OpenFacts
<1>4. CASE SendAccepted(t) \/ SendRefused(t) \/ LogTouch(t) \/ RunExitAction(t)
  BY <1>4, RowsRefused DEF SendAccepted, SendRefused, LogTouch, RunExitAction, Continue, storeVars
<1>5. CASE TxThrows(t)
  BY <1>5, RowsRefused DEF TxThrows, journeyRow
<1>6. CASE CommitSend(t)
  <2>1. PICK at : advance(j, tickStep[t], at)
    BY <1>6 DEF CommitSend, scheduleNext
  <2>2. recordAttempt(j, tickStep[t], tickResult[t]) /\ tickStep[t] = currentStepOrder[j] + 1
    BY <1>1, <1>6 DEF CommitSend, TickView
  <2> QED
    BY <1>1, <1>3, <2>1, <2>2, AdvanceRefused
<1>7. CASE CommitExhaust(t)
  BY <1>1, <1>3, <1>7, SetStatusRefused DEF CommitExhaust
<1> QED
  BY <1>4, <1>5, <1>6, <1>7 DEF Proceed

\* What requests write: a reply takes a running journey, a bulk update none in
\* error, a backfill only those whose owner was missing.
LEMMA RequestsRefused ==
    ASSUME IInv, BulkHolds, Refused,
           \/ \E r \in Replies : ReplyStep(r) \/ ReplyThrows(r)
           \/ \E b \in Bulks : BulkStep(b) \/ BulkThrows(b)
           \/ \E L \in SUBSET Leads, u \in Users : BackfillOwner(L, u)
    PROVE  Refused'
<1>1. StoreTypeOK
  BY DEF IInv, TypeOK
<1>2. ASSUME NEW r \in Replies, ReplyStep(r) \/ ReplyThrows(r)
      PROVE  Refused'
  <2>1. CASE ReplyMark(r)
    <3>1. replyJourney[r] \in Journeys
      BY <2>1 DEF ReplyMark, ReplyLock, IInv, TypeOK, RequestsTypeOK, OpenTransactions, HandlerView
    <3> QED
      BY <1>1, <2>1, <3>1, SetStatusRefused DEF ReplyMark, ReplyLock
  <2>2. CASE ~ReplyMark(r)
    <3>1. UNCHANGED <<status, errorReason, currentStepOrder, touchAttempt>>
      BY <1>2, <2>2 DEF ReplyStep, ReplyThrows, ReplyUnheeded, ReplyFind, ReplyTooLate, ReplyLock,
                        ReplyAudit, ReplyRunAction, ReplyFinish, storeVars, journeyRow
    <3> QED
      BY <3>1, RowsRefused
  <2> QED
    BY <2>1, <2>2
<1>3. ASSUME NEW b \in Bulks, BulkStep(b) \/ BulkThrows(b)
      PROVE  Refused'
  <2>1. CASE BulkCommit(b)
    <3>1. \A i \in Journeys : i \in bulkHeld[b] => status[i] # "error_state"
      BY BulkEvents DEF BulkHolds, IInv, TypeOK, RequestsTypeOK
    <3>2. \A i \in Journeys : Untouched(i)
      BY <2>1, <3>1 DEF BulkCommit, BulkClose, updateRows, Untouched
    <3> QED
      BY <3>2, UntouchedRefused DEF Refused
  <2>2. CASE ~BulkCommit(b)
    <3>1. UNCHANGED <<status, errorReason, currentStepOrder, touchAttempt>>
      BY <1>3, <2>2 DEF BulkStep, BulkThrows, BulkClose, WorkspacePauseAll, PauseOwnerJourneys,
                        ResumeReassigned, BulkBegin, ReassignLeads, BulkRow, storeVars, journeyRow
    <3> QED
      BY <3>1, RowsRefused
  <2> QED
    BY <2>1, <2>2
<1>4. ASSUME NEW L \in SUBSET Leads, NEW u \in Users, BackfillOwner(L, u)
      PROVE  Refused'
  <2>1. \A i \in Journeys : Untouched(i)
    BY <1>4 DEF BackfillOwner, Untouched
  <2> QED
    BY <2>1, UntouchedRefused DEF Refused
<1> QED
  BY <1>2, <1>3, <1>4

LEMMA RefusedNext ==
    ASSUME NoCommand, IInv, BulkHolds, Refused, [Next]_vars
    PROVE  Refused'
<1>1. ASSUME NEW t \in Ticks, TickStep(t) \/ TickThrows(t)
      PROVE  Refused'
  <2>1. CASE TickStart(t)
    BY <2>1, RowsRefused DEF TickStart, storeVars
  <2> QED
    BY <1>1, <2>1, DispatchRefused, ProceedRefused DEF TickStep, TickThrows
<1>2. CASE Crash
  BY <1>2, RowsRefused DEF Crash, journeyRow
<1>3. CASE Time
  BY <1>3, RowsRefused DEF Time, ClockTick, journeyRow
<1>4. CASE UNCHANGED vars
  BY <1>4, RowsRefused DEF vars, storeVars
<1>5. ASSUME NEW t \in Ticks, Nothing(t)
      PROVE  Refused'
  BY <1>5, RowsRefused DEF Nothing, TickNothing, storeVars
<1> QED
  BY <1>1, <1>2, <1>3, <1>4, <1>5, RequestsRefused
     DEF Next, NoCommand, Dispatch, Reply, Bulk, Backfill, Failure, RequestThrows

\* The engine by itself never leaves a running journey behind its own attempt,
\* for any number of ticks, replies, bulk updates, faults and crashes: an
\* attempt either moves its journey on or stops it in error.
THEOREM EngineStuck == Spec => []StuckOnlyByCommand
<1> DEFINE Once == commands = 0 => Refused
<1>1. Init => Once
  BY DEF Init, Refused, ClaimRefused, AttemptExists
<1>2. IInv /\ Once => StuckOnlyByCommand
  <2> SUFFICES ASSUME IInv, Once, NEW j \in Journeys, Stuck(j)
               PROVE  commands > 0
    BY DEF StuckOnlyByCommand
  <2>1. StoreTypeOK /\ commands \in Nat
    BY DEF IInv, TypeOK, RequestsTypeOK
  <2>2. NextStep(j) \in Steps
    BY <2>1 DEF Stuck, IsExhausted, NextStep, NextStepOrder, Steps, StoreTypeOK
  <2>3. commands # 0
    BY <2>2 DEF Stuck, Refused, ClaimRefused
  <2> QED
    BY <2>1, <2>3
<1>3. IInv /\ BulkHolds /\ Quiet /\ Once /\ [Next]_vars => Once'
  BY RefusedNext, QuietNext
<1> HIDE DEF Once
<1> QED
  BY <1>1, <1>2, <1>3, Invariant, EngineBulkHolds, QuietAlways, PTL DEF Spec

=============================================================================
