---------------------------- MODULE JourneyRequests ----------------------------
(***************************************************************************)
(* Everything besides the dispatcher that writes journeys: the reply an    *)
(* inbound message marks, the operator's pause, resume and stop of one     *)
(* journey, the bulk updates of a workspace or an owner, and the backfill  *)
(* that claims leads for a newly mapped owner.  Each use case runs as a    *)
(* sequence of awaited statements, so another process may act between any  *)
(* two of them.                                                            *)
(***************************************************************************)
EXTENDS JourneyStore

CONSTANTS
    Replies,         \* inbound messages handled at the same time
    Controls,        \* operator commands handled at the same time
    Bulks,           \* bulk updates handled at the same time
    ReplyActions,    \* number of onReply actions
    MaxCommands      \* bound on the operator commands accepted

ASSUME RequestsAssumption ==
    /\ ReplyActions \in Nat
    /\ MaxCommands \in Nat
    /\ Nobody \notin Bulks

VARIABLES
    replyPc,
    replyJourney,
    replyAction,     \* onReply actions already run
    controlPc,
    controlJourney,
    controlAction,
    controlAt,       \* the time a resume makes the journey due
    commands,        \* operator commands accepted so far
    bulkPc,
    bulkEvent,
    bulkTodo,        \* rows the statement's snapshot matched, not reached yet
    bulkHeld,        \* rows updated and locked until the statement commits
    bulkAt,
    bulkUser,        \* the owner a reassignment resumes next
    replyRuns,       \* runs of each onReply action, per journey
    heard            \* journeys of leads whose inbound message was handled

replyVars == <<replyPc, replyJourney, replyAction>>
controlVars == <<controlPc, controlJourney, controlAction, controlAt, commands>>
bulkVars == <<bulkPc, bulkEvent, bulkTodo, bulkHeld, bulkAt, bulkUser>>
requestVars == <<replyPc, replyJourney, replyAction,
                 controlPc, controlJourney, controlAction, controlAt, commands,
                 bulkPc, bulkEvent, bulkTodo, bulkHeld, bulkAt, bulkUser,
                 replyRuns, heard>>

JourneyControlAction == {"pause", "resume", "stop"}
BulkEvent == {"pause", "owner_inactive", "owner_reactivated"}

RequestsInit ==
    /\ replyPc = [r \in Replies |-> "idle"]
    /\ replyJourney = [r \in Replies |-> NoJourney]
    /\ replyAction = [r \in Replies |-> 0]
    /\ controlPc = [r \in Controls |-> "idle"]
    /\ controlJourney = [r \in Controls |-> NoJourney]
    /\ controlAction = [r \in Controls |-> "pause"]
    /\ controlAt = [r \in Controls |-> 0]
    /\ commands = 0
    /\ bulkPc = [b \in Bulks |-> "idle"]
    /\ bulkEvent = [b \in Bulks |-> "pause"]
    /\ bulkTodo = [b \in Bulks |-> {}]
    /\ bulkHeld = [b \in Bulks |-> {}]
    /\ bulkAt = [b \in Bulks |-> 0]
    /\ bulkUser = [b \in Bulks |-> NoUser]
    /\ replyRuns = [j \in Journeys |-> [a \in 1 .. ReplyActions |-> 0]]
    /\ heard = {}

-----------------------------------------------------------------------------
(* MarkReply: find a running journey of the lead without a lock, mark it   *)
(* replied under the lock, then audit and run onReply after the commit.    *)

\* The journeys a message from lead l is about: those still in flight.
InFlight(l) == {j \in Journeys : LeadOf[j] = l /\ status[j] \in NonTerminalStatuses}

ReplyUnheeded(r, l) ==
    /\ replyPc[r] = "idle"
    /\ RunningOfLead(l) = {}
    /\ heard' = heard \cup InFlight(l)
    /\ UNCHANGED <<storeVars, replyVars, controlVars, bulkVars, replyRuns>>

ReplyFind(r, l) ==
    /\ replyPc[r] = "idle"
    /\ \E j \in RunningOfLead(l) :
         replyJourney' = [replyJourney EXCEPT ![r] = j]
    /\ replyPc' = [replyPc EXCEPT ![r] = "lock"]
    /\ UNCHANGED <<storeVars, replyAction, controlVars, bulkVars, replyRuns,
                   heard>>

ReplyDone(r) ==
    /\ replyPc' = [replyPc EXCEPT ![r] = "idle"]
    /\ replyJourney' = [replyJourney EXCEPT ![r] = NoJourney]
    /\ replyAction' = [replyAction EXCEPT ![r] = 0]

\* Mutant: the status is read and written without waiting for the lock.
ReplyLockUnlocked(r) ==
    /\ replyPc[r] = "lock"
    /\ heard' = heard \cup InFlight(LeadOf[replyJourney[r]])
    /\ UNCHANGED <<touchAttempt, ownerUserId, lockedBy, now, faults,
                   controlVars, bulkVars, replyRuns>>

ReplyLock(r) ==
    /\ replyPc[r] = "lock"
    /\ Unlocked(replyJourney[r])
    /\ heard' = heard \cup InFlight(LeadOf[replyJourney[r]])
    /\ UNCHANGED <<touchAttempt, ownerUserId, lockedBy, now, faults,
                   controlVars, bulkVars, replyRuns>>

\* Mutant: the status is not checked again under the lock.
ReplyMarkUnchecked(r) ==
    /\ ReplyLock(r)
    /\ setStatus(replyJourney[r], TransitionTo.reply, "none")
    /\ replyPc' = [replyPc EXCEPT ![r] = "audit"]
    /\ UNCHANGED <<replyJourney, replyAction>>

ReplyMark(r) ==
    /\ ReplyLock(r)
    /\ status[replyJourney[r]] = "running"
    /\ setStatus(replyJourney[r], TransitionTo.reply, "none")
    /\ replyPc' = [replyPc EXCEPT ![r] = "audit"]
    /\ UNCHANGED <<replyJourney, replyAction>>

\* Mutant: a row somebody else holds is skipped (SKIP LOCKED).
ReplyTooLateSkipLocked(r) ==
    /\ replyPc[r] = "lock"
    /\ ~Unlocked(replyJourney[r])
    /\ ReplyDone(r)
    /\ UNCHANGED <<storeVars, controlVars, bulkVars, replyRuns, heard>>

\* The journey left running between the search and the lock.
ReplyTooLate(r) ==
    /\ ReplyLock(r)
    /\ status[replyJourney[r]] # "running"
    /\ ReplyDone(r)
    /\ UNCHANGED journeyRow

\* The audit event is inserted: a statement that may fail, of which no use case
\* reads the row again.
ReplyAudit(r) ==
    /\ replyPc[r] = "audit"
    /\ replyPc' = [replyPc EXCEPT ![r] = "actions"]
    /\ UNCHANGED <<storeVars, replyJourney, replyAction, controlVars, bulkVars,
                   replyRuns, heard>>

ReplyRunAction(r) ==
    /\ replyPc[r] = "actions"
    /\ replyAction[r] < ReplyActions
    /\ replyAction' = [replyAction EXCEPT ![r] = @ + 1]
    /\ replyRuns' = [replyRuns EXCEPT ![replyJourney[r]][replyAction[r] + 1] = @ + 1]
    /\ UNCHANGED <<storeVars, replyPc, replyJourney, controlVars, bulkVars, heard>>

ReplyFinish(r) ==
    /\ replyPc[r] = "actions"
    /\ replyAction[r] = ReplyActions
    /\ ReplyDone(r)
    /\ UNCHANGED <<storeVars, controlVars, bulkVars, replyRuns, heard>>

\* The transaction, the audit insert or an action throws: what is left of the
\* handler is lost.
ReplyThrows(r) ==
    /\ replyPc[r] \in {"lock", "audit", "actions"}
    /\ Fault
    /\ ReplyDone(r)
    /\ UNCHANGED <<journeyRow, touchAttempt, ownerUserId, lockedBy, now,
                   controlVars, bulkVars, replyRuns, heard>>

-----------------------------------------------------------------------------
(* ControlJourney: read the status without a lock, compute the transition, *)
(* write the result unconditionally, audit.  transition() throws when the  *)
(* action is not legal from the status read.                               *)

ControlRead(r, j, action) ==
    /\ controlPc[r] = "idle"
    /\ CanTransition(status[j], action)
    /\ commands < MaxCommands
    /\ commands' = commands + 1
    /\ controlPc' = [controlPc EXCEPT ![r] = "write"]
    /\ controlJourney' = [controlJourney EXCEPT ![r] = j]
    /\ controlAction' = [controlAction EXCEPT ![r] = action]
    /\ controlAt' = [controlAt EXCEPT ![r] = now]
    /\ UNCHANGED <<storeVars, replyVars, bulkVars, replyRuns, heard>>

\* Mutant: the write does not wait for the row lock.
ControlWriteUnlocked(r) ==
    /\ controlPc[r] = "write"
    /\ updateStatus(controlJourney[r], TransitionTo[controlAction[r]],
                    IF controlAction[r] = "resume" THEN controlAt[r] ELSE NoTouch)
    /\ controlPc' = [controlPc EXCEPT ![r] = "audit"]
    /\ UNCHANGED <<touchAttempt, ownerUserId, lockedBy, now, faults, replyVars,
                   controlJourney, controlAction, controlAt, commands, bulkVars,
                   replyRuns, heard>>

ControlWrite(r) ==
    /\ controlPc[r] = "write"
    /\ Unlocked(controlJourney[r])
    /\ updateStatus(controlJourney[r], TransitionTo[controlAction[r]],
                    IF controlAction[r] = "resume" THEN controlAt[r] ELSE NoTouch)
    /\ controlPc' = [controlPc EXCEPT ![r] = "audit"]
    /\ UNCHANGED <<touchAttempt, ownerUserId, lockedBy, now, faults, replyVars,
                   controlJourney, controlAction, controlAt, commands, bulkVars,
                   replyRuns, heard>>

ControlDone(r) ==
    /\ controlPc' = [controlPc EXCEPT ![r] = "idle"]
    /\ controlJourney' = [controlJourney EXCEPT ![r] = NoJourney]
    /\ controlAction' = [controlAction EXCEPT ![r] = "pause"]
    /\ controlAt' = [controlAt EXCEPT ![r] = 0]
    /\ UNCHANGED <<commands, replyVars, bulkVars, replyRuns, heard>>

ControlAudit(r) ==
    /\ controlPc[r] = "audit"
    /\ ControlDone(r)
    /\ UNCHANGED storeVars

ControlThrows(r) ==
    /\ controlPc[r] \in {"write", "audit"}
    /\ Fault
    /\ ControlDone(r)
    /\ UNCHANGED <<journeyRow, touchAttempt, ownerUserId, lockedBy, now>>

-----------------------------------------------------------------------------
(* Bulk updates: one UPDATE statement over the rows its snapshot matches.  *)
(* It locks the rows one by one, waiting for whoever holds them, checks    *)
(* the status again on the version it then finds, and takes effect when    *)
(* it commits.  Who owns a lead is read from the snapshot.                 *)

BulkBegin(b, event, S) ==
    /\ bulkPc' = [bulkPc EXCEPT ![b] = "locking"]
    /\ bulkEvent' = [bulkEvent EXCEPT ![b] = event]
    /\ bulkTodo' = [bulkTodo EXCEPT ![b] =
                       {j \in S : CanTransition(status[j], event)}]
    /\ bulkAt' = [bulkAt EXCEPT ![b] = now]
    /\ bulkUser' = [bulkUser EXCEPT ![b] = NoUser]
    /\ UNCHANGED <<storeVars, bulkHeld, replyVars, controlVars, replyRuns, heard>>

WorkspacePauseAll(b) ==
    /\ bulkPc[b] = "idle"
    /\ BulkBegin(b, "pause", Journeys)

PauseOwnerJourneys(b, u) ==
    /\ bulkPc[b] = "idle"
    /\ BulkBegin(b, "owner_inactive", OwnedBy(u))

\* ReassignLeads, first statement: the leads change hands ...
ReassignLeads(b, from, to) ==
    /\ bulkPc[b] = "idle"
    /\ ownerUserId' = [l \in Leads |-> IF ownerUserId[l] = from THEN to ELSE ownerUserId[l]]
    /\ bulkPc' = [bulkPc EXCEPT ![b] = "reassigned"]
    /\ bulkUser' = [bulkUser EXCEPT ![b] = to]
    /\ UNCHANGED <<journeyRow, touchAttempt, lockedBy, now, faults, bulkEvent,
                   bulkTodo, bulkHeld, bulkAt, replyVars, controlVars, replyRuns, heard>>

\* ... second statement: the journeys parked for the new owner resume.
ResumeReassigned(b) ==
    /\ bulkPc[b] = "reassigned"
    /\ BulkBegin(b, "owner_reactivated", OwnedBy(bulkUser[b]))

\* Mutant: the rows of the snapshot are updated whatever they have become.
BulkRowUnchecked(b, j) ==
    /\ bulkPc[b] = "locking"
    /\ j \in bulkTodo[b]
    /\ Unlocked(j)
    /\ bulkTodo' = [bulkTodo EXCEPT ![b] = @ \ {j}]
    /\ bulkHeld' = [bulkHeld EXCEPT ![b] = @ \cup {j}]
    /\ lockedBy' = [lockedBy EXCEPT ![j] = b]
    /\ UNCHANGED <<journeyRow, touchAttempt, ownerUserId, now, faults, bulkPc,
                   bulkEvent, bulkAt, bulkUser, replyVars, controlVars, replyRuns, heard>>

BulkRow(b, j) ==
    /\ bulkPc[b] = "locking"
    /\ j \in bulkTodo[b]
    /\ Unlocked(j)
    /\ bulkTodo' = [bulkTodo EXCEPT ![b] = @ \ {j}]
    /\ \/ /\ CanTransition(status[j], bulkEvent[b])
          /\ bulkHeld' = [bulkHeld EXCEPT ![b] = @ \cup {j}]
          /\ lockedBy' = [lockedBy EXCEPT ![j] = b]
       \/ /\ ~CanTransition(status[j], bulkEvent[b])
          /\ UNCHANGED <<bulkHeld, lockedBy>>
    /\ UNCHANGED <<journeyRow, touchAttempt, ownerUserId, now, faults, bulkPc,
                   bulkEvent, bulkAt, bulkUser, replyVars, controlVars, replyRuns, heard>>

BulkClose(b) ==
    /\ bulkPc' = [bulkPc EXCEPT ![b] = "idle"]
    /\ bulkEvent' = [bulkEvent EXCEPT ![b] = "pause"]
    /\ bulkTodo' = [bulkTodo EXCEPT ![b] = {}]
    /\ bulkHeld' = [bulkHeld EXCEPT ![b] = {}]
    /\ bulkAt' = [bulkAt EXCEPT ![b] = 0]
    /\ bulkUser' = [bulkUser EXCEPT ![b] = NoUser]
    /\ lockedBy' = [j \in Journeys |-> IF j \in bulkHeld[b] THEN Nobody ELSE lockedBy[j]]
    /\ UNCHANGED <<touchAttempt, ownerUserId, now, replyVars, controlVars, replyRuns, heard>>

BulkCommit(b) ==
    /\ bulkPc[b] = "locking"
    /\ bulkTodo[b] = {}
    /\ updateRows(bulkHeld[b], TransitionTo[bulkEvent[b]],
                  IF bulkEvent[b] = "owner_reactivated" THEN bulkAt[b] ELSE NoTouch)
    /\ BulkClose(b)
    /\ UNCHANGED faults

\* The statement fails (two bulk updates may also deadlock, and PostgreSQL
\* aborts one of them): nothing of it is written.
BulkThrows(b) ==
    /\ bulkPc[b] \in {"reassigned", "locking"}
    /\ Fault
    /\ BulkClose(b)
    /\ UNCHANGED journeyRow

-----------------------------------------------------------------------------
(* LeadOwnerBackfill: leads of a CRM owner that is now mapped to user u    *)
(* get their owner, and those of their journeys parked as owner_not_mapped *)
(* run again.  No transaction holds a row in error_state across steps.     *)

BackfillOwner(L, u) ==
    LET parked == {j \in Journeys : /\ LeadOf[j] \in L
                                    /\ status[j] = "error_state"
                                    /\ errorReason[j] = "owner_not_mapped"}
    IN
    /\ L # {}
    /\ \A l \in L : ownerUserId[l] = NoUser
    /\ ownerUserId' = [l \in Leads |-> IF l \in L THEN u ELSE ownerUserId[l]]
    /\ status' = [j \in Journeys |-> IF j \in parked THEN "running" ELSE status[j]]
    /\ nextTouchAt' = [j \in Journeys |-> IF j \in parked THEN now ELSE nextTouchAt[j]]
    /\ errorReason' = [j \in Journeys |-> IF j \in parked THEN "none" ELSE errorReason[j]]
    /\ UNCHANGED <<currentStepOrder, touchAttempt, lockedBy, now, faults, requestVars>>

-----------------------------------------------------------------------------
ReplyStep(r) ==
    \/ \E l \in Leads : ReplyUnheeded(r, l) \/ ReplyFind(r, l)
    \/ ReplyMark(r)
    \/ ReplyTooLate(r)
    \/ ReplyAudit(r)
    \/ ReplyRunAction(r)
    \/ ReplyFinish(r)

ControlStep(r) ==
    \/ \E j \in Journeys, action \in JourneyControlAction : ControlRead(r, j, action)
    \/ ControlWrite(r)
    \/ ControlAudit(r)

BulkStep(b) ==
    \/ WorkspacePauseAll(b)
    \/ \E u \in Users : PauseOwnerJourneys(b, u)
    \/ \E from, to \in Users : ReassignLeads(b, from, to)
    \/ ResumeReassigned(b)
    \/ \E j \in Journeys : BulkRow(b, j)
    \/ BulkCommit(b)

RequestThrows ==
    \/ \E r \in Replies : ReplyThrows(r)
    \/ \E r \in Controls : ControlThrows(r)
    \/ \E b \in Bulks : BulkThrows(b)

-----------------------------------------------------------------------------
RequestsTypeOK ==
    /\ replyPc \in [Replies -> {"idle", "lock", "audit", "actions"}]
    /\ replyJourney \in [Replies -> Journeys \cup {NoJourney}]
    /\ replyAction \in [Replies -> 0 .. ReplyActions]
    /\ controlPc \in [Controls -> {"idle", "write", "audit"}]
    /\ controlJourney \in [Controls -> Journeys \cup {NoJourney}]
    /\ controlAction \in [Controls -> JourneyControlAction]
    /\ controlAt \in [Controls -> Nat]
    /\ commands \in Nat
    /\ bulkPc \in [Bulks -> {"idle", "reassigned", "locking"}]
    /\ bulkEvent \in [Bulks -> BulkEvent]
    /\ bulkTodo \in [Bulks -> SUBSET Journeys]
    /\ bulkHeld \in [Bulks -> SUBSET Journeys]
    /\ bulkAt \in [Bulks -> Nat]
    /\ bulkUser \in [Bulks -> Users \cup {NoUser}]
    /\ replyRuns \in [Journeys -> [1 .. ReplyActions -> Nat]]
    /\ heard \subseteq Journeys

=============================================================================
