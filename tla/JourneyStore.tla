----------------------------- MODULE JourneyStore -----------------------------
(***************************************************************************)
(* The database rows the engine works on: lead_journeys (status, current   *)
(* step, next touch, error reason), touch_attempts and leads.ownerUserId,  *)
(* with the operations of their repositories.  The variables hold what is  *)
(* COMMITTED.  A transaction that spans several steps of its process holds *)
(* the journey's row lock (lockedBy) and writes when it commits: under     *)
(* READ COMMITTED nobody else can tell the difference, since every other   *)
(* writer of the row waits for the lock and every reader without a lock    *)
(* sees the last committed version.                                        *)
(***************************************************************************)
EXTENDS LeadJourney, FiniteSets

CONSTANTS
    Journeys,      \* rows of lead_journeys, all of one workspace and cadence
    Leads,
    Users,         \* workspace members who may own leads
    LeadOf,        \* the lead of each journey
    StepCount,     \* number of steps of the cadence
    NoUser,        \* ownerUserId is null
    NoTouch,       \* nextTouchAt is null
    NoJourney,     \* a process has no journey in hand
    Nobody,        \* no transaction holds the row lock
    MaxTime,       \* bound of the clock
    MaxFaults      \* bound on exceptions and process crashes

ASSUME StoreAssumption ==
    /\ LeadOf \in [Journeys -> Leads]
    /\ StepCount \in Nat \ {0}
    /\ NoTouch \notin Int
    /\ NoUser \notin Users
    /\ NoJourney \notin Journeys
    /\ MaxTime \in Nat
    /\ MaxFaults \in Nat

VARIABLES
    status,
    currentStepOrder,
    nextTouchAt,
    errorReason,
    touchAttempt,    \* touch_attempts, unique on (journey, step)
    ownerUserId,     \* leads.ownerUserId
    lockedBy,        \* who holds SELECT ... FOR UPDATE on the row
    now,             \* the clock
    faults           \* exceptions and crashes so far

journeyRow == <<status, currentStepOrder, nextTouchAt, errorReason>>
storeVars == <<status, currentStepOrder, nextTouchAt, errorReason,
               touchAttempt, ownerUserId, lockedBy, now, faults>>

Steps == 0 .. StepCount - 1
Touch == Nat \cup {NoTouch}
Reason == LeadJourneyErrorReason \cup {"none"}
AttemptStatus == {"none", "sent", "failed", "skipped"}

\* Something throws, or the process dies.
Fault == faults < MaxFaults /\ faults' = faults + 1

-----------------------------------------------------------------------------
(* Queries *)

IsDue(j, t) ==
    /\ status[j] = "running"
    /\ nextTouchAt[j] # NoTouch
    /\ nextTouchAt[j] <= t

Due(t) == {j \in Journeys : IsDue(j, t)}

RunningOfLead(l) == {j \in Journeys : LeadOf[j] = l /\ status[j] = "running"}

OwnedBy(u) == {j \in Journeys : ownerUserId[LeadOf[j]] = u}

Unlocked(j) == lockedBy[j] = Nobody

-----------------------------------------------------------------------------
(* Updates of a journey row *)

advance(j, stepOrder, at) ==
    /\ currentStepOrder' = [currentStepOrder EXCEPT ![j] = stepOrder]
    /\ nextTouchAt' = [nextTouchAt EXCEPT ![j] = at]
    /\ UNCHANGED <<status, errorReason>>

\* Mutant: the reason is not written.
setStatusKeepReason(j, st, reason) ==
    /\ status' = [status EXCEPT ![j] = st]
    /\ nextTouchAt' = [nextTouchAt EXCEPT ![j] = NoTouch]
    /\ UNCHANGED <<currentStepOrder, errorReason>>

setStatus(j, st, reason) ==
    /\ status' = [status EXCEPT ![j] = st]
    /\ nextTouchAt' = [nextTouchAt EXCEPT ![j] = NoTouch]
    /\ errorReason' = [errorReason EXCEPT ![j] = reason]
    /\ UNCHANGED currentStepOrder

\* UPDATE ... WHERE id = j: unconditional, and errorReason is left as it is.
updateStatus(j, st, at) ==
    /\ status' = [status EXCEPT ![j] = st]
    /\ nextTouchAt' = [nextTouchAt EXCEPT ![j] = at]
    /\ UNCHANGED <<currentStepOrder, errorReason>>

\* The bulk UPDATEs set the status and the next touch of a set of rows.
updateRows(S, st, at) ==
    /\ status' = [j \in Journeys |-> IF j \in S THEN st ELSE status[j]]
    /\ nextTouchAt' = [j \in Journeys |-> IF j \in S THEN at ELSE nextTouchAt[j]]
    /\ UNCHANGED <<currentStepOrder, errorReason>>

\* The conflict of tryInsert's ON CONFLICT DO NOTHING.
AttemptExists(j, stepOrder) == touchAttempt[j][stepOrder] # "none"

recordAttempt(j, stepOrder, result) ==
    touchAttempt' = [touchAttempt EXCEPT ![j][stepOrder] = result]

-----------------------------------------------------------------------------
StoreTypeOK ==
    /\ status \in [Journeys -> LeadJourneyStatus]
    /\ currentStepOrder \in [Journeys -> -1 .. StepCount - 1]
    /\ nextTouchAt \in [Journeys -> Touch]
    /\ errorReason \in [Journeys -> Reason]
    /\ touchAttempt \in [Journeys -> [Steps -> AttemptStatus]]
    /\ ownerUserId \in [Leads -> Users \cup {NoUser}]
    /\ now \in Nat
    /\ faults \in Nat

=============================================================================
