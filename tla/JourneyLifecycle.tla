--------------------------- MODULE JourneyLifecycle ---------------------------
(***************************************************************************)
(* What the engine promises about journeys, without its transactions: the  *)
(* status follows the transition table, and the steps are touched in order *)
(* while the journey runs.  JourneyEngine without operator commands        *)
(* implements it; ControlJourney's unconditional write does not.           *)
(***************************************************************************)
EXTENDS LeadJourney

CONSTANTS Journeys, StepCount

VARIABLES
    status,
    currentStepOrder,
    touched           \* steps for which a message has left, per journey

vars == <<status, currentStepOrder, touched>>

Steps == 0 .. StepCount - 1

Init ==
    /\ status \in [Journeys -> {"running", "error_state"}]
    /\ currentStepOrder = [j \in Journeys |-> -1]
    /\ touched = [j \in Journeys |-> {}]

\* An event happens to a set of journeys; exhaustion only once no step is left.
Raise(S, event) ==
    /\ \A j \in S : /\ CanTransition(status[j], event)
                    /\ event = "exhaust" => IsExhausted(currentStepOrder[j], StepCount)
    /\ status' = [j \in Journeys |-> IF j \in S THEN TransitionTo[event] ELSE status[j]]
    /\ UNCHANGED <<currentStepOrder, touched>>

\* Beside the table: journeys parked for want of an owner run once there is one.
OwnerMapped(S) ==
    /\ \A j \in S : status[j] = "error_state"
    /\ status' = [j \in Journeys |-> IF j \in S THEN "running" ELSE status[j]]
    /\ UNCHANGED <<currentStepOrder, touched>>

\* A message for the next step leaves; the journey has not advanced yet.
TouchStep(j) ==
    /\ status[j] = "running"
    /\ ~IsExhausted(currentStepOrder[j], StepCount)
    /\ touched' = [touched EXCEPT ![j] = @ \cup {NextStepOrder(currentStepOrder[j])}]
    /\ UNCHANGED <<status, currentStepOrder>>

Advance(j) ==
    /\ status[j] = "running"
    /\ ~IsExhausted(currentStepOrder[j], StepCount)
    /\ currentStepOrder' = [currentStepOrder EXCEPT ![j] = NextStepOrder(@)]
    /\ UNCHANGED <<status, touched>>

Next ==
    \/ \E S \in SUBSET Journeys : \/ \E event \in JourneyEvent : Raise(S, event)
                                  \/ OwnerMapped(S)
    \/ \E j \in Journeys : TouchStep(j) \/ Advance(j)

Spec == Init /\ [][Next]_vars

-----------------------------------------------------------------------------
TypeOK ==
    /\ status \in [Journeys -> LeadJourneyStatus]
    /\ currentStepOrder \in [Journeys -> -1 .. StepCount - 1]
    /\ touched \in [Journeys -> SUBSET Steps]

\* Steps are touched in order: never one beyond the step after the current.
TouchedInOrder ==
    \A j \in Journeys : \A s \in touched[j] : s <= currentStepOrder[j] + 1

\* A journey replied to, exhausted or stopped is at rest: neither its status,
\* nor its step, nor what was sent to its lead changes any more.
AtRest ==
    [][\A j \in Journeys : status[j] \in {"replied", "exhausted", "stopped"} =>
          /\ status'[j] = status[j]
          /\ currentStepOrder'[j] = currentStepOrder[j]
          /\ touched'[j] = touched[j]]_vars

=============================================================================
