----------------------------- MODULE LeadJourney -----------------------------
(***************************************************************************)
(* The vocabulary and the pure functions of a lead journey: its statuses,  *)
(* the events that drive it, the transition table, the reasons an          *)
(* error_state carries, and the choice of the next step.                   *)
(***************************************************************************)
EXTENDS Integers

LeadJourneyStatus ==
    {"running", "paused", "replied", "exhausted", "stopped", "error_state",
     "paused_owner_inactive"}

\* A journey still in flight, so that re-entry must not start another.
NonTerminalStatuses == {"running", "paused", "paused_owner_inactive"}

JourneyEvent ==
    {"reply", "exhaust", "error", "pause", "resume", "stop",
     "owner_inactive", "owner_reactivated"}

LeadJourneyErrorReason ==
    {"no_channel", "template_required", "owner_not_mapped",
     "owner_lookup_failed", "template_variable"}

\* `transitions`: the statuses an event may be applied from, and its target.
TransitionFrom ==
    [reply             |-> NonTerminalStatuses,
     exhaust           |-> {"running"},
     error             |-> {"running"},
     pause             |-> {"running"},
     resume            |-> {"paused"},
     stop              |-> NonTerminalStatuses,
     owner_inactive    |-> {"running"},
     owner_reactivated |-> {"paused_owner_inactive"}]

TransitionTo ==
    [reply             |-> "replied",
     exhaust           |-> "exhausted",
     error             |-> "error_state",
     pause             |-> "paused",
     resume            |-> "running",
     stop              |-> "stopped",
     owner_inactive    |-> "paused_owner_inactive",
     owner_reactivated |-> "running"]

\* transition(current, event) throws when the event is not legal from current:
\* CanTransition is the guard, TransitionTo[event] the result.
CanTransition(current, event) == current \in TransitionFrom[event]

\* resolveNextStep: the order of the step to dispatch next; the journey is
\* exhausted when there is none left.
NextStepOrder(current) == current + 1

\* Mutant: one step too many.
IsExhaustedOffByOne(current, stepCount) == NextStepOrder(current) > stepCount

IsExhausted(current, stepCount) == NextStepOrder(current) >= stepCount

=============================================================================
