------------------------------ MODULE CadenceEdits ------------------------------
(***************************************************************************)
(* One cadence, edited and deleted while the dispatcher goes through its    *)
(* steps.  A dispatch holds the lock of its journey but reads the steps and *)
(* the template in statements of their own, so an edit or the deletion of a *)
(* template may commit between any two of them.                             *)
(***************************************************************************)
EXTENDS LeadJourney, Sequences

CONSTANTS
    Journeys, Editors, Templates,
    MaxSteps,             \* of a cadence
    MaxEdits, MaxFailures,   \* bounds of the model
    NoTemplate, Nobody, Deleter

ASSUME CadenceAssumption ==
    /\ {MaxSteps, MaxEdits, MaxFailures} \subseteq Nat /\ MaxSteps > 0
    /\ NoTemplate \notin Templates
    /\ {Nobody, Deleter} \cap Editors = {} /\ Nobody # Deleter

VARIABLES
    steps,            \* the committed steps: the template of each, or none
    live,             \* templates that exist
    deleting,         \* templates whose deletion is not committed
    lock,             \* who has changed the row of the cadence and not committed
    editor,           \* where each UpdateCadence is, and the steps it asks for
    edits, failures,
    status, currentStepOrder,   \* of each journey; a deleted one is "absent"
    attempted,        \* the attempts a journey has advanced by: the step, how it ended, and
                      \* whether its message had a template
    dispatch          \* the open dispatch of each journey: what it has read

cadenceVars == <<steps, live, deleting, lock, editor, edits>>
journeyVars == <<status, currentStepOrder, attempted, dispatch>>
vars == <<cadenceVars, failures, journeyVars>>

StepLists == UNION {[1 .. n -> Templates \cup {NoTemplate}] : n \in 1 .. MaxSteps}
Idle == [pc |-> "idle", steps |-> <<>>]
\* gone: templates deleted since the dispatch read the steps.
NotOpen == [pc |-> "idle", steps |-> <<>>, gone |-> {}]
Following(j) == NextStepOrder(currentStepOrder[j])
HasStep(j) == dispatch[j].pc = "step" /\ Following(j) < Len(dispatch[j].steps)
StepTemplate(j) == dispatch[j].steps[Following(j) + 1]

Init ==
    /\ live = Templates
    /\ steps \in {s \in StepLists : \A i \in DOMAIN s : s[i] # NoTemplate}
    /\ deleting = {} /\ lock = Nobody
    /\ editor = [e \in Editors |-> Idle]
    /\ edits = 0 /\ failures = 0
    /\ status = [j \in Journeys |-> "running"]
    /\ currentStepOrder = [j \in Journeys |-> -1]
    /\ attempted = [j \in Journeys |-> {}]
    /\ dispatch = [j \in Journeys |-> NotOpen]

Fail == failures < MaxFailures /\ failures' = failures + 1
Exists == steps # <<>>

-----------------------------------------------------------------------------
(* UpdateCadence *)

\* The cadence exists, and so does every template the steps name.
ValidateCadenceSteps(e, new) ==
    /\ editor[e].pc = "idle" /\ edits < MaxEdits
    /\ Exists
    /\ \A i \in DOMAIN new : new[i] \in live \cup {NoTemplate}
    /\ editor' = [editor EXCEPT ![e] = [pc |-> "validated", steps |-> new]]
    /\ edits' = edits + 1
    /\ UNCHANGED <<steps, live, deleting, lock, failures, journeyVars>>

\* Mutant: the old steps are gone before the transaction commits.
ReplaceStepsAtOnce(e) ==
    /\ editor[e].pc = "validated" /\ lock = Nobody /\ Exists
    /\ lock' = e
    /\ steps' = <<>>
    /\ editor' = [editor EXCEPT ![e].pc = "replacing"]
    /\ UNCHANGED <<live, deleting, edits, failures, journeyVars>>

\* updateWithSteps updates the row of the cadence and deletes its steps ...
ReplaceSteps(e) ==
    /\ editor[e].pc = "validated" /\ lock = Nobody /\ Exists
    /\ lock' = e
    /\ editor' = [editor EXCEPT ![e].pc = "replacing"]
    /\ UNCHANGED <<steps, live, deleting, edits, failures, journeyVars>>

\* Mutant: no foreign key.
InsertStepsUnchecked(e) ==
    /\ editor[e].pc = "replacing"
    /\ steps' = editor[e].steps
    /\ lock' = Nobody
    /\ editor' = [editor EXCEPT ![e] = Idle]
    /\ UNCHANGED <<live, deleting, edits, failures, journeyVars>>

\* ... then inserts the new ones, whose foreign keys wait for a template being
\* deleted, and commits.
InsertSteps(e) ==
    /\ editor[e].pc = "replacing"
    /\ \A i \in DOMAIN editor[e].steps :
          editor[e].steps[i] \in (live \ deleting) \cup {NoTemplate}
    /\ steps' = editor[e].steps
    /\ lock' = Nobody
    /\ editor' = [editor EXCEPT ![e] = Idle]
    /\ UNCHANGED <<live, deleting, edits, failures, journeyVars>>

EditRolledBack(e) ==
    /\ editor' = [editor EXCEPT ![e] = Idle]
    /\ lock' = IF lock = e THEN Nobody ELSE lock
    /\ UNCHANGED <<steps, live, deleting, edits, journeyVars>>

\* The cadence, or a template of the new steps, has been deleted since.
ForeignKeyThrows(e) ==
    /\ \/ editor[e].pc = "validated" /\ lock = Nobody /\ ~Exists
       \/ /\ editor[e].pc = "replacing"
          /\ \E i \in DOMAIN editor[e].steps : editor[e].steps[i] \notin live \cup {NoTemplate}
    /\ EditRolledBack(e)
    /\ UNCHANGED failures

\* A statement fails, or PostgreSQL breaks a deadlock with the deletion of a template.
EditThrows(e) ==
    /\ editor[e].pc # "idle"
    /\ \/ Fail
       \/ editor[e].pc = "replacing" /\ deleting # {} /\ UNCHANGED failures
    /\ EditRolledBack(e)

-----------------------------------------------------------------------------
(* DeleteTemplate and DeleteCadence *)

DeleteTemplate(t) ==
    /\ t \in live \ deleting
    /\ deleting' = deleting \cup {t}
    /\ UNCHANGED <<steps, live, lock, editor, edits, failures, journeyVars>>

\* Mutant: the lock of the row outlives the row.
TemplateDeletedKeepsLock(t) ==
    /\ t \in deleting
    /\ \A i \in DOMAIN steps : steps[i] = t => lock = Nobody
    /\ live' = live \ {t}
    /\ steps' = [i \in DOMAIN steps |-> IF steps[i] = t THEN NoTemplate ELSE steps[i]]
    /\ dispatch' = [j \in Journeys |->
                      IF dispatch[j].pc = "step" THEN [dispatch[j] EXCEPT !.gone = @ \cup {t}]
                                                 ELSE dispatch[j]]
    /\ UNCHANGED <<deleting, lock, editor, edits, failures, status, currentStepOrder, attempted>>

\* ON DELETE SET NULL waits for the steps an edit or a deletion has deleted.
TemplateDeleted(t) ==
    /\ t \in deleting
    /\ \A i \in DOMAIN steps : steps[i] = t => lock = Nobody
    /\ live' = live \ {t} /\ deleting' = deleting \ {t}
    /\ steps' = [i \in DOMAIN steps |-> IF steps[i] = t THEN NoTemplate ELSE steps[i]]
    /\ dispatch' = [j \in Journeys |->
                      IF dispatch[j].pc = "step" THEN [dispatch[j] EXCEPT !.gone = @ \cup {t}]
                                                 ELSE dispatch[j]]
    /\ UNCHANGED <<lock, editor, edits, failures, status, currentStepOrder, attempted>>

\* It fails, or is the one of the deadlock with an edit that the server gives up.
TemplateDeletionThrows(t) ==
    /\ t \in deleting
    /\ \/ Fail
       \/ lock \in Editors /\ UNCHANGED failures
    /\ deleting' = deleting \ {t}
    /\ UNCHANGED <<steps, live, lock, editor, edits, journeyVars>>

\* The row and, by the cascade, its steps; the journeys' rows come last ...
DeleteCadence ==
    /\ Exists /\ lock = Nobody
    /\ lock' = Deleter
    /\ UNCHANGED <<steps, live, deleting, editor, edits, failures, journeyVars>>

\* ... and wait for the dispatches that hold them.
CadenceDeleted ==
    /\ lock = Deleter
    /\ \A j \in Journeys : dispatch[j].pc = "idle"
    /\ lock' = Nobody /\ steps' = <<>>
    /\ status' = [j \in Journeys |-> "absent"]
    /\ UNCHANGED <<live, deleting, editor, edits, failures, currentStepOrder, attempted, dispatch>>

\* The server gives up the deletion of the cadence.
DeletionThrows ==
    /\ lock = Deleter /\ Fail
    /\ lock' = Nobody
    /\ UNCHANGED <<steps, live, deleting, editor, edits, journeyVars>>

-----------------------------------------------------------------------------
(* The dispatcher *)

\* The journey is running and due: its row is locked ...
LockById(j) ==
    /\ status[j] = "running" /\ dispatch[j].pc = "idle"
    /\ dispatch' = [dispatch EXCEPT ![j].pc = "locked"]
    /\ UNCHANGED <<cadenceVars, failures, status, currentStepOrder, attempted>>

\* ... and the steps are read.
GetWithSteps(j) ==
    /\ dispatch[j].pc = "locked"
    /\ dispatch' = [dispatch EXCEPT ![j].pc = "step", ![j].steps = steps]
    /\ UNCHANGED <<cadenceVars, failures, status, currentStepOrder, attempted>>

Close(j, new) ==
    /\ dispatch' = [dispatch EXCEPT ![j] = NotOpen]
    /\ status' = [status EXCEPT ![j] = new]

Exhaust(j) ==
    /\ dispatch[j].pc = "step"
    /\ IsExhausted(currentStepOrder[j], Len(dispatch[j].steps))
    /\ Close(j, "exhausted")
    /\ UNCHANGED <<cadenceVars, failures, currentStepOrder, attempted>>

\* The owner has no channel, the step no template, or the plugin or a variable of
\* the template rejects it.
ErrorOut(j) ==
    /\ HasStep(j)
    /\ Close(j, "error_state")
    /\ UNCHANGED <<cadenceVars, failures, currentStepOrder, attempted>>

\* The attempt is recorded and the journey advances, whatever became of it.
ScheduleNext(j, result, body, raced) ==
    /\ attempted' = [attempted EXCEPT ![j] = @ \cup
                       {[step |-> Following(j), result |-> result, body |-> body, raced |-> raced]}]
    /\ currentStepOrder' = [currentStepOrder EXCEPT ![j] = Following(j)]
    /\ Close(j, "running")
    /\ UNCHANGED <<cadenceVars, failures>>

\* The plugin skips the step, with a template or without: no message leaves.
SkipStep(j) == HasStep(j) /\ ScheduleNext(j, "skipped", FALSE, FALSE)

\* The template is read and sent, and the channel takes the message or refuses it;
\* deleted meanwhile, the message leaves without it.
SendStep(j) ==
    /\ HasStep(j) /\ StepTemplate(j) # NoTemplate
    /\ \E result \in {"sent", "failed"} :
          ScheduleNext(j, result, StepTemplate(j) \in live, StepTemplate(j) \in dispatch[j].gone)

DispatchThrows(j) ==
    /\ dispatch[j].pc # "idle" /\ Fail
    /\ Close(j, status[j])
    /\ UNCHANGED <<cadenceVars, currentStepOrder, attempted>>

Edit ==
    \E e \in Editors :
        \/ \E new \in StepLists : ValidateCadenceSteps(e, new)
        \/ ReplaceSteps(e) \/ InsertSteps(e) \/ ForeignKeyThrows(e) \/ EditThrows(e)
Delete ==
    \/ \E t \in Templates : DeleteTemplate(t) \/ TemplateDeleted(t) \/ TemplateDeletionThrows(t)
    \/ DeleteCadence \/ CadenceDeleted \/ DeletionThrows
DispatchStep(j) ==
    LockById(j) \/ GetWithSteps(j) \/ Exhaust(j) \/ ErrorOut(j) \/ SkipStep(j) \/ SendStep(j)

Next ==
    \/ Edit \/ Delete
    \/ \E j \in Journeys : DispatchStep(j) \/ DispatchThrows(j)

Spec == Init /\ [][Next]_vars

\* The poller comes back for a journey, and its statements and calls return.
FairSpec == Spec /\ \A j \in Journeys : WF_vars(DispatchStep(j))

-----------------------------------------------------------------------------
TypeOK ==
    /\ steps \in StepLists \cup {<<>>}
    /\ live \subseteq Templates /\ deleting \subseteq live
    /\ lock \in Editors \cup {Nobody, Deleter}
    /\ editor \in [Editors -> [pc : {"idle", "validated", "replacing"},
                               steps : StepLists \cup {<<>>}]]
    /\ edits \in 0 .. MaxEdits /\ failures \in 0 .. MaxFailures
    /\ status \in [Journeys -> LeadJourneyStatus \cup {"absent"}]
    /\ currentStepOrder \in [Journeys -> -1 .. MaxSteps - 1]
    /\ attempted \in [Journeys -> SUBSET [step : 0 .. MaxSteps - 1,
                                          result : {"sent", "failed", "skipped"},
                                          body : BOOLEAN, raced : BOOLEAN]]
    /\ dispatch \in [Journeys -> [pc : {"idle", "locked", "step"},
                                  steps : StepLists \cup {<<>>}, gone : SUBSET Templates]]

\* Whoever edits or deletes the cadence, no journey is exhausted before a first
\* attempt, and none skips a place in the sequence.  An attempt need not be a
\* message: refused or skipped ones advance a journey as well.
ExhaustedAfterAttempts ==
    \A j \in Journeys :
        /\ {r.step : r \in attempted[j]} = 0 .. currentStepOrder[j]
        /\ status[j] = "exhausted" => currentStepOrder[j] >= 0

\* A message leaves without its template only if the template was deleted between
\* the dispatch's two reads, however edits and deletions of templates overlap.
BodilessOnlyByRace ==
    \A j \in Journeys : \A r \in attempted[j] : r.result # "skipped" => r.body \/ r.raced

\* A journey comes to an end once its cadence is no longer edited.
JourneyEnds == \A j \in Journeys : status[j] = "running" ~> status[j] # "running"

=============================================================================
