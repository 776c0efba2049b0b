--------------------------- MODULE CadenceEditsProofs ---------------------------
(***************************************************************************)
(* Proofs about CadenceEdits, for any journeys, editors, templates, number  *)
(* of steps, edits and failures: the types, that no journey is exhausted    *)
(* before a first attempt, and that a message leaves without its template   *)
(* only if the template was deleted between the dispatch's two reads.       *)
(*                                                                         *)
(* The cadence has no steps only once its journeys are gone, because an     *)
(* edit holds the row's lock from the deletion of the old steps to the      *)
(* insertion of the new ones, and the deletion of a cadence takes it too.   *)
(* And the committed steps only name templates that exist, so what a        *)
(* dispatch has read does too but for those deleted since.                  *)
(***************************************************************************)
EXTENDS CadenceEdits, TLAPS

\* An edit that has deleted the old steps holds the row; it never inserts none.
EditHoldsRow ==
    \A e \in Editors : /\ editor[e].pc # "idle" => editor[e].steps # <<>>
                       /\ editor[e].pc = "replacing" => lock = e

\* The foreign key of the steps.
StepsNameTemplates == \A i \in DOMAIN steps : steps[i] \in live \cup {NoTemplate}

\* A cadence without steps is deleted, and its journeys with it.
StepsUntilDeleted == steps = <<>> => \A j \in Journeys : status[j] = "absent"

\* A dispatch holds a running journey, and has read steps whose templates exist
\* or have been deleted since.
DispatchReads ==
    \A j \in Journeys :
        /\ dispatch[j].pc # "idle" => status[j] = "running"
        /\ dispatch[j].pc = "step" =>
              /\ dispatch[j].steps # <<>>
              /\ \A i \in DOMAIN dispatch[j].steps :
                    dispatch[j].steps[i] \in live \cup dispatch[j].gone \cup {NoTemplate}

IInv ==
    /\ TypeOK /\ ExhaustedAfterAttempts /\ BodilessOnlyByRace
    /\ EditHoldsRow /\ StepsNameTemplates /\ StepsUntilDeleted /\ DispatchReads

\* The length and the places of a list of steps.
LEMMA StepListFacts ==
    ASSUME NEW s \in StepLists \cup {<<>>}
    PROVE  /\ Len(s) \in 0 .. MaxSteps
           /\ DOMAIN s = 1 .. Len(s)
           /\ \A i \in 1 .. Len(s) : s[i] \in Templates \cup {NoTemplate}
           /\ s = <<>> <=> Len(s) = 0
<1>1. CASE s = <<>>
  BY <1>1, CadenceAssumption
<1>2. CASE s \in StepLists
  <2>1. PICK n \in 1 .. MaxSteps : s \in [1 .. n -> Templates \cup {NoTemplate}]
    BY <1>2 DEF StepLists
  <2>2. s \in Seq(Templates \cup {NoTemplate}) /\ Len(s) = n
    BY <2>1, CadenceAssumption
  <2> QED
    BY <2>1, <2>2, CadenceAssumption
<1> QED
  BY <1>1, <1>2

\* Steps whose deleted template is set to none are still a list, and not empty
\* unless they were.
LEMMA SetNull ==
    ASSUME steps \in StepLists \cup {<<>>}, NEW t,
           steps' = [i \in DOMAIN steps |-> IF steps[i] = t THEN NoTemplate ELSE steps[i]]
    PROVE  /\ steps' \in StepLists \cup {<<>>}
           /\ steps' = <<>> <=> steps = <<>>
<1>1. CASE steps = <<>>
  <2>1. DOMAIN steps = {}
    BY <1>1
  <2>2. steps' = <<>>
    BY <2>1
  <2> QED
    BY <1>1, <2>2
<1>2. CASE steps \in StepLists
  <2>1. PICK n \in 1 .. MaxSteps : steps \in [1 .. n -> Templates \cup {NoTemplate}]
    BY <1>2 DEF StepLists
  <2>2. steps' \in [1 .. n -> Templates \cup {NoTemplate}]
    BY <2>1
  <2>3. steps' \in StepLists
    BY <2>2, CadenceAssumption DEF StepLists
  <2>4. steps' # <<>> /\ steps # <<>>
    BY <2>1, <2>2, CadenceAssumption
  <2> QED
    BY <2>3, <2>4
<1> QED
  BY <1>1, <1>2

\* The invariant holds initially.
LEMMA InitHolds == Init => IInv
<1> SUFFICES ASSUME Init
             PROVE  IInv
  OBVIOUS
<1> USE CadenceAssumption
<1>1. steps \in StepLists /\ steps # <<>>
  BY StepListFacts DEF Init, StepLists
<1>2. TypeOK
  BY <1>1 DEF Init, TypeOK, Idle, NotOpen, LeadJourneyStatus
<1>3. ExhaustedAfterAttempts /\ BodilessOnlyByRace
  BY DEF Init, ExhaustedAfterAttempts, BodilessOnlyByRace
<1>4. EditHoldsRow /\ StepsUntilDeleted /\ DispatchReads
  BY <1>1 DEF Init, EditHoldsRow, StepsUntilDeleted, DispatchReads, Idle, NotOpen
<1>5. StepsNameTemplates
  BY <1>1, StepListFacts DEF Init, StepsNameTemplates
<1> QED
  BY <1>2, <1>3, <1>4, <1>5 DEF IInv

\* What is said of journeys holds as long as they, the steps and the templates stay.
LEMMA JourneysKeep ==
    ASSUME IInv, UNCHANGED <<steps, live, journeyVars>>
    PROVE  /\ ExhaustedAfterAttempts' /\ BodilessOnlyByRace'
           /\ StepsNameTemplates' /\ StepsUntilDeleted' /\ DispatchReads'
BY DEF IInv, journeyVars, ExhaustedAfterAttempts, BodilessOnlyByRace, StepsNameTemplates,
       StepsUntilDeleted, DispatchReads

\* A rolled back edit leaves its lock.
LEMMA RollBackHolds ==
    ASSUME IInv, NEW e \in Editors, EditRolledBack(e), failures' \in 0 .. MaxFailures
    PROVE  IInv'
<1> USE CadenceAssumption
<1>1. editor' \in [Editors -> [pc : {"idle", "validated", "replacing"},
                               steps : StepLists \cup {<<>>}]]
  BY DEF IInv, EditRolledBack, TypeOK, Idle
<1>2. TypeOK'
  BY <1>1 DEF IInv, EditRolledBack, TypeOK, journeyVars
<1>3. EditHoldsRow'
  BY DEF IInv, EditRolledBack, TypeOK, Idle, EditHoldsRow
<1> QED
  BY <1>2, <1>3, JourneysKeep DEF IInv, EditRolledBack

\* The steps of an edit keep the invariant.
LEMMA EditHolds == ASSUME IInv, Edit PROVE IInv'
<1> USE CadenceAssumption
<1> PICK e \in Editors :
        \/ \E new \in StepLists : ValidateCadenceSteps(e, new)
        \/ ReplaceSteps(e) \/ InsertSteps(e) \/ ForeignKeyThrows(e) \/ EditThrows(e)
  BY DEF Edit
<1>1. ASSUME NEW new \in StepLists, ValidateCadenceSteps(e, new)
      PROVE  IInv'
  <2>1. TypeOK'
    BY <1>1 DEF IInv, ValidateCadenceSteps, TypeOK, journeyVars
  <2>2. new # <<>>
    BY StepListFacts DEF StepLists
  <2>3. EditHoldsRow'
    BY <1>1, <2>2 DEF IInv, ValidateCadenceSteps, TypeOK, EditHoldsRow
  <2> QED
    BY <1>1, <2>1, <2>3, JourneysKeep DEF IInv, ValidateCadenceSteps
<1>2. CASE ReplaceSteps(e)
  <2>1. TypeOK'
    BY <1>2 DEF IInv, ReplaceSteps, TypeOK, journeyVars
  <2>2. EditHoldsRow'
    BY <1>2 DEF IInv, ReplaceSteps, TypeOK, EditHoldsRow
  <2> QED
    BY <1>2, <2>1, <2>2, JourneysKeep DEF IInv, ReplaceSteps
<1>3. CASE InsertSteps(e)
  <2>1. editor[e].steps \in StepLists \cup {<<>>} /\ editor[e].steps # <<>> /\ lock = e
    BY <1>3 DEF IInv, TypeOK, EditHoldsRow, InsertSteps
  <2>2. TypeOK'
    BY <1>3, <2>1 DEF IInv, InsertSteps, TypeOK, journeyVars, Idle
  <2>3. EditHoldsRow'
    BY <1>3, <2>1 DEF IInv, InsertSteps, TypeOK, EditHoldsRow, Idle
  <2>4. StepsNameTemplates'
    BY <1>3 DEF InsertSteps, StepsNameTemplates
  <2>5. StepsUntilDeleted'
    BY <1>3, <2>1 DEF InsertSteps, StepsUntilDeleted
  <2>6. ExhaustedAfterAttempts' /\ BodilessOnlyByRace' /\ DispatchReads'
    BY <1>3 DEF IInv, InsertSteps, journeyVars, ExhaustedAfterAttempts, BodilessOnlyByRace,
                DispatchReads
  <2> QED
    BY <2>2, <2>3, <2>4, <2>5, <2>6 DEF IInv
<1>4. CASE ForeignKeyThrows(e)
  BY <1>4, RollBackHolds DEF ForeignKeyThrows, IInv, TypeOK
<1>5. CASE EditThrows(e)
  BY <1>5, RollBackHolds DEF EditThrows, Fail, IInv, TypeOK
<1> QED
  BY <1>1, <1>2, <1>3, <1>4, <1>5

\* The deletions of templates and of the cadence keep the invariant.
LEMMA DeleteHolds == ASSUME IInv, Delete PROVE IInv'
<1> USE CadenceAssumption DEF IInv
<1>1. ASSUME NEW t \in Templates, DeleteTemplate(t)
      PROVE  IInv'
  <2>1. TypeOK' /\ EditHoldsRow'
    BY <1>1 DEF DeleteTemplate, TypeOK, journeyVars, EditHoldsRow
  <2> QED
    BY <1>1, <2>1, JourneysKeep DEF DeleteTemplate
<1>2. ASSUME NEW t \in Templates, TemplateDeleted(t)
      PROVE  IInv'
  <2>1. steps' \in StepLists \cup {<<>>} /\ (steps' = <<>> <=> steps = <<>>)
    <3>1. steps \in StepLists \cup {<<>>}
      BY DEF TypeOK
    <3>2. steps' = [i \in DOMAIN steps |-> IF steps[i] = t THEN NoTemplate ELSE steps[i]]
      BY <1>2 DEF TemplateDeleted
    <3> QED
      BY <3>1, <3>2, SetNull
  <2>2. \A j \in Journeys :
            dispatch'[j] = IF dispatch[j].pc = "step"
                             THEN [dispatch[j] EXCEPT !.gone = @ \cup {t}] ELSE dispatch[j]
    BY <1>2 DEF TemplateDeleted
  <2>3. dispatch' \in [Journeys -> [pc : {"idle", "locked", "step"},
                                    steps : StepLists \cup {<<>>}, gone : SUBSET Templates]]
    BY <1>2 DEF TemplateDeleted, TypeOK
  <2>4. TypeOK'
    BY <1>2, <2>1, <2>3 DEF TemplateDeleted, TypeOK
  <2>5. StepsNameTemplates'
    BY <1>2 DEF TemplateDeleted, StepsNameTemplates
  <2>6. DispatchReads'
    <3> SUFFICES ASSUME NEW j \in Journeys
                 PROVE  /\ dispatch'[j].pc # "idle" => status'[j] = "running"
                        /\ dispatch'[j].pc = "step" =>
                              /\ dispatch'[j].steps # <<>>
                              /\ \A i \in DOMAIN dispatch'[j].steps :
                                    dispatch'[j].steps[i]
                                      \in live' \cup dispatch'[j].gone \cup {NoTemplate}
      BY DEF DispatchReads
    <3>1. /\ dispatch'[j].pc = dispatch[j].pc
          /\ dispatch'[j].steps = dispatch[j].steps
          /\ dispatch[j].pc = "step" => dispatch'[j].gone = dispatch[j].gone \cup {t}
      BY <2>2 DEF TypeOK
    <3>2. live' = live \ {t} /\ status' = status
      BY <1>2 DEF TemplateDeleted
    <3> QED
      BY <3>1, <3>2 DEF DispatchReads
  <2> QED
    BY <1>2, <2>1, <2>4, <2>5, <2>6
       DEF TemplateDeleted, ExhaustedAfterAttempts, BodilessOnlyByRace, EditHoldsRow,
           StepsUntilDeleted
<1>3. CASE DeleteCadence
  <2>1. TypeOK' /\ EditHoldsRow'
    BY <1>3 DEF DeleteCadence, TypeOK, journeyVars, EditHoldsRow
  <2> QED
    BY <1>3, <2>1, JourneysKeep DEF DeleteCadence
<1>4. CASE CadenceDeleted
  <2>1. TypeOK'
    BY <1>4 DEF CadenceDeleted, TypeOK
  <2>2. EditHoldsRow' /\ StepsUntilDeleted'
    BY <1>4 DEF CadenceDeleted, TypeOK, EditHoldsRow, StepsUntilDeleted
  <2>3. ExhaustedAfterAttempts' /\ BodilessOnlyByRace' /\ StepsNameTemplates' /\ DispatchReads'
    BY <1>4 DEF CadenceDeleted, ExhaustedAfterAttempts, BodilessOnlyByRace, StepsNameTemplates,
                DispatchReads
  <2> QED
    BY <2>1, <2>2, <2>3
<1>5. CASE DeletionThrows
  <2>1. TypeOK' /\ EditHoldsRow'
    BY <1>5 DEF DeletionThrows, Fail, TypeOK, journeyVars, EditHoldsRow
  <2> QED
    BY <1>5, <2>1, JourneysKeep DEF DeletionThrows
<1>6. ASSUME NEW t \in Templates, TemplateDeletionThrows(t)
      PROVE  IInv'
  <2>1. failures' \in 0 .. MaxFailures
    BY <1>6 DEF TemplateDeletionThrows, Fail, TypeOK
  <2>2. TypeOK' /\ EditHoldsRow'
    BY <1>6, <2>1 DEF TemplateDeletionThrows, TypeOK, journeyVars, EditHoldsRow
  <2> QED
    BY <1>6, <2>2, JourneysKeep DEF TemplateDeletionThrows
<1> QED
  BY <1>1, <1>2, <1>3, <1>4, <1>5, <1>6 DEF Delete

\* What is said of the cadence holds as long as it and its templates stay, and no
\* journey of a deleted one comes back.
LEMMA CadenceKeeps ==
    ASSUME IInv, UNCHANGED cadenceVars,
           \A j \in Journeys : status[j] = "absent" => status'[j] = "absent"
    PROVE  EditHoldsRow' /\ StepsNameTemplates' /\ StepsUntilDeleted'
BY DEF IInv, cadenceVars, EditHoldsRow, StepsNameTemplates, StepsUntilDeleted

\* A step of the dispatcher keeps the invariant.
LEMMA DispatchHolds ==
    ASSUME IInv, NEW j \in Journeys, DispatchStep(j) \/ DispatchThrows(j)
    PROVE  IInv'
<1> USE CadenceAssumption DEF IInv
<1>1. CASE LockById(j)
  <2>1. TypeOK'
    BY <1>1 DEF LockById, TypeOK, cadenceVars
  <2>3. DispatchReads'
    BY <1>1 DEF LockById, TypeOK, cadenceVars, DispatchReads
  <2>2. ExhaustedAfterAttempts' /\ BodilessOnlyByRace'
    BY <1>1 DEF LockById, ExhaustedAfterAttempts, BodilessOnlyByRace
  <2> QED
    BY <1>1, <2>1, <2>2, <2>3, CadenceKeeps DEF LockById
<1>2. CASE GetWithSteps(j)
  <2>1. steps # <<>>
    BY <1>2 DEF GetWithSteps, DispatchReads, StepsUntilDeleted
  <2>2. TypeOK'
    BY <1>2 DEF GetWithSteps, TypeOK, cadenceVars
  <2>3. DispatchReads'
    BY <1>2, <2>1 DEF GetWithSteps, TypeOK, cadenceVars, DispatchReads, StepsNameTemplates
  <2>4. ExhaustedAfterAttempts' /\ BodilessOnlyByRace'
    BY <1>2 DEF GetWithSteps, ExhaustedAfterAttempts, BodilessOnlyByRace
  <2> QED
    BY <1>2, <2>2, <2>3, <2>4, CadenceKeeps DEF GetWithSteps
<1>3. ASSUME NEW new \in LeadJourneyStatus, Close(j, new),
             dispatch[j].pc # "idle", UNCHANGED cadenceVars, failures' \in 0 .. MaxFailures
      PROVE  /\ DispatchReads' /\ EditHoldsRow' /\ StepsNameTemplates' /\ StepsUntilDeleted'
             /\ status' \in [Journeys -> LeadJourneyStatus \cup {"absent"}]
             /\ dispatch' \in [Journeys -> [pc : {"idle", "locked", "step"},
                                            steps : StepLists \cup {<<>>}, gone : SUBSET Templates]]
  <2>1. status[j] = "running"
    BY <1>3 DEF DispatchReads
  <2>2. DispatchReads'
    BY <1>3 DEF Close, TypeOK, cadenceVars, DispatchReads, NotOpen
  <2>3. \A k \in Journeys : status[k] = "absent" => status'[k] = "absent"
    BY <1>3, <2>1 DEF Close, TypeOK
  <2> QED
    BY <1>3, <2>2, <2>3, CadenceKeeps DEF Close, TypeOK, NotOpen
<1>4. CASE Exhaust(j)
  <2>1. "exhausted" \in LeadJourneyStatus
    BY DEF LeadJourneyStatus
  <2>2. currentStepOrder[j] >= 0
    <3>1. dispatch[j].steps \in StepLists \cup {<<>>} /\ dispatch[j].steps # <<>>
      BY <1>4 DEF Exhaust, TypeOK, DispatchReads
    <3>2. Len(dispatch[j].steps) > 0
      BY <3>1, StepListFacts
    <3> QED
      BY <1>4, <3>2 DEF Exhaust, IsExhausted, NextStepOrder, TypeOK
  <2>3. ExhaustedAfterAttempts' /\ BodilessOnlyByRace'
    BY <1>4, <2>2 DEF Exhaust, Close, TypeOK, ExhaustedAfterAttempts, BodilessOnlyByRace
  <2> QED
    BY <1>3, <1>4, <2>1, <2>3 DEF Exhaust, TypeOK, cadenceVars
<1>5. CASE ErrorOut(j)
  <2>1. "error_state" \in LeadJourneyStatus
    BY DEF LeadJourneyStatus
  <2>2. ExhaustedAfterAttempts' /\ BodilessOnlyByRace'
    BY <1>5 DEF ErrorOut, Close, TypeOK, ExhaustedAfterAttempts, BodilessOnlyByRace
  <2> QED
    BY <1>3, <1>5, <2>1, <2>2 DEF ErrorOut, HasStep, TypeOK, cadenceVars
<1>6. ASSUME NEW result \in {"sent", "failed", "skipped"}, NEW body \in BOOLEAN, NEW raced \in BOOLEAN,
             HasStep(j), ScheduleNext(j, result, body, raced),
             result # "skipped" => body \/ raced
      PROVE  IInv'
  <2> DEFINE r == [step |-> Following(j), result |-> result, body |-> body, raced |-> raced]
             Attempts == [step : 0 .. MaxSteps - 1, result : {"sent", "failed", "skipped"},
                          body : BOOLEAN, raced : BOOLEAN]
  <2>1. "running" \in LeadJourneyStatus
    BY DEF LeadJourneyStatus
  <2>2. /\ Following(j) = currentStepOrder[j] + 1
        /\ Following(j) \in 0 .. MaxSteps - 1
    <3>1. Len(dispatch[j].steps) \in 0 .. MaxSteps
      BY StepListFacts DEF TypeOK
    <3> QED
      BY <1>6, <3>1 DEF HasStep, Following, NextStepOrder, TypeOK
  <2>3. r.result # "skipped" => r.body \/ r.raced
    BY <1>6
  <2>4. attempted' = [attempted EXCEPT ![j] = @ \cup {r}]
    BY <1>6 DEF ScheduleNext
  <2>5. currentStepOrder' = [currentStepOrder EXCEPT ![j] = Following(j)]
    BY <1>6 DEF ScheduleNext
  <2>6. r \in Attempts /\ r.step = Following(j)
    BY <2>2
  <2> HIDE DEF r
  <2>7. BodilessOnlyByRace'
    BY <2>3, <2>4 DEF BodilessOnlyByRace, TypeOK
  <2>8. ExhaustedAfterAttempts'
    <3> SUFFICES ASSUME NEW k \in Journeys
                 PROVE  /\ {q.step : q \in attempted'[k]} = 0 .. currentStepOrder'[k]
                        /\ status'[k] = "exhausted" => currentStepOrder'[k] >= 0
      BY DEF ExhaustedAfterAttempts
    <3>1. CASE k = j
      <4>1. {q.step : q \in attempted'[j]} = {q.step : q \in attempted[j]} \cup {Following(j)}
        BY <2>4, <2>6 DEF TypeOK
      <4>2. currentStepOrder'[j] = currentStepOrder[j] + 1
        BY <2>2, <2>5 DEF TypeOK
      <4>3. currentStepOrder[j] \in -1 .. MaxSteps - 1
        BY DEF TypeOK
      <4>4. 0 .. currentStepOrder[j] + 1 = (0 .. currentStepOrder[j]) \cup {currentStepOrder[j] + 1}
        BY <4>3
      <4> QED
        BY <2>2, <3>1, <4>1, <4>2, <4>3, <4>4 DEF ExhaustedAfterAttempts
    <3>2. CASE k # j
      BY <1>6, <2>4, <2>5, <3>2 DEF ScheduleNext, Close, ExhaustedAfterAttempts, TypeOK
    <3> QED
      BY <3>1, <3>2
  <2>9. /\ attempted' \in [Journeys -> SUBSET Attempts]
        /\ currentStepOrder' \in [Journeys -> -1 .. MaxSteps - 1]
    BY <2>2, <2>4, <2>5, <2>6 DEF TypeOK
  <2>10. Close(j, "running") /\ dispatch[j].pc # "idle" /\ UNCHANGED <<cadenceVars, failures>>
    BY <1>6 DEF ScheduleNext, HasStep
  <2> QED
    BY <1>3, <2>1, <2>7, <2>8, <2>9, <2>10 DEF TypeOK, cadenceVars
<1>7. CASE SkipStep(j)
  BY <1>6, <1>7 DEF SkipStep
<1>8. CASE SendStep(j)
  <2>1. HasStep(j) /\ StepTemplate(j) # NoTemplate
    BY <1>8 DEF SendStep
  <2>2. Following(j) + 1 \in DOMAIN dispatch[j].steps
    <3>1. Len(dispatch[j].steps) \in 0 .. MaxSteps
          /\ DOMAIN dispatch[j].steps = 1 .. Len(dispatch[j].steps)
      BY StepListFacts DEF TypeOK
    <3> QED
      BY <2>1, <3>1 DEF HasStep, Following, NextStepOrder, TypeOK
  <2>3. StepTemplate(j) \in live \/ StepTemplate(j) \in dispatch[j].gone
    BY <2>1, <2>2 DEF HasStep, StepTemplate, DispatchReads
  <2> DEFINE body == StepTemplate(j) \in live
             raced == StepTemplate(j) \in dispatch[j].gone
  <2>4. PICK result \in {"sent", "failed"} : ScheduleNext(j, result, body, raced)
    BY <1>8 DEF SendStep
  <2>5. body \in BOOLEAN /\ raced \in BOOLEAN /\ (body \/ raced)
    BY <2>3
  <2> HIDE DEF body, raced
  <2> QED
    BY <1>6, <2>1, <2>4, <2>5
<1>9. CASE DispatchThrows(j)
  <2>1. status[j] = "running" /\ "running" \in LeadJourneyStatus
    BY <1>9 DEF DispatchThrows, DispatchReads, LeadJourneyStatus
  <2>2. failures' \in 0 .. MaxFailures
    BY <1>9 DEF DispatchThrows, Fail, TypeOK
  <2>3. ExhaustedAfterAttempts' /\ BodilessOnlyByRace'
    BY <1>9 DEF DispatchThrows, Close, TypeOK, ExhaustedAfterAttempts, BodilessOnlyByRace
  <2> QED
    BY <1>3, <1>9, <2>1, <2>2, <2>3 DEF DispatchThrows, TypeOK, cadenceVars
<1> QED
  BY <1>1, <1>2, <1>4, <1>5, <1>7, <1>8, <1>9 DEF DispatchStep

\* Every step keeps the invariant.
LEMMA NextHolds == IInv /\ [Next]_vars => IInv'
<1> SUFFICES ASSUME IInv, [Next]_vars
             PROVE  IInv'
  OBVIOUS
<1>1. CASE UNCHANGED vars
  BY <1>1, JourneysKeep DEF vars, cadenceVars, journeyVars, IInv, TypeOK, EditHoldsRow
<1> QED
  BY <1>1, EditHolds, DeleteHolds, DispatchHolds DEF Next

\* The inductive invariant of a cadence under edits.
THEOREM EditsInvariant == Spec => []IInv
BY InitHolds, NextHolds, PTL DEF Spec

\* Whatever is edited, deleted and dispatched, the variables keep their types.
THEOREM EditsTypes == Spec => []TypeOK
<1>1. IInv => TypeOK
  BY DEF IInv
<1> QED
  BY <1>1, EditsInvariant, PTL

\* No journey is exhausted before a first attempt, sent or not, and none skips a
\* place in the sequence, whoever edits or deletes the cadence.
THEOREM EditsAttempts == Spec => []ExhaustedAfterAttempts
<1>1. IInv => ExhaustedAfterAttempts
  BY DEF IInv
<1> QED
  BY <1>1, EditsInvariant, PTL

\* A message leaves without its template only if the template was deleted between
\* the dispatch's two reads.
THEOREM EditsBodies == Spec => []BodilessOnlyByRace
<1>1. IInv => BodilessOnlyByRace
  BY DEF IInv
<1> QED
  BY <1>1, EditsInvariant, PTL

=============================================================================
