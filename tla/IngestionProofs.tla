---------------------------- MODULE IngestionProofs ----------------------------
(***************************************************************************)
(* Proofs about Ingestion, for any leads, owners, members, deliveries and  *)
(* admins: the types, that a member stands for at most one CRM user, and   *)
(* that a parked journey is resumed only together with its lead.  And for  *)
(* one delivery at a time and no admin: that a lead has at most one        *)
(* journey in flight, which overlapping deliveries break.                  *)
(*                                                                         *)
(* The first property needs to know what the open transactions are about   *)
(* to commit: Claims says that each holds keys nobody else has or claims.  *)
(* The second needs to know what they hold: Holdings says that the rows of *)
(* an open backfill are still what the backfill found.                     *)
(***************************************************************************)
EXTENDS Ingestion, FiniteSetTheorems, TLAPS

\* What a request has in hand at each of its steps.
InHand ==
    /\ \A d \in Deliveries :
          /\ deliveryPc[d] # "idle" => deliveryLead[d] \in Leads
          /\ deliveryPc[d] \in {"fetchOwner", "autoCreate"} => deliveryOwner[d] \in Owners
          /\ deliveryPc[d] = "autoCreate" => deliveryUser[d] \in Members
    /\ \A a \in Admins : adminPc[a] # "idle" =>
          adminOwner[a] \in Owners /\ adminMember[a] \in Members

Claims ==
    \A a \in Admins : adminPc[a] \in InTransaction =>
       /\ \A o \in Owners : mapping[o] = adminMember[a] => o = adminOwner[a]
       /\ \A b \in Admins \ {a} : adminPc[b] \in InTransaction =>
             adminOwner[a] # adminOwner[b] /\ adminMember[a] # adminMember[b]

Holdings ==
    /\ \A a \in Admins :
          /\ adminPc[a] \notin {"resume", "commit"} => heldLeads[a] = {}
          /\ adminPc[a] # "commit" => heldJourneys[a] = {}
          /\ \A l \in heldLeads[a] : ownerExternalId[l] = adminOwner[a] /\ ownerUserId[l] = NoUser
          /\ \A i \in heldJourneys[a] : journeyLead[i] \in heldLeads[a] /\ status[i] = "error_state"
    /\ \A i \in Rows : i > created => status[i] = "absent"

IInv == TypeOK /\ InHand /\ OneOwnerPerMember /\ Claims /\ Holdings

\* The invariant holds initially.
LEMMA InitHolds == Init => IInv
<1> SUFFICES ASSUME Init
             PROVE  IInv
  OBVIOUS
<1> USE IngestionAssumption DEF Init, Rows
<1>1. TypeOK
  BY DEF TypeOK, DeliveryPc, Reason, InTransaction
<1>2. InHand /\ Claims
  BY DEF InHand, Claims, InTransaction
<1>3. OneOwnerPerMember
  BY DEF OneOwnerPerMember
<1>4. Holdings
  BY DEF Holdings
<1> QED
  BY <1>1, <1>2, <1>3, <1>4 DEF IInv

\* A delivery keeps the types and what the requests have in hand.
LEMMA DeliveryTypes ==
    ASSUME TypeOK, InHand, NEW d \in Deliveries,
           \/ DeliveryStep(d) \/ DeliveryThrows(d)
           \/ \E l \in Leads : FetchLead(d, l)
    PROVE  TypeOK' /\ InHand'
<1> USE IngestionAssumption DEF Goto, Rows
<1>1. CASE \E l \in Leads : FetchLead(d, l)
  BY <1>1 DEF FetchLead, TypeOK, InHand, leadVars, journeyVars, adminVars, DeliveryPc
<1>2. CASE NoExternalOwner(d)
  BY <1>2 DEF NoExternalOwner, Resolved, TypeOK, InHand, leadVars, journeyVars, adminVars,
              DeliveryPc, Reason, LeadJourneyErrorReason
<1>3. CASE FindByExternal(d)
  <2>1. CASE mapping[deliveryOwner[d]] # NoUser
    <3>1. TypeOK'
      BY <1>3, <2>1 DEF FindByExternal, Resolved, TypeOK, leadVars, journeyVars, adminVars,
                        DeliveryPc, Reason
    <3>2. InHand'
      BY <1>3, <2>1 DEF FindByExternal, Resolved, InHand, TypeOK, adminVars
    <3> QED
      BY <3>1, <3>2
  <2>2. CASE mapping[deliveryOwner[d]] = NoUser
    BY <1>3, <2>2 DEF FindByExternal, TypeOK, InHand, leadVars, journeyVars, adminVars, DeliveryPc
  <2> QED
    BY <2>1, <2>2
<1>4. CASE \E reason \in LeadJourneyErrorReason : FetchOwnerParks(d, reason)
  BY <1>4 DEF FetchOwnerParks, Resolved, TypeOK, InHand, leadVars, journeyVars, adminVars,
              DeliveryPc, Reason, LeadJourneyErrorReason
<1>5. CASE FetchOwnerMatches(d)
  BY <1>5 DEF FetchOwnerMatches, Resolved, TypeOK, InHand, leadVars, journeyVars, adminVars,
              DeliveryPc, Reason
<1>6. CASE TryInsert(d)
  BY <1>6 DEF TryInsert, TypeOK, InHand, leadVars, journeyVars, adminVars, DeliveryPc
<1>7. CASE UpsertLead(d)
  BY <1>7 DEF UpsertLead, TypeOK, InHand, leadVars, journeyVars, adminVars, DeliveryPc
<1>0. ASSUME DeliveryDone(d), UNCHANGED journeyVars
      PROVE  TypeOK' /\ InHand'
  <2>1. TypeOK'
    BY <1>0 DEF DeliveryDone, TypeOK, leadVars, journeyVars, adminVars, DeliveryPc, Reason
  <2>2. InHand'
    BY <1>0 DEF DeliveryDone, TypeOK, InHand, adminVars, DeliveryPc
  <2> QED
    BY <2>1, <2>2
<1>8. CASE HasNonTerminal(d)
  <2>1. CASE InFlight(deliveryLead[d]) # {}
    BY <1>0, <1>8, <2>1 DEF HasNonTerminal
  <2>2. CASE InFlight(deliveryLead[d]) = {}
    BY <1>8, <2>2 DEF HasNonTerminal, TypeOK, InHand, leadVars, journeyVars, adminVars, DeliveryPc
  <2> QED
    BY <2>1, <2>2
<1>9. CASE CreateJourney(d)
  <2>1. deliveryLead[d] \in Leads /\ deliveryReason[d] \in Reason /\ created' \in Rows
    BY <1>9 DEF CreateJourney, TypeOK, InHand
  <2>2. /\ journeyLead' \in [Rows -> Leads \cup {NoLead}]
        /\ status' \in [Rows -> LeadJourneyStatus \cup {"absent"}]
        /\ errorReason' \in [Rows -> Reason]
    BY <1>9, <2>1 DEF CreateJourney, TypeOK, LeadJourneyStatus
  <2> QED
    BY <1>9, <2>1, <2>2 DEF CreateJourney, DeliveryDone, TypeOK, InHand, leadVars, adminVars,
                            DeliveryPc, Reason
<1>10. CASE TryInsertThrows(d) \/ DeliveryThrows(d)
  BY <1>0, <1>10 DEF TryInsertThrows, DeliveryThrows
<1> QED
  BY <1>1, <1>2, <1>3, <1>4, <1>5, <1>6, <1>7, <1>8, <1>9, <1>10 DEF DeliveryStep

\* So does an admin.
LEMMA AdminTypes ==
    ASSUME TypeOK, InHand, NEW a \in Admins,
           \/ AdminStep(a) \/ AdminThrows(a)
           \/ \E o \in Owners, m \in Members : CheckConflict(a, o, m) \/ UpdateMembership(a, o, m)
    PROVE  TypeOK' /\ InHand'
<1> USE IngestionAssumption DEF AdminGoto, Rows, InTransaction
<1>1. CASE \E o \in Owners, m \in Members : CheckConflict(a, o, m)
  BY <1>1 DEF CheckConflict, TypeOK, InHand, leadVars, journeyVars, deliveryVars
<1>2. CASE \E o \in Owners, m \in Members : UpdateMembership(a, o, m)
  BY <1>2 DEF UpdateMembership, TypeOK, InHand, leadVars, journeyVars, deliveryVars
<1>3. CASE InsertStrict(a)
  BY <1>3 DEF InsertStrict, TypeOK, InHand, leadVars, journeyVars, deliveryVars
<1>4. CASE BackfillLeads(a)
  BY <1>4 DEF BackfillLeads, TypeOK, InHand, leadVars, journeyVars, deliveryVars
<1>5. CASE ResumeParked(a)
  BY <1>5 DEF ResumeParked, TypeOK, InHand, leadVars, journeyVars, deliveryVars
<1>6. CASE CommitMapping(a)
  BY <1>6 DEF CommitMapping, AdminDone, TypeOK, InHand, deliveryVars, LeadJourneyStatus, Reason
<1>7. CASE InsertThrows(a) \/ AdminThrows(a)
  <2>1. AdminDone(a) /\ UNCHANGED <<mapping, leadVars, journeyVars>>
    BY <1>7 DEF InsertThrows, AdminThrows
  <2>2. TypeOK'
    BY <2>1 DEF AdminDone, TypeOK, leadVars, journeyVars, deliveryVars
  <2>3. InHand'
    BY <2>1 DEF AdminDone, InHand, TypeOK, deliveryVars
  <2> QED
    BY <2>2, <2>3
<1> QED
  BY <1>1, <1>2, <1>3, <1>4, <1>5, <1>6, <1>7 DEF AdminStep

\* And the steps that belong to no request.
LEMMA OtherTypes ==
    ASSUME TypeOK, InHand,
           \/ Outside
           \/ \E a \in Admins, o \in Owners : DeleteMapping(a, o)
           \/ UNCHANGED vars
    PROVE  TypeOK' /\ InHand'
<1>1. CASE \E i \in Rows, event \in JourneyEvent : JourneyMoves(i, event)
  <2> PICK i \in Rows, event \in JourneyEvent : JourneyMoves(i, event)
    BY <1>1
  <2>1. TransitionTo[event] \in LeadJourneyStatus
    BY DEF TransitionTo, LeadJourneyStatus, JourneyEvent
  <2> QED
    BY <2>1 DEF JourneyMoves, TypeOK, InHand, leadVars, deliveryVars, adminVars, Reason,
                LeadJourneyErrorReason
<1>2. CASE \E m \in Members : MemberChanges(m)
  BY <1>2 DEF MemberChanges, TypeOK, InHand, leadVars, journeyVars, deliveryVars, adminVars
<1>3. CASE \E l \in Leads, o \in Owners : ChangeCrmOwner(l, o)
  BY <1>3 DEF ChangeCrmOwner, TypeOK, InHand, leadVars, journeyVars, deliveryVars, adminVars
<1>4. CASE \E a \in Admins, o \in Owners : DeleteMapping(a, o)
  BY <1>4 DEF DeleteMapping, TypeOK, InHand, leadVars, journeyVars, deliveryVars, adminVars
<1>5. CASE UNCHANGED vars
  BY <1>5 DEF TypeOK, InHand, vars, leadVars, journeyVars, deliveryVars, adminVars
<1> QED
  BY <1>1, <1>2, <1>3, <1>4, <1>5 DEF Outside

\* The unique indexes do their work: no step maps two CRM users to a member,
\* or lets two open transactions claim one key.
LEMMA KeysStep ==
    ASSUME IInv, TypeOK', Next
    PROVE  OneOwnerPerMember' /\ Claims'
<1> USE IngestionAssumption DEF IInv, InTransaction
<1>1. ASSUME UNCHANGED <<mapping, adminPc, adminOwner, adminMember>>
      PROVE  OneOwnerPerMember' /\ Claims'
  BY <1>1 DEF OneOwnerPerMember, Claims
<1>2. ASSUME NEW a \in Admins, AdminDone(a), UNCHANGED mapping
      PROVE  OneOwnerPerMember' /\ Claims'
  BY <1>2 DEF AdminDone, AdminGoto, OneOwnerPerMember, Claims, TypeOK
<1>3. ASSUME NEW d \in Deliveries, TryInsert(d)
      PROVE  OneOwnerPerMember' /\ Claims'
  <2> DEFINE o == deliveryOwner[d]
             m == deliveryUser[d]
  <2>1. CASE UNCHANGED mapping
    BY <1>1, <1>3, <2>1 DEF TryInsert, Goto, adminVars
  <2>2. CASE mapping[o] = NoUser /\ ~Mapped(m) /\ mapping' = [mapping EXCEPT ![o] = m]
    <3>1. o \in Owners /\ m \in Members /\ m # NoUser
      BY <1>3 DEF TryInsert, InHand
    <3>2. \A p \in Owners : mapping'[p] = IF p = o THEN m ELSE mapping[p]
      BY <2>2, <3>1 DEF TypeOK
    <3>3. \A p \in Owners : mapping[p] # m
      BY <2>2 DEF Mapped
    <3>4. \A a \in Admins : adminPc[a] \in InTransaction => adminOwner[a] # o /\ adminMember[a] # m
      BY <1>3 DEF TryInsert, KeyTaken, OpenTx
    <3>5. UNCHANGED <<adminPc, adminOwner, adminMember>>
      BY <1>3 DEF TryInsert, Goto, adminVars
    <3> QED
      BY <3>1, <3>2, <3>3, <3>4, <3>5 DEF OneOwnerPerMember, Claims
  <2> QED
    BY <1>3, <2>1, <2>2 DEF TryInsert
<1>4. ASSUME NEW d \in Deliveries, DeliveryStep(d) \/ DeliveryThrows(d), ~TryInsert(d)
      PROVE  OneOwnerPerMember' /\ Claims'
  BY <1>1, <1>4 DEF DeliveryStep, DeliveryThrows, NoExternalOwner, FindByExternal, FetchOwnerParks,
     FetchOwnerMatches, TryInsertThrows, UpsertLead, HasNonTerminal, CreateJourney, DeliveryDone,
     Goto, adminVars
<1>5. CASE Deliver \/ Outside
  BY <1>1, <1>5 DEF Deliver, FetchLead, Goto, Outside, JourneyMoves, MemberChanges, ChangeCrmOwner,
     adminVars
<1>6. ASSUME NEW a \in Admins, NEW o \in Owners, NEW m \in Members, CheckConflict(a, o, m)
      PROVE  OneOwnerPerMember' /\ Claims'
  BY <1>6 DEF CheckConflict, AdminGoto, OneOwnerPerMember, Claims, TypeOK
<1>7. ASSUME NEW a \in Admins, NEW o \in Owners, NEW m \in Members, UpdateMembership(a, o, m)
      PROVE  OneOwnerPerMember' /\ Claims'
  <2>1. \A p \in Owners : mapping[p] = m => p = o
    BY <1>7 DEF UpdateMembership, Mapped, OneOwnerPerMember
  <2>2. \A b \in Admins : adminPc[b] \in InTransaction =>
           adminOwner[b] # o /\ adminMember[b] # m /\ mapping[adminOwner[b]] # m
    BY <1>7 DEF UpdateMembership, KeyTaken, OpenTx
  <2>3. /\ adminPc' = [adminPc EXCEPT ![a] = "backfill"]
        /\ adminOwner' = [adminOwner EXCEPT ![a] = o]
        /\ adminMember' = [adminMember EXCEPT ![a] = m]
        /\ mapping' = mapping
    BY <1>7 DEF UpdateMembership, AdminGoto
  <2> QED
    BY <2>1, <2>2, <2>3 DEF OneOwnerPerMember, Claims, TypeOK
<1>8. ASSUME NEW a \in Admins, InsertStrict(a)
      PROVE  OneOwnerPerMember' /\ Claims'
  <2>1. \A p \in Owners : mapping[p] # adminMember[a]
    BY <1>8 DEF InsertStrict, Mapped
  <2>2. \A b \in Admins : adminPc[b] \in InTransaction =>
           adminOwner[b] # adminOwner[a] /\ adminMember[b] # adminMember[a]
    BY <1>8 DEF InsertStrict, KeyTaken, OpenTx
  <2>3. /\ adminPc' = [adminPc EXCEPT ![a] = "backfill"]
        /\ UNCHANGED <<mapping, adminOwner, adminMember>>
    BY <1>8 DEF InsertStrict, AdminGoto
  <2> QED
    BY <2>1, <2>2, <2>3 DEF OneOwnerPerMember, Claims, TypeOK
<1>9. ASSUME NEW a \in Admins, BackfillLeads(a) \/ ResumeParked(a)
      PROVE  OneOwnerPerMember' /\ Claims'
  BY <1>9 DEF BackfillLeads, ResumeParked, AdminGoto, OneOwnerPerMember, Claims, TypeOK
<1>10. ASSUME NEW a \in Admins, CommitMapping(a)
       PROVE  OneOwnerPerMember' /\ Claims'
  <2> DEFINE o == adminOwner[a]
             m == adminMember[a]
  <2>1. o \in Owners /\ m \in Members /\ m # NoUser /\ adminPc[a] \in InTransaction
    BY <1>10 DEF CommitMapping, InHand
  <2>2. \A p \in Owners : mapping'[p] = IF p = o THEN m ELSE mapping[p]
    BY <1>10, <2>1 DEF CommitMapping, TypeOK
  <2>3. \A p \in Owners : mapping[p] = m => p = o
    BY <2>1 DEF Claims
  <2>4. /\ adminPc' = [adminPc EXCEPT ![a] = "idle"]
        /\ \A b \in Admins \ {a} : adminOwner'[b] = adminOwner[b] /\ adminMember'[b] = adminMember[b]
    BY <1>10 DEF CommitMapping, AdminDone, AdminGoto, TypeOK
  <2>5. \A b \in Admins \ {a} : adminPc[b] \in InTransaction => adminOwner[b] # o /\ adminMember[b] # m
    BY <2>1 DEF Claims
  <2>6. OneOwnerPerMember'
    BY <2>1, <2>2, <2>3 DEF OneOwnerPerMember
  <2>7. Claims'
    BY <2>1, <2>2, <2>3, <2>4, <2>5 DEF Claims, TypeOK
  <2> QED
    BY <2>6, <2>7
<1>11. ASSUME NEW a \in Admins, InsertThrows(a) \/ AdminThrows(a)
       PROVE  OneOwnerPerMember' /\ Claims'
  BY <1>2, <1>11 DEF InsertThrows, AdminThrows
<1>12. ASSUME NEW a \in Admins, NEW o \in Owners, DeleteMapping(a, o)
       PROVE  OneOwnerPerMember' /\ Claims'
  BY <1>12 DEF DeleteMapping, adminVars, OneOwnerPerMember, Claims, TypeOK, InHand
<1> QED
  BY <1>3, <1>4, <1>5, <1>6, <1>7, <1>8, <1>9, <1>10, <1>11, <1>12
  DEF Next, Delivery, Admin, AdminStep, Failure

\* What ResumedWithOwner says of a step.
Resumption ==
    \A i \in Rows : status[i] = "error_state" /\ status'[i] # "error_state" =>
       LET l == journeyLead[i] IN
       /\ ownerUserId[l] = NoUser
       /\ ownerUserId'[l] # NoUser
       /\ mapping'[ownerExternalId'[l]] = ownerUserId'[l]

\* Nothing but its own transaction touches what a backfill found, and only the
\* commit of a backfill takes a journey out of error_state.
LEMMA HoldStep ==
    ASSUME IInv, TypeOK', Next
    PROVE  Holdings' /\ Resumption
<1> USE IngestionAssumption DEF IInv, Rows
<1>1. ASSUME UNCHANGED <<leadVars, journeyVars, adminVars>>
      PROVE  Holdings' /\ Resumption
  BY <1>1 DEF Holdings, Resumption, leadVars, journeyVars, adminVars
<1>2. ASSUME NEW a \in Admins, AdminDone(a), UNCHANGED <<leadVars, journeyVars>>
      PROVE  Holdings' /\ Resumption
  BY <1>2 DEF AdminDone, AdminGoto, Holdings, Resumption, leadVars, journeyVars, TypeOK
<1>3. ASSUME NEW d \in Deliveries, UpsertLead(d)
      PROVE  Holdings' /\ Resumption
  <2>1. \A a \in Admins : deliveryLead[d] \notin heldLeads[a]
    BY <1>3 DEF UpsertLead, LeadHeld
  <2>2. \A l \in Leads : l # deliveryLead[d] =>
           ownerExternalId'[l] = ownerExternalId[l] /\ ownerUserId'[l] = ownerUserId[l]
    BY <1>3 DEF UpsertLead, TypeOK
  <2>3. UNCHANGED <<journeyVars, adminVars>>
    BY <1>3 DEF UpsertLead, Goto
  <2> QED
    BY <2>1, <2>2, <2>3 DEF Holdings, Resumption, journeyVars, adminVars, TypeOK
<1>4. ASSUME NEW d \in Deliveries, CreateJourney(d)
      PROVE  Holdings' /\ Resumption
  <2>1. created' \in Rows /\ created' = created + 1 /\ created \in Nat
    BY <1>4 DEF CreateJourney, TypeOK
  <2>2. status[created'] = "absent"
    BY <2>1 DEF Holdings
  <2>3. \A i \in Rows : i # created' => status'[i] = status[i] /\ journeyLead'[i] = journeyLead[i]
    BY <1>4 DEF CreateJourney, TypeOK
  <2>4. UNCHANGED <<leadVars, adminVars>>
    BY <1>4 DEF CreateJourney, DeliveryDone, Goto
  <2> QED
    BY <2>1, <2>2, <2>3, <2>4 DEF Holdings, Resumption, leadVars, adminVars, TypeOK
<1>5. ASSUME NEW d \in Deliveries,
             DeliveryStep(d) \/ DeliveryThrows(d) \/ \E l \in Leads : FetchLead(d, l)
      PROVE  Holdings' /\ Resumption
  <2>1. CASE UpsertLead(d) \/ CreateJourney(d)
    BY <1>3, <1>4, <2>1
  <2>2. CASE ~(UpsertLead(d) \/ CreateJourney(d))
    <3>1. UNCHANGED <<leadVars, journeyVars, adminVars>>
      BY <1>5, <2>2 DEF DeliveryStep, DeliveryThrows, FetchLead, NoExternalOwner, FindByExternal,
         FetchOwnerParks, FetchOwnerMatches, TryInsert, TryInsertThrows, HasNonTerminal,
         DeliveryDone, Goto
    <3> QED
      BY <1>1, <3>1
  <2> QED
    BY <2>1, <2>2
<1>6. ASSUME NEW a \in Admins, NEW o \in Owners, NEW m \in Members,
             CheckConflict(a, o, m) \/ UpdateMembership(a, o, m)
      PROVE  Holdings' /\ Resumption
  <2>1. /\ adminPc[a] = "idle"
        /\ \E pc \in {"insert", "backfill"} : adminPc' = [adminPc EXCEPT ![a] = pc]
        /\ adminOwner' = [adminOwner EXCEPT ![a] = o]
        /\ UNCHANGED <<leadVars, journeyVars, heldLeads, heldJourneys>>
    BY <1>6 DEF CheckConflict, UpdateMembership, AdminGoto
  <2>2. heldLeads[a] = {} /\ heldJourneys[a] = {}
    BY <2>1 DEF Holdings
  <2> QED
    BY <2>1, <2>2 DEF Holdings, Resumption, leadVars, journeyVars, TypeOK
<1>7. ASSUME NEW a \in Admins, InsertStrict(a) \/ BackfillLeads(a) \/ ResumeParked(a)
      PROVE  Holdings' /\ Resumption
  <2>1. UNCHANGED <<leadVars, journeyVars, adminOwner>>
    BY <1>7 DEF InsertStrict, BackfillLeads, ResumeParked
  <2>2. CASE InsertStrict(a)
    BY <2>1, <2>2 DEF InsertStrict, AdminGoto, Holdings, Resumption, leadVars, journeyVars, TypeOK
  <2>3. CASE BackfillLeads(a)
    BY <2>1, <2>3 DEF BackfillLeads, AdminGoto, Holdings, Resumption, leadVars, journeyVars, TypeOK
  <2>4. CASE ResumeParked(a)
    BY <2>1, <2>4 DEF ResumeParked, AdminGoto, Holdings, Resumption, leadVars, journeyVars, TypeOK
  <2> QED
    BY <1>7, <2>2, <2>3, <2>4
<1>8. ASSUME NEW a \in Admins, CommitMapping(a)
      PROVE  Holdings' /\ Resumption
  <2>1. adminOwner[a] \in Owners /\ adminMember[a] \in Members /\ adminPc[a] \in InTransaction
    BY <1>8 DEF CommitMapping, InHand, InTransaction
  <2>2. /\ \A l \in heldLeads[a] : ownerExternalId[l] = adminOwner[a] /\ ownerUserId[l] = NoUser
        /\ \A i \in heldJourneys[a] : journeyLead[i] \in heldLeads[a] /\ status[i] = "error_state"
    BY DEF Holdings
  <2>3. \A b \in Admins \ {a} : \A l \in heldLeads[b] : l \notin heldLeads[a]
    <3> SUFFICES ASSUME NEW b \in Admins \ {a}, NEW l \in heldLeads[b], l \in heldLeads[a]
                 PROVE  FALSE
      OBVIOUS
    <3>1. ownerExternalId[l] = adminOwner[a] /\ ownerExternalId[l] = adminOwner[b]
      BY DEF Holdings
    <3>2. adminPc[b] \in InTransaction
      BY DEF Holdings, InTransaction
    <3> QED
      BY <2>1, <3>1, <3>2 DEF Claims
  <2>4. \A b \in Admins \ {a} : \A i \in heldJourneys[b] : i \notin heldJourneys[a]
    BY <2>2, <2>3 DEF Holdings
  <2>5. /\ adminPc' = [adminPc EXCEPT ![a] = "idle"]
        /\ heldLeads' = [heldLeads EXCEPT ![a] = {}]
        /\ heldJourneys' = [heldJourneys EXCEPT ![a] = {}]
        /\ \A b \in Admins \ {a} : adminOwner'[b] = adminOwner[b]
    BY <1>8 DEF CommitMapping, AdminDone, AdminGoto, TypeOK
  <2>6. /\ \A l \in Leads : ownerUserId'[l] = IF l \in heldLeads[a] THEN adminMember[a] ELSE ownerUserId[l]
        /\ \A i \in Rows : status'[i] = IF i \in heldJourneys[a] THEN "running" ELSE status[i]
        /\ UNCHANGED <<ownerExternalId, created, journeyLead>>
    BY <1>8 DEF CommitMapping
  <2>7. heldLeads \in [Admins -> SUBSET Leads] /\ heldJourneys \in [Admins -> SUBSET Rows]
    BY DEF TypeOK
  <2>8. Holdings'
    <3>1. \A b \in Admins \ {a} :
             /\ adminPc'[b] = adminPc[b]
             /\ heldLeads'[b] = heldLeads[b]
             /\ heldJourneys'[b] = heldJourneys[b]
      BY <2>5 DEF TypeOK
    <3>2. adminPc'[a] = "idle" /\ heldLeads'[a] = {} /\ heldJourneys'[a] = {}
      BY <2>5 DEF TypeOK
    <3>3. \A i \in Rows : i > created' => status'[i] = "absent"
      BY <2>2, <2>6 DEF Holdings
    <3> QED
      BY <2>3, <2>4, <2>5, <2>6, <2>7, <3>1, <3>2, <3>3 DEF Holdings
  <2>9. mapping'[adminOwner[a]] = adminMember[a]
    BY <1>8, <2>1 DEF CommitMapping, TypeOK
  <2>10. Resumption
    BY <2>1, <2>2, <2>6, <2>7, <2>9 DEF Resumption
  <2> QED
    BY <2>8, <2>10
<1>9. ASSUME NEW a \in Admins, InsertThrows(a) \/ AdminThrows(a)
      PROVE  Holdings' /\ Resumption
  BY <1>2, <1>9 DEF InsertThrows, AdminThrows
<1>10. ASSUME NEW a \in Admins, NEW o \in Owners, DeleteMapping(a, o)
       PROVE  Holdings' /\ Resumption
  BY <1>1, <1>10 DEF DeleteMapping
<1>11. ASSUME NEW i \in Rows, NEW event \in JourneyEvent, JourneyMoves(i, event)
       PROVE  Holdings' /\ Resumption
  <2>1. status[i] # "error_state" /\ status[i] # "absent"
    BY <1>11 DEF JourneyMoves, CanTransition, TransitionFrom, JourneyEvent, NonTerminalStatuses
  <2>2. \A k \in Rows : k # i => status'[k] = status[k]
    BY <1>11 DEF JourneyMoves, TypeOK
  <2>3. UNCHANGED <<leadVars, created, journeyLead, adminVars>>
    BY <1>11 DEF JourneyMoves
  <2> QED
    BY <2>1, <2>2, <2>3 DEF Holdings, Resumption, leadVars, adminVars, TypeOK
<1>12. CASE \E m \in Members : MemberChanges(m)
  BY <1>1, <1>12 DEF MemberChanges
<1>13. CASE \E l \in Leads, o \in Owners : ChangeCrmOwner(l, o)
  BY <1>1, <1>13 DEF ChangeCrmOwner
<1> QED
  BY <1>5, <1>6, <1>7, <1>8, <1>9, <1>10, <1>11, <1>12, <1>13
  DEF Next, Deliver, Delivery, Admin, AdminStep, Failure, Outside

\* Every step keeps the invariant and resumes only with an owner.
LEMMA StepHolds == IInv /\ [Next]_vars => IInv' /\ Resumption
<1> SUFFICES ASSUME IInv, [Next]_vars
             PROVE  IInv' /\ Resumption
  OBVIOUS
<1>1. CASE Next
  <2>1. TypeOK' /\ InHand'
    BY <1>1, DeliveryTypes, AdminTypes, OtherTypes
    DEF IInv, Next, Deliver, Delivery, Admin, Failure
  <2> QED
    BY <1>1, <2>1, KeysStep, HoldStep DEF IInv
<1>2. CASE UNCHANGED vars
  <2>1. TypeOK' /\ InHand'
    BY <1>2, OtherTypes DEF IInv
  <2> QED
    BY <1>2, <2>1 DEF IInv, OneOwnerPerMember, Claims, Holdings, Resumption, vars, leadVars,
                      journeyVars, adminVars
<1> QED
  BY <1>1, <1>2

\* The invariant is one of the specification.
THEOREM IngestionInvariant == Spec => []IInv
<1> QED
  BY InitHolds, StepHolds, PTL DEF Spec

\* Ingestion is well typed for any constants.
THEOREM IngestionTypes == Spec => []TypeOK
<1>1. IInv => TypeOK
  BY DEF IInv
<1> QED
  BY <1>1, IngestionInvariant, PTL

\* A member stands for at most one CRM user: unique indexes, and waiting for
\* the transactions that hold a key, are enough for all the writers there are.
THEOREM IngestionMapsApart == Spec => []OneOwnerPerMember
<1>1. IInv => OneOwnerPerMember
  BY DEF IInv
<1> QED
  BY <1>1, IngestionInvariant, PTL

\* A parked journey runs again only with an owner who is mapped.
THEOREM IngestionResumes == Spec => ResumedWithOwner
<1>1. IInv /\ [Next]_vars =>
         [\A i \in Rows :
             status[i] = "error_state" /\ status'[i] # "error_state" =>
                LET l == journeyLead[i] IN
                /\ ownerUserId[l] = NoUser
                /\ ownerUserId'[l] # NoUser
                /\ mapping'[ownerExternalId'[l]] = ownerUserId'[l]]_vars
  BY StepHolds DEF Resumption
<1> QED
  BY <1>1, IngestionInvariant, PTL DEF Spec, ResumedWithOwner

-----------------------------------------------------------------------------
(* One delivery at a time *)

\* Two journeys in flight are of different leads, and a delivery about to
\* create one still has its lead to itself.
Apart ==
    /\ \A i, k \in Rows :
          /\ status[i] \in NonTerminalStatuses
          /\ status[k] \in NonTerminalStatuses
          /\ journeyLead[i] = journeyLead[k]
          => i = k
    /\ \A d \in Deliveries : deliveryPc[d] = "create" => InFlight(deliveryLead[d]) = {}

\* Nothing is put in flight but by the creation of a journey, or by the commit
\* of a backfill.
LEMMA FlightStep ==
    ASSUME IInv, [Next]_vars, Admins = {},
           \A d \in Deliveries : ~CreateJourney(d)
    PROVE  /\ \A i \in Rows : status'[i] \in NonTerminalStatuses => status[i] \in NonTerminalStatuses
           /\ UNCHANGED journeyLead
<1>1. CASE UNCHANGED journeyVars
  BY <1>1 DEF journeyVars
<1>2. ASSUME NEW i \in Rows, NEW event \in JourneyEvent, JourneyMoves(i, event)
      PROVE  /\ \A k \in Rows : status'[k] \in NonTerminalStatuses => status[k] \in NonTerminalStatuses
             /\ UNCHANGED journeyLead
  <2>1. status[i] \in NonTerminalStatuses
    BY <1>2 DEF JourneyMoves, CanTransition, TransitionFrom, JourneyEvent, NonTerminalStatuses
  <2>2. \A k \in Rows : k # i => status'[k] = status[k]
    BY <1>2 DEF JourneyMoves, IInv, TypeOK
  <2> QED
    BY <1>2, <2>1, <2>2 DEF JourneyMoves
<1>3. CASE Deliver \/ Delivery \/ \E d \in Deliveries : DeliveryThrows(d)
  <2>1. UNCHANGED journeyVars
    BY <1>3 DEF Deliver, FetchLead, Delivery, DeliveryStep, DeliveryThrows, NoExternalOwner,
       FindByExternal, FetchOwnerParks, FetchOwnerMatches, TryInsert, TryInsertThrows, UpsertLead,
       HasNonTerminal
  <2> QED
    BY <1>1, <2>1
<1>4. CASE Admin \/ \E a \in Admins : AdminThrows(a)
  BY <1>1, <1>4 DEF Admin
<1>5. CASE Outside
  BY <1>1, <1>2, <1>5 DEF Outside, MemberChanges, ChangeCrmOwner
<1>6. CASE UNCHANGED vars
  BY <1>1, <1>6 DEF vars
<1> QED
  BY <1>3, <1>4, <1>5, <1>6 DEF Next, Failure

\* A delivery comes to the creation only from the check, with the lead it
\* checked, and no other delivery is under way.
LEMMA AloneStep ==
    ASSUME IInv, [Next]_vars, NEW d \in Deliveries, \A e \in Deliveries : e = d,
           ~CreateJourney(d), deliveryPc'[d] = "create"
    PROVE  InFlight(deliveryLead'[d]) = {} \/ (deliveryPc[d] = "create" /\ UNCHANGED deliveryLead)
<1> USE DEF IInv, TypeOK
<1>1. CASE UNCHANGED deliveryVars
  BY <1>1 DEF deliveryVars
<1>2. CASE DeliveryStep(d)
  <2>1. CASE HasNonTerminal(d)
    BY <2>1 DEF HasNonTerminal, DeliveryDone, Goto
  <2>2. CASE ~HasNonTerminal(d)
    BY <1>2, <2>2 DEF DeliveryStep, NoExternalOwner, FindByExternal, FetchOwnerParks,
       FetchOwnerMatches, TryInsert, TryInsertThrows, UpsertLead, DeliveryDone, Goto
  <2> QED
    BY <2>1, <2>2
<1>3. CASE DeliveryThrows(d) \/ \E l \in Leads : FetchLead(d, l)
  BY <1>3 DEF DeliveryThrows, DeliveryDone, FetchLead, Goto
<1>4. CASE Admin \/ Outside \/ \E a \in Admins : AdminThrows(a)
  BY <1>1, <1>4 DEF Admin, AdminStep, Outside, AdminThrows, AdminDone, AdminGoto, CheckConflict,
     UpdateMembership, InsertStrict, InsertThrows, BackfillLeads, ResumeParked, CommitMapping,
     DeleteMapping, JourneyMoves, MemberChanges, ChangeCrmOwner
<1>5. CASE UNCHANGED vars
  BY <1>1, <1>5 DEF vars
<1> QED
  BY <1>2, <1>3, <1>4, <1>5 DEF Next, Deliver, Delivery, Failure

\* A creation puts one journey in flight, of the lead that had none.
LEMMA CreationStep ==
    ASSUME IInv, Apart, NEW d \in Deliveries, \A e \in Deliveries : e = d, CreateJourney(d)
    PROVE  Apart'
<1> USE DEF Rows
<1>1. /\ created' \in Rows
      /\ deliveryPc[d] = "create"
      /\ InFlight(deliveryLead[d]) = {}
  BY IngestionAssumption DEF CreateJourney, IInv, TypeOK, Apart
<1>2. /\ journeyLead'[created'] = deliveryLead[d]
      /\ \A i \in Rows : i # created' => status'[i] = status[i] /\ journeyLead'[i] = journeyLead[i]
  BY <1>1 DEF CreateJourney, IInv, TypeOK
<1>3. \A i \in Rows : status[i] \in NonTerminalStatuses => journeyLead[i] # deliveryLead[d]
  BY <1>1 DEF InFlight
<1>4. deliveryPc'[d] = "idle"
  BY DEF CreateJourney, DeliveryDone, Goto, IInv, TypeOK
<1> QED
  BY <1>1, <1>2, <1>3, <1>4 DEF Apart

LEMMA ApartStep ==
    ASSUME IInv, Apart, [Next]_vars, Admins = {},
           \A d, e \in Deliveries : d = e
    PROVE  Apart'
<1>1. CASE \E d \in Deliveries : CreateJourney(d)
  BY <1>1, CreationStep
<1>2. CASE \A d \in Deliveries : ~CreateJourney(d)
  <2>1. /\ \A i \in Rows : status'[i] \in NonTerminalStatuses => status[i] \in NonTerminalStatuses
        /\ UNCHANGED journeyLead
    BY <1>2, FlightStep
  <2>2. ASSUME NEW d \in Deliveries, deliveryPc'[d] = "create"
        PROVE  \A i \in Rows : status'[i] \in NonTerminalStatuses => journeyLead'[i] # deliveryLead'[d]
    <3>1. InFlight(deliveryLead'[d]) = {}
      BY <1>2, <2>2, AloneStep DEF Apart
    <3> QED
      BY <2>1, <3>1 DEF InFlight
  <2> QED
    BY <2>1, <2>2 DEF Apart, InFlight
<1> QED
  BY <1>1, <1>2

\* One delivery at a time, and no admin at work, a lead has at most one journey
\* in flight: the check of HasNonTerminal still holds when the row is inserted.
\* A second delivery breaks this, and so does a backfill, which resumes every
\* parked journey of a lead.
THEOREM IngestionOneAtATime ==
    ASSUME Admins = {}, \A d, e \in Deliveries : d = e
    PROVE  Spec => []OneInFlight
<1>1. Init => Apart
  BY DEF Init, Apart, NonTerminalStatuses
<1>2. IInv /\ Apart /\ [Next]_vars => Apart'
  BY ApartStep
<1>3. Apart => OneInFlight
  <2> SUFFICES ASSUME Apart, NEW l \in Leads
               PROVE  Cardinality(InFlight(l)) <= 1
    BY DEF OneInFlight
  <2>1. CASE InFlight(l) = {}
    BY <2>1, FS_EmptySet
  <2>2. ASSUME NEW i \in InFlight(l)
        PROVE  Cardinality(InFlight(l)) <= 1
    <3>1. InFlight(l) = {i}
      BY DEF InFlight, Apart
    <3>2. Cardinality({i}) = 1
      BY FS_Singleton
    <3> QED
      BY <3>1, <3>2
  <2> QED
    BY <2>1, <2>2
<1> QED
  BY <1>1, <1>2, <1>3, IngestionInvariant, PTL DEF Spec

=============================================================================
