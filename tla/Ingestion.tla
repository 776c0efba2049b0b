------------------------------- MODULE Ingestion -------------------------------
(***************************************************************************)
(* How a CRM event becomes a journey, and how the owner of its lead is     *)
(* found.  A webhook delivery fetches the lead, resolves its CRM owner to  *)
(* a member (a stored mapping, else a match of verified emails that is     *)
(* then stored), mirrors the lead, looks for a journey in flight and       *)
(* creates one, each step a statement or a call of its own.  Admins create *)
(* and repoint mappings in a transaction that also gives the owner's leads *)
(* to the member and resumes their parked journeys; they delete mappings.  *)
(*                                                                         *)
(* One workspace, one connector account, one cadence.  Tables hold what is *)
(* committed; a transaction holds its unique keys and lead rows until it   *)
(* commits.  A lead that was never mirrored is one without owners.         *)
(***************************************************************************)
EXTENDS LeadJourney, FiniteSets

CONSTANTS
    Leads,         \* deals of the CRM
    Owners,        \* users of the CRM
    Members,       \* members of the workspace
    EmailMatch,    \* the member with the email of each CRM user
    Deliveries,    \* webhook requests that may be under way at once
    Admins,        \* identity requests that may be under way at once
    NoLead, NoOwner, NoUser,
    MaxJourneys    \* bound on the rows of lead_journeys

ASSUME IngestionAssumption ==
    /\ EmailMatch \in [Owners -> Members \cup {NoUser}]
    /\ NoLead \notin Leads
    /\ NoOwner \notin Owners
    /\ NoUser \notin Members
    /\ MaxJourneys \in Nat

VARIABLES
    crmOwner,          \* the CRM: owner of each deal
    verifiedActive,    \* active members whose email is verified
    mapping,           \* member_connector_identities: external id to member
    ownerExternalId, ownerUserId,         \* leads
    created,                              \* rows of lead_journeys so far
    journeyLead, status, errorReason,     \* lead_journeys
    deliveryPc, deliveryLead, deliveryOwner, deliveryUser, deliveryReason,
    adminPc, adminOwner, adminMember,
    heldLeads,         \* lead rows updated by an admin's open transaction
    heldJourneys       \* journey rows updated by it

leadVars == <<ownerExternalId, ownerUserId>>
journeyVars == <<created, journeyLead, status, errorReason>>
deliveryVars == <<deliveryPc, deliveryLead, deliveryOwner, deliveryUser, deliveryReason>>
adminVars == <<adminPc, adminOwner, adminMember, heldLeads, heldJourneys>>
vars == <<crmOwner, verifiedActive, mapping, leadVars, journeyVars, deliveryVars, adminVars>>

Rows == 1 .. MaxJourneys

Init ==
    /\ crmOwner \in [Leads -> Owners \cup {NoOwner}]
    /\ verifiedActive = {}
    /\ mapping = [o \in Owners |-> NoUser]
    /\ ownerExternalId = [l \in Leads |-> NoOwner]
    /\ ownerUserId = [l \in Leads |-> NoUser]
    /\ created = 0
    /\ journeyLead = [i \in Rows |-> NoLead]
    /\ status = [i \in Rows |-> "absent"]
    /\ errorReason = [i \in Rows |-> "none"]
    /\ deliveryPc = [d \in Deliveries |-> "idle"]
    /\ deliveryLead = [d \in Deliveries |-> NoLead]
    /\ deliveryOwner = [d \in Deliveries |-> NoOwner]
    /\ deliveryUser = [d \in Deliveries |-> NoUser]
    /\ deliveryReason = [d \in Deliveries |-> "none"]
    /\ adminPc = [a \in Admins |-> "idle"]
    /\ adminOwner = [a \in Admins |-> NoOwner]
    /\ adminMember = [a \in Admins |-> NoUser]
    /\ heldLeads = [a \in Admins |-> {}]
    /\ heldJourneys = [a \in Admins |-> {}]

-----------------------------------------------------------------------------
(* Locks *)

InTransaction == {"backfill", "resume", "commit"}
OpenTx == {a \in Admins : adminPc[a] \in InTransaction}

\* Unique indexes (account, external id) and (account, membership): a writer
\* waits for a transaction that wrote, or is replacing, one of its keys.
KeyTaken(o, m) ==
    \E a \in OpenTx :
        \/ adminOwner[a] = o
        \/ adminMember[a] = m
        \/ mapping[adminOwner[a]] = m

Mapped(m) == \E o \in Owners : mapping[o] = m

LeadHeld(l) == \E a \in Admins : l \in heldLeads[a]

InFlight(l) == {i \in Rows : journeyLead[i] = l /\ status[i] \in NonTerminalStatuses}

-----------------------------------------------------------------------------
(* A webhook delivery: CrmWebhookController, StartJourney, ResolveOwner *)

Goto(d, pc) ==
    /\ deliveryPc' = [deliveryPc EXCEPT ![d] = pc]
    /\ UNCHANGED <<crmOwner, verifiedActive, adminVars>>

Resolved(d, user, reason) ==
    /\ deliveryUser' = [deliveryUser EXCEPT ![d] = user]
    /\ deliveryReason' = [deliveryReason EXCEPT ![d] = reason]
    /\ UNCHANGED <<deliveryLead, deliveryOwner>>

\* The stage has an entry trigger, and the lead is fetched from the CRM.  The
\* same event may be delivered any number of times.
FetchLead(d, l) ==
    /\ deliveryPc[d] = "idle"
    /\ created + Cardinality({e \in Deliveries : deliveryPc[e] # "idle"}) < MaxJourneys
    /\ deliveryLead' = [deliveryLead EXCEPT ![d] = l]
    /\ deliveryOwner' = [deliveryOwner EXCEPT ![d] = crmOwner[l]]
    /\ Goto(d, "resolve")
    /\ UNCHANGED <<mapping, leadVars, journeyVars, deliveryUser, deliveryReason>>

\* Mutant: a reason that no one knows.
NoExternalOwnerMisnamed(d) ==
    /\ deliveryPc[d] = "resolve"
    /\ deliveryOwner[d] = NoOwner
    /\ Resolved(d, NoUser, "owner_unmapped")
    /\ Goto(d, "upsert")
    /\ UNCHANGED <<mapping, leadVars, journeyVars>>

NoExternalOwner(d) ==
    /\ deliveryPc[d] = "resolve"
    /\ deliveryOwner[d] = NoOwner
    /\ Resolved(d, NoUser, "owner_not_mapped")
    /\ Goto(d, "upsert")
    /\ UNCHANGED <<mapping, leadVars, journeyVars>>

FindByExternal(d) ==
    /\ deliveryPc[d] = "resolve"
    /\ deliveryOwner[d] # NoOwner
    /\ \/ /\ mapping[deliveryOwner[d]] # NoUser
          /\ Resolved(d, mapping[deliveryOwner[d]], "none")
          /\ Goto(d, "upsert")
       \/ /\ mapping[deliveryOwner[d]] = NoUser
          /\ Goto(d, "fetchOwner")
          /\ UNCHANGED <<deliveryLead, deliveryOwner, deliveryUser, deliveryReason>>
    /\ UNCHANGED <<mapping, leadVars, journeyVars>>

\* The CRM fails, or knows no such user or no email of his ...
FetchOwnerParks(d, reason) ==
    /\ deliveryPc[d] = "fetchOwner"
    /\ reason \in {"owner_lookup_failed", "owner_not_mapped"}
    /\ Resolved(d, NoUser, reason)
    /\ Goto(d, "upsert")
    /\ UNCHANGED <<mapping, leadVars, journeyVars>>

\* ... or the email is that of an active member who verified it.
FetchOwnerMatches(d) ==
    /\ deliveryPc[d] = "fetchOwner"
    /\ EmailMatch[deliveryOwner[d]] \in verifiedActive
    /\ Resolved(d, EmailMatch[deliveryOwner[d]], "none")
    /\ Goto(d, "autoCreate")
    /\ UNCHANGED <<mapping, leadVars, journeyVars>>

\* tryInsert: ON CONFLICT DO NOTHING.  Whoever the existing row maps the owner
\* to, the delivery goes on with the member it matched.
TryInsert(d) ==
    LET o == deliveryOwner[d]
        m == deliveryUser[d]
    IN
    /\ deliveryPc[d] = "autoCreate"
    /\ ~KeyTaken(o, m)
    /\ \/ /\ mapping[o] = NoUser
          /\ ~Mapped(m)
          /\ mapping' = [mapping EXCEPT ![o] = m]
       \/ /\ mapping[o] # NoUser
          /\ UNCHANGED mapping
    /\ Goto(d, "upsert")
    /\ UNCHANGED <<leadVars, journeyVars, deliveryLead, deliveryOwner, deliveryUser,
                   deliveryReason>>

\* Mutant: the lead row is written under the transaction that holds it.
UpsertLeadUnlocked(d) ==
    /\ deliveryPc[d] = "upsert"
    /\ ownerExternalId' = [ownerExternalId EXCEPT ![deliveryLead[d]] = deliveryOwner[d]]
    /\ ownerUserId' = [ownerUserId EXCEPT ![deliveryLead[d]] = deliveryUser[d]]
    /\ Goto(d, "check")
    /\ UNCHANGED <<mapping, journeyVars, deliveryLead, deliveryOwner, deliveryUser,
                   deliveryReason>>

\* Both owner columns are overwritten, also when the lead has a journey.
UpsertLead(d) ==
    /\ deliveryPc[d] = "upsert"
    /\ ~LeadHeld(deliveryLead[d])
    /\ ownerExternalId' = [ownerExternalId EXCEPT ![deliveryLead[d]] = deliveryOwner[d]]
    /\ ownerUserId' = [ownerUserId EXCEPT ![deliveryLead[d]] = deliveryUser[d]]
    /\ Goto(d, "check")
    /\ UNCHANGED <<mapping, journeyVars, deliveryLead, deliveryOwner, deliveryUser,
                   deliveryReason>>

DeliveryDone(d) ==
    /\ Goto(d, "idle")
    /\ deliveryLead' = [deliveryLead EXCEPT ![d] = NoLead]
    /\ deliveryOwner' = [deliveryOwner EXCEPT ![d] = NoOwner]
    /\ deliveryUser' = [deliveryUser EXCEPT ![d] = NoUser]
    /\ deliveryReason' = [deliveryReason EXCEPT ![d] = "none"]
    /\ UNCHANGED <<mapping, leadVars>>

\* tryInsert finds no row to return: the member has another external id.
TryInsertThrows(d) ==
    /\ deliveryPc[d] = "autoCreate"
    /\ ~KeyTaken(deliveryOwner[d], deliveryUser[d])
    /\ mapping[deliveryOwner[d]] = NoUser
    /\ Mapped(deliveryUser[d])
    /\ DeliveryDone(d)
    /\ UNCHANGED journeyVars

HasNonTerminal(d) ==
    /\ deliveryPc[d] = "check"
    /\ \/ /\ InFlight(deliveryLead[d]) # {}
          /\ DeliveryDone(d)
       \/ /\ InFlight(deliveryLead[d]) = {}
          /\ Goto(d, "create")
          /\ UNCHANGED <<mapping, leadVars, deliveryLead, deliveryOwner, deliveryUser,
                         deliveryReason>>
    /\ UNCHANGED journeyVars

CreateJourney(d) ==
    /\ deliveryPc[d] = "create"
    /\ created < MaxJourneys
    /\ created' = created + 1
    /\ journeyLead' = [journeyLead EXCEPT ![created'] = deliveryLead[d]]
    /\ status' = [status EXCEPT ![created'] =
                     IF deliveryReason[d] = "none" THEN "running" ELSE "error_state"]
    /\ errorReason' = [errorReason EXCEPT ![created'] = deliveryReason[d]]
    /\ DeliveryDone(d)

\* A call or a statement throws, or the process dies: the CRM may deliver the
\* event again.
DeliveryThrows(d) ==
    /\ deliveryPc[d] # "idle"
    /\ DeliveryDone(d)
    /\ UNCHANGED journeyVars

-----------------------------------------------------------------------------
(* Admins: Create-, Update- and DeleteMemberConnectorIdentity *)

AdminGoto(a, pc) ==
    /\ adminPc' = [adminPc EXCEPT ![a] = pc]
    /\ UNCHANGED <<crmOwner, verifiedActive, deliveryVars>>

\* The conflict check of a create, outside its transaction.
CheckConflict(a, o, m) ==
    /\ adminPc[a] = "idle"
    /\ mapping[o] = NoUser
    /\ adminOwner' = [adminOwner EXCEPT ![a] = o]
    /\ adminMember' = [adminMember EXCEPT ![a] = m]
    /\ AdminGoto(a, "insert")
    /\ UNCHANGED <<mapping, leadVars, journeyVars, heldLeads, heldJourneys>>

AdminDone(a) ==
    /\ AdminGoto(a, "idle")
    /\ adminOwner' = [adminOwner EXCEPT ![a] = NoOwner]
    /\ adminMember' = [adminMember EXCEPT ![a] = NoUser]
    /\ heldLeads' = [heldLeads EXCEPT ![a] = {}]
    /\ heldJourneys' = [heldJourneys EXCEPT ![a] = {}]

\* Mutant: the insert relies on the check made before the transaction.
InsertStrictUnindexed(a) ==
    /\ adminPc[a] = "insert"
    /\ AdminGoto(a, "backfill")
    /\ UNCHANGED <<mapping, leadVars, journeyVars, adminOwner, adminMember, heldLeads,
                   heldJourneys>>

InsertStrict(a) ==
    /\ adminPc[a] = "insert"
    /\ ~KeyTaken(adminOwner[a], adminMember[a])
    /\ mapping[adminOwner[a]] = NoUser
    /\ ~Mapped(adminMember[a])
    /\ AdminGoto(a, "backfill")
    /\ UNCHANGED <<mapping, leadVars, journeyVars, adminOwner, adminMember, heldLeads,
                   heldJourneys>>

\* A unique index is violated by a committed row.
InsertThrows(a) ==
    /\ adminPc[a] = "insert"
    /\ ~KeyTaken(adminOwner[a], adminMember[a])
    /\ mapping[adminOwner[a]] # NoUser \/ Mapped(adminMember[a])
    /\ AdminDone(a)
    /\ UNCHANGED <<mapping, leadVars, journeyVars>>

\* An update repoints an existing row; to a member mapped elsewhere it throws.
UpdateMembership(a, o, m) ==
    /\ adminPc[a] = "idle"
    /\ mapping[o] # NoUser
    /\ ~KeyTaken(o, m)
    /\ mapping[o] = m \/ ~Mapped(m)
    /\ adminOwner' = [adminOwner EXCEPT ![a] = o]
    /\ adminMember' = [adminMember EXCEPT ![a] = m]
    /\ AdminGoto(a, "backfill")
    /\ UNCHANGED <<mapping, leadVars, journeyVars, heldLeads, heldJourneys>>

\* backfillOwnerUserId: the leads of the CRM owner nobody owns yet.
BackfillLeads(a) ==
    /\ adminPc[a] = "backfill"
    /\ heldLeads' = [heldLeads EXCEPT ![a] =
          {l \in Leads : ownerExternalId[l] = adminOwner[a] /\ ownerUserId[l] = NoUser}]
    /\ AdminGoto(a, "resume")
    /\ UNCHANGED <<mapping, leadVars, journeyVars, adminOwner, adminMember, heldJourneys>>

\* resumeErrorStateByLeadsAndReason: their journeys parked for want of an owner.
ResumeParked(a) ==
    /\ adminPc[a] = "resume"
    /\ heldJourneys' = [heldJourneys EXCEPT ![a] =
          {i \in Rows : /\ journeyLead[i] \in heldLeads[a]
                        /\ status[i] = "error_state"
                        /\ errorReason[i] = "owner_not_mapped"}]
    /\ AdminGoto(a, "commit")
    /\ UNCHANGED <<mapping, leadVars, journeyVars, adminOwner, adminMember, heldLeads>>

CommitMapping(a) ==
    /\ adminPc[a] = "commit"
    /\ mapping' = [mapping EXCEPT ![adminOwner[a]] = adminMember[a]]
    /\ ownerUserId' = [l \in Leads |->
          IF l \in heldLeads[a] THEN adminMember[a] ELSE ownerUserId[l]]
    /\ status' = [i \in Rows |-> IF i \in heldJourneys[a] THEN "running" ELSE status[i]]
    /\ errorReason' = [i \in Rows |->
          IF i \in heldJourneys[a] THEN "none" ELSE errorReason[i]]
    /\ AdminDone(a)
    /\ UNCHANGED <<ownerExternalId, created, journeyLead>>

AdminThrows(a) ==
    /\ adminPc[a] # "idle"
    /\ AdminDone(a)
    /\ UNCHANGED <<mapping, leadVars, journeyVars>>

\* One statement; it waits for a transaction that holds the row.
DeleteMapping(a, o) ==
    /\ adminPc[a] = "idle"
    /\ mapping[o] # NoUser
    /\ \A b \in OpenTx : adminOwner[b] # o
    /\ mapping' = [mapping EXCEPT ![o] = NoUser]
    /\ UNCHANGED <<crmOwner, verifiedActive, leadVars, journeyVars, deliveryVars, adminVars>>

-----------------------------------------------------------------------------
(* The rest of the system *)

\* The dispatcher, replies and operators move a journey along its lifecycle.
JourneyMoves(i, event) ==
    /\ CanTransition(status[i], event)
    /\ status' = [status EXCEPT ![i] = TransitionTo[event]]
    /\ errorReason' = [errorReason EXCEPT ![i] =
                          IF event = "error" THEN "no_channel" ELSE @]
    /\ UNCHANGED <<crmOwner, verifiedActive, mapping, leadVars, created, journeyLead,
                   deliveryVars, adminVars>>

\* A member verifies his email, is deactivated or reactivated.
MemberChanges(m) ==
    /\ verifiedActive' \in {verifiedActive \cup {m}, verifiedActive \ {m}}
    /\ UNCHANGED <<crmOwner, mapping, leadVars, journeyVars, deliveryVars, adminVars>>

\* Someone gives the deal another owner in the CRM.
ChangeCrmOwner(l, o) ==
    /\ crmOwner' = [crmOwner EXCEPT ![l] = o]
    /\ UNCHANGED <<verifiedActive, mapping, leadVars, journeyVars, deliveryVars, adminVars>>

DeliveryStep(d) ==
    \/ NoExternalOwner(d)
    \/ FindByExternal(d)
    \/ \E reason \in LeadJourneyErrorReason : FetchOwnerParks(d, reason)
    \/ FetchOwnerMatches(d)
    \/ TryInsert(d)
    \/ TryInsertThrows(d)
    \/ UpsertLead(d)
    \/ HasNonTerminal(d)
    \/ CreateJourney(d)

AdminStep(a) ==
    \/ InsertStrict(a)
    \/ InsertThrows(a)
    \/ BackfillLeads(a)
    \/ ResumeParked(a)
    \/ CommitMapping(a)

Deliver == \E d \in Deliveries, l \in Leads : FetchLead(d, l)
Delivery == \E d \in Deliveries : DeliveryStep(d)
Admin ==
    \/ \E a \in Admins, o \in Owners, m \in Members :
          CheckConflict(a, o, m) \/ UpdateMembership(a, o, m)
    \/ \E a \in Admins : AdminStep(a)
    \/ \E a \in Admins, o \in Owners : DeleteMapping(a, o)
Failure ==
    \/ \E d \in Deliveries : DeliveryThrows(d)
    \/ \E a \in Admins : AdminThrows(a)
Outside ==
    \/ \E i \in Rows, event \in JourneyEvent : JourneyMoves(i, event)
    \/ \E m \in Members : MemberChanges(m)
    \/ \E l \in Leads, o \in Owners : ChangeCrmOwner(l, o)

Next == Deliver \/ Delivery \/ Admin \/ Failure \/ Outside

Spec == Init /\ [][Next]_vars

-----------------------------------------------------------------------------
DeliveryPc == {"idle", "resolve", "fetchOwner", "autoCreate", "upsert", "check", "create"}
Reason == LeadJourneyErrorReason \cup {"none"}

TypeOK ==
    /\ crmOwner \in [Leads -> Owners \cup {NoOwner}]
    /\ verifiedActive \subseteq Members
    /\ mapping \in [Owners -> Members \cup {NoUser}]
    /\ ownerExternalId \in [Leads -> Owners \cup {NoOwner}]
    /\ ownerUserId \in [Leads -> Members \cup {NoUser}]
    /\ created \in 0 .. MaxJourneys
    /\ journeyLead \in [Rows -> Leads \cup {NoLead}]
    /\ status \in [Rows -> LeadJourneyStatus \cup {"absent"}]
    /\ errorReason \in [Rows -> Reason]
    /\ deliveryPc \in [Deliveries -> DeliveryPc]
    /\ deliveryLead \in [Deliveries -> Leads \cup {NoLead}]
    /\ deliveryOwner \in [Deliveries -> Owners \cup {NoOwner}]
    /\ deliveryUser \in [Deliveries -> Members \cup {NoUser}]
    /\ deliveryReason \in [Deliveries -> Reason]
    /\ adminPc \in [Admins -> {"idle", "insert"} \cup InTransaction]
    /\ adminOwner \in [Admins -> Owners \cup {NoOwner}]
    /\ adminMember \in [Admins -> Members \cup {NoUser}]
    /\ heldLeads \in [Admins -> SUBSET Leads]
    /\ heldJourneys \in [Admins -> SUBSET Rows]

\* A member stands for at most one CRM user, whatever deliveries and admins
\* write the mappings at once.
OneOwnerPerMember ==
    \A o, p \in Owners : mapping[o] = mapping[p] /\ mapping[o] # NoUser => o = p

\* A parked journey runs again only in the step that maps the CRM owner of its
\* lead and gives the lead to the mapped member.
ResumedWithOwner ==
    [][\A i \in Rows :
          status[i] = "error_state" /\ status'[i] # "error_state" =>
             LET l == journeyLead[i] IN
             /\ ownerUserId[l] = NoUser
             /\ ownerUserId'[l] # NoUser
             /\ mapping'[ownerExternalId'[l]] = ownerUserId'[l]]_vars

\* A lead has at most one journey in flight, so that it is never touched
\* twice for the same step.
OneInFlight == \A l \in Leads : Cardinality(InFlight(l)) <= 1

=============================================================================
