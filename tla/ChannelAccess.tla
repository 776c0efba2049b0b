----------------------------- MODULE ChannelAccess -----------------------------
(***************************************************************************)
(* The accesses of one member to the channel accounts of one plugin, and    *)
(* the choice of a primary account.  No constraint of the table keeps a     *)
(* member to one primary: makePrimary clears the flag of the rows its       *)
(* UPDATE found, then sets it on the row looked up before the transaction.  *)
(* Every statement names one member and one plugin, so others are apart.    *)
(***************************************************************************)
EXTENDS Naturals

CONSTANTS
    ChannelAccounts,
    Choices,          \* SetPrimaryChannel requests
    MaxAccesses,      \* rows of channel_accesses ever inserted
    Nobody

ASSUME AccessAssumption == MaxAccesses \in Nat /\ Nobody \notin Choices

VARIABLES
    access,           \* the id of the row of each account, 0 when there is none
    isPrimary,
    inserted,         \* rows inserted so far
    choice,           \* where each request is
    found,            \* the account and the access id it found
    toClear,          \* rows its UPDATE found and has not reached yet
    rowLock,          \* who has changed the row of each account and not committed
    chosen,           \* the access id the last choice to commit was made for
    late              \* ids inserted while the UPDATE of a choice was under way

accessVars == <<access, isPrimary, inserted, choice, found, toClear, rowLock, chosen, late>>

AccessId == 1 .. MaxAccesses
Present == {a \in ChannelAccounts : access[a] # 0}

Init ==
    /\ access = [a \in ChannelAccounts |-> 0]
    /\ isPrimary = [a \in ChannelAccounts |-> FALSE]
    /\ inserted = 0
    /\ choice = [c \in Choices |-> "idle"]
    /\ found \in [Choices -> [account : ChannelAccounts, id : {0}]]
    /\ toClear = [c \in Choices |-> {}]
    /\ rowLock = [a \in ChannelAccounts |-> Nobody]
    /\ chosen = 0
    /\ late = {}

Unlock(c) == [a \in ChannelAccounts |-> IF rowLock[a] = c THEN Nobody ELSE rowLock[a]]

\* INSERT ... ON CONFLICT DO NOTHING; the new row is not primary.
Grant(a) ==
    /\ access[a] = 0
    /\ inserted < MaxAccesses
    /\ inserted' = inserted + 1
    /\ access' = [access EXCEPT ![a] = inserted + 1]
    /\ late' = IF \E c \in Choices : choice[c] = "clearing" THEN late \cup {inserted + 1} ELSE late
    /\ UNCHANGED <<isPrimary, choice, found, toClear, rowLock, chosen>>

\* DELETE waits for a transaction that has changed the row.
Revoke(a) ==
    /\ access[a] # 0
    /\ rowLock[a] = Nobody
    /\ access' = [access EXCEPT ![a] = 0]
    /\ isPrimary' = [isPrimary EXCEPT ![a] = FALSE]
    /\ UNCHANGED <<inserted, choice, found, toClear, rowLock, chosen, late>>

\* Mutant: the request goes on without a row.
FindForUserAny(c) ==
    /\ choice[c] = "idle"
    /\ \E a \in ChannelAccounts : found' = [found EXCEPT ![c] = [account |-> a, id |-> access[a]]]
    /\ choice' = [choice EXCEPT ![c] = "found"]
    /\ UNCHANGED <<access, isPrimary, inserted, toClear, rowLock, chosen, late>>

\* findForUser; without a row the request is refused.
FindForUser(c) ==
    /\ choice[c] = "idle"
    /\ \E a \in Present : found' = [found EXCEPT ![c] = [account |-> a, id |-> access[a]]]
    /\ choice' = [choice EXCEPT ![c] = "found"]
    /\ UNCHANGED <<access, isPrimary, inserted, toClear, rowLock, chosen, late>>

\* The first UPDATE takes its snapshot: the member's rows of the plugin.
ClearBegin(c) ==
    /\ choice[c] = "found"
    /\ toClear' = [toClear EXCEPT ![c] = {[account |-> a, id |-> access[a]] : a \in Present}]
    /\ choice' = [choice EXCEPT ![c] = "clearing"]
    /\ UNCHANGED <<access, isPrimary, inserted, found, rowLock, chosen, late>>

\* Mutant: rows are not locked while they are cleared.
ClearRowUnlocked(c) ==
    /\ choice[c] = "clearing"
    /\ \E r \in toClear[c] : toClear' = [toClear EXCEPT ![c] = @ \ {r}]
    /\ UNCHANGED <<access, isPrimary, inserted, choice, found, rowLock, chosen, late>>

\* It reaches a row: one deleted since is skipped, one being changed is waited for.
ClearRow(c) ==
    /\ choice[c] = "clearing"
    /\ \E r \in toClear[c] :
          /\ toClear' = [toClear EXCEPT ![c] = @ \ {r}]
          /\ IF access[r.account] = r.id
             THEN /\ rowLock[r.account] = Nobody
                  /\ rowLock' = [rowLock EXCEPT ![r.account] = c]
             ELSE UNCHANGED rowLock
    /\ UNCHANGED <<access, isPrimary, inserted, choice, found, chosen, late>>

\* Mutant: the flag is set first and the clearing UPDATE comes last.
CommitClearedLast(c) ==
    /\ choice[c] = "clearing"
    /\ toClear[c] = {}
    /\ isPrimary' = [a \in ChannelAccounts |-> rowLock[a] # c /\ isPrimary[a]]
    /\ chosen' = found[c].id
    /\ rowLock' = Unlock(c)
    /\ choice' = [choice EXCEPT ![c] = "idle"]
    /\ UNCHANGED <<access, inserted, found, toClear, late>>

\* The second UPDATE, by id, finds the row or nothing; then COMMIT.
CommitPrimary(c) ==
    /\ choice[c] = "clearing"
    /\ toClear[c] = {}
    /\ isPrimary' = [a \in ChannelAccounts |->
                        \/ a = found[c].account /\ access[a] = found[c].id
                        \/ rowLock[a] # c /\ isPrimary[a]]
    /\ chosen' = found[c].id
    /\ rowLock' = Unlock(c)
    /\ choice' = [choice EXCEPT ![c] = "idle"]
    /\ UNCHANGED <<access, inserted, found, toClear, late>>

\* An exception, or PostgreSQL breaks a deadlock of two choices: all is rolled back.
ChoiceThrows(c) ==
    /\ choice[c] # "idle"
    /\ toClear' = [toClear EXCEPT ![c] = {}]
    /\ rowLock' = Unlock(c)
    /\ choice' = [choice EXCEPT ![c] = "idle"]
    /\ UNCHANGED <<access, isPrimary, inserted, found, chosen, late>>

Next ==
    \/ \E a \in ChannelAccounts : Grant(a) \/ Revoke(a)
    \/ \E c \in Choices : \/ FindForUser(c) \/ ClearBegin(c) \/ ClearRow(c)
                          \/ CommitPrimary(c) \/ ChoiceThrows(c)

Spec == Init /\ [][Next]_accessVars

-----------------------------------------------------------------------------
TypeOK ==
    /\ access \in [ChannelAccounts -> {0} \cup AccessId]
    /\ isPrimary \in [ChannelAccounts -> BOOLEAN]
    /\ \A a \in ChannelAccounts : isPrimary[a] => a \in Present
    /\ inserted \in {0} \cup AccessId
    /\ choice \in [Choices -> {"idle", "found", "clearing"}]
    /\ found \in [Choices -> [account : ChannelAccounts, id : {0} \cup AccessId]]
    /\ toClear \in [Choices -> SUBSET [account : ChannelAccounts, id : AccessId]]
    /\ rowLock \in [ChannelAccounts -> Choices \cup {Nobody}]
    /\ chosen \in {0} \cup AccessId
    /\ late \subseteq AccessId

\* A member has two primary accounts of a plugin only if one of the accesses was
\* granted while a choice was clearing the others.
OnePrimary ==
    \A a, b \in ChannelAccounts :
        isPrimary[a] /\ isPrimary[b] /\ a # b => {access[a], access[b]} \cap late # {}

\* However choices, grants and revocations interleave, the access chosen last is
\* the primary one for as long as it exists.
LastChoiceWins == \A a \in Present : access[a] = chosen => isPrimary[a]

=============================================================================
