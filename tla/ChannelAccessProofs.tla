-------------------------- MODULE ChannelAccessProofs --------------------------
(***************************************************************************)
(* Proofs about ChannelAccess, for any accounts, choices and number of      *)
(* accesses: the types, that a second primary needs an access granted while *)
(* a choice was clearing, and that the last choice holds.                   *)
(*                                                                         *)
(* Coverage is the heart: as long as a choice clears, each access that is   *)
(* there is locked by it, still on its list, or was granted meanwhile.      *)
(***************************************************************************)
EXTENDS ChannelAccess, TLAPS

\* Ids are never used twice, and nothing knows of an id yet to come.
Ids ==
    /\ \A a \in ChannelAccounts : access[a] <= inserted
    /\ \A a, b \in ChannelAccounts : access[a] = access[b] /\ access[a] # 0 => a = b
    /\ chosen <= inserted
    /\ \A c \in Choices :
          /\ found[c].id <= inserted
          /\ \A r \in toClear[c] : r.id <= inserted
          /\ choice[c] # "idle" =>
                /\ found[c].id # 0
                /\ \A a \in ChannelAccounts : access[a] = found[c].id => a = found[c].account

\* Locked rows belong to choices that are clearing, and stay.
Locks ==
    \A a \in ChannelAccounts :
        rowLock[a] # Nobody => choice[rowLock[a]] = "clearing" /\ access[a] # 0

\* What a choice has not locked it still has to reach, or was granted meanwhile.
Coverage ==
    \A c \in Choices : choice[c] = "clearing" =>
        \A a \in Present : \/ rowLock[a] = c
                           \/ [account |-> a, id |-> access[a]] \in toClear[c]
                           \/ access[a] \in late

IInv == TypeOK /\ Ids /\ Locks /\ Coverage /\ OnePrimary /\ LastChoiceWins

\* The invariant holds initially.
LEMMA InitHolds == Init => IInv
BY AccessAssumption
   DEF Init, IInv, TypeOK, Ids, Locks, Coverage, OnePrimary, LastChoiceWins, Present, AccessId

\* A grant brings a new id, which a choice under way has not seen.
LEMMA GrantHolds ==
    ASSUME IInv, NEW a \in ChannelAccounts, Grant(a)
    PROVE  IInv'
<1> USE AccessAssumption DEF IInv, AccessId
<1>1. inserted \in Nat /\ inserted + 1 \in 1 .. MaxAccesses /\ inserted' = inserted + 1
  BY DEF Grant, TypeOK
<1>2. \A b \in ChannelAccounts : access'[b] = IF b = a THEN inserted + 1 ELSE access[b]
  BY DEF Grant, TypeOK
<1>3. ~isPrimary[a] /\ \A b \in ChannelAccounts : access[b] \in Nat
  BY DEF Grant, TypeOK, Present
<1>4. TypeOK'
  BY <1>1, <1>2 DEF Grant, TypeOK, Present
<1>5. Ids'
  BY <1>1, <1>2, <1>3 DEF Grant, TypeOK, Ids
<1>6. Locks'
  BY <1>1, <1>2 DEF Grant, TypeOK, Locks
<1>7. Coverage'
  <2> SUFFICES ASSUME NEW c \in Choices, choice[c] = "clearing", NEW b \in Present'
               PROVE  \/ rowLock[b] = c
                      \/ [account |-> b, id |-> access'[b]] \in toClear[c]
                      \/ access'[b] \in late'
    BY DEF Grant, Coverage
  <2>1. late' = late \cup {inserted + 1}
    BY DEF Grant
  <2>2. CASE b = a
    BY <1>2, <2>1, <2>2 DEF Present
  <2>3. CASE b # a
    BY <1>2, <2>1, <2>3 DEF Present, Coverage
  <2> QED
    BY <2>2, <2>3
<1>8. OnePrimary'
  BY <1>2, <1>3 DEF Grant, OnePrimary
<1>9. LastChoiceWins'
  BY <1>1, <1>2 DEF Grant, TypeOK, Ids, LastChoiceWins, Present
<1> QED
  BY <1>4, <1>5, <1>6, <1>7, <1>8, <1>9

\* A revocation only takes a row away that no choice holds.
LEMMA RevokeHolds ==
    ASSUME IInv, NEW a \in ChannelAccounts, Revoke(a)
    PROVE  IInv'
<1> USE AccessAssumption DEF IInv, AccessId
<1>1. \A b \in ChannelAccounts : /\ access'[b] = IF b = a THEN 0 ELSE access[b]
                                 /\ isPrimary'[b] = IF b = a THEN FALSE ELSE isPrimary[b]
  BY DEF Revoke, TypeOK
<1>2. TypeOK'
  BY DEF Revoke, TypeOK, Present
<1>3. Ids'
  BY <1>1 DEF Revoke, TypeOK, Ids
<1>4. Locks' /\ Coverage'
  BY <1>1 DEF Revoke, Locks, Coverage, Present
<1>5. OnePrimary'
  <2> SUFFICES ASSUME NEW x \in ChannelAccounts, NEW y \in ChannelAccounts,
                      isPrimary'[x], isPrimary'[y], x # y
               PROVE  {access'[x], access'[y]} \cap late # {}
    BY DEF Revoke, OnePrimary
  <2>1. x # a /\ y # a /\ access'[x] = access[x] /\ access'[y] = access[y]
        /\ isPrimary[x] /\ isPrimary[y]
    BY <1>1
  <2> QED
    BY <2>1 DEF OnePrimary
<1>6. LastChoiceWins'
  BY <1>1 DEF Revoke, LastChoiceWins, Present
<1> QED
  BY <1>2, <1>3, <1>4, <1>5, <1>6

\* A choice finds its row, then lists the rows to clear.
LEMMA FindHolds ==
    ASSUME IInv, NEW c \in Choices, FindForUser(c) \/ ClearBegin(c)
    PROVE  IInv'
<1> USE AccessAssumption DEF IInv, AccessId
<1>1. CASE FindForUser(c)
  <2>1. PICK a \in Present : found' = [found EXCEPT ![c] = [account |-> a, id |-> access[a]]]
    BY <1>1 DEF FindForUser
  <2>2. a \in ChannelAccounts /\ access[a] \in 1 .. MaxAccesses
    BY <2>1 DEF Present, TypeOK
  <2>3. \A d \in Choices : /\ choice'[d] = IF d = c THEN "found" ELSE choice[d]
                           /\ found'[d] = IF d = c THEN [account |-> a, id |-> access[a]] ELSE found[d]
    BY <1>1, <2>1 DEF FindForUser, TypeOK
  <2>4. TypeOK'
    BY <1>1, <2>1, <2>2 DEF FindForUser, TypeOK, Present
  <2>5. Ids'
    BY <1>1, <2>2, <2>3 DEF FindForUser, Ids
  <2>6. Locks' /\ Coverage'
    BY <1>1, <2>3 DEF FindForUser, TypeOK, Locks, Coverage, Present
  <2>7. OnePrimary' /\ LastChoiceWins'
    BY <1>1 DEF FindForUser, OnePrimary, LastChoiceWins, Present
  <2> QED
    BY <2>4, <2>5, <2>6, <2>7
<1>2. CASE ClearBegin(c)
  <2> DEFINE rows == {[account |-> a, id |-> access[a]] : a \in Present}
  <2>1. \A d \in Choices : /\ choice'[d] = IF d = c THEN "clearing" ELSE choice[d]
                           /\ toClear'[d] = IF d = c THEN rows ELSE toClear[d]
    BY <1>2 DEF ClearBegin, TypeOK
  <2>2. rows \in SUBSET [account : ChannelAccounts, id : AccessId]
    BY DEF Present, TypeOK
  <2>3. TypeOK'
    BY <1>2, <2>2 DEF ClearBegin, TypeOK, Present
  <2>4. Ids'
    BY <1>2, <2>1 DEF ClearBegin, TypeOK, Ids, Present
  <2>5. Locks'
    BY <1>2, <2>1 DEF ClearBegin, TypeOK, Locks
  <2>6. Coverage'
    BY <1>2, <2>1 DEF ClearBegin, Coverage, Present
  <2>7. OnePrimary' /\ LastChoiceWins'
    BY <1>2 DEF ClearBegin, OnePrimary, LastChoiceWins, Present
  <2> QED
    BY <2>3, <2>4, <2>5, <2>6, <2>7
<1> QED
  BY <1>1, <1>2

\* A row leaves the list locked, or was no longer there.
LEMMA ClearHolds ==
    ASSUME IInv, NEW c \in Choices, ClearRow(c)
    PROVE  IInv'
<1> USE AccessAssumption DEF IInv, AccessId
<1>1. PICK r \in toClear[c] :
         /\ toClear' = [toClear EXCEPT ![c] = @ \ {r}]
         /\ IF access[r.account] = r.id
            THEN /\ rowLock[r.account] = Nobody
                 /\ rowLock' = [rowLock EXCEPT ![r.account] = c]
            ELSE UNCHANGED rowLock
  BY DEF ClearRow
<1>2. r \in [account : ChannelAccounts, id : AccessId]
  BY DEF TypeOK
<1>3. \A d \in Choices : toClear'[d] = IF d = c THEN toClear[d] \ {r} ELSE toClear[d]
  BY <1>1 DEF TypeOK
<1>4. \A a \in ChannelAccounts :
         \/ rowLock'[a] = rowLock[a] /\ (a # r.account \/ access[a] # r.id)
         \/ rowLock[a] = Nobody /\ rowLock'[a] = c /\ a = r.account /\ access[a] = r.id
  BY <1>1, <1>2 DEF TypeOK
<1>5. TypeOK'
  BY <1>1, <1>2 DEF ClearRow, TypeOK, Present
<1>6. Ids'
  BY <1>3 DEF ClearRow, Ids
<1>7. Locks'
  BY <1>2, <1>4 DEF ClearRow, Locks
<1>8. Coverage'
  <2> SUFFICES ASSUME NEW d \in Choices, choice[d] = "clearing", NEW a \in Present
               PROVE  \/ rowLock'[a] = d
                      \/ [account |-> a, id |-> access[a]] \in toClear'[d]
                      \/ access[a] \in late
    BY DEF ClearRow, Coverage, Present
  <2>1. a \in ChannelAccounts
    BY DEF Present
  <2>2. CASE rowLock[a] = d
    BY <2>1, <2>2, <1>4
  <2>3. CASE rowLock'[a] = c /\ d = c
    BY <2>3
  <2>4. CASE rowLock[a] # d /\ ~(rowLock'[a] = c /\ d = c)
    <3>1. \/ [account |-> a, id |-> access[a]] \in toClear[d]
          \/ access[a] \in late
      BY <2>4 DEF Coverage
    <3>2. d = c => [account |-> a, id |-> access[a]] # r
      BY <2>1, <2>4, <1>4
    <3> QED
      BY <3>1, <3>2, <1>3
  <2> QED
    BY <2>2, <2>3, <2>4
<1>9. OnePrimary' /\ LastChoiceWins'
  BY DEF ClearRow, OnePrimary, LastChoiceWins, Present
<1> QED
  BY <1>5, <1>6, <1>7, <1>8, <1>9

\* The end of a choice frees its rows; the primary it sets is the only one of
\* those it could reach.
LEMMA CommitHolds ==
    ASSUME IInv, NEW c \in Choices, CommitPrimary(c)
    PROVE  IInv'
<1> USE AccessAssumption DEF IInv, AccessId
<1> DEFINE primary(a) == \/ a = found[c].account /\ access[a] = found[c].id
                         \/ rowLock[a] # c /\ isPrimary[a]
<1>1. \A a \in ChannelAccounts :
         /\ isPrimary'[a] = primary(a)
         /\ rowLock'[a] = IF rowLock[a] = c THEN Nobody ELSE rowLock[a]
  BY DEF CommitPrimary, Unlock
<1>2. \A d \in Choices : choice'[d] = IF d = c THEN "idle" ELSE choice[d]
  BY DEF CommitPrimary, TypeOK
<1>3. /\ choice[c] = "clearing" /\ toClear[c] = {} /\ chosen' = found[c].id
      /\ access' = access /\ late' = late /\ toClear' = toClear /\ found' = found
      /\ inserted' = inserted
  BY DEF CommitPrimary
<1>4. TypeOK'
  <2>1. isPrimary' \in [ChannelAccounts -> BOOLEAN] /\ rowLock' \in [ChannelAccounts -> Choices \cup {Nobody}]
    BY DEF CommitPrimary, Unlock, TypeOK
  <2>2. \A a \in ChannelAccounts : isPrimary'[a] => a \in Present
    BY <1>1, <1>3 DEF TypeOK, Ids, Present
  <2>3. choice' \in [Choices -> {"idle", "found", "clearing"}]
    BY DEF CommitPrimary, TypeOK
  <2> QED
    BY <2>1, <2>2, <2>3, <1>3 DEF TypeOK, Present
<1>5. Ids'
  BY <1>2, <1>3 DEF Ids
<1>6. Locks'
  <2> SUFFICES ASSUME NEW a \in ChannelAccounts, rowLock'[a] # Nobody
               PROVE  choice'[rowLock'[a]] = "clearing" /\ access[a] # 0
    BY <1>3 DEF Locks
  <2>1. rowLock[a] \in Choices /\ rowLock[a] # c /\ rowLock'[a] = rowLock[a]
    BY <1>1 DEF TypeOK
  <2> QED
    BY <2>1, <1>2 DEF Locks
<1>7. Coverage'
  BY <1>1, <1>2, <1>3 DEF Coverage, Present
<1>8. OnePrimary'
  <2> SUFFICES ASSUME NEW a \in ChannelAccounts, NEW b \in ChannelAccounts,
                      primary(a), primary(b), a # b
               PROVE  {access[a], access[b]} \cap late # {}
    BY <1>1, <1>3 DEF OnePrimary
  <2>1. \A d \in ChannelAccounts : rowLock[d] # c /\ isPrimary[d] => access[d] \in late
    BY <1>3 DEF Coverage, TypeOK
  <2> QED
    BY <2>1
<1>9. LastChoiceWins'
  BY <1>1, <1>3 DEF LastChoiceWins, Ids, Present
<1> QED
  BY <1>4, <1>5, <1>6, <1>7, <1>8, <1>9

\* A choice that fails leaves everything but its locks as it was.
LEMMA ThrowHolds ==
    ASSUME IInv, NEW c \in Choices, ChoiceThrows(c)
    PROVE  IInv'
<1> USE AccessAssumption DEF IInv, AccessId
<1>1. \A a \in ChannelAccounts : rowLock'[a] = IF rowLock[a] = c THEN Nobody ELSE rowLock[a]
  BY DEF ChoiceThrows, Unlock
<1>2. \A d \in Choices : /\ choice'[d] = IF d = c THEN "idle" ELSE choice[d]
                         /\ toClear'[d] = IF d = c THEN {} ELSE toClear[d]
  BY DEF ChoiceThrows, TypeOK
<1>3. TypeOK'
  BY DEF ChoiceThrows, Unlock, TypeOK, Present
<1>4. Ids'
  BY <1>2 DEF ChoiceThrows, Ids
<1>5. Locks' /\ Coverage'
  BY <1>1, <1>2 DEF ChoiceThrows, Locks, Coverage, TypeOK, Present
<1>6. OnePrimary' /\ LastChoiceWins'
  BY DEF ChoiceThrows, OnePrimary, LastChoiceWins, Present
<1> QED
  BY <1>3, <1>4, <1>5, <1>6

\* The invariant is one of the specification.
LEMMA Invariance == Spec => []IInv
<1>1. Init => IInv
  BY InitHolds
<1>2. IInv /\ [Next]_accessVars => IInv'
  <2> SUFFICES ASSUME IInv, [Next]_accessVars
               PROVE  IInv'
    OBVIOUS
  <2>1. CASE UNCHANGED accessVars
    BY <2>1 DEF accessVars, IInv, TypeOK, Ids, Locks, Coverage, OnePrimary, LastChoiceWins, Present
  <2> QED
    BY <2>1, GrantHolds, RevokeHolds, FindHolds, ClearHolds, CommitHolds, ThrowHolds DEF Next
<1> QED
  BY <1>1, <1>2, PTL DEF Spec

-----------------------------------------------------------------------------
\* The accesses of a member are well typed, and a primary one exists.
THEOREM AccessTypes == Spec => []TypeOK
<1>1. IInv => TypeOK
  BY DEF IInv
<1> QED
  BY <1>1, Invariance, PTL

\* makePrimary keeps a member to one primary account but for accesses granted
\* while it clears, whatever requests interleave.
THEOREM AccessOnePrimary == Spec => []OnePrimary
<1>1. IInv => OnePrimary
  BY DEF IInv
<1> QED
  BY <1>1, Invariance, PTL

\* The access chosen last is the primary one for as long as it exists.
THEOREM AccessLastChoice == Spec => []LastChoiceWins
<1>1. IInv => LastChoiceWins
  BY DEF IInv
<1> QED
  BY <1>1, Invariance, PTL

=============================================================================
