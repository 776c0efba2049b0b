-------------------------- MODULE ChannelTokensProofs --------------------------
(***************************************************************************)
(* Proofs about ChannelTokens, for any accounts, ticks, requests, times and *)
(* bounds: the types, that what the cache serves is recent, and that a      *)
(* token with an expiry stays valid as long as the buffer has room for the  *)
(* attempts lost.                                                           *)
(*                                                                         *)
(* The argument for the tokens counts.  A token that nothing has rewritten  *)
(* was due at every firing of the interval since its buffer began; each of  *)
(* them either has a tick still at work on it or was lost to a failure.  A  *)
(* failed exchange loses one firing, and a crash at most those of the ticks *)
(* it cuts short and the one it puts off, MaxDuration + 1 in all.  Every    *)
(* write, by whichever tick, leaves more than the buffer, so it starts the  *)
(* count again.                                                             *)
(***************************************************************************)
EXTENDS ChannelTokens, Integers, FiniteSets, FiniteSetTheorems, TLAPS

\* The assumption, one constant at a time.
LEMMA Constants ==
    /\ Lifetime \in Nat /\ Buffer \in Nat /\ MaxDuration \in Nat /\ TTL \in Nat
    /\ MaxTime \in Nat /\ MaxFailures \in Nat
    /\ Lifetime > Buffer + MaxDuration
    /\ NoAccount \notin Accounts
BY TokenAssumption

\* No account is a tick.
LEMMA Distinct == \A a \in Accounts, t \in Ticks : a # t
BY TokenAssumption

USE Constants

-----------------------------------------------------------------------------
(* Types *)

\* The steps of the ticks and of creations leave the directories alone.
TokenStep ==
    \/ \E a \in Accounts : Connect(a) \/ Create(a)
    \/ \E t \in Ticks : \/ RefreshTick(t) \/ Exchange(t) \/ ExchangeRefused(t)
                        \/ Persist(t) \/ RefreshFails(t) \/ TickEnds(t)

\* ... and those of the directories leave the tokens alone.
DirectoryStep ==
    \/ \E l \in Loads : Lookup(l) \/ Answer(l) \/ LoadFails(l) \/ Store(l)
    \/ DirectoryChanges

\* The types but for those of fired, a Boolean, and undated, which are proved apart.
DueRecords == [account : Accounts, expiresAt : Expiries]
TickRecords ==
    [start : Times, due : SUBSET DueRecords, account : Accounts \cup {NoAccount}, fresh : Expiries]
LoadRecords == [at : {"idle", "loading", "loaded"}, start : Times, until : 0 .. Current]
Ranges ==
    /\ now \in Times /\ failures \in 0 .. MaxFailures
    /\ creating \in [Accounts -> Expiries] /\ expiresAt \in [Accounts -> Expiries]
    /\ tick \in [Ticks -> TickRecords]
    /\ entry \in [until : 0 .. Current, expiresAt : 0 .. MaxTime + TTL]
    /\ load \in [Loads -> LoadRecords]

LEMMA TypeParts == TypeOK <=> Ranges /\ fired \in BOOLEAN /\ undated \subseteq Accounts \cup Ticks
BY Zenon DEF TypeOK, Ranges, DueRecords, TickRecords, LoadRecords

\* What a step makes of tick t, and of no other.
Becomes(t, start, due, account, fresh) ==
    /\ tick' \in [Ticks -> TickRecords]
    /\ tick'[t].start = start /\ tick'[t].due = due
    /\ tick'[t].account = account /\ tick'[t].fresh = fresh
    /\ \A u \in Ticks \ {t} : tick'[u] = tick[u]

\* The updates of a tick's record that the code makes.
LEMMA TickUpdates ==
    ASSUME tick \in [Ticks -> TickRecords], NEW t \in Ticks
    PROVE  /\ \A s \in Times, d \in SUBSET DueRecords :
                tick' = [tick EXCEPT ![t].start = s, ![t].due = d] =>
                  Becomes(t, s, d, tick[t].account, tick[t].fresh)
           /\ \A d \in SUBSET DueRecords :
                tick' = [tick EXCEPT ![t].due = d] =>
                  Becomes(t, tick[t].start, d, tick[t].account, tick[t].fresh)
           /\ \A d \in SUBSET DueRecords, a \in Accounts, f \in Expiries :
                tick' = [tick EXCEPT ![t].due = d, ![t].account = a, ![t].fresh = f] =>
                  Becomes(t, tick[t].start, d, a, f)
           /\ \A f \in Expiries :
                tick' = [tick EXCEPT ![t].account = NoAccount, ![t].fresh = f] =>
                  Becomes(t, tick[t].start, tick[t].due, NoAccount, f)
<1> USE DEF TickRecords, Becomes
<1>1. ASSUME NEW s \in Times, NEW d \in SUBSET DueRecords,
             tick' = [tick EXCEPT ![t].start = s, ![t].due = d]
      PROVE  Becomes(t, s, d, tick[t].account, tick[t].fresh)
  BY <1>1
<1>2. ASSUME NEW d \in SUBSET DueRecords, tick' = [tick EXCEPT ![t].due = d]
      PROVE  Becomes(t, tick[t].start, d, tick[t].account, tick[t].fresh)
  BY <1>2
<1>3. ASSUME NEW d \in SUBSET DueRecords, NEW a \in Accounts, NEW f \in Expiries,
             tick' = [tick EXCEPT ![t].due = d, ![t].account = a, ![t].fresh = f]
      PROVE  Becomes(t, tick[t].start, d, a, f)
  BY <1>3
<1>4. ASSUME NEW f \in Expiries, tick' = [tick EXCEPT ![t].account = NoAccount, ![t].fresh = f]
      PROVE  Becomes(t, tick[t].start, tick[t].due, NoAccount, f)
  BY <1>4
<1> QED
  BY <1>1, <1>2, <1>3, <1>4

\* The rows a tick that begins reads as due.
DueRows ==
    {[account |-> a, expiresAt |-> expiresAt[a]] :
        a \in {b \in Dated : expiresAt[b] <= now + Buffer}}

\* What each step of a tick makes of it.
LEMMA TickOutcomes ==
    ASSUME Ranges, NEW t \in Ticks
    PROVE  /\ RefreshTick(t) => Becomes(t, now, DueRows, NoAccount, 0)
           /\ Exchange(t) =>
                \E r \in tick[t].due :
                    Becomes(t, tick[t].start, tick[t].due \ {r}, r.account, now + Lifetime)
           /\ ExchangeRefused(t) =>
                \E r \in tick[t].due :
                    /\ r.expiresAt <= now
                    /\ Becomes(t, tick[t].start, tick[t].due \ {r}, NoAccount, tick[t].fresh)
           /\ Persist(t) => Becomes(t, tick[t].start, tick[t].due, NoAccount, 0)
           /\ RefreshFails(t) =>
                \/ tick[t].account # NoAccount /\ Becomes(t, tick[t].start, tick[t].due, NoAccount, 0)
                \/ /\ tick[t].account = NoAccount
                   /\ \E r \in tick[t].due :
                         Becomes(t, tick[t].start, tick[t].due \ {r}, NoAccount, tick[t].fresh)
           /\ TickEnds(t) => Becomes(t, 0, {}, NoAccount, 0)
<1>1. ASSUME RefreshTick(t)
      PROVE  Becomes(t, now, DueRows, NoAccount, 0)
  <2>1. DueRows \in SUBSET DueRecords
    BY DEF DueRows, DueRecords, Rows, Dated, Ranges
  <2>2. tick' = [tick EXCEPT ![t].start = now, ![t].due = DueRows]
    BY <1>1, Zenon DEF RefreshTick, Begin, DueRows
  <2>3. tick[t].account = NoAccount /\ tick[t].fresh = 0
    BY <1>1 DEF RefreshTick, Begin, NoTick
  <2> QED
    BY <2>1, <2>2, <2>3, TickUpdates DEF Ranges
<1>2. ASSUME Exchange(t)
      PROVE  \E r \in tick[t].due :
                 Becomes(t, tick[t].start, tick[t].due \ {r}, r.account, now + Lifetime)
  <2>1. PICK r \in tick[t].due :
            tick' = [tick EXCEPT ![t].due = tick[t].due \ {r}, ![t].account = r.account,
                                 ![t].fresh = now + Lifetime]
    BY <1>2, Zenon DEF Exchange
  <2>2. tick[t].due \in SUBSET DueRecords
    BY DEF Ranges, TickRecords
  <2>3. r.account \in Accounts /\ tick[t].due \ {r} \in SUBSET DueRecords
        /\ now + Lifetime \in Expiries
    BY <2>2 DEF DueRecords, Ranges, Times, Expiries
  <2> QED
    BY <2>1, <2>3, TickUpdates DEF Ranges
<1>3. ASSUME ExchangeRefused(t)
      PROVE  \E r \in tick[t].due :
                 /\ r.expiresAt <= now
                 /\ Becomes(t, tick[t].start, tick[t].due \ {r}, NoAccount, tick[t].fresh)
  <2>1. PICK r \in tick[t].due : r.expiresAt <= now /\ tick' = [tick EXCEPT ![t].due = tick[t].due \ {r}]
    BY <1>3, Zenon DEF ExchangeRefused
  <2>2. tick[t].due \ {r} \in SUBSET DueRecords /\ tick[t].account = NoAccount
    BY <1>3 DEF Ranges, TickRecords, ExchangeRefused
  <2> QED
    BY <2>1, <2>2, TickUpdates DEF Ranges
<1>4. ASSUME tick' = [tick EXCEPT ![t].account = NoAccount, ![t].fresh = 0]
      PROVE  Becomes(t, tick[t].start, tick[t].due, NoAccount, 0)
  <2>1. 0 \in Expiries
    BY DEF Expiries
  <2> QED
    BY <1>4, <2>1, TickUpdates DEF Ranges
<1>5. Persist(t) => tick' = [tick EXCEPT ![t].account = NoAccount, ![t].fresh = 0]
  BY Zenon DEF Persist
<1>6. ASSUME RefreshFails(t)
      PROVE  \/ /\ tick[t].account # NoAccount
                /\ tick' = [tick EXCEPT ![t].account = NoAccount, ![t].fresh = 0]
             \/ /\ tick[t].account = NoAccount
                /\ \E r \in tick[t].due : tick' = [tick EXCEPT ![t].due = tick[t].due \ {r}]
  BY <1>6, Zenon DEF RefreshFails
<1>7. ASSUME NEW r \in tick[t].due, tick' = [tick EXCEPT ![t].due = tick[t].due \ {r}]
      PROVE  Becomes(t, tick[t].start, tick[t].due \ {r}, tick[t].account, tick[t].fresh)
  <2>1. tick[t].due \ {r} \in SUBSET DueRecords
    BY DEF Ranges, TickRecords
  <2> QED
    BY <1>7, <2>1, TickUpdates DEF Ranges
<1>8. TickEnds(t) => Becomes(t, 0, {}, NoAccount, 0)
  BY DEF TickEnds, NoTick, Becomes, Ranges, TickRecords, Times, Expiries
<1>9. RefreshFails(t) =>
          \/ tick[t].account # NoAccount /\ Becomes(t, tick[t].start, tick[t].due, NoAccount, 0)
          \/ /\ tick[t].account = NoAccount
             /\ \E r \in tick[t].due :
                   Becomes(t, tick[t].start, tick[t].due \ {r}, NoAccount, tick[t].fresh)
  BY <1>4, <1>6, <1>7
<1> QED
  BY <1>1, <1>2, <1>3, <1>4, <1>5, <1>8, <1>9

\* What a step makes of request l, and of no other.
LoadBecomes(l, at, start, until) ==
    /\ load' \in [Loads -> LoadRecords]
    /\ load'[l].at = at /\ load'[l].start = start /\ load'[l].until = until
    /\ \A k \in Loads \ {l} : load'[k] = load[k]

\* What each step of a directory request makes of it.
LEMMA LoadOutcomes ==
    ASSUME Ranges, NEW l \in Loads
    PROVE  /\ Lookup(l) => LoadBecomes(l, "loading", now, Current)
           /\ Answer(l) => LoadBecomes(l, "loaded", load[l].start, Current)
           /\ LoadFails(l) \/ Store(l) => LoadBecomes(l, "idle", 0, Current)
<1> USE DEF Ranges, LoadRecords, LoadBecomes, Times, Current
<1>1. ASSUME load' = [load EXCEPT ![l] = [NoLoad EXCEPT !.at = "loading", !.start = now]]
      PROVE  LoadBecomes(l, "loading", now, Current)
  <2>1. NoLoad \in LoadRecords /\ NoLoad.until = Current
    BY DEF NoLoad
  <2> DEFINE n == [NoLoad EXCEPT !.at = "loading", !.start = now]
  <2>2. n \in LoadRecords /\ n.at = "loading" /\ n.start = now /\ n.until = Current
    BY <2>1
  <2>3. load' = [load EXCEPT ![l] = n]
    BY <1>1
  <2> HIDE DEF n
  <2> QED
    BY <2>2, <2>3
<1>2. ASSUME load' = [load EXCEPT ![l].at = "loaded", ![l].until = Current]
      PROVE  LoadBecomes(l, "loaded", load[l].start, Current)
  <2> DEFINE n == [load[l] EXCEPT !.at = "loaded", !.until = Current]
  <2>1. n \in LoadRecords /\ n.at = "loaded" /\ n.start = load[l].start /\ n.until = Current
    <3>1. load[l] \in LoadRecords
      OBVIOUS
    <3>2. Current \in 0 .. Current
      BY DEF Current
    <3> HIDE DEF Ranges, Current
    <3> QED
      BY <3>1, <3>2
  <2>2. load' = [load EXCEPT ![l] = n]
    BY <1>2, Zenon
  <2> HIDE DEF n
  <2> QED
    BY <2>1, <2>2
<1>3. ASSUME load' = [load EXCEPT ![l] = NoLoad]
      PROVE  LoadBecomes(l, "idle", 0, Current)
  BY <1>3 DEF NoLoad
<1> QED
  BY <1>1, <1>2, <1>3 DEF Lookup, Answer, LoadFails, Store, Remember

\* What a request that stores its answer makes of the cache's entry.
LEMMA EntryOutcome ==
    ASSUME Ranges, NEW l \in Loads, Store(l)
    PROVE  \/ entry' = NoEntry
           \/ /\ entry'.until = load[l].until
              /\ entry'.expiresAt = load[l].start + TTL /\ entry'.expiresAt > now
              /\ entry' \in [until : 0 .. Current, expiresAt : 0 .. MaxTime + TTL]
BY DEF Ranges, LoadRecords, Times, Store, Remember, Unexpired

\* A step of the tokens keeps the ranges.
LEMMA TokenRanges == ASSUME Ranges, TokenStep PROVE Ranges' /\ UNCHANGED <<now, directoryVars>>
<1> USE DEF Ranges, Times, Expiries, directoryVars
<1>1. ASSUME NEW a \in Accounts, Connect(a) \/ Create(a)
      PROVE  Ranges' /\ UNCHANGED <<now, directoryVars>>
  BY <1>1 DEF Connect, Create
<1>2. ASSUME NEW t \in Ticks, RefreshTick(t) \/ TickEnds(t)
      PROVE  Ranges' /\ UNCHANGED <<now, directoryVars>>
  <2>1. tick' \in [Ticks -> TickRecords]
    BY <1>2, TickOutcomes DEF Becomes
  <2> QED
    BY <1>2, <2>1 DEF RefreshTick, Begin, TickEnds
<1>3. ASSUME NEW t \in Ticks, Exchange(t) \/ ExchangeRefused(t) \/ RefreshFails(t)
      PROVE  Ranges' /\ UNCHANGED <<now, directoryVars>>
  <2>1. tick' \in [Ticks -> TickRecords]
    BY <1>3, TickOutcomes DEF Becomes
  <2>2. failures' \in 0 .. MaxFailures
    <3>1. \/ failures' = failures
          \/ failures < MaxFailures /\ failures' = failures + 1
      <4>1. RefreshFails(t) => Fail
        BY DEF RefreshFails
      <4>2. Exchange(t) \/ ExchangeRefused(t) => failures' = failures
        BY DEF Exchange, ExchangeRefused
      <4> QED
        BY <1>3, <4>1, <4>2 DEF Fail
    <3> QED
      BY <3>1
  <2>3. UNCHANGED <<now, creating, expiresAt, directoryVars>>
    BY <1>3, Zenon DEF Exchange, ExchangeRefused, RefreshFails
  <2> QED
    BY <2>1, <2>2, <2>3
<1>4. ASSUME NEW t \in Ticks, Persist(t)
      PROVE  Ranges' /\ UNCHANGED <<now, directoryVars>>
  <2>1. tick' \in [Ticks -> TickRecords]
    BY <1>4, TickOutcomes DEF Becomes
  <2>2. tick[t].fresh \in Expiries
    BY DEF TickRecords
  <2> QED
    BY <1>4, <2>1, <2>2 DEF Persist
<1> QED
  BY <1>1, <1>2, <1>3, <1>4 DEF TokenStep

\* A step of the directories keeps them too.
LEMMA DirectoryRanges ==
    ASSUME Ranges, DirectoryStep
    PROVE  Ranges' /\ UNCHANGED <<now, fired, failures, tokenVars>>
<1> USE DEF Ranges, Times, Current, tokenVars
<1>1. ASSUME NEW l \in Loads, Lookup(l) \/ Answer(l) \/ LoadFails(l)
      PROVE  Ranges' /\ UNCHANGED <<now, fired, failures, tokenVars>>
  <2>1. load' \in [Loads -> LoadRecords]
    BY <1>1, LoadOutcomes DEF LoadBecomes
  <2> QED
    BY <1>1, <2>1 DEF Lookup, Answer, LoadFails
<1>2. ASSUME NEW l \in Loads, Store(l)
      PROVE  Ranges' /\ UNCHANGED <<now, fired, failures, tokenVars>>
  <2>1. load' \in [Loads -> LoadRecords]
    BY <1>2, LoadOutcomes DEF LoadBecomes
  <2>2. entry' \in [until : 0 .. Current, expiresAt : 0 .. MaxTime + TTL]
    BY <1>2, EntryOutcome DEF NoEntry
  <2> QED
    BY <1>2, <2>1, <2>2 DEF Store, Remember
<1>3. CASE DirectoryChanges
  <2>1. load' \in [Loads -> LoadRecords]
    BY <1>3 DEF DirectoryChanges, LoadRecords
  <2>2. entry' \in [until : 0 .. Current, expiresAt : 0 .. MaxTime + TTL]
    BY <1>3 DEF DirectoryChanges
  <2> QED
    BY <1>3, <2>1, <2>2 DEF DirectoryChanges
<1> QED
  BY <1>1, <1>2, <1>3 DEF DirectoryStep

\* So do the passing of time and a crash.
LEMMA PassRanges == ASSUME Ranges, Pass PROVE Ranges'
BY DEF Pass, Unexpired, NoEntry, Ranges, Times, Current, tokenVars

LEMMA CrashRanges == ASSUME Ranges, Crash PROVE Ranges'
BY DEF Crash, Fail, NoEntry, NoLoad, NoTick, Ranges, TickRecords, LoadRecords, Times, Expiries,
       Current

\* The ranges hold initially.
LEMMA RangesInit == Init => Ranges
BY DEF Init, Ranges, TickRecords, LoadRecords, Times, Expiries, Current, NoTick, NoEntry, NoLoad

\* The kinds of steps, for the proofs.
LEMMA Steps ==
    ASSUME [Next]_vars
    PROVE  TokenStep \/ DirectoryStep \/ Pass \/ Crash \/ UNCHANGED vars
BY DEF Next, TokenStep, DirectoryStep

\* Whether the interval has fired is a Boolean.
LEMMA FiredIsBoolean == fired \in BOOLEAN /\ [Next]_vars => fired' \in BOOLEAN
BY Zenon DEF Next, vars, Connect, Create, RefreshTick, Begin, Exchange, ExchangeRefused, Persist,
             RefreshFails, TickEnds, Lookup, Answer, LoadFails, Store, Remember, DirectoryChanges,
             Pass, Crash

\* Only accounts and ticks have tokens without an expiry.
LEMMA UndatedType ==
    undated \subseteq Accounts \cup Ticks /\ Ranges /\ [Next]_vars => undated' \subseteq Accounts \cup Ticks
<1> SUFFICES ASSUME undated \subseteq Accounts \cup Ticks, Ranges, [Next]_vars
             PROVE  undated' \subseteq Accounts \cup Ticks
  OBVIOUS
<1>1. ASSUME NEW a \in Accounts, Connect(a) \/ Create(a)
      PROVE  undated' \subseteq Accounts \cup Ticks
  BY <1>1 DEF Connect, Create, TokenFor
<1>2. ASSUME NEW t \in Ticks, Exchange(t)
      PROVE  undated' \subseteq Accounts \cup Ticks
  <2>1. TokenFor(t)
    BY <1>2, Zenon DEF Exchange
  <2> QED
    BY <2>1 DEF TokenFor
<1>3. ASSUME NEW t \in Ticks, Persist(t)
      PROVE  undated' \subseteq Accounts \cup Ticks
  <2>1. tick[t].account \in Accounts
    BY <1>3 DEF Persist, Ranges, TickRecords
  <2>2. undated' = (undated \ {t, tick[t].account}) \cup {a \in {tick[t].account} : t \in undated}
    BY <1>3, Zenon DEF Persist
  <2> QED
    BY <2>1, <2>2
<1>4. ASSUME NEW t \in Ticks, RefreshFails(t)
      PROVE  undated' \subseteq Accounts \cup Ticks
  <2>1. undated' = undated \ {t}
    BY <1>4, Zenon DEF RefreshFails
  <2> QED
    BY <2>1
<1>5. ASSUME NEW t \in Ticks, RefreshTick(t) \/ ExchangeRefused(t) \/ TickEnds(t)
      PROVE  undated' \subseteq Accounts \cup Ticks
  BY <1>5, Zenon DEF RefreshTick, Begin, ExchangeRefused, TickEnds
<1>6. CASE DirectoryStep \/ UNCHANGED vars
  BY <1>6, DirectoryRanges DEF vars, tokenVars
<1>7. CASE Pass \/ Crash
  BY <1>7 DEF Pass, Crash, tokenVars
<1> QED
  BY <1>1, <1>2, <1>3, <1>4, <1>5, <1>6, <1>7, Steps DEF TokenStep

\* The ranges are inductive.
LEMMA NextRanges == Ranges /\ [Next]_vars => Ranges'
<1>1. ASSUME Ranges, UNCHANGED vars
      PROVE  Ranges'
  BY <1>1 DEF vars, tokenVars, directoryVars, Ranges
<1> QED
  BY <1>1, Steps, TokenRanges, DirectoryRanges, PassRanges, CrashRanges

\* Every variable stays within its type.
THEOREM TokensTypes == Spec => []TypeOK
<1>1. Init => TypeOK
  BY RangesInit, TypeParts DEF Init
<1>2. TypeOK /\ [Next]_vars => TypeOK'
  <2>1. TypeOK' <=> Ranges' /\ fired' \in BOOLEAN /\ undated' \subseteq Accounts \cup Ticks
    BY Zenon DEF TypeOK, Ranges, DueRecords, TickRecords, LoadRecords
  <2> QED
    BY <2>1, TypeParts, NextRanges, FiredIsBoolean, UndatedType, Zenon
<1> QED
  BY <1>1, <1>2, PTL DEF Spec

-----------------------------------------------------------------------------
(* The directory cache *)

\* What a load has in hand was the provider's answer at some time since it looked.
LoadsRecent ==
    \A l \in Loads :
        /\ load[l].start <= now
        /\ load[l].at = "loaded" => load[l].until >= load[l].start

\* An entry counts the TTL from a time at which it was the provider's answer.
EntryRecent ==
    entry # NoEntry =>
        /\ entry.expiresAt > now /\ entry.expiresAt <= now + TTL
        /\ entry.until + TTL >= entry.expiresAt

\* A step of the directories keeps what is said of the loads.
LEMMA LoadsKeep == ASSUME Ranges, LoadsRecent, DirectoryStep PROVE LoadsRecent'
<1> USE DEF Ranges, Times, Current
<1>1. ASSUME NEW l \in Loads, NEW at, NEW start \in Times, NEW until,
             LoadBecomes(l, at, start, until), start <= now, now' = now,
             at = "loaded" => until >= start
      PROVE  LoadsRecent'
  <2> SUFFICES ASSUME NEW k \in Loads
               PROVE  /\ load'[k].start <= now
                      /\ load'[k].at = "loaded" => load'[k].until >= load'[k].start
    BY <1>1 DEF LoadsRecent
  <2> QED
    BY <1>1 DEF LoadBecomes, LoadsRecent
<1>2. ASSUME NEW l \in Loads, Lookup(l)
      PROVE  LoadsRecent'
  <2>1. LoadBecomes(l, "loading", now, Current) /\ now' = now
    BY <1>2, LoadOutcomes DEF Lookup
  <2> QED
    BY <1>1, <2>1
<1>3. ASSUME NEW l \in Loads, Answer(l)
      PROVE  LoadsRecent'
  <2>1. load[l].start \in Times /\ load[l].start <= now /\ Current >= load[l].start
    BY DEF LoadRecords, LoadsRecent
  <2>2. LoadBecomes(l, "loaded", load[l].start, Current) /\ now' = now
    BY <1>3, LoadOutcomes DEF Answer
  <2> QED
    BY <1>1, <2>1, <2>2
<1>4. ASSUME NEW l \in Loads, LoadFails(l) \/ Store(l)
      PROVE  LoadsRecent'
  <2>1. LoadBecomes(l, "idle", 0, Current) /\ now' = now
    BY <1>4, LoadOutcomes DEF LoadFails, Store, Remember
  <2> QED
    BY <1>1, <2>1
<1>5. ASSUME DirectoryChanges, NEW l \in Loads
      PROVE  /\ load'[l].start <= now
             /\ load'[l].at = "loaded" => load'[l].until >= load'[l].start
  <2>1. /\ load'[l].start = load[l].start /\ load'[l].at = load[l].at
        /\ \/ load'[l].until = load[l].until
           \/ load'[l].until = now
    BY <1>5 DEF DirectoryChanges, LoadRecords
  <2> QED
    BY <2>1 DEF LoadsRecent
<1>6. CASE DirectoryChanges
  BY <1>5, <1>6 DEF DirectoryChanges, LoadsRecent
<1> QED
  BY <1>2, <1>3, <1>4, <1>6 DEF DirectoryStep

\* ... and what is said of the entry.
LEMMA EntryKeeps == ASSUME Ranges, LoadsRecent, EntryRecent, DirectoryStep PROVE EntryRecent'
<1> USE DEF Ranges, Times, Current, EntryRecent
<1>1. ASSUME NEW l \in Loads, Lookup(l) \/ Answer(l) \/ LoadFails(l)
      PROVE  EntryRecent'
  BY <1>1 DEF Lookup, Answer, LoadFails
<1>2. ASSUME NEW l \in Loads, Store(l)
      PROVE  EntryRecent'
  <2>1. load[l].at = "loaded" /\ now' = now
    BY <1>2 DEF Store, Remember
  <2>2. load[l].start \in Nat /\ load[l].until \in Nat
        /\ load[l].until >= load[l].start /\ load[l].start <= now
    BY <2>1 DEF LoadRecords, LoadsRecent
  <2>3. \/ entry' = NoEntry
        \/ /\ entry'.until = load[l].until
           /\ entry'.expiresAt = load[l].start + TTL /\ entry'.expiresAt > now
    BY <1>2, EntryOutcome
  <2> QED
    BY <2>1, <2>2, <2>3
<1>3. CASE DirectoryChanges
  <2>1. now' = now /\ (entry = NoEntry => entry' = NoEntry)
    BY <1>3 DEF DirectoryChanges
  <2>2. CASE entry # NoEntry
    <3>1. entry'.expiresAt = entry.expiresAt
          /\ \/ entry'.until = entry.until
             \/ entry'.until = now /\ entry.until = Current
      BY <1>3, <2>2 DEF DirectoryChanges
    <3>2. entry.expiresAt <= now + TTL
      BY <2>2
    <3> QED
      BY <2>1, <2>2, <3>1, <3>2
  <2> QED
    BY <2>1, <2>2
<1> QED
  BY <1>1, <1>2, <1>3 DEF DirectoryStep

\* What the cache still serves was the provider's answer at some time within the
\* last TTL, although a slow load may overwrite the entry of a later one.
THEOREM TokensServedIsRecent == Spec => []ServedIsRecent
<1>1. Init => LoadsRecent /\ EntryRecent
  BY DEF Init, LoadsRecent, EntryRecent, NoLoad
<1>2. Ranges /\ LoadsRecent /\ EntryRecent /\ [Next]_vars => LoadsRecent' /\ EntryRecent'
  <2> SUFFICES ASSUME Ranges, LoadsRecent, EntryRecent, [Next]_vars
               PROVE  LoadsRecent' /\ EntryRecent'
    OBVIOUS
  <2>1. CASE TokenStep \/ UNCHANGED vars
    <3>1. UNCHANGED <<now, directoryVars>>
      BY <2>1, TokenRanges DEF vars
    <3> QED
      BY <3>1 DEF directoryVars, LoadsRecent, EntryRecent
  <2>2. CASE Pass
    <3>1. now' = now + 1 /\ load' = load
      BY <2>2 DEF Pass
    <3>2. LoadsRecent'
      BY <3>1 DEF Ranges, LoadRecords, Times, LoadsRecent
    <3>3. \/ entry' = NoEntry
          \/ entry' = entry /\ entry.expiresAt > now + 1
      <4>1. entry' = Unexpired(entry, now + 1)
        BY <2>2, Zenon DEF Pass
      <4> QED
        BY <4>1, Zenon DEF Unexpired
    <3>4. EntryRecent'
      BY <3>1, <3>3 DEF Ranges, Times, Current, EntryRecent
    <3> QED
      BY <3>2, <3>4
  <2>3. CASE Crash
    BY <2>3 DEF Crash, NoLoad, Ranges, Times, LoadsRecent, EntryRecent
  <2> QED
    BY <2>1, <2>2, <2>3, Steps, LoadsKeep, EntryKeeps
<1>3. Ranges /\ EntryRecent => ServedIsRecent
  BY DEF Ranges, Times, Current, EntryRecent, ServedIsRecent
<1> QED
  BY <1>1, <1>2, <1>3, TokensTypes, TypeParts, PTL DEF Spec

-----------------------------------------------------------------------------
(* The validity of tokens *)

\* What the failures may have cost, and the condition of TokenStaysValid.
Budget == failures * (MaxDuration + 1)
Affordable == Budget + MaxDuration < Buffer

\* Tick t has yet to exchange, or to persist, the token of account a.
Pending(t, a) ==
    \/ tick[t].account = a
    \/ \E r \in tick[t].due : r.account = a
Busy(t) == tick[t].account # NoAccount \/ tick[t].due # {}

\* The last unit of time in which the interval has fired.
LastFired == IF fired THEN now ELSE now - 1

\* The firings since the buffer of account a began for which no tick works on it.
Lost(a) ==
    {s \in expiresAt[a] - Buffer .. LastFired :
        \A t \in Ticks : tick[t].start = s => ~Pending(t, a)}

\* No tick with work left outlasts MaxDuration, and the token in its hand is new.
TicksInTime ==
    \A t \in Ticks :
        /\ Busy(t) => tick[t].start <= now /\ now <= tick[t].start + MaxDuration
        /\ tick[t].account # NoAccount => tick[t].fresh >= tick[t].start + Lifetime

\* Neither does a creation.
CreationsInTime ==
    \A a \in Accounts : creating[a] # 0 => now + Lifetime <= creating[a] + MaxDuration

\* The buffer of a token begins after time 0.
RowsLate == \A a \in Rows : expiresAt[a] > Buffer

\* A row a tick has read is as it was, or was written with more than the buffer left.
ReadOrRewritten ==
    \A t \in Ticks : \A r \in tick[t].due :
        \/ expiresAt[r.account] = r.expiresAt
        \/ expiresAt[r.account] > tick[t].start + Buffer

\* No more firings were lost than the failures account for.
AttemptsLost == Affordable => \A a \in Dated : Cardinality(Lost(a)) <= Budget

TokensInTime == TicksInTime /\ CreationsInTime /\ RowsLate /\ ReadOrRewritten
TokenInv == TokensInTime /\ AttemptsLost

\* What the failures cost is a number, and a failure more costs MaxDuration + 1 more.
LEMMA BudgetGrows ==
    ASSUME NEW f \in Nat
    PROVE  /\ f * (MaxDuration + 1) \in Nat
           /\ (f + 1) * (MaxDuration + 1) = f * (MaxDuration + 1) + MaxDuration + 1
OBVIOUS

\* The firings lost are finitely many.
LEMMA LostFinite ==
    ASSUME Ranges, NEW a \in Accounts
    PROVE  IsFiniteSet(Lost(a))
<1>1. expiresAt[a] - Buffer \in Int /\ LastFired \in Int
  BY DEF Ranges, Times, Expiries, LastFired
<1>2. IsFiniteSet(expiresAt[a] - Buffer .. LastFired)
  BY <1>1, FS_Interval
<1>3. Lost(a) \subseteq expiresAt[a] - Buffer .. LastFired
  BY DEF Lost
<1> QED
  BY <1>2, <1>3, FS_Subset

\* While what was lost is within the budget, and the budget within the buffer, a
\* stored token is valid: the firings too old for a tick to be at work on them are
\* all lost.
LEMMA Valid ==
    ASSUME Ranges, TicksInTime, AttemptsLost, Affordable, NEW a \in Dated
    PROVE  expiresAt[a] > now
<1> SUFFICES ASSUME expiresAt[a] <= now
             PROVE  FALSE
  BY DEF Ranges, Times, Expiries, Rows, Dated
<1> DEFINE first == expiresAt[a] - Buffer
           last == now - MaxDuration - 1
<1>1. a \in Accounts /\ expiresAt[a] \in Nat /\ now \in Nat /\ Budget \in Nat
  BY BudgetGrows DEF Ranges, Times, Expiries, Rows, Dated, Budget
<1>2. first .. last \subseteq Lost(a)
  <2> SUFFICES ASSUME NEW s \in first .. last
               PROVE  s \in Lost(a)
    OBVIOUS
  <2>1. s \in expiresAt[a] - Buffer .. LastFired
    BY <1>1 DEF LastFired
  <2>2. ASSUME NEW t \in Ticks, tick[t].start = s, Pending(t, a)
        PROVE  FALSE
    <3>1. Busy(t)
      BY <1>1, <2>2 DEF Pending, Busy
    <3> QED
      BY <1>1, <2>2, <3>1 DEF TicksInTime
  <2> QED
    BY <2>1, <2>2 DEF Lost
<1>3. first \in Int /\ last \in Int /\ last - first + 1 = now - MaxDuration - expiresAt[a] + Buffer
  BY <1>1
<1>4. Cardinality(first .. last) = IF first > last THEN 0 ELSE last - first + 1
  BY <1>3, FS_Interval
<1>5. Cardinality(first .. last) <= Cardinality(Lost(a)) /\ Cardinality(Lost(a)) \in Nat
  BY <1>1, <1>2, LostFinite, FS_Subset, FS_CardinalityType
<1>6. Cardinality(Lost(a)) <= Budget
  BY DEF AttemptsLost
<1> HIDE DEF first, last
<1> QED
  BY <1>1, <1>3, <1>4, <1>5, <1>6 DEF Affordable

\* A step that loses at most the firings in X, and pays for them, keeps the account.
LEMMA LossesPaid ==
    ASSUME Ranges, Ranges', AttemptsLost, NEW X, IsFiniteSet(X), NEW n \in Nat,
           Cardinality(X) <= n, Budget' = Budget + n,
           Affordable' => \A a \in Dated' : \/ expiresAt'[a] > now' + Buffer
                                            \/ a \in Dated /\ Lost(a)' \subseteq Lost(a) \cup X
    PROVE  AttemptsLost'
<1> SUFFICES ASSUME Affordable', NEW a \in Dated'
             PROVE  Cardinality(Lost(a)') <= Budget'
  BY DEF AttemptsLost
<1>0. failures \in Nat /\ a \in Accounts
  BY DEF Ranges, Rows, Dated
<1>1. Budget \in Nat /\ Budget' \in Nat /\ a \in Accounts
  BY <1>0, BudgetGrows DEF Budget
<1>2. CASE expiresAt'[a] > now' + Buffer
  <2>1. now' \in Nat /\ expiresAt'[a] \in Nat
    BY <1>1 DEF Ranges, Times, Expiries
  <2>2. LastFired' <= now' /\ LastFired' \in Int
    <3>1. LastFired' = now' \/ LastFired' = now' - 1
      BY Zenon DEF LastFired
    <3> QED
      BY <2>1, <3>1
  <2>3. Lost(a)' = {}
    BY <1>2, <2>1, <2>2 DEF Lost
  <2> QED
    BY <1>1, <2>3, FS_EmptySet
<1>3. CASE a \in Dated /\ Lost(a)' \subseteq Lost(a) \cup X
  <2>1. IsFiniteSet(Lost(a)) /\ Cardinality(Lost(a)) \in Nat /\ Cardinality(X) \in Nat
    BY <1>1, LostFinite, FS_CardinalityType
  <2>2. IsFiniteSet(Lost(a) \cup X)
        /\ Cardinality(Lost(a) \cup X) <= Cardinality(Lost(a)) + Cardinality(X)
    <3>1. IsFiniteSet(Lost(a) \cap X) /\ Cardinality(Lost(a) \cap X) \in Nat
      BY <2>1, FS_Intersection, FS_CardinalityType
    <3>2. /\ IsFiniteSet(Lost(a) \cup X)
          /\ Cardinality(Lost(a) \cup X) =
               Cardinality(Lost(a)) + Cardinality(X) - Cardinality(Lost(a) \cap X)
      BY <2>1, FS_Union
    <3> HIDE DEF Lost
    <3> QED
      BY <2>1, <3>1, <3>2
  <2>3. Cardinality(Lost(a)') <= Cardinality(Lost(a) \cup X) /\ Cardinality(Lost(a)') \in Nat
        /\ Cardinality(Lost(a) \cup X) \in Nat
    BY <1>3, <2>2, FS_Subset, FS_CardinalityType
  <2>4. Cardinality(Lost(a)) <= Budget
    BY <1>1, <1>3 DEF AttemptsLost, Affordable
  <2> QED
    BY <1>1, <2>1, <2>2, <2>3, <2>4
<1> QED
  BY <1>2, <1>3

\* A step of tick t keeps what is said of ticks when what it makes of t does, and
\* what it writes leaves more than the buffer.
LEMMA TickKeeps ==
    ASSUME Ranges, TicksInTime, ReadOrRewritten, now' = now,
           NEW t \in Ticks, NEW start, NEW due, NEW account, NEW fresh,
           Becomes(t, start, due, account, fresh), start \in Times,
           due # {} \/ account # NoAccount => start <= now /\ now <= start + MaxDuration,
           account # NoAccount => fresh >= start + Lifetime,
           \A r \in due : \/ expiresAt[r.account] = r.expiresAt
                          \/ expiresAt[r.account] > start + Buffer,
           \A a \in Accounts : \/ expiresAt'[a] = expiresAt[a]
                               \/ expiresAt'[a] \in Expiries /\ expiresAt'[a] > now + Buffer
    PROVE  TicksInTime' /\ ReadOrRewritten'
<1> USE DEF Becomes
<1>1. TicksInTime'
  <2> SUFFICES ASSUME NEW u \in Ticks
               PROVE  /\ Busy(u)' => tick'[u].start <= now /\ now <= tick'[u].start + MaxDuration
                      /\ tick'[u].account # NoAccount => tick'[u].fresh >= tick'[u].start + Lifetime
    BY DEF TicksInTime
  <2>1. CASE u = t
    BY <2>1 DEF Busy
  <2>2. CASE u # t
    BY <2>2 DEF Busy, TicksInTime
  <2> QED
    BY <2>1, <2>2
<1>2. ReadOrRewritten'
  <2> SUFFICES ASSUME NEW u \in Ticks, NEW r \in tick'[u].due
               PROVE  \/ expiresAt'[r.account] = r.expiresAt
                      \/ expiresAt'[r.account] > tick'[u].start + Buffer
    BY DEF ReadOrRewritten
  <2>1. r.account \in Accounts /\ tick'[u].start \in Times
    BY DEF TickRecords, DueRecords
  <2>2. tick'[u].start <= now /\ now \in Times
    BY <1>1 DEF TicksInTime, Busy, Ranges
  <2>3. \/ expiresAt[r.account] = r.expiresAt
        \/ expiresAt[r.account] > tick'[u].start + Buffer
    BY DEF ReadOrRewritten
  <2>4. CASE expiresAt'[r.account] = expiresAt[r.account]
    BY <2>3, <2>4
  <2>5. CASE expiresAt'[r.account] \in Expiries /\ expiresAt'[r.account] > now + Buffer
    BY <2>1, <2>2, <2>5 DEF Times, Expiries
  <2> QED
    BY <2>1, <2>4, <2>5
<1> QED
  BY <1>1, <1>2

\* Work of tick t on account a is still its work, or was started at a time in X,
\* or before the buffer of a began.
KeepsWork(t, a, start, due, account, X) ==
    Pending(t, a) => \/ tick[t].start \in X
                     \/ tick[t].start < expiresAt[a] - Buffer
                     \/ /\ start = tick[t].start
                        /\ account = a \/ \E r \in due : r.account = a

\* Such a step loses no firing of an account it leaves pending, or not yet due.
LEMMA TickLoses ==
    ASSUME Ranges, UNCHANGED <<now, fired>>,
           NEW t \in Ticks, NEW start, NEW due, NEW account, NEW fresh,
           Becomes(t, start, due, account, fresh),
           NEW X, NEW a \in Accounts, expiresAt'[a] = expiresAt[a],
           KeepsWork(t, a, start, due, account, X)
    PROVE  Lost(a)' \subseteq Lost(a) \cup X
<1> SUFFICES ASSUME NEW s \in Lost(a)', s \notin X
             PROVE  s \in Lost(a)
  OBVIOUS
<1>1. LastFired' = LastFired
  BY DEF LastFired
<1>2. s \in expiresAt[a] - Buffer .. LastFired
  BY <1>1 DEF Lost
<1>3. ASSUME NEW u \in Ticks, tick[u].start = s, Pending(u, a)
      PROVE  FALSE
  <2>1. tick'[u].start = s => ~Pending(u, a)'
    BY DEF Lost
  <2>2. CASE u # t
    BY <1>3, <2>1, <2>2 DEF Pending, Becomes
  <2>3. CASE u = t
    <3>1. ~(s < expiresAt[a] - Buffer)
      BY <1>2 DEF Ranges, Times, Expiries
    <3> QED
      BY <1>3, <2>1, <2>3, <3>1 DEF Pending, Becomes, KeepsWork
  <2> QED
    BY <2>2, <2>3
<1> QED
  BY <1>2, <1>3 DEF Lost

\* Every write of a token leaves more than the buffer.
LEMMA Writes ==
    ASSUME Ranges, TokensInTime
    PROVE  /\ \A a \in Accounts : creating[a] # 0 => creating[a] > now + Buffer
           /\ \A t \in Ticks : tick[t].account # NoAccount => tick[t].fresh > now + Buffer
<1> USE DEF Ranges, Times, Expiries
<1>1. ASSUME NEW a \in Accounts, creating[a] # 0
      PROVE  creating[a] > now + Buffer
  BY <1>1 DEF TokensInTime, CreationsInTime
<1>2. ASSUME NEW t \in Ticks, tick[t].account # NoAccount
      PROVE  tick[t].fresh > now + Buffer
  <2>1. tick[t].start \in Nat /\ tick[t].fresh \in Nat
    BY DEF TickRecords
  <2> QED
    BY <1>2, <2>1 DEF TokensInTime, TicksInTime, Busy
<1> QED
  BY <1>1, <1>2

\* A step that costs nothing.
LEMMA NothingLost ==
    ASSUME Ranges, Ranges', AttemptsLost, failures' = failures,
           Affordable => \A a \in Dated' : \/ expiresAt'[a] > now' + Buffer
                                           \/ a \in Dated /\ Lost(a)' \subseteq Lost(a)
    PROVE  AttemptsLost'
<1>1. Budget' = Budget /\ Budget \in Nat /\ (Affordable' => Affordable)
  BY BudgetGrows DEF Budget, Affordable, Ranges
<1>2. IsFiniteSet({}) /\ Cardinality({}) = 0
  BY FS_EmptySet
<1>3. Affordable' => \A a \in Dated' : \/ expiresAt'[a] > now' + Buffer
                                       \/ a \in Dated /\ Lost(a)' \subseteq Lost(a) \cup {}
  BY <1>1
<1> QED
  BY <1>1, <1>2, <1>3, LossesPaid

\* The steps of a creation.
LEMMA CreationHolds ==
    ASSUME Ranges, Ranges', TokenInv, NEW a \in Accounts, Connect(a) \/ Create(a)
    PROVE  TokenInv'
<1> USE DEF TokenInv, TokensInTime
<1>1. UNCHANGED <<now, fired, failures, tick>>
  BY DEF Connect, Create
<1>2. TicksInTime'
  BY <1>1 DEF TicksInTime, Busy
<1>3. CreationsInTime'
  BY <1>1 DEF Connect, Create, CreationsInTime, Ranges, Times, Expiries
<1>4. \A b \in Accounts : \/ expiresAt'[b] = expiresAt[b]
                          \/ expiresAt'[b] \in Expiries /\ expiresAt'[b] > now + Buffer
  <2>1. CASE Connect(a)
    BY <2>1 DEF Connect
  <2>2. CASE Create(a)
    BY <2>2, Writes DEF Create, Ranges
  <2> QED
    BY <2>1, <2>2
<1>5. RowsLate'
  BY <1>4 DEF RowsLate, Rows, Ranges, Times, Expiries
<1>6. ReadOrRewritten'
  <2> SUFFICES ASSUME NEW t \in Ticks, NEW r \in tick[t].due
               PROVE  \/ expiresAt'[r.account] = r.expiresAt
                      \/ expiresAt'[r.account] > tick[t].start + Buffer
    BY <1>1 DEF ReadOrRewritten
  <2>1. r.account \in Accounts /\ tick[t].start \in Times /\ tick[t].start <= now /\ now \in Times
    BY DEF Ranges, TickRecords, DueRecords, TicksInTime, Busy
  <2> QED
    BY <1>4, <2>1 DEF ReadOrRewritten, Times, Expiries
<1>7. ASSUME NEW b \in Dated'
      PROVE  expiresAt'[b] > now' + Buffer \/ (b \in Dated /\ Lost(b)' \subseteq Lost(b))
  <2>1. CASE expiresAt'[b] = expiresAt[b]
    <3>1. Lost(b)' = Lost(b)
      BY <1>1, <2>1 DEF Lost, Pending, LastFired
    <3>2. CASE b = a
      BY <2>1, <3>2, <1>4, Writes DEF Connect, Create, Rows, Dated, Ranges
    <3>3. CASE b # a
      BY <2>1, <3>1, <3>3 DEF Connect, Create, TokenFor, Rows, Dated
    <3> QED
      BY <3>2, <3>3
  <2>2. CASE expiresAt'[b] # expiresAt[b]
    BY <1>1, <1>4, <2>2 DEF Rows, Dated
  <2> QED
    BY <2>1, <2>2
<1>8. AttemptsLost'
  BY <1>1, <1>7, NothingLost
<1> QED
  BY <1>2, <1>3, <1>5, <1>6, <1>8

\* A tick begins: what is due is in its hands.
LEMMA RefreshTickHolds ==
    ASSUME Ranges, Ranges', TokenInv, NEW t \in Ticks, RefreshTick(t)
    PROVE  TokenInv'
<1> USE DEF TokenInv, TokensInTime
<1>1. UNCHANGED <<now, failures, creating, expiresAt, undated>> /\ ~fired /\ fired'
  BY Zenon DEF RefreshTick, Begin
<1>2. Becomes(t, now, DueRows, NoAccount, 0) /\ now \in Times
  BY TickOutcomes DEF Ranges
<1>3. \A r \in DueRows : expiresAt[r.account] = r.expiresAt
  BY DEF DueRows
<1>4. TicksInTime' /\ ReadOrRewritten'
  BY <1>1, <1>2, <1>3, TickKeeps DEF Times
<1>5. CreationsInTime' /\ RowsLate'
  BY <1>1 DEF CreationsInTime, RowsLate, Rows
<1>6. ASSUME NEW a \in Dated
      PROVE  Lost(a)' \subseteq Lost(a)
  <2> SUFFICES ASSUME NEW s \in Lost(a)'
               PROVE  s \in Lost(a)
    OBVIOUS
  <2>1. LastFired = now - 1 /\ LastFired' = now
    BY <1>1 DEF LastFired
  <2>2. a \in Accounts /\ now \in Nat /\ expiresAt[a] \in Nat
    BY DEF Rows, Dated, Ranges, Times, Expiries
  <2>3. s \in expiresAt[a] - Buffer .. now
        /\ \A u \in Ticks : tick'[u].start = s => ~Pending(u, a)'
    BY <1>1, <2>1 DEF Lost
  <2>4. s # now
    <3> SUFFICES ASSUME s = now
                 PROVE  FALSE
      OBVIOUS
    <3>1. expiresAt[a] <= now + Buffer
      BY <2>2, <2>3
    <3>2. [account |-> a, expiresAt |-> expiresAt[a]] \in DueRows
      BY <2>2, <3>1 DEF DueRows
    <3>3. \E r \in DueRows : r.account = a
      BY <3>2
    <3> QED
      BY <1>2, <2>3, <3>3 DEF Becomes, Pending
  <2>5. s \in expiresAt[a] - Buffer .. LastFired
    BY <2>1, <2>2, <2>3, <2>4
  <2>6. ASSUME NEW u \in Ticks, tick[u].start = s, Pending(u, a)
        PROVE  FALSE
    <3>1. u # t
      BY <2>2, <2>6 DEF RefreshTick, Begin, NoTick, Pending
    <3> QED
      BY <1>2, <2>3, <2>6, <3>1 DEF Becomes, Pending
  <2> QED
    BY <2>5, <2>6 DEF Lost
<1>7. AttemptsLost'
  BY <1>1, <1>6, NothingLost DEF Rows, Dated
<1> QED
  BY <1>4, <1>5, <1>7

\* An exchange keeps the account pending, in hand.
LEMMA ExchangeHolds ==
    ASSUME Ranges, Ranges', TokenInv, NEW t \in Ticks, Exchange(t)
    PROVE  TokenInv'
<1> USE DEF TokenInv, TokensInTime
<1>1. UNCHANGED <<now, fired, failures, creating, expiresAt>> /\ tick[t].account = NoAccount
  BY Zenon DEF Exchange
<1>2. PICK r \in tick[t].due :
          Becomes(t, tick[t].start, tick[t].due \ {r}, r.account, now + Lifetime)
  BY TickOutcomes
<1>3. tick[t].start \in Times /\ tick[t].start <= now /\ now <= tick[t].start + MaxDuration
  BY <1>2 DEF Ranges, TickRecords, TicksInTime, Busy
<1>4. now + Lifetime >= tick[t].start + Lifetime
  BY <1>3 DEF Times, Ranges
<1>5. \A q \in tick[t].due \ {r} : \/ expiresAt[q.account] = q.expiresAt
                                   \/ expiresAt[q.account] > tick[t].start + Buffer
  BY DEF ReadOrRewritten
<1>6. TicksInTime' /\ ReadOrRewritten'
  BY <1>1, <1>2, <1>3, <1>4, <1>5, TickKeeps
<1>7. CreationsInTime' /\ RowsLate'
  BY <1>1 DEF CreationsInTime, RowsLate, Rows
<1>8. ASSUME NEW a \in Dated
      PROVE  Lost(a)' \subseteq Lost(a)
  <2>1. a \in Accounts
    BY DEF Rows, Dated
  <2>2. Pending(t, a) => r.account = a \/ \E q \in tick[t].due \ {r} : q.account = a
    BY <1>1, <2>1 DEF Pending
  <2>3. UNCHANGED <<now, fired>> /\ expiresAt'[a] = expiresAt[a]
    BY <1>1
  <2>4. KeepsWork(t, a, tick[t].start, tick[t].due \ {r}, r.account, {})
    BY <2>2 DEF KeepsWork
  <2> DEFINE due == tick[t].due \ {r}
             held == r.account
             fresh == now + Lifetime
             none == {}
  <2>5. /\ Becomes(t, tick[t].start, due, held, fresh)
        /\ KeepsWork(t, a, tick[t].start, due, held, none)
    BY <1>2, <2>4
  <2> HIDE DEF due, held, fresh, none
  <2>6. Lost(a)' \subseteq Lost(a) \cup none
    BY <2>1, <2>3, <2>5, TickLoses
  <2> QED
    BY <2>6 DEF none
<1>9. Dated' = Dated
  <2>1. TokenFor(t)
    BY Zenon DEF Exchange
  <2> QED
    BY <1>1, <2>1, Distinct DEF TokenFor, Rows, Dated
<1>10. AttemptsLost'
  BY <1>1, <1>8, <1>9, NothingLost
<1> QED
  BY <1>6, <1>7, <1>10

\* The provider refuses an expired token, so the row has been rewritten since it
\* was read: it is not due yet at the start of this tick.
LEMMA ExchangeRefusedHolds ==
    ASSUME Ranges, Ranges', TokenInv, NEW t \in Ticks, ExchangeRefused(t)
    PROVE  TokenInv'
<1> USE DEF TokenInv, TokensInTime
<1>1. UNCHANGED <<now, fired, failures, creating, expiresAt, undated>> /\ tick[t].account = NoAccount
  BY Zenon DEF ExchangeRefused
<1>2. PICK r \in tick[t].due :
          r.expiresAt <= now /\ Becomes(t, tick[t].start, tick[t].due \ {r}, NoAccount, tick[t].fresh)
  BY TickOutcomes
<1>3. tick[t].start \in Times /\ tick[t].start <= now /\ now <= tick[t].start + MaxDuration
  BY <1>2 DEF Ranges, TickRecords, TicksInTime, Busy
<1>4. \A q \in tick[t].due \ {r} : \/ expiresAt[q.account] = q.expiresAt
                                   \/ expiresAt[q.account] > tick[t].start + Buffer
  BY DEF ReadOrRewritten
<1>5. TicksInTime' /\ ReadOrRewritten'
  BY <1>1, <1>2, <1>3, <1>4, TickKeeps
<1>6. CreationsInTime' /\ RowsLate'
  BY <1>1 DEF CreationsInTime, RowsLate, Rows
<1>7. ASSUME Affordable, NEW a \in Dated
      PROVE  Lost(a)' \subseteq Lost(a)
  <2>1. a \in Accounts /\ expiresAt[a] > now /\ expiresAt[a] \in Nat /\ now \in Nat
    BY <1>7, Valid DEF Rows, Dated, Ranges, Times, Expiries
  <2>2. r.account = a => tick[t].start < expiresAt[a] - Buffer
    BY <1>2, <1>3, <2>1 DEF ReadOrRewritten, Times
  <2>3. Pending(t, a) => \/ tick[t].start < expiresAt[a] - Buffer
                         \/ \E q \in tick[t].due \ {r} : q.account = a
    BY <1>1, <2>1, <2>2 DEF Pending
  <2>4. KeepsWork(t, a, tick[t].start, tick[t].due \ {r}, NoAccount, {})
    BY <2>3 DEF KeepsWork
  <2>5. UNCHANGED <<now, fired>> /\ expiresAt'[a] = expiresAt[a]
    BY <1>1
  <2>6. Lost(a)' \subseteq Lost(a) \cup {}
    BY <1>2, <2>1, <2>4, <2>5, TickLoses
  <2> QED
    BY <2>6
<1>8. AttemptsLost'
  BY <1>1, <1>7, NothingLost DEF Rows, Dated
<1> QED
  BY <1>5, <1>6, <1>8

\* The new token is written: its account counts anew, the others as before.
LEMMA PersistHolds ==
    ASSUME Ranges, Ranges', TokenInv, NEW t \in Ticks, Persist(t)
    PROVE  TokenInv'
<1> USE DEF TokenInv, TokensInTime
<1>1. UNCHANGED <<now, fired, failures, creating>> /\ tick[t].account # NoAccount
      /\ expiresAt' = [expiresAt EXCEPT ![tick[t].account] = tick[t].fresh]
  BY Zenon DEF Persist
<1>2. Becomes(t, tick[t].start, tick[t].due, NoAccount, 0)
  BY TickOutcomes
<1>3. tick[t].start \in Times /\ tick[t].start <= now /\ now <= tick[t].start + MaxDuration
  BY <1>1 DEF Ranges, TickRecords, TicksInTime, Busy
<1>4. tick[t].fresh > now + Buffer /\ tick[t].fresh \in Expiries
  BY <1>1, Writes DEF Ranges, TickRecords
<1>5. \A a \in Accounts : \/ a # tick[t].account /\ expiresAt'[a] = expiresAt[a]
                          \/ expiresAt'[a] \in Expiries /\ expiresAt'[a] > now + Buffer
  BY <1>1, <1>4 DEF Ranges
<1>6. \A q \in tick[t].due : \/ expiresAt[q.account] = q.expiresAt
                             \/ expiresAt[q.account] > tick[t].start + Buffer
  BY DEF ReadOrRewritten
<1>7. TicksInTime' /\ ReadOrRewritten'
  BY <1>1, <1>2, <1>3, <1>5, <1>6, TickKeeps
<1>8. CreationsInTime' /\ RowsLate'
  BY <1>1, <1>5 DEF CreationsInTime, RowsLate, Rows, Ranges, Times, Expiries
<1>9. ASSUME NEW a \in Dated'
      PROVE  \/ expiresAt'[a] > now' + Buffer
             \/ a \in Dated /\ Lost(a)' \subseteq Lost(a)
  <2> SUFFICES ASSUME a # tick[t].account, expiresAt'[a] = expiresAt[a]
               PROVE  a \in Dated /\ Lost(a)' \subseteq Lost(a)
    BY <1>1, <1>5 DEF Rows, Dated
  <2>1. a \in Accounts /\ a \in Dated
    <3>1. a \in Rows' /\ a \notin undated' /\ a # t
      BY Distinct DEF Rows, Dated
    <3>2. undated' = (undated \ {t, tick[t].account}) \cup {b \in {tick[t].account} : t \in undated}
      BY Zenon DEF Persist
    <3> QED
      BY <3>1, <3>2 DEF Rows, Dated
  <2>2. KeepsWork(t, a, tick[t].start, tick[t].due, NoAccount, {})
    BY DEF Pending, KeepsWork
  <2>3. UNCHANGED <<now, fired>> /\ expiresAt'[a] = expiresAt[a]
    BY <1>1
  <2>4. Lost(a)' \subseteq Lost(a) \cup {}
    BY <1>2, <2>1, <2>2, <2>3, TickLoses
  <2> QED
    BY <2>1, <2>4
<1>10. AttemptsLost'
  BY <1>1, <1>9, NothingLost
<1> QED
  BY <1>7, <1>8, <1>10

\* A failed exchange or update loses one firing, that of its tick.
LEMMA RefreshFailsHolds ==
    ASSUME Ranges, Ranges', TokenInv, NEW t \in Ticks, RefreshFails(t)
    PROVE  TokenInv'
<1> USE DEF TokenInv, TokensInTime
<1>1. UNCHANGED <<now, fired, creating, expiresAt>> /\ failures' = failures + 1
  BY Zenon DEF RefreshFails, Fail
<1>2. PICK due \in SUBSET tick[t].due, fresh \in Expiries :
          /\ Becomes(t, tick[t].start, due, NoAccount, fresh)
          /\ Busy(t)
  <2>1. tick[t].fresh \in Expiries /\ 0 \in Expiries
    BY DEF Ranges, TickRecords, Expiries
  <2> QED
    BY <2>1, TickOutcomes DEF Busy
<1>3. tick[t].start \in Times /\ tick[t].start <= now /\ now <= tick[t].start + MaxDuration
  BY <1>2 DEF Ranges, TickRecords, TicksInTime
<1>4. \A q \in due : \/ expiresAt[q.account] = q.expiresAt
                     \/ expiresAt[q.account] > tick[t].start + Buffer
  BY DEF ReadOrRewritten
<1>5. TicksInTime' /\ ReadOrRewritten'
  BY <1>1, <1>2, <1>3, <1>4, TickKeeps
<1>6. CreationsInTime' /\ RowsLate'
  BY <1>1 DEF CreationsInTime, RowsLate, Rows
<1>7. ASSUME NEW a \in Dated'
      PROVE  a \in Dated /\ Lost(a)' \subseteq Lost(a) \cup {tick[t].start}
  <2>1. a \in Accounts /\ a \in Dated
    <3>1. undated' = undated \ {t}
      BY Zenon DEF RefreshFails
    <3> QED
      BY <1>1, <3>1, Distinct DEF Rows, Dated
  <2>2. UNCHANGED <<now, fired>> /\ expiresAt'[a] = expiresAt[a]
    BY <1>1
  <2>3. KeepsWork(t, a, tick[t].start, due, NoAccount, {tick[t].start})
    BY DEF KeepsWork
  <2>4. Lost(a)' \subseteq Lost(a) \cup {tick[t].start}
    BY <1>2, <2>1, <2>2, <2>3, TickLoses
  <2> QED
    BY <2>1, <2>4
<1>8. IsFiniteSet({tick[t].start}) /\ Cardinality({tick[t].start}) <= MaxDuration + 1
  <2>1. IsFiniteSet({tick[t].start}) /\ Cardinality({tick[t].start}) = 1
    BY FS_Singleton
  <2> QED
    BY <2>1
<1>9. Budget' = Budget + (MaxDuration + 1) /\ MaxDuration + 1 \in Nat
  BY <1>1, BudgetGrows DEF Budget, Ranges
<1>10. AttemptsLost'
  BY <1>7, <1>8, <1>9, LossesPaid
<1> QED
  BY <1>5, <1>6, <1>10

\* A tick ends with nothing left to do.
LEMMA TickEndsHolds ==
    ASSUME Ranges, Ranges', TokenInv, NEW t \in Ticks, TickEnds(t)
    PROVE  TokenInv'
<1> USE DEF TokenInv, TokensInTime
<1>1. UNCHANGED <<now, fired, failures, creating, expiresAt, undated>>
      /\ tick[t].account = NoAccount /\ tick[t].due = {}
  BY Zenon DEF TickEnds
<1>2. Becomes(t, 0, {}, NoAccount, 0) /\ 0 \in Times
  BY TickOutcomes DEF Times
<1>3. TicksInTime' /\ ReadOrRewritten'
  BY <1>1, <1>2, TickKeeps
<1>4. CreationsInTime' /\ RowsLate'
  BY <1>1 DEF CreationsInTime, RowsLate, Rows
<1>5. ASSUME NEW a \in Dated
      PROVE  Lost(a)' \subseteq Lost(a)
  <2>1. a \in Accounts /\ ~Pending(t, a)
    BY <1>1 DEF Rows, Dated, Pending
  <2>2. KeepsWork(t, a, 0, {}, NoAccount, {}) /\ UNCHANGED <<now, fired>>
        /\ expiresAt'[a] = expiresAt[a]
    BY <1>1, <2>1 DEF KeepsWork
  <2>3. Lost(a)' \subseteq Lost(a) \cup {}
    BY <1>2, <2>1, <2>2, TickLoses
  <2> QED
    BY <2>3
<1>6. AttemptsLost'
  BY <1>1, <1>5, NothingLost DEF Rows, Dated
<1> QED
  BY <1>3, <1>4, <1>6

\* Time passes only when the interval has fired and nothing is overdue.
LEMMA PassHolds == ASSUME Ranges, Ranges', TokenInv, Pass PROVE TokenInv'
<1> USE DEF TokenInv, TokensInTime
<1>1. now' = now + 1 /\ fired /\ ~fired' /\ UNCHANGED <<failures, creating, expiresAt, undated, tick>>
  BY Zenon DEF Pass, tokenVars
<1>2. now \in Nat /\ LastFired' = now /\ LastFired = now
  BY <1>1 DEF LastFired, Ranges, Times
<1>3. TicksInTime'
  <2>1. \A t \in Ticks : Busy(t) => now < tick[t].start + MaxDuration
    BY DEF Pass, Busy, NoTick
  <2>2. \A t \in Ticks : tick[t].start \in Nat
    BY DEF Ranges, TickRecords, Times
  <2> QED
    BY <1>1, <1>2, <2>1, <2>2 DEF TicksInTime, Busy
<1>4. CreationsInTime'
  BY <1>1, <1>2 DEF Pass, CreationsInTime, Ranges, Expiries
<1>5. RowsLate' /\ ReadOrRewritten'
  BY <1>1 DEF RowsLate, Rows, ReadOrRewritten
<1>6. \A a \in Dated' : a \in Dated /\ Lost(a)' = Lost(a)
  BY <1>1, <1>2 DEF Rows, Dated, Lost, Pending
<1>7. AttemptsLost'
  BY <1>1, <1>6, NothingLost
<1> QED
  BY <1>3, <1>4, <1>5, <1>7

\* A crash loses at most the firings of the last MaxDuration + 1 units of time.
LEMMA CrashHolds == ASSUME Ranges, Ranges', TokenInv, Crash PROVE TokenInv'
<1> USE DEF TokenInv, TokensInTime
<1>1. now' = now /\ fired' /\ failures' = failures + 1 /\ expiresAt' = expiresAt
      /\ creating' = [a \in Accounts |-> 0] /\ tick' = [t \in Ticks |-> NoTick]
      /\ undated' = undated \cap Rows
  BY Zenon DEF Crash, Fail
<1>2. TicksInTime' /\ ReadOrRewritten' /\ CreationsInTime'
  BY <1>1 DEF TicksInTime, ReadOrRewritten, CreationsInTime, Busy, NoTick
<1>3. RowsLate'
  BY <1>1 DEF RowsLate, Rows
<1>4. now \in Nat /\ now - MaxDuration \in Int
  BY DEF Ranges, Times
<1> DEFINE X == now - MaxDuration .. now
<1>5. ASSUME NEW a \in Dated'
      PROVE  a \in Dated /\ Lost(a)' \subseteq Lost(a) \cup X
  <2>1. a \in Accounts /\ a \in Dated
    BY <1>1 DEF Rows, Dated
  <2> SUFFICES ASSUME NEW s \in Lost(a)', s \notin X
               PROVE  s \in Lost(a)
    BY <2>1
  <2>2. expiresAt[a] \in Nat
    BY <2>1 DEF Ranges, Times, Expiries
  <2>3. LastFired' = now
    BY <1>1 DEF LastFired
  <2>4. s \in expiresAt[a] - Buffer .. now
    BY <1>1, <2>3 DEF Lost
  <2>5. s < now - MaxDuration
    BY <1>4, <2>2, <2>4
  <2>6. s \in expiresAt[a] - Buffer .. LastFired
    BY <1>4, <2>2, <2>4, <2>5 DEF LastFired
  <2>7. ASSUME NEW t \in Ticks, tick[t].start = s, Pending(t, a)
        PROVE  FALSE
    <3>1. Busy(t)
      BY <2>1, <2>7 DEF Pending, Busy
    <3> QED
      BY <1>4, <2>2, <2>4, <2>5, <2>7, <3>1 DEF TicksInTime
  <2> QED
    BY <2>6, <2>7 DEF Lost
<1>6. IsFiniteSet(X) /\ Cardinality(X) <= MaxDuration + 1
  BY <1>4, FS_Interval
<1>7. Budget' = Budget + (MaxDuration + 1) /\ MaxDuration + 1 \in Nat
  BY <1>1, BudgetGrows DEF Budget, Ranges
<1> HIDE DEF X
<1>8. AttemptsLost'
  BY <1>5, <1>6, <1>7, LossesPaid
<1> QED
  BY <1>2, <1>3, <1>8

\* Retries keep a token alive: while what is left of the buffer after the attempts
\* the failures cost has room for one more tick, the only stored tokens that have
\* expired are those handed out without an expiry, in whatever order overlapping
\* ticks write.
THEOREM TokensStayValid == Spec => []TokenStaysValid
<1>1. Init => TokenInv
  <2> SUFFICES ASSUME Init
               PROVE  TokenInv
    OBVIOUS
  <2>1. Rows = {} /\ Dated = {}
    BY DEF Init, Rows, Dated
  <2> QED
    BY <2>1 DEF Init, TokenInv, TokensInTime, TicksInTime, CreationsInTime, RowsLate,
                ReadOrRewritten, AttemptsLost, Busy, NoTick
<1>2. Ranges /\ Ranges' /\ TokenInv /\ [Next]_vars => TokenInv'
  <2> SUFFICES ASSUME Ranges, Ranges', TokenInv, [Next]_vars
               PROVE  TokenInv'
    OBVIOUS
  <2>1. ASSUME UNCHANGED <<now, fired, failures, tokenVars>>
        PROVE  TokenInv'
    BY <2>1 DEF tokenVars, TokenInv, TokensInTime, TicksInTime, CreationsInTime, RowsLate,
                ReadOrRewritten, AttemptsLost, Affordable, Budget, Lost, LastFired, Rows, Dated, Busy, Pending
  <2>2. CASE TokenStep
    BY <2>2, CreationHolds, RefreshTickHolds, ExchangeHolds, ExchangeRefusedHolds, PersistHolds,
       RefreshFailsHolds, TickEndsHolds DEF TokenStep
  <2>3. CASE DirectoryStep \/ UNCHANGED vars
    BY <2>1, <2>3, DirectoryRanges DEF vars
  <2> QED
    BY <2>2, <2>3, Steps, PassHolds, CrashHolds
<1>3. Ranges /\ TokenInv => TokenStaysValid
  <2> SUFFICES ASSUME Ranges, TokenInv, NEW a \in Rows, expiresAt[a] <= now, a \notin undated,
                      ~(failures * (MaxDuration + 1) + MaxDuration >= Buffer)
               PROVE  FALSE
    BY DEF TokenStaysValid
  <2>1. a \in Dated /\ expiresAt[a] \in Nat /\ now \in Nat /\ Budget \in Nat
    BY BudgetGrows DEF Rows, Dated, Ranges, Times, Expiries, Budget
  <2>2. Affordable
    BY <2>1 DEF Affordable, Budget
  <2>3. expiresAt[a] > now
    BY <2>1, <2>2, Valid DEF TokenInv, TokensInTime
  <2> QED
    BY <2>1, <2>3
<1> QED
  BY <1>1, <1>2, <1>3, TokensTypes, TypeParts, PTL DEF Spec

=============================================================================
