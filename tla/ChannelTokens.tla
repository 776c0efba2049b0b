----------------------------- MODULE ChannelTokens -----------------------------
(***************************************************************************)
(* The tokens of channel accounts: OAuthRefreshService swaps those about to *)
(* expire, in ticks that may overlap and be cut short, and directories are  *)
(* read with the stored token and remembered for a while.  Time is counted  *)
(* in intervals of the refresh service.                                     *)
(***************************************************************************)
EXTENDS Naturals

CONSTANTS
    Accounts,
    Ticks,                \* refresh ticks that may overlap
    Loads,                \* directory requests that may overlap
    Lifetime,             \* of a token
    Buffer,               \* a token is due when it has this much left
    MaxDuration,          \* how long a tick or a creation may take
    TTL,                  \* how long a directory result is remembered
    MaxTime, MaxFailures,   \* bounds of the model
    NoAccount

ASSUME TokenAssumption ==
    /\ {Lifetime, Buffer, MaxDuration, TTL, MaxTime, MaxFailures} \subseteq Nat
    /\ Lifetime > Buffer + MaxDuration
    /\ NoAccount \notin Accounts /\ Accounts \cap Ticks = {}

VARIABLES
    now,
    fired,            \* the interval has fired in this unit of time
    failures,         \* calls that threw, and crashes
    creating,         \* expiry of the token of an account whose row is yet to be written
    expiresAt,        \* when the token of each row expires, 0 when there is no row
    undated,          \* accounts, and ticks, whose token came without expires_in
    tick,             \* each tick: its start, the due accounts left as read, the token in hand
    entry,            \* the directory cache: when its entry expires, and until when
                      \* what it says was the provider's answer
    load              \* each directory request: when it looked, and the same of its answer

tokenVars == <<creating, expiresAt, undated, tick>>
directoryVars == <<entry, load>>
vars == <<now, fired, failures, tokenVars, directoryVars>>

Times == 0 .. MaxTime
Expiries == 0 .. MaxTime + Lifetime
Current == MaxTime + 1   \* still the provider's answer
Rows == {a \in Accounts : expiresAt[a] # 0}
\* Rows with an accessTokenExpiresAt: the others are never due.
Dated == Rows \ undated
NoTick == [start |-> 0, due |-> {}, account |-> NoAccount, fresh |-> 0]
NoLoad == [at |-> "idle", start |-> 0, until |-> Current]
NoEntry == [until |-> Current, expiresAt |-> 0]
\* An entry that has expired is as good as none.
Unexpired(e, time) == IF e.expiresAt > time THEN e ELSE NoEntry

Init ==
    /\ now = 0 /\ fired = FALSE /\ failures = 0
    /\ creating = [a \in Accounts |-> 0]
    /\ expiresAt = [a \in Accounts |-> 0] /\ undated = {}
    /\ tick = [t \in Ticks |-> NoTick]
    /\ entry = NoEntry /\ load = [l \in Loads |-> NoLoad]

Fail == failures < MaxFailures /\ failures' = failures + 1

\* readToken: the provider may or may not say when the new token expires.
TokenFor(x) == undated' \in {undated \ {x}, undated \cup {x}}

\* ConnectMetaCoexUseCase exchanges the code for a token, then subscribes ...
Connect(a) ==
    /\ creating[a] = 0 /\ expiresAt[a] = 0
    /\ creating' = [creating EXCEPT ![a] = now + Lifetime]
    /\ TokenFor(a)
    /\ UNCHANGED <<now, fired, failures, expiresAt, tick, directoryVars>>

\* ... and writes the row.
Create(a) ==
    /\ creating[a] # 0
    /\ creating' = [creating EXCEPT ![a] = 0]
    /\ expiresAt' = [expiresAt EXCEPT ![a] = creating[a]]
    /\ UNCHANGED <<now, fired, failures, undated, tick, directoryVars>>

\* findAllWithCredentials, and the rows near their expiry.
Begin(t, cutoff) ==
    /\ ~fired /\ fired' = TRUE
    /\ tick[t] = NoTick
    /\ tick' = [tick EXCEPT ![t].start = now,
                            ![t].due = {[account |-> a, expiresAt |-> expiresAt[a]] :
                                        a \in {b \in Dated : expiresAt[b] <= cutoff}}]
    /\ UNCHANGED <<now, failures, creating, expiresAt, undated, directoryVars>>

\* Mutant: no buffer, so only expired tokens are due.
RefreshTickLate(t) == Begin(t, now)

RefreshTick(t) == Begin(t, now + Buffer)

\* Mutant: the new token's lifetime is added to the old one's.
ExchangeAdds(t) ==
    /\ tick[t].account = NoAccount
    /\ \E r \in tick[t].due :
          tick' = [tick EXCEPT ![t].due = @ \ {r}, ![t].account = r.account,
                               ![t].fresh = r.expiresAt + Lifetime]
    /\ TokenFor(t)
    /\ UNCHANGED <<now, fired, failures, creating, expiresAt, directoryVars>>

\* refreshOne: the provider swaps a token that is still valid ...
Exchange(t) ==
    /\ tick[t].account = NoAccount
    /\ \E r \in tick[t].due :
          /\ r.expiresAt > now
          /\ tick' = [tick EXCEPT ![t].due = @ \ {r}, ![t].account = r.account,
                                  ![t].fresh = now + Lifetime]
    /\ TokenFor(t)
    /\ UNCHANGED <<now, fired, failures, creating, expiresAt, directoryVars>>

\* ... and refuses an expired one: the row is left for the next tick.
ExchangeRefused(t) ==
    /\ tick[t].account = NoAccount
    /\ \E r \in tick[t].due :
          /\ r.expiresAt <= now
          /\ tick' = [tick EXCEPT ![t].due = @ \ {r}]
    /\ UNCHANGED <<now, fired, failures, creating, expiresAt, undated, directoryVars>>

\* persistCredentials, whatever the row holds by now, and no expiry for an old one.
Persist(t) ==
    /\ tick[t].account # NoAccount
    /\ expiresAt' = [expiresAt EXCEPT ![tick[t].account] = tick[t].fresh]
    /\ undated' = (undated \ {t, tick[t].account}) \cup
                     {a \in {tick[t].account} : t \in undated}
    /\ tick' = [tick EXCEPT ![t].account = NoAccount, ![t].fresh = 0]
    /\ UNCHANGED <<now, fired, failures, creating, directoryVars>>

\* The exchange or the update throws; the loop goes on with the next row.
RefreshFails(t) ==
    /\ Fail
    /\ \/ /\ tick[t].account # NoAccount
          /\ tick' = [tick EXCEPT ![t].account = NoAccount, ![t].fresh = 0]
       \/ /\ tick[t].account = NoAccount
          /\ \E r \in tick[t].due : tick' = [tick EXCEPT ![t].due = @ \ {r}]
    /\ undated' = undated \ {t}
    /\ UNCHANGED <<now, fired, creating, expiresAt, directoryVars>>

TickEnds(t) ==
    /\ tick[t] # NoTick
    /\ tick[t].account = NoAccount /\ tick[t].due = {}
    /\ tick' = [tick EXCEPT ![t] = NoTick]
    /\ UNCHANGED <<now, fired, failures, creating, expiresAt, undated, directoryVars>>

-----------------------------------------------------------------------------
\* A directory request misses the cache and asks the provider with the token it
\* read; a hit, or a token that has expired, changes nothing.
Lookup(l) ==
    /\ load[l].at = "idle" /\ entry = NoEntry
    /\ \E a \in Rows : expiresAt[a] > now
    /\ load' = [load EXCEPT ![l] = [NoLoad EXCEPT !.at = "loading", !.start = now]]
    /\ UNCHANGED <<now, fired, failures, tokenVars, entry>>

\* The provider answers with what it holds.
Answer(l) ==
    /\ load[l].at = "loading"
    /\ load' = [load EXCEPT ![l].at = "loaded", ![l].until = Current]
    /\ UNCHANGED <<now, fired, failures, tokenVars, entry>>

\* An exception of the loader is mapped and passed on; nothing is remembered.
LoadFails(l) ==
    /\ load[l].at = "loading"
    /\ load' = [load EXCEPT ![l] = NoLoad]
    /\ UNCHANGED <<now, fired, failures, tokenVars, entry>>

Remember(l, from) ==
    /\ load[l].at = "loaded"
    /\ entry' = Unexpired([until |-> load[l].until, expiresAt |-> from + TTL], now)
    /\ load' = [load EXCEPT ![l] = NoLoad]
    /\ UNCHANGED <<now, fired, failures, tokenVars>>

\* Mutant: the entry lives from the end of the load.
StoreFromNow(l) == Remember(l, now)

\* Whoever loads last overwrites the entry; it lives from the start of its load.
Store(l) == Remember(l, load[l].start)

\* The provider's templates or phone numbers change: what has been answered is old.
DirectoryChanges ==
    LET Superseded(until) == IF until = Current THEN now ELSE until IN
    /\ load' = [l \in Loads |-> IF load[l].at = "loaded"
                                THEN [load[l] EXCEPT !.until = Superseded(@)] ELSE load[l]]
    /\ entry' = IF entry = NoEntry THEN NoEntry ELSE [entry EXCEPT !.until = Superseded(@)]
    /\ UNCHANGED <<now, fired, failures, tokenVars>>

-----------------------------------------------------------------------------
\* The interval fires once in each unit; no tick or creation outlasts MaxDuration.
Pass ==
    /\ now < MaxTime /\ fired
    /\ \A t \in Ticks : tick[t] # NoTick => now < tick[t].start + MaxDuration
    /\ \A a \in Accounts : creating[a] # 0 => now + Lifetime < creating[a] + MaxDuration
    /\ now' = now + 1
    /\ fired' = FALSE
    /\ entry' = Unexpired(entry, now + 1)
    /\ UNCHANGED <<failures, tokenVars, load>>

\* The process restarts: what was under way and the cache are gone, and the new
\* interval has yet to elapse.
Crash ==
    /\ Fail
    /\ fired' = TRUE
    /\ creating' = [a \in Accounts |-> 0]
    /\ undated' = undated \cap Rows
    /\ tick' = [t \in Ticks |-> NoTick]
    /\ entry' = NoEntry
    /\ load' = [l \in Loads |-> NoLoad]
    /\ UNCHANGED <<now, expiresAt>>

Next ==
    \/ \E a \in Accounts : Connect(a) \/ Create(a)
    \/ \E t \in Ticks : \/ RefreshTick(t) \/ Exchange(t) \/ ExchangeRefused(t)
                        \/ Persist(t) \/ RefreshFails(t) \/ TickEnds(t)
    \/ \E l \in Loads : Lookup(l) \/ Answer(l) \/ LoadFails(l) \/ Store(l)
    \/ DirectoryChanges \/ Pass \/ Crash

Spec == Init /\ [][Next]_vars

-----------------------------------------------------------------------------
TypeOK ==
    /\ now \in Times /\ fired \in BOOLEAN /\ failures \in 0 .. MaxFailures
    /\ creating \in [Accounts -> Expiries] /\ expiresAt \in [Accounts -> Expiries]
    /\ undated \subseteq Accounts \cup Ticks
    /\ tick \in [Ticks -> [start : Times, due : SUBSET [account : Accounts, expiresAt : Expiries],
                           account : Accounts \cup {NoAccount}, fresh : Expiries]]
    /\ entry \in [until : 0 .. Current, expiresAt : 0 .. MaxTime + TTL]
    /\ load \in [Loads -> [at : {"idle", "loading", "loaded"}, start : Times, until : 0 .. Current]]

\* Retries keep a token alive: a failure costs an attempt, a crash those of every
\* tick under way and of the interval it cut short.  A stored token that has
\* expired was handed out without an expiry, so that no tick finds it due, or the
\* failures have left no room in the buffer for one more tick; in whatever order
\* overlapping ticks write.
TokenStaysValid ==
    \A a \in Rows :
        expiresAt[a] <= now =>
            a \in undated \/ failures * (MaxDuration + 1) + MaxDuration >= Buffer

\* What the cache still serves was the provider's answer at some time within the
\* last TTL, although a slow load may overwrite the entry of a later one.
ServedIsRecent == entry # NoEntry => entry.until + TTL > now

=============================================================================
