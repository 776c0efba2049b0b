---------------------------- MODULE ConnectionPool ----------------------------
(***************************************************************************)
(* DrizzleService's pool of connections.  A transaction keeps its           *)
(* connection while it waits for the row of its journey, and a dispatch     *)
(* keeps it while queries made outside its transaction ask the same pool    *)
(* for another: the pool has no timeout, so holders can wait for each       *)
(* other for ever.                                                          *)
(***************************************************************************)
EXTENDS Naturals, Sequences, FiniteSets

CONSTANTS
    Ticks,            \* poller ticks that may overlap
    Writers,          \* replies and commands, which lock one journey
    Readers,          \* queries that wait for nothing but a connection
    Rows,             \* journeys
    PoolSizes,        \* the sizes a pool may have (pg's default is 10)
    MaxQueries,       \* queries of one dispatch outside its transaction
    Nobody

Transactions == Ticks \cup Writers
Clients == Transactions \cup Readers

ASSUME PoolAssumption ==
    /\ PoolSizes \subseteq Nat \ {0}
    /\ MaxQueries \in Nat
    /\ IsFiniteSet(Clients)
    /\ Readers \cap Transactions = {}
    /\ Nobody \notin Clients

VARIABLES
    poolSize,
    pc,               \* where each client is
    row,              \* the journey its transaction is about
    asked,            \* queries a dispatch has made outside its transaction
    waiting,          \* the pool's queue of clients without a connection
    lockedBy          \* the transaction that holds each journey's row

vars == <<poolSize, pc, row, asked, waiting, lockedBy>>

\* A dispatch that reads outside its transaction has two connections.
Holders == {p \in Clients : pc[p] \in {"locking", "working", "fetching", "reading"}}
Seconds == {t \in Ticks : pc[t] = "reading"}
InUse == Cardinality(Holders) + Cardinality(Seconds)

Init ==
    /\ poolSize \in PoolSizes
    /\ pc = [p \in Clients |-> "idle"]
    /\ row \in [Clients -> Rows]
    /\ asked = [t \in Ticks |-> 0]
    /\ waiting = <<>>
    /\ lockedBy = [r \in Rows |-> Nobody]

\* pool.connect(): the client queues for a connection.
Connect(p) ==
    /\ pc[p] = "idle"
    /\ \E r \in Rows : row' = [row EXCEPT ![p] = r]
    /\ pc' = [pc EXCEPT ![p] = "connecting"]
    /\ waiting' = Append(waiting, p)
    /\ UNCHANGED <<poolSize, asked, lockedBy>>

\* Mutant: the pool never grows to its size.
GrantShort ==
    /\ waiting # <<>>
    /\ InUse + 1 < poolSize
    /\ pc' = [pc EXCEPT ![Head(waiting)] =
                 IF @ = "connecting" /\ Head(waiting) \in Transactions THEN "locking" ELSE "reading"]
    /\ waiting' = Tail(waiting)
    /\ UNCHANGED <<poolSize, row, asked, lockedBy>>

\* A free or new connection goes to the client that has waited longest.
Grant ==
    /\ waiting # <<>>
    /\ InUse < poolSize
    /\ pc' = [pc EXCEPT ![Head(waiting)] =
                 IF @ = "connecting" /\ Head(waiting) \in Transactions THEN "locking" ELSE "reading"]
    /\ waiting' = Tail(waiting)
    /\ UNCHANGED <<poolSize, row, asked, lockedBy>>

\* lockById, or the row lock of an UPDATE.
LockRow(p) ==
    /\ pc[p] = "locking"
    /\ lockedBy[row[p]] = Nobody
    /\ lockedBy' = [lockedBy EXCEPT ![row[p]] = p]
    /\ pc' = [pc EXCEPT ![p] = "working"]
    /\ UNCHANGED <<poolSize, row, asked, waiting>>

\* Mutant: one query more than a dispatch makes.
QueryUnbounded(t) ==
    /\ pc[t] = "working"
    /\ asked' = [asked EXCEPT ![t] = @ + 1]
    /\ pc' = [pc EXCEPT ![t] = "fetching"]
    /\ waiting' = Append(waiting, t)
    /\ UNCHANGED <<poolSize, row, lockedBy>>

\* getWithSteps, findPrimaryAccount, findCredentials ...: asked of the pool, not of the transaction.
Query(t) ==
    /\ pc[t] = "working"
    /\ asked[t] < MaxQueries
    /\ asked' = [asked EXCEPT ![t] = @ + 1]
    /\ pc' = [pc EXCEPT ![t] = "fetching"]
    /\ waiting' = Append(waiting, t)
    /\ UNCHANGED <<poolSize, row, lockedBy>>

\* The rows came back: the connection is released.
Return(p) ==
    /\ pc[p] = "reading"
    /\ pc' = [pc EXCEPT ![p] = IF p \in Ticks THEN "working" ELSE "idle"]
    /\ UNCHANGED <<poolSize, row, asked, waiting, lockedBy>>

\* Mutant: the transaction ends without its row lock.
FinishLocked(p) ==
    /\ pc[p] = "working"
    /\ pc' = [pc EXCEPT ![p] = "idle"]
    /\ asked' = [t \in Ticks |-> IF t = p THEN 0 ELSE asked[t]]
    /\ UNCHANGED <<poolSize, row, waiting, lockedBy>>

\* Commit, or rollback after an exception.
Finish(p) ==
    /\ pc[p] = "working"
    /\ pc' = [pc EXCEPT ![p] = "idle"]
    /\ lockedBy' = [lockedBy EXCEPT ![row[p]] = Nobody]
    /\ asked' = [t \in Ticks |-> IF t = p THEN 0 ELSE asked[t]]
    /\ UNCHANGED <<poolSize, row, waiting>>

Settle(p) == Return(p) \/ (p \in Transactions /\ Finish(p))

Next ==
    \/ Grant
    \/ \E p \in Clients : Connect(p) \/ Return(p)
    \/ \E p \in Transactions : LockRow(p) \/ Finish(p)
    \/ \E t \in Ticks : Query(t)

Spec == Init /\ [][Next]_vars

\* Statements and HTTP calls come back, and PostgreSQL wakes the waiters of a row in turn.
Fairness ==
    /\ WF_vars(Grant)
    /\ \A p \in Clients : WF_vars(Settle(p))
    /\ \A p \in Transactions : SF_vars(LockRow(p))

FairSpec == Spec /\ Fairness

-----------------------------------------------------------------------------
TypeOK ==
    /\ poolSize \in PoolSizes
    /\ pc \in [Clients -> {"idle", "connecting", "locking", "working", "fetching", "reading"}]
    /\ row \in [Clients -> Rows]
    /\ asked \in [Ticks -> 0 .. MaxQueries]
    /\ waiting \in Seq(Clients)
    /\ lockedBy \in [Rows -> Transactions \cup {Nobody}]

\* A client is at work, and none of them can go on until another does.
Stuck ==
    /\ \E p \in Clients : pc[p] # "idle"
    /\ ~ \E p \in Clients : pc[p] \in {"working", "reading"}
    /\ ~ \E p \in Transactions : pc[p] = "locking" /\ lockedBy[row[p]] = Nobody
    /\ waiting = <<>> \/ InUse >= poolSize

\* Whatever the pool's size, it can only come to a standstill in one way:
\* every connection is held by a transaction of its own that waits for a row or
\* for a second connection, and a dispatch that holds a row is among them.
StuckOnlyWhenFull ==
    Stuck => /\ poolSize <= Cardinality({p \in Transactions : pc[p] \in {"locking", "fetching"}})
             /\ \E t \in Ticks : pc[t] = "fetching" /\ lockedBy[row[t]] = t

\* A pool with more connections than transactions at once, one for a reader or
\* a dispatch's own queries, serves everyone who asks.
EveryoneServed ==
    poolSize > Cardinality(Transactions) =>
        \A p \in Clients : pc[p] = "connecting" ~> pc[p] = "idle"

=============================================================================
