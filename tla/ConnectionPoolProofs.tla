-------------------------- MODULE ConnectionPoolProofs --------------------------
(***************************************************************************)
(* Proofs about ConnectionPool, for any ticks, writers, readers, journeys   *)
(* and pool sizes: the types, the one shape a standstill has, and that a    *)
(* pool with more connections than there are transactions has none.         *)
(*                                                                         *)
(* A standstill is read off three facts about the present state: who waits  *)
(* for a row finds it held by an open transaction (RowLocks), who waits for *)
(* a connection is in the queue (Queue), and each kind of client only does  *)
(* what its kind does (Roles).                                              *)
(***************************************************************************)
EXTENDS ConnectionPool, FiniteSetTheorems, TLAPS

\* Only transactions lock rows and only ticks ask for a second connection.
Roles ==
    \A p \in Clients :
       /\ pc[p] \in {"locking", "working"} => p \in Transactions
       /\ pc[p] = "fetching" => p \in Ticks
       /\ pc[p] = "reading" => p \in Ticks \cup Readers

\* A row is locked by the open transaction about it, and by nobody else.
RowLocks ==
    /\ \A p \in Transactions :
          pc[p] \in {"working", "fetching", "reading"} => lockedBy[row[p]] = p
    /\ \A r \in Rows : lockedBy[r] # Nobody =>
          /\ pc[lockedBy[r]] \in {"working", "fetching", "reading"}
          /\ row[lockedBy[r]] = r

\* The queue holds each client that waits for a connection, once.
Queue ==
    /\ \A i \in DOMAIN waiting : pc[waiting[i]] \in {"connecting", "fetching"}
    /\ \A i, k \in DOMAIN waiting : waiting[i] = waiting[k] => i = k
    /\ \A p \in Clients : pc[p] \in {"connecting", "fetching"} =>
          \E i \in DOMAIN waiting : waiting[i] = p

IInv == TypeOK /\ Roles /\ RowLocks /\ Queue

\* The invariant holds initially.
LEMMA InitHolds == Init => IInv
<1> SUFFICES ASSUME Init
             PROVE  IInv
  OBVIOUS
<1>1. TypeOK
  BY PoolAssumption DEF Init, TypeOK
<1>2. Roles /\ RowLocks
  BY DEF Init, Roles, RowLocks, Clients
<1>3. Queue
  BY DEF Init, Queue
<1> QED
  BY <1>1, <1>2, <1>3 DEF IInv

\* Queueing for a connection appends a client that was not in the queue.
LEMMA Enqueues ==
    ASSUME TypeOK, Queue, NEW p \in Clients, pc[p] \notin {"connecting", "fetching"},
           NEW new \in {"connecting", "fetching"},
           pc' = [pc EXCEPT ![p] = new], waiting' = Append(waiting, p)
    PROVE  Queue'
<1>1. /\ waiting \in Seq(Clients) /\ DOMAIN waiting = 1 .. Len(waiting) /\ Len(waiting) \in Nat
      /\ waiting' \in Seq(Clients) /\ DOMAIN waiting' = 1 .. Len(waiting) + 1
      /\ \A i \in 1 .. Len(waiting) : waiting'[i] = waiting[i] /\ waiting[i] \in Clients
      /\ waiting'[Len(waiting) + 1] = p
  BY DEF TypeOK
<1>2. \A q \in Clients : pc'[q] = IF q = p THEN new ELSE pc[q]
  BY DEF TypeOK
<1>3. \A i \in 1 .. Len(waiting) : waiting[i] # p
  BY <1>1 DEF Queue
<1>4. \A i \in DOMAIN waiting' : pc'[waiting'[i]] \in {"connecting", "fetching"}
  <2> SUFFICES ASSUME NEW i \in 1 .. Len(waiting) + 1
               PROVE  pc'[waiting'[i]] \in {"connecting", "fetching"}
    BY <1>1
  <2>1. CASE i = Len(waiting) + 1
    BY <2>1, <1>1, <1>2
  <2>2. CASE i \in 1 .. Len(waiting)
    BY <2>2, <1>1, <1>2, <1>3 DEF Queue
  <2> QED
    BY <2>1, <2>2, <1>1
<1>5. \A i, k \in DOMAIN waiting' : waiting'[i] = waiting'[k] => i = k
  <2> SUFFICES ASSUME NEW i \in 1 .. Len(waiting) + 1, NEW k \in 1 .. Len(waiting) + 1,
                      waiting'[i] = waiting'[k]
               PROVE  i = k
    BY <1>1
  <2>1. CASE i \in 1 .. Len(waiting) /\ k \in 1 .. Len(waiting)
    BY <2>1, <1>1 DEF Queue
  <2>2. CASE i = Len(waiting) + 1 \/ k = Len(waiting) + 1
    BY <2>2, <1>1, <1>3
  <2> QED
    BY <2>1, <2>2, <1>1
<1>6. \A q \in Clients : pc'[q] \in {"connecting", "fetching"} =>
         \E i \in DOMAIN waiting' : waiting'[i] = q
  <2> SUFFICES ASSUME NEW q \in Clients, pc'[q] \in {"connecting", "fetching"}
               PROVE  \E i \in 1 .. Len(waiting) + 1 : waiting'[i] = q
    BY <1>1
  <2>1. CASE q = p
    BY <2>1, <1>1
  <2>2. CASE q # p
    <3>1. PICK i \in 1 .. Len(waiting) : waiting[i] = q
      BY <2>2, <1>1, <1>2 DEF Queue
    <3> QED
      BY <3>1, <1>1
  <2> QED
    BY <2>1, <2>2
<1> QED
  BY <1>4, <1>5, <1>6 DEF Queue

\* A step of a client that is not in the queue and does not join it keeps the queue.
LEMMA OutsideQueue ==
    ASSUME TypeOK, Queue, NEW p \in Clients, pc[p] \notin {"connecting", "fetching"},
           NEW new, new \notin {"connecting", "fetching"},
           pc' = [pc EXCEPT ![p] = new], waiting' = waiting
    PROVE  Queue'
BY DEF TypeOK, Queue

\* Granting a connection takes the head of the queue off it.
LEMMA Dequeues ==
    ASSUME TypeOK, Queue, waiting # <<>>, NEW new, new \notin {"connecting", "fetching"},
           pc' = [pc EXCEPT ![Head(waiting)] = new], waiting' = Tail(waiting)
    PROVE  Queue'
<1>1. /\ DOMAIN waiting = 1 .. Len(waiting) /\ Len(waiting) \in Nat \ {0}
      /\ DOMAIN waiting' = 1 .. Len(waiting) - 1
      /\ \A i \in 1 .. Len(waiting) : waiting[i] \in Clients
      /\ \A i \in 1 .. Len(waiting) - 1 : waiting'[i] = waiting[i + 1]
      /\ Head(waiting) = waiting[1]
  BY DEF TypeOK
<1>2. \A q \in Clients : pc'[q] = IF q = waiting[1] THEN new ELSE pc[q]
  BY <1>1 DEF TypeOK
<1>3. \A i \in 1 .. Len(waiting) - 1 : i + 1 \in 1 .. Len(waiting) /\ waiting[i + 1] # waiting[1]
  BY <1>1 DEF Queue
<1>4. \A i \in DOMAIN waiting' : pc'[waiting'[i]] \in {"connecting", "fetching"}
  BY <1>1, <1>2, <1>3 DEF Queue
<1>5. \A i, k \in DOMAIN waiting' : waiting'[i] = waiting'[k] => i = k
  <2> SUFFICES ASSUME NEW i \in 1 .. Len(waiting) - 1, NEW k \in 1 .. Len(waiting) - 1,
                      waiting[i + 1] = waiting[k + 1]
               PROVE  i = k
    BY <1>1
  <2>1. i + 1 = k + 1
    BY <1>1, <1>3 DEF Queue
  <2> QED
    BY <2>1
<1>6. \A q \in Clients : pc'[q] \in {"connecting", "fetching"} =>
         \E i \in DOMAIN waiting' : waiting'[i] = q
  <2> SUFFICES ASSUME NEW q \in Clients, pc'[q] \in {"connecting", "fetching"}
               PROVE  \E i \in 1 .. Len(waiting) - 1 : waiting'[i] = q
    BY <1>1
  <2>1. q # waiting[1] /\ pc[q] \in {"connecting", "fetching"}
    BY <1>2
  <2>2. PICK i \in 1 .. Len(waiting) : waiting[i] = q
    BY <2>1, <1>1 DEF Queue
  <2>3. i - 1 \in 1 .. Len(waiting) - 1 /\ waiting'[i - 1] = q
    BY <2>1, <2>2, <1>1
  <2> QED
    BY <2>3
<1> QED
  BY <1>4, <1>5, <1>6 DEF Queue

\* Each step keeps the invariant.
LEMMA NextHolds == IInv /\ [Next]_vars => IInv'
<1> SUFFICES ASSUME IInv, [Next]_vars
             PROVE  IInv'
  OBVIOUS
<1> USE PoolAssumption DEF IInv
<1>1. ASSUME NEW p \in Clients, Connect(p)
      PROVE  IInv'
  <2>1. TypeOK' /\ Roles' /\ RowLocks'
    BY <1>1 DEF Connect, TypeOK, Roles, RowLocks, Clients
  <2>2. Queue'
    BY <1>1, Enqueues DEF Connect
  <2> QED
    BY <2>1, <2>2
<1>2. CASE Grant
  <2> DEFINE p == Head(waiting)
             new == IF pc[p] = "connecting" /\ p \in Transactions THEN "locking" ELSE "reading"
  <2>1. waiting # <<>> /\ p \in Clients /\ p = waiting[1] /\ 1 \in DOMAIN waiting
        /\ pc' = [pc EXCEPT ![p] = new] /\ waiting' = Tail(waiting)
        /\ new \in {"locking", "reading"}
    BY <1>2 DEF Grant, TypeOK
  <2>2. pc[p] \in {"connecting", "fetching"}
    BY <2>1 DEF Queue
  <2>3. Queue'
    BY <2>1, Dequeues
  <2>4. TypeOK'
    BY <1>2, <2>1 DEF Grant, TypeOK
  <2>5. Roles'
    BY <2>1, <2>2 DEF TypeOK, Roles, Clients, Transactions
  <2>6. RowLocks'
    BY <1>2, <2>1, <2>2 DEF Grant, TypeOK, Roles, RowLocks, Clients, Transactions
  <2> QED
    BY <2>3, <2>4, <2>5, <2>6
<1>3. ASSUME NEW p \in Transactions, LockRow(p)
      PROVE  IInv'
  <2>1. TypeOK' /\ Roles' /\ RowLocks'
    BY <1>3 DEF LockRow, TypeOK, Roles, RowLocks, Clients
  <2>2. Queue'
    BY <1>3, OutsideQueue DEF LockRow, Clients
  <2> QED
    BY <2>1, <2>2
<1>4. ASSUME NEW t \in Ticks, Query(t)
      PROVE  IInv'
  <2>1. TypeOK' /\ Roles' /\ RowLocks'
    BY <1>4 DEF Query, TypeOK, Roles, RowLocks, Clients, Transactions
  <2>2. Queue'
    BY <1>4, Enqueues DEF Query, Clients, Transactions
  <2> QED
    BY <2>1, <2>2
<1>5. ASSUME NEW p \in Clients, Return(p)
      PROVE  IInv'
  <2>1. TypeOK' /\ Roles' /\ RowLocks'
    BY <1>5 DEF Return, TypeOK, Roles, RowLocks, Clients, Transactions
  <2>2. Queue'
    BY <1>5, OutsideQueue DEF Return
  <2> QED
    BY <2>1, <2>2
<1>6. ASSUME NEW p \in Transactions, Finish(p)
      PROVE  IInv'
  <2>1. TypeOK' /\ Roles' /\ RowLocks'
    BY <1>6 DEF Finish, TypeOK, Roles, RowLocks, Clients, Transactions
  <2>2. Queue'
    BY <1>6, OutsideQueue DEF Finish, Clients
  <2> QED
    BY <2>1, <2>2
<1>7. CASE UNCHANGED vars
  BY <1>7 DEF vars, TypeOK, Roles, RowLocks, Queue, Clients
<1> QED
  BY <1>1, <1>2, <1>3, <1>4, <1>5, <1>6, <1>7 DEF Next

\* The invariant is one of the specification.
LEMMA Invariance == Spec => []IInv
<1>1. Init => IInv
  BY InitHolds
<1>2. IInv /\ [Next]_vars => IInv'
  BY NextHolds
<1> QED
  BY <1>1, <1>2, PTL DEF Spec

\* A standstill shows in the state: the transactions that hold a connection and
\* wait are all that hold any, and one of them is a dispatch with its row.
LEMMA StandstillShape == IInv => StuckOnlyWhenFull
<1> SUFFICES ASSUME IInv, Stuck
             PROVE  /\ poolSize <= Cardinality({p \in Transactions : pc[p] \in {"locking", "fetching"}})
                    /\ \E t \in Ticks : pc[t] = "fetching" /\ lockedBy[row[t]] = t
  BY DEF StuckOnlyWhenFull
<1> USE PoolAssumption DEF IInv
<1> DEFINE Waiters == {p \in Transactions : pc[p] \in {"locking", "fetching"}}
<1>1. Holders = Waiters /\ Seconds = {}
  BY DEF Stuck, Holders, Seconds, Roles, Transactions, Clients
<1>2. InUse = Cardinality(Waiters) /\ Cardinality(Waiters) \in Nat /\ IsFiniteSet(Waiters)
  <2>1. IsFiniteSet(Waiters)
    BY FS_Subset DEF Clients
  <2>2. Cardinality(Waiters) \in Nat
    BY <2>1, FS_CardinalityType
  <2>3. InUse = Cardinality(Waiters) + 0
    BY <1>1, FS_EmptySet DEF InUse
  <2> QED
    BY <2>1, <2>2, <2>3
<1>3. ASSUME NEW p \in Transactions, pc[p] = "locking"
      PROVE  \E t \in Ticks : pc[t] = "fetching" /\ lockedBy[row[t]] = t
  <2>1. lockedBy[row[p]] \in Transactions /\ lockedBy[row[p]] # Nobody /\ row[p] \in Rows
    BY <1>3 DEF Stuck, TypeOK, Clients
  <2> DEFINE t == lockedBy[row[p]]
  <2>2. pc[t] = "fetching" /\ row[t] = row[p]
    BY <2>1 DEF Stuck, RowLocks, Clients
  <2>3. t \in Ticks
    BY <2>1, <2>2 DEF Roles, Clients
  <2> QED
    BY <2>2, <2>3
<1>4. ASSUME NEW t \in Ticks, pc[t] = "fetching"
      PROVE  lockedBy[row[t]] = t
  BY <1>4 DEF RowLocks, Transactions
<1>5. \A p \in Waiters : p \in Ticks \/ pc[p] = "locking"
  BY DEF Roles, Clients
<1>6. CASE waiting = <<>>
  <2>1. \A p \in Clients : pc[p] \notin {"connecting", "fetching"}
    BY <1>6 DEF Queue
  <2>2. PICK p \in Clients : pc[p] = "locking"
    BY <2>1 DEF Stuck, TypeOK
  <2>3. p \in Transactions
    BY <2>2 DEF Roles
  <2> QED
    BY <1>3, <2>1, <2>2, <2>3 DEF Clients, Transactions
<1>7. CASE InUse >= poolSize
  <2>1. poolSize <= Cardinality(Waiters) /\ Cardinality(Waiters) # 0
    BY <1>2, <1>7 DEF TypeOK
  <2>2. PICK p \in Waiters : TRUE
    BY <1>2, <2>1, FS_EmptySet
  <2>3. \E t \in Ticks : pc[t] = "fetching" /\ lockedBy[row[t]] = t
    BY <2>2, <1>3, <1>4, <1>5
  <2> QED
    BY <2>1, <2>3
<1> QED
  BY <1>6, <1>7 DEF Stuck

-----------------------------------------------------------------------------
\* The pool is well typed: no dispatch asks for more than its queries.
THEOREM PoolTypes == Spec => []TypeOK
<1>1. IInv => TypeOK
  BY DEF IInv
<1> QED
  BY <1>1, Invariance, PTL

\* Whatever the size of the pool and however many clients there are, drizzle's
\* pool comes to a standstill in one way only: transactions that wait hold every
\* connection, and one of them is a dispatch with its row that wants another.
THEOREM PoolStandstill == Spec => []StuckOnlyWhenFull
<1>1. IInv => StuckOnlyWhenFull
  BY StandstillShape
<1> QED
  BY <1>1, Invariance, PTL

\* A pool with one connection more than there are transactions at once never
\* comes to a standstill.
THEOREM PoolLargeEnough == Spec => [](poolSize > Cardinality(Transactions) => ~Stuck)
<1>1. IInv => (poolSize > Cardinality(Transactions) => ~Stuck)
  <2> SUFFICES ASSUME IInv, Stuck, poolSize > Cardinality(Transactions)
               PROVE  FALSE
    OBVIOUS
  <2> DEFINE Waiters == {p \in Transactions : pc[p] \in {"locking", "fetching"}}
  <2>1. poolSize <= Cardinality(Waiters)
    BY StandstillShape DEF StuckOnlyWhenFull
  <2>2. IsFiniteSet(Transactions)
    BY PoolAssumption, FS_Subset DEF Clients
  <2>3. Cardinality(Waiters) <= Cardinality(Transactions)
    BY <2>2, FS_Subset
  <2>4. Cardinality(Waiters) \in Nat /\ Cardinality(Transactions) \in Nat /\ poolSize \in Nat
    BY <2>2, FS_Subset, FS_CardinalityType, PoolAssumption DEF IInv, TypeOK
  <2> QED
    BY <2>1, <2>3, <2>4
<1> QED
  BY <1>1, Invariance, PTL

=============================================================================
