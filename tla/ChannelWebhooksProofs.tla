------------------------- MODULE ChannelWebhooksProofs -------------------------
(***************************************************************************)
(* Proofs about ChannelWebhooks, for any accounts, WABAs, apps, messages    *)
(* and failures: the types, that customers stay apart, and that no reply is *)
(* lost.  Liveness is left to TLC.                                          *)
(*                                                                         *)
(* Customers stay apart because an address that replaces an app's is only   *)
(* ever one of the WABA's own, and because no row is written without one.   *)
(* No reply is lost because a post keeps what it has yet to mark until the  *)
(* moment it is given up, and takes nothing off the inbox before its end.   *)
(***************************************************************************)
EXTENDS ChannelWebhooks, TLAPS

\* The address of a WABA names one of its own accounts.
OwnAddress ==
    \A w \in Wabas : override[w] # NoAccount => override[w] \in Accounts /\ WabaOf[override[w]] = w

\* A row is written, or about to be, only after its WABA was given an address.
AddressFirst ==
    \A a \in Accounts : account[a] \in {"persist", "stored"} => override[WabaOf[a]] # NoAccount

\* A post has marked the texts of its batch, or has them still to do.
MarkedOrLeft == \A p \in Posts : post[p].batch \cap Textual \subseteq handled \cup post[p].todo

IInv == TypeOK /\ OwnAddress /\ AddressFirst /\ NoReplyLost /\ MarkedOrLeft

\* The invariant holds initially.
LEMMA InitHolds == Init => IInv
BY WebhookAssumption
   DEF Init, NoPost, IInv, TypeOK, OwnAddress, AddressFirst, NoReplyLost, MarkedOrLeft

\* An account that enters a stage of its creation leaves the posts alone: none
\* is for an account that is not stored yet.
LEMMA Becoming ==
    ASSUME TypeOK, NEW a \in Accounts, account[a] # "stored", UNCHANGED <<post, arrived>>,
           NEW new \in {"stored", "cut"} \cup Creating, Become(a, new)
    PROVE  /\ account' \in [Accounts -> {"none", "stored", "cut"} \cup Creating]
           /\ post' \in [Posts -> [account : {b \in Accounts : Stored(b)'} \cup {NoAccount},
                                   batch : SUBSET arrived', todo : SUBSET arrived']]
<1>1. \A b \in Accounts : account'[b] = IF b = a THEN new ELSE account[b]
  BY DEF Become, TypeOK
<1>2. account' \in [Accounts -> {"none", "stored", "cut"} \cup Creating]
  BY DEF Become, TypeOK
<1>3. {b \in Accounts : Stored(b)} \subseteq {b \in Accounts : Stored(b)'}
  BY <1>1 DEF Stored
<1> QED
  BY <1>2, <1>3 DEF TypeOK

\* The steps that connect an account keep the invariant.
LEMMA CreationHolds ==
    ASSUME IInv, NEW a \in Accounts, Create(a) \/ CreationStep(a) \/ CreationThrows(a)
    PROVE  IInv'
<1> USE WebhookAssumption DEF IInv, messageVars, Creating
<1>0. WabaOf[a] \in Wabas /\ AppOf[WabaOf[a]] \in Apps
  OBVIOUS
<1>1. CASE Create(a)
  <2>1. PICK new \in {"subscribeWaba", "subscribeApp"} : Become(a, new)
    BY <1>1 DEF Create
  <2>2. TypeOK'
    BY <1>1, <2>1, Becoming DEF Create, TypeOK
  <2>3. OwnAddress' /\ NoReplyLost' /\ MarkedOrLeft'
    BY <1>1 DEF Create, OwnAddress, NoReplyLost, MarkedOrLeft
  <2>4. AddressFirst'
    BY <1>1, <2>1 DEF Create, AddressFirst, Become, TypeOK
  <2> QED
    BY <2>2, <2>3, <2>4
<1>2. CASE SubscribeApp(a)
  <2>1. TypeOK'
    BY <1>0, <1>2, Becoming DEF SubscribeApp, TypeOK
  <2>2. OwnAddress' /\ NoReplyLost' /\ MarkedOrLeft'
    BY <1>2 DEF SubscribeApp, OwnAddress, NoReplyLost, MarkedOrLeft
  <2>3. AddressFirst'
    BY <1>2 DEF SubscribeApp, AddressFirst, Become, TypeOK
  <2> QED
    BY <2>1, <2>2, <2>3
<1>3. CASE SubscribeWaba(a)
  <2>1. TypeOK'
    BY <1>0, <1>3, Becoming DEF SubscribeWaba, TypeOK
  <2>2. \A w \in Wabas : override'[w] = IF w = WabaOf[a] THEN a ELSE override[w]
    BY <1>3 DEF SubscribeWaba, TypeOK
  <2>3. OwnAddress'
    BY <2>2 DEF OwnAddress
  <2>4. AddressFirst'
    BY <1>3, <2>2 DEF SubscribeWaba, AddressFirst, Become, TypeOK
  <2>5. NoReplyLost' /\ MarkedOrLeft'
    BY <1>3 DEF SubscribeWaba, NoReplyLost, MarkedOrLeft
  <2> QED
    BY <2>1, <2>3, <2>4, <2>5
<1>4. CASE Persist(a)
  <2>1. TypeOK'
    BY <1>4, Becoming DEF Persist, TypeOK
  <2>2. OwnAddress' /\ NoReplyLost' /\ MarkedOrLeft'
    BY <1>4 DEF Persist, OwnAddress, NoReplyLost, MarkedOrLeft
  <2>3. AddressFirst'
    BY <1>4 DEF Persist, AddressFirst, Become, TypeOK
  <2> QED
    BY <2>1, <2>2, <2>3
<1>5. CASE CreationThrows(a)
  <2>1. account[a] # "stored" /\ failures' \in 0 .. MaxFailures
    BY <1>5 DEF CreationThrows, Fail, TypeOK
  <2>2. TypeOK'
    BY <1>5, <2>1, Becoming DEF CreationThrows, TypeOK
  <2>3. OwnAddress' /\ NoReplyLost' /\ MarkedOrLeft'
    BY <1>5 DEF CreationThrows, OwnAddress, NoReplyLost, MarkedOrLeft
  <2>4. AddressFirst'
    BY <1>5 DEF CreationThrows, AddressFirst, Become, TypeOK
  <2> QED
    BY <2>2, <2>3, <2>4
<1> QED
  BY <1>1, <1>2, <1>3, <1>4, <1>5 DEF CreationStep

\* The steps of a webhook call keep the invariant.
LEMMA PostHolds ==
    ASSUME IInv, NEW p \in Posts,
           \/ \E batch \in SUBSET inbox : Receive(p, batch)
           \/ PostStep(p) \/ ReplyThrows(p)
    PROVE  IInv'
<1> USE WebhookAssumption DEF IInv, accountVars, Stored
<1>1. ASSUME NEW batch \in SUBSET inbox, Receive(p, batch)
      PROVE  IInv'
  <2>1. PICK to \in Accounts : Stored(to) /\ Begin(p, batch, to)
    BY <1>1 DEF Receive
  <2>2. /\ batch \in SUBSET arrived /\ parseInbound(batch) = batch \cap Textual
        /\ post' = [post EXCEPT ![p] =
                       [account |-> to, batch |-> batch, todo |-> parseInbound(batch)]]
    BY <2>1 DEF Begin, parseInbound, TypeOK
  <2>3. TypeOK'
    BY <2>1, <2>2 DEF Begin, TypeOK
  <2>4. OwnAddress' /\ AddressFirst' /\ NoReplyLost'
    BY <2>1 DEF Begin, OwnAddress, AddressFirst, NoReplyLost
  <2>5. MarkedOrLeft'
    BY <2>1, <2>2 DEF Begin, MarkedOrLeft, TypeOK
  <2> QED
    BY <2>3, <2>4, <2>5
<1>2. CASE MarkReply(p)
  <2>1. PICK m \in post[p].todo : /\ handled' = handled \cup {m}
                                  /\ post' = [post EXCEPT ![p].todo = @ \ {m}]
    BY <1>2 DEF MarkReply
  <2>2. /\ m \in arrived /\ post[p].todo \in SUBSET arrived
        /\ \A q \in Posts : /\ post'[q].batch = post[q].batch
                            /\ post'[q].todo = IF q = p THEN post[q].todo \ {m} ELSE post[q].todo
    BY <2>1 DEF TypeOK
  <2>3. TypeOK'
    <3>1. post' \in [Posts -> [account : {a \in Accounts : Stored(a)} \cup {NoAccount},
                               batch : SUBSET arrived, todo : SUBSET arrived]]
      BY <2>1, <2>2 DEF TypeOK
    <3>2. handled' \subseteq arrived
      BY <2>1, <2>2 DEF TypeOK
    <3> QED
      BY <1>2, <3>1, <3>2 DEF MarkReply, TypeOK
  <2>4. OwnAddress' /\ AddressFirst' /\ NoReplyLost'
    BY <1>2, <2>1 DEF MarkReply, OwnAddress, AddressFirst, NoReplyLost
  <2>5. MarkedOrLeft'
    BY <2>1, <2>2 DEF MarkedOrLeft
  <2> QED
    BY <2>3, <2>4, <2>5
<1>3. CASE Acknowledge(p)
  <2>1. post[p].batch \cap Textual \subseteq handled
    BY <1>3 DEF Acknowledge, MarkedOrLeft
  <2>2. TypeOK'
    BY <1>3 DEF Acknowledge, NoPost, TypeOK
  <2>3. OwnAddress' /\ AddressFirst'
    BY <1>3 DEF Acknowledge, OwnAddress, AddressFirst
  <2>4. NoReplyLost'
    BY <1>3, <2>1 DEF Acknowledge, NoReplyLost
  <2>5. MarkedOrLeft'
    BY <1>3 DEF Acknowledge, NoPost, MarkedOrLeft, TypeOK
  <2> QED
    BY <2>2, <2>3, <2>4, <2>5
<1>4. CASE ReplyThrows(p)
  <2>1. TypeOK'
    BY <1>4 DEF ReplyThrows, Fail, NoPost, TypeOK
  <2>2. OwnAddress' /\ AddressFirst' /\ NoReplyLost'
    BY <1>4 DEF ReplyThrows, OwnAddress, AddressFirst, NoReplyLost
  <2>3. MarkedOrLeft'
    BY <1>4 DEF ReplyThrows, NoPost, MarkedOrLeft, TypeOK
  <2> QED
    BY <2>1, <2>2, <2>3
<1> QED
  BY <1>1, <1>2, <1>3, <1>4 DEF PostStep

\* A message that arrives goes on the inbox.
LEMMA ArriveHolds ==
    ASSUME IInv, NEW m \in Messages, Arrive(m)
    PROVE  IInv'
<1>1. TypeOK'
  BY DEF Arrive, accountVars, IInv, TypeOK, Stored
<1>2. OwnAddress' /\ AddressFirst' /\ NoReplyLost' /\ MarkedOrLeft'
  BY DEF Arrive, accountVars, IInv, OwnAddress, AddressFirst, NoReplyLost, MarkedOrLeft
<1> QED
  BY <1>1, <1>2 DEF IInv

\* A crash cuts creations short and drops posts, and stores nothing.
LEMMA CrashHolds ==
    ASSUME IInv, Crash
    PROVE  IInv'
<1> USE WebhookAssumption DEF IInv, Creating
<1>1. \A a \in Accounts : account'[a] \in {"cut", account[a]}
  BY DEF Crash
<1>2. TypeOK'
  BY DEF Crash, Fail, NoPost, TypeOK
<1>3. OwnAddress' /\ NoReplyLost' /\ MarkedOrLeft'
  BY DEF Crash, NoPost, OwnAddress, NoReplyLost, MarkedOrLeft
<1>4. AddressFirst'
  BY <1>1 DEF Crash, AddressFirst
<1> QED
  BY <1>2, <1>3, <1>4

\* Every step keeps the invariant.
LEMMA NextHolds == IInv /\ [Next]_vars => IInv'
<1> SUFFICES ASSUME IInv, [Next]_vars
             PROVE  IInv'
  OBVIOUS
<1>1. CASE UNCHANGED vars
  BY <1>1 DEF vars, accountVars, messageVars, IInv, TypeOK, OwnAddress, AddressFirst,
              NoReplyLost, MarkedOrLeft, Stored
<1> QED
  BY <1>1, CreationHolds, PostHolds, ArriveHolds, CrashHolds DEF Next

\* The invariant is one of the specification.
LEMMA Invariant == Spec => []IInv
BY InitHolds, NextHolds, PTL DEF Spec

\* Webhooks are well typed for any accounts, messages and failures: in
\* particular a post under way is for an account whose row exists, for good.
THEOREM WebhookTypes == Spec => []TypeOK
BY Invariant, PTL DEF IInv

\* Customers who share an app stay apart: the messages of a WABA with an account
\* go to an account of its own, however creations for others end.
THEOREM WebhookCustomers == Spec => []CustomersApart
<1>1. IInv => CustomersApart
  BY WebhookAssumption DEF IInv, OwnAddress, AddressFirst, CustomersApart, Route, Stored
<1> QED
  BY <1>1, Invariant, PTL

\* Meta is never told that a text was received before its reply was marked, for
\* any number of overlapping posts.
THEOREM WebhookReplies == Spec => []NoReplyLost
BY Invariant, PTL DEF IInv

=============================================================================
