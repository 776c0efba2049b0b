---------------------------- MODULE ChannelWebhooks ----------------------------
(***************************************************************************)
(* How replies reach the system.  Connecting a WhatsApp account points      *)
(* Meta's webhooks at an address made of the id of a row that is yet to be  *)
(* written; Meta posts each message there, in batches, until a post is      *)
(* acknowledged; the controller looks the row up and marks the replies of a *)
(* batch one by one.  A creation may be cut short between any two calls.    *)
(***************************************************************************)
EXTENDS Naturals

CONSTANTS
    Accounts,             \* ids minted for accounts, one for each request
    Coexistence,          \* those connected by Embedded Signup
    Wabas, WabaOf,        \* WhatsApp business accounts; that of each account
    Apps, AppOf,          \* Meta apps; that of each WABA
    ByHand,               \* WABAs that someone subscribed to their app elsewhere
    Messages, SentTo,     \* inbound messages, each to one WABA
    Textual,              \* those with a text; pictures and voice are not read
    Posts,                \* webhook calls that may be under way at once
    MaxFailures,          \* bound of the model
    NoAccount

ASSUME WebhookAssumption ==
    /\ Coexistence \subseteq Accounts /\ NoAccount \notin Accounts
    /\ WabaOf \in [Accounts -> Wabas] /\ AppOf \in [Wabas -> Apps] /\ ByHand \subseteq Wabas
    /\ SentTo \in [Messages -> Wabas] /\ Textual \subseteq Messages
    /\ MaxFailures \in Nat

VARIABLES
    account,              \* none, the next call of its creation, stored, or cut short
    appCallback,          \* Meta: the account in the address of each app ...
    override,             \* ... and in the one that replaces it for a WABA
    arrived, inbox,       \* messages so far, and those not acknowledged
    post,                 \* each webhook call: its account, messages, and those left
    handled,              \* messages whose reply was marked
    failures

accountVars == <<account, appCallback, override>>
messageVars == <<arrived, inbox, post, handled>>
vars == <<accountVars, messageVars, failures>>

Creating == {"subscribeApp", "subscribeWaba", "persist"}
NoPost == [account |-> NoAccount, batch |-> {}, todo |-> {}]
Become(a, new) == account' = [account EXCEPT ![a] = new]

\* Where Meta posts the messages of a WABA.
Route(w) ==
    IF override[w] # NoAccount THEN override[w]
    ELSE IF w \in ByHand THEN appCallback[AppOf[w]] ELSE NoAccount

parseInbound(batch) == batch \cap Textual

Stored(a) == a # NoAccount /\ account[a] = "stored"
CutShort(a) == a # NoAccount /\ account[a] = "cut"

Init ==
    /\ account = [a \in Accounts |-> "none"]
    /\ appCallback = [p \in Apps |-> NoAccount]
    /\ override = [w \in Wabas |-> NoAccount]
    /\ arrived = {} /\ inbox = {} /\ handled = {}
    /\ post = [p \in Posts |-> NoPost]
    /\ failures = 0

Fail == failures < MaxFailures /\ failures' = failures + 1

-----------------------------------------------------------------------------
(* CreateChannelAccount and ConnectMetaCoex *)

\* The credentials are valid, or the code was exchanged; an id is minted.
Create(a) ==
    /\ account[a] = "none"
    /\ Become(a, IF a \in Coexistence THEN "subscribeWaba" ELSE "subscribeApp")
    /\ UNCHANGED <<appCallback, override, messageVars, failures>>

\* Mutant: the subscription of the app is thought to be enough.
SubscribeAppOnly(a) ==
    /\ account[a] = "subscribeApp"
    /\ appCallback' = [appCallback EXCEPT ![AppOf[WabaOf[a]]] = a]
    /\ Become(a, "persist")
    /\ UNCHANGED <<override, messageVars, failures>>

SubscribeApp(a) ==
    /\ account[a] = "subscribeApp"
    /\ appCallback' = [appCallback EXCEPT ![AppOf[WabaOf[a]]] = a]
    /\ Become(a, "subscribeWaba")
    /\ UNCHANGED <<override, messageVars, failures>>

SubscribeWaba(a) ==
    /\ account[a] = "subscribeWaba"
    /\ override' = [override EXCEPT ![WabaOf[a]] = a]
    /\ Become(a, "persist")
    /\ UNCHANGED <<appCallback, messageVars, failures>>

Persist(a) ==
    /\ account[a] = "persist"
    /\ Become(a, "stored")
    /\ UNCHANGED <<appCallback, override, messageVars, failures>>

\* Meta refuses, its answer is lost, or the insert fails: what was subscribed stays.
CreationThrows(a) ==
    /\ Fail
    /\ account[a] \in Creating
    /\ Become(a, "cut")
    /\ UNCHANGED <<appCallback, override, messageVars>>

-----------------------------------------------------------------------------
(* MetaWebhookController *)

\* A lead writes to a WABA whose messages Meta posts somewhere.
Arrive(m) ==
    /\ m \notin arrived /\ Route(SentTo[m]) # NoAccount
    /\ arrived' = arrived \cup {m} /\ inbox' = inbox \cup {m}
    /\ UNCHANGED <<accountVars, post, handled, failures>>

Begin(p, batch, to) ==
    /\ post[p] = NoPost
    /\ batch # {} /\ \A m \in batch : Route(SentTo[m]) = to
    /\ post' = [post EXCEPT ![p] =
                   [account |-> to, batch |-> batch, todo |-> parseInbound(batch)]]
    /\ UNCHANGED <<accountVars, arrived, inbox, handled, failures>>

\* Mutant: the row is not looked up.
ReceiveUnchecked(p, batch) == \E to \in Accounts : Begin(p, batch, to)

\* Mutant: only accounts of the Cloud API are looked up.
ReceiveCloudOnly(p, batch) ==
    \E to \in Accounts \ Coexistence : Stored(to) /\ Begin(p, batch, to)

\* The row of the address is found; if it is not, Meta is told so and comes back.
Receive(p, batch) == \E to \in Accounts : Stored(to) /\ Begin(p, batch, to)

MarkReply(p) ==
    /\ \E m \in post[p].todo :
          /\ handled' = handled \cup {m}
          /\ post' = [post EXCEPT ![p].todo = @ \ {m}]
    /\ UNCHANGED <<accountVars, arrived, inbox, failures>>

Acknowledge(p) ==
    /\ post[p] # NoPost /\ post[p].todo = {}
    /\ inbox' = inbox \ post[p].batch
    /\ post' = [post EXCEPT ![p] = NoPost]
    /\ UNCHANGED <<accountVars, arrived, handled, failures>>

\* Mutant: the exception is logged and the loop goes on.
ReplyThrowsSwallowed(p) ==
    /\ Fail
    /\ \E m \in post[p].todo : post' = [post EXCEPT ![p].todo = @ \ {m}]
    /\ UNCHANGED <<accountVars, arrived, inbox, handled>>

\* An exception ends the call; Meta posts all its messages again.
ReplyThrows(p) ==
    /\ Fail
    /\ post[p].todo # {}
    /\ post' = [post EXCEPT ![p] = NoPost]
    /\ UNCHANGED <<accountVars, arrived, inbox, handled>>

Crash ==
    /\ Fail
    /\ account' = [a \in Accounts |-> IF account[a] \in Creating THEN "cut" ELSE account[a]]
    /\ post' = [p \in Posts |-> NoPost]
    /\ UNCHANGED <<appCallback, override, arrived, inbox, handled>>

-----------------------------------------------------------------------------
CreationStep(a) == SubscribeApp(a) \/ SubscribeWaba(a) \/ Persist(a)
PostStep(p) == MarkReply(p) \/ Acknowledge(p)

Next ==
    \/ \E a \in Accounts : Create(a) \/ CreationStep(a) \/ CreationThrows(a)
    \/ \E m \in Messages : Arrive(m)
    \/ \E p \in Posts :
          \/ \E batch \in SUBSET inbox : Receive(p, batch)
          \/ PostStep(p) \/ ReplyThrows(p)
    \/ Crash

Spec == Init /\ [][Next]_vars

\* Calls and statements return, and Meta tries each message again.
Fairness ==
    /\ \A a \in Accounts : WF_vars(CreationStep(a))
    /\ \A p \in Posts : WF_vars(PostStep(p))
    /\ \A m \in Textual :
          SF_vars(\E p \in Posts, batch \in SUBSET inbox : m \in batch /\ Receive(p, batch))

FairSpec == Spec /\ Fairness

-----------------------------------------------------------------------------
TypeOK ==
    /\ account \in [Accounts -> {"none", "stored", "cut"} \cup Creating]
    /\ appCallback \in [Apps -> Accounts \cup {NoAccount}]
    /\ override \in [Wabas -> Accounts \cup {NoAccount}]
    /\ arrived \subseteq Messages /\ inbox \subseteq arrived /\ handled \subseteq arrived
    /\ post \in [Posts -> [account : {a \in Accounts : Stored(a)} \cup {NoAccount},
                           batch : SUBSET arrived, todo : SUBSET arrived]]
    /\ failures \in 0 .. MaxFailures

\* Customers who share an app stay apart: once a WABA has an account, its
\* messages go to an account of its own, and no creation for another WABA,
\* finished or cut short, turns them away.
CustomersApart ==
    \A a \in Accounts : Stored(a) =>
        /\ Route(WabaOf[a]) # NoAccount
        /\ WabaOf[Route(WabaOf[a])] = WabaOf[a]

\* Meta is never told that a text was received before its reply was marked,
\* whichever posts of it overlap, fail half-way or end in a crash.
NoReplyLost == arrived \cap Textual \subseteq inbox \cup handled

\* A message is handled in the end, also when it comes before the row of its
\* account, unless the creation that took its WABA over was cut short.
MessagesArrive ==
    \A m \in Textual : m \in inbox ~> m \in handled \/ CutShort(Route(SentTo[m]))

=============================================================================
