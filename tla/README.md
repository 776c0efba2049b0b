# Kizunu in TLA+

Kizunu moves sales leads through *cadences*: a CRM (Pipedrive) tells it that a
deal entered a stage, it resolves which member owns the lead, and it touches the
lead step by step over a messaging channel (WhatsApp through Meta's Graph API)
until the lead replies or the cadence is exhausted. The core is the engine in
`src/apps/api/src/modules/engine`: a poller, a dispatcher that runs one database
transaction per due journey, and the use cases that write the same rows; before
it stands ingestion, which turns a webhook into a journey and finds its owner.
Around them stand the channels (accounts, who may use them, their tokens, the
webhooks that bring replies in), the cadences and templates a journey follows,
the accounts of the people who use the system, and the pool of database
connections that everything shares. This directory models these in TLA+, checks
them with TLC on small instances and proves their main safety properties with
TLAPS for any number of journeys, ticks, requests, accounts and failures.

Paths below are relative to `src/apps/api/src/modules` unless they start with
`src/`.

## The system

| Component | State it keeps | Operations | Interacts with | Hard behaviour | What makes it correct |
|---|---|---|---|---|---|
| Journey vocabulary (`engine/core/domain`) | none | `transition`, `resolveNextStep` | everything below | - | the table is total and its terminal statuses have no way out |
| Poller and dispatcher (`engine/core/poller`, `journey-dispatcher.ts`, `engine/persistence`) | `lead_journeys`, `touch_attempts` | `dispatchDue`, `dispatchOne`, `dispatchStep`, `sendStep`, `exhaust` | channel plugins, CRM connectors, cadences, the database pool | overlapping ticks, external calls inside a transaction, exceptions and crashes after a send | each send is accounted for, steps are sent in order, nothing is sent under a row that is not running |
| Journey use cases (`mark-reply`, `control-journey`, bulk pause/resume, `reassign-leads`, owner backfill) | the same rows, `leads.ownerUserId`, `audit_events` | one per use case | the dispatcher through row locks | reads without a lock, unconditional writes, bulk statements over a snapshot | the transition table is obeyed; `onReply` runs at most once; a replied lead is left alone |
| Ingestion (`start-journey`, entry triggers) | `leads`, `lead_journeys` | webhook handler | CRM connector, owner resolution | duplicated and concurrent webhooks, no unique constraint on journeys in flight | one journey in flight per lead and cadence |
| Owner resolution and identities (`crm/core/services`, `crm/persistence`) | `member_connector_identities` | resolve, create, update, delete, backfill | CRM, engine | auto-match racing a manual mapping; parked journeys | every parked journey of a mapped owner is resumed |
| CRM connectors (`crm/core/connector`, `crm/plugins`) | connector accounts | fetch lead/owner, log activity, change stage | Pipedrive | remote failures | (I/O) |
| Channels (`channel`) | accounts, accesses, encrypted credentials | create, grant, revoke, set primary, refresh OAuth, health | Meta Graph API | concurrent grants and revocations, refresh races, creations cut short, redelivered webhooks | the account chosen last is primary; a stored token with an expiry is refreshed before it; no reply is lost; customers of one Meta app stay apart |
| Cadences and templates (`cadence`) | cadences, steps, templates | CRUD, sending window | dispatcher | steps and templates replaced or deleted between two reads of a dispatch; time zones | journeys end, skip no place, and are not exhausted before a first attempt |
| Directory cache (`_shared/directory`) | in-memory entries with a TTL | get-or-load, invalidate | connectors | overlapping loads | nothing older than the TTL is served |
| Identity (`identity`, `workspace/persistence/verification-token.repository.ts`) | users, sessions, tokens | login, OAuth callback, verify, reset, revoke | mail | logins overlapping resets and lockouts, statements that fail half-way | a token is used once; a reset logs out everywhere; the lock holds at the limit |
| Workspaces (`workspace`) | members, invitations | invite, accept, change role or status | engine | concurrent acceptances | a member per acceptance |
| Database pool (`src/packages/nestjs-shared/.../drizzle.service.ts`) | at most 10 connections | borrow, return | dispatcher | transactions that hold one connection and ask for another | a standstill has one cause only, and a pool large enough has none |
| Routing readiness, read models, web application, shared packages | none of their own | reads | - | - | - |

Components interact through the database (row locks, one committed version per
row), through awaited calls inside one Node.js process, and with the outside
world by HTTP. There is one API process: a crash ends every tick and handler at
once and rolls back every open transaction.

## Modules

| Module | Models | Extends |
|---|---|---|
| `LeadJourney` | statuses, events, transition table, error reasons, choice of the next step | `Integers` |
| `JourneyStore` | the rows and their repositories: `findDueIds`' condition, `advance`, `setStatus`, `updateStatus`, bulk updates, the touch-attempt slot, the row lock, the clock, the fault budget | `LeadJourney` |
| `JourneyDispatcher` | poller ticks and the per-journey transaction | `JourneyStore` |
| `JourneyRequests` | replies, operator commands, bulk updates, reassignment, backfill | `JourneyStore` |
| `JourneyEngine` | their composition with crashes, the properties, the refinement | both |
| `JourneyLifecycle` | the abstract specification: what the engine promises about a journey | `LeadJourney` |
| `Ingestion` | webhook deliveries, owner resolution, lead upsert, start of a journey; identity mappings and their backfill | `LeadJourney` |
| `ConnectionPool` | the pool, ticks, writers and readers that queue for it | `Sequences`, `FiniteSets` |
| `ChannelAccess` | grants, revocations and `makePrimary`, statement by statement | `Naturals` |
| `ChannelTokens` | the refresh of channel tokens; the directory cache | `Naturals` |
| `ChannelWebhooks` | the creation of a channel account and its subscriptions; inbound webhooks | `Naturals` |
| `CadenceEdits` | editing and deleting a cadence, deleting a template, under dispatches | `LeadJourney` |
| `Accounts` | sign-up, login, lockout, reset, verification, invitation, sessions | `Naturals`, `FiniteSets` |
| `...Proofs` | theorems about the module each is named after | that module |
| `MC...` | values of the constants for TLC | the module checked |

`JourneyEngine` and `Ingestion` meet in `lead_journeys` and `leads`. Each sees
the other in the large: the engine takes its journeys as started and a backfill
as one action, ingestion lets the engine move a journey along the transition
table (`JourneyMoves`). The other modules each take the engine in the large as
well: `ConnectionPool` knows only what a dispatch locks and how often it reads
outside its transaction; `CadenceEdits` knows what it reads and when;
`ChannelWebhooks` hands each message to one `MarkReply`, whose inside is in
`JourneyRequests`. `LeadJourney` is shared by the engine, ingestion and
`CadenceEdits`, so the choice of the next step is written once.

### How the state corresponds to the code

* `status`, `currentStepOrder`, `nextTouchAt`, `errorReason` are the columns of
  `lead_journeys`; `touchAttempt[j][s]` is the row of `touch_attempts` that is
  unique on (journey, step), `"none"` when there is none; `ownerUserId` is
  `leads.ownerUserId`. They hold the *committed* version. A transaction that
  spans several steps of its process holds `lockedBy[j]` (`SELECT ... FOR
  UPDATE` in `lockById`) and its writes appear when it commits; under READ
  COMMITTED no other session can tell the difference.
* A tick (`journey-poller.ts`) is an element of `Ticks` with a program counter:
  `idle`, `loop` (over the ids of its batch), and `sending`, `logging`,
  `recording`, `actions` inside a transaction. The interval does not wait for
  the previous tick, so several may be under way.
* `sends`, `activities` and `exitRuns` are what happened outside: no rollback
  undoes them. `lostSends` only counts sends whose transaction did not commit.
* A reply handler, an operator command and a bulk update are elements of
  `Replies`, `Controls` and `Bulks`, each with a program counter that stops at
  every `await` between two statements.

### How the actions correspond to the code

`TickStart` is `findDueIds` (no lock, a limit and no order). `lockById` and
`Eligible` are the lock and the check repeated under it. A transaction either
commits at once - `SkipStale`, `Defer` (outside the sending window), `NoChannel`,
`SkipClaimed` (the `ON CONFLICT DO NOTHING` of `tryInsert` found a row),
`RejectStep` (template or variable validation failed), `SkipStep` - or opens:
`BeginSend`, then `SendAccepted`/`SendRefused`, `LogTouch`, `CommitSend`; or
`BeginExhaust`, `RunExitAction` for each `onExhausted` action, `CommitExhaust`.
`DispatchThrows` and `TxThrows` are the exceptions `dispatchDue` catches per
journey. `MarkReply` is `ReplyFind`, `ReplyMark` or `ReplyTooLate`, `ReplyAudit`,
`ReplyRunAction`. `ControlJourney` is `ControlRead`, `ControlWrite`,
`ControlAudit`. A bulk `UPDATE` takes a snapshot (`BulkBegin`), reaches its rows
one at a time, waiting for the lock and checking the status again on the version
it finds (`BulkRow`, PostgreSQL's EvalPlanQual), and takes effect in
`BulkCommit`. `BackfillOwner` is `LeadOwnerBackfillService.backfillFor`: its two
statements touch only rows in `error_state`, which no transaction of the engine
holds, and are one action.

In `Ingestion`, `crmOwner` is the CRM's own record, `mapping` is
`member_connector_identities` as a function from the CRM user to the member
(`NoUser` for no row), `ownerExternalId` and `ownerUserId` are columns of
`leads`, and `verifiedActive` is the set of active members with a verified
email. A delivery stops at each `await` of `StartJourney` and `ResolveOwner`:
`FetchLead`; `NoExternalOwner` or `FindByExternal`; `FetchOwnerMatches` or
`FetchOwnerParks` (the CRM fails, knows no email, or nobody has it); `TryInsert`
or `TryInsertThrows` (`ON CONFLICT DO NOTHING` on either unique index, then a row
looked for by external id); `UpsertLead`; `HasNonTerminal`; `CreateJourney`.
`CheckConflict`, then `InsertStrict`/`InsertThrows`, or `UpdateMembership`, start
an admin's transaction; `BackfillLeads`, `ResumeParked` and `CommitMapping` are
its rest, and `DeleteMapping` is a statement alone. A transaction keeps its keys
(`KeyTaken`) and its rows (`heldLeads`, `heldJourneys`) until `CommitMapping`
or `AdminThrows`: a writer of one of them waits, as PostgreSQL has it wait.
`ChangeCrmOwner` and `MemberChanges` are the world outside.

**ConnectionPool.** `DrizzleService` builds a `pg` pool without options, so it
has ten connections and no timeout: `PoolSizes` makes the size a choice of
`Init`. A client `Connect`s (queues), is `Grant`ed a connection in turn, and, a
transaction, `LockRow`s its journey. A dispatch then `Query`s: `getWithSteps`,
`findPrimaryAccount`, `findCredentials` and the CRM's reads go through the pool
and not through the transaction, so it queues for a second connection while it
keeps the first. `Return` and `Finish` give them back. What `pg` does is external.

**ChannelAccess.** `access[a]` is the id of the row for account `a`, with
`isPrimary` its flag; one member and one plugin. `FindForUser` looks the access
up before the transaction; `ClearBegin` and `ClearRow` are the clearing `UPDATE`,
whose snapshot is `toClear` and whose row locks are `rowLock`; `CommitPrimary` is
the setting `UPDATE` and the commit. `late` remembers which accesses were granted
while a choice was clearing, `chosen` the last choice to commit.

**ChannelTokens.** Time is counted in intervals of the refresh service.
`RefreshTick` reads every row and keeps those near expiry (`due`), `Exchange` gets a
fresh token, `Persist` stores it whatever the row holds by then; `RefreshFails` goes
on with the next row, `ExchangeRefused` is the provider's answer to an expired
token. `TokenFor` is `readToken`: Meta may leave out `expires_in`, then the token
(of a creation, a tick or a row: `undated`) has no `accessTokenExpiresAt` and no
later tick finds its row due (`Dated`); it is still given an `expiresAt`, since it
ends whether or not anyone was told when. `MaxDuration` assumes that a tick or a
creation ends (the code gives `fetch` no timeout). A load of the directory is
`Lookup`, `Answer`, `Store`; of an answer only the time until which it is the
provider's present one is kept (`until`); the entry lives from the start of its
load, and the one stored last wins. `invalidate` has no caller and no action. A row
that cannot be decrypted makes a whole tick throw; that is one of the failures.

**ChannelWebhooks.** `account[a]` is where the creation of `a` is: `Create`
validates and mints the id that the address `/webhooks/meta/<id>` is made of;
a Cloud API account then points the app at it (`SubscribeApp`), either kind points
its WABA at it (`SubscribeWaba`), and only then is the row written (`Persist`).
`appCallback` and `override` are what Meta remembers, `Route` how it uses them;
both are external, as is `ByHand`, the WABAs that were subscribed to their app
outside this system. `Receive` finds the row (or answers 404, which changes
nothing) and parses the batch; `MarkReply` is one turn of the controller's loop,
`ReplyThrows` the exception that ends it, `Acknowledge` the 200. A message without
a text (`Messages \ Textual`) is acknowledged and not read: `parseMetaInbound`
makes no inbound message of a picture or a voice message, although
`src/docs/v0.1-scope.md:13` speaks of any reply. Coexistence echoes are texts to
the same loop. The GET that verifies an address is a read and left out.

**CadenceEdits.** `steps` are the committed steps (empty: no cadence).
`ValidateCadenceSteps` reads the templates before the transaction; `ReplaceSteps`,
`InsertSteps` are its statements, `lock` the lock of the cadence's row,
`ForeignKeyThrows` the template or cadence that went away meanwhile.
`DeleteTemplate`/`TemplateDeleted` and `DeleteCadence`/`CadenceDeleted` are one
statement each, in two steps because their cascades wait; they may fail, or be the
victim of a deadlock with an edit (`TemplateDeletionThrows`, `DeletionThrows`). A
dispatch is `LockById`, `GetWithSteps`, then `Exhaust`, `ErrorOut` (no channel, no
template, or a template that is rejected), `SkipStep` or `SendStep`; the last two
end in `ScheduleNext`, also when the channel has refused the message. `attempted`
keeps what became of each attempt, `gone` remembers the templates deleted since it
read the steps. The schema says "A null templateId is a freeform step", and the
dispatcher treats such a step as `template_required`; the model follows the
dispatcher. `stopOnReply` and the status `inactive` are stored and never read.

**Accounts.** One mailbox, whose address may be spelled in two ways: `Users` are
the account followed and its twin, `lowercase` says which of them is spelled in
lower case, `accounts` counts the rows with each. `Register` and `FindByEmail`
take the address as it was typed; `OAuthCallback`, a reset and an invitation
lowercase it, as the code does. Of the twin only its row and its membership are
kept. A request stops between statements (`pc`) and holds what it read: the user,
the version of the password it verified (`by`), and whether that was overtaken
(`raced`). `FindByEmail`, `PasswordValid`, `PasswordInvalid`, `LockUntil`,
`ResetFailedAttempts`, `Issue` are a login; `Register`, `OAuthCallback`,
`Provision`, `Link` sign-up by either way; `FindActive` looks a token up,
`SetPassword`, `MarkEmailVerified`, or `FindMembership` with `CreateMember` or
`Reactivate` are its effect, `MarkConsumed` spends it, `RevokeAll` ends a reset.
`uses` counts the effects of each token; `overlapped` and `unspent` remember the
tokens that two requests had in hand at once, and those whose request threw
between effect and consumption. `EndSession` is a logout, a revocation or expiry,
`RevokeOthers` the use case of that name. `sessions` holds kinds of sessions: two
of one kind are one.

### Abstractions

* One workspace and one cadence. The two template-variable reasons are one.
* Whether the owner has a channel account, what validation answers and what the
  channel answers are free choices (`Verdicts`, `SendAccepted`/`SendRefused`).
* The sending window is a set `OpenSlots` of times modulo `DayLength`;
  `slideToWindow` is the first later time in it. Time zones, and the seven-day
  horizon past which the code throws, are left out.
* `logTouch` and `runActions` return early when the connector account is gone.
  The foreign key cascade that would delete it waits for the locked journey row,
  so these returns are not taken inside a transaction and are not modelled.
* In `Ingestion` a lead that was never mirrored is one without owners, the times
  of a journey are left out (the engine has them), an error of the engine is
  written as `no_channel` whichever it was, and rows of `lead_journeys` are
  numbered up to `MaxJourneys`, deliveries under way included.
* Audit rows are not kept, but the statements that write them may fail
  (`ReplyAudit`, `ControlAudit`).
* `faults` bounds exceptions and crashes together; every point where a promise
  may reject is covered by it.

## Checks

Every run is small on purpose; what must be there for the hazard to occur is
named. "Distinct" is TLC's count.

| Run | Instance | Checks | Distinct |
|---|---|---|---|
| `JourneyDispatch` | 1 journey, 2 steps, 2 ticks, an operator with 2 commands, window and jitter, templates refused and steps skipped, 2 exit actions, 1 fault | `EverySendAccounted`, `AttemptsMatchProgress`, `SentIsLogged`, `ExitActionsInOrder`, `ExhaustedAfterActions`, `TouchOnlyWhileRunning`, `StuckOnlyByCommand` | 758k |
| `JourneyProgress` | 2 due journeys, batches of 1, a tick, a message, an operator with 2 commands, templates refused, 1 fault, fairness | `NoTouchAfterReply`, `ReplyTakesEffect`, `DueIsHandled` | 503k |
| `JourneyBulk` | 2 journeys, 2 owners, tick, 2 handlers of one reply, bulk updates, reassignment, backfill | `TypeOK`, `OpenTransactions`, `ReasonExplainsError`, `OnReplyAtMostOnce`, `ImplementsLifecycle` | 1.36M |
| `IngestionMapping` | 2 CRM users with one e-mail, 2 members, a delivery, 2 admins (interchangeable), 1 journey | `TypeOK`, `OneOwnerPerMember`, `ResumedWithOwner` | 704k |
| `ConnectionPool` | 2 ticks, a writer, a reader, 2 journeys, pools of 1 to 4, 2 queries a dispatch, fairness | `TypeOK`, `StuckOnlyWhenFull`, `EveryoneServed` | 63k |
| `ChannelAccess` | 2 accounts, 2 choices (interchangeable), 4 accesses ever | `TypeOK`, `OnePrimary`, `LastChoiceWins` | 307k |
| `ChannelTokens` | 1 account, 2 ticks, 2 loads (interchangeable), tokens of 8 intervals due with 6 left, with or without an expiry, 2 failures | `TypeOK`, `TokenStaysValid`, `ServedIsRecent` | 5.78M |
| `ChannelWebhooks` | 3 accounts of 2 WABAs of one app, one WABA subscribed by hand, 3 messages (1 without text), 2 posts at once, 1 failure, fairness | `TypeOK`, `CustomersApart`, `NoReplyLost`, `MessagesArrive` | 209k |
| `CadenceEdits` | 1 journey, cadences of 1 or 2 steps, 1 template, 2 editors with 3 edits, 1 failure, fairness | `TypeOK`, `ExhaustedAfterAttempts`, `BodilessOnlyByRace`, `JourneyEnds` | 668k |
| `Accounts` | 2 spellings, 2 requests (interchangeable), one token of any kind, 2 failed attempts lock, 3 passwords, 1 failure | `TypeOK`, `OldSessionsOnlyByRace`, `LockedAtLimit`, `SingleUse` | 727k |
| `JourneyOverwritten` | violation: a tick, a reply, an operator | `TerminalIsFinal` | |
| `IngestionTwice` | violation: 2 deliveries | `OneInFlight` | |

What the newer properties say, and why they are not weaker than they look:

* `DueIsHandled` has two exceptions, because the code has them. A journey whose next
  step is already claimed (`Stuck`) is skipped by every tick, without a change, and
  stays due. And as `findDueIds` has a limit and no order, stuck journeys enough to
  fill a batch (`BatchFull`) may be all that it returns from then on. The run has
  both: one journey stuck by a command fills its batch of one. `StuckOnlyByCommand`
  says how a journey gets there: a refused template claims its step and puts the
  journey in error, and a command of an operator (a pause whose status was read
  before, then a resume) makes it run again; nothing the engine does by itself,
  faults and skips included, does.
* `StuckOnlyWhenFull`, `EveryoneServed`: with ten connections, one dispatch that
  holds a row and nine replies or ticks that wait for that row come to a
  standstill for ever once the dispatch asks for its second connection. The model
  shows that this is the only shape a standstill has, and that none exists when
  the pool has one connection more than there are transactions at once.
* `OnePrimary`, `LastChoiceWins`: the schema says that the rule of one primary "is
  enforced in the use-case"; it is, except for an access granted while a choice
  is clearing the others, which the clearing `UPDATE` does not see.
* `TokenStaysValid`: what the buffer buys. Each failure costs an attempt and each
  crash those of every tick under way; as long as the buffer has room for one
  more, no stored token has expired, but for those that came without an expiry:
  they are never refreshed, and a refresh may even put one in the place of a token
  that had an expiry. `ServedIsRecent` is a statement about the past: what is served
  was the provider's answer within the last TTL. An older answer may replace a newer
  one; the property tolerates it and bounds it by the TTL.
* `CustomersApart`: one app serves several customers and its callback is the
  Cloud API account created last, so the override of each WABA is what keeps them apart,
  whatever creation is cut short where. `NoReplyLost`: a post is acknowledged only
  when all its texts were marked. `MessagesArrive` has an exception: a creation
  cut short after its WABA was pointed at it takes that WABA's messages away for
  good, because nothing undoes the subscription.
* `ExhaustedAfterAttempts`, `BodilessOnlyByRace`, `JourneyEnds`: a cadence may be
  shortened, lengthened or deleted under a journey; no place is skipped, no
  journey is exhausted before a first attempt or runs for ever, and a message leaves without
  its template only if that was deleted between two reads.
* `OldSessionsOnlyByRace`, `LockedAtLimit`: each names the only ways in which a
  reset leaves an old session, or the lock is missing at the limit: an overlap
  inside one login, and a statement that failed half-way. `LockedAtLimit` says
  nothing once a lock has expired until the next one, nor of a lock that lands
  after a reset of the counter.
* `SingleUse`: the code and its specification call these tokens single-use. They
  are, with two exceptions, which the property names: two requests that had the
  token in hand at once both take effect, and one that throws between effect and
  consumption leaves the token to be used again.

Bounds: two ticks are enough for any race on the row lock, since a third would wait
like the second; two steps have a first, a last and an order; one fault is enough to
separate a send from its commit, and the retry that follows is a later transaction;
`MaxCommands = 2` allows a pause and a resume, which is what it takes to leave a
journey stuck, or a stop that races one of them; `MaxTime` only has to let the last
step fall due, and in `JourneyProgress`, which has one step, everything is due from
the start, so that the two journeys compete for a batch of one. In ingestion two CRM
users who share an email contend for both unique indexes, two admins contend with
each other and with the delivery's automatic match, and a second journey is all it
takes for two to be in flight. `AdminSymmetry` is sound where it is used: `Admins`
occurs in no liveness property of that run; the same holds of the symmetries of
`ChannelAccess`, `ChannelTokens` and `Accounts`, which check invariants only. Pools
of one to four connections lie on both sides of the three transactions. Four
accesses let an account be granted, revoked and granted again under two choices. The
buffer of six intervals leaves room for two failures that cost `MaxDuration + 1 = 2`
each and for a slow tick (2 * 2 + 1 < 6), so that the property binds in every state
of the run; tokens of eight intervals are due again within it. In `ChannelWebhooks`
two accounts of one WABA replace each other and the third shares only the app;
messages of both WABAs can share a batch while the app's callback serves the WABA
subscribed by hand. Three edits suffice to shorten, lengthen and shorten a cadence
of two steps. Three passwords are the first one, a reset and a second reset by a
stale request. In `Accounts` one token is enough for two requests to have it at
once, or for a second to find it after the first has thrown (with two tokens and two
passwords the same properties hold on 4.6M states).

Fairness (`Fairness` in `JourneyEngine`): the poller's interval keeps firing and
awaited promises settle, so each tick and each handler at work is weakly fair.
Inbound messages, operators, faults and the passing of time are not fair.
`ConnectionPool` assumes that statements and HTTP calls come back (weak) and that
PostgreSQL wakes whoever waits for a row in the order they came, so that a waiter
who could go on again and again does (strong);
`CadenceEdits` that the poller comes back for a journey. `ChannelWebhooks` assumes
that calls return, and that Meta posts each text again until it is acknowledged
(strong, because a call slot may be taken by other messages in between): the code
relies on it by answering with an error. `ConnectionPool`, `ChannelWebhooks`,
`CadenceEdits` and the others that switch deadlock checking off may really stop:
when nothing is asked of them any more, when the bounds of the model are used up,
and in `ConnectionPool` at the standstill `StuckOnlyWhenFull` describes.

### What the violations show

* `JourneyOverwritten`: `ControlJourney` validates against a status read without
  the lock and then updates unconditionally, so a reply or a stop that commits in
  between is overwritten, although the table allows no event from those statuses.
* `IngestionTwice`: the test of "one journey in flight" sends its two events one
  after the other; the check and the insert are two statements with no
  constraint between them, so two deliveries at once both find nothing.

Further disagreements and gaps were met, and are described here without a run of
their own, since a property above already says what does hold:

* `touch_attempts` is documented as the guard that keeps a retry from sending a
  step twice (`src/apps/api/src/db/schemas/touch-attempts.ts:8`), but the claim is
  inserted in the transaction that spans the send and the CRM call; when something
  after the send fails, the claim is rolled back and the next tick sends again.
  `EverySendAccounted` states that this is the only way.
* Nothing repairs a journey that an operator has made to run again after its template
  was refused: its step is claimed already, so every tick skips it
  (`engine/core/journey-dispatcher.ts:134`), and it stays due for
  ever. `DueIsHandled` and `StuckOnlyByCommand` state how far it goes.
* The table lets a reply end a paused journey, and
  `.specs/features/007-engine-state-machine-entry-trigger/spec.md:39` says that a
  reply always stops the cadence, but the handler searches for running journeys
  only: a reply while paused is dropped and a later resume touches the lead.
  `NoTouchAfterReply` is therefore about replies that took effect, and holds until
  an operator gives a command; it is proved where there are no bulk updates either.
  Nor does it hold for a lead with two running journeys, of which one message takes
  one: it is checked and proved for leads with one journey each.
* A mapping committed after a delivery looked for it and before the delivery wrote
  its lead backfills nothing: the journey stays parked although its owner is
  mapped, until the mapping is touched again.
* Overlapping deliveries are not the only way to two journeys in flight: a journey
  in `error_state` does not count as in flight, so two events for a lead without a
  mapped owner park two journeys, one after the other, and the backfill of the
  mapping resumes both (`engine/persistence/lead-journey.repository.ts:249`).
  `IngestionOneAtATime` has its hypotheses for these two reasons.
* `identity/core/use-cases/reset-password.use-case.ts:25` and
  `confirm-email-verification.use-case.ts:17` call their tokens single-use, and
  `.specs/features/020-password-reset/spec.md:34` makes reuse impossible; a token
  is looked up and consumed in two statements with its effect in between. `SingleUse`
  states both ways to a second use.
* An address is stored and looked up as it was typed by registration and login
  (`register-user.use-case.ts:45`), and in lower case by OAuth and resets
  (`handle-oauth-callback.use-case.ts:50`, `request-password-reset.use-case.ts:28`),
  although `.specs/features/047-crm-owner-mapping/spec.md:243` says that registration
  "normalizes to lowercase". So a mailbox can have two accounts, and
  one registered with capitals can never reset its password. `TypeOK` of `Accounts`
  claims one account for each spelling, no more.
* Meta may hand out a token without `expires_in`
  (`channel/plugins/meta-whatsapp/meta-coex-token.ts:87`); its row is then never near
  expiry (`oauth-refresh.service.ts:82`) and nothing refreshes it.
* A cadence may be exhausted without a message having left: a refused or skipped
  step advances a journey like a sent one (`engine/core/journey-dispatcher.ts:177`).

## Proofs

`JourneyEngineProofs` proves, from the named assumptions of the modules alone,
that `IInv` is inductive: `TypeOK`, `OpenTransactions`, and the four accounting
invariants. `OpenTransactions` is what makes the rest inductive: it says of each
open transaction that it holds the lock of its row, that the row is still due and
at the step it read, how far its external calls have gone, and that bulk updates
hold the rows they reached. From it follows that two transactions never share a
journey (`SoleHolder`), that what a commit writes is what was read, and that a
send is accounted for by exactly one of: the open transaction, the recorded
attempt, a rollback.

The argument has three layers. `RequestFrame` says that no request touches a row
a dispatch holds (one lemma per use case). `TickOutcome` says that a step of a
tick keeps the types and its own view and leaves rows held by others alone (one
lemma per action). `ViewKept` says that a tick's view survives whatever leaves its
row alone. `NextInvariant` puts them together, with lemmas for the clock and for
a crash. The results: `EngineTypes`, `EngineOpenTransactions`, `EngineSends`,
`EngineProgress`, `EngineLogs`, `EngineExhausts`, and the action property
`EngineTouches`.

Five more invariants of the same module rest on this one:

* `ExitOrder` adds to `ExitActionsInOrder` that of the actions an open exhaustion is
  going through, the last one run is ahead of the next by at least one; a fault may
  make every action run again, but never the second more often than the first
  (`EngineExitOrder`, for any constants).
* `BulkHolds`: a bulk update holds only rows its event applies to, because what it
  locked nobody changes (`EngineBulkHolds`, for any constants). So the commit of
  a bulk update, though it looks at no status again, obeys the table.
* `ReplyOnce`: at most one handler has marked a journey, and of the actions of
  `onReply` only those up to the one it has reached have run (`EngineReplies`).
* `Refused`: a journey whose next step has an attempt is in error, for a reason no
  backfill clears (`EngineStuck`): an attempt moves its journey on or stops it in error.
* `HeardReplied`: where nobody has paused journeys, those a message was about are
  replied (`EngineNoTouchAfterReply`).

`EngineImplementsLifecycle` is the refinement, step by step. `StatusOutcome` says
of a step that it is one of the lifecycle or a stutter and that error reasons stay
where they belong; there is one lemma for each group of actions (`DispatchStatus`,
`ProceedStatus`, `ReplyStatus`, `BulkStatus`, `BackfillStatus`), and the
touch of a dispatch is a touch of the lifecycle because the view of the open
transaction still holds when the send is accepted. The lifecycle's own theorems
(`LifecycleTypes`, `LifecycleOrder`, `LifecycleRest`) are proved of the instance the
engine refines, so that they carry over: `EngineRests` says that a journey which
is replied, exhausted or stopped is left for good, `EngineTerminal` that its status
is final, `EngineReasons` that an error reason is shown exactly in `error_state`.

These assume `Controls = {}`, no command of an operator, and the assumption is
needed: `ControlWrite` updates without looking at the status again, which is no step
of the lifecycle (`JourneyOverwritten` shows one). `EngineReplies`,
`EngineNoTouchAfterReply` and `EngineStuck` hold with operators, of the time before
the first of their commands (`commands = 0` in the properties), since a replied
journey that a stale resume brings back can be replied to, or touched, again.
Everything else holds with operators. `EngineNoTouchAfterReply` also assumes that
there are no bulk updates and that a lead has one journey; what happens otherwise
is described above.

`IngestionProofs` does the same for ingestion. Its `IInv` adds to `TypeOK` and
`OneOwnerPerMember` what each request has in hand at each step (`InHand`), that
open transactions claim different CRM users and different members, none of them
mapped elsewhere (`Claims`, without which two inserts could both commit), and
that the leads and journeys a backfill found are still as it found them
(`Holdings`, without which a commit could give a lead away that a delivery has
just rewritten). `KeysStep` and `HoldStep` are the two halves of the step; the
results are `IngestionTypes`, `IngestionMapsApart` and the action property
`IngestionResumes`. `IngestionOneAtATime` is the positive side of `IngestionTwice`:
with one delivery at a time and no admin, a lead has at most one journey in
flight. Its invariant `Apart` adds that a delivery about to create a journey
still has its lead to itself.

The modules around the engine have proofs of the same kind, each for any
constants that satisfy the module's assumption:

* `ConnectionPoolProofs`: who waits for a row finds it held by an open transaction
  (`RowLocks`), who waits for a connection is in the queue once (`Queue`), each
  kind of client does only what its kind does (`Roles`). From these a standstill
  is read off by counting connections: `PoolStandstill`, and `PoolLargeEnough`,
  that a pool with more connections than transactions has none.
* `ChannelAccessProofs`: ids are never used twice (`Ids`), locked rows stay
  (`Locks`), and what a clearing choice has not locked it has yet to reach or was
  granted meanwhile (`Coverage`). Results: `AccessOnePrimary`, `AccessLastChoice`.
* `AccountsProofs`: what a request holds at each step (`Holdings`), that nobody
  has a password before there is an account (`Passwords0`), `TokenUse` (a token two
  requests hold is remembered as such, one without a holder is consumed, not yet
  used or left by a request that threw, and a second use is excused), and `OldSessions`,
  which is stronger than `OldSessionsOnlyByRace`: only a reset past its change of
  the password excuses an old session, and a login either has the present password
  or knows that it was overtaken. Results: `AccountSessions`, `AccountLocks`,
  `AccountTokens`, for any number of requests, tokens and failures.
* `ChannelWebhooksProofs`: the address of a WABA is one of its own accounts
  (`OwnAddress`) and no row is written without one (`AddressFirst`); a post has
  marked its texts or has them still to do (`MarkedOrLeft`). Results:
  `WebhookCustomers`, `WebhookReplies`.

* `CadenceEditsProofs`: an edit holds the row's lock from the deletion of the old
  steps to the insertion of the new ones and never inserts none (`EditHoldsRow`), so
  a cadence without steps is a deleted one, whose journeys are gone
  (`StepsUntilDeleted`); the steps name templates that exist (`StepsNameTemplates`),
  so those a dispatch has read do too, but for the deleted since (`DispatchReads`).
  Results: `EditsAttempts`, `EditsBodies`.
* `ChannelTokensProofs`: `TokensServedIsRecent` from `LoadsRecent` (the value a load
  holds was the provider's after the load began) and `EntryRecent`.
  `TokensStayValid` counts: a token with an expiry that nothing has rewritten was
  due at every firing of the interval since its buffer began; each of these firings
  either has a tick still at work on the token or was lost (`Lost`), and a failure
  loses at most `MaxDuration + 1` of them (`AttemptsLost`). As long as that leaves
  room for one more tick, the token has not expired. It needs to know that no tick
  outlasts `MaxDuration` (`TicksInTime`), that a creation does not either
  (`CreationsInTime`), and that a row read by a tick is as it was or was written
  with more than the buffer left (`ReadOrRewritten`): late writes of a slow tick
  never shorten a token below the buffer.

Each inductive invariant was first checked by TLC on the instances of the runs.

Only model-checked: the liveness properties `DueIsHandled`, `ReplyTakesEffect`,
`EveryoneServed`, `JourneyEnds` and `MessagesArrive`; fairness and ENABLED are
beyond the prover. Every other property of a passing run is proved.

## Plan

1. Proofs that are left: what holds of the engine with operators (which terminal
   statuses a stale command of each kind can undo), and one journey in flight under admins.
2. `SendingWindow`: `slideToWindow` against the first later minute inside the
   window. Its horizon is seven days of absolute time, so a window that is open
   less than an hour on one day a week has no slot within it when clocks change;
   the dispatch then throws and the journey is tried again until it has.

The project keeps a dozen runs; a new module's run takes the place of the least
informative one.

## Not modelled

* The web application, routing readiness, the read models (lists, engagement,
  touch log, dashboards): they read and keep no state of the system's own. They are
  most of the repository's lines, as are its tests, design notes and the tools and
  research snippets under `src/.agents` and `src/.specs`, which are not the program.
* Entry triggers (a lookup), the Pipedrive plugin and the Graph API calls (I/O,
  whose answers are free choices of the modules that make them), payload parsing
  beyond which messages count, mail, logging.
* Switching the workspace of a session, renaming and listing: single statements on
  rows nothing else here depends on.
* The arithmetic of the sending window and of time zones (see the plan), jitter
  beyond its bounds, encryption.
* What Meta does when it verifies an address before its row exists: the design
  (`.specs/features/029-meta-auto-subscribe/design.md`) draws the verification
  later, and the code has no say in it.
