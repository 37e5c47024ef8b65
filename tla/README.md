# OmniPulse backend: a TLA+ verification project

OmniPulse sends campaigns to many contacts over WhatsApp, Telegram, SMS and social
channels, and answers what the contacts write back: in a shared inbox, by people
and by an assistant. This directory models the parts of the backend in which
several processes act on one piece of state at the same time, or in which a
failure between two statements leaves them apart. TLC checks the models on small
instances and TLAPS proves the most important invariants for every instance.

Paths below are relative to `src/apps/api-gateway/internal/` unless they start
with `src/`.

## 1. Inventory

| Component | State it keeps | Operations | Talks to |
|---|---|---|---|
| Campaign ledger `repository/postgres_campaign.go` | `campaigns` row with its progress; one `campaign_deliveries` row per (campaign, target_type, routing_value) | guarded and unguarded UPDATEs; `RecordDeliveryResult`, claim and release of rows | everything of the next six |
| Dispatch `usecase/campaign.usecase.go` | none; reads the campaign, publishes, marks | `TriggerDispatch` | ledger, stream |
| Scheduler `service/scheduler_service.go` | none | every 15 s, a goroutine per due campaign | dispatch |
| Streams `event/nats_publisher.go` | the stream, the durable consumer `broadcast-delivery-pool` | publish, push, ack, nak, redeliver | workers, telemetry |
| Delivery workers `worker/broadcast_sub.go`, `src/apps/broadcast-worker/internal/worker/broadcast_sub.go` | the task in hand | `executeDelivery` | ledger, providers, stream |
| Telemetry consumer `worker/telemetry_sub.go` | the receipt in hand | `processReceipt` | ledger, notifications |
| Retry `usecase/campaign.usecase.go` | what it has claimed | `RetryDeliveries` | ledger, stream |
| Review and approval `usecase/review_usecase.go`, `usecase/campaign.usecase.go` | approval columns, review events | edit, submit, approve, reject, schedule, cancel, decide | ledger |
| Consent `repository/postgres_consent.go`, `usecase/consent_usecase.go` | `consent_events`, append-only; `contacts.status`, its projection | keywords, `ApplyEvent`, back-fill at every start | contacts, webhooks |
| Contacts `usecase/contact_usecase.go`, `repository/postgres_contact.go`, `service/retention_sweep.go` | `contacts` and what hangs on them | register, import, erase, sweep, synchronise | consent, plan limits |
| Inbox `repository/postgres_inbox.go`, `usecase/inbox_usecase.go` | messages, unread count | reply, edit, delete, receipts, echoes | platforms, assistant |
| Assistant `service/ai_reply_queue.go`, `service/ai_engine.go`, both `ProcessAIReplyJob`s | reply queue; AI state of a conversation | queue, check, generate, send, record, escalate | inbox, models |
| Knowledge `service/knowledge_ingestion_queue.go`, `repository/postgres_ai_agent.go`, `handler/ai_agent_handler.go` | ingestion jobs with leases, items with vectors, open questions, settings | upload, claim, settle, edit, search, resolve | queue, models |
| WhatsApp sessions `service/whatsapp_manager.go` | live sessions, stored devices, the channel's row and its ownership key | pair, connect, log out, disconnect, restart | contacts, inbox, assistant |
| Channels `handler/channel_handler.go`, `repository/postgres_channel.go` | `tenant_channels`, a bot's webhook at Telegram | connect, disconnect, sync | plan limits, Telegram |
| Billing `usecase/billing_usecase.go`, `usecase/commerce_usecase.go` | the subscription row, payment links | two providers' webhooks, links | contacts, channels, dispatch (limits) |
| Teams and identity `usecase/team_usecase.go`, `usecase/identity_usecase.go`, `repository/postgres_identity.go` | workspaces, members, invitations, each user's active workspace | sign-in, invite, accept, remove, promote, switch, delete | every request's role |
| Hubs, watchdog, dashboard, HTTP surface, compliance engine | see section 9 | not modelled | |

The programs share nothing but Postgres and NATS. What is hard lies between two of
their statements, and `PROJECT.json` "hazards" lists it line by line:

* **Interleaving.** Two dispatches, retries, webhooks, agents or pairings; an edit
  and an approval; a human and the assistant in one conversation.
* **Order.** Receipts before the campaign is marked; a START and a later STOP in
  transactions that overlap; an update event before its checkout; an echo before
  the message it repeats.
* **Failure.** A process dies between the provider's answer and its own record; a
  publication is stored and its answer lost; a lookup errs and the error is read
  as an answer; a provider delivers a webhook again.
* **Guarding by a stale read.** Most use cases read, decide, and then write with a
  statement that repeats only part of the decision, or none of it.

What makes the parts correct:

* **Delivery**: no outcome is lost or invented; nobody gets a campaign twice; a
  pause stops what is not yet past the controls; a campaign completes when all have
  reported, and then it does.
* **Retry**: a row is retried by one call; a row claimed is sent or released.
* **Review**: what is approved, and what goes out, is what somebody looked at.
* **Consent**: the last word of a contact counts, whatever comes late or again.
* **Contacts**: capacity is kept; erasure keeps the delivery history.
* **Inbox and assistant**: a message is recorded once and answered once; nobody
  talks over an agent; read stays read; unread is counted.
* **Knowledge**: one worker per document; an accepted document is settled; a search
  leaves nothing out; a question is counted by one row.
* **Sessions and channels**: a live session belongs to the workspace that owns its
  account; a bot gets its webhook back.
* **Billing**: the limits are those of the plan, the plan that of the last purchase.
* **Teams**: a workspace keeps an owner; a role never travels with its user.

## 2. Modules

| Module | Models | Run |
|---|---|---|
| `Contracts` | the two messages: a task is (call, target), a result is (task, attempt, outcome) | `pipeline_*` |
| `Environment` | opt-outs, closing windows, the budget of faults | `pipeline_*` |
| `CampaignLedger` | one campaign's rows, one operator per statement; `RowOf` maps a target to its row | `pipeline_*` |
| `DispatchStream` | stream, durable consumer, client buffers | `pipeline_*` |
| `BroadcastWorker` | `executeDelivery` of both programs, one action per guard | `pipeline_*` |
| `TelemetryConsumer` | `processReceipt` | `pipeline_*` |
| `CampaignDispatch`, `DeliveryRetry` | `TriggerDispatch`, `RetryDeliveries`, several calls at once | `pipeline_*` |
| `DeliveryPipeline` | the composition of all of the above, and its properties | `pipeline_*` |
| `DeliveryContract` | what the delivery report promises its reader: the abstract specification | `pipeline_all` |
| `DeliveryRefinement` | the mapping from `DeliveryPipeline` to the contract | `pipeline_all` |
| `ReceiptTransactions` | `RecordDeliveryResult` statement by statement under READ COMMITTED | `assistant` |
| `CampaignReview` | a campaign before it is sent; calls as read-then-write pairs | `workspace` |
| `Audience` | the contact directory and the consent ledger | `workspace` |
| `Teams` | workspaces, members, roles, invitations | `workspace` |
| `ChannelRegistry` | channels, their quota, the Telegram webhook and its sync | `workspace` |
| `WhatsAppSessions` | devices, sessions, rows and ownership keys | `workspace` |
| `Conversations` | one conversation: messages in, the reply queue, the assistant, the agent | `conversations` |
| `KnowledgeIngestion` | uploaded documents, their queue, their leases | `conversations` |
| `InboxMessages` | the message store: replies, echoes, receipts, edits, the unread count | `assistant` |
| `KnowledgeBase` | items, vectors, search, open questions | `assistant` |
| `AssistantReplies` | settings, working hours, the two model providers and the confidence bar | `assistant` |
| `KnowledgeChunks` | the cutting of a document into sections | `assistant` |
| `Billing` | the subscription row under both providers' webhooks; payment links | `assistant` |
| `PipelineProofs` | theorems about `DeliveryPipeline` and `DeliveryContract` | section 6 |
| `ScenarioProofs` | about the three scenarios of `MCPipelineSafety` | section 6 |
| `QueueProofs` | about `Conversations` and `KnowledgeIngestion` | section 6 |
| `ChannelProofs` | about `ChannelRegistry` and `WhatsAppSessions` | section 6 |
| `WorkspaceProofs` | about `Teams` and `CampaignReview` | section 6 |
| `AudienceProofs` | about `Audience` | section 6 |
| `AssistantProofs` | about `ReceiptTransactions`, `InboxMessages`, `KnowledgeBase`, `AssistantReplies`, `KnowledgeChunks`, `Billing` | section 6 |
| `TypeProofs` | about the types of the parts of `workspace` | section 6 |
| `MC...` | the instances for TLC | section 3 |

### How state and actions correspond to the code

*Ledger.* `status`, `total`, `processed` are the campaign's columns; `rows[k]` is a
delivery row with its status (`queued`, `delivered`, `failed`, and `refused` for
`failed` with `retryable = FALSE`) and the target whose platform and contact the
first INSERT put in it; the upsert never changes these. `absent` is no row.
Whether a statement has a WHERE on the status is kept exactly: `PauseCampaign`
has one, `SetDispatching` and `UpdateStatus` have none.

*Stream.* A message may have several copies in flight. `Nak` and an expired
`AckWait` push another copy with the next `NumDelivered`, which the worker
compares with `maxRetries`. An acknowledged message is pushed no more, but a copy
that was pushed before can still be taken: the client's buffer does not know. The
delay of `NakWithDelay` is abstracted to a redelivery at any later time.
`delivered` stops at `MaxDelivered`; with 3, the value of `maxRetries`, this loses
nothing, because the code only asks whether the count has reached it.

*Workers.* `wpc` is the next step of a worker: `consent`, `held`, `ended`,
`dedup`, `send`, `report`, `settle`; other processes may act between any two.
`GatewayWorkers` run the gateway's handler and `StandaloneWorkers` the other
program's, which passes over `held` and fails open on an erring consent lookup.
An attempt fails for good, or for a rate limit or the network, at any delivery, as
`classifyDeliveryError` says; the deduplication guard asks for a delivered row with the
task's routing value and platform (`PlatformOf`), where the row's key has the target type.
`sends[t]` counts messages that providers accepted, and `slips` the gateway's provider
calls during a pause; the program has no such counters: they are history variables.

*Dispatch, retry, review.* A call is a process: a read, then one step per publication
or the write. What it has read stays in its record, so later steps act on what may
have become stale, as the code does. In the review, content is a version number and
a write applies only if its WHERE holds then; `cleared` is history.

*Audience.* `contacts[r]` is a row, `ledger` the set of consent events with their
provider's time and the order they were recorded in. A person has one number, known
under three routing values: digits (webhooks, imports), digits after a plus (a
paired session), a LID. A request is a process of several statements. `ApplyEvent`
is three of them: the INSERT with the idempotency key, which waits for another
transaction's uncommitted key; the projection, whose subquery reads the snapshot
taken before the UPDATE waited for the row's lock; the commit. `GatewayRestarts`
drops every request and runs the migrations of `src/apps/api-gateway/cmd/main.go`. Any
statement may fail, and each goes on as the code does: a write is rolled back, a contact
that cannot be looked up is taken for new, a plan or a count that cannot be read lets
contacts in (`spent.unmetered` counts them).

*Teams.* A request resolves workspace and role in the middleware and acts on what it
resolved. Counting the owners is a step, the write another. `granted` is history:
the roles people were given; `disturbed` names what has happened that a property
makes an exception for.

*Sessions.* `devices` are the rows of whatsmeow's store, `sessions` the entries of
`m.clients`, `channel[w]` the workspace's row. Pairing, connecting, logging out and
disconnecting are split where the code calls the library or the database. A start finds
a device's workspace by the ownership key, or by the number in the row's label where no
row has the key; which labels show the number is any choice.
*Channels.* A creation is quota check, which passes when it cannot be made, verification,
webhook, row; a sync reads
and deletes the webhook, polls, restores what it read.

*Conversations.* `inbox` is what `messages` holds, `out` what was sent to the
contact, by whom and in answer to what; a reply job is a runner (the queue's worker,
or the goroutine of the fallback) that goes from check through generation, sending
and recording to the escalation. The check lets the reply through when the state cannot
be read, and a job that waits, or is worked on, longer than `AckWait` gets a second copy. `conv` is the row's AI state, `late` counts replies
sent since an agent silenced the assistant. *Ingestion*: the row, the queued
message, and the workers' leases; time is the order in which redelivery and the end
of the lease become possible (6 and 10 minutes). The lease is a clock: that it does not
run out under a worker rests on the worker's context of 5 minutes.

*Message store.* Two identities meet in a row: the message the platform has (`out`)
and its record (`inbox`). The unread count is the separate statement it is, and may
fail on its own (`missed` counts these).
*Knowledge base.* An item's text is a version and its vector the version it was
computed from. A search takes the set of its queries that fail. *Sections.* A document is a row of positions, each blank or not; the
boundary found in the search window is any position in it.
*Billing.* `row` is the subscription, `purchases` what the customer has at the
providers, `notices` the webhooks, each handled by a process that reads, then writes.

### Abstractions

* One campaign, one conversation, one document set: what is left apart in the code
  is left apart here. Components that share no state share no run's behaviour.
* The audience is read once, with the campaign. Paging by offset while contacts
  change is left to section 8.
* `RecordDeliveryResult` is one atomic step of `CampaignLedger`;
  `ReceiptTransactions` splits it into its statements and shows that with one
  consumer the result is the same.
* The provider call is one step with the outcomes delivered, transient, permanent,
  and, as a fault, accepted with the answer lost.
* Requests that the code refuses before it changes anything do not occur, unless
  the refusal is what a property is about (quotas, owners, ownership keys).
* Names, texts, credentials, personalisation, prompts and logging are left out.

## 3. Runs

The bounds are the constants of the `.cfg`. Parts that share no state in the code
are checked in one run: the variable `part` (or `scenario`) is chosen in the initial
state, and the others stay as they begin, so the state spaces add up and do not
multiply. Each part is a specification of its own (`TeamsSpec`, `BillingSpec`, ...)
and can be run alone.

| Run | Bounds | States | Shows |
|---|---|---|---|
| `pipeline_safety` | 2 targets; scenarios: one of 9 kinds of fault with pauses; no fault, both worker programs and every operation; 2 retries, a dispatched task delivered once and a retried one twice | 1.75 M | acknowledged tasks have reported and completion is settled; nobody gets the campaign twice, one notice; a row is claimed by one retry and served; a pause stops provider calls |
| `pipeline_all` | 1 target, a dispatch whose task is delivered up to twice and a retry whose task up to three times, expiry, two of 15 kinds of fault | 1.6 M | types; outcomes are neither lost nor invented; every step keeps `DeliveryContract` |
| `pipeline_live` | `FairSpec`, 2 targets, pauses, a crash of the telemetry consumer | 62 k | the stream drains; a campaign completes and is notified |
| `pipeline_retrylive` | `FairSpec`, 1 target, a retry, an opt-out, one of 4 kinds of fault | 278 k | a queued row gets a result |
| `conversations` | replies: 2 messages, 2 deliveries, 1 call, one of 10 kinds of fault; documents: 2 documents, 2 workers, 3 deliveries, two of 6 kinds of fault | 0.72 M | one reply per message, one late reply at most and one more per fault that lets it through, an escalation stands, leases hold, queues settle |
| `workspace`, part `audience` | 1 person, 2 rows, 2 words; one at a time, 5 requests, or 3 where a statement fails, the gateway restarts or a phone's contacts come | 374 k | status, keywords, capacity, history |
| part `requests` | as above, 2 requests that overlap, no fault | 72 k | a keyword is one event |
| part `teams` | 2 users, 2 workspaces, 2 requests, 5 turns, 1 failing query | 157 k | owners remain; roles do not travel |
| part `channels` | 2 workspaces, 2 bots, 2 other platforms, limit 1, 2 requests, 1 fault | 429 k | the quota by requests and faults; the webhook comes back |
| part `sessions` | 2 workspaces, 1 account, 2 session slots, 2 pairings, 1 fault | 219 k | a live session's workspace owns its account |
| part `review` | 4 versions, calls that do not overlap | 20 k | approvals and decisions are about the current content |
| `assistant` | messages: 2 in, 2 out, 2 edits, 1 fault; knowledge: 2 topics, 2 items, 2 versions, any of 3 queries failing; settings: a day of 3 hours; documents of length 0 to 9; billing: 3 notices, 2 handlers, 2 deliveries; receipts: 3 targets | 0.87 M | one property or more per part, see below |

Why these bounds are enough for the case a property is about. Two targets meet only
in the count of rows, in a shared row and in the loops of calls, each of which has
its first and its other iteration with two; `receipts` has three, so that a count
can be wrong by a row that is neither the first nor the last. Two workers, retries,
requests or handlers are the smallest number at which calls overlap. One fault
suffices for the outcome of a task; where a fault leads to code in which another may
occur (the clean-up of a retry, the redelivery of a document) there are two. One
account is what two workspaces compete for. A limit of 1 with two requests is the
smallest at which a count is stale. Three notices are a purchase, its change and
the next purchase. A day of three hours has shifts within a day, across midnight
and of no length. Sections of 3 with an overlap of 1 have boundaries before, in and
after the overlap. The liveness runs are smaller because TLC checks fairness on the
whole state graph.

Model values that the code does not tell apart are symmetric in `pipeline_safety`,
`workspace` and `assistant` (topics), which check safety only: the symmetric sets occur in the properties
only under quantifiers.

Deadlock is not checked: a campaign ends, a bound of requests is used up, a queue is
empty, and the system then really rests.

### Runs that end in a violation

Each checks one property that a comment of the repository states, and
`PROJECT.json` "findings" quotes it.

| Run | What the code does |
|---|---|
| `v_retry_dropped` | a retry that read `processing` claims a row of a campaign completed meanwhile; nothing reopens it, its tasks are dropped and the row stays queued |
| `v_cancel_revived` | `SetDispatching` overwrites a cancellation that came while the tasks were being published, and the recalled tasks are sent |
| `v_shared_row` | two targets with one address (a phone number on WhatsApp and on SMS): total 2, progress 1, never complete |
| `v_edit_race` | an edit that read a draft leaves an approval granted meanwhile standing over new content |
| `v_optout_undone` | a START and a later STOP in transactions that overlap: the START's projection waits for the row, does not see the STOP's event, and sets the contact active |

### What the passing runs assume, and what happens otherwise

A property names the causes it cannot bear, or its run leaves them out. Change the
constants or drop the named condition, and TLC shows the effect.

| Property | Holds without | Otherwise |
|---|---|---|
| `FaultlessIsOnce` | `worker_crash`, `reply_lost`, `result_publish`, `ack_wait` | the send and its record are two steps: a task that comes again between them is sent again (`src/DELIVERY_SAFETY_BASELINE.txt` lists the race) |
| `FaultlessIsOnce` | a second dispatch | both read the campaign before either marks it; the scheduler claims nothing |
| `RetriedIsServedOnce` | `task_publish` | a publication counted as failed was stored; its row is released, retried, and two tasks are live |
| `FaultyIsSettled` | `campaign_lookup`, `expiry_publish`, retries that read `processing` | guards acknowledge without a result; a claim lands after the completion |
| `PauseStopsSending` | (stated as it is) | the calls of stand-alone workers are not counted, since that program has no recovery controls and `src/render.yaml:42` deploys it; an erring lookup is passed over and counted |
| `CountIsExact` | a second consumer | each transaction counts before the other commits |
| `DecisionsAreCurrent`, `BrandHasAgreed` | overlapping calls, `BrandReloads = FALSE` | an approval over new content; an answer that names no version |
| `OnlyClearedIsSent` | `LookupMayFail` | an erring lookup of the setting reads as "not required" |
| `AudienceIsKept` | overlapping requests | two registrations exceed the capacity, an import overrules a STOP handled between its rows |
| `AudienceIsKept` | a plan or a count that cannot be read | the registration or the import passes, and the capacity is exceeded by what it adds: as many contacts as `spent.unmetered`, which the property allows for |
| `AudienceIsKept` | keywords in `missed` | an opt-out whose recording fails is answered 200 and lost; delivered again later, it counts as the newest. So does one whose row the sweep deleted 30 days after its erasure (`src/apps/api-gateway/internal/domain/contact.go:63`): the event and its key go with the row |
| `OwnersRemain` | overlaps, owners who open an invitation of the own workspace, deletion of users with a workspace | two demotions each leave the other's owner; the owner is written down to the invited role; the cascade takes the last owner |
| `ActsAsGranted` | a role query that errs; removal from the active workspace | sign-in repairs a membership that was never missing with a role given elsewhere |
| `OverByRequestsAtMost` | (stated as it is) | with two requests a workspace has one row too many, and one more for each call that fails: a quota whose plan or rows cannot be read passes; suspended rows count |
| `UnreadCovers` | (stated as it is) | the error of the UPDATE is ignored: a message whose increment fails is never counted, and the property is short by that message alone |
| `SearchIsFull` | the query that fills up; the search and the list together | the fill-up returns silently when its query errs, and the prompt holds what was found; a search that errs on WhatsApp ends the job instead, with nothing sent |
| `LeaseHolds` | work that outlasts its lease | the lease is a clock of ten minutes; the embedding calls end with the context of five, but the extraction of a PDF or a DOCX does not look at it, and a second worker may then claim the row |
| `WebhookComesBack` | any fault | a crash between `deleteWebhook` and `setWebhook` leaves the bot deaf; a webhook set before a row that is not written stays |
| `LiveSessionOwnsAccount` | failures, a code that does not come among them; disconnection by the generic endpoint; a logout that did not reach the phone | the session stays up without a row; a refused pairing leaves a stored device that the next start opens |
| `LiveSessionOwnsAccount` | an account or a workspace that is paired twice | a session the map has lost is still up, and its logout suspends the row of a session that is well (section 6) |
| `AnsweredOnce` | Telegram; all faults but `repost` and `provider` | a webhook delivered again is answered again; a stored publication that erred has two repliers; a reply whose recording fails is sent again; a job that waits behind others, at up to 30 s each, for longer than the `AckWait` of 60 s is delivered again and answered twice, without anything having failed |
| `AtMostOneLate` | (stated as it is) | the fallback of a queue that erred prepares a second reply; a lookup of the conversation's state that errs counts as permission: either adds one late reply |
| `EscalationStands` | `queue`, `lookup` | two replies are prepared at a time; a state that cannot be read forbids nothing |
| `QueuesSettle` | for documents, any fault | an acknowledged message whose row belongs to a dead worker is nobody's |
| `InboxIsFaithful` | failures, two overlapping edits | the database has a version the contact does not |
| `PlanFollowsPurchases` | events out of order, repeated or overlapping; faults | a late checkout reactivates what was cancelled; `updated` before `completed` is dropped; a whole row written back loses the plan |

## 4. Fairness

`FairSpec` assumes weak fairness of each worker, of the telemetry consumer, of each
dispatch or retry call once it has started, and of the redelivery of each task
nobody holds. The first are goroutines that run as long as their process, and a
process that dies is restarted by its host; redelivery is JetStream's `AckWait`.
`ConversationsFairness` assumes the same of the reply queue's consumer and of the
job it has taken; `IngestionFairness` of each document worker, of an upload that has
created its row, and of delivery and `AckWait` of each document's message.
Nothing is assumed of users, contacts, providers or faults: an operator need not
resume a paused campaign, which is why `StreamDrains` and `MarkedInTimeCompletes`
make an exception for the pause. A transient provider error is repeated at most
`maxRetries` times and a reply job delivered at most `MaxDeliver` times, so no
fairness of a provider is needed.

## 5. What the liveness properties do not say

`MarkedInTimeCompletes` speaks of campaigns marked `processing` while a target has
yet to report. When all receipts are recorded before the mark, and when the last is
recorded during a pause, nothing recounts the rows and the campaign stays
`processing`; a failed publication has the same effect. `QueuedSettles` and
`RetriedIsServedOnce` exclude retries that read `processing`, for which
`v_retry_dropped` shows the opposite. `QueuesSettle` says that a reply job ends, not
that the contact gets an answer: after the last delivery the job is dropped, and a
message whose job was never queued (the gateway died between the two) is answered by
nobody.

## 6. Proofs

All theorems are about the modules TLC checks, for any constants that satisfy the
modules' ASSUMEs: any targets, workers, calls, requests, documents and faults.

**Types** (`PipelineProofs.TypeCorrect`). `TypeOK` is not inductive: a retry
publishes for `rows[k].owner`, which is a target only if row `k` exists. `TypeInv`
adds that existing rows have owners (`OwnersKnown`), that rows claimed by a call
exist (`ClaimsExist`) and, from `RowsStay`, that rows never disappear. One lemma
per module proves that its steps keep its own part.

**Pauses** (`PauseHolds`, of `PauseStopsSending`). A gateway worker may call its provider
during a pause only for the task it had past the controls when the pause began, or after a
lookup of the status that failed. `SlipsInv` counts with the calls made those of the workers
past the controls (`PastControls`): a call moves a worker from one to the other, a failing
lookup adds to both sides, and nothing else adds to either while the status is `paused`. No
assumption is made about how many workers of either program there are, nor of the faults.
It needs finitely many gateway workers.

**Outcomes** (`NoOutcomeLost`, of `AckedIsAccounted`). The invariant adds two
places where an outcome is in transit: a worker about to settle has reported, or
its task has expired; the receipt in the consumer's hand is already in its row.
With these, an acknowledgement can only come from a guard, from an expiry, from
`dedup` (the row says delivered, so it exists) or after a report, and a receipt
leaves the stream only when its row exists. Rows never disappear, so it stays so.

**No phantom deliveries** (`NoPhantomDelivery`). The invariant follows a claim of
delivery backwards: a delivered row, a receipt that says delivered and a worker about
to report one all have a target whose provider accepted a message. `sends` only grows.

**Refinement** (`ContractKept`, of `KeepsContract`). `DeliveryContract` is what the
delivery report promises: a row appears with an outcome and never disappears; it says
delivered only of a target a provider accepted a message for; only a retryable failure
is put back in the queue, which it leaves by a result or back to the failure it was. `DeliveryRefinement`
maps the ledger's rows and the history `sends` to it. The proof takes the initial
states to initial states and every action of every component, faults included, to a
step of the contract or to a stutter, with `TypeInv` and the invariant of
`NoPhantomDelivery` as what the mapped steps need.

**Settled** (`FaultySettles`, of `FaultyIsSettled`). `SettledInv` says that a call has
counted what it published, that the total is the number of targets and every row that
of a target, so a completed campaign has them all, and of a worker about to settle that
its outcome is recorded or on its way. The theorem excludes a failing lookup of the
campaign and a failing publication of an expiry, as the run does: both acknowledge a
task that nobody reports.

**Once** (`FaultlessServesOnce`, of `FaultlessIsOnce`). While nothing fails, a task is
one token: in the stream, in a buffer, in one worker's hand or acknowledged, and one
result follows it (`SmoothInv`). `OnceInv` adds how tasks, rows, sends and notices
belong together: a target whose provider accepted has the one task that was sent, and
the row that completes the count is the last for every other receipt. The assumption
`SingleDispatch` is needed: two calls both read `scheduled`, and publish every task twice.

**Retries** (`RetriesServeOnce`, of `RetriedIsServedOnce`). A queued row is in one of
two hands, a call's that has claimed it or an open task's, and never in both
(`RetriedInv`): the claim is an UPDATE whose WHERE only one call's snapshot passes, a
result closes the row's only open task, and a call that read `completed` reopens the
campaign before its tasks are published. `OneRowEach` is needed because two targets that
share a row (`v_shared_row`) close each other's tasks.

**The count** (`SerialCountIsExact`, of `CountIsExact`). With one consumer nobody
else commits a new row between the count and the commit. The invariant says that an
open transaction's view has exactly the rows that will be present at its commit;
claims change a row's status and not its presence.

**Review** (`ReviewTypeCorrect`, `SerialDecisionsAreCurrent`, `SerialBrandHasAgreed`,
`SerialOnlyClearedIsSent`). When calls do not overlap (`Serial`) and the brand answers
about the page it would be shown (`BrandReloads`), what a call has read is still true
when it writes (`CurrentInv`), so its UPDATE does what its checks meant. `ClearedInv`
adds that an approved or scheduled campaign holds a cleared version if approval is
required; it needs lookups that do not fail. `v_edit_race` drops the first assumption.

**Sections** (`SectionsCoverDocument`, of `SectionsCover`). The invariant is the type,
with `NothingLost` and `SectionsFit`; a boundary lies after the start of its section
(`BoundaryIsAhead`), so the next start does too (`NextStartIsAhead`), and every
position the start passes is in the section just cut or blank.

**Completion** (`SerialReportsComplete`, of `AllReportedCompletes`). `ReportInv` adds
to the count where every result is: what has no row is under way, and a queued row,
also one in a snapshot, has a result under way besides the transaction's own. So the
transaction after which nothing is under way sees no open row and counts them all.
It needs one consumer, a row of its own for each target (`v_shared_row` drops this)
and a campaign that has targets.

**Silence and escalation** (`SilenceIsHeard`, of `AtMostOneLate`; `EscalationIsHeard`,
of `EscalationStands`). `SilenceInv` counts with the replies that went out those past
the last look at the conversation's state (`Preparing`), one per runner; the second
runner, the fallback, has work only after an error of the queue, and a runner passes a
silence only by a lookup that failed, which happens once. A conversation that
waits for a human was escalated by the worker, which has let go of it, and the state
then lets no other reply begin.

**One answer** (`MessageIsAnsweredOnce`, of `AnsweredOnce`). A message is in at most one
of four places (`Once`): its request, the queue, the worker, the replies. On WhatsApp
only its first record lets it into the first, and a job that comes back has not sent,
since a reply whose recording is still to come is recorded by nobody else. A job that
waits longer than `AckWait` is in two places, so the theorem leaves that fault out.

**Leases** (`LeaseIsKept`, of `LeaseHolds`). `LeaseHolds` says who works on a document
and not why nobody else can claim it. `IngestionInv` adds that a row worked on is out of
reach of the UPDATE that claims: not queued, and its lease not run out.

**Webhooks** (`WebhookIsRestored`, of `WebhookComesBack`). A bot counts as connected
from the moment its webhook is set (`Joined`), before its row is written; whoever finds
the webhook missing finds a sync that is past `deleteWebhook` and holds the address.

**Quota** (`QuotaIsHeld`, of `OverByRequestsAtMost`). A request that has passed the
check will add its row later. `QuotaInv` counts these requests (`Passed`) as rows: both
together stay below the limit plus the number of requests and of faults: a request
passes while the rows alone are below the limit, or by a lookup that fails, which is
counted, and writing turns one into the other.

**Messages** (`BadgeCoversArrivals`, of `UnreadCovers`; `ContactSeesWhatInboxShows`, of
`InboxIsFaithful`, with its parts `RepliesAreRecordedOnce` and `ReadStaysRead`). What
arrived is at most what was read, what the counter has, the one increment under way, and
the increments that failed since the conversation was last opened.
Rows have distinct keys, and a reply sent without a failure has a row or the request
that will write it (`InboxInv`). A row says what the contact has, or what the one
request under way is about to tell the platform (`Mirrored`), so with one agent and
no failure both agree when it ends.

**Sessions** (`SessionsOwnAccounts`, of `LiveSessionOwnsAccount`). A session that is
down or closed must own its account too, for it may reconnect, and so must a device
about to be opened (`OpeningsOwn`) or named by a row (`RowsOwn`). A start may give a
workspace a device that was refused: then that is its only session (`ForeignAlone`).
A device being paired is nowhere else (`PairingAlone`). `DevicesShape` holds always,
the rest while the property's hypotheses do; these are never true again once false
(`GoodBefore`). The first attempt at this proof failed for a good reason. The property
supposed only that the session's own device was paired once, and counted a code that
does not come as regular. TLC finds nothing with the two slots, one account and two
pairings of `workspace`, but with three slots and two accounts: after a failing `GetQR`
a session is up that the map has lost, and its workspace takes another account by the
Cloud API. And with three pairings: the logout of such a session suspends the row of
the session that replaced it. Both are what the code does; the property now names both
causes.

**Roles and owners** (`RolesAreGranted`, of `ActsAsGranted`; `WorkspacesKeepOwners`, of
`OwnersRemain`). The role a request gets is that of a membership, so memberships must
have been granted, and every user needs one where it is active (`Grants`); else sign-in
repairs it. For owners, what a request counted before it writes is still so when it
writes, as no other request is under way (`Kept`): a demotion, removal or departure
that passed its check has another owner beside it (`Another`).

**Keywords** (`KeywordIsRecordedOnce`, of `KeywordRecordedOnce`). The keys of the
transactions under way count as keys of the ledger (`LedgerInv`): an INSERT of the
same key waits for the one that holds it, and adds nothing after its commit.

**Contacts and consent** (`SerialAudienceIsKept`, of `AudienceIsKept`). While requests
come one at a time, the statements of a request see the directory as its first one
did, so each kind of request has a short description of what it may still write
(`Requests`). `Settled` holds between any two statements: a contact's status is the
projection of its events, its events are in the order of their keywords, the plan's
capacity is exceeded by no more than `spent.unmetered`. `Heard` says that a keyword is recorded, in `missed`, or in the hands
of the request that brought it. The part of the property about erasure needs no such
order: `ErasedInv` holds however requests overlap. The theorem assumes finitely many
persons, since an import is a finite file. The first attempt failed for a good reason:
the sweep deletes an erased row with its events and their keys, and the redelivery of
an old keyword is then recorded as new. TLC found it with five requests, two more than
the run had until then; the run now has five, and the property names the cause.

**Knowledge** (`AnswersExist`, of a part of `KnowledgeIsKept`). Resolving a question and
deleting the item that answers it are two requests of two statements each. `BaseInv`
adds what the resolving request holds between its statements: an item that exists but
may be deleted by then, which its second statement looks at again.

**Billing** (`LimitsFollowPlan`, of `LimitsMatchPlan`). A handler writes back the row
it read, however old. So the invariant is that the row and what every handler holds
are each consistent; which of them is newer does not matter.

**Payment links** (`LinksFollowCharges`, of `PaidMeansCharged`). A notice of payment
exists only of a charge, and is answered only after the link is marked (`PaidInv`).

**Purchases** (`PlanIsLastPurchase`, of `PlanFollowsPurchases`). Two invariants.
`HistoryInv` is about the providers: a purchase is what the notices last said of it,
nothing revives one that was cancelled, and purchases are announced in the order they
were made. `RowInv` is about the handlers: while nothing is disordered and nothing
failed, notices are handled one at a time in order (`InTurn`), and the row stands
for the purchase announced last, as the last notice handled about it left it. When all
are handled, both speak of the same notice.

**Settings** (`AssistantKeepsSettings`, of `RepliesAsConfigured`). The hours without an
answer are one interval, or two when the shift crosses midnight (`SilentHours`). A text
is sent as a reply only when it is not `Unsure`, and a saved bar is never zero.

**Types of the queues** (`QueuesAreTyped`, of `QueuesTypeOK`): the shapes the proofs of
the two queues start from.

**Types of the assistant's parts** (`AssistantIsTyped`, of `AssistantTypeOK`). Its
bounds need more than the shapes. No version is later than the last edit
(`MessagesTypedInv`). A notice is answered fewer than `DeliveryLimit` times plus once per
handler, since the provider stops at the limit and the deliveries under way by then are
still answered (`DeliveredInv`); a payment link is confirmed no more often than its one
notice is answered (`ConfirmedInv`); no row names a subscription that was not bought
(`SoldInv`).

**Types of a workspace** (`WorkspaceIsTyped`, of `WorkspaceTypeOK`). No step of a part
touches another, so the invariant is one per part, each kept by its part's steps however
requests overlap and whatever fails. Rows refer to rows that exist although no statement
looks: of the teams, a role about to be written is that of a membership whose workspace
and user still have their rows, since a deletion takes the requests that wait for its
rows with it (`TeamsTyped`); of the audience, a request waits with a contact that its next
statement may change (`AudienceTyped`); of the channels, a tenant has one row of a
platform (`OneRow`); of the sessions, a device is that of an account
(`SessionsTypedInv`). The start after a restart takes the newest of some devices, and
`MaxIsThere` proves that there is one, without induction: of the sets of newer devices
one is least, by the library's order on finite sets.

**Model-checked only.** Liveness is beyond the prover, which has no rules for fairness
and `ENABLED`: `StreamDrains`, `MarkedInTimeCompletes`, `CompletionIsNotified`,
`QueuedSettles`, `QueuesSettle`. That questions are counted by one row
(`KnowledgeIsKept`) is a sum over a set, and that a search leaves nothing out
(`SearchIsFull`) is about a sequence sorted by a choice and filtered by recursion: both
need inductions over data. TLC checks these on the instances above. No module declares
a RECURSIVE operator.

## 7. Running it

    tlc -config MCpipeline_safety.cfg MCPipelineSafety
    tlc -config MCpipeline_all.cfg MCDeliveryPipeline
    tlc -config MCworkspace.cfg MCWorkspace
    tlapm PipelineProofs.tla

`PROJECT.json` "runs" names the module of each `.cfg`. Definitions under a comment
"Mistaken variant" are wrong on purpose: each stands for a plausible bug in the
definition that follows, and a property is worth its run only if it notices the
exchange. No action uses them.

## 8. What the model found besides the five violations

Properties that state a promise of a comment or an evident intention, that the code
breaks, and that no run lists. Each is in its module; check it alone to see the trace.

| Property | Promise | What happens |
|---|---|---|
| `Teams!OwnersRemainAlways` | `usecase/team_usecase.go:221`, `:294`: never remove the last owner | two owners demote or remove each other at the same time |
| `Teams!DeletionReassigns` | `repository/postgres_identity.go:615`: the caller moves to another workspace | the deletion cascades to every user whose active workspace it is, the caller too, and the UPDATE that follows finds no row |
| `WhatsAppSessions!OneWorkspacePerAccount` | `src/apps/api-gateway/cmd/main.go:67-70`: an account belongs to one workspace | one row's key is the phone number, the other's the number's id at Meta, taken by the OAuth callback when the phone is not known |
| `Conversations!PromptHasLatest` | `service/whatsapp_manager.go:1514`: the last 6 messages | `ListMessages` orders ascending and limits: the first six |
| `Conversations!NeverSpeaksOver` | `usecase/inbox_usecase.go:270`: the assistant does not speak over an agent | the reply in preparation still goes out (`AtMostOneLate` bounds it) |
| `KnowledgeIngestion!AckedIsHandled` | `service/knowledge_ingestion_queue.go:92`: already settled or taken | the row belongs to a worker that died |
| `Audience!ImportReusesRow` | `usecase/contact_usecase.go:225`: imported values are aligned with contacts that "sync as bare E.164 digits" | a paired session stores the number with a plus, so the import adds a second recipient |
| `AssistantReplies!ShiftBelongsToItsDay` | a shift across midnight is one shift | its second half is judged by the next day's setting |

Seen while modelling, without a property of its own: a receipt that arrives before
its message is recorded is dropped (`service/whatsapp_manager.go:845`); the
automatic resume and the escalation overwrite a pause set since (`:1477`, `:1588`);
replacing a LID by a number deletes the consent events of the old row (`:986`);
saving settings overwrites another administrator's change
(`handler/ai_agent_handler.go:106`); a late failure or completion overwrites a settled
document (`repository/postgres_ai_agent.go:623`); a payment notice is applied
whatever the link's status, so a repetition confirms again
(`usecase/commerce_usecase.go:182`); a lookup that errs is read as "not found" in
billing (`usecase/billing_usecase.go:252`).

Hazards that no property covers, beside the list in `PROJECT.json`: the stream keeps
10 MB and drops the oldest tasks beyond it (`event/nats_publisher.go:56`); with a
bounded stream every liveness property fails by construction, and no document
promises otherwise. The in-memory publisher that takes over when NATS cannot be
reached delivers nothing (`:36`). The audience is paged by offset while contacts
change (`usecase/campaign.usecase.go:368`). The message quota is read before the first
task and consumed by results recorded later (`:321`). A Nak of a paused task uses up
an attempt (`worker/broadcast_sub.go:473`), and a session send whose answer is lost is
followed by the Cloud API (`:378`).

### Plan

Done: the delivery pipeline with its contract; receipts; review; contacts and
consent; teams; channels and sessions; conversations and ingestion; messages,
knowledge, settings and documents; billing.

Worth doing next: a stream with a size limit and a paged audience as variants of
`DispatchStream` and `CampaignDispatch`; the composition of `Audience` with the
workers' consent check; an abstract specification of the consent ledger.

## 9. Not modelled, and why

Prompt texts, model calls, text extraction, provider protocols, personalised texts,
media and mail are input and output with no state of their own. Dashboards,
analytics and listings only read. Templates and tags are single statements, except
for the tag a payment attaches. The hubs fan out frames to WebSockets under a mutex;
what a client has seen decides nothing. The watchdog and the heartbeat write a
timestamp that nothing reads. The compliance engine listens to `campaign.dispatched`
in a queue group of its own; nobody waits for it or reads what it finds. Tasks that
do not parse are terminated by the worker, and `campaign.dlq` has no consumer.
Authentication is a third party's; `Teams` begins where its token has been accepted.
