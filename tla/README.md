# Verification of the order integration service

TLA+ models, TLC runs and TLAPS proofs for the serverless order service of this
repository: a merchant places an order, a customer pays it through Stripe, the
service hands it to a delivery provider, and provider, operators and Stripe then
change it concurrently. Source paths below are relative to the repository root;
the TypeScript code lives in `src/`.

Contents: 1 the system, 2 the modules, 3 the runs, 4 the bounds, 5 fairness,
6 the proofs, 7 divergences found, 8 what is not modelled, 9 the plan.

## 1. The system

### Components, state, operations

| Component | Code | State | Operations |
|---|---|---|---|
| Order domain | `src/domain/*` | the order aggregate with its embedded payment, a version and timestamps | `applyOrderStatusChange`, `applyPaymentStatusChange`: pure, they throw or return the next order |
| DynamoDB repository | `src/infrastructure/dynamodb` | one table: order items, idempotency and merchant-order-id items, the two reverse lookups (Stripe intent, provider order id), processed-event markers | `create`, `get`, `list`, `saveStatusChange`, `bindStripePaymentIntent`, `recordProviderWebhook`, `recordStripeWebhook`: one `TransactWriteItems` each, then a re-read that picks an error when the transaction is cancelled |
| Payment preparation | `application/prepare-stripe-payment-intent.ts` | none of its own | read the order, create the intent (idempotent at Stripe), bind it, answer with the client secret; a replay retrieves the bound intent |
| Stripe webhook | `application/process-stripe-webhook.ts` | event markers | retrieve the intent, look up the order, propose a change, record; up to three turns |
| Delivery worker | `application/process-delivery-event.ts`, `lambda/delivery-worker.ts` | none of its own; SQS keeps the receive count | skip what was completed, submit to the provider, save the outcome, report failed messages of a batch |
| Operator changes | `application/change-order-status.ts` | none of its own | read under `If-Match`, change, save conditionally |
| Provider webhook | `application/process-provider-webhook.ts` | event markers | look up the order by provider id, apply or drop the event, record; up to three turns |
| Stream publisher | `lambda/stream-publisher.ts`, `events/order-stream-event.ts` | Lambda's position in the shard | turn each stream record into a domain event and publish it; report the first failed record |
| Order creation | `http/create-order-handler.ts`, `application/create-order.ts`, `create` | order, idempotency key and merchant order id items, written together | authorise, create once per key, replay, or conflict |
| Listing | `http/list-orders-handler.ts`, `http/order-cursor.ts`, `list` | none; two secondary indexes that follow the table late | pages of a merchant's orders, all or by status, with signed cursors |
| Browser page | `ui/src`, `client/idempotent-operation.ts` | one submission (in flight, unknown, succeeded, rejected), one payment preparation, one tracker | submit, retry under the same key, replace a rejected submission, prepare and confirm the payment, poll the order, stop |
| Mock provider | `src/mock-vendor` | accepted submissions, one timed journey per delivery | idempotent acceptance under six scenarios, callbacks with bounded attempts, shutdown |
| Reconciliation campaign | `application/*stripe-reconciliation*.ts`, `scripts/stripe/reconcile-preview.mjs` | a reviewed manifest of Stripe events | preview, then validate and execute each event through the webhook's own processing |
| In-memory repository | `src/infrastructure/memory` | maps | the repository's contract for tests and local use |
| Lambda initialisation | `lambda/retryable-initializer.ts` | one shared promise | initialise once, start over after a failure |
| Cloud lab | `scripts/cloud/development-lab*.mjs`, `scripts/cloud/stripe-webhook-lifecycle.mjs`, `integrations/stripe-webhook-endpoint-manager.ts` | a state file; three local processes; a stack and its change sets, deployed by GitHub runs; an endpoint at Stripe and the stored secret | `cloud:deploy` and `cloud:destroy` step by step, take-over after a death, teardown |
| HTTP plumbing, signatures, logging, other scripts | `src/http`, `src/observability`, `scripts` | none that the others read | validation, formatting |

### How they interact

Nothing but the table is shared. Every handler reads an order with a strongly
consistent read, awaits something outside (Stripe, the provider, the table) and
then writes in one conditional transaction whose condition is the version it
has read. A commit puts a record into the table's stream; the publisher turns it
into an event on SNS; a subscription filtered on
`order.ready_for_submission` and `order.submission_retry_requested` fills the
SQS queue the delivery worker reads. Stripe and the provider call back through
webhooks, repeat what was not acknowledged, and keep no order.

### What is hard here, and what makes a component correct

The list of hazards, with lines, is in `PROJECT.json`. In short:

- *Lost updates.* Five kinds of handler write the same item with an await
  between read and write. Correct means: a writer's version condition holds only
  if the order is still the one it read (`SnapshotsCurrentOrOlder`), and every
  commit is a legal next order (`OrdersChangeProperly`).
- *Old snapshots.* The Stripe webhook retrieves the intent once and judges up to
  three newer orders by it. Correct means: no decision is lost or undone
  (`DecisionNeverLost`), payment and order are decided together
  (`StatusFollowsPayment`), and a paid order has been paid (`PaidMeansCollected`).
- *Effects outside the transaction.* The intent exists before the order knows it;
  the provider accepts before the acceptance is saved. Correct means: a secret
  leaves only after the mapping is durable (`SecretOnlyAfterMapping`), and an
  acceptance is never forgotten (`AcceptanceNeverForgotten`).
- *At-least-once delivery.* Stripe, the provider, SQS and the stream repeat,
  reorder and delay. Correct means: an event takes effect once
  (`EventTakesEffectOnce`, `ProviderEventIdsStayBound`) and no request disappears
  (`PendingHasRequest`, `NothingSkipped`, `PendingIsRequested`).
- *Everything joined.* Payment and fulfilment are two state machines joined at
  one gate and one event label. Correct means: only paid orders are fulfilled, and
  the stored orders go through the promised lifecycle
  (`OnlyPaidOrdersAreFulfilled`, `ImplementsLifecycle`). The repository the tests run
  on must answer as the real one does (`MemoryRepositoryAgrees`).
- *Answers that get lost.* A creation commits and its caller never hears; a page retries,
  another system uses the same merchant order id. Correct means: one order per key and
  claim (`OneOrderPerKeyAndClaim`), every answer true when and after it is given
  (`AnswersAreTrue`), and for the page one order per submission
  (`SubmissionMakesOneOrder`). What the page shows never goes back
  (`TrackedNeverGoesBack`).
- *Reading something that moves.* Pages are listed while orders appear and change status:
  what lasted is listed once (`WalkListsLastingOrdersOnce`). An operator approves a manifest
  and executes it later: nothing else happens, and a reported success is one
  (`CampaignKeepsToReview`, `SuccessMeansSettled`).
- *Reactions in an order.* A failed initialisation must be forgotten before anyone is told
  (`FailureIsForgottenInTime`); a provider's callbacks must come in order and not give up
  early (`EventsArriveInOrder`, `GivesUpOnlyAfterTrying`).
- *A supervisor that dies.* Between making a thing and recording it: what it made must be
  found again (`NothingStranded`, `SecretIsRecoverable`), "destroyed" and "ready" must be
  true (`DestroyedMeansGone`, `ActiveLabIsWhole`).

## 2. The modules

    Identifiers              orders, and the value of an absent field
      OrderDomain            the aggregate and its two transition functions
        OrderTable           the table's transactions, the frame of an invocation
          PaymentFlow        preparation, Stripe webhook, Stripe
            ReconciliationCampaign  the operator's command beside the webhook
          DeliveryFlow       stream and queue, worker, operator, provider webhook, provider
            OrderService     both flows over one table
              OrderLifecycle the abstract promise OrderService implements
              MemoryRepository  the tests' repository beside the table's
        StreamPublisher      records, events and the publisher's loop
      OrderApi               POST /orders and the items it writes
        BrowserJourney       the page: submission, payment, tracking
      OrderListing           walks over pages
      RetryableInitializer   the shared, retried promise
      MockVendor             the provider's own program
      DevelopmentLab         cloud:deploy and cloud:destroy
    OrderDomainProofs, OrderTableProofs, PaymentFlowProofs, DeliveryFlowProofs,
    OrderServiceProofs, CampaignProofs, BrowserJourneyProofs, SurroundingsProofs
    MCPaymentFlow, MCDeliveryFlow, MCOrderService, MCOrderLiveness, MCStreamPublisher,
    MCReconciliationCampaign, MCBrowserJourney, MCSurroundings

**OrderDomain** splits each transition function into the condition under which
it does not throw (`StatusChangeApplies`, `PaymentChangeAccepted`) and the value
it returns (`StatusChanged`, `PaymentChanged`). Lines, addresses and amounts never
change after creation; the one decision that reads them, "does the intent match
the order's amount and currency", is the flag `matches` of an intent. Times are
naturals, absence is the value `Undefined`.

**OrderTable** has one variable per kind of item and, per repository method, the
condition of its transaction (`...Commits`) and its effect. It also has what an
invocation holds in memory between two awaits: its step `pc`, its order `subject`,
the event or message `input`, a time it put aside `stamp`, the order it has `read`,
the order it has `proposed`, the turn of its retry loop `attempt`. `Return` ends an
invocation and forgets all of it. `Crash` is a Lambda timeout or runtime failure
at any await. `Contended` lets DynamoDB cancel a transaction although its
conditions hold, because another one on the same item is under way.

**PaymentFlow** and **DeliveryFlow** have one action per awaited call of each
handler; between two of them anything else may happen. The naming follows the
code: `PrepareGet`, `PrepareCreate`, `PrepareBind`, `PrepareResolveBinding`,
`PrepareRetrieve` are the awaits of `prepareStripePaymentIntent`;
`StripeWebhookRetrieve`, `...Lookup`, `...Load`, `...Record`, `...Resolve` those of
`processStripeWebhook`; `WorkerTakeUp`, `WorkerAccepted`/`Rejected`/`FailsRetryably`,
`WorkerSave`, `WorkerResolve` those of `processDeliveryEvent`; `OperatorGet`,
`OperatorSave` those of `changeOrderStatus`; `ProviderGet`, `ProviderRecord`,
`ProviderRetry`, `ProviderGiveUp` those of `processProviderWebhook`. A write has a
second action, `...Cancelled`, for a cancelled transaction. Requests that fail
validation, or whose change the domain refuses, end before they write anything
and are stutters. Stripe and the provider are environment actions: an intent
moves along Stripe's state machine, our own intents only after their secret has
left the API (or to be cancelled), intents others made (`ForeignIntents`) at any
time; the provider accepts an order once per submission key. In DeliveryFlow
`stream` holds the requests that may still be published or published again; it
stands for StreamPublisher, whose own module shows that a request is never lost on
the way (or lies in the failure queue).

**OrderService** composes the two: a payment step also puts into `stream` the
requests its commits make. **OrderLifecycle** is the abstract specification: no
table, no versions, no events; each step of an order is one atomic action.

**StreamPublisher** models one shard, because the records of one order are in
one shard. A commit is any change the domain lets a handler make, labelled as the
handlers label it. `EventOf` is `domainEventFromOrderStreamRecord` with every branch on
which it throws. The loop over a batch, the report of the first failed record,
the retry count and the failure queue follow `lambda/stream-publisher.ts` and the
event source mapping in `template.cloud.yaml`; how Lambda itself counts attempts
and forms batches is external and modelled liberally (any batch of up to
`BatchSize` records, a timeout at any point, a publish that succeeds although the
call fails).

**MemoryRepository** says, for every conditional write an invocation of OrderService is
about to send, what `InMemoryOrderRepository` would answer and what the transaction and
the repository's second look answer. The two check in another order and under other
conditions; `MemoryRepositoryAgrees` compares the answers, it does not compare code.

**OrderApi** is a creation from the caller's token to the answer, one step per awaited
request: the transaction of three items, and, when it is cancelled, the reads of
`resolveCreateConflict`. A transaction may fail after it committed, an invocation may die at
any of its steps. The fingerprint is the request itself. Orders move on meanwhile, for a
replay reads the order of its key as it is then. **BrowserJourney** puts a page (or several)
on top: `Submit`, `Retry`, `ReceiveAnswer`, `LoseConnection` and `Reset` are the operations
of `CreateOrderSubmission`, `PreparePayment` to `ConfirmPayment` those around the Stripe form,
`Poll` to `TrackingStops` the loop of `OrderJourneyTracker` with its abort signal. Other systems
call the API with keys of their own. One detail a reader may stumble over:
`readCreatedOrder` accepts only an order that still awaits its payment, so a replay of an order
that has moved on leaves the submission `OUTCOME_UNKNOWN`, a retry included.

**OrderListing** has the table, the index that follows it, and one walk. A cursor is the
scope and the position its token carries; that nobody else can sign one is assumed.

**ReconciliationCampaign** adds to PaymentFlow the list of Stripe's events, the command
(preview, manifest, preflight over all entries, validation again before each, the reviewed
client, the outcomes and the exit status) and what may happen between approval and execution:
webhooks, new intents, edited metadata, expired events, the command's death, a second
execution. An entry is processed by PaymentFlow's own webhook steps, under an invocation of
its own.

**RetryableInitializer** has promises as JavaScript has them: reactions of a settled promise
run one by one in the order of their registration, and others may call between two.

**MockVendor** is the provider's program rather than DeliveryFlow's abstract provider: a
submission is answered by scenario, an accepted delivery has one journey of two callbacks with at
most three attempts each. Of the platform it keeps what the vendor can tell: an unknown delivery
is answered 404 until the worker has saved the acceptance.

**DevelopmentLab** has one action per awaited effect of the two commands. A step first records
what the previous one made and then makes the next thing, so that a death of the supervisor
strikes between a thing and its record; `StepFails` undoes what the failing step itself undoes;
`Interrupt` and `cloud:destroy` turn a deployment into a teardown. GitHub runs are serialised,
refused at their start for what their scripts refuse, and may go on after the command that
started them ended (*abandoned*). Ports, process numbers taken over by somebody else's command,
and stale endpoints of an earlier lab are in the model, because ownership checks read them.

**MCSurroundings** runs seven components that share no state in one TLC run: the first state
draws the component (`part`), the others rest. It covers the sum of their state spaces and no
product. **MCOrderLiveness** does the same for the two flows under their fairness (`flow`).

Definitions called *faulty variant* are plausible bugs: each property is checked
to fail when the definition below it is replaced by the variant, so none of the
properties holds for want of cases. They are in no specification.

## 3. The runs

`tlc -config <run>.cfg <module>`; `PROJECT.json` names module, properties and, for
each property, the mutation under which it fails.

| Run | Question | Distinct states |
|---|---|---|
| `payment_webhooks` | Two deliveries and a preparation race over three events of one intent, with transaction conflicts: are payment and order decided together, once, and never set back? | 2.4 million (symmetry) |
| `payment_intents` | Two preparations and a webhook while intents of others compete (payable, wrong amount, manual capture) and one invocation dies: who can make an order paid, when does a secret leave? | 2.1 million (symmetry) |
| `payment_reconciliation` | Is everything recorded as `RECONCILIATION_REQUIRED` a mismatch? Violated, see 7. | |
| `campaign_required` | Does a campaign with a reconciliation-required event fail? Violated, see 7. | |
| `delivery_workers` | Two workers and an operator, two orders that compete for provider ids, redelivery, crashes before the acknowledgement: is an acceptance or a lookup ever lost? | 0.7 million (symmetry) |
| `delivery_events` | Provider events repeated, late, out of order and with reused ids while worker and operator change the order. | 1.9 million (symmetry) |
| `delivery_reconciliation` | Does a reconciliation failure stay on the failure path? Violated, see 7. | |
| `flow_liveness` | Does an order whose intent is decided at Stripe leave `AWAITING_PAYMENT`, and is a pending order settled or its request in the dead-letter queue? | 241 thousand |
| `stream_cancelled` | Can every cancellation be told? Violated, see 7. | |
| `service_path` | The composed service implements the lifecycle, fulfils only paid orders, requests every pending one, and would get the same answers from the memory repository. | 859 thousand |
| `surroundings` | The components around the two flows, one per behaviour: page and API, listing, initialisation, campaign, publisher, cloud lab, mock vendor. | 2.5 million (symmetry) |
| `ui_rejected` | Has a submission the page calls rejected no order? Violated, see 7. | |

What some of the properties say that is easy to miss:

- `SnapshotsCurrentOrOlder` is the reason optimistic concurrency works here: equal
  versions mean equal orders. It fails as soon as one commit forgets to raise the
  version.
- `OrdersChangeProperly` puts the aggregate's invariants 5 to 8 and 11 of
  `docs/specifications/domain-model.md` on every commit of every handler, whatever was
  read before: one version on, never back in time, identifiers kept, nothing after a
  terminal status.
- `DecisionNeverLost` reads the marker against the order: once an event that announced
  a decision is recorded as applied or ignored, Stripe does not repeat it, so the
  order must have moved on, and must not be set back by a slower delivery.
- `AcceptanceNeverForgotten` relates provider and queue: a delivery the provider has
  accepted and the order does not carry still has a request in the queue or its
  dead-letter queue. It is what `safelyCompletedBefore` must not break.
- `PublishedInOrder` speaks of first publications only; a repeated batch repeats
  events, which consumers deduplicate.
- `AnswersAreTrue` is about the time *after* an answer too: a conflict that is told is
  final, so no answer may rest on what another call might still undo. Its last conjunct
  says the two internal errors of `resolveCreateConflict` are dead code.
- `SubmissionMakesOneOrder` spares a submission rejected in a *retry*; that case is
  `ui_rejected`.
- `WalkListsLastingOrdersOnce` promises nothing of an order that appears, leaves the
  filter, or reaches the index during the walk.
- `CampaignKeepsToReview` looks at the command's own steps; what webhooks do in between
  is theirs. `SuccessMeansSettled` reads the exit status against the table. It speaks of the
  order the event's intent is *bound to*, which need not be the reviewed one: an intent
  that no order carries and whose metadata are edited after the review may be recorded by a
  webhook for another order first, and the command, which finds its marker, reports
  *ignored*. Only what the command itself reports as *applied* it applied to the reviewed order.
- `NothingStranded` allows one process or endpoint per death of the supervisor or lost
  answer of Stripe: between making a thing and recording it the code has no remedy. It
  says there is never a second one, and none without such an accident.
- `ActiveLabIsWhole` is about resumption: a take-over reuses processes, a stack, a secret
  and an endpoint of different ages.
- `MemoryRepositoryAgrees` is evaluated for every write that is under way in any reachable
  state of the composed service, the doomed ones included.

Deadlock checking is off in every run: all clocks, retries and environments are
bounded, so behaviours end.

## 4. The bounds

| Bound | Where | Why it is enough |
|---|---|---|
| `MaxTime` | the clock | 1 is enough for "before" and "after"; `delivery_events` has 2, so that an event can lie between two commits. 0 where no property reads time |
| `MaxCrashes` | invocations that die | 1 where a crash can leave something half done, which takes a single one; 0 where a handler that stops has the same effect as one that never went on. The proofs have no bound |
| `MaxVersion` | versions an operator still changes (in the page's runs: at which orders stop moving) | 5 or 6: one failed submission, a retry and a second outcome fit after version 3 of a paid order; 4 in `flow_liveness`; 2 for the page, which only tells older from newer |
| `MaxReceives` | SQS receive count | 2 or 3 where redelivery matters: one failure and a retry |
| `MaxDuplicates` | republished requests | 1 in `flow_liveness`; `queue` is a set, so a duplicate matters only after its original was acknowledged |
| `MaxRecords`, `BatchSize`, `MaximumRetryAttempts` | the shard | 5 records (the fifth only when all are of one order, `LastRecordOfOneOrder`; 4 in `stream_cancelled`) in batches of 2, one retry: a healthy record behind a failing one, of its own and of another order |
| `Keys`, `Calls`, `MaxRetries`, `MaxPolls`, `Browsers` | page and API | two keys of the page and one of another system, two calls at once, two retries, two polls, one page: a lost answer, a repetition beside it and a competitor. The proofs have any number of each |
| `OrderNumbers`, `Times`, `Statuses`, `Limits`, `MaxChanges` | listing | three orders, so that two share an instant and a page of one or two splits them; two changes during the walk |
| `Callers`, `MaxAttempts` | initialisation | three callers: one whose call fails, one who waits with it, one who comes between two reactions |
| `CampaignLimit`, `MaxExecutions`, `MaxReassignments` | campaign | two entries, executed twice, metadata edited once |
| `MaxDeploys`, `MaxDeaths`, `MaxFailures` | cloud lab | a second command takes over from the first, one death and one failed step at any place |
| `Submissions`, `MaxDisturbances` | mock vendor | two submissions of one key, two lost or refused callbacks; `WebhookMaximumAttempts` is the code's own 3 |
| invocations | handlers at once | two of a kind that races itself, plus one of each other kind |
| attempts | 3 | `MAX_CONCURRENT_WRITE_ATTEMPTS`, the code's own |
| `NoFailureCodes`, `FewerIntents` | `flow_liveness`, the campaign in `surroundings` | failure codes of an intent repeat the states without them; `service_path` has one, the two payment runs have none for size, the proofs have any. In `surroundings` an intent is cancelled only while its secret is not out |
| `TransactionConflicts` | cancellation for a conflict alone | TRUE in the safety runs of each flow; FALSE in `flow_liveness` (see 5), in `service_path` and `surroundings` for size, and in `campaign_required` and `delivery_reconciliation`, which need no conflict |

Symmetry is used in safety runs only, over sets whose members no formula tells apart;
in `surroundings` the calls of the API and the events of Stripe share their values, which is
sound because no behaviour of that run has both.
`IntentStatuses` leaves out statuses that take the same branch as one that is kept
(`REQUIRES_ACTION`, `REQUIRES_CONFIRMATION`); the proofs cover all of them.

## 5. Fairness

- *A running webhook or worker goes on* (weak fairness of its steps): Lambda runs an
  invocation until it returns or times out, and `Crash` is a possible outcome.
- *Stripe repeats an event until it was recorded; SQS makes a waiting request visible
  again* (strong fairness of receiving it). Strong, because the model has finitely
  many handlers that are busy now and then, while in AWS each delivery gets an
  invocation of its own.
- *The publisher publishes a waiting request* (weak fairness): StreamPublisher
  shows what stands behind it; requests in its failure queue are outside the claim
  until an operator republishes them.
- `TransactionConflicts = FALSE` in `flow_liveness` is an assumption: if DynamoDB let
  two transactions cancel each other for ever, three turns would not be enough.
- Customers, operators, Stripe's intents and the provider's decisions are under no
  fairness: nothing must happen because a human or the provider acts.

MCOrderLiveness states this fairness once per flow, restricted to the behaviours of that
flow. `DecidedOrdersProceed` and `PendingOrdersSettle` (the flows' `DecidedOrderProceeds` and
`SubmissionSettles`) are claims about this fairness and remain model-checked: liveness is
out of the prover's reach.

## 6. The proofs

Proved with TLAPS for every number of orders, identifiers, events, invocations,
for every value of the bounds, and for all payment statuses. Constants are assumed
only to have the shape the code gives them: `Undefined` is no value, record, order id,
intent, verdict or outcome; handlers of different kinds are different invocations; bounds
are naturals.

`OrderDomainProofs`: the transition functions return orders, raise the version by
one, and set the status or payment asked for. `OrderTableProofs`:
optimistic concurrency once for all flows. If every commit raises the version
(`Advances`) and every invocation reads the table as it is (`ReadsFairly`), then
`SnapshotsCurrentOrOlder` is preserved. Both flow proofs cite this lemma for each of
their steps.

**PaymentFlowProofs** (`PaymentInvariant` with `PaymentTypes`, `PaymentSnapshots`,
`IntentLookup`, `SecretAfterMapping`, `StatusAndPayment`; `IntentsStayBound` and
`PaidIsCollected`). None of the properties is inductive: that a commit leaves
payment and status in agreement depends on what the committing invocation has in
memory. `PaymentInv` therefore adds

- `PrepareFrame`, `WebhookFrame`: what an invocation knows at each step. A
  preparation that creates or binds has read an order without an intent; one that
  retrieves works on an intent mapped to its order. A webhook's snapshot is of this
  intent (`Shows`): it may be old, but amount and capture method never change, and an
  intent that was decided is decided for good. Its proposal takes in exactly that
  snapshot (`TakesIn`). Where it found the mapping, the mapping is its order's;
- `PaidHasIntent`, `EventsShowIntents`, `MoneyIsThere`: what events and paid orders name
  exists, and a paid order's intent has succeeded as it should.

None of this says which order an intent's metadata name, so that it holds as well where an
operator edits them (CampaignProofs). That nobody does within the payment flow is
`IntentsBelong`: creation keys, mappings and deliveries on their way agree with the metadata.
`PaidMeansCollected` and `DecisionNeverLost`, which do speak of metadata, follow from the two
together.

Two lemmas carry all steps: `PaymentQuietStep` (no order and no mapping is written;
Stripe's intents may move on) and `PaymentCommitStep` (one order and the mapping of
its intent are written together). One lemma per action then shows that it is one of
the two. The step that needs the most is `StripeWebhookRecord`: the version condition with
`SnapshotsCurrentOrOlder` says the stored order is the one judged, and
`IntentLookupAgrees` says an ignored event never writes a mapping.

Its second part (`DecisionInvariant`, `DecisionsAreKept`, and two action
properties, `EventsTakeEffectOnce` and `PaymentChangesProper`) is about what is decided. A proposal is
made from an order read, perhaps long ago, so the invariant `DecisionInv` says of each
frame what the proposal is to that order (`ProperNext`); the version condition then carries it
over to the stored order. Three facts more are needed: while an order waits for its payment the
two carry the same time (`Timely`), or a change that is not too old for the payment could be
too old for the order; an event that announced a decision is about an intent that has it
for good, and a snapshot retrieved for it shows it (`EventsShowDecisions`, `Announced`); a
frame about to record such an event as ignored has read an order that no longer waits.
Every step then has one shape, `PaymentMove`: what it does to Stripe, to orders, to markers
and to frames, each stated once. The invariant and both action properties follow from the
shape. The shape itself rests on half of PAY-I01 only, `WaitingIsUndecided` (an order that
waits for payment is undecided), which is why the campaign and the composition can cite it.

**DeliveryFlowProofs** (`DeliveryInvariant`, `DeliveryTypes`, `DeliverySnapshots`,
`PendingNeverForgotten`). `PendingHasRequest` needs to know that the request a
worker acknowledges is not the one of the present version: `WorkerFrame` says it has
read the version its request names and proposes the next one in another status;
with `SnapshotsCurrentOrOlder` a committed save leaves the pending version behind.
`DeliveryInv` adds frames of all three handlers and `DeliveryTargetsExist`.

Its second part (`PromiseInvariant`, `ProviderLookup`, `AcceptancesAreTrue`,
`AcceptancesAreRemembered`) adds what the provider knows. `AcceptanceInv`: an order that was
never submitted carries no acceptance (`Clean`), and a proposal to submit tells the
provider's own verdict or an identifier the operator typed (`ProposalFrame`).
`AcceptedExist`: what the provider accepted is an order of the table. `PromiseInv`, for
a provider that does not contradict itself: a failed submission was refused under its
version (`RefusalsKnown`), so that a frame about to save a refusal, or to acknowledge a request,
cannot have an acceptance in its back (`RefusalFrame`, `RequestFrame`). The steps of all
handlers are again reduced to one shape first (`PromiseStep`: table, vendor, queue, memory).
The provider's consistency is the hypothesis of the theorem about `AcceptanceNeverForgotten`.

Its third part (`DeliveryChangesProper`, `ProviderEventsStayBound`) is the two action properties.
That a change never sets an order back in time holds for a reason outside the transition
functions: every handler stamps its change with the clock it has read, a provider event with a
time the provider's clock had, and `applyOrderStatusChange` refuses what is older than the
order. `TimeInv` says that no stored time and no frame's time is ahead of the clock, and that
each pending proposal is a proper successor of the order its frame has read.

**BrowserJourneyProofs** (`CreationsAreConsistent`, `CallersAreToldTheTruth`,
`SubmissionsMakeOneOrder`, `PagesNeverGoBack`). `ApiInv`: keys, claims and orders name each
other, each call knows at each step what its next answer rests on (`FrameHolds`), and
no two calls are about to write under one order id. `PageInv`: a page's key stands for its
request only, and nothing exists under it while its first attempt is untried. `TrackerInv`:
neither what is shown nor an answer on its way is ahead of the item, one poll at a time.

**OrderServiceProofs** (`ServiceInvariant`, `FulfilledArePaid`, `PaidOrdersAreRequested`,
`ServiceKeepsPromises`, `RepositoriesAgree`, `ServiceImplementsLifecycle`,
`ServiceDecisionsKept`, `ServiceEventsTakeEffectOnce`, `ServiceChangesProper`,
`ServiceEventsStayBound`, `ServiceAcceptancesAreRemembered`) is about the composition. A step of one flow must be shown harmless to the other's frames and memory, which
is what the commits' discipline gives: the other flow's frames are left alone, and what they
have read becomes older, never wrong. The delivery flow fulfils only orders that have left
`AWAITING_PAYMENT` with a succeeded payment and never touches the payment; `ServiceInv`
holds both flows' invariants plus that. From it follow the refinement, one lemma per action
saying which action of OrderLifecycle it is, and `MemoryRepositoryAgrees`: the two
repositories check in different orders, so agreement needs the invariants that make the
differing cases impossible (a mapped intent is carried by its order, a version found equal is
the order read, a provider id has one owner).

Its second part shows that what each flow promises alone is kept where both run on one
table. The theorems about `PaymentSpec` and `DeliverySpec` do not carry over by themselves:
in DeliveryFlow every order exists and is paid from the start, in PaymentFlow no paid order
changes again, and in `ServiceSpec` neither is so. Every step is first sorted
(`ServiceStepIsOfOneSide`): a payment handler's, or a delivery handler's, the clock's or a crash
that leaves Stripe, markers and payment frames alone. Then, one invariant at a time:

- `DecisionInv` (`ServiceDecisionInvariant`): a delivery step moves only decided orders and
  never the payment (`DeliveryKeepsDecisions`), and a payment frame that has read such an
  order is refused by its version.
- `ServiceTimeInv` (`ServiceTimes`): `TimeInv` with `PaymentTimeFrame`, that neither a payment
  handler's stamp nor its proposal is ahead of the clock. Without the latter a payment's commit
  could leave an order that every later delivery change is too old for.
- `PromiseInv` (`ServiceAcceptancesAreRemembered`): payment moves no order that is paid,
  what the provider accepted is paid, and an order that does change gets a later version, so
  no request on its way is taken for the new one's (`PaymentSideKeepsPromise`). As in the
  delivery flow the provider's consistency is a hypothesis.

All of these were checked as invariants of the `service_path` instance first.

**CampaignProofs** (`CampaignInvariant`, `CampaignTypes`, `CampaignStaysReviewed`,
`SuccessSettlesManifest`, `CampaignKeepsPromises`, `CampaignChangesProper`) is about the
command beside the webhooks, with metadata that change under it, expiring events, deaths and
repeated executions. `TableInv` is what the payment flow keeps anyway: the command's own
invocation moves the table as a webhook's does (`CampaignerMovesTable`), and an edit of
metadata is a step on which nothing in it rests (`ReassignMovesTable`). `CommandInv` adds
what the command knows: its log, manifest and passes hold events that were sent, with the
intent they are about (`CommandTyped`); what is still to be done is the rest of the manifest,
and an execution ends with its last entry or where it refuses one (`Progress`); every report
is true of its entry (`ReportsTrue`), which is stable because markers and mappings never go
away; and while an entry is processed the invocation holds that entry's event, with a
snapshot that names the reviewed order (`AtWork`). Only the reviewed client gives the last,
and `CampaignStaysReviewed` follows from it and from what `StripeWebhookRecord` writes.
`SuccessSettlesManifest` follows from `Progress`, `ReportsTrue` and `DecisionKept`.

**SurroundingsProofs** has the publisher and the components without a flow of their own.
- `OutboxInvariant`, `PublisherTypes`, `NothingIsSkipped`, `PendingOrdersAreRequested`,
  `RecordsAreTold`, `PublishesInOrder`: half of `OutboxInv` is about commits: of every
  change `applyOrderStatusChange` accepts, labelled as the handlers label it, the publisher
  knows what to tell (`StatusChangeIsTold`, `PaymentIsTold`), by comparing the domain's
  transition table and its rules for identifiers and failures with each branch of
  `statusChangedEvent`. The other half is about the loop: `NothingSkipped` alone is not
  inductive, for `FailNext` moves the checkpoint to wherever the loop has got; `BehindLoop`
  says that what lies behind the loop within its batch is settled too.
- `FailureIsForgotten`, `InitializerTypesKept`: a rejected promise is cached only until the
  reaction that forgets it has run, and that reaction was registered before any caller's.
- `VendorKeepsTrying`, `EventsKeepTheirOrder`: attempts are counted from the answers, the
  second event's callback starts only when the first's journey is over.
- `LabTypesKept`, `SecretStaysRecoverable`, `DestroyedIsGone`, `ActiveIsWhole`,
  `NothingIsStranded`: invariants that build on each other, each about what a step may rely
  on when it is reached: what is at hand and which runs are queued (`LabShape`), which
  endpoint the parameter's secret belongs to (`SecretCovered`), which run is awaited
  (`RunsAwaited`), what a resumed deployment has found and not yet replaced (`WellPrepared`), which
  secret process, record and stack share (`SameSecret`, `Hooked`), what is left after a
  teardown (`GoneForGood`), and how much can have been made and not recorded (`Remembered`,
  `FewOutOfHand`). They hold for any number of commands, deaths, lost answers and failed
  steps, with runs on GitHub going on after their command ended.
- `ListingTypesKept`, `WalkListsThemOnce`: `ListingInv` relates the walk to the copy of the
  index it reads: what was listed lies before the cursor in the listing's order, what is
  still to be listed and lasting lies after it, for a set of orders that changes between
  any two pages and an index that lags behind.

Only model-checked: the type invariant of `surroundings` as composed (each component's own is
proved), the violated properties of section 7, and liveness: `PendingOrdersSettle` and
`DecidedOrdersProceed` of `flow_liveness`. Liveness under fairness, and `ENABLED` with it, is
beyond the installed provers.

## 7. Divergences found

Each is a run whose property TLC violates, with the line it contradicts quoted in
`PROJECT.json`:

1. `payment_reconciliation`: a snapshot retrieved before the payment succeeded and judged
   after another delivery applied the success is recorded as `RECONCILIATION_REQUIRED`
   (`ORDER_ALREADY_PROGRESSED`), though the intent matches. The specification reserves
   that outcome for a verified permanent mismatch.
2. `delivery_reconciliation`: a request that failed for reconciliation is received again
   and acknowledged, because `safelyCompletedBefore` accepts any provider id. The
   specification says it stays on the failure path.
3. `stream_cancelled`: an order whose payment is cancelled goes from `AWAITING_PAYMENT` to
   `CANCELLED`; the publisher throws on the record of that commit until it is discarded.
4. `campaign_required`: a webhook records an event as `RECONCILIATION_REQUIRED` while the
   campaign processes the same event and judges it otherwise. The campaign's write finds the
   marker, and the command reports *ignored*, from its own verdict, and succeeds.
5. `ui_rejected`: the first attempt creates the order and its answer is lost; the retry is
   refused before it reads the table, and the page turns an ambiguous operation into a
   rejected one, which it allows to be replaced under a new key.

## 8. Left out, and why

- Validation, parsing, formatting, hashing, signatures, logging: no state; a request that
  fails there has no effect.
- Stored orders without a payment (`PAYMENT_VALUE_MISSING`, data from before payments):
  no modelled handler can create one.
- Stripe's error classes: any failure of a call ends the invocation as an exception does
  (`PrepareCreateLost`, `Crash`, an action that does not happen).
- Several shards: the records of different orders are independent.
- The memory repository's `create` and `list`: plain map operations under one thread. Its
  four conditional writes are compared with the table's.
- The local relay, which stands in for stream, topic and queue on one machine. It scans
  the table's latest versions, so a version followed by another within one scan is never
  relayed; the hazard is listed, without a property.
- Of the cloud lab: the race of two terminals for one stale lock file, and the commands
  `create-order` (one call of the API; it writes back the state it read, a listed hazard)
  and `status`, which only reads.
- The validators of `scripts/ci` and the deployment shell scripts: sequential checks of
  texts without state of their own; the effects of the three change-set scripts are runs in
  DevelopmentLab.
- Rendering and forms of the user interface.

## 9. The plan

Order of work, the most important behaviour first. Done:

1. OrderDomain and OrderTable; PaymentFlow with its runs.
2. DeliveryFlow with its runs.
3. StreamPublisher.
4. OrderLifecycle, OrderService and the refinement, by TLC; MemoryRepository beside it.
5. Proofs of both flows' type invariants, optimistic concurrency, PAY-I01, PAY-I05,
   collected payments, the intent lookup, pending requests.
6. OrderApi and BrowserJourney: creation, lost answers, the page; with proofs.
7. ReconciliationCampaign over PaymentFlow's table.
8. MockVendor: acceptance and the timed journey with its callback attempts.
9. OrderListing: pages over orders created or changed between two pages.
10. RetryableInitializer; DevelopmentLab.
11. Proofs about the promises of both flows and the publisher.

12. Proofs of the delivery flow's action properties, of the composition with its refinement
    of OrderLifecycle and the agreement with the memory repository, of the listing,
    the initialisation, the lab and the vendor.

13. Proofs of the campaign, from a `PaymentInv` that does not mention metadata.

14. Proofs that the composed service keeps what each flow promises alone: decisions, events
    that take effect once, proper changes, bound event ids, acceptances.

Left:

15. The local relay, and the race for the lab's lock file.
