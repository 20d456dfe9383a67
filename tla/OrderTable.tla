------------------------------ MODULE OrderTable ------------------------------
(***************************************************************************)
(* The single DynamoDB table behind DynamoDbOrderRepository, and what a    *)
(* Lambda invocation holds in memory between its calls to it.              *)
(*                                                                         *)
(* A repository method that writes is one TransactWriteItems call: it is   *)
(* described by the condition under which the transaction commits and by   *)
(* its effect on the table.  What a method does after a cancelled          *)
(* transaction (it reads again and picks an error) is a later step of the  *)
(* invocation that called it, so it belongs to the modules that use this   *)
(* one.  Reads are strongly consistent: they see the table as it is.       *)
(***************************************************************************)
EXTENDS OrderDomain

CONSTANTS
  StripeEventIds,    \* ids of Stripe events
  ProviderEventIds,  \* ids of delivery-provider webhook events
  Invocations,       \* Lambda invocations (and SQS batch slots) that may run at once
  MaxTime,           \* bound on the clock
  TransactionConflicts, \* transactions on one order may cancel each other
  MaxCrashes         \* bound on how many invocations die half-way

VARIABLES
  orders,            \* order items
  intentMapping,     \* STRIPE_PAYMENT_INTENT items: intent -> order
  providerMapping,   \* DELIVERY_PROVIDER_ORDER items: provider id -> order
  stripeEvents,      \* PROCESSED_EVENT items of the Stripe webhook
  providerEvents,    \* PROCESSED_EVENT items of the provider webhook
  clock,             \* the time every new Date() reads
  crashes,           \* invocations that died so far
  pc,                \* where an invocation is
  subject,           \* the order an invocation works on
  input,             \* the event or message an invocation was given
  stamp,             \* the time an invocation has put aside
  read,              \* the order as an invocation read it
  proposed,          \* the changed order an invocation wants to commit
  attempt            \* the turn of an invocation's retry loop

tableVars == <<orders, intentMapping, providerMapping, stripeEvents, providerEvents>>
frameVars == <<pc, subject, input, stamp, read, proposed, attempt>>
baseVars  == <<tableVars, clock, crashes, frameVars>>

MaxConcurrentWriteAttempts == 3

\* Steps at which an invocation's transaction is under way.
WriteSteps ==
  {"bind", "recordStripe", "saveDelivery", "saveOperator", "recordProvider"}

\* All steps of an invocation; the others await an answer or go on with one.
Steps ==
  WriteSteps \cup
  { "idle", "create", "resolveBinding", "retrieve", "lookup", "load", "resolveStripe",
    "submit", "resolveDelivery", "getProvider", "resolveProvider" }

\* Another transaction on the same order is under way, so DynamoDB may
\* cancel this one (TransactionConflict) although its conditions hold.
Contended(h) ==
  /\ TransactionConflicts
  /\ \E g \in Invocations \ {h} : pc[g] \in WriteSteps /\ subject[g] = subject[h]

StripeOutcomes == {"APPLIED", "IGNORED", "RECONCILIATION_REQUIRED"}

TableInit ==
  /\ orders = [o \in OrderIds |-> Undefined]
  /\ intentMapping = [i \in IntentIds |-> Undefined]
  /\ providerMapping = [p \in ProviderIds |-> Undefined]
  /\ stripeEvents = [e \in StripeEventIds |-> Undefined]
  /\ providerEvents = [e \in ProviderEventIds |-> Undefined]

FramesInit ==
  /\ pc = [h \in Invocations |-> "idle"]
  /\ subject = [h \in Invocations |-> Undefined]
  /\ input = [h \in Invocations |-> Undefined]
  /\ stamp = [h \in Invocations |-> Undefined]
  /\ read = [h \in Invocations |-> Undefined]
  /\ proposed = [h \in Invocations |-> Undefined]
  /\ attempt = [h \in Invocations |-> 0]

(***************************************************************************)
(* Repository transactions.                                                *)
(***************************************************************************)

\* Faulty variant: the write checks only that the order exists.
VersionUnchecked(o, version) == orders[o] # Undefined

\* The condition statusUpdate and the version checks put on the order item.
VersionIs(o, version) == orders[o] # Undefined /\ orders[o].version = version

\* create: the order item (its idempotency items are another module's).
CreateOrderItem(o, order) ==
  /\ orders[o] = Undefined
  /\ orders' = [orders EXCEPT ![o] = order]
  /\ UNCHANGED <<intentMapping, providerMapping, stripeEvents, providerEvents>>

\* Only the first acceptance writes the reverse lookup.
RecordsAcceptance(before, after) ==
  before.status = "PENDING_SUBMISSION" /\ after.status = "SUBMITTED"

\* Faulty variant: the reverse-lookup item is put unconditionally.
SaveStatusChangeOverwriting(o, before, after) == VersionIs(o, before.version)

SaveStatusChangeCommits(o, before, after) ==
  /\ VersionIs(o, before.version)
  /\ RecordsAcceptance(before, after) =>
       providerMapping[after.deliveryProviderOrderId] = Undefined

SaveStatusChange(o, before, after) ==
  /\ SaveStatusChangeCommits(o, before, after)
  /\ orders' = [orders EXCEPT ![o] = after]
  /\ providerMapping' =
       IF RecordsAcceptance(before, after)
       THEN [providerMapping EXCEPT ![after.deliveryProviderOrderId] = o]
       ELSE providerMapping
  /\ UNCHANGED <<intentMapping, stripeEvents, providerEvents>>

BindCommits(o, before, intent) ==
  VersionIs(o, before.version) /\ intentMapping[intent] = Undefined

\* Faulty variant: the order takes the intent, the mapping is left for later.
BindOrderOnly(o, before, after) ==
  /\ BindCommits(o, before, after.payment.stripePaymentIntentId)
  /\ orders' = [orders EXCEPT ![o] = after]
  /\ UNCHANGED <<intentMapping, providerMapping, stripeEvents, providerEvents>>

\* bindStripePaymentIntent: order and mapping together.
BindStripePaymentIntent(o, before, after) ==
  LET intent == after.payment.stripePaymentIntentId
  IN /\ BindCommits(o, before, intent)
     /\ orders' = [orders EXCEPT ![o] = after]
     /\ intentMapping' = [intentMapping EXCEPT ![intent] = o]
     /\ UNCHANGED <<providerMapping, stripeEvents, providerEvents>>

\* Faulty variant: an event marker is put without looking for an older one.
ProviderWebhookUnconditional(o, before, event) == VersionIs(o, before.version)

ProviderWebhookCommits(o, before, event) ==
  VersionIs(o, before.version) /\ providerEvents[event.eventId] = Undefined

\* recordProviderWebhook: the marker, with the changed order or a check of
\* the version (then after = before).
RecordProviderWebhook(o, before, after, event) ==
  /\ ProviderWebhookCommits(o, before, event)
  /\ orders' = [orders EXCEPT ![o] = after]
  /\ providerEvents' = [providerEvents EXCEPT ![event.eventId] = event]
  /\ UNCHANGED <<intentMapping, providerMapping, stripeEvents>>

\* The order a Stripe event is recorded against is still as it was read
\* (before = Undefined: still missing).
StripeOrderUnchanged(o, before) ==
  IF before = Undefined THEN orders[o] = Undefined ELSE VersionIs(o, before.version)

\* Faulty variant: an event marker is put over an older one.
StripeWebhookCommitsAgain(o, before, eventId, intent, mapIntent) ==
  /\ StripeOrderUnchanged(o, before)
  /\ mapIntent => intentMapping[intent] = Undefined

StripeWebhookCommits(o, before, eventId, intent, mapIntent) ==
  /\ StripeOrderUnchanged(o, before)
  /\ mapIntent => intentMapping[intent] = Undefined
  /\ stripeEvents[eventId] = Undefined

\* executeStripeWebhookTransaction in its three uses: order (or a check of
\* it), mapping when asked for, and marker.
RecordStripeWebhook(o, before, after, eventId, intent, mapIntent, outcome) ==
  /\ StripeWebhookCommits(o, before, eventId, intent, mapIntent)
  /\ orders' = [orders EXCEPT ![o] = after]
  /\ intentMapping' =
       IF mapIntent THEN [intentMapping EXCEPT ![intent] = o] ELSE intentMapping
  /\ stripeEvents' = [stripeEvents EXCEPT ![eventId] = outcome]
  /\ UNCHANGED <<providerMapping, providerEvents>>

(***************************************************************************)
(* Invocations.                                                            *)
(***************************************************************************)
Goto(h, step) == pc' = [pc EXCEPT ![h] = step]

\* The invocation ends, with a result or an exception; its memory is gone.
Return(h) ==
  /\ pc' = [pc EXCEPT ![h] = "idle"]
  /\ subject' = [subject EXCEPT ![h] = Undefined]
  /\ input' = [input EXCEPT ![h] = Undefined]
  /\ stamp' = [stamp EXCEPT ![h] = Undefined]
  /\ read' = [read EXCEPT ![h] = Undefined]
  /\ proposed' = [proposed EXCEPT ![h] = Undefined]
  /\ attempt' = [attempt EXCEPT ![h] = 0]

\* Faulty variant: one turn too many.
AttemptsOneMore(h) == attempt[h] <= MaxConcurrentWriteAttempts

\* The retry loops of the two webhooks start another turn.
AttemptsLeft(h) == attempt[h] < MaxConcurrentWriteAttempts

Tick ==
  /\ clock < MaxTime
  /\ clock' = clock + 1
  /\ UNCHANGED <<tableVars, crashes, frameVars>>

\* A timeout or a failure of the runtime ends the invocation anywhere.
Crash(h) ==
  /\ pc[h] # "idle"
  /\ crashes < MaxCrashes
  /\ crashes' = crashes + 1
  /\ Return(h)
  /\ UNCHANGED <<tableVars, clock>>

(***************************************************************************)
(* Properties every flow over the table has.                               *)
(***************************************************************************)
ItemsTypeOK ==
  /\ orders \in [OrderIds -> Order \cup {Undefined}]
  /\ intentMapping \in [IntentIds -> Optional(OrderIds)]
  /\ providerMapping \in [ProviderIds -> Optional(OrderIds)]
  /\ stripeEvents \in [StripeEventIds -> Optional(StripeOutcomes)]
  /\ clock \in Nat
  /\ crashes \in Nat

FramesTypeOK ==
  /\ pc \in [Invocations -> Steps]
  /\ DOMAIN input = Invocations
  /\ subject \in [Invocations -> Optional(OrderIds)]
  /\ stamp \in [Invocations -> Optional(Nat)]
  /\ read \in [Invocations -> Order \cup {Undefined}]
  /\ proposed \in [Invocations -> Order \cup {Undefined}]
  /\ attempt \in [Invocations -> 0..MaxConcurrentWriteAttempts]

\* Items and frames hold values of their types, and the retry loops of the
\* webhooks stay within their attempts.
TableTypeOK == ItemsTypeOK /\ FramesTypeOK

\* Optimistic concurrency works: what an invocation has read is either the
\* stored order itself or visibly older, so that "the version is still the
\* one I read" means "the order is still the one I read".
SnapshotsCurrentOrOlder ==
  \A h \in Invocations :
    read[h] # Undefined =>
      /\ subject[h] \in OrderIds
      /\ orders[subject[h]] # Undefined
      /\ read[h].version <= orders[subject[h]].version
      /\ read[h].version = orders[subject[h]].version => read[h] = orders[subject[h]]

\* The two lookups agree with the orders they point to, in both directions:
\* a webhook that names an intent or a delivery finds the one order that
\* carries it, and an order that carries one can be found.
IntentLookupAgrees ==
  \A i \in IntentIds, o \in OrderIds :
    intentMapping[i] = o <=>
      (orders[o] # Undefined /\ orders[o].payment.stripePaymentIntentId = i)

ProviderLookupAgrees ==
  \A p \in ProviderIds, o \in OrderIds :
    providerMapping[p] = o <=>
      (orders[o] # Undefined /\ orders[o].deliveryProviderOrderId = p)

\* What one committed change may do to an order (domain-model.md, aggregate
\* invariants 5-8 and 11): exactly one version further, never back in time,
\* identifiers once recorded stay, nothing follows a terminal status and a
\* terminal payment stays what it is.
CommittedChange(before, after) ==
  /\ after.version = before.version + 1
  /\ after.updatedAt >= before.updatedAt
  /\ after.createdAt = before.createdAt
  /\ before.status \notin TerminalStatus
  /\ before.deliveryProviderOrderId # Undefined =>
       /\ after.deliveryProviderOrderId = before.deliveryProviderOrderId
       /\ after.acceptedAt = before.acceptedAt
  /\ before.payment.stripePaymentIntentId # Undefined =>
       after.payment.stripePaymentIntentId = before.payment.stripePaymentIntentId
  /\ before.payment.status \in TerminalPaymentStatus =>
       after.payment.status = before.payment.status

OrdersChangeProperly ==
  [][ \A o \in OrderIds :
        orders'[o] # orders[o] =>
          /\ orders'[o] # Undefined
          /\ orders[o] # Undefined => CommittedChange(orders[o], orders'[o])
    ]_orders
==============================================================================
