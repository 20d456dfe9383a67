---------------------------- MODULE MemoryRepository ----------------------------
(***************************************************************************)
(* InMemoryOrderRepository, on which the tests of every handler run, next  *)
(* to the DynamoDB one.  It holds its maps in memory and makes its checks  *)
(* one after the other where DynamoDB cancels a transaction and the        *)
(* repository then asks why.  For each write that an invocation of         *)
(* OrderService is about to send, this module says what the one would      *)
(* answer and what the other answers when nothing comes in between.        *)
(***************************************************************************)
EXTENDS OrderService

(***************************************************************************)
(* bindStripePaymentIntent.                                                *)
(***************************************************************************)

\* resolvePaymentBindingOrder: an error, or "none" when it returns.
BindingOrderError(o, before, i) ==
  IF orders[o] = Undefined THEN "orderNotFound"
  ELSE IF orders[o].payment.stripePaymentIntentId \notin {Undefined, i} THEN "bindingConflict"
  ELSE IF orders[o].version # before.version THEN "versionConflict"
  ELSE "none"

BoundToOrder(o, i) == intentMapping[i] = o /\ orders[o].payment.stripePaymentIntentId = i

MappedIntentAnswer(o, i) == IF BoundToOrder(o, i) THEN "replayed" ELSE "bindingConflict"

DynamoBind(o, before, i) ==
  IF BindCommits(o, before, i) THEN "committed"
  ELSE IF intentMapping[i] # Undefined THEN MappedIntentAnswer(o, i)
  ELSE IF BindingOrderError(o, before, i) # "none" THEN BindingOrderError(o, before, i)
  ELSE IF orders[o].payment.stripePaymentIntentId = i THEN "bindingConflict"
  ELSE "versionConflict"

\* Faulty variant: whoever asks for an intent that is mapped is refused.
MemoryBindNoReplay(o, before, i) ==
  IF intentMapping[i] # Undefined THEN "bindingConflict"
  ELSE IF BindingOrderError(o, before, i) # "none" THEN BindingOrderError(o, before, i)
  ELSE IF orders[o].payment.stripePaymentIntentId = i THEN "bindingConflict"
  ELSE "committed"

MemoryBind(o, before, i) ==
  IF intentMapping[i] # Undefined THEN MappedIntentAnswer(o, i)
  ELSE IF BindingOrderError(o, before, i) # "none" THEN BindingOrderError(o, before, i)
  ELSE IF orders[o].payment.stripePaymentIntentId = i THEN "bindingConflict"
  ELSE "committed"

(***************************************************************************)
(* saveStatusChange.                                                       *)
(***************************************************************************)
OrderError(o, version) ==
  IF orders[o] = Undefined THEN "orderNotFound"
  ELSE IF orders[o].version # version THEN "versionConflict"
  ELSE "none"

DynamoSave(o, before, after) ==
  IF SaveStatusChangeCommits(o, before, after) THEN "committed"
  ELSE IF OrderError(o, before.version) # "none" THEN OrderError(o, before.version)
  ELSE IF RecordsAcceptance(before, after) THEN "providerIdConflict"
  ELSE "versionConflict"

\* The lookup entry of the order itself does not stand in the way.
ProviderIdTaken(o, before, after) ==
  /\ RecordsAcceptance(before, after)
  /\ providerMapping[after.deliveryProviderOrderId] \notin {Undefined, o}

MemorySave(o, before, after) ==
  IF OrderError(o, before.version) # "none" THEN OrderError(o, before.version)
  ELSE IF ProviderIdTaken(o, before, after) THEN "providerIdConflict"
  ELSE "committed"

(***************************************************************************)
(* recordProviderWebhook.                                                  *)
(***************************************************************************)
RecordedProviderEvent(event) ==
  IF providerEvents[event.eventId] = event THEN "duplicate" ELSE "eventIdConflict"

DynamoProviderRecord(o, before, event) ==
  IF ProviderWebhookCommits(o, before, event) THEN "committed"
  ELSE IF providerEvents[event.eventId] # Undefined THEN RecordedProviderEvent(event)
  ELSE IF orders[o] = Undefined THEN "orderNotFound"
  ELSE "versionConflict"

MemoryProviderRecord(o, before, event) ==
  IF providerEvents[event.eventId] # Undefined THEN RecordedProviderEvent(event)
  ELSE IF OrderError(o, before.version) # "none" THEN OrderError(o, before.version)
  ELSE "committed"

(***************************************************************************)
(* The three writes of the Stripe webhook.                                 *)
(***************************************************************************)
MappedElsewhere(o, i, mapIntent) == mapIntent /\ intentMapping[i] \notin {Undefined, o}

\* What becomes of the order an event is recorded against (before =
\* Undefined: it was missing).
StripeOrderError(o, before) ==
  IF before # Undefined THEN OrderError(o, before.version)
  ELSE IF orders[o] # Undefined THEN "versionConflict"
  ELSE "none"

\* An event's fingerprint is its own for ever, so a marker means duplicate.
DynamoStripeRecord(o, before, eventId, i, mapIntent) ==
  IF StripeWebhookCommits(o, before, eventId, i, mapIntent) THEN "committed"
  ELSE IF stripeEvents[eventId] # Undefined THEN "duplicate"
  ELSE IF MappedElsewhere(o, i, mapIntent) THEN "bindingConflict"
  ELSE IF before # Undefined /\ orders[o] = Undefined THEN "orderNotFound"
  ELSE IF before # Undefined \/ orders[o] # Undefined THEN "versionConflict"
  ELSE "error"

\* The order is checked before the mapping here.
MemoryStripeRecord(o, before, eventId, i, mapIntent) ==
  IF stripeEvents[eventId] # Undefined THEN "duplicate"
  ELSE IF StripeOrderError(o, before) # "none" THEN StripeOrderError(o, before)
  ELSE IF MappedElsewhere(o, i, mapIntent) THEN "bindingConflict"
  ELSE IF mapIntent /\ intentMapping[i] = o THEN "versionConflict"
  ELSE "committed"

(***************************************************************************)
(* Property.                                                               *)
(***************************************************************************)

\* What the tests see is what runs: whatever write an invocation is about
\* to send, in whatever state of the table, the memory repository answers as
\* DynamoDB and the repository's second look do, although the two check in
\* another order and under other conditions.
MemoryRepositoryAgrees ==
  \A h \in Invocations :
    LET o == subject[h]
    IN /\ pc[h] = "bind" =>
            LET i == proposed[h].payment.stripePaymentIntentId
            IN MemoryBind(o, read[h], i) = DynamoBind(o, read[h], i)
       /\ pc[h] \in {"saveDelivery", "saveOperator"} =>
            MemorySave(o, read[h], proposed[h]) = DynamoSave(o, read[h], proposed[h])
       /\ pc[h] = "recordProvider" =>
            MemoryProviderRecord(o, read[h], input[h]) = DynamoProviderRecord(o, read[h], input[h])
       /\ pc[h] = "recordStripe" =>
            MemoryStripeRecord(o, read[h], input[h].eventId, input[h].intentId, MapIntent(h))
              = DynamoStripeRecord(o, read[h], input[h].eventId, input[h].intentId, MapIntent(h))
================================================================================
