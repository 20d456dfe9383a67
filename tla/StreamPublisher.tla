---------------------------- MODULE StreamPublisher ----------------------------
(***************************************************************************)
(* The outbox of the service: every commit on an order puts a record into  *)
(* the table's stream, and the stream publisher Lambda turns records into  *)
(* domain events on the SNS topic.  One shard is modelled, whose records   *)
(* keep the order of the commits; Lambda hands them over in batches and    *)
(* repeats what failed.                                                    *)
(*                                                                         *)
(* Which handler commits does not matter here: a commit is any change the  *)
(* order domain lets the handlers make, with the mutation metadata they    *)
(* attach.                                                                 *)
(***************************************************************************)
EXTENDS OrderDomain, Sequences

CONSTANTS
  BatchSize,             \* StreamPublisherBatchSize
  MaximumRetryAttempts,  \* StreamPublisherMaximumRetryAttempts
  PaymentStatuses,       \* statuses intents take at Stripe
  MaxRecords             \* bound on the commits

ASSUME PublisherConstants ==
  /\ BatchSize \in Nat \ {0}
  /\ MaximumRetryAttempts \in Nat
  /\ PaymentStatuses \subseteq PaymentStatus \ {"NOT_STARTED"}
  /\ MaxRecords \in Nat

VARIABLES
  orderItems,   \* order items
  shard,        \* records of the commits, in commit order
  checkpoint,   \* how many records the event source mapping is done with
  upTo,         \* last record of the batch being processed, 0 when there is none
  at,           \* the record the loop over the batch has reached
  retries,      \* failed attempts at the record behind the checkpoint
  published,    \* records whose event has reached the topic
  retained      \* records discarded to the failure queue

orderVars     == <<orderItems, shard>>
publisherVars == <<checkpoint, upTo, at, retries, published, retained>>
allPublisherVars == <<orderVars, publisherVars>>

(***************************************************************************)
(* Commits and their records.                                              *)
(***************************************************************************)
\* The mutation metadata: its kind and, for a status change, what from.
StreamRecord(o, order, kind, from) == [orderId |-> o, order |-> order, kind |-> kind, from |-> from]

Commit(o, after, kind, from) ==
  /\ Len(shard) < MaxRecords
  /\ orderItems' = [orderItems EXCEPT ![o] = after]
  /\ shard' = Append(shard, StreamRecord(o, after, kind, from))
  /\ UNCHANGED publisherVars

CommitCreation(o) ==
  /\ orderItems[o] = Undefined
  /\ Commit(o, NewOrder(0), "ORDER_CREATED", Undefined)

\* Faulty variant: the webhook labels all it commits a payment change.
MutationKindOfPayment(before, after) == "ORDER_PAYMENT_CHANGED"

\* The Stripe webhook labels a commit that moves the order a status change,
\* any other a payment change.
MutationKind(before, after) ==
  IF after.status = before.status THEN "ORDER_PAYMENT_CHANGED" ELSE "ORDER_STATUS_CHANGED"

\* Binding of an intent, and payment changes from Stripe: a decided payment
\* moves the order along.
CommitPayment(o, change) ==
  LET before  == orderItems[o]
      payment == PaymentChanged(before.payment, change, 0)
      paid    == [before EXCEPT !.payment = payment]
      target  == IF change.targetStatus = "SUCCEEDED" THEN "PENDING_SUBMISSION" ELSE "CANCELLED"
      after   == IF change.targetStatus \in TerminalPaymentStatus
                 THEN StatusChanged(paid, ChangeTo(target), 0)
                 ELSE WithPayment(before, payment, 0)
  IN /\ before # Undefined
     /\ before.status = "AWAITING_PAYMENT"
     /\ PaymentChangeAccepted(before.payment, change, 0)
     /\ payment # before.payment
     /\ Commit(o, after, MutationKind(before, after), before.status)

\* Operators, the delivery worker and the provider webhook.
CommitStatus(o, change) ==
  /\ orderItems[o] # Undefined
  /\ StatusChangeApplies(orderItems[o], change, 0)
  /\ Commit(o, StatusChanged(orderItems[o], change, 0), "ORDER_STATUS_CHANGED", orderItems[o].status)

PaymentChanges ==
  [targetStatus : PaymentStatuses, stripePaymentIntentId : IntentIds, lastFailure : {Undefined}]

StatusChanges ==
  [ targetStatus : OrderStatus, deliveryProviderOrderId : Optional(ProviderIds),
    acceptedAt : {Undefined}, failure : FailureDetails \cup {Undefined} ]

(***************************************************************************)
(* domainEventFromOrderStreamRecord.                                       *)
(***************************************************************************)
NoEvent == "none"
Throws  == "throws"

\* Where a status may come from, by the branches of statusChangedEvent.
EventOfStatusChange(r) ==
  LET to == r.order.status
      announcing(type, froms) == IF r.from \in froms THEN type ELSE Throws
  IN CASE to = "PENDING_SUBMISSION" ->
            IF r.from = "AWAITING_PAYMENT"
            THEN IF r.order.payment.status = "SUCCEEDED"
                 THEN "order.ready_for_submission" ELSE Throws
            ELSE announcing("order.submission_retry_requested", {"SUBMISSION_FAILED"})
       [] to = "SUBMITTED" ->
            IF Undefined \in {r.order.deliveryProviderOrderId, r.order.acceptedAt} THEN Throws
            ELSE announcing("order.submitted", {"PENDING_SUBMISSION"})
       [] to = "SUBMISSION_FAILED" ->
            IF r.order.failure = Undefined THEN Throws
            ELSE announcing("order.submission_failed", {"PENDING_SUBMISSION"})
       [] to = "CANCELLED" ->
            announcing("order.cancelled", {"PENDING_SUBMISSION", "SUBMISSION_FAILED", "SUBMITTED"})
       [] to = "PICKED_UP" ->
            IF r.order.deliveryProviderOrderId = Undefined THEN Throws
            ELSE announcing("order.picked_up", {"SUBMITTED"})
       [] to = "DELIVERED" ->
            IF r.order.deliveryProviderOrderId = Undefined THEN Throws
            ELSE announcing("order.delivered", {"SUBMITTED", "PICKED_UP"})
       [] to = "DELIVERY_FAILED" ->
            IF Undefined \in {r.order.deliveryProviderOrderId, r.order.failure} THEN Throws
            ELSE announcing("order.delivery_failed", {"SUBMITTED", "PICKED_UP"})
       [] OTHER -> Throws   \* no order returns to AWAITING_PAYMENT

EventOf(r) ==
  CASE r.kind = "ORDER_CREATED" ->
         IF /\ r.order.status = "AWAITING_PAYMENT"
            /\ r.order.payment.status = "NOT_STARTED"
         THEN "order.created" ELSE Throws
    [] r.kind = "ORDER_PAYMENT_CHANGED" -> NoEvent
    [] OTHER -> EventOfStatusChange(r)

Requesting == {"order.ready_for_submission", "order.submission_retry_requested"}

(***************************************************************************)
(* The publisher's loop over a batch, and Lambda's event source mapping.   *)
(***************************************************************************)
Idle == upTo = 0

\* Bisection and arrival times decide how large a batch is.
Batches == { n \in 1..Len(shard) : checkpoint < n /\ n <= checkpoint + BatchSize }

TakeBatch(n) ==
  /\ Idle
  /\ n \in Batches
  /\ retries <= MaximumRetryAttempts
  /\ upTo' = n
  /\ at' = checkpoint + 1
  /\ UNCHANGED <<orderVars, checkpoint, retries, published, retained>>

InBatch == ~Idle /\ at <= upTo

PublishNext ==
  /\ InBatch
  /\ EventOf(shard[at]) \notin {NoEvent, Throws}
  /\ published' = published \cup {at}
  /\ at' = at + 1
  /\ UNCHANGED <<orderVars, checkpoint, upTo, retries, retained>>

SkipNext ==
  /\ InBatch
  /\ EventOf(shard[at]) = NoEvent
  /\ at' = at + 1
  /\ UNCHANGED <<orderVars, checkpoint, upTo, retries, published, retained>>

\* Faulty variant: the loop goes on behind a record that failed.
FailNextContinuing ==
  /\ InBatch
  /\ EventOf(shard[at]) # NoEvent
  /\ at' = at + 1
  /\ UNCHANGED <<orderVars, checkpoint, upTo, retries, published, retained>>

\* Faulty variant: the record behind the failed one is reported.
FailNextReportingNext ==
  /\ InBatch
  /\ EventOf(shard[at]) # NoEvent
  /\ checkpoint' = at
  /\ retries' = 1
  /\ upTo' = 0
  /\ UNCHANGED <<orderVars, at, published, retained>>

\* Parsing or publishing throws (the topic may have taken the event all the
\* same): the batch ends there, and the record is reported as the first that
\* failed.
FailNext ==
  /\ InBatch
  /\ EventOf(shard[at]) # NoEvent
  /\ \/ UNCHANGED published
     \/ EventOf(shard[at]) # Throws /\ published' = published \cup {at}
  /\ checkpoint' = at - 1
  /\ retries' = IF at = checkpoint + 1 THEN retries + 1 ELSE 1
  /\ upTo' = 0
  /\ UNCHANGED <<orderVars, at, retained>>

EndBatch ==
  /\ ~Idle
  /\ at > upTo
  /\ checkpoint' = upTo
  /\ retries' = 0
  /\ upTo' = 0
  /\ UNCHANGED <<orderVars, at, published, retained>>

\* A timeout of the invocation: the whole batch is repeated.
Die ==
  /\ ~Idle
  /\ retries' = retries + 1
  /\ upTo' = 0
  /\ UNCHANGED <<orderVars, checkpoint, at, published, retained>>

\* The attempts are used up: a batch that starts with the failing record
\* goes to the failure queue.
Discard(n) ==
  /\ Idle
  /\ n \in Batches
  /\ retries > MaximumRetryAttempts
  /\ retained' = retained \cup (checkpoint + 1 .. n)
  /\ checkpoint' = n
  /\ retries' = 0
  /\ UNCHANGED <<orderVars, upTo, at, published>>

(***************************************************************************)
(* Specification.                                                          *)
(***************************************************************************)
PublisherInit ==
  /\ orderItems = [o \in OrderIds |-> Undefined]
  /\ shard = <<>>
  /\ checkpoint = 0
  /\ upTo = 0
  /\ at = 0
  /\ retries = 0
  /\ published = {}
  /\ retained = {}

Committing ==
  \E o \in OrderIds :
    \/ CommitCreation(o)
    \/ \E change \in PaymentChanges : CommitPayment(o, change)
    \/ \E change \in StatusChanges : CommitStatus(o, change)

Publishing ==
  \/ \E n \in 1..Len(shard) : TakeBatch(n) \/ Discard(n)
  \/ PublishNext
  \/ SkipNext
  \/ FailNext
  \/ EndBatch
  \/ Die

PublisherNext == Committing \/ Publishing

PublisherSpec == PublisherInit /\ [][PublisherNext]_allPublisherVars

(***************************************************************************)
(* Properties.                                                             *)
(***************************************************************************)

\* Positions, counters and records hold values of their types.
PublisherTypeOK ==
  /\ orderItems \in [OrderIds -> Order \cup {Undefined}]
  /\ \A k \in 1..Len(shard) : shard[k].orderId \in OrderIds /\ shard[k].order \in Order
  /\ checkpoint \in 0..Len(shard)
  /\ upTo \in 0..Len(shard)
  /\ ~Idle => at \in checkpoint + 1 .. upTo + 1
  /\ retries \in Nat
  /\ published \cup retained \subseteq 1..Len(shard)

\* At least once: what the mapping is done with has been published, says
\* nothing, or lies in the failure queue.
NothingSkipped ==
  \A k \in 1..checkpoint : k \in published \cup retained \/ EventOf(shard[k]) = NoEvent

\* The events of an order reach the topic for the first time in the order of
\* its versions; only records in the failure queue may be missing between.
PublishedInOrder ==
  [][ \A k \in published' \ published, j \in 1..Len(shard) :
        ( j < k /\ shard[j].orderId = shard[k].orderId ) =>
          j \in published \cup retained \/ EventOf(shard[j]) = NoEvent
    ]_published

\* The delivery request of an order that waits for submission is in the
\* stream, on the topic or in the failure queue: one of these holds the
\* event of the very commit that made it wait.
PendingIsRequested ==
  \A o \in OrderIds :
    ( orderItems[o] # Undefined /\ orderItems[o].status = "PENDING_SUBMISSION" ) =>
      \E k \in 1..Len(shard) :
        /\ shard[k].orderId = o
        /\ shard[k].order = orderItems[o]
        /\ EventOf(shard[k]) \in Requesting
        /\ k > checkpoint \/ k \in published \cup retained

\* The metadata the handlers attach fits what the publisher insists on: no
\* commit makes a record it throws on, but the one the next property is about.
RecordsCanBeTold ==
  \A k \in 1..Len(shard) :
    EventOf(shard[k]) = Throws =>
      shard[k].from = "AWAITING_PAYMENT" /\ shard[k].order.status = "CANCELLED"

\* domain-events.md: order.cancelled means "The order was cancelled from an
\* allowed state", so the record of every cancellation can be told.
CancellationsCanBeTold ==
  \A k \in 1..Len(shard) :
    shard[k].order.status = "CANCELLED" => EventOf(shard[k]) = "order.cancelled"
==============================================================================
