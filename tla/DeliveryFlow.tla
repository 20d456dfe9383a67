----------------------------- MODULE DeliveryFlow -----------------------------
(***************************************************************************)
(* Delivery of a paid order: the submission request on its way from the    *)
(* table's stream to the SQS queue, the delivery worker                    *)
(* (processDeliveryEvent), the operator's status changes                   *)
(* (changeOrderStatus), the provider webhook (processProviderWebhook), and *)
(* the delivery provider as their environment.                             *)
(*                                                                         *)
(* Each invocation takes one step per call it awaits.                      *)
(***************************************************************************)
EXTENDS OrderTable, Functions

CONSTANTS
  Workers,              \* worker invocations, one message each
  OperatorInvocations,  \* invocations of the orders API changing a status
  ProviderInvocations,  \* invocations of the provider webhook Lambda
  OperatorProviderIds,  \* provider identifiers an operator may type in
  VendorConsistent,     \* the provider never answers one request once yes, once no
  VendorReusesIds,      \* the provider may give an event id to different events
  MaxVersion,           \* bound on the version an operator still changes
  MaxReceives,          \* maxReceiveCount of the delivery queue
  MaxDuplicates         \* bound on repeated publications of a request

ASSUME DeliveryInvocations ==
  /\ Workers \cup OperatorInvocations \cup ProviderInvocations \subseteq Invocations
  /\ Workers \cap (OperatorInvocations \cup ProviderInvocations) = {}
  /\ OperatorInvocations \cap ProviderInvocations = {}
  /\ OperatorProviderIds \subseteq ProviderIds
  /\ VendorConsistent \in BOOLEAN
  /\ VendorReusesIds \in BOOLEAN
  /\ MaxVersion \in Nat /\ MaxVersion >= 3   \* the version of a paid order
  /\ MaxReceives \in Nat
  /\ MaxDuplicates \in Nat

VARIABLES
  stream,         \* submission requests the stream publisher may (again) publish
  queue,          \* requests in the delivery queue or its dead-letter queue
  receives,       \* how often a request has been received
  duplicates,     \* repeated publications so far
  vendor,         \* the provider: what it decided about an order
  sent,           \* the provider: webhook events it has sent
  reconciliation  \* requests that raised DeliveryReconciliationRequiredError

queueVars    == <<stream, queue, receives, duplicates>>
vendorVars   == <<vendor, sent>>
deliveryVars == <<queueVars, vendorVars, reconciliation>>

(***************************************************************************)
(* Requests.  The event a commit into PENDING_SUBMISSION streams           *)
(* (order.ready_for_submission, order.submission_retry_requested) carries  *)
(* the order's id and its new version.                                     *)
(***************************************************************************)
Request(o, version) == [orderId |-> o, version |-> version]

Requests == [orderId : OrderIds, version : 0..(MaxVersion + 1)]

RequestsOf(o, order) ==
  IF order.status = "PENDING_SUBMISSION" THEN {Request(o, order.version)} ELSE {}

\* Stream, publisher and SNS deliver a request at least once.
Publish(m) ==
  /\ m \in stream
  /\ queue' = queue \cup {m}
  /\ \/ stream' = stream \ {m} /\ UNCHANGED duplicates
     \/ duplicates < MaxDuplicates /\ duplicates' = duplicates + 1 /\ UNCHANGED stream
  /\ UNCHANGED <<baseVars, receives, vendorVars, reconciliation>>

\* A processed request leaves the queue, unless the batch dies before its
\* result reaches SQS.
Acknowledge(m) ==
  \/ queue' = queue \ {m} /\ UNCHANGED crashes
  \/ crashes < MaxCrashes /\ crashes' = crashes + 1 /\ UNCHANGED queue

(***************************************************************************)
(* processDeliveryEvent.                                                   *)
(***************************************************************************)

\* Standard queue: any request may be received at any time, also while
\* another worker has it, until the receive count moves it to the DLQ.
Receive(h, m) ==
  /\ pc[h] = "idle"
  /\ m \in queue
  /\ receives[m] < MaxReceives
  /\ receives' = [receives EXCEPT ![m] = @ + 1]

ProgressedAfter(m, order) == order.version > m.version

\* Faulty variant: an order past the request was always handled by it.
ProgressIsCompletion(m, order) == ProgressedAfter(m, order)

SafelyCompletedBefore(m, order) ==
  /\ ProgressedAfter(m, order)
  /\ order.deliveryProviderOrderId # Undefined \/ order.status = "SUBMISSION_FAILED"

WorkerSkipCompleted(h, m) ==
  /\ Receive(h, m)
  /\ SafelyCompletedBefore(m, orders[m.orderId])
  /\ Acknowledge(m)
  /\ UNCHANGED <<tableVars, clock, frameVars, stream, duplicates, vendorVars, reconciliation>>

WorkerRefuseProgressed(h, m) ==
  /\ Receive(h, m)
  /\ ProgressedAfter(m, orders[m.orderId])
  /\ ~SafelyCompletedBefore(m, orders[m.orderId])
  /\ reconciliation' = reconciliation \cup {m}
  /\ UNCHANGED <<baseVars, stream, queue, duplicates, vendorVars>>

WorkerTakeUp(h, m) ==
  LET order == orders[m.orderId]
  IN /\ Receive(h, m)
     /\ order.version = m.version
     /\ order.status = "PENDING_SUBMISSION"
     /\ order.payment.status = "SUCCEEDED"
     /\ subject' = [subject EXCEPT ![h] = m.orderId]
     /\ input' = [input EXCEPT ![h] = m]
     /\ read' = [read EXCEPT ![h] = order]
     /\ Goto(h, "submit")
     /\ UNCHANGED <<tableVars, clock, crashes, stamp, proposed, attempt, stream, queue,
                    duplicates, vendorVars, reconciliation>>

\* The provider knows an order by its submission key: it accepts it once,
\* and answers a repeated submission with the recorded acceptance.
Accepted(o) == vendor[o] # Undefined /\ vendor[o].verdict = "accepted"

RejectedSince(o, version) ==
  vendor[o] # Undefined /\ vendor[o].verdict = "rejected" /\ vendor[o].version >= version

\* A submission reaches the provider; its answer is still on the way.
VendorAccepts(h, p) ==
  LET o == subject[h]
  IN /\ pc[h] = "submit"
     /\ ~Accepted(o)
     /\ VendorConsistent => ~RejectedSince(o, read[h].version)
     /\ \A q \in OrderIds : Accepted(q) => vendor[q].id # p
     /\ vendor' = [vendor EXCEPT ![o] =
          [verdict |-> "accepted", id |-> p, acceptedAt |-> clock, state |-> "SUBMITTED"]]
     /\ UNCHANGED <<baseVars, queueVars, sent, reconciliation>>

WorkerProposes(h, change) ==
  /\ StatusChangeApplies(read[h], change, clock)
  /\ proposed' = [proposed EXCEPT ![h] = StatusChanged(read[h], change, clock)]
  /\ Goto(h, "saveDelivery")
  /\ UNCHANGED <<tableVars, clock, crashes, subject, input, stamp, read, attempt, queueVars,
                 sent, reconciliation>>

\* 201: the order takes over the provider's identifier and time.
WorkerAccepted(h) ==
  LET delivery == vendor[subject[h]]
  IN /\ pc[h] = "submit"
     /\ Accepted(subject[h])
     /\ WorkerProposes(h,
          [ targetStatus |-> "SUBMITTED", deliveryProviderOrderId |-> delivery.id,
            acceptedAt |-> delivery.acceptedAt, failure |-> Undefined ])
     /\ UNCHANGED vendor

\* A status that is not worth retrying (400, 401, 403, 409, 422).
WorkerRejected(h, code) ==
  LET o == subject[h]
      version == read[h].version
  IN /\ pc[h] = "submit"
     /\ VendorConsistent => ~Accepted(o)
     /\ WorkerProposes(h, [ChangeTo("SUBMISSION_FAILED") EXCEPT
          !.failure = [stage |-> "SUBMISSION", reasonCode |-> code]])
     /\ vendor' = IF Accepted(o) \/ RejectedSince(o, version) THEN vendor
                  ELSE [vendor EXCEPT ![o] = [verdict |-> "rejected", version |-> version]]

\* Faulty variant: a request that failed leaves the queue.
WorkerFailsAcknowledging(h) ==
  /\ pc[h] = "submit"
  /\ Acknowledge(input[h])
  /\ Return(h)
  /\ UNCHANGED <<tableVars, clock, stream, receives, duplicates, vendorVars, reconciliation>>

\* Rate limit, outage, timeout or an unusable answer: the request stays in
\* the queue; the provider may have accepted the delivery all the same.
WorkerFailsRetryably(h) ==
  /\ pc[h] = "submit"
  /\ Return(h)
  /\ UNCHANGED <<tableVars, clock, crashes, deliveryVars>>

WorkerSave(h) ==
  /\ pc[h] = "saveDelivery"
  /\ SaveStatusChange(subject[h], read[h], proposed[h])
  /\ Acknowledge(input[h])
  /\ Return(h)
  /\ UNCHANGED <<clock, stream, receives, duplicates, vendorVars, reconciliation>>

WorkerSaveCancelled(h) ==
  /\ pc[h] = "saveDelivery"
  /\ ~SaveStatusChangeCommits(subject[h], read[h], proposed[h]) \/ Contended(h)
  /\ Goto(h, "resolveDelivery")
  /\ UNCHANGED <<tableVars, clock, crashes, subject, input, stamp, read, proposed, attempt,
                 deliveryVars>>

IntendedOutcomeWasRecorded(intended, current) ==
  \/ /\ intended.status = "SUBMITTED"
     /\ current.deliveryProviderOrderId = intended.deliveryProviderOrderId
     /\ current.acceptedAt = intended.acceptedAt
  \/ /\ intended.status = "SUBMISSION_FAILED"
     /\ current.status = "SUBMISSION_FAILED"
     /\ current.failure.reasonCode = intended.failure.reasonCode

WorkerResolve(h) ==
  LET current == orders[subject[h]]
      moved == ProgressedAfter(input[h], current)
  IN /\ pc[h] = "resolveDelivery"
     /\ \/ /\ moved
           /\ IntendedOutcomeWasRecorded(proposed[h], current)
           /\ Acknowledge(input[h])
           /\ UNCHANGED reconciliation
        \/ /\ moved
           /\ ~IntendedOutcomeWasRecorded(proposed[h], current)
           /\ reconciliation' = reconciliation \cup {input[h]}
           /\ UNCHANGED <<queue, crashes>>
        \/ /\ ~moved   \* provider id taken, or a transaction in the way
           /\ UNCHANGED <<queue, crashes, reconciliation>>
     /\ Return(h)
     /\ UNCHANGED <<tableVars, clock, stream, receives, duplicates, vendorVars>>

(***************************************************************************)
(* changeOrderStatus.  A request whose If-Match version is not the stored  *)
(* one, or whose change does not apply, ends without a trace.              *)
(***************************************************************************)
OperatorChanges ==
  { ChangeTo(t) : t \in {"PENDING_SUBMISSION", "PICKED_UP", "DELIVERED", "CANCELLED"} }
  \cup { [ChangeTo("SUBMITTED") EXCEPT !.deliveryProviderOrderId = p] : p \in OperatorProviderIds }
  \cup { [ChangeTo("DELIVERY_FAILED") EXCEPT !.failure = [stage |-> "DELIVERY", reasonCode |-> c]] :
           c \in ReasonCodes }

OperatorGet(h, o, change) ==
  /\ pc[h] = "idle"
  /\ orders[o] # Undefined
  /\ orders[o].version < MaxVersion
  /\ StatusChangeApplies(orders[o], change, clock)
  /\ subject' = [subject EXCEPT ![h] = o]
  /\ read' = [read EXCEPT ![h] = orders[o]]
  /\ proposed' = [proposed EXCEPT ![h] = StatusChanged(orders[o], change, clock)]
  /\ Goto(h, "saveOperator")
  /\ UNCHANGED <<tableVars, clock, crashes, input, stamp, attempt, deliveryVars>>

OperatorSave(h) ==
  /\ pc[h] = "saveOperator"
  /\ SaveStatusChange(subject[h], read[h], proposed[h])
  /\ stream' = stream \cup RequestsOf(subject[h], proposed[h])
  /\ Return(h)
  /\ UNCHANGED <<clock, crashes, queue, receives, duplicates, vendorVars, reconciliation>>

\* 412 or 500: nothing was written.
OperatorSaveCancelled(h) ==
  /\ pc[h] = "saveOperator"
  /\ ~SaveStatusChangeCommits(subject[h], read[h], proposed[h]) \/ Contended(h)
  /\ Return(h)
  /\ UNCHANGED <<tableVars, clock, crashes, deliveryVars>>

(***************************************************************************)
(* The provider's webhook events, and processProviderWebhook.              *)
(***************************************************************************)
VendorTransitions ==
  [ SUBMITTED |-> {"PICKED_UP", "DELIVERED", "DELIVERY_FAILED", "CANCELLED"},
    PICKED_UP |-> {"DELIVERED", "DELIVERY_FAILED"},
    DELIVERED |-> {}, DELIVERY_FAILED |-> {}, CANCELLED |-> {} ]

EventTargets == {"PICKED_UP", "DELIVERED", "DELIVERY_FAILED", "CANCELLED"}

\* An accepted delivery moves on and the provider tells so; the event's
\* target status stands for its type.
VendorSends(e, o, target, code) ==
  /\ sent[e] = Undefined \/ VendorReusesIds
  /\ Accepted(o)
  /\ target \in VendorTransitions[vendor[o].state]
  /\ (code # Undefined) <=> (target = "DELIVERY_FAILED")
  /\ vendor' = [vendor EXCEPT ![o].state = target]
  /\ sent' = [sent EXCEPT ![e] =
       [ eventId |-> e, deliveryProviderOrderId |-> vendor[o].id, target |-> target,
         reasonCode |-> code, occurredAt |-> clock ]]
  /\ UNCHANGED <<baseVars, queueVars, reconciliation>>

\* Events arrive any number of times, in any order.
ProviderReceive(h, e) ==
  /\ pc[h] = "idle"
  /\ sent[e] # Undefined
  /\ input' = [input EXCEPT ![h] = sent[e]]
  /\ attempt' = [attempt EXCEPT ![h] = 1]
  /\ Goto(h, "getProvider")
  /\ UNCHANGED <<tableVars, clock, crashes, subject, stamp, read, proposed, deliveryVars>>

EventChange(event) ==
  [ChangeTo(event.target) EXCEPT !.failure =
     IF event.reasonCode = Undefined THEN Undefined
     ELSE [stage |-> "DELIVERY", reasonCode |-> event.reasonCode]]

\* Faulty variant: an event older than the order's last change is applied.
ChangedOrderForAnyAge(event, order) ==
  IF TransitionAllowed(order, EventChange(event))
  THEN StatusChanged(order, EventChange(event), event.occurredAt) ELSE order

\* changedOrderFor; the order itself when the event is stale.
ChangedOrderFor(event, order) ==
  IF event.occurredAt >= order.updatedAt /\ TransitionAllowed(order, EventChange(event))
  THEN StatusChanged(order, EventChange(event), event.occurredAt) ELSE order

\* Unknown to the table: 404, for the provider to try again.
ProviderNotFound(h) ==
  /\ pc[h] = "getProvider"
  /\ providerMapping[input[h].deliveryProviderOrderId] = Undefined
  /\ Return(h)
  /\ UNCHANGED <<tableVars, clock, crashes, deliveryVars>>

ProviderGet(h) ==
  LET o == providerMapping[input[h].deliveryProviderOrderId]
  IN /\ pc[h] = "getProvider"
     /\ o # Undefined
     /\ subject' = [subject EXCEPT ![h] = o]
     /\ read' = [read EXCEPT ![h] = orders[o]]
     /\ proposed' = [proposed EXCEPT ![h] = ChangedOrderFor(input[h], orders[o])]
     /\ Goto(h, "recordProvider")
     /\ UNCHANGED <<tableVars, clock, crashes, input, stamp, attempt, deliveryVars>>

ProviderRecord(h) ==
  /\ pc[h] = "recordProvider"
  /\ RecordProviderWebhook(subject[h], read[h], proposed[h], input[h])
  /\ Return(h)
  /\ UNCHANGED <<clock, crashes, deliveryVars>>

ProviderRecordCancelled(h) ==
  /\ pc[h] = "recordProvider"
  /\ ~ProviderWebhookCommits(subject[h], read[h], input[h]) \/ Contended(h)
  /\ Goto(h, "resolveProvider")
  /\ UNCHANGED <<tableVars, clock, crashes, subject, input, stamp, read, proposed, attempt,
                 deliveryVars>>

\* A recorded event ends the delivery (204 or 409), a version conflict
\* starts another turn until the attempts are used up (409).
ProviderRetry(h) ==
  /\ pc[h] = "resolveProvider"
  /\ providerEvents[input[h].eventId] = Undefined
  /\ AttemptsLeft(h)
  /\ attempt' = [attempt EXCEPT ![h] = @ + 1]
  /\ subject' = [subject EXCEPT ![h] = Undefined]
  /\ read' = [read EXCEPT ![h] = Undefined]
  /\ proposed' = [proposed EXCEPT ![h] = Undefined]
  /\ Goto(h, "getProvider")
  /\ UNCHANGED <<tableVars, clock, crashes, input, stamp, deliveryVars>>

ProviderGiveUp(h) ==
  /\ pc[h] = "resolveProvider"
  /\ \/ providerEvents[input[h].eventId] # Undefined
     \/ ~AttemptsLeft(h)
  /\ Return(h)
  /\ UNCHANGED <<tableVars, clock, crashes, deliveryVars>>

(***************************************************************************)
(* Specification.                                                          *)
(***************************************************************************)

\* An order right after its payment was applied (version 3: created, bound,
\* paid); PaymentFlow has the steps before.
OrderPaidWith(i) ==
  [NewOrder(0) EXCEPT
     !.status = "PENDING_SUBMISSION", !.version = 3,
     !.payment.status = "SUCCEEDED", !.payment.stripePaymentIntentId = i]

QueueInit ==
  /\ queue = {}
  /\ receives = [m \in Requests |-> 0]
  /\ duplicates = 0
  /\ vendor = [o \in OrderIds |-> Undefined]
  /\ sent = [e \in ProviderEventIds |-> Undefined]
  /\ reconciliation = {}

DeliveryInit ==
  /\ \E intentOf \in Injection(OrderIds, IntentIds) :
       /\ orders = [o \in OrderIds |-> OrderPaidWith(intentOf[o])]
       /\ intentMapping = [i \in IntentIds |->
            IF \E o \in OrderIds : intentOf[o] = i
            THEN CHOOSE o \in OrderIds : intentOf[o] = i ELSE Undefined]
  /\ providerMapping = [p \in ProviderIds |-> Undefined]
  /\ stripeEvents = [e \in StripeEventIds |-> Undefined]
  /\ providerEvents = [e \in ProviderEventIds |-> Undefined]
  /\ FramesInit
  /\ clock = 0
  /\ crashes = 0
  /\ stream = UNION { RequestsOf(o, orders[o]) : o \in OrderIds }
  /\ QueueInit

WorkerReceive(h, m) ==
  WorkerSkipCompleted(h, m) \/ WorkerRefuseProgressed(h, m) \/ WorkerTakeUp(h, m)

WorkerStep(h) ==
  \/ WorkerAccepted(h)
  \/ WorkerFailsRetryably(h)
  \/ \E c \in ReasonCodes : WorkerRejected(h, c)
  \/ WorkerSave(h)
  \/ WorkerSaveCancelled(h)
  \/ WorkerResolve(h)

OperatorStep(h) ==
  \/ \E o \in OrderIds, change \in OperatorChanges : OperatorGet(h, o, change)
  \/ OperatorSave(h)
  \/ OperatorSaveCancelled(h)

ProviderStep(h) ==
  \/ ProviderNotFound(h)
  \/ ProviderGet(h)
  \/ ProviderRecord(h)
  \/ ProviderRecordCancelled(h)
  \/ ProviderRetry(h)
  \/ ProviderGiveUp(h)

VendorStep ==
  \/ \E h \in Workers, p \in ProviderIds : VendorAccepts(h, p)
  \/ \E e \in ProviderEventIds, o \in OrderIds, c \in Optional(ReasonCodes),
        t \in EventTargets :
       VendorSends(e, o, t, c)

DeliveryStep ==
  \/ \E m \in Requests : Publish(m)
  \/ \E h \in Workers : WorkerStep(h) \/ \E m \in Requests : WorkerReceive(h, m)
  \/ \E h \in OperatorInvocations : OperatorStep(h)
  \/ \E h \in ProviderInvocations :
       ProviderStep(h) \/ \E e \in ProviderEventIds : ProviderReceive(h, e)
  \/ VendorStep

DeliveryNext ==
  \/ DeliveryStep
  \/ Tick /\ UNCHANGED deliveryVars
  \/ \E h \in Invocations : Crash(h) /\ UNCHANGED deliveryVars

allDeliveryVars == <<baseVars, deliveryVars>>

DeliverySpec == DeliveryInit /\ [][DeliveryNext]_allDeliveryVars

\* The publisher retries, a running worker goes on (or crashes), and SQS
\* makes a waiting request visible again and again.
DeliveryFairness ==
  /\ \A m \in Requests : WF_allDeliveryVars(Publish(m))
  /\ \A h \in Workers : WF_allDeliveryVars(WorkerStep(h))
  /\ \A m \in Requests :
       SF_allDeliveryVars(\E h \in Workers : WorkerReceive(h, m))

FairDeliverySpec == DeliverySpec /\ DeliveryFairness

(***************************************************************************)
(* Properties.                                                             *)
(***************************************************************************)
SentEvent ==
  [ eventId : ProviderEventIds, deliveryProviderOrderId : ProviderIds, target : EventTargets,
    reasonCode : Optional(ReasonCodes), occurredAt : Nat ]

Verdict ==
  [verdict : {"accepted"}, id : ProviderIds, acceptedAt : Nat, state : OrderStatus]
    \cup [verdict : {"rejected"}, version : Nat]

ASSUME UndefinedIsNoVerdict == Undefined \notin Verdict

QueueTypeOK ==
  /\ stream \subseteq Requests
  /\ queue \subseteq Requests
  /\ receives \in [Requests -> Nat]
  /\ duplicates \in Nat
  /\ reconciliation \subseteq Requests

EventsTypeOK ==
  /\ vendor \in [OrderIds -> Verdict \cup {Undefined}]
  /\ sent \in [ProviderEventIds -> SentEvent \cup {Undefined}]
  /\ providerEvents \in [ProviderEventIds -> SentEvent \cup {Undefined}]

InputsTypeOK ==
  /\ \A h \in Workers : input[h] \in Requests \cup {Undefined}
  /\ \A h \in ProviderInvocations : input[h] \in SentEvent \cup {Undefined}

\* Table, frames, queue and provider hold values of their types.
DeliveryTypeOK == TableTypeOK /\ QueueTypeOK /\ EventsTypeOK /\ InputsTypeOK

\* A paid order that waits for submission is never forgotten: the request of
\* its present version is still to be published, or in the queue or its DLQ,
\* whatever workers, operators and duplicates do.
PendingHasRequest ==
  \A o \in OrderIds :
    ( orders[o] # Undefined /\ orders[o].status = "PENDING_SUBMISSION" ) =>
      Request(o, orders[o].version) \in stream \cup queue

\* vendor-client.md, provider acceptance and database failure: a delivery the
\* provider has accepted is in the order, or some request of the order keeps
\* failing where an operator can see it; it is never dropped as a duplicate.
AcceptanceNeverForgotten ==
  \A o \in OrderIds :
    ( Accepted(o) /\ orders[o].deliveryProviderOrderId = Undefined ) =>
      \E m \in queue : m.orderId = o

\* The identifier and time of acceptance an order carries are those of the
\* provider's own delivery of that order, unless an operator typed them.
AcceptanceIsTruthful ==
  \A o \in OrderIds :
    LET p == orders[o].deliveryProviderOrderId
    IN orders[o] # Undefined /\ p \notin OperatorProviderIds \cup {Undefined} =>
         /\ Accepted(o)
         /\ vendor[o].id = p
         /\ vendor[o].acceptedAt = orders[o].acceptedAt

\* An event id once recorded stands for one event: later contents under the
\* same id change neither the marker nor, with it, any order.
ProviderEventIdsStayBound ==
  [][ \A e \in ProviderEventIds :
        providerEvents[e] # Undefined => providerEvents'[e] = providerEvents[e]
    ]_providerEvents

PendingSubmission(o) == orders[o] # Undefined /\ orders[o].status = "PENDING_SUBMISSION"

\* A pending order is settled, or its request ends in the DLQ.
SubmissionSettles ==
  \A o \in OrderIds :
    PendingSubmission(o) ~>
      (PendingSubmission(o) => receives[Request(o, orders[o].version)] = MaxReceives)

\* vendor-client.md: a newer but incompatible order state is a
\* reconciliation failure that remains on the SQS failure path and is not
\* treated as a successful duplicate.
ReconciliationStaysOnFailurePath ==
  [][ \A m \in reconciliation : m \in queue => m \in queue' ]_queue
==============================================================================
