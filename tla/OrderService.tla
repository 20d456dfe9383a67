----------------------------- MODULE OrderService -----------------------------
(***************************************************************************)
(* The whole path of an order, from creation to delivery: PaymentFlow and  *)
(* DeliveryFlow over one table and one clock.  The two meet in the table's *)
(* stream: whichever invocation commits a change into PENDING_SUBMISSION,  *)
(* the Stripe webhook or an operator, the stream carries a request for it. *)
(***************************************************************************)
EXTENDS PaymentFlow, DeliveryFlow

\* Each Lambda has its own invocations.
ASSUME ServiceInvocations ==
  (PrepareInvocations \cup StripeWebhookInvocations)
    \cap (Workers \cup OperatorInvocations \cup ProviderInvocations) = {}

ServiceInit ==
  /\ PaymentInit
  /\ stream = {}
  /\ QueueInit

\* Faulty variant: the webhook's commit is labelled ORDER_PAYMENT_CHANGED,
\* of which the publisher makes no request.
StreamedRequestsUnlabelled == {}

\* Requests that this step's commits put into the stream.
StreamedRequests ==
  UNION { RequestsOf(o, orders'[o]) : o \in { q \in OrderIds : orders'[q] # orders[q] } }

PaymentSide ==
  /\ PaymentStep
  /\ stream' = stream \cup StreamedRequests
  /\ UNCHANGED <<queue, receives, duplicates, vendorVars, reconciliation>>

DeliverySide == DeliveryStep /\ UNCHANGED paymentVars

ServiceNext ==
  \/ PaymentSide
  \/ DeliverySide
  \/ Tick /\ UNCHANGED <<paymentVars, deliveryVars>>
  \/ \E h \in Invocations : Crash(h) /\ UNCHANGED <<paymentVars, deliveryVars>>

serviceVars == <<baseVars, paymentVars, deliveryVars>>

ServiceSpec == ServiceInit /\ [][ServiceNext]_serviceVars

(***************************************************************************)
(* Properties.                                                             *)
(***************************************************************************)

\* PAY-I01, end to end: no order is fulfilled, and none handed to the
\* provider, whose money Stripe has not collected, with whatever order
\* events, retries and operator changes arrive.
OnlyPaidOrdersAreFulfilled ==
  \A o \in OrderIds :
    ( \/ Accepted(o)
      \/ orders[o] # Undefined /\ orders[o].status \notin {"AWAITING_PAYMENT", "CANCELLED"} )
    => /\ orders[o].payment.status = "SUCCEEDED"
       /\ intents[orders[o].payment.stripePaymentIntentId].status = "SUCCEEDED"

PaidOf(order) ==
  IF order = Undefined THEN "open"
  ELSE CASE order.payment.status = "SUCCEEDED" -> "collected"
         [] order.payment.status = "CANCELLED" -> "cancelled"
         [] OTHER -> "open"

Lifecycle == INSTANCE OrderLifecycle WITH
  None <- Undefined,
  status <- [o \in OrderIds |-> IF orders[o] = Undefined THEN Undefined ELSE orders[o].status],
  paid <- [o \in OrderIds |-> PaidOf(orders[o])],
  delivery <- [o \in OrderIds |->
    IF orders[o] = Undefined THEN Undefined ELSE orders[o].deliveryProviderOrderId]

\* The stored orders go through the promised lifecycle and no other: every
\* commit of every handler is one of its steps or changes nothing it shows.
ImplementsLifecycle == Lifecycle!LifecycleSpec
==============================================================================
