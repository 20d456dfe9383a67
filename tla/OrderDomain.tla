----------------------------- MODULE OrderDomain -----------------------------
(***************************************************************************)
(* The order aggregate of src/src/domain: an order, the payment value it   *)
(* embeds, and the two functions through which every change of either goes *)
(* (applyOrderStatusChange, applyPaymentStatusChange).  Each function is   *)
(* split into the condition under which it does not throw and the value it *)
(* then returns.                                                           *)
(*                                                                         *)
(* Order lines, money, addresses and the identifiers an order keeps for    *)
(* life are left out: they never change after creation and no decision of  *)
(* the modelled code but "does the amount match" reads them.  Times are    *)
(* naturals.                                                               *)
(***************************************************************************)
EXTENDS Identifiers, Naturals

CONSTANTS
  ProviderIds,   \* identifiers the delivery provider gives to deliveries
  IntentIds,     \* Stripe PaymentIntent identifiers
  ReasonCodes    \* reason codes of failures

\* "Absent" is told apart from every value an optional field can hold.
ASSUME UndefinedIsNoValue ==
  /\ Undefined \notin ProviderIds
  /\ Undefined \notin IntentIds
  /\ Undefined \notin Nat

OrderStatus ==
  { "AWAITING_PAYMENT", "PENDING_SUBMISSION", "SUBMISSION_FAILED", "SUBMITTED",
    "PICKED_UP", "DELIVERED", "DELIVERY_FAILED", "CANCELLED" }

TerminalStatus == { "DELIVERED", "DELIVERY_FAILED", "CANCELLED" }

PaymentStatus ==
  { "NOT_STARTED", "REQUIRES_PAYMENT_METHOD", "REQUIRES_CONFIRMATION",
    "REQUIRES_ACTION", "PROCESSING", "SUCCEEDED", "CANCELLED" }

TerminalPaymentStatus == { "SUCCEEDED", "CANCELLED" }

Optional(S) == S \cup {Undefined}

PaymentFailure == [reasonCode : ReasonCodes, occurredAt : Nat]

OrderPayment ==
  [ status : PaymentStatus,
    stripePaymentIntentId : Optional(IntentIds),
    lastFailure : PaymentFailure \cup {Undefined},
    createdAt : Nat,
    updatedAt : Nat ]

FailureDetails == [stage : {"SUBMISSION", "DELIVERY"}, reasonCode : ReasonCodes]

Order ==
  [ status : OrderStatus,
    payment : OrderPayment,
    deliveryProviderOrderId : Optional(ProviderIds),
    acceptedAt : Optional(Nat),
    failure : FailureDetails \cup {Undefined},
    createdAt : Nat,
    updatedAt : Nat,
    version : Nat ]

\* Nor is it an order, or one of the records an order may hold.
ASSUME UndefinedIsNoRecord ==
  /\ Undefined \notin Order
  /\ Undefined \notin PaymentFailure
  /\ Undefined \notin FailureDetails

(***************************************************************************)
(* Changes of the order status.                                            *)
(***************************************************************************)
OrderStatusChange ==
  [ targetStatus : OrderStatus,
    deliveryProviderOrderId : Optional(ProviderIds),
    acceptedAt : Optional(Nat),
    failure : FailureDetails \cup {Undefined} ]

\* A change that carries nothing but its target.
ChangeTo(target) ==
  [ targetStatus |-> target, deliveryProviderOrderId |-> Undefined,
    acceptedAt |-> Undefined, failure |-> Undefined ]

\* Faulty variant: a picked-up delivery may still be cancelled and a
\* cancelled order resubmitted.
AllowedTransitionsTooWide ==
  [ AWAITING_PAYMENT   |-> {"PENDING_SUBMISSION", "CANCELLED"},
    PENDING_SUBMISSION |-> {"SUBMITTED", "SUBMISSION_FAILED", "CANCELLED"},
    SUBMISSION_FAILED  |-> {"PENDING_SUBMISSION", "CANCELLED"},
    SUBMITTED          |-> {"PICKED_UP", "DELIVERED", "DELIVERY_FAILED", "CANCELLED"},
    PICKED_UP          |-> {"DELIVERED", "DELIVERY_FAILED", "CANCELLED"},
    DELIVERED          |-> {},
    DELIVERY_FAILED    |-> {},
    CANCELLED          |-> {"PENDING_SUBMISSION"} ]

AllowedTransitions ==
  [ AWAITING_PAYMENT   |-> {"PENDING_SUBMISSION", "CANCELLED"},
    PENDING_SUBMISSION |-> {"SUBMITTED", "SUBMISSION_FAILED", "CANCELLED"},
    SUBMISSION_FAILED  |-> {"PENDING_SUBMISSION", "CANCELLED"},
    SUBMITTED          |-> {"PICKED_UP", "DELIVERED", "DELIVERY_FAILED", "CANCELLED"},
    PICKED_UP          |-> {"DELIVERED", "DELIVERY_FAILED"},
    DELIVERED          |-> {},
    DELIVERY_FAILED    |-> {},
    CANCELLED          |-> {} ]

TransitionAllowed(order, change) ==
  change.targetStatus \in AllowedTransitions[order.status]

\* Faulty variant: the gate is not closed to an unpaid order.
PaymentGateAlwaysOpen(order, change) == TRUE

\* Leaving AWAITING_PAYMENT takes a payment in the matching terminal state.
PaymentGateOpen(order, change) ==
  order.status = "AWAITING_PAYMENT" =>
    order.payment.status =
      (IF change.targetStatus = "PENDING_SUBMISSION" THEN "SUCCEEDED" ELSE "CANCELLED")

\* Failure details accompany the two failed states, with their own stage.
FailureMatches(change) ==
  CASE change.targetStatus = "SUBMISSION_FAILED" ->
         change.failure # Undefined /\ change.failure.stage = "SUBMISSION"
    [] change.targetStatus = "DELIVERY_FAILED" ->
         change.failure # Undefined /\ change.failure.stage = "DELIVERY"
    [] OTHER -> change.failure = Undefined

\* The provider's identifier is first recorded by SUBMITTED, which needs
\* one, never changes, and precedes every later delivery state.
ProviderMatches(order, change) ==
  LET stored == order.deliveryProviderOrderId
      given  == change.deliveryProviderOrderId
  IN /\ (given # Undefined /\ stored # Undefined) => given = stored
     /\ (given # Undefined /\ stored = Undefined) => change.targetStatus = "SUBMITTED"
     /\ change.targetStatus = "SUBMITTED" => (stored # Undefined \/ given # Undefined)
     /\ change.targetStatus \in {"PICKED_UP", "DELIVERED", "DELIVERY_FAILED"} =>
          (stored # Undefined /\ order.acceptedAt # Undefined)

\* The checks behind the transition table; failing one is another error
\* than a transition that is not allowed.
DetailsAccepted(order, change, changedAt) ==
  /\ changedAt >= order.createdAt
  /\ FailureMatches(change)
  /\ PaymentGateOpen(order, change)
  /\ ProviderMatches(order, change)

FirstDefined(a, b) == IF a # Undefined THEN a ELSE b

\* Faulty variant: the version is left as it was.
StatusChangedKeepingVersion(order, change, changedAt) ==
  LET submitted == change.targetStatus = "SUBMITTED"
  IN [ order EXCEPT
         !.status = change.targetStatus,
         !.deliveryProviderOrderId =
            IF submitted THEN FirstDefined(@, change.deliveryProviderOrderId) ELSE @,
         !.acceptedAt =
            IF submitted THEN FirstDefined(FirstDefined(@, change.acceptedAt), changedAt) ELSE @,
         !.failure = change.failure,
         !.updatedAt = changedAt ]

\* Faulty variant: the order is accepted when the table learns of it.
StatusChangedAcceptedNow(order, change, changedAt) ==
  [ order EXCEPT
      !.status = change.targetStatus,
      !.deliveryProviderOrderId =
         IF change.targetStatus = "SUBMITTED"
         THEN FirstDefined(@, change.deliveryProviderOrderId) ELSE @,
      !.acceptedAt = IF change.targetStatus = "SUBMITTED" THEN changedAt ELSE @,
      !.failure = change.failure,
      !.updatedAt = changedAt,
      !.version = @ + 1 ]

\* The changed order; the previous failure is dropped unless the change
\* brings a new one.
StatusChanged(order, change, changedAt) ==
  LET submitted == change.targetStatus = "SUBMITTED"
  IN [ order EXCEPT
         !.status = change.targetStatus,
         !.deliveryProviderOrderId =
            IF submitted THEN FirstDefined(@, change.deliveryProviderOrderId) ELSE @,
         !.acceptedAt =
            IF submitted THEN FirstDefined(FirstDefined(@, change.acceptedAt), changedAt) ELSE @,
         !.failure = change.failure,
         !.updatedAt = changedAt,
         !.version = @ + 1 ]

\* applyOrderStatusChange neither returns the same order nor throws.
StatusChangeApplies(order, change, changedAt) ==
  /\ TransitionAllowed(order, change)
  /\ DetailsAccepted(order, change, changedAt)

(***************************************************************************)
(* Changes of the embedded payment.                                        *)
(***************************************************************************)
PaymentStatusChange ==
  [ targetStatus : PaymentStatus,
    stripePaymentIntentId : IntentIds,
    lastFailure : PaymentFailure \cup {Undefined} ]

PaymentUnchanged(payment, change) ==
  /\ payment.status = change.targetStatus
  /\ payment.stripePaymentIntentId = change.stripePaymentIntentId
  /\ payment.lastFailure = FirstDefined(change.lastFailure, payment.lastFailure)

\* Faulty variant: terminal payments and older updates are not protected.
PaymentChangeUnchecked(payment, change, changedAt) ==
  /\ payment.stripePaymentIntentId \in {Undefined, change.stripePaymentIntentId}
  /\ changedAt >= payment.createdAt

\* applyPaymentStatusChange does not throw.
PaymentChangeAccepted(payment, change, changedAt) ==
  /\ payment.stripePaymentIntentId \in {Undefined, change.stripePaymentIntentId}
  /\ payment.status \in TerminalPaymentStatus => payment.status = change.targetStatus
  /\ changedAt >= payment.createdAt
  /\ PaymentUnchanged(payment, change) \/ changedAt >= payment.updatedAt

PaymentChanged(payment, change, changedAt) ==
  IF PaymentUnchanged(payment, change)
  THEN payment
  ELSE [ payment EXCEPT
           !.status = change.targetStatus,
           !.stripePaymentIntentId = change.stripePaymentIntentId,
           !.lastFailure = FirstDefined(change.lastFailure, @),
           !.updatedAt = changedAt ]

\* The order that takes a changed payment: one version further.
WithPayment(order, payment, changedAt) ==
  [order EXCEPT !.payment = payment, !.updatedAt = changedAt, !.version = @ + 1]

(***************************************************************************)
(* A new order, as createOrder builds it.                                  *)
(***************************************************************************)
NewOrder(now) ==
  [ status |-> "AWAITING_PAYMENT",
    payment |-> [ status |-> "NOT_STARTED", stripePaymentIntentId |-> Undefined,
                  lastFailure |-> Undefined, createdAt |-> now, updatedAt |-> now ],
    deliveryProviderOrderId |-> Undefined,
    acceptedAt |-> Undefined,
    failure |-> Undefined,
    createdAt |-> now,
    updatedAt |-> now,
    version |-> 1 ]
==============================================================================
