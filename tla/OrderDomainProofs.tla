--------------------------- MODULE OrderDomainProofs ---------------------------
(***************************************************************************)
(* What the functions of the order domain return, for every order, change  *)
(* and time.                                                               *)
(***************************************************************************)
EXTENDS OrderDomain, TLAPS

\* createOrder builds an order at version 1.
LEMMA NewOrderIsOrder ==
  ASSUME NEW now \in Nat
  PROVE  NewOrder(now) \in Order /\ NewOrder(now).version = 1
  BY DEF NewOrder, Order, OrderPayment, OrderStatus, PaymentStatus, Optional

\* applyOrderStatusChange returns an order, one version further, and touches
\* nothing but the status, what the provider tells, the failure and the time.
LEMMA StatusChangedIsNext ==
  ASSUME NEW order \in Order, NEW change \in OrderStatusChange, NEW at \in Nat
  PROVE  LET changed == StatusChanged(order, change, at) IN
         /\ changed \in Order
         /\ changed.version = order.version + 1
         /\ changed.status = change.targetStatus
         /\ changed.payment = order.payment
         /\ changed.createdAt = order.createdAt
         /\ changed.updatedAt = at
         /\ changed.failure = change.failure
         /\ changed.deliveryProviderOrderId =
              IF change.targetStatus = "SUBMITTED"
              THEN FirstDefined(order.deliveryProviderOrderId, change.deliveryProviderOrderId)
              ELSE order.deliveryProviderOrderId
         /\ changed.acceptedAt =
              IF change.targetStatus = "SUBMITTED"
              THEN FirstDefined(FirstDefined(order.acceptedAt, change.acceptedAt), at)
              ELSE order.acceptedAt
<1> DEFINE submitted == change.targetStatus = "SUBMITTED"
           provider == IF submitted
                       THEN FirstDefined(order.deliveryProviderOrderId, change.deliveryProviderOrderId)
                       ELSE order.deliveryProviderOrderId
           accepted == IF submitted
                       THEN FirstDefined(FirstDefined(order.acceptedAt, change.acceptedAt), at)
                       ELSE order.acceptedAt
           next == order.version + 1
           changed == [order EXCEPT
             !.status = change.targetStatus, !.deliveryProviderOrderId = provider,
             !.acceptedAt = accepted, !.failure = change.failure, !.updatedAt = at, !.version = next]
<1>1. /\ order.deliveryProviderOrderId \in Optional(ProviderIds)
      /\ order.acceptedAt \in Optional(Nat)
      /\ order.version \in Nat
      /\ change.targetStatus \in OrderStatus
      /\ change.deliveryProviderOrderId \in Optional(ProviderIds)
      /\ change.acceptedAt \in Optional(Nat)
      /\ change.failure \in FailureDetails \cup {Undefined}
  BY DEF Order, OrderStatusChange
<1>2. /\ provider \in Optional(ProviderIds)
      /\ accepted \in Optional(Nat)
      /\ next \in Nat
  BY <1>1 DEF FirstDefined, Optional
<1>3. StatusChanged(order, change, at) = changed
  BY DEF StatusChanged
<1>4. order.payment \in OrderPayment
  BY DEF Order
<1> HIDE DEF submitted, provider, accepted, next
<1>5. changed \in Order
  <2> DEFINE d == [order EXCEPT !.status = change.targetStatus]
             e == [d EXCEPT !.deliveryProviderOrderId = provider]
             f == [e EXCEPT !.acceptedAt = accepted]
             g == [f EXCEPT !.failure = change.failure]
             h == [g EXCEPT !.updatedAt = at]
             i == [h EXCEPT !.version = next]
  <2>1. d \in Order  BY <1>1 DEF Order
  <2> HIDE DEF d
  <2>2. e \in Order  BY <1>2, <2>1 DEF Order
  <2> HIDE DEF e
  <2>3. f \in Order  BY <1>2, <2>2 DEF Order
  <2> HIDE DEF f
  <2>4. g \in Order  BY <1>1, <2>3 DEF Order
  <2> HIDE DEF g
  <2>5. h \in Order  BY <2>4 DEF Order
  <2> HIDE DEF h
  <2>6. i \in Order  BY <1>2, <2>5 DEF Order
  <2> QED  BY <2>6 DEF d, e, f, g, h
<1>6. /\ changed.version = next
      /\ changed.status = change.targetStatus
      /\ changed.payment = order.payment
      /\ changed.createdAt = order.createdAt
      /\ changed.updatedAt = at
      /\ changed.failure = change.failure
      /\ changed.deliveryProviderOrderId = provider
      /\ changed.acceptedAt = accepted
  BY DEF Order
<1> QED
  BY <1>3, <1>5, <1>6 DEF submitted, provider, accepted, next

\* applyPaymentStatusChange returns a payment.
LEMMA PaymentChangedIsPayment ==
  ASSUME NEW payment \in OrderPayment, NEW change \in PaymentStatusChange, NEW at \in Nat
  PROVE  PaymentChanged(payment, change, at) \in OrderPayment
<1>1. CASE PaymentUnchanged(payment, change)
  BY <1>1 DEF PaymentChanged
<1>2. CASE ~PaymentUnchanged(payment, change)
  <2> DEFINE failure == FirstDefined(change.lastFailure, payment.lastFailure)
             a == [payment EXCEPT !.status = change.targetStatus]
             b == [a EXCEPT !.stripePaymentIntentId = change.stripePaymentIntentId]
             c == [b EXCEPT !.lastFailure = failure]
             d == [c EXCEPT !.updatedAt = at]
  <2>1. failure \in PaymentFailure \cup {Undefined}
    BY DEF FirstDefined, OrderPayment, PaymentStatusChange
  <2>2. PaymentChanged(payment, change, at) = d
    BY <1>2 DEF PaymentChanged, OrderPayment
  <2> HIDE DEF failure
  <2>3. a \in OrderPayment  BY DEF OrderPayment, PaymentStatusChange
  <2> HIDE DEF a
  <2>4. b \in OrderPayment  BY <2>3 DEF OrderPayment, PaymentStatusChange, Optional
  <2> HIDE DEF b
  <2>5. c \in OrderPayment  BY <2>1, <2>4 DEF OrderPayment
  <2> HIDE DEF c
  <2>6. d \in OrderPayment  BY <2>5 DEF OrderPayment
  <2> QED  BY <2>2, <2>6
<1> QED  BY <1>1, <1>2

\* Whatever it was, the payment now has the status and the intent it was
\* changed to.
LEMMA PaymentChangedShowsChange ==
  ASSUME NEW payment \in OrderPayment, NEW change \in PaymentStatusChange, NEW at \in Nat
  PROVE  LET changed == PaymentChanged(payment, change, at) IN
         /\ changed.status = change.targetStatus
         /\ changed.stripePaymentIntentId = change.stripePaymentIntentId
<1>1. CASE PaymentUnchanged(payment, change)
  BY <1>1 DEF PaymentChanged, PaymentUnchanged
<1>2. CASE ~PaymentUnchanged(payment, change)
  <2> DEFINE failure == FirstDefined(change.lastFailure, payment.lastFailure)
             changed == [payment EXCEPT
               !.status = change.targetStatus,
               !.stripePaymentIntentId = change.stripePaymentIntentId,
               !.lastFailure = failure,
               !.updatedAt = at]
  <2>1. PaymentChanged(payment, change, at) = changed
    BY <1>2 DEF PaymentChanged, OrderPayment
  <2> HIDE DEF failure
  <2>2. /\ changed.status = change.targetStatus
        /\ changed.stripePaymentIntentId = change.stripePaymentIntentId
    BY DEF OrderPayment
  <2> QED  BY <2>1, <2>2
<1> QED  BY <1>1, <1>2

\* An order with a changed payment is an order, one version further, and
\* keeps everything else but its time.
LEMMA WithPaymentIsNext ==
  ASSUME NEW order \in Order, NEW payment \in OrderPayment, NEW at \in Nat
  PROVE  /\ WithPayment(order, payment, at) \in Order
         /\ WithPayment(order, payment, at).version = order.version + 1
         /\ WithPayment(order, payment, at).payment = payment
         /\ WithPayment(order, payment, at).status = order.status
         /\ WithPayment(order, payment, at).createdAt = order.createdAt
         /\ WithPayment(order, payment, at).updatedAt = at
         /\ WithPayment(order, payment, at).deliveryProviderOrderId = order.deliveryProviderOrderId
         /\ WithPayment(order, payment, at).acceptedAt = order.acceptedAt
<1> DEFINE next == order.version + 1
           a == [order EXCEPT !.payment = payment]
           b == [a EXCEPT !.updatedAt = at]
           c == [b EXCEPT !.version = next]
<1>1. next \in Nat  BY DEF Order
<1>2. WithPayment(order, payment, at) = c  BY DEF WithPayment
<1>3. /\ c.version = next /\ c.payment = payment /\ c.status = order.status
      /\ c.createdAt = order.createdAt /\ c.updatedAt = at
      /\ c.deliveryProviderOrderId = order.deliveryProviderOrderId
      /\ c.acceptedAt = order.acceptedAt
  BY DEF Order
<1> HIDE DEF next
<1>4. a \in Order  BY DEF Order
<1> HIDE DEF a
<1>5. b \in Order  BY <1>4 DEF Order
<1> HIDE DEF b
<1>6. c \in Order  BY <1>1, <1>5 DEF Order
<1> QED  BY <1>2, <1>3, <1>6 DEF next
==============================================================================
