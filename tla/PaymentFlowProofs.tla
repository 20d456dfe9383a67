-------------------------- MODULE PaymentFlowProofs --------------------------
(***************************************************************************)
(* PaymentFlow, for any number of orders, intents, events and invocations: *)
(* types, optimistic concurrency, the intent lookup, and what PAY-I01 and  *)
(* PAY-I05 promise; then that a recorded decision has moved its order for  *)
(* good, that an event takes effect once, and that orders only ever change *)
(* as the order domain allows.                                             *)
(***************************************************************************)
EXTENDS PaymentFlow, OrderTableProofs

(***************************************************************************)
(* The inductive invariant.                                                *)
(***************************************************************************)

\* A preparation works on an order that has no intent until it binds one;
\* what it retrieves is an intent its order is mapped to.
PrepareFrame(h) ==
  /\ pc[h] \in {"create", "bind", "resolveBinding", "retrieve"} =>
       /\ subject[h] \in OrderIds
       /\ read[h] \in Order
  /\ pc[h] \in {"create", "bind", "resolveBinding"} =>
       /\ read[h].status = "AWAITING_PAYMENT"
       /\ read[h].payment.stripePaymentIntentId = Undefined
  /\ pc[h] = "create" => stamp[h] \in Nat
  /\ pc[h] \in {"bind", "resolveBinding"} =>
       /\ proposed[h] \in Order
       /\ proposed[h].version = read[h].version + 1
       /\ proposed[h].status = "AWAITING_PAYMENT"
       /\ proposed[h].deliveryProviderOrderId = read[h].deliveryProviderOrderId
       /\ proposed[h].acceptedAt = read[h].acceptedAt
       /\ proposed[h].payment.status = "REQUIRES_PAYMENT_METHOD"
       /\ proposed[h].payment.stripePaymentIntentId \in IntentIds
  /\ pc[h] = "retrieve" =>
       /\ read[h].payment.stripePaymentIntentId \in IntentIds
       /\ intentMapping[read[h].payment.stripePaymentIntentId] = subject[h]

\* A snapshot may be old, but it is of this intent, and a decided intent is
\* decided for good.  (Which order the intent names may change under it.)
Shows(snapshot, i) ==
  /\ intents[i] \in Intent
  /\ snapshot.matches = intents[i].matches
  /\ snapshot.automatic = intents[i].automatic
  /\ snapshot.status \in TerminalPaymentStatus => intents[i].status = snapshot.status

StatusFor(paymentStatus) ==
  CASE paymentStatus = "SUCCEEDED" -> "PENDING_SUBMISSION"
    [] paymentStatus = "CANCELLED" -> "CANCELLED"
    [] OTHER -> "AWAITING_PAYMENT"

\* after is before with the payment the snapshot of intent i shows.
TakesIn(before, after, o, i, snapshot) ==
  /\ before \in Order
  /\ after \in Order
  /\ before.status = "AWAITING_PAYMENT"
  /\ after.version = before.version + 1
  /\ after.deliveryProviderOrderId = before.deliveryProviderOrderId
  /\ after.acceptedAt = before.acceptedAt
  /\ before.payment.stripePaymentIntentId \in {Undefined, i}
  /\ snapshot.orderId = o
  /\ snapshot.matches
  /\ snapshot.automatic
  /\ after.payment.stripePaymentIntentId = i
  /\ after.payment.status = snapshot.status
  /\ after.status = StatusFor(snapshot.status)

WebhookFrame(h) ==
  /\ pc[h] \in {"lookup", "load", "recordStripe", "resolveStripe"} =>
       /\ input[h] \in Snapshot
       /\ stamp[h] \in Nat
       /\ Shows(input[h].snapshot, input[h].intentId)
  /\ pc[h] \in {"idle", "lookup", "load"} => read[h] = Undefined
  /\ pc[h] \in {"load", "recordStripe", "resolveStripe"} =>
       /\ subject[h] \in OrderIds
       /\ ~input[h].ensureMapping => intentMapping[input[h].intentId] = subject[h]
  /\ pc[h] = "recordStripe" =>
       /\ input[h].verdict \in StripeOutcomes
       /\ input[h].verdict = "APPLIED" =>
            TakesIn(read[h], proposed[h], subject[h], input[h].intentId, input[h].snapshot)
       /\ input[h].verdict # "APPLIED" => proposed[h] = read[h]
       /\ input[h].verdict = "IGNORED" =>
            /\ read[h] \in Order
            /\ read[h].payment.stripePaymentIntentId = input[h].intentId
            /\ input[h].snapshot.orderId = subject[h]

WebhookSteps == {"lookup", "load", "recordStripe", "resolveStripe"}

PaymentFrame(h) == PrepareFrame(h) /\ WebhookFrame(h)

PaymentFramesOK == \A h \in Invocations : PaymentFrame(h)

EventsShowIntents ==
  \A e \in StripeEventIds : emitted[e] # Undefined => intents[emitted[e].intentId] # Undefined

PaidHasIntent ==
  \A o \in OrderIds :
    ( orders[o] # Undefined /\ orders[o].payment.status = "SUCCEEDED" ) =>
      LET i == orders[o].payment.stripePaymentIntentId
      IN i \in IntentIds /\ intents[i] \in Intent

\* PaidMeansCollected, whatever order the intent names: that an intent goes on
\* naming its order is IntentsBelong's to say.
Collected(i) ==
  /\ intents[i].status = "SUCCEEDED"
  /\ intents[i].matches
  /\ intents[i].automatic

MoneyIsThere ==
  \A o \in OrderIds :
    ( orders[o] # Undefined /\ orders[o].payment.status = "SUCCEEDED" ) =>
      Collected(orders[o].payment.stripePaymentIntentId)

PaymentInv ==
  /\ PaymentTypeOK
  /\ SnapshotsCurrentOrOlder
  /\ PaymentFramesOK
  /\ EventsShowIntents
  /\ IntentLookupAgrees
  /\ SecretOnlyAfterMapping
  /\ PaidHasIntent
  /\ MoneyIsThere

(***************************************************************************)
(* How the shared state moves.                                             *)
(***************************************************************************)

\* Stripe's intents appear, keep amount and capture method, and are decided
\* once.
IntentsEvolve ==
  \A i \in IntentIds :
    \/ intents'[i] = intents[i]
    \/ intents[i] = Undefined
    \/ /\ intents[i] \in Intent
       /\ intents'[i] \in Intent
       /\ intents'[i].matches = intents[i].matches
       /\ intents'[i].automatic = intents[i].automatic
       /\ intents[i].status \in TerminalPaymentStatus => intents'[i].status = intents[i].status

\* An intent once mapped stays mapped.
MappingGrows ==
  \A i \in IntentIds :
    intentMapping'[i] = intentMapping[i] \/ intentMapping[i] = Undefined

\* What an invocation knows of Stripe and of the mapping stays true.
LEMMA PaymentFrameStays ==
  ASSUME IntentsEvolve, MappingGrows, NEW g \in Invocations, PaymentFrame(g),
         pc'[g] = pc[g], subject'[g] = subject[g], input'[g] = input[g],
         stamp'[g] = stamp[g], read'[g] = read[g], proposed'[g] = proposed[g]
  PROVE  PaymentFrame(g)'
<1>1. PrepareFrame(g)'
  <2>1. PrepareFrame(g)
    BY DEF PaymentFrame
  <2>2. CASE pc[g] = "retrieve"
    <3>1. read[g].payment.stripePaymentIntentId \in IntentIds
      BY <2>1, <2>2 DEF PrepareFrame
    <3>2. subject[g] # Undefined
      BY <2>1, <2>2, UndefinedIsNoOrderId DEF PrepareFrame
    <3> QED  BY <2>1, <2>2, <3>1, <3>2 DEF PrepareFrame, MappingGrows
  <2>3. CASE pc[g] # "retrieve"
    BY <2>1, <2>3 DEF PrepareFrame
  <2> QED  BY <2>2, <2>3
<1>2. WebhookFrame(g)'
  <2>1. WebhookFrame(g)
    BY DEF PaymentFrame
  <2>2. ASSUME pc[g] \in {"lookup", "load", "recordStripe", "resolveStripe"}
        PROVE  Shows(input[g].snapshot, input[g].intentId)'
    <3> DEFINE i == input[g].intentId
    <3>1. i \in IntentIds /\ Shows(input[g].snapshot, i)
      BY <2>1, <2>2 DEF WebhookFrame, Snapshot
    <3>2. intents[i] # Undefined \/ intents'[i] = intents[i]
      BY <3>1, UndefinedIsNoIntent DEF Shows
    <3> QED  BY <3>1, <3>2 DEF IntentsEvolve, Shows
  <2>3. ASSUME pc[g] \in {"load", "recordStripe", "resolveStripe"}, ~input[g].ensureMapping
        PROVE  intentMapping'[input[g].intentId] = subject[g]
    <3>1. /\ input[g].intentId \in IntentIds
          /\ subject[g] \in OrderIds
          /\ intentMapping[input[g].intentId] = subject[g]
      BY <2>1, <2>3 DEF WebhookFrame, Snapshot
    <3> QED  BY <3>1, UndefinedIsNoOrderId DEF MappingGrows
  <2> QED  BY <2>1, <2>2, <2>3 DEF WebhookFrame, TakesIn, StatusFor
<1> QED  BY <1>1, <1>2 DEF PaymentFrame

LEMMA OthersKeepPaymentFrames ==
  ASSUME PaymentFramesOK, IntentsEvolve, MappingGrows,
         NEW h \in Invocations, PaymentFrame(h)',
         \A g \in Invocations \ {h} :
           /\ pc'[g] = pc[g]
           /\ subject'[g] = subject[g]
           /\ input'[g] = input[g]
           /\ stamp'[g] = stamp[g]
           /\ read'[g] = read[g]
           /\ proposed'[g] = proposed[g]
  PROVE  PaymentFramesOK'
<1> SUFFICES ASSUME NEW g \in Invocations, g # h
             PROVE  PaymentFrame(g)'
  BY DEF PaymentFramesOK
<1> QED  BY PaymentFrameStays DEF PaymentFramesOK

LEMMA ReturnKeepsPaymentFrames ==
  ASSUME FramesTypeOK, PaymentFramesOK, IntentsEvolve, MappingGrows,
         NEW h \in Invocations, Return(h)
  PROVE  PaymentFramesOK' /\ FramesTypeOK' /\ ReadsFairly
<1>1. /\ FramesTypeOK'
      /\ read'[h] = Undefined
      /\ pc'[h] = "idle"
      /\ \A g \in Invocations \ {h} :
           /\ read'[g] = read[g]
           /\ subject'[g] = subject[g]
           /\ input'[g] = input[g]
           /\ stamp'[g] = stamp[g]
           /\ proposed'[g] = proposed[g]
           /\ pc'[g] = pc[g]
  BY ReturnIsFair
<1>2. PaymentFrame(h)'
  BY <1>1 DEF PaymentFrame, PrepareFrame, WebhookFrame
<1>3. PaymentFramesOK'
  BY <1>1, <1>2, OthersKeepPaymentFrames
<1>4. ReadsFairly
  BY <1>1 DEF ReadsFairly
<1> QED  BY <1>1, <1>3, <1>4

LEMMA ReturnKeepsWebhookInputs ==
  ASSUME FramesTypeOK, WebhookInputsOK, NEW h \in Invocations, Return(h)
  PROVE  WebhookInputsOK'
  BY PaymentInvocations DEF FramesTypeOK, WebhookInputsOK, Return

(***************************************************************************)
(* What a webhook proposes.                                                *)
(***************************************************************************)

LEMMA SnapshotChangeIsChange ==
  ASSUME NEW i \in IntentIds, NEW snapshot \in Intent, NEW at \in Nat
  PROVE  /\ SnapshotChange(i, snapshot, at) \in PaymentStatusChange
         /\ SnapshotChange(i, snapshot, at).targetStatus = snapshot.status
         /\ SnapshotChange(i, snapshot, at).stripePaymentIntentId = i
<1> DEFINE failure == IF snapshot.failureCode = Undefined THEN Undefined
                      ELSE [reasonCode |-> snapshot.failureCode, occurredAt |-> at]
<1>1. snapshot.status \in PaymentStatus /\ snapshot.failureCode \in Optional(ReasonCodes)
  BY DEF Intent
<1>2. failure \in PaymentFailure \cup {Undefined}
  BY <1>1 DEF PaymentFailure, Optional
<1>3. SnapshotChange(i, snapshot, at) =
        [targetStatus |-> snapshot.status, stripePaymentIntentId |-> i, lastFailure |-> failure]
  BY DEF SnapshotChange
<1> HIDE DEF failure
<1> QED  BY <1>1, <1>2, <1>3 DEF PaymentStatusChange

\* A webhook proposes the order as it is only if that carries the intent
\* already; otherwise the order takes in what the snapshot shows.
LEMMA ProposedOrderTakesIn ==
  ASSUME NEW o, NEW order \in Order, NEW i \in IntentIds, NEW snapshot \in Intent, NEW at \in Nat,
         order.status = "AWAITING_PAYMENT",
         ~Mismatch(o, order, i, snapshot)
  PROVE  LET next == ProposedOrder(order, i, snapshot, at) IN
         /\ next \in Order
         /\ next = order => order.payment.stripePaymentIntentId = i
         /\ next # order => TakesIn(order, next, o, i, snapshot)
<1> DEFINE change == SnapshotChange(i, snapshot, at)
           payment == PaymentChanged(order.payment, change, at)
           next == ProposedOrder(order, i, snapshot, at)
<1>1. order.payment \in OrderPayment /\ order.version \in Nat
  BY DEF Order
<1>2. /\ change \in PaymentStatusChange
      /\ change.targetStatus = snapshot.status
      /\ change.stripePaymentIntentId = i
  BY SnapshotChangeIsChange
<1> HIDE DEF change
<1>3. /\ payment \in OrderPayment
      /\ payment.status = snapshot.status
      /\ payment.stripePaymentIntentId = i
  BY <1>1, <1>2, PaymentChangedIsPayment, PaymentChangedShowsChange
<1>4. /\ order.payment.stripePaymentIntentId \in {Undefined, i}
      /\ snapshot.orderId = o
      /\ snapshot.matches
      /\ snapshot.automatic
  BY DEF Mismatch, Intent
<1>5. CASE Decided(snapshot)
  <2> DEFINE paid == [order EXCEPT !.payment = payment]
             target == DecidedTarget(snapshot)
             to == ChangeTo(target)
  <2>1. next = StatusChanged(paid, to, at)
    BY <1>5 DEF ProposedOrder, StatusChangedOrder, PaidOrder, change
  <2> HIDE DEF payment
  <2>2. /\ paid \in Order /\ paid.version = order.version /\ paid.payment = payment
        /\ paid.deliveryProviderOrderId = order.deliveryProviderOrderId
        /\ paid.acceptedAt = order.acceptedAt
    BY <1>3 DEF Order
  <2> HIDE DEF paid
  <2>3. target = StatusFor(snapshot.status)
    BY <1>5 DEF DecidedTarget, StatusFor, Decided, TerminalPaymentStatus
  <2>4. target \in OrderStatus
    BY DEF DecidedTarget, OrderStatus
  <2>9. target # "SUBMITTED"
    BY DEF DecidedTarget
  <2> HIDE DEF target
  <2>5. to \in OrderStatusChange /\ to.targetStatus = target
    BY <2>4 DEF ChangeTo, OrderStatusChange, Optional
  <2> HIDE DEF to
  <2>6. /\ next \in Order
        /\ next.version = order.version + 1
        /\ next.status = StatusFor(snapshot.status)
        /\ next.payment = payment
        /\ next.deliveryProviderOrderId = order.deliveryProviderOrderId
        /\ next.acceptedAt = order.acceptedAt
    BY <2>1, <2>2, <2>3, <2>5, <2>9, StatusChangedIsNext
  <2> HIDE DEF next
  <2>7. next # order
    BY <1>1, <2>6
  <2>8. TakesIn(order, next, o, i, snapshot)
    BY <1>3, <1>4, <2>6 DEF TakesIn
  <2> QED  BY <2>6, <2>7, <2>8 DEF next
<1>6. CASE ~Decided(snapshot)
  <2>1. next = IF payment = order.payment THEN order ELSE WithPayment(order, payment, at)
    BY <1>6 DEF ProposedOrder, PaymentChangedOrder, change
  <2>2. CASE payment = order.payment
    <3>1. next = order
      BY <2>1, <2>2
    <3>2. order.payment.stripePaymentIntentId = i
      BY <1>3, <2>2
    <3> HIDE DEF next, payment
    <3> QED  BY <3>1, <3>2 DEF next
  <2>3. CASE payment # order.payment
    <3>1. next = WithPayment(order, payment, at)
      BY <2>1, <2>3
    <3> HIDE DEF payment, next
    <3>2. /\ next \in Order
          /\ next.version = order.version + 1
          /\ next.payment = payment
          /\ next.status = "AWAITING_PAYMENT"
          /\ next.deliveryProviderOrderId = order.deliveryProviderOrderId
          /\ next.acceptedAt = order.acceptedAt
      BY <1>3, <3>1, WithPaymentIsNext
    <3>3. StatusFor(snapshot.status) = "AWAITING_PAYMENT"
      BY <1>6 DEF Decided, StatusFor, TerminalPaymentStatus
    <3>4. TakesIn(order, next, o, i, snapshot)
      BY <1>3, <1>4, <3>2, <3>3 DEF TakesIn
    <3>5. next # order
      BY <1>1, <3>2
    <3> QED  BY <3>2, <3>4, <3>5 DEF next
  <2> QED  BY <2>2, <2>3
<1> QED  BY <1>5, <1>6

(***************************************************************************)
(* Steps of any actor.                                                     *)
(***************************************************************************)

\* A step that writes no order and no mapping, and releases secrets only of
\* mapped intents.
LEMMA PaymentQuietStep ==
  ASSUME PaymentInv, PaymentTypeOK', PaymentFramesOK', ReadsFairly, EventsShowIntents',
         IntentsEvolve, orders' = orders, intentMapping' = intentMapping,
         \A i \in secretReleased' \ secretReleased : intentMapping[i] \in OrderIds
  PROVE  PaymentInv'
<1> USE DEF PaymentInv, PaymentTypeOK
<1>1. SnapshotsCurrentOrOlder'
  <2>1. Advances
    BY DEF Advances
  <2> QED  BY <2>1, SnapshotsStayCurrentOrOlder
<1>2. IntentLookupAgrees'
  BY DEF IntentLookupAgrees
<1>3. SecretOnlyAfterMapping'
  <2> SUFFICES ASSUME NEW i \in secretReleased'
               PROVE  \E o \in OrderIds :
                        intentMapping[i] = o /\ orders[o].payment.stripePaymentIntentId = i
    BY DEF SecretOnlyAfterMapping
  <2>1. CASE i \in secretReleased
    BY <2>1 DEF SecretOnlyAfterMapping
  <2>2. CASE i \notin secretReleased
    <3>1. i \in IntentIds /\ intentMapping[i] \in OrderIds
      BY <2>2 DEF StripeTypeOK
    <3> QED  BY <3>1 DEF IntentLookupAgrees
  <2> QED  BY <2>1, <2>2
<1>4. MoneyIsThere'
  <2> SUFFICES ASSUME NEW o \in OrderIds, orders[o] # Undefined,
                      orders[o].payment.status = "SUCCEEDED"
               PROVE  LET intent == intents'[orders[o].payment.stripePaymentIntentId]
                      IN /\ intent.status = "SUCCEEDED"
                         /\ intent.matches
                         /\ intent.automatic
    BY DEF MoneyIsThere, Collected
  <2> DEFINE i == orders[o].payment.stripePaymentIntentId
  <2>1. i \in IntentIds /\ intents[i] # Undefined
    BY UndefinedIsNoIntent DEF PaidHasIntent
  <2>2. /\ intents[i].status = "SUCCEEDED"
        /\ intents[i].matches
        /\ intents[i].automatic
    BY DEF MoneyIsThere, Collected
  <2> HIDE DEF i
  <2>3. /\ intents'[i].status = "SUCCEEDED"
        /\ intents'[i].matches
        /\ intents'[i].automatic
    BY <2>1, <2>2 DEF IntentsEvolve, TerminalPaymentStatus
  <2> QED  BY <2>3 DEF i
<1>5. PaidHasIntent'
  <2> SUFFICES ASSUME NEW o \in OrderIds, orders[o] # Undefined,
                      orders[o].payment.status = "SUCCEEDED"
               PROVE  LET i == orders[o].payment.stripePaymentIntentId
                      IN i \in IntentIds /\ intents'[i] \in Intent
    BY DEF PaidHasIntent
  <2> DEFINE i == orders[o].payment.stripePaymentIntentId
  <2>1. i \in IntentIds /\ intents[i] \in Intent /\ intents[i] # Undefined
    BY UndefinedIsNoIntent DEF PaidHasIntent
  <2> QED  BY <2>1 DEF IntentsEvolve
<1> QED  BY <1>1, <1>2, <1>3, <1>4, <1>5

\* A step that commits one order and the mapping of the intent it carries.
LEMMA PaymentCommitStep ==
  ASSUME PaymentInv, PaymentTypeOK', PaymentFramesOK', ReadsFairly,
         UNCHANGED <<intents, emitted>>,
         NEW o \in OrderIds, NEW after \in Order,
         orders' = [orders EXCEPT ![o] = after],
         orders[o] # Undefined =>
           /\ after.version = orders[o].version + 1
           /\ orders[o].payment.stripePaymentIntentId \in
                {Undefined, after.payment.stripePaymentIntentId},
         \A j \in IntentIds :
           IF j = after.payment.stripePaymentIntentId
           THEN intentMapping[j] \in {Undefined, o} /\ intentMapping'[j] = o
           ELSE intentMapping'[j] = intentMapping[j],
         \A i \in secretReleased' \ secretReleased : i = after.payment.stripePaymentIntentId,
         after.payment.status = "SUCCEEDED" =>
           LET i == after.payment.stripePaymentIntentId
           IN /\ i \in IntentIds
              /\ intents[i] \in Intent
              /\ intents[i].status = "SUCCEEDED"
              /\ intents[i].matches
              /\ intents[i].automatic
  PROVE  PaymentInv'
<1> USE DEF PaymentInv, PaymentTypeOK
<1> DEFINE i == after.payment.stripePaymentIntentId
<1>1. /\ orders'[o] = after
      /\ after # Undefined
      /\ \A q \in OrderIds \ {o} : orders'[q] = orders[q]
  BY UndefinedIsNoRecord DEF TableTypeOK, ItemsTypeOK
<1>2. SnapshotsCurrentOrOlder'
  <2>1. Advances
    <3> SUFFICES ASSUME NEW q \in OrderIds, orders'[q] # orders[q], orders[q] # Undefined
                 PROVE  /\ orders[q] \in Order
                        /\ orders'[q] \in Order
                        /\ orders'[q].version > orders[q].version
      BY DEF Advances
    <3>1. q = o /\ after.version = orders[o].version + 1
      BY <1>1
    <3>2. orders[o] \in Order
      BY <3>1 DEF TableTypeOK, ItemsTypeOK
    <3>3. orders[o].version \in Nat
      BY <3>2 DEF Order
    <3> QED  BY <1>1, <3>1, <3>2, <3>3
  <2> QED  BY <2>1, SnapshotsStayCurrentOrOlder
<1>3. EventsShowIntents'
  BY DEF EventsShowIntents
<1>4. IntentLookupAgrees'
  <2> SUFFICES ASSUME NEW j \in IntentIds, NEW q \in OrderIds
               PROVE  intentMapping'[j] = q <=>
                        (orders'[q] # Undefined /\ orders'[q].payment.stripePaymentIntentId = j)
    BY DEF IntentLookupAgrees
  <2>1. intentMapping[j] = q <=>
          (orders[q] # Undefined /\ orders[q].payment.stripePaymentIntentId = j)
    BY DEF IntentLookupAgrees
  <2>2. CASE q = o
    <3>1. CASE j = i
      BY <1>1, <2>2, <3>1
    <3>2. CASE j # i
      <4>1. intentMapping[j] # o
        BY <2>1, <2>2, <3>2, UndefinedIsNoValue
      <4> QED  BY <1>1, <2>2, <3>2, <4>1
    <3> QED  BY <3>1, <3>2
  <2>3. CASE q # o
    <3>1. CASE j = i
      <4>1. intentMapping[j] # q
        BY <2>3, <3>1, UndefinedIsNoOrderId
      <4>2. intentMapping'[j] = o
        BY <3>1
      <4> QED  BY <1>1, <2>1, <2>3, <4>1, <4>2
    <3>2. CASE j # i
      BY <1>1, <2>1, <2>3, <3>2
    <3> QED  BY <3>1, <3>2
  <2> QED  BY <2>2, <2>3
<1>5. SecretOnlyAfterMapping'
  <2> SUFFICES ASSUME NEW j \in secretReleased'
               PROVE  \E q \in OrderIds :
                        intentMapping'[j] = q /\ orders'[q].payment.stripePaymentIntentId = j
    BY DEF SecretOnlyAfterMapping
  <2>1. j \in IntentIds
    BY DEF StripeTypeOK
  <2>2. CASE j = i
    BY <1>1, <2>1, <2>2
  <2>3. CASE j # i
    <3>1. PICK q \in OrderIds :
            intentMapping[j] = q /\ orders[q].payment.stripePaymentIntentId = j
      BY <2>3 DEF SecretOnlyAfterMapping
    <3>2. orders[q] # Undefined
      BY <2>1, <3>1 DEF IntentLookupAgrees
    <3>3. q # o
      BY <2>1, <2>3, <3>1, <3>2, UndefinedIsNoValue
    <3> QED  BY <1>1, <2>1, <2>3, <3>1, <3>3
  <2> QED  BY <2>2, <2>3
<1>7. PaidHasIntent'
  BY <1>1 DEF PaidHasIntent
<1>8. MoneyIsThere'
  BY <1>1 DEF MoneyIsThere, Collected
<1> QED  BY <1>2, <1>3, <1>4, <1>5, <1>7, <1>8

(***************************************************************************)
(* Stripe and order creation.                                              *)
(***************************************************************************)

\* What others do at Stripe.
LEMMA StripeEvolves ==
  ASSUME PaymentInv, Stripe
  PROVE  /\ StripeTypeOK'
         /\ IntentsEvolve
         /\ EventsShowIntents'
         /\ UNCHANGED <<baseVars, secretReleased>>
<1> USE DEF PaymentInv, PaymentTypeOK, TableTypeOK, baseVars, tableVars, frameVars
<1>1. ASSUME NEW i \in IntentIds, NEW o \in OrderIds, NEW kind \in ForeignIntents,
             ForeignIntent(i, o, kind)
      PROVE  /\ StripeTypeOK'
             /\ IntentsEvolve
             /\ EventsShowIntents'
             /\ UNCHANGED <<baseVars, secretReleased>>
  <2> USE <1>1 DEF ForeignIntent
  <2> DEFINE new == NewIntent(o, kind.matches, kind.automatic, FALSE)
  <2>1. new \in Intent
    BY PaymentInvocations DEF NewIntent, Intent, PaymentStatus, Optional
  <2>2. intents' = [intents EXCEPT ![i] = new]
    OBVIOUS
  <2> HIDE DEF new
  <2>3. new # Undefined
    BY <2>1, UndefinedIsNoIntent
  <2>4. StripeTypeOK'
    BY <2>1, <2>2 DEF StripeTypeOK
  <2>5. IntentsEvolve
    BY <2>2 DEF IntentsEvolve, StripeTypeOK
  <2>6. EventsShowIntents'
    BY <2>2, <2>3 DEF EventsShowIntents, StripeTypeOK
  <2> QED  BY <2>4, <2>5, <2>6
<1>2. ASSUME NEW e \in StripeEventIds, NEW i \in IntentIds, StripeAnnounce(e, i)
      PROVE  /\ StripeTypeOK'
             /\ IntentsEvolve
             /\ EventsShowIntents'
             /\ UNCHANGED <<baseVars, secretReleased>>
  <2> USE <1>2 DEF StripeAnnounce, Announcement
  <2>1. intents[i] \in Intent
    BY DEF StripeTypeOK
  <2>2. [intentId |-> i, status |-> intents[i].status] \in
          [intentId : IntentIds, status : PaymentStatus]
    BY <2>1 DEF Intent
  <2>3. StripeTypeOK'
    BY <2>2 DEF StripeTypeOK
  <2>4. IntentsEvolve
    BY DEF IntentsEvolve
  <2>5. EventsShowIntents'
    BY DEF EventsShowIntents, StripeTypeOK
  <2> QED  BY <2>3, <2>4, <2>5
<1>3. ASSUME NEW e \in StripeEventIds, NEW i \in IntentIds, NEW s \in IntentStatuses,
             NEW c \in Optional(ReasonCodes), StripeAdvance(e, i, s, c)
      PROVE  /\ StripeTypeOK'
             /\ IntentsEvolve
             /\ EventsShowIntents'
             /\ UNCHANGED <<baseVars, secretReleased>>
  <2> USE <1>3 DEF StripeAdvance, Announcement
  <2> DEFINE a == [intents[i] EXCEPT !.status = s]
             b == [a EXCEPT !.failureCode = c]
  <2>1. intents[i] \in Intent
    BY DEF StripeTypeOK
  <2>2. s \in PaymentStatus \ {"NOT_STARTED"}
    BY PaymentInvocations
  <2>3. intents' = [intents EXCEPT ![i] = b]
    BY <2>1 DEF Intent, StripeTypeOK
  <2>4. a \in Intent /\ a.orderId = intents[i].orderId /\ a.matches = intents[i].matches
          /\ a.automatic = intents[i].automatic
    BY <2>1, <2>2 DEF Intent
  <2> HIDE DEF a
  <2>5. b \in Intent /\ b.orderId = intents[i].orderId /\ b.matches = intents[i].matches
          /\ b.automatic = intents[i].automatic
    BY <2>4 DEF Intent
  <2> HIDE DEF b
  <2>6. intents[i].status \notin TerminalPaymentStatus
    BY DEF StripeTransitions, TerminalPaymentStatus
  <2>7. IntentsEvolve
    BY <2>1, <2>3, <2>5, <2>6 DEF IntentsEvolve, StripeTypeOK
  <2>8. emitted' = [emitted EXCEPT ![e] = [intentId |-> i, status |-> s]]
    OBVIOUS
  <2>9. StripeTypeOK'
    <3>1. intents' \in [IntentIds -> Intent \cup {Undefined}]
      BY <2>3, <2>5 DEF StripeTypeOK
    <3>2. emitted' \in
            [StripeEventIds -> [intentId : IntentIds, status : PaymentStatus] \cup {Undefined}]
      BY <2>2, <2>8 DEF StripeTypeOK
    <3> QED  BY <3>1, <3>2 DEF StripeTypeOK
  <2>10. EventsShowIntents'
    <3>1. b # Undefined
      BY <2>5, UndefinedIsNoIntent
    <3> QED  BY <2>3, <2>8, <3>1 DEF EventsShowIntents, StripeTypeOK
  <2> QED  BY <2>7, <2>9, <2>10
<1> QED  BY <1>1, <1>2, <1>3 DEF Stripe

LEMMA StripeKeepsInv ==
  ASSUME PaymentInv, Stripe
  PROVE  PaymentInv'
<1> USE DEF PaymentInv, PaymentTypeOK, TableTypeOK, baseVars, tableVars, frameVars
<1>1. /\ StripeTypeOK'
      /\ IntentsEvolve
      /\ EventsShowIntents'
      /\ UNCHANGED <<baseVars, secretReleased>>
  BY StripeEvolves
<1>2. ItemsTypeOK' /\ FramesTypeOK' /\ WebhookInputsOK' /\ ReadsFairly
  BY <1>1 DEF ItemsTypeOK, FramesTypeOK, WebhookInputsOK, ReadsFairly
<1>3. PaymentFramesOK'
  <2>1. MappingGrows
    BY <1>1 DEF MappingGrows
  <2> QED  BY <1>1, <2>1, PaymentFrameStays DEF PaymentFramesOK
<1> QED  BY <1>1, <1>2, <1>3, PaymentQuietStep

LEMMA CreateOrderKeepsInv ==
  ASSUME PaymentInv, NEW o \in OrderIds, CreateOrder(o)
  PROVE  PaymentInv'
<1> USE DEF PaymentInv, PaymentTypeOK, TableTypeOK, CreateOrder, CreateOrderItem, frameVars,
            paymentVars, stripeVars
<1> DEFINE new == NewOrder(clock)
<1>1. new \in Order
  BY NewOrderIsOrder DEF ItemsTypeOK
<1>2. /\ new.status = "AWAITING_PAYMENT"
      /\ new.payment.status = "NOT_STARTED"
      /\ new.payment.stripePaymentIntentId = Undefined
  BY DEF NewOrder
<1>3. orders' = [orders EXCEPT ![o] = new]
  OBVIOUS
<1> HIDE DEF new
<1>4. ItemsTypeOK' /\ FramesTypeOK' /\ WebhookInputsOK' /\ StripeTypeOK' /\ ReadsFairly
  BY <1>1, <1>3 DEF ItemsTypeOK, FramesTypeOK, WebhookInputsOK, StripeTypeOK, ReadsFairly
<1>5. PaymentFramesOK'
  <2>1. MappingGrows /\ IntentsEvolve
    BY DEF MappingGrows, IntentsEvolve
  <2> QED  BY <2>1, PaymentFrameStays DEF PaymentFramesOK
<1>7. \A j \in IntentIds :
        IF j = new.payment.stripePaymentIntentId
        THEN intentMapping[j] \in {Undefined, o} /\ intentMapping'[j] = o
        ELSE intentMapping'[j] = intentMapping[j]
  BY <1>2, UndefinedIsNoValue
<1>8. new.payment.status # "SUCCEEDED"
  BY <1>2
<1> QED  BY <1>1, <1>3, <1>4, <1>5, <1>7, <1>8, PaymentCommitStep

(***************************************************************************)
(* Payment preparation.                                                    *)
(***************************************************************************)

LEMMA PrepareGetKeepsInv ==
  ASSUME PaymentInv, NEW h \in PrepareInvocations, NEW o \in OrderIds, PrepareGet(h, o)
  PROVE  PaymentInv'
<1> USE DEF PaymentInv, PaymentTypeOK, TableTypeOK, PrepareGet, Goto, tableVars, paymentVars,
            stripeVars
<1>1. h \in Invocations /\ orders[o] \in Order /\ clock \in Nat
  BY PaymentInvocations DEF ItemsTypeOK
<1>2. ItemsTypeOK' /\ StripeTypeOK' /\ WebhookInputsOK' /\ EventsShowIntents'
  BY DEF ItemsTypeOK, StripeTypeOK, WebhookInputsOK, EventsShowIntents
<1>3. FramesTypeOK'
  <2>1. pc' \in [Invocations -> Steps]
    BY DEF FramesTypeOK, Steps
  <2>2. subject' \in [Invocations -> Optional(OrderIds)]
    BY DEF FramesTypeOK, Optional
  <2>3. stamp' \in [Invocations -> Optional(Nat)]
    BY <1>1 DEF FramesTypeOK, Optional
  <2>4. read' \in [Invocations -> Order \cup {Undefined}]
    BY <1>1 DEF FramesTypeOK
  <2> QED  BY <2>1, <2>2, <2>3, <2>4 DEF FramesTypeOK
<1>4. /\ subject'[h] = o
      /\ read'[h] = orders[o]
      /\ \/ /\ pc'[h] = "retrieve"
            /\ orders[o].payment.stripePaymentIntentId # Undefined
         \/ /\ pc'[h] = "create"
            /\ stamp'[h] = clock
            /\ orders[o].payment.stripePaymentIntentId = Undefined
            /\ orders[o].status = "AWAITING_PAYMENT"
      /\ \A g \in Invocations \ {h} :
           /\ pc'[g] = pc[g]
           /\ subject'[g] = subject[g]
           /\ input'[g] = input[g]
           /\ stamp'[g] = stamp[g]
           /\ read'[g] = read[g]
           /\ proposed'[g] = proposed[g]
  BY <1>1 DEF FramesTypeOK
<1>5. orders[o].payment.stripePaymentIntentId # Undefined =>
        /\ orders[o].payment.stripePaymentIntentId \in IntentIds
        /\ intentMapping[orders[o].payment.stripePaymentIntentId] = o
  <2>1. orders[o].payment.stripePaymentIntentId \in Optional(IntentIds)
    BY <1>1 DEF Order, OrderPayment
  <2> QED  BY <2>1 DEF Optional, IntentLookupAgrees
<1>6. PaymentFrame(h)'
  BY <1>1, <1>4, <1>5 DEF PaymentFrame, PrepareFrame, WebhookFrame
<1>7. IntentsEvolve /\ MappingGrows
  BY DEF IntentsEvolve, MappingGrows
<1>8. PaymentFramesOK'
  BY <1>1, <1>4, <1>6, <1>7, OthersKeepPaymentFrames
<1>9. ReadsFairly
  BY <1>4 DEF ReadsFairly
<1> QED  BY <1>2, <1>3, <1>7, <1>8, <1>9, PaymentQuietStep

\* Stripe creates an intent, or has done so before.
LEMMA CreationEvolves ==
  ASSUME StripeTypeOK, EventsShowIntents, NEW o \in OrderIds, NEW i \in IntentIds,
         intents' = [intents EXCEPT ![i] = IF @ = Undefined THEN NewIntent(o, TRUE, TRUE, TRUE) ELSE @],
         creationKeys' = [creationKeys EXCEPT ![o] = i],
         UNCHANGED <<emitted, secretReleased>>
  PROVE  StripeTypeOK' /\ IntentsEvolve /\ EventsShowIntents'
<1> DEFINE new == NewIntent(o, TRUE, TRUE, TRUE)
<1>1. new \in Intent
  BY DEF NewIntent, Intent, PaymentStatus, Optional
<1>2. new # Undefined
  BY <1>1, UndefinedIsNoIntent
<1>3. intents' = [intents EXCEPT ![i] = IF @ = Undefined THEN new ELSE @]
  OBVIOUS
<1> HIDE DEF new
<1>4. StripeTypeOK'
  BY <1>1, <1>3 DEF StripeTypeOK, Optional
<1>5. IntentsEvolve
  BY <1>3 DEF IntentsEvolve, StripeTypeOK
<1>6. EventsShowIntents'
  BY <1>2, <1>3 DEF EventsShowIntents, StripeTypeOK
<1> QED  BY <1>4, <1>5, <1>6

LEMMA PrepareCreateKeepsInv ==
  ASSUME PaymentInv, NEW h \in PrepareInvocations, NEW i \in IntentIds, PrepareCreate(h, i)
  PROVE  PaymentInv'
<1> USE DEF PaymentInv, PaymentTypeOK, TableTypeOK, PrepareCreate, Goto, tableVars
<1> DEFINE o == subject[h]
           created == NewIntent(o, TRUE, TRUE, TRUE)
           change == SnapshotChange(i, created, stamp[h])
           payment == PaymentChanged(read[h].payment, change, stamp[h])
           next == WithPayment(read[h], payment, stamp[h])
<1>1. /\ h \in Invocations
      /\ o \in OrderIds
      /\ read[h] \in Order
      /\ read[h].status = "AWAITING_PAYMENT"
      /\ read[h].payment.stripePaymentIntentId = Undefined
      /\ stamp[h] \in Nat
  BY PaymentInvocations DEF PaymentFramesOK, PaymentFrame, PrepareFrame
<1>2. StripeTypeOK' /\ IntentsEvolve /\ EventsShowIntents'
  BY <1>1, CreationEvolves
<1>3. created \in Intent /\ created.status = "REQUIRES_PAYMENT_METHOD"
  BY <1>1 DEF NewIntent, Intent, PaymentStatus, Optional
<1>4. proposed' = [proposed EXCEPT ![h] = next]
  OBVIOUS
<1> HIDE DEF created
<1>5. /\ change \in PaymentStatusChange
      /\ change.targetStatus = "REQUIRES_PAYMENT_METHOD"
      /\ change.stripePaymentIntentId = i
  BY <1>1, <1>3, SnapshotChangeIsChange
<1> HIDE DEF change
<1>6. /\ payment \in OrderPayment
      /\ payment.status = "REQUIRES_PAYMENT_METHOD"
      /\ payment.stripePaymentIntentId = i
  <2>1. read[h].payment \in OrderPayment
    BY <1>1 DEF Order
  <2> QED  BY <1>1, <1>5, <2>1, PaymentChangedIsPayment, PaymentChangedShowsChange
<1> HIDE DEF payment
<1>7. /\ next \in Order
      /\ next.version = read[h].version + 1
      /\ next.status = "AWAITING_PAYMENT"
      /\ next.payment = payment
      /\ next.deliveryProviderOrderId = read[h].deliveryProviderOrderId
      /\ next.acceptedAt = read[h].acceptedAt
  BY <1>1, <1>6, WithPaymentIsNext
<1> HIDE DEF next
<1>8. ItemsTypeOK' /\ WebhookInputsOK'
  BY DEF ItemsTypeOK, WebhookInputsOK
<1>9. FramesTypeOK'
  <2>1. pc' \in [Invocations -> Steps]
    BY DEF FramesTypeOK, Steps, WriteSteps
  <2>2. proposed' \in [Invocations -> Order \cup {Undefined}]
    BY <1>4, <1>7 DEF FramesTypeOK
  <2> QED  BY <2>1, <2>2 DEF FramesTypeOK
<1>10. /\ pc'[h] = "bind"
       /\ proposed'[h] = next
       /\ \A g \in Invocations \ {h} : pc'[g] = pc[g] /\ proposed'[g] = proposed[g]
  BY <1>1, <1>4 DEF FramesTypeOK
<1>11. PaymentFrame(h)'
  BY <1>1, <1>6, <1>7, <1>10 DEF PaymentFrame, PrepareFrame, WebhookFrame
<1>12. MappingGrows /\ ReadsFairly
  BY DEF MappingGrows, ReadsFairly
<1>13. PaymentFramesOK'
  BY <1>1, <1>2, <1>10, <1>11, <1>12, OthersKeepPaymentFrames
<1> QED  BY <1>2, <1>8, <1>9, <1>12, <1>13, PaymentQuietStep

LEMMA PrepareBindKeepsInv ==
  ASSUME PaymentInv, NEW h \in PrepareInvocations, PrepareBind(h)
  PROVE  PaymentInv'
<1> USE DEF PaymentInv, PaymentTypeOK, TableTypeOK, PrepareBind, stripeVars
<1> DEFINE o == subject[h]
           after == proposed[h]
           i == after.payment.stripePaymentIntentId
<1>1. /\ h \in Invocations
      /\ o \in OrderIds
      /\ read[h] \in Order
      /\ read[h].payment.stripePaymentIntentId = Undefined
      /\ after \in Order
      /\ after.version = read[h].version + 1
      /\ after.status = "AWAITING_PAYMENT"
      /\ after.payment.status = "REQUIRES_PAYMENT_METHOD"
      /\ i \in IntentIds
  BY PaymentInvocations DEF PaymentFramesOK, PaymentFrame, PrepareFrame
<1>2. /\ orders[o] # Undefined
      /\ orders[o].version = read[h].version
      /\ intentMapping[i] = Undefined
      /\ orders' = [orders EXCEPT ![o] = after]
      /\ intentMapping' = [intentMapping EXCEPT ![i] = o]
      /\ UNCHANGED <<providerMapping, stripeEvents, providerEvents>>
  BY DEF BindStripePaymentIntent, BindCommits, VersionIs
<1>3. orders[o] = read[h]
  BY <1>1, <1>2, UndefinedIsNoRecord DEF SnapshotsCurrentOrOlder
<1>4. secretReleased' = secretReleased \cup {i} /\ UNCHANGED <<intents, emitted, creationKeys>>
  OBVIOUS
<1> HIDE DEF o, after, i
<1>5. ItemsTypeOK'
  <2>1. orders' \in [OrderIds -> Order \cup {Undefined}]
    BY <1>1, <1>2 DEF ItemsTypeOK
  <2>2. intentMapping' \in [IntentIds -> Optional(OrderIds)]
    BY <1>1, <1>2 DEF ItemsTypeOK, Optional
  <2> QED  BY <1>2, <2>1, <2>2 DEF ItemsTypeOK
<1>6. StripeTypeOK'
  BY <1>1, <1>4 DEF StripeTypeOK
<1>7. IntentsEvolve /\ MappingGrows
  BY <1>1, <1>2, <1>4 DEF IntentsEvolve, MappingGrows, ItemsTypeOK
<1>8. WebhookInputsOK' /\ FramesTypeOK' /\ PaymentFramesOK' /\ ReadsFairly
  BY <1>1, <1>7, ReturnKeepsWebhookInputs, ReturnKeepsPaymentFrames
<1>9. \A j \in IntentIds :
        IF j = i THEN intentMapping[j] \in {Undefined, o} /\ intentMapping'[j] = o
        ELSE intentMapping'[j] = intentMapping[j]
  BY <1>2 DEF ItemsTypeOK
<1>11. /\ after.version = orders[o].version + 1
       /\ orders[o].payment.stripePaymentIntentId \in {Undefined, after.payment.stripePaymentIntentId}
       /\ after.payment.status # "SUCCEEDED"
       /\ \A j \in secretReleased' \ secretReleased : j = after.payment.stripePaymentIntentId
       /\ \A j \in IntentIds :
            IF j = after.payment.stripePaymentIntentId
            THEN intentMapping[j] \in {Undefined, o} /\ intentMapping'[j] = o
            ELSE intentMapping'[j] = intentMapping[j]
  BY <1>1, <1>3, <1>4, <1>9 DEF i
<1> QED
  BY <1>1, <1>2, <1>4, <1>5, <1>6, <1>8, <1>11, PaymentCommitStep

LEMMA PrepareStepKeepsInv ==
  ASSUME PaymentInv, NEW h \in PrepareInvocations, PrepareStep(h)
  PROVE  PaymentInv'
<1> USE DEF PaymentInv, PaymentTypeOK, TableTypeOK, tableVars, paymentVars, stripeVars
<1>0. h \in Invocations
  BY PaymentInvocations
<1>1. ASSUME NEW i \in IntentIds, PrepareCreateLost(h, i)
      PROVE  PaymentInv'
  <2> USE <1>1 DEF PrepareCreateLost
  <2>1. subject[h] \in OrderIds
    BY <1>0 DEF PaymentFramesOK, PaymentFrame, PrepareFrame
  <2>2. StripeTypeOK' /\ IntentsEvolve /\ EventsShowIntents'
    BY <2>1, CreationEvolves
  <2>3. MappingGrows
    BY DEF MappingGrows
  <2>4. WebhookInputsOK' /\ FramesTypeOK' /\ PaymentFramesOK' /\ ReadsFairly
    BY <1>0, <2>2, <2>3, ReturnKeepsWebhookInputs, ReturnKeepsPaymentFrames
  <2>5. ItemsTypeOK'
    BY DEF ItemsTypeOK
  <2> QED  BY <2>2, <2>4, <2>5, PaymentQuietStep
<1>2. CASE PrepareBindCancelled(h)
  <2> USE <1>2 DEF PrepareBindCancelled, Goto
  <2>1. ItemsTypeOK' /\ StripeTypeOK' /\ WebhookInputsOK' /\ EventsShowIntents'
    BY DEF ItemsTypeOK, StripeTypeOK, WebhookInputsOK, EventsShowIntents
  <2>2. FramesTypeOK'
    BY DEF FramesTypeOK, Steps
  <2>3. pc'[h] = "resolveBinding" /\ \A g \in Invocations \ {h} : pc'[g] = pc[g]
    BY <1>0 DEF FramesTypeOK
  <2>4. PaymentFrame(h)'
    BY <1>0, <2>3 DEF PaymentFramesOK, PaymentFrame, PrepareFrame, WebhookFrame
  <2>5. IntentsEvolve /\ MappingGrows /\ ReadsFairly
    BY DEF IntentsEvolve, MappingGrows, ReadsFairly
  <2>6. PaymentFramesOK'
    BY <1>0, <2>3, <2>4, <2>5, OthersKeepPaymentFrames
  <2> QED  BY <2>1, <2>2, <2>5, <2>6, PaymentQuietStep
<1>3. CASE PrepareBindConflict(h)
  <2> USE <1>3 DEF PrepareBindConflict
  <2>1. ItemsTypeOK' /\ StripeTypeOK' /\ EventsShowIntents'
    BY DEF ItemsTypeOK, StripeTypeOK, EventsShowIntents
  <2>2. IntentsEvolve /\ MappingGrows
    BY DEF IntentsEvolve, MappingGrows
  <2>3. WebhookInputsOK' /\ FramesTypeOK' /\ PaymentFramesOK' /\ ReadsFairly
    BY <1>0, <2>2, ReturnKeepsWebhookInputs, ReturnKeepsPaymentFrames
  <2> QED  BY <2>1, <2>2, <2>3, PaymentQuietStep
<1>4. CASE PrepareResolveBinding(h)
  <2> USE <1>4 DEF PrepareResolveBinding, Goto
  <2> DEFINE o == subject[h]
             i == proposed[h].payment.stripePaymentIntentId
  <2>1. ItemsTypeOK' /\ StripeTypeOK' /\ EventsShowIntents'
    BY DEF ItemsTypeOK, StripeTypeOK, EventsShowIntents
  <2>2. IntentsEvolve /\ MappingGrows
    BY DEF IntentsEvolve, MappingGrows
  <2>3. CASE Return(h)
    <3>1. WebhookInputsOK' /\ FramesTypeOK' /\ PaymentFramesOK' /\ ReadsFairly
      BY <1>0, <2>2, <2>3, ReturnKeepsWebhookInputs, ReturnKeepsPaymentFrames
    <3> QED  BY <2>1, <2>2, <3>1, PaymentQuietStep
  <2>4. CASE ~Return(h)
    <3>1. /\ intentMapping[i] = o
          /\ orders[o].payment.stripePaymentIntentId = i
          /\ pc' = [pc EXCEPT ![h] = "retrieve"]
          /\ read' = [read EXCEPT ![h] = orders[o]]
          /\ UNCHANGED <<subject, input, stamp, proposed, attempt>>
      BY <2>4
    <3>2. i \in IntentIds /\ o \in OrderIds
      BY <1>0 DEF PaymentFramesOK, PaymentFrame, PrepareFrame
    <3>3. orders[o] \in Order
      BY <3>1, <3>2 DEF IntentLookupAgrees, ItemsTypeOK
    <3> HIDE DEF i, o
    <3>4. WebhookInputsOK'
      BY <3>1 DEF WebhookInputsOK
    <3>5. FramesTypeOK'
      <4>1. pc' \in [Invocations -> Steps]
        BY <3>1 DEF FramesTypeOK, Steps
      <4>2. read' \in [Invocations -> Order \cup {Undefined}]
        BY <3>1, <3>3 DEF FramesTypeOK
      <4> QED  BY <3>1, <4>1, <4>2 DEF FramesTypeOK
    <3>6. /\ pc'[h] = "retrieve"
          /\ read'[h] = orders[o]
          /\ subject'[h] = o
          /\ \A g \in Invocations \ {h} : pc'[g] = pc[g] /\ read'[g] = read[g]
      BY <1>0, <3>1 DEF FramesTypeOK, o
    <3>7. PaymentFrame(h)'
      BY <3>1, <3>2, <3>3, <3>6 DEF PaymentFrame, PrepareFrame, WebhookFrame
    <3>8. PaymentFramesOK'
      BY <1>0, <2>2, <3>1, <3>6, <3>7, OthersKeepPaymentFrames
    <3>9. ReadsFairly
      BY <3>1, <3>2, <3>6 DEF ReadsFairly
    <3> QED  BY <2>1, <2>2, <3>4, <3>5, <3>8, <3>9, PaymentQuietStep
  <2> QED  BY <2>3, <2>4
<1>5. CASE PrepareRetrieve(h)
  <2> USE <1>5 DEF PrepareRetrieve
  <2> DEFINE i == read[h].payment.stripePaymentIntentId
  <2>1. i \in IntentIds /\ intentMapping[i] \in OrderIds
    BY <1>0 DEF PaymentFramesOK, PaymentFrame, PrepareFrame
  <2>2. secretReleased' \subseteq secretReleased \cup {i}
    OBVIOUS
  <2> HIDE DEF i
  <2>3. ItemsTypeOK' /\ StripeTypeOK' /\ EventsShowIntents'
    BY <2>1, <2>2 DEF ItemsTypeOK, StripeTypeOK, EventsShowIntents
  <2>4. IntentsEvolve /\ MappingGrows
    BY DEF IntentsEvolve, MappingGrows
  <2>5. WebhookInputsOK' /\ FramesTypeOK' /\ PaymentFramesOK' /\ ReadsFairly
    BY <1>0, <2>4, ReturnKeepsWebhookInputs, ReturnKeepsPaymentFrames
  <2> QED  BY <2>1, <2>2, <2>3, <2>4, <2>5, PaymentQuietStep
<1> QED
  BY <1>1, <1>2, <1>3, <1>4, <1>5, PrepareCreateKeepsInv, PrepareBindKeepsInv DEF PrepareStep

(***************************************************************************)
(* The Stripe webhook, run by its own invocations or on behalf of another. *)
(***************************************************************************)

LEMMA StripeWebhookRetrieveKeepsInv ==
  ASSUME PaymentInv, NEW h \in Invocations, NEW e \in StripeEventIds,
         StripeWebhookRetrieve(h, e)
  PROVE  PaymentInv'
<1> USE DEF PaymentInv, PaymentTypeOK, TableTypeOK, StripeWebhookRetrieve, Goto, tableVars,
            paymentVars, stripeVars
<1> DEFINE i == emitted[e].intentId
           given == [ eventId |-> e, intentId |-> i, snapshot |-> intents[i],
                      ensureMapping |-> FALSE, verdict |-> Undefined ]
<1>1. h \in Invocations /\ clock \in Nat
  BY PaymentInvocations DEF ItemsTypeOK
<1>2. i \in IntentIds /\ intents[i] \in Intent
  BY DEF StripeTypeOK, EventsShowIntents
<1>3. input' = [input EXCEPT ![h] = given]
  OBVIOUS
<1>4. given \in Snapshot /\ given.intentId = i /\ given.snapshot = intents[i]
  BY <1>2 DEF Snapshot, Optional
<1> HIDE DEF i, given
<1>5. ItemsTypeOK' /\ StripeTypeOK' /\ EventsShowIntents'
  BY DEF ItemsTypeOK, StripeTypeOK, EventsShowIntents
<1>6. WebhookInputsOK'
  BY <1>1, <1>3, <1>4, PaymentInvocations DEF WebhookInputsOK, FramesTypeOK
<1>7. FramesTypeOK'
  <2>1. pc' \in [Invocations -> Steps] /\ DOMAIN input' = Invocations
    BY <1>3 DEF FramesTypeOK, Steps
  <2>2. stamp' \in [Invocations -> Optional(Nat)]
    BY <1>1 DEF FramesTypeOK, Optional
  <2>3. attempt' \in [Invocations -> 0..MaxConcurrentWriteAttempts]
    <3>1. 1 \in 0..3
      OBVIOUS
    <3>2. attempt \in [Invocations -> 0..3] /\ attempt' = [attempt EXCEPT ![h] = 1]
      BY DEF FramesTypeOK, MaxConcurrentWriteAttempts
    <3>3. attempt' \in [Invocations -> 0..3]
      BY <3>1, <3>2
    <3> QED  BY <3>3 DEF MaxConcurrentWriteAttempts
  <2> QED  BY <2>1, <2>2, <2>3 DEF FramesTypeOK
<1>8. /\ pc'[h] = "lookup" /\ input'[h] = given /\ stamp'[h] = clock
      /\ \A g \in Invocations \ {h} :
           pc'[g] = pc[g] /\ input'[g] = input[g] /\ stamp'[g] = stamp[g]
  BY <1>1, <1>3 DEF FramesTypeOK
<1>9. /\ Shows(intents[i], i)
      /\ read'[h] = Undefined
  BY <1>1, <1>2 DEF Shows, PaymentFramesOK, PaymentFrame, WebhookFrame
<1>10. PaymentFrame(h)'
  <2>1. PrepareFrame(h)'
    BY <1>8 DEF PrepareFrame
  <2>2. WebhookFrame(h)'
    BY <1>1, <1>4, <1>8, <1>9 DEF WebhookFrame, Shows
  <2> QED  BY <2>1, <2>2 DEF PaymentFrame
<1>11. IntentsEvolve /\ MappingGrows /\ ReadsFairly
  BY DEF IntentsEvolve, MappingGrows, ReadsFairly
<1>12. PaymentFramesOK'
  BY <1>1, <1>8, <1>10, <1>11, OthersKeepPaymentFrames
<1> QED  BY <1>5, <1>6, <1>7, <1>11, <1>12, PaymentQuietStep

\* An invocation of the webhook in the middle of its work.
LEMMA WebhookHas ==
  ASSUME PaymentInv, NEW h \in Invocations,
         pc[h] \in {"lookup", "load", "recordStripe", "resolveStripe"}
  PROVE  /\ h \in Invocations
         /\ input[h] \in Snapshot
         /\ input[h].intentId \in IntentIds
         /\ input[h].snapshot \in Intent
         /\ stamp[h] \in Nat
         /\ Shows(input[h].snapshot, input[h].intentId)
         /\ pc[h] # "lookup" =>
              /\ subject[h] \in OrderIds
              /\ ~input[h].ensureMapping => intentMapping[input[h].intentId] = subject[h]
<1>1. h \in Invocations
  BY PaymentInvocations
<1>2. WebhookFrame(h)
  BY <1>1 DEF PaymentInv, PaymentFramesOK, PaymentFrame
<1> QED  BY <1>1, <1>2 DEF WebhookFrame, Snapshot

LEMMA StripeWebhookLookupKeepsInv ==
  ASSUME PaymentInv, NEW h \in Invocations, StripeWebhookLookup(h)
  PROVE  PaymentInv'
<1> USE DEF PaymentInv, PaymentTypeOK, TableTypeOK, StripeWebhookLookup, Goto, tableVars,
            paymentVars, stripeVars
<1> DEFINE i == input[h].intentId
           mapped == intentMapping[i]
           given == [input[h] EXCEPT !.ensureMapping = (mapped = Undefined)]
           o == FirstDefined(mapped, input[h].snapshot.orderId)
<1>1. /\ h \in Invocations
      /\ input[h] \in Snapshot
      /\ i \in IntentIds
      /\ input[h].snapshot \in Intent
      /\ stamp[h] \in Nat
      /\ Shows(input[h].snapshot, i)
  BY WebhookHas
<1>2. mapped \in Optional(OrderIds) /\ o \in OrderIds
  BY <1>1 DEF ItemsTypeOK, FirstDefined, Optional, Intent
<1>3. /\ given \in Snapshot
      /\ given.intentId = i
      /\ given.snapshot = input[h].snapshot
      /\ ~given.ensureMapping => intentMapping[i] = o
  <2>1. (mapped = Undefined) \in BOOLEAN
    OBVIOUS
  <2> DEFINE absent == (mapped = Undefined)
  <2>2. given = [input[h] EXCEPT !.ensureMapping = absent]
    OBVIOUS
  <2>3. ~absent => intentMapping[i] = o
    BY DEF FirstDefined
  <2> HIDE DEF absent, given, o, i
  <2> QED  BY <1>1, <2>1, <2>2, <2>3 DEF Snapshot, absent, i
<1>4. input' = [input EXCEPT ![h] = given] /\ subject' = [subject EXCEPT ![h] = o]
  BY <1>1 DEF FramesTypeOK
<1> HIDE DEF given, mapped, o, i
<1>5. ItemsTypeOK' /\ StripeTypeOK' /\ EventsShowIntents'
  BY DEF ItemsTypeOK, StripeTypeOK, EventsShowIntents
<1>6. WebhookInputsOK'
  BY <1>1, <1>3, <1>4, PaymentInvocations DEF WebhookInputsOK, FramesTypeOK
<1>7. FramesTypeOK'
  <2>1. pc' \in [Invocations -> Steps] /\ DOMAIN input' = Invocations
    BY <1>4 DEF FramesTypeOK, Steps
  <2>2. subject' \in [Invocations -> Optional(OrderIds)]
    <3>1. subject \in [Invocations -> Optional(OrderIds)]
      BY DEF FramesTypeOK
    <3>2. o \in Optional(OrderIds)
      BY <1>2 DEF Optional
    <3>3. subject' = [subject EXCEPT ![h] = o]
      BY <1>4
    <3> QED  BY ONLY <3>1, <3>2, <3>3
  <2> QED  BY <2>1, <2>2 DEF FramesTypeOK
<1>8. /\ pc'[h] = "load" /\ input'[h] = given /\ subject'[h] = o
      /\ \A g \in Invocations \ {h} :
           pc'[g] = pc[g] /\ input'[g] = input[g] /\ subject'[g] = subject[g]
  BY <1>1, <1>4 DEF FramesTypeOK
<1>9. read[h] = Undefined
  BY <1>1 DEF PaymentFramesOK, PaymentFrame, WebhookFrame
<1>10. PaymentFrame(h)'
  <2>1. PrepareFrame(h)'
    BY <1>8 DEF PrepareFrame
  <2>2. WebhookFrame(h)'
    BY <1>1, <1>2, <1>3, <1>8, <1>9 DEF WebhookFrame, Shows
  <2> QED  BY <2>1, <2>2 DEF PaymentFrame
<1>11. IntentsEvolve /\ MappingGrows
  BY DEF IntentsEvolve, MappingGrows
<1>12. PaymentFramesOK'
  BY <1>1, <1>8, <1>10, <1>11, OthersKeepPaymentFrames
<1>13. ReadsFairly
  BY <1>8, <1>9 DEF ReadsFairly
<1> QED  BY <1>5, <1>6, <1>7, <1>11, <1>12, <1>13, PaymentQuietStep

\* What the webhook decides about the order it loads.
LEMMA LoadDecides ==
  ASSUME PaymentInv, NEW h \in Invocations, pc[h] = "load",
         NEW outcome,
         outcome = ProposedOutcome(subject[h], orders[subject[h]], input[h].intentId,
                                   input[h].snapshot, stamp[h]),
         outcome # "THROWS"
  PROVE  LET o == subject[h]
             i == input[h].intentId
             next == ProposedOrder(orders[o], i, input[h].snapshot, stamp[h])
         IN /\ outcome \in StripeOutcomes
            /\ outcome = "APPLIED" => TakesIn(orders[o], next, o, i, input[h].snapshot)
            /\ outcome = "IGNORED" => /\ orders[o] \in Order
                                      /\ orders[o].payment.stripePaymentIntentId = i
                                      /\ input[h].snapshot.orderId = o
<1> DEFINE o == subject[h]
           order == orders[o]
           i == input[h].intentId
           snapshot == input[h].snapshot
           at == stamp[h]
           next == ProposedOrder(order, i, snapshot, at)
<1>1. /\ o \in OrderIds
      /\ i \in IntentIds
      /\ snapshot \in Intent
      /\ at \in Nat
  BY WebhookHas
<1>2. order \in Order \cup {Undefined}
  BY <1>1 DEF PaymentInv, PaymentTypeOK, TableTypeOK, ItemsTypeOK
<1>3. outcome = ProposedOutcome(o, order, i, snapshot, at)
  OBVIOUS
<1>4. Mismatch(o, order, i, snapshot) \/ order \in Order
  BY <1>2 DEF Mismatch
<1> HIDE DEF o, order, i, snapshot, at
<1>5. CASE Mismatch(o, order, i, snapshot)
  <2>1. outcome = "RECONCILIATION_REQUIRED"
    BY <1>3, <1>5 DEF ProposedOutcome
  <2> QED  BY <2>1 DEF StripeOutcomes
<1>6. CASE ~Mismatch(o, order, i, snapshot) /\ order.status # "AWAITING_PAYMENT"
  <2>1. outcome = IF /\ order.payment.status = snapshot.status
                     /\ order.payment.stripePaymentIntentId = i
                  THEN "IGNORED" ELSE "RECONCILIATION_REQUIRED"
    BY <1>3, <1>6 DEF ProposedOutcome
  <2>2. snapshot.orderId = o
    BY <1>6 DEF Mismatch
  <2> QED  BY <1>4, <1>6, <2>1, <2>2 DEF StripeOutcomes, o, order, i, snapshot
<1>7. CASE ~Mismatch(o, order, i, snapshot) /\ order.status = "AWAITING_PAYMENT"
  <2>1. outcome = IF next = order THEN "IGNORED" ELSE "APPLIED"
    BY <1>3, <1>7 DEF ProposedOutcome
  <2>2. /\ next = order => order.payment.stripePaymentIntentId = i
        /\ next # order => TakesIn(order, next, o, i, snapshot)
    BY <1>1, <1>4, <1>7, ProposedOrderTakesIn
  <2> HIDE DEF next
  <2>3. /\ outcome \in StripeOutcomes
        /\ outcome = "APPLIED" => TakesIn(order, next, o, i, snapshot)
        /\ outcome = "IGNORED" =>
             order \in Order /\ order.payment.stripePaymentIntentId = i /\ snapshot.orderId = o
    <3>1. snapshot.orderId = o
      BY <1>7 DEF Mismatch
    <3> QED  BY <1>4, <1>7, <2>1, <2>2, <3>1 DEF StripeOutcomes
  <2> QED  BY <2>3 DEF next, o, order, i, snapshot, at
<1> QED  BY <1>5, <1>6, <1>7

LEMMA StripeWebhookLoadKeepsInv ==
  ASSUME PaymentInv, NEW h \in Invocations, StripeWebhookLoad(h)
  PROVE  PaymentInv'
<1> USE DEF PaymentInv, PaymentTypeOK, TableTypeOK, StripeWebhookLoad, Goto, tableVars,
            paymentVars, stripeVars
<1> DEFINE o == subject[h]
           i == input[h].intentId
           outcome == ProposedOutcome(o, orders[o], i, input[h].snapshot, stamp[h])
           next == ProposedOrder(orders[o], i, input[h].snapshot, stamp[h])
           after == IF outcome = "APPLIED" THEN next ELSE orders[o]
           given == [input[h] EXCEPT !.verdict = outcome]
<1>1. /\ h \in Invocations
      /\ pc[h] = "load"
      /\ input[h] \in Snapshot
      /\ i \in IntentIds
      /\ input[h].snapshot \in Intent
      /\ stamp[h] \in Nat
      /\ Shows(input[h].snapshot, i)
      /\ o \in OrderIds
      /\ ~input[h].ensureMapping => intentMapping[i] = o
  BY WebhookHas
<1>2. /\ ItemsTypeOK' /\ StripeTypeOK' /\ EventsShowIntents'
      /\ IntentsEvolve /\ MappingGrows
      /\ UNCHANGED <<orders, intentMapping, intents, secretReleased>>
  BY DEF ItemsTypeOK, StripeTypeOK, EventsShowIntents, IntentsEvolve, MappingGrows
<1>3. CASE outcome = "THROWS"
  <2>1. Return(h)
    BY <1>3
  <2>2. WebhookInputsOK' /\ FramesTypeOK' /\ PaymentFramesOK' /\ ReadsFairly
    BY <1>1, <1>2, <2>1, ReturnKeepsWebhookInputs, ReturnKeepsPaymentFrames
  <2> QED  BY <1>2, <2>2, PaymentQuietStep
<1>4. CASE outcome # "THROWS"
  <2>1. /\ outcome \in StripeOutcomes
        /\ outcome = "APPLIED" => TakesIn(orders[o], next, o, i, input[h].snapshot)
        /\ outcome = "IGNORED" => /\ orders[o] \in Order
                                  /\ orders[o].payment.stripePaymentIntentId = i
                                  /\ input[h].snapshot.orderId = o
    BY <1>1, <1>4, LoadDecides
  <2>2. /\ read' = [read EXCEPT ![h] = orders[o]]
        /\ proposed' = [proposed EXCEPT ![h] = after]
        /\ input' = [input EXCEPT ![h] = given]
        /\ pc' = [pc EXCEPT ![h] = "recordStripe"]
        /\ UNCHANGED <<subject, stamp, attempt>>
    BY <1>1, <1>4 DEF FramesTypeOK
  <2>3. orders[o] \in Order \cup {Undefined}
    BY <1>1 DEF ItemsTypeOK
  <2> HIDE DEF outcome, next
  <2>4. after \in Order \cup {Undefined}
    BY <2>1, <2>3 DEF TakesIn
  <2>5. /\ given \in Snapshot
        /\ given.intentId = i
        /\ given.snapshot = input[h].snapshot
        /\ given.ensureMapping = input[h].ensureMapping
        /\ given.verdict = outcome
    BY <1>1, <2>1 DEF Snapshot, Optional
  <2>6. /\ outcome = "APPLIED" => after = next
        /\ outcome # "APPLIED" => after = orders[o]
    OBVIOUS
  <2> HIDE DEF given, after
  <2>7. /\ pc'[h] = "recordStripe" /\ read'[h] = orders[o] /\ proposed'[h] = after
        /\ input'[h] = given /\ subject'[h] = o /\ stamp'[h] = stamp[h]
        /\ \A g \in Invocations \ {h} :
             /\ pc'[g] = pc[g]
             /\ read'[g] = read[g]
             /\ proposed'[g] = proposed[g]
             /\ input'[g] = input[g]
    BY <1>1, <2>2 DEF FramesTypeOK
  <2>8. WebhookInputsOK'
    BY <1>1, <2>2, <2>5, PaymentInvocations DEF WebhookInputsOK, FramesTypeOK
  <2>9. FramesTypeOK'
    <3>1. /\ pc' \in [Invocations -> Steps]
          /\ DOMAIN input' = Invocations
      <4>1. pc \in [Invocations -> Steps] /\ DOMAIN input = Invocations
        BY DEF FramesTypeOK
      <4>2. "recordStripe" \in Steps
        BY DEF Steps, WriteSteps
      <4> QED  BY ONLY <2>2, <4>1, <4>2
    <3>2. read' \in [Invocations -> Order \cup {Undefined}]
      BY <2>2, <2>3 DEF FramesTypeOK
    <3>3. proposed' \in [Invocations -> Order \cup {Undefined}]
      BY <2>2, <2>4 DEF FramesTypeOK
    <3> QED  BY <2>2, <3>1, <3>2, <3>3 DEF FramesTypeOK
  <2>10. PaymentFrame(h)'
    <3>1. PrepareFrame(h)'
      BY <2>7 DEF PrepareFrame
    <3>2. outcome = "APPLIED" => TakesIn(orders[o], after, o, i, input[h].snapshot)
      BY <2>1, <2>6
    <3>3. WebhookFrame(h)'
      <4> HIDE DEF o, i
      <4>1. Shows(input[h].snapshot, input[h].intentId)'
        BY <1>1, <1>2, <2>5, <2>7 DEF Shows
      <4>2. ~input'[h].ensureMapping => intentMapping'[input'[h].intentId] = subject'[h]
        BY <1>1, <1>2, <2>5, <2>7
      <4>3. input'[h].verdict = "APPLIED" =>
              TakesIn(read'[h], proposed'[h], subject'[h], input'[h].intentId,
                      input'[h].snapshot)
        BY <2>5, <2>7, <3>2
      <4>4. /\ input'[h].verdict # "APPLIED" => proposed'[h] = read'[h]
            /\ input'[h].verdict = "IGNORED" =>
                 /\ read'[h] \in Order
                 /\ read'[h].payment.stripePaymentIntentId = input'[h].intentId
                 /\ input'[h].snapshot.orderId = subject'[h]
        BY <2>1, <2>5, <2>6, <2>7
      <4>5. TakesIn(read[h], proposed[h], subject[h], input[h].intentId, input[h].snapshot)' =
              TakesIn(read'[h], proposed'[h], subject'[h], input'[h].intentId,
                      input'[h].snapshot)
        BY DEF TakesIn, StatusFor
      <4> QED  BY <1>1, <2>1, <2>5, <2>7, <4>1, <4>2, <4>3, <4>4, <4>5 DEF WebhookFrame
    <3> QED  BY <3>1, <3>3 DEF PaymentFrame
  <2>11. PaymentFramesOK'
    BY <1>1, <1>2, <2>2, <2>7, <2>10, OthersKeepPaymentFrames
  <2>12. ReadsFairly
    BY <1>1, <1>2, <2>2, <2>7 DEF ReadsFairly
  <2> QED  BY <1>2, <2>8, <2>9, <2>11, <2>12, PaymentQuietStep
<1> QED  BY <1>3, <1>4

LEMMA StripeWebhookRecordKeepsInv ==
  ASSUME PaymentInv, NEW h \in Invocations, StripeWebhookRecord(h)
  PROVE  PaymentInv'
<1> USE DEF PaymentInv, PaymentTypeOK, TableTypeOK, tableVars, paymentVars, stripeVars
<1> DEFINE o == subject[h]
           i == input[h].intentId
           e == input[h].eventId
           before == read[h]
           after == proposed[h]
           verdict == input[h].verdict
<1>1. /\ h \in Invocations
      /\ input[h] \in Snapshot
      /\ i \in IntentIds
      /\ Shows(input[h].snapshot, i)
      /\ o \in OrderIds
      /\ ~input[h].ensureMapping => intentMapping[i] = o
  BY WebhookHas DEF StripeWebhookRecord
<1>2. /\ verdict \in StripeOutcomes
      /\ verdict = "APPLIED" => TakesIn(before, after, o, i, input[h].snapshot)
      /\ verdict # "APPLIED" => after = before
      /\ verdict = "IGNORED" => before \in Order /\ before.payment.stripePaymentIntentId = i
  BY <1>1 DEF StripeWebhookRecord, PaymentFramesOK, PaymentFrame, WebhookFrame
<1>3. e \in StripeEventIds
  BY <1>1 DEF Snapshot
<1>4. /\ Return(h)
      /\ UNCHANGED <<clock, crashes, paymentVars, providerMapping>>
      /\ StripeOrderUnchanged(o, before)
      /\ MapIntent(h) => intentMapping[i] = Undefined
      /\ orders' = [orders EXCEPT ![o] = after]
      /\ intentMapping' =
           IF MapIntent(h) THEN [intentMapping EXCEPT ![i] = o] ELSE intentMapping
      /\ stripeEvents' = [stripeEvents EXCEPT ![e] = verdict]
  BY DEF StripeWebhookRecord, RecordStripeWebhook, StripeWebhookCommits
<1>5. MapIntent(h) <=> input[h].ensureMapping /\ verdict # "RECONCILIATION_REQUIRED"
  BY DEF MapIntent
<1>6. before \in Order \cup {Undefined} /\ after \in Order \cup {Undefined}
  BY <1>1 DEF FramesTypeOK
<1>7. orders[o] = before
  <2>1. CASE before = Undefined
    BY <1>4, <2>1 DEF StripeOrderUnchanged
  <2>2. CASE before # Undefined
    BY <1>1, <1>4, <2>2 DEF StripeOrderUnchanged, VersionIs, SnapshotsCurrentOrOlder
  <2> QED  BY <2>1, <2>2
<1>8. Shows(input[h].snapshot, i)
  BY <1>1
<1> HIDE DEF o, i, e, before, after, verdict
<1>9. ItemsTypeOK'
  <2>1. orders' \in [OrderIds -> Order \cup {Undefined}]
    BY <1>1, <1>4, <1>6 DEF ItemsTypeOK
  <2>2. intentMapping' \in [IntentIds -> Optional(OrderIds)]
    BY <1>1, <1>4 DEF ItemsTypeOK, Optional
  <2>3. stripeEvents' \in [StripeEventIds -> Optional(StripeOutcomes)]
    BY <1>2, <1>3, <1>4 DEF ItemsTypeOK, Optional
  <2> QED  BY <1>4, <2>1, <2>2, <2>3 DEF ItemsTypeOK
<1>10. StripeTypeOK' /\ EventsShowIntents' /\ IntentsEvolve
  BY <1>4 DEF StripeTypeOK, EventsShowIntents, IntentsEvolve
<1>11. MappingGrows
  BY <1>4 DEF MappingGrows, ItemsTypeOK
<1>12. WebhookInputsOK' /\ FramesTypeOK' /\ PaymentFramesOK' /\ ReadsFairly
  BY <1>1, <1>4, <1>10, <1>11, ReturnKeepsWebhookInputs, ReturnKeepsPaymentFrames
<1>13. CASE verdict = "APPLIED"
  <2> DEFINE shown == input[h].snapshot
  <2>1. TakesIn(before, after, o, i, shown)
    BY <1>2, <1>13
  <2>2. Shows(shown, i)
    BY <1>8
  <2> HIDE DEF shown
  <2>3. after \in Order /\ after.payment.stripePaymentIntentId = i
    BY <2>1 DEF TakesIn
  <2>4. orders[o] # Undefined =>
          /\ after.version = orders[o].version + 1
          /\ orders[o].payment.stripePaymentIntentId \in
               {Undefined, after.payment.stripePaymentIntentId}
    BY <1>7, <2>1, <2>3 DEF TakesIn
  <2>5. \A j \in IntentIds :
          IF j = after.payment.stripePaymentIntentId
          THEN intentMapping[j] \in {Undefined, o} /\ intentMapping'[j] = o
          ELSE intentMapping'[j] = intentMapping[j]
    <3>1. intentMapping \in [IntentIds -> Optional(OrderIds)]
      BY DEF ItemsTypeOK
    <3>2. CASE MapIntent(h)
      BY <1>1, <1>4, <2>3, <3>1, <3>2
    <3>3. CASE ~MapIntent(h)
      <4>1. intentMapping[i] = o
        BY <1>1, <1>5, <1>13, <3>3 DEF i, o
      <4> QED  BY <1>4, <2>3, <3>3, <4>1
    <3> QED  BY <3>2, <3>3
  <2>7. after.payment.status = "SUCCEEDED" =>
          LET k == after.payment.stripePaymentIntentId
          IN /\ k \in IntentIds
             /\ intents[k] \in Intent
             /\ intents[k].status = "SUCCEEDED"
             /\ intents[k].matches
             /\ intents[k].automatic
    BY <1>1, <2>1, <2>2, <2>3 DEF TakesIn, Shows, TerminalPaymentStatus
  <2>8. \A k \in secretReleased' \ secretReleased : k = after.payment.stripePaymentIntentId
    BY <1>4
  <2>9. UNCHANGED <<intents, emitted>>
    BY <1>4
  <2>10. orders' = [orders EXCEPT ![o] = after]
    BY <1>4
  <2>11. PaymentTypeOK' /\ PaymentFramesOK' /\ ReadsFairly
    BY <1>9, <1>10, <1>12
  <2>12. o \in OrderIds
    BY <1>1
  <2> QED
    BY <2>3, <2>4, <2>5, <2>7, <2>8, <2>9, <2>10, <2>11, <2>12, PaymentCommitStep
<1>14. CASE verdict # "APPLIED"
  <2>1. orders' = orders
    BY <1>1, <1>2, <1>4, <1>7, <1>14 DEF ItemsTypeOK
  <2>2. ~MapIntent(h)
    <3> SUFFICES ASSUME MapIntent(h)
                 PROVE  FALSE
      OBVIOUS
    <3>1. verdict = "IGNORED"
      BY <1>2, <1>5, <1>14 DEF StripeOutcomes
    <3>2. before # Undefined
      BY <1>2, <3>1, UndefinedIsNoRecord
    <3>3. intentMapping[i] = o
      BY <1>1, <1>2, <1>7, <3>1, <3>2 DEF IntentLookupAgrees
    <3> QED  BY <1>1, <1>4, <3>3, UndefinedIsNoOrderId
  <2>3. intentMapping' = intentMapping /\ secretReleased' = secretReleased
    BY <1>4, <2>2
  <2> QED  BY <1>9, <1>10, <1>12, <2>1, <2>3, PaymentQuietStep
<1> QED  BY <1>13, <1>14

LEMMA StripeWebhookRecordCancelledKeepsInv ==
  ASSUME PaymentInv, NEW h \in Invocations, StripeWebhookRecordCancelled(h)
  PROVE  PaymentInv'
<1> USE DEF PaymentInv, PaymentTypeOK, TableTypeOK, tableVars, paymentVars, stripeVars
<1>1. /\ pc[h] = "recordStripe"
      /\ pc' = [pc EXCEPT ![h] = "resolveStripe"]
      /\ UNCHANGED <<tableVars, clock, crashes, subject, input, stamp, read, proposed,
                     attempt, paymentVars>>
  BY DEF StripeWebhookRecordCancelled, Goto
<1>2. h \in Invocations /\ WebhookFrame(h)
  BY PaymentInvocations DEF PaymentFramesOK, PaymentFrame
<1>3. ItemsTypeOK' /\ StripeTypeOK' /\ EventsShowIntents' /\ WebhookInputsOK'
  BY <1>1 DEF ItemsTypeOK, StripeTypeOK, EventsShowIntents, WebhookInputsOK
<1>4. FramesTypeOK'
  BY <1>1 DEF FramesTypeOK, Steps
<1>5. IntentsEvolve /\ MappingGrows /\ ReadsFairly
  BY <1>1 DEF IntentsEvolve, MappingGrows, ReadsFairly
<1>6. pc'[h] = "resolveStripe" /\ \A g \in Invocations \ {h} : pc'[g] = pc[g]
  BY <1>1, <1>2 DEF FramesTypeOK
<1>7. PaymentFrame(h)'
  <2>1. PrepareFrame(h)'
    BY <1>6 DEF PrepareFrame
  <2>2. WebhookFrame(h)'
    BY <1>1, <1>2, <1>6 DEF WebhookFrame, Shows
  <2> QED  BY <2>1, <2>2 DEF PaymentFrame
<1>8. PaymentFramesOK'
  BY <1>1, <1>2, <1>5, <1>6, <1>7, OthersKeepPaymentFrames
<1> QED  BY <1>1, <1>3, <1>4, <1>5, <1>8, PaymentQuietStep

LEMMA StripeWebhookResolveKeepsInv ==
  ASSUME PaymentInv, NEW h \in Invocations, StripeWebhookResolve(h)
  PROVE  PaymentInv'
<1> USE DEF PaymentInv, PaymentTypeOK, TableTypeOK, tableVars, paymentVars, stripeVars
<1>1. UNCHANGED <<tableVars, clock, crashes, paymentVars>>
  BY DEF StripeWebhookResolve
<1>2. h \in Invocations /\ WebhookFrame(h) /\ pc[h] = "resolveStripe"
  BY PaymentInvocations DEF PaymentFramesOK, PaymentFrame, StripeWebhookResolve
<1>3. ItemsTypeOK' /\ StripeTypeOK' /\ EventsShowIntents' /\ IntentsEvolve /\ MappingGrows
  BY <1>1 DEF ItemsTypeOK, StripeTypeOK, EventsShowIntents, IntentsEvolve, MappingGrows
<1>4. CASE Return(h)
  <2>1. WebhookInputsOK' /\ FramesTypeOK' /\ PaymentFramesOK' /\ ReadsFairly
    BY <1>2, <1>3, <1>4, ReturnKeepsWebhookInputs, ReturnKeepsPaymentFrames
  <2> QED  BY <1>1, <1>3, <2>1, PaymentQuietStep
<1>5. CASE ~Return(h)
  <2>1. /\ AttemptsLeft(h)
        /\ attempt' = [attempt EXCEPT ![h] = @ + 1]
        /\ read' = [read EXCEPT ![h] = Undefined]
        /\ proposed' = [proposed EXCEPT ![h] = Undefined]
        /\ pc' = [pc EXCEPT ![h] = "lookup"]
        /\ UNCHANGED <<subject, input, stamp>>
    BY <1>5 DEF StripeWebhookResolve, Goto
  <2>2. FramesTypeOK'
    <3>1. pc' \in [Invocations -> Steps]
      BY <2>1 DEF FramesTypeOK, Steps
    <3>2. /\ read' \in [Invocations -> Order \cup {Undefined}]
          /\ proposed' \in [Invocations -> Order \cup {Undefined}]
      BY <2>1 DEF FramesTypeOK
    <3>3. attempt' \in [Invocations -> 0..MaxConcurrentWriteAttempts]
      <4>1. attempt \in [Invocations -> 0..3] /\ attempt[h] \in 0..3 /\ attempt[h] < 3
        BY <1>2, <2>1 DEF FramesTypeOK, MaxConcurrentWriteAttempts, AttemptsLeft
      <4>2. attempt[h] + 1 \in 0..3
        BY <4>1
      <4>3. attempt' = [attempt EXCEPT ![h] = attempt[h] + 1]
        BY <2>1, <4>1
      <4>4. attempt' \in [Invocations -> 0..3]
        BY <4>1, <4>2, <4>3
      <4> QED  BY <4>4 DEF MaxConcurrentWriteAttempts
    <3> QED  BY <2>1, <3>1, <3>2, <3>3 DEF FramesTypeOK
  <2>3. /\ pc'[h] = "lookup" /\ read'[h] = Undefined
        /\ \A g \in Invocations \ {h} :
             pc'[g] = pc[g] /\ read'[g] = read[g] /\ proposed'[g] = proposed[g]
    BY <1>2, <2>1 DEF FramesTypeOK
  <2>4. PaymentFrame(h)'
    <3>1. PrepareFrame(h)'
      BY <2>3 DEF PrepareFrame
    <3>2. WebhookFrame(h)'
      BY <1>1, <1>2, <2>1, <2>3 DEF WebhookFrame, Shows
    <3> QED  BY <3>1, <3>2 DEF PaymentFrame
  <2>5. PaymentFramesOK'
    BY <1>2, <1>3, <2>1, <2>3, <2>4, OthersKeepPaymentFrames
  <2>6. ReadsFairly
    BY <2>1, <2>3 DEF ReadsFairly
  <2>7. WebhookInputsOK'
    BY <2>1 DEF WebhookInputsOK
  <2> QED  BY <1>1, <1>3, <2>2, <2>5, <2>6, <2>7, PaymentQuietStep
<1> QED  BY <1>4, <1>5

(***************************************************************************)
(* All steps.                                                              *)
(***************************************************************************)

\* Time passes, an invocation dies, or nothing happens.
LEMMA PaymentOtherStepKeepsInv ==
  ASSUME PaymentInv,
         \/ Tick /\ UNCHANGED paymentVars
         \/ \E h \in Invocations : Crash(h) /\ UNCHANGED paymentVars
         \/ UNCHANGED allPaymentVars
  PROVE  PaymentInv'
<1> USE DEF PaymentInv, PaymentTypeOK, TableTypeOK, tableVars, frameVars, baseVars,
            paymentVars, stripeVars, allPaymentVars
<1>1. /\ UNCHANGED <<tableVars, paymentVars>>
      /\ ItemsTypeOK'
      /\ StripeTypeOK'
      /\ EventsShowIntents'
  BY DEF Tick, Crash, ItemsTypeOK, StripeTypeOK, EventsShowIntents
<1>2. IntentsEvolve /\ MappingGrows
  BY <1>1 DEF IntentsEvolve, MappingGrows
<1>3. CASE UNCHANGED frameVars
  <2>1. FramesTypeOK' /\ WebhookInputsOK' /\ ReadsFairly
    BY <1>3 DEF FramesTypeOK, WebhookInputsOK, ReadsFairly
  <2>2. PaymentFramesOK'
    BY <1>2, <1>3, PaymentFrameStays DEF PaymentFramesOK
  <2> QED  BY <1>1, <1>2, <2>1, <2>2, PaymentQuietStep
<1>4. CASE \E h \in Invocations : Crash(h)
  <2>1. PICK h \in Invocations : Return(h)
    BY <1>4 DEF Crash
  <2>2. WebhookInputsOK' /\ FramesTypeOK' /\ PaymentFramesOK' /\ ReadsFairly
    BY <1>2, <2>1, ReturnKeepsWebhookInputs, ReturnKeepsPaymentFrames
  <2> QED  BY <1>1, <1>2, <2>2, PaymentQuietStep
<1> QED  BY <1>3, <1>4 DEF Tick

LEMMA PaymentStepKeepsInv ==
  ASSUME PaymentInv, [PaymentNext]_allPaymentVars
  PROVE  PaymentInv'
<1>1. CASE Stripe
  BY <1>1, StripeKeepsInv
<1>2. ASSUME NEW o \in OrderIds, CreateOrder(o)
      PROVE  PaymentInv'
  BY <1>2, CreateOrderKeepsInv
<1>3. ASSUME NEW h \in PrepareInvocations, PrepareStep(h)
      PROVE  PaymentInv'
  BY <1>3, PrepareStepKeepsInv
<1>4. ASSUME NEW h \in PrepareInvocations, NEW o \in OrderIds, PrepareGet(h, o)
      PROVE  PaymentInv'
  BY <1>4, PrepareGetKeepsInv
<1>5. ASSUME NEW h \in StripeWebhookInvocations, StripeWebhookStep(h)
      PROVE  PaymentInv'
  BY <1>5, PaymentInvocations, StripeWebhookLookupKeepsInv, StripeWebhookLoadKeepsInv,
     StripeWebhookRecordKeepsInv, StripeWebhookRecordCancelledKeepsInv,
     StripeWebhookResolveKeepsInv DEF StripeWebhookStep
<1>6. ASSUME NEW h \in StripeWebhookInvocations, NEW e \in StripeEventIds,
             StripeWebhookRetrieve(h, e)
      PROVE  PaymentInv'
  BY <1>6, PaymentInvocations, StripeWebhookRetrieveKeepsInv
<1>7. CASE \/ Tick /\ UNCHANGED paymentVars
           \/ \E h \in Invocations : Crash(h) /\ UNCHANGED paymentVars
           \/ UNCHANGED allPaymentVars
  BY <1>7, PaymentOtherStepKeepsInv
<1> QED  BY <1>1, <1>2, <1>3, <1>4, <1>5, <1>6, <1>7 DEF PaymentNext, PaymentStep

(***************************************************************************)
(* What becomes of an order.                                               *)
(***************************************************************************)

\* The payment of an order that waits for it moves on, and the order with it.
PaysFor(before, after) ==
  /\ before.status = "AWAITING_PAYMENT"
  /\ after.version = before.version + 1
  /\ after.deliveryProviderOrderId = before.deliveryProviderOrderId
  /\ after.acceptedAt = before.acceptedAt
  /\ after.status = StatusFor(after.payment.status)

PaymentCommits(o, after) ==
  /\ orders' = [orders EXCEPT ![o] = after]
  /\ \/ orders[o] = Undefined /\ after = NewOrder(clock)
     \/ orders[o] \in Order /\ PaysFor(orders[o], after)

LEMMA PrepareBindCommits ==
  ASSUME PaymentInv, NEW h \in PrepareInvocations, PrepareBind(h)
  PROVE  \E o \in OrderIds, after \in Order : PaymentCommits(o, after)
<1> DEFINE o == subject[h]
           after == proposed[h]
<1>1. PrepareFrame(h) /\ h \in Invocations /\ pc[h] = "bind"
  BY PaymentInvocations DEF PaymentInv, PaymentFramesOK, PaymentFrame, PrepareBind
<1>2. /\ o \in OrderIds
      /\ read[h] \in Order
      /\ after \in Order
  BY <1>1 DEF PrepareFrame
<1>3. /\ orders[o] # Undefined
      /\ orders[o].version = read[h].version
      /\ orders' = [orders EXCEPT ![o] = after]
  BY DEF PrepareBind, BindStripePaymentIntent, BindCommits, VersionIs
<1>4. orders[o] = read[h]
  BY <1>1, <1>2, <1>3, UndefinedIsNoRecord DEF PaymentInv, SnapshotsCurrentOrOlder
<1>5. PaysFor(read[h], after)
  BY <1>1 DEF PrepareFrame, PaysFor, StatusFor
<1> QED  BY <1>2, <1>3, <1>4, <1>5 DEF PaymentCommits

LEMMA StripeWebhookRecordCommits ==
  ASSUME PaymentInv, NEW h \in Invocations, StripeWebhookRecord(h)
  PROVE  \/ orders' = orders
         \/ \E o \in OrderIds, after \in Order : PaymentCommits(o, after)
<1> DEFINE o == subject[h]
           after == proposed[h]
<1>1. WebhookFrame(h) /\ h \in Invocations /\ pc[h] = "recordStripe"
  BY PaymentInvocations DEF PaymentInv, PaymentFramesOK, PaymentFrame, StripeWebhookRecord
<1>2. /\ orders' = [orders EXCEPT ![o] = after]
      /\ StripeOrderUnchanged(o, read[h])
  BY DEF StripeWebhookRecord, RecordStripeWebhook, StripeWebhookCommits
<1>3. o \in OrderIds
  BY <1>1 DEF WebhookFrame
<1>4. orders[o] = read[h]
  BY <1>1, <1>2 DEF PaymentInv, SnapshotsCurrentOrOlder, StripeOrderUnchanged, VersionIs
<1>5. CASE input[h].verdict = "APPLIED"
  <2>1. TakesIn(read[h], after, o, input[h].intentId, input[h].snapshot)
    BY <1>1, <1>5 DEF WebhookFrame
  <2>2. PaysFor(read[h], after) /\ after \in Order /\ read[h] \in Order
    BY <2>1 DEF TakesIn, PaysFor
  <2> QED  BY <1>2, <1>3, <1>4, <2>2 DEF PaymentCommits
<1>6. CASE input[h].verdict # "APPLIED"
  <2>1. after = orders[o]
    BY <1>1, <1>4, <1>6 DEF WebhookFrame
  <2> QED
    BY <1>2, <1>3, <2>1 DEF PaymentInv, PaymentTypeOK, TableTypeOK, ItemsTypeOK
<1> QED  BY <1>5, <1>6

\* Orders appear as createOrder builds them, and payment touches those that
\* wait for it and no others.
LEMMA PaymentMovesOrders ==
  ASSUME PaymentInv, PaymentStep
  PROVE  \/ orders' = orders
         \/ \E o \in OrderIds, after \in Order : PaymentCommits(o, after)
<1>1. CASE Stripe
  BY <1>1 DEF Stripe, ForeignIntent, StripeAnnounce, StripeAdvance, baseVars, tableVars
<1>2. ASSUME NEW o \in OrderIds, CreateOrder(o)
      PROVE  \E q \in OrderIds, after \in Order : PaymentCommits(q, after)
  <2>1. NewOrder(clock) \in Order
    BY NewOrderIsOrder DEF PaymentInv, PaymentTypeOK, TableTypeOK, ItemsTypeOK
  <2>2. PaymentCommits(o, NewOrder(clock))
    BY <1>2 DEF CreateOrder, CreateOrderItem, PaymentCommits
  <2> QED  BY <2>1, <2>2
<1>3. ASSUME NEW h \in PrepareInvocations, PrepareStep(h), ~PrepareBind(h)
      PROVE  orders' = orders
  BY <1>3 DEF PrepareStep, PrepareCreate, PrepareCreateLost, PrepareBindCancelled,
              PrepareBindConflict, PrepareResolveBinding, PrepareRetrieve, tableVars
<1>4. ASSUME NEW h \in PrepareInvocations, NEW o \in OrderIds, PrepareGet(h, o)
      PROVE  orders' = orders
  BY <1>4 DEF PrepareGet, tableVars
<1>5. ASSUME NEW h \in StripeWebhookInvocations, StripeWebhookStep(h), ~StripeWebhookRecord(h)
      PROVE  orders' = orders
  BY <1>5 DEF StripeWebhookStep, StripeWebhookLookup, StripeWebhookLoad,
              StripeWebhookRecordCancelled, StripeWebhookResolve, tableVars
<1>6. ASSUME NEW h \in StripeWebhookInvocations, NEW e \in StripeEventIds,
             StripeWebhookRetrieve(h, e)
      PROVE  orders' = orders
  BY <1>6 DEF StripeWebhookRetrieve, tableVars
<1> QED
  BY PaymentInvocations, <1>1, <1>2, <1>3, <1>4, <1>5, <1>6, PrepareBindCommits, StripeWebhookRecordCommits
  DEF PaymentStep

LEMMA CommitFollowsPayment ==
  ASSUME PaymentInv, StatusFollowsPayment, NEW o \in OrderIds, NEW after \in Order,
         PaymentCommits(o, after)
  PROVE  StatusFollowsPayment'
<1>1. after.status = StatusFor(after.payment.status)
  <2>1. CASE after = NewOrder(clock)
    BY <2>1 DEF NewOrder, StatusFor
  <2>2. CASE PaysFor(orders[o], after)
    BY <2>2 DEF PaysFor
  <2> QED  BY <2>1, <2>2 DEF PaymentCommits
<1>2. orders'[o] = after /\ \A q \in OrderIds \ {o} : orders'[q] = orders[q]
  BY DEF PaymentCommits, PaymentInv, PaymentTypeOK, TableTypeOK, ItemsTypeOK
<1> SUFFICES ASSUME NEW q \in OrderIds, orders'[q] # Undefined
             PROVE  /\ (orders'[q].payment.status = "SUCCEEDED")
                          <=> (orders'[q].status = "PENDING_SUBMISSION")
                    /\ (orders'[q].payment.status = "CANCELLED")
                          <=> (orders'[q].status = "CANCELLED")
  BY DEF StatusFollowsPayment
<1>3. CASE q = o
  BY <1>1, <1>2, <1>3 DEF StatusFor
<1>4. CASE q # o
  BY <1>2, <1>4 DEF StatusFollowsPayment
<1> QED  BY <1>3, <1>4

LEMMA StatusKeepsFollowing ==
  ASSUME PaymentInv, StatusFollowsPayment, [PaymentNext]_allPaymentVars
  PROVE  StatusFollowsPayment'
<1>1. CASE PaymentStep
  BY <1>1, PaymentMovesOrders, CommitFollowsPayment DEF StatusFollowsPayment
<1>2. CASE \/ Tick /\ UNCHANGED paymentVars
           \/ \E h \in Invocations : Crash(h) /\ UNCHANGED paymentVars
           \/ UNCHANGED allPaymentVars
  <2>1. orders' = orders
    BY <1>2 DEF Tick, Crash, allPaymentVars, baseVars, tableVars
  <2> QED  BY <2>1 DEF StatusFollowsPayment
<1> QED  BY <1>1, <1>2 DEF PaymentNext

(***************************************************************************)
(* What payment leaves alone, for those who share its table.               *)
(***************************************************************************)
PaymentSteps ==
  { "create", "bind", "resolveBinding", "retrieve", "lookup", "load", "recordStripe",
    "resolveStripe" }

Pays(g) ==
  /\ g \in PrepareInvocations \cup StripeWebhookInvocations
  /\ pc'[g] \in PaymentSteps \cup {"idle"}
  /\ \/ read'[g] \in {Undefined, read[g]}
     \/ \E o \in OrderIds : read'[g] = orders[o]

\* Payment writes neither the provider's lookup nor a marker of the
\* provider's webhook, and moves no invocation but its own.
LEMMA PaymentTouchesOwn ==
  ASSUME PaymentInv, PaymentStep
  PROVE  /\ providerMapping' = providerMapping
         /\ providerEvents' = providerEvents
         /\ clock' = clock
         /\ \A g \in Invocations : KeepsMemory(g) \/ Pays(g)
<1> USE DEF PaymentInv, PaymentTypeOK, TableTypeOK, FramesTypeOK, tableVars, Goto
<1>1. ASSUME Stripe \/ \E o \in OrderIds : CreateOrder(o)
      PROVE  /\ UNCHANGED <<providerMapping, providerEvents, clock>>
             /\ \A g \in Invocations : KeepsMemory(g) \/ Pays(g)
  BY <1>1 DEF Stripe, ForeignIntent, StripeAnnounce, StripeAdvance, CreateOrder, CreateOrderItem,
              KeepsMemory, baseVars, frameVars
<1>2. ASSUME NEW h \in PrepareInvocations, PrepareStep(h) \/ \E o \in OrderIds : PrepareGet(h, o)
      PROVE  /\ UNCHANGED <<providerMapping, providerEvents, clock>>
             /\ \A g \in Invocations : KeepsMemory(g) \/ Pays(g)
  <2>0. h \in Invocations /\ PrepareFrame(h)
    BY PaymentInvocations DEF PaymentFramesOK, PaymentFrame
  <2>1. CASE Return(h) /\ UNCHANGED <<providerMapping, providerEvents, clock>>
    BY <2>0, <2>1, ReturnTouchesOne DEF Pays
  <2>2. ASSUME NEW o \in OrderIds, PrepareGet(h, o)
        PROVE  /\ UNCHANGED <<providerMapping, providerEvents, clock>>
               /\ \A g \in Invocations : KeepsMemory(g) \/ Pays(g)
    BY <2>0, <2>2 DEF PrepareGet, KeepsMemory, Pays, PaymentSteps
  <2>3. ASSUME NEW i \in IntentIds, PrepareCreate(h, i)
        PROVE  /\ UNCHANGED <<providerMapping, providerEvents, clock>>
               /\ \A g \in Invocations : KeepsMemory(g) \/ Pays(g)
    <3>1. /\ pc' = [pc EXCEPT ![h] = "bind"]
          /\ \A g \in Invocations \ {h} : proposed'[g] = proposed[g]
          /\ UNCHANGED <<providerMapping, providerEvents, clock, subject, input, stamp, read>>
      BY <2>3 DEF PrepareCreate
    <3> QED  BY <2>0, <3>1 DEF KeepsMemory, Pays, PaymentSteps
  <2>4. CASE PrepareBindCancelled(h)
    BY <2>0, <2>4 DEF PrepareBindCancelled, KeepsMemory, Pays, PaymentSteps
  <2>5. CASE PrepareResolveBinding(h) /\ ~Return(h)
    <3>1. subject[h] \in OrderIds
      BY <2>0, <2>5 DEF PrepareFrame, PrepareResolveBinding
    <3>2. /\ pc' = [pc EXCEPT ![h] = "retrieve"]
          /\ read' = [read EXCEPT ![h] = orders[subject[h]]]
          /\ UNCHANGED <<subject, input, stamp, proposed>>
          /\ UNCHANGED <<providerMapping, providerEvents, clock>>
      BY <2>5 DEF PrepareResolveBinding
    <3> QED  BY <2>0, <3>1, <3>2 DEF KeepsMemory, Pays, PaymentSteps
  <2>6. ASSUME NEW i \in IntentIds, PrepareCreateLost(h, i)
        PROVE  Return(h) /\ UNCHANGED <<providerMapping, providerEvents, clock>>
    BY <2>6 DEF PrepareCreateLost
  <2>7. ASSUME \/ PrepareBind(h) \/ PrepareBindConflict(h) \/ PrepareRetrieve(h)
               \/ PrepareResolveBinding(h) /\ Return(h)
        PROVE  Return(h) /\ UNCHANGED <<providerMapping, providerEvents, clock>>
    BY <2>7 DEF PrepareBind, BindStripePaymentIntent, PrepareBindConflict, PrepareRetrieve,
                PrepareResolveBinding
  <2> QED  BY <1>2, <2>1, <2>2, <2>3, <2>4, <2>5, <2>6, <2>7 DEF PrepareStep
<1>3. ASSUME NEW h \in StripeWebhookInvocations,
             StripeWebhookStep(h) \/ \E e \in StripeEventIds : StripeWebhookRetrieve(h, e)
      PROVE  /\ UNCHANGED <<providerMapping, providerEvents, clock>>
             /\ \A g \in Invocations : KeepsMemory(g) \/ Pays(g)
  <2>0. h \in Invocations /\ WebhookFrame(h)
    BY PaymentInvocations DEF PaymentFramesOK, PaymentFrame
  <2>1. CASE Return(h) /\ UNCHANGED <<providerMapping, providerEvents, clock>>
    BY <2>0, <2>1, ReturnTouchesOne DEF Pays
  <2>2. ASSUME NEW e \in StripeEventIds, StripeWebhookRetrieve(h, e)
        PROVE  /\ UNCHANGED <<providerMapping, providerEvents, clock>>
               /\ \A g \in Invocations : KeepsMemory(g) \/ Pays(g)
    <3>1. /\ pc' = [pc EXCEPT ![h] = "lookup"]
          /\ \A g \in Invocations \ {h} : input'[g] = input[g] /\ stamp'[g] = stamp[g]
          /\ UNCHANGED <<subject, read, proposed>>
          /\ UNCHANGED <<providerMapping, providerEvents, clock>>
      BY <2>2 DEF StripeWebhookRetrieve
    <3> QED  BY <2>0, <3>1 DEF KeepsMemory, Pays, PaymentSteps
  <2>3. CASE StripeWebhookLookup(h)
    <3>1. /\ pc' = [pc EXCEPT ![h] = "load"]
          /\ \A g \in Invocations \ {h} : input'[g] = input[g] /\ subject'[g] = subject[g]
          /\ UNCHANGED <<stamp, read, proposed>>
          /\ UNCHANGED <<providerMapping, providerEvents, clock>>
      BY <2>3 DEF StripeWebhookLookup
    <3> QED  BY <2>0, <3>1 DEF KeepsMemory, Pays, PaymentSteps
  <2>4. CASE StripeWebhookLoad(h) /\ ~Return(h)
    <3>1. subject[h] \in OrderIds
      BY <2>0, <2>4 DEF WebhookFrame, StripeWebhookLoad
    <3>2. /\ pc' = [pc EXCEPT ![h] = "recordStripe"]
          /\ read' = [read EXCEPT ![h] = orders[subject[h]]]
          /\ \A g \in Invocations \ {h} : input'[g] = input[g] /\ proposed'[g] = proposed[g]
          /\ UNCHANGED <<subject, stamp>>
          /\ UNCHANGED <<providerMapping, providerEvents, clock>>
      BY <2>4 DEF StripeWebhookLoad
    <3> QED  BY <2>0, <3>1, <3>2 DEF KeepsMemory, Pays, PaymentSteps
  <2>5. CASE StripeWebhookRecordCancelled(h)
    BY <2>0, <2>5 DEF StripeWebhookRecordCancelled, KeepsMemory, Pays, PaymentSteps
  <2>6. CASE StripeWebhookResolve(h) /\ ~Return(h)
    <3>1. /\ pc' = [pc EXCEPT ![h] = "lookup"]
          /\ read' = [read EXCEPT ![h] = Undefined]
          /\ proposed' = [proposed EXCEPT ![h] = Undefined]
          /\ UNCHANGED <<subject, input, stamp>>
          /\ UNCHANGED <<providerMapping, providerEvents, clock>>
      BY <2>6 DEF StripeWebhookResolve
    <3> QED  BY <2>0, <3>1 DEF KeepsMemory, Pays, PaymentSteps
  <2>7. ASSUME \/ StripeWebhookRecord(h)
               \/ StripeWebhookLoad(h) /\ Return(h)
               \/ StripeWebhookResolve(h) /\ Return(h)
        PROVE  Return(h) /\ UNCHANGED <<providerMapping, providerEvents, clock>>
    BY <2>7 DEF StripeWebhookRecord, RecordStripeWebhook, StripeWebhookLoad, StripeWebhookResolve
  <2> QED  BY <1>3, <2>1, <2>2, <2>3, <2>4, <2>5, <2>6, <2>7 DEF StripeWebhookStep
<1> QED  BY <1>1, <1>2, <1>3 DEF PaymentStep

(***************************************************************************)
(* An intent, from its creation to the lookup, is one order's.             *)
(***************************************************************************)
IntentIsFor(i, o) == intents[i] \in Intent /\ intents[i].orderId = o

BindingFrame(h) ==
  pc[h] \in {"bind", "resolveBinding"} =>
    IntentIsFor(proposed[h].payment.stripePaymentIntentId, subject[h])

\* A snapshot names the order its intent names.
OwnerFrame(h) ==
  pc[h] \in WebhookSteps => IntentIsFor(input[h].intentId, input[h].snapshot.orderId)

IntentsBelong ==
  /\ \A o \in OrderIds : creationKeys[o] # Undefined => IntentIsFor(creationKeys[o], o)
  /\ \A i \in IntentIds : intentMapping[i] # Undefined => IntentIsFor(i, intentMapping[i])
  /\ \A h \in Invocations : BindingFrame(h) /\ OwnerFrame(h)

\* No intent comes to name another order.
OwnersStay ==
  \A i \in IntentIds : intents[i] # Undefined => intents'[i].orderId = intents[i].orderId

IntentWillBeFor(i, o) == intents'[i] \in Intent /\ intents'[i].orderId = o

\* An invocation goes on with the intents it had, or knows them to be right.
KeepsOwners(h) ==
  /\ \/ pc'[h] \notin {"bind", "resolveBinding"}
     \/ /\ pc[h] \in {"bind", "resolveBinding"}
        /\ subject'[h] = subject[h] /\ proposed'[h] = proposed[h]
     \/ IntentWillBeFor(proposed'[h].payment.stripePaymentIntentId, subject'[h])
  /\ \/ pc'[h] \notin WebhookSteps
     \/ /\ pc[h] \in WebhookSteps
        /\ input'[h].intentId = input[h].intentId
        /\ input'[h].snapshot = input[h].snapshot
     \/ IntentWillBeFor(input'[h].intentId, input'[h].snapshot.orderId)

LEMMA OwnersKept ==
  ASSUME NEW g, pc'[g] = "idle" \/ KeepsMemory(g)
  PROVE  KeepsOwners(g)
  BY DEF KeepsOwners, KeepsMemory, WebhookSteps

LEMMA BelongingMoves ==
  ASSUME PaymentInv, IntentsBelong, IntentsEvolve, OwnersStay,
         \A o \in OrderIds :
           creationKeys'[o] = creationKeys[o] \/ IntentWillBeFor(creationKeys'[o], o),
         \A i \in IntentIds :
           intentMapping'[i] = intentMapping[i] \/ IntentWillBeFor(i, intentMapping'[i]),
         \A h \in Invocations : KeepsOwners(h)
  PROVE  IntentsBelong'
<1>1. ASSUME NEW i \in IntentIds, NEW o, IntentIsFor(i, o)
      PROVE  IntentWillBeFor(i, o)
  BY <1>1, UndefinedIsNoIntent DEF IntentIsFor, IntentWillBeFor, IntentsEvolve, OwnersStay
<1>2. ASSUME NEW o \in OrderIds, creationKeys'[o] # Undefined
      PROVE  IntentWillBeFor(creationKeys'[o], o)
  <2>1. CASE creationKeys'[o] = creationKeys[o]
    <3>1. creationKeys[o] \in IntentIds /\ IntentIsFor(creationKeys[o], o)
      BY <1>2, <2>1 DEF IntentsBelong, PaymentInv, PaymentTypeOK, StripeTypeOK, Optional
    <3> QED  BY <1>1, <2>1, <3>1
  <2> QED  BY <2>1
<1>3. ASSUME NEW i \in IntentIds, intentMapping'[i] # Undefined
      PROVE  IntentWillBeFor(i, intentMapping'[i])
  <2>1. CASE intentMapping'[i] = intentMapping[i]
    <3>1. IntentIsFor(i, intentMapping[i])
      BY <1>3, <2>1 DEF IntentsBelong
    <3> QED  BY <1>1, <2>1, <3>1
  <2> QED  BY <2>1
<1>4. ASSUME NEW h \in Invocations, pc'[h] \in {"bind", "resolveBinding"}
      PROVE  IntentWillBeFor(proposed'[h].payment.stripePaymentIntentId, subject'[h])
  <2>1. CASE /\ pc[h] \in {"bind", "resolveBinding"}
             /\ subject'[h] = subject[h] /\ proposed'[h] = proposed[h]
    <3>1. proposed[h].payment.stripePaymentIntentId \in IntentIds
      BY <2>1 DEF PaymentInv, PaymentFramesOK, PaymentFrame, PrepareFrame
    <3>2. IntentIsFor(proposed[h].payment.stripePaymentIntentId, subject[h])
      BY <2>1 DEF IntentsBelong, BindingFrame
    <3> QED  BY <1>1, <2>1, <3>1, <3>2
  <2> QED  BY <1>4, <2>1 DEF KeepsOwners
<1>5. ASSUME NEW h \in Invocations, pc'[h] \in WebhookSteps
      PROVE  IntentWillBeFor(input'[h].intentId, input'[h].snapshot.orderId)
  <2>1. CASE /\ pc[h] \in WebhookSteps
             /\ input'[h].intentId = input[h].intentId
             /\ input'[h].snapshot = input[h].snapshot
    <3>1. input[h].intentId \in IntentIds
      BY <2>1 DEF PaymentInv, PaymentFramesOK, PaymentFrame, WebhookFrame, WebhookSteps, Snapshot
    <3>2. IntentIsFor(input[h].intentId, input[h].snapshot.orderId)
      BY <2>1 DEF IntentsBelong, OwnerFrame
    <3> QED  BY <1>1, <2>1, <3>1, <3>2
  <2> QED  BY <1>5, <2>1 DEF KeepsOwners
<1>6. \A h \in Invocations : BindingFrame(h)' /\ OwnerFrame(h)'
  BY <1>4, <1>5 DEF BindingFrame, OwnerFrame, IntentIsFor, IntentWillBeFor
<1> QED
  BY <1>2, <1>3, <1>6 DEF IntentsBelong, IntentIsFor, IntentWillBeFor

\* Stripe's answer to a creation is the order's intent, new or not.
LEMMA CreatedBelongs ==
  ASSUME PaymentInv, IntentsBelong, NEW o \in OrderIds, NEW i \in IntentIds,
         IF creationKeys[o] = Undefined THEN intents[i] = Undefined ELSE creationKeys[o] = i,
         intents' = [intents EXCEPT ![i] = IF @ = Undefined THEN NewIntent(o, TRUE, TRUE, TRUE) ELSE @],
         creationKeys' = [creationKeys EXCEPT ![o] = i]
  PROVE  /\ IntentWillBeFor(i, o)
         /\ OwnersStay
         /\ \A q \in OrderIds :
              creationKeys'[q] = creationKeys[q] \/ IntentWillBeFor(creationKeys'[q], q)
<1> DEFINE new == NewIntent(o, TRUE, TRUE, TRUE)
<1>1. new \in Intent /\ new.orderId = o
  BY DEF NewIntent, Intent, PaymentStatus, Optional
<1>2. intents' = [intents EXCEPT ![i] = IF @ = Undefined THEN new ELSE @]
  OBVIOUS
<1> HIDE DEF new
<1>3. intents'[i] = IF intents[i] = Undefined THEN new ELSE intents[i]
  BY <1>2 DEF PaymentInv, PaymentTypeOK, StripeTypeOK
<1>4. IntentWillBeFor(i, o)
  <2>1. CASE intents[i] = Undefined
    BY <1>1, <1>3, <2>1 DEF IntentWillBeFor
  <2>2. CASE intents[i] # Undefined
    <3>1. creationKeys[o] = i /\ i # Undefined
      BY <2>2, UndefinedIsNoValue
    <3> QED  BY <1>3, <2>2, <3>1 DEF IntentsBelong, IntentIsFor, IntentWillBeFor
  <2> QED  BY <2>1, <2>2
<1>5. \A q \in OrderIds :
        creationKeys'[q] = IF q = o THEN i ELSE creationKeys[q]
  BY DEF PaymentInv, PaymentTypeOK, StripeTypeOK
<1>6. OwnersStay
  BY <1>2 DEF OwnersStay, PaymentInv, PaymentTypeOK, StripeTypeOK
<1> QED  BY <1>4, <1>5, <1>6

\* What the webhook maps is the intent of the order it was retrieved for.
LEMMA MappedBelongs ==
  ASSUME PaymentInv, IntentsBelong, NEW h \in Invocations, pc[h] = "recordStripe", MapIntent(h)
  PROVE  /\ IntentIsFor(input[h].intentId, subject[h])
         /\ read[h] # Undefined
<1>1. WebhookFrame(h)
  BY DEF PaymentInv, PaymentFramesOK, PaymentFrame
<1>2. /\ input[h].verdict \in {"APPLIED", "IGNORED"}
      /\ IntentIsFor(input[h].intentId, input[h].snapshot.orderId)
  BY <1>1 DEF MapIntent, WebhookFrame, StripeOutcomes, IntentsBelong, OwnerFrame, WebhookSteps
<1>3. input[h].snapshot.orderId = subject[h] /\ read[h] \in Order
  BY <1>1, <1>2 DEF WebhookFrame, TakesIn
<1> QED  BY <1>2, <1>3, UndefinedIsNoRecord

\* A delivery goes on, with the event and the snapshot it retrieved, or ends.
LEMMA DeliveryGoesOn ==
  ASSUME PaymentInv, NEW h \in Invocations, StripeWebhookStep(h)
  PROVE  /\ pc[h] \in WebhookSteps
         /\ \/ Return(h) /\ pc'[h] = "idle"
            \/ /\ pc'[h] \in WebhookSteps
               /\ input'[h].eventId = input[h].eventId
               /\ input'[h].intentId = input[h].intentId
               /\ input'[h].snapshot = input[h].snapshot
<1> USE DEF Goto
<1>0. pc \in [Invocations -> Steps] /\ DOMAIN input = Invocations
  BY DEF PaymentInv, PaymentTypeOK, TableTypeOK, FramesTypeOK
<1>1. pc[h] \in WebhookSteps
  BY DEF StripeWebhookStep, StripeWebhookLookup, StripeWebhookLoad, StripeWebhookRecord,
         StripeWebhookRecordCancelled, StripeWebhookResolve, WebhookSteps
<1>2. input[h] \in Snapshot
  BY <1>1, WebhookHas DEF WebhookSteps
<1>3. CASE Return(h)
  BY <1>0, <1>1, <1>3 DEF Return
<1>4. CASE StripeWebhookLookup(h)
  <2> DEFINE absent == (intentMapping[input[h].intentId] = Undefined)
             given == [input[h] EXCEPT !.ensureMapping = absent]
  <2>1. /\ given.eventId = input[h].eventId
        /\ given.intentId = input[h].intentId
        /\ given.snapshot = input[h].snapshot
    BY <1>2 DEF Snapshot
  <2>2. input' = [input EXCEPT ![h] = given] /\ pc'[h] = "load"
    BY <1>0, <1>4 DEF StripeWebhookLookup
  <2> HIDE DEF given
  <2> QED  BY <1>0, <1>1, <2>1, <2>2 DEF WebhookSteps
<1>5. CASE StripeWebhookLoad(h) /\ ~Return(h)
  <2> DEFINE outcome == ProposedOutcome(subject[h], orders[subject[h]], input[h].intentId,
                                        input[h].snapshot, stamp[h])
             given == [input[h] EXCEPT !.verdict = outcome]
  <2>1. /\ given.eventId = input[h].eventId
        /\ given.intentId = input[h].intentId
        /\ given.snapshot = input[h].snapshot
    BY <1>2 DEF Snapshot
  <2>2. input' = [input EXCEPT ![h] = given] /\ pc'[h] = "recordStripe"
    BY <1>0, <1>5 DEF StripeWebhookLoad
  <2> HIDE DEF given
  <2> QED  BY <1>0, <1>1, <2>1, <2>2 DEF WebhookSteps
<1>6. CASE StripeWebhookRecordCancelled(h) \/ (StripeWebhookResolve(h) /\ ~Return(h))
  <2>1. input' = input /\ pc'[h] \in {"resolveStripe", "lookup"}
    BY <1>0, <1>6 DEF StripeWebhookRecordCancelled, StripeWebhookResolve
  <2> QED  BY <1>1, <2>1 DEF WebhookSteps
<1> QED
  BY <1>3, <1>4, <1>5, <1>6 DEF StripeWebhookStep, StripeWebhookRecord

\* So the order that its snapshot names is its intent's all along.
LEMMA WebhookKeepsOwners ==
  ASSUME PaymentInv, NEW h \in Invocations,
         StripeWebhookStep(h) \/ \E e \in StripeEventIds : StripeWebhookRetrieve(h, e)
  PROVE  KeepsOwners(h)
<1> USE DEF Goto
<1>0. /\ pc \in [Invocations -> Steps]
      /\ FramesTypeOK /\ StripeTypeOK /\ EventsShowIntents
      /\ DOMAIN input = Invocations
  BY DEF PaymentInv, PaymentTypeOK, TableTypeOK, FramesTypeOK
<1>1. ASSUME NEW e \in StripeEventIds, StripeWebhookRetrieve(h, e)
      PROVE  KeepsOwners(h)
  <2> DEFINE i == emitted[e].intentId
             given == [ eventId |-> e, intentId |-> i, snapshot |-> intents[i],
                        ensureMapping |-> FALSE, verdict |-> Undefined ]
  <2>1. i \in IntentIds /\ intents[i] \in Intent /\ intents' = intents
    BY <1>0, <1>1 DEF StripeTypeOK, EventsShowIntents, StripeWebhookRetrieve, paymentVars, stripeVars
  <2>2. given.intentId = i /\ given.snapshot = intents[i]
    OBVIOUS
  <2>3. input' = [input EXCEPT ![h] = given] /\ pc'[h] = "lookup"
    BY <1>0, <1>1 DEF StripeWebhookRetrieve
  <2> HIDE DEF given, i
  <2>4. input'[h] = given
    BY <1>0, <2>3
  <2> QED  BY <2>1, <2>2, <2>3, <2>4 DEF KeepsOwners, IntentWillBeFor
<1>2. CASE StripeWebhookStep(h)
  <2>1. pc[h] \in WebhookSteps
    BY <1>2, DeliveryGoesOn
  <2>2. CASE pc'[h] = "idle"
    BY <2>2, OwnersKept
  <2>3. CASE /\ pc'[h] \in WebhookSteps
             /\ input'[h].intentId = input[h].intentId
             /\ input'[h].snapshot = input[h].snapshot
    BY <2>1, <2>3 DEF KeepsOwners, WebhookSteps
  <2> QED  BY <1>2, <2>2, <2>3, DeliveryGoesOn
<1> QED  BY <1>1, <1>2

\* What others do at Stripe leaves an intent its order.
LEMMA StripeKeepsOwners ==
  ASSUME PaymentInv, Stripe
  PROVE  OwnersStay
<1> SUFFICES ASSUME NEW j \in IntentIds, intents[j] # Undefined
             PROVE  intents'[j].orderId = intents[j].orderId
  BY DEF OwnersStay
<1>0. intents[j] \in Intent /\ intents \in [IntentIds -> Intent \cup {Undefined}]
  BY DEF PaymentInv, PaymentTypeOK, StripeTypeOK
<1>1. ASSUME NEW e \in StripeEventIds, NEW i \in IntentIds, NEW s \in IntentStatuses,
             NEW c \in Optional(ReasonCodes), StripeAdvance(e, i, s, c)
      PROVE  intents'[j].orderId = intents[j].orderId
  <2> DEFINE a == [intents[i] EXCEPT !.status = s]
             b == [a EXCEPT !.failureCode = c]
  <2>1. intents[i] \in Intent
    BY <1>0, <1>1 DEF StripeAdvance
  <2>2. a.orderId = intents[i].orderId /\ DOMAIN a = DOMAIN intents[i]
    BY <2>1 DEF Intent
  <2>3. b.orderId = intents[i].orderId
    <3>1. "orderId" \in DOMAIN a
      BY <2>1, <2>2 DEF Intent
    <3> HIDE DEF a
    <3> QED  BY <2>2, <3>1
  <2>4. intents' = [intents EXCEPT ![i] = b]
    BY <1>1, <2>1 DEF StripeAdvance, Intent
  <2> HIDE DEF b
  <2> QED  BY <1>0, <2>3, <2>4
<1>2. ASSUME NEW i \in IntentIds, NEW o \in OrderIds, NEW kind \in ForeignIntents,
             ForeignIntent(i, o, kind)
      PROVE  intents'[j].orderId = intents[j].orderId
  BY <1>0, <1>2 DEF ForeignIntent
<1> QED  BY <1>1, <1>2 DEF Stripe, StripeAnnounce

LEMMA PaymentKeepsBelonging ==
  ASSUME PaymentInv, IntentsBelong, PaymentStep
  PROVE  IntentsBelong'
<1> USE DEF tableVars, Goto
<1>0. /\ pc \in [Invocations -> Steps]
      /\ FramesTypeOK /\ StripeTypeOK /\ EventsShowIntents
      /\ proposed \in [Invocations -> Order \cup {Undefined}]
      /\ intentMapping \in [IntentIds -> Optional(OrderIds)]
  BY DEF PaymentInv, PaymentTypeOK, TableTypeOK, FramesTypeOK, ItemsTypeOK
<1>1. CASE Stripe \/ \E o \in OrderIds : CreateOrder(o)
  <2>1. UNCHANGED <<creationKeys, intentMapping, pc, subject, input, stamp, read, proposed>>
    BY <1>1 DEF Stripe, ForeignIntent, StripeAnnounce, StripeAdvance, CreateOrder,
                CreateOrderItem, baseVars, frameVars, paymentVars, stripeVars
  <2>2. IntentsEvolve
    <3>1. CASE Stripe
      BY <3>1, StripeEvolves DEF PaymentInv, PaymentTypeOK
    <3>2. CASE \E o \in OrderIds : CreateOrder(o)
      BY <3>2 DEF CreateOrder, paymentVars, stripeVars, IntentsEvolve
    <3> QED  BY <1>1, <3>1, <3>2
  <2>3. OwnersStay
    <3>1. CASE Stripe
      BY <3>1, StripeKeepsOwners
    <3>2. CASE \E o \in OrderIds : CreateOrder(o)
      BY <3>2 DEF CreateOrder, paymentVars, stripeVars, OwnersStay
    <3> QED  BY <1>1, <3>1, <3>2
  <2>4. \A g \in Invocations : KeepsOwners(g)
    BY <2>1, OwnersKept DEF KeepsMemory
  <2> QED  BY <2>1, <2>2, <2>3, <2>4, BelongingMoves
<1>2. ASSUME NEW h \in PrepareInvocations, NEW i \in IntentIds,
             PrepareCreate(h, i) \/ PrepareCreateLost(h, i)
      PROVE  IntentsBelong'
  <2>1. h \in Invocations /\ subject[h] \in OrderIds /\ read[h] \in Order /\ stamp[h] \in Nat
    BY <1>2, PaymentInvocations DEF PaymentInv, PaymentFramesOK, PaymentFrame, PrepareFrame,
                                    PrepareCreate, PrepareCreateLost
  <2>2. /\ IF creationKeys[subject[h]] = Undefined THEN intents[i] = Undefined
           ELSE creationKeys[subject[h]] = i
        /\ intents' = [intents EXCEPT ![i] =
             IF @ = Undefined THEN NewIntent(subject[h], TRUE, TRUE, TRUE) ELSE @]
        /\ creationKeys' = [creationKeys EXCEPT ![subject[h]] = i]
        /\ UNCHANGED <<emitted, secretReleased, intentMapping>>
    BY <1>2 DEF PrepareCreate, PrepareCreateLost
  <2>3. IntentsEvolve
    BY <1>0, <2>1, <2>2, CreationEvolves
  <2>4. /\ IntentWillBeFor(i, subject[h])
        /\ OwnersStay
        /\ \A q \in OrderIds :
             creationKeys'[q] = creationKeys[q] \/ IntentWillBeFor(creationKeys'[q], q)
    BY <2>1, <2>2, CreatedBelongs
  <2>5. CASE PrepareCreateLost(h, i)
    <3>1. \A g \in Invocations : pc'[g] = "idle" \/ KeepsMemory(g)
      BY <1>0, <2>1, <2>5, ReturnTouchesOne DEF PrepareCreateLost
    <3> QED  BY <2>2, <2>3, <2>4, <3>1, OwnersKept, BelongingMoves
  <2>6. CASE PrepareCreate(h, i)
    <3> DEFINE created == NewIntent(subject[h], TRUE, TRUE, TRUE)
               change == SnapshotChange(i, created, stamp[h])
               payment == PaymentChanged(read[h].payment, change, stamp[h])
               next == WithPayment(read[h], payment, stamp[h])
    <3>1. proposed' = [proposed EXCEPT ![h] = next]
      BY <2>6 DEF PrepareCreate
    <3>2. created \in Intent
      BY <2>1 DEF NewIntent, Intent, PaymentStatus, Optional
    <3> HIDE DEF created
    <3>3. change \in PaymentStatusChange /\ change.stripePaymentIntentId = i
      BY <2>1, <3>2, SnapshotChangeIsChange
    <3> HIDE DEF change
    <3>4. payment \in OrderPayment /\ payment.stripePaymentIntentId = i
      <4>1. read[h].payment \in OrderPayment
        BY <2>1 DEF Order
      <4> QED  BY <2>1, <3>3, <4>1, PaymentChangedIsPayment, PaymentChangedShowsChange
    <3> HIDE DEF payment
    <3>5. next.payment = payment
      BY <2>1, <3>4, WithPaymentIsNext
    <3> HIDE DEF next
    <3>6. /\ proposed'[h].payment.stripePaymentIntentId = i
          /\ \A g \in Invocations \ {h} : proposed'[g] = proposed[g]
      BY <1>0, <2>1, <3>1, <3>4, <3>5
    <3>7. /\ UNCHANGED <<subject, input, stamp, read>>
          /\ pc'[h] = "bind"
          /\ \A g \in Invocations \ {h} : pc'[g] = pc[g]
      BY <1>0, <2>1, <2>6 DEF PrepareCreate
    <3>8. \A g \in Invocations : KeepsOwners(g)
      <4>1. KeepsOwners(h)
        BY <2>4, <3>6, <3>7 DEF KeepsOwners, WebhookSteps
      <4>2. \A g \in Invocations \ {h} : KeepsMemory(g)
        BY <3>6, <3>7 DEF KeepsMemory
      <4> QED  BY <4>1, <4>2, OwnersKept
    <3> QED  BY <2>2, <2>3, <2>4, <3>8, BelongingMoves
  <2> QED  BY <1>2, <2>5, <2>6
<1>3. ASSUME NEW h \in PrepareInvocations, PrepareBind(h)
      PROVE  IntentsBelong'
  <2> DEFINE i == proposed[h].payment.stripePaymentIntentId
  <2>1. h \in Invocations /\ pc[h] = "bind"
    BY <1>3, PaymentInvocations DEF PrepareBind
  <2>2. IntentIsFor(i, subject[h])
    BY <2>1 DEF IntentsBelong, BindingFrame
  <2>3. /\ intentMapping' = [intentMapping EXCEPT ![i] = subject[h]]
        /\ UNCHANGED <<intents, creationKeys>>
        /\ Return(h)
    BY <1>3 DEF PrepareBind, BindStripePaymentIntent, stripeVars
  <2> HIDE DEF i
  <2>4. IntentsEvolve /\ OwnersStay
    BY <2>3 DEF IntentsEvolve, OwnersStay
  <2>5. \A j \in IntentIds :
          intentMapping'[j] = intentMapping[j] \/ IntentWillBeFor(j, intentMapping'[j])
    BY <1>0, <2>2, <2>3 DEF IntentIsFor, IntentWillBeFor
  <2>6. \A g \in Invocations : pc'[g] = "idle" \/ KeepsMemory(g)
    BY <1>0, <2>1, <2>3, ReturnTouchesOne
  <2> QED  BY <2>3, <2>4, <2>5, <2>6, OwnersKept, BelongingMoves
<1>4. ASSUME NEW h \in PrepareInvocations,
             \/ \E o \in OrderIds : PrepareGet(h, o)
             \/ PrepareBindCancelled(h) \/ PrepareBindConflict(h)
             \/ PrepareResolveBinding(h) \/ PrepareRetrieve(h)
      PROVE  IntentsBelong'
  <2>0. h \in Invocations
    BY PaymentInvocations
  <2>1. UNCHANGED <<intents, creationKeys, intentMapping>>
    BY <1>4 DEF PrepareGet, PrepareBindCancelled, PrepareBindConflict, PrepareResolveBinding,
                PrepareRetrieve, paymentVars, stripeVars
  <2>2. IntentsEvolve /\ OwnersStay
    BY <2>1 DEF IntentsEvolve, OwnersStay
  <2>3. CASE Return(h)
    <3>1. \A g \in Invocations : pc'[g] = "idle" \/ KeepsMemory(g)
      BY <1>0, <2>0, <2>3, ReturnTouchesOne
    <3> QED  BY <2>1, <2>2, <3>1, OwnersKept, BelongingMoves
  <2>4. CASE PrepareBindCancelled(h)
    <3>1. /\ pc[h] = "bind" /\ pc'[h] = "resolveBinding"
          /\ UNCHANGED <<subject, input, proposed>>
          /\ \A g \in Invocations \ {h} : pc'[g] = pc[g]
      BY <1>0, <2>0, <2>4 DEF PrepareBindCancelled
    <3>2. \A g \in Invocations : KeepsOwners(g)
      BY <3>1 DEF KeepsOwners, WebhookSteps
    <3> QED  BY <2>1, <2>2, <3>2, BelongingMoves
  <2>5. ASSUME NEW o \in OrderIds, PrepareGet(h, o)
        PROVE  IntentsBelong'
    <3>1. /\ pc'[h] \in {"retrieve", "create"} /\ UNCHANGED <<input, proposed>>
          /\ \A g \in Invocations \ {h} : pc'[g] = pc[g] /\ subject'[g] = subject[g]
      BY <1>0, <2>0, <2>5 DEF PrepareGet, FramesTypeOK
    <3>2. \A g \in Invocations : KeepsOwners(g)
      BY <3>1 DEF KeepsOwners, WebhookSteps
    <3> QED  BY <2>1, <2>2, <3>2, BelongingMoves
  <2>6. CASE PrepareResolveBinding(h) /\ ~Return(h)
    <3>1. /\ pc'[h] = "retrieve" /\ UNCHANGED <<subject, input, proposed>>
          /\ \A g \in Invocations \ {h} : pc'[g] = pc[g]
      BY <1>0, <2>0, <2>6 DEF PrepareResolveBinding
    <3>2. \A g \in Invocations : KeepsOwners(g)
      BY <3>1 DEF KeepsOwners, WebhookSteps
    <3> QED  BY <2>1, <2>2, <3>2, BelongingMoves
  <2> QED
    BY <1>4, <2>3, <2>4, <2>5, <2>6 DEF PrepareBindConflict, PrepareRetrieve
<1>5. ASSUME NEW h \in StripeWebhookInvocations, StripeWebhookRecord(h)
      PROVE  IntentsBelong'
  <2>1. h \in Invocations /\ pc[h] = "recordStripe"
    BY <1>5, PaymentInvocations DEF StripeWebhookRecord
  <2>2. /\ intentMapping' = IF MapIntent(h)
                            THEN [intentMapping EXCEPT ![input[h].intentId] = subject[h]]
                            ELSE intentMapping
        /\ UNCHANGED <<intents, creationKeys>>
        /\ Return(h)
    BY <1>5 DEF StripeWebhookRecord, RecordStripeWebhook, paymentVars, stripeVars
  <2>3. IntentsEvolve /\ OwnersStay
    BY <2>2 DEF IntentsEvolve, OwnersStay
  <2>4. \A j \in IntentIds :
          intentMapping'[j] = intentMapping[j] \/ IntentWillBeFor(j, intentMapping'[j])
    <3>1. CASE ~MapIntent(h)
      BY <2>2, <3>1
    <3>2. CASE MapIntent(h)
      <4>1. IntentIsFor(input[h].intentId, subject[h])
        BY <2>1, <3>2, MappedBelongs
      <4> QED  BY <1>0, <2>2, <3>2, <4>1 DEF IntentIsFor, IntentWillBeFor
    <3> QED  BY <3>1, <3>2
  <2>5. \A g \in Invocations : pc'[g] = "idle" \/ KeepsMemory(g)
    BY <1>0, <2>1, <2>2, ReturnTouchesOne
  <2> QED  BY <2>2, <2>3, <2>4, <2>5, OwnersKept, BelongingMoves
<1>6. ASSUME NEW h \in StripeWebhookInvocations, ~StripeWebhookRecord(h),
             StripeWebhookStep(h) \/ \E e \in StripeEventIds : StripeWebhookRetrieve(h, e)
      PROVE  IntentsBelong'
  <2>0. h \in Invocations
    BY PaymentInvocations
  <2>1. UNCHANGED <<intents, creationKeys, intentMapping>>
    BY <1>6 DEF StripeWebhookStep, StripeWebhookRetrieve, StripeWebhookLookup, StripeWebhookLoad,
                StripeWebhookRecordCancelled, StripeWebhookResolve, paymentVars, stripeVars
  <2>2. IntentsEvolve /\ OwnersStay
    BY <2>1 DEF IntentsEvolve, OwnersStay
  <2>3. KeepsOwners(h)
    BY <1>6, <2>0, WebhookKeepsOwners
  <2>4. \A g \in Invocations \ {h} : KeepsMemory(g)
    <3>1. CASE Return(h)
      BY <1>0, <2>0, <3>1, ReturnTouchesOne
    <3>2. CASE ~Return(h)
      BY <1>0, <1>6, <2>0, <3>2 DEF StripeWebhookStep, StripeWebhookRetrieve, StripeWebhookLookup,
           StripeWebhookLoad, StripeWebhookRecordCancelled, StripeWebhookResolve, KeepsMemory,
           FramesTypeOK
    <3> QED  BY <3>1, <3>2
  <2> QED  BY <2>1, <2>2, <2>3, <2>4, OwnersKept, BelongingMoves
<1> QED
  BY <1>1, <1>2, <1>3, <1>4, <1>5, <1>6 DEF PaymentStep, PrepareStep

\* Time passes, an invocation dies, or nothing happens.
LEMMA RestKeepsBelonging ==
  ASSUME PaymentInv, IntentsBelong,
         \/ Tick /\ UNCHANGED paymentVars
         \/ \E h \in Invocations : Crash(h) /\ UNCHANGED paymentVars
         \/ UNCHANGED allPaymentVars
  PROVE  IntentsBelong'
<1>1. UNCHANGED <<intentMapping, intents, creationKeys>>
  BY DEF Tick, Crash, allPaymentVars, baseVars, tableVars, paymentVars, stripeVars
<1>2. \A g \in Invocations : pc'[g] = "idle" \/ KeepsMemory(g)
  <2>1. CASE Tick \/ UNCHANGED allPaymentVars
    BY <2>1 DEF Tick, allPaymentVars, baseVars, frameVars, KeepsMemory
  <2>2. ASSUME NEW h \in Invocations, Crash(h)
        PROVE  \A g \in Invocations : pc'[g] = "idle" \/ KeepsMemory(g)
    BY <2>2, ReturnTouchesOne DEF Crash, PaymentInv, PaymentTypeOK, TableTypeOK
  <2> QED  BY <2>1, <2>2
<1>3. IntentsEvolve /\ OwnersStay
  BY <1>1 DEF IntentsEvolve, OwnersStay
<1> QED  BY <1>1, <1>2, <1>3, OwnersKept, BelongingMoves

LEMMA PaymentInitBelongs ==
  ASSUME PaymentInit
  PROVE  IntentsBelong
  BY DEF PaymentInit, TableInit, FramesInit, StripeInit, IntentsBelong, BindingFrame, OwnerFrame,
     WebhookSteps

\* The intent a paid order carries is the one mapped to it, and so its own.
LEMMA CollectedIsOurs ==
  ASSUME PaymentInv, IntentsBelong
  PROVE  PaidMeansCollected
<1> SUFFICES ASSUME NEW o \in OrderIds, orders[o] # Undefined, orders[o].payment.status = "SUCCEEDED"
             PROVE  intents[orders[o].payment.stripePaymentIntentId].orderId = o
  BY DEF PaymentInv, MoneyIsThere, Collected, PaidMeansCollected
<1> DEFINE i == orders[o].payment.stripePaymentIntentId
<1>1. i \in IntentIds
  BY DEF PaymentInv, PaidHasIntent
<1>2. intentMapping[i] = o
  BY <1>1 DEF PaymentInv, IntentLookupAgrees
<1> QED  BY <1>1, <1>2, UndefinedIsNoOrderId DEF IntentsBelong, IntentIsFor

LEMMA PaymentInitHasInv ==
  ASSUME PaymentInit
  PROVE  PaymentInv
<1> USE DEF PaymentInit, TableInit, FramesInit, StripeInit
<1>1. ItemsTypeOK
  BY DEF ItemsTypeOK, Optional
<1>2. FramesTypeOK
  <2>1. 0 \in 0..MaxConcurrentWriteAttempts
    BY DEF MaxConcurrentWriteAttempts
  <2>2. "idle" \in Steps
    BY DEF Steps
  <2> QED  BY <2>1, <2>2 DEF FramesTypeOK, Optional
<1>3. StripeTypeOK
  BY DEF StripeTypeOK, Optional
<1>4. WebhookInputsOK
  BY PaymentInvocations DEF WebhookInputsOK
<1>5. SnapshotsCurrentOrOlder /\ EventsShowIntents
  BY DEF SnapshotsCurrentOrOlder, EventsShowIntents
<1>6. PaymentFramesOK
  BY DEF PaymentFramesOK, PaymentFrame, PrepareFrame, WebhookFrame
<1>7. IntentLookupAgrees
  BY UndefinedIsNoOrderId DEF IntentLookupAgrees
<1>8. SecretOnlyAfterMapping /\ PaidHasIntent /\ MoneyIsThere
  BY DEF SecretOnlyAfterMapping, PaidHasIntent, MoneyIsThere
<1> QED
  BY <1>1, <1>2, <1>3, <1>4, <1>5, <1>6, <1>7, <1>8 DEF PaymentInv, PaymentTypeOK, TableTypeOK

(***************************************************************************)
(* What holds of every behaviour.                                          *)
(***************************************************************************)

\* The strengthening is inductive: everything below follows from it.
THEOREM PaymentInvariant == PaymentSpec => []PaymentInv
<1>1. PaymentInit => PaymentInv
  BY PaymentInitHasInv
<1>2. PaymentInv /\ [PaymentNext]_allPaymentVars => PaymentInv'
  BY PaymentStepKeepsInv
<1> QED  BY <1>1, <1>2, PTL DEF PaymentSpec

\* The table, the frames and Stripe hold values of their types; the webhook's
\* retry loop stays within its attempts (MAX_CONCURRENT_WRITE_ATTEMPTS).
THEOREM PaymentTypes == PaymentSpec => []PaymentTypeOK
<1>1. PaymentInv => PaymentTypeOK
  BY DEF PaymentInv
<1> QED  BY <1>1, PaymentInvariant, PTL

\* The version condition of statusUpdate is enough for both payment handlers:
\* what an invocation read is the stored order or visibly older.
THEOREM PaymentSnapshots == PaymentSpec => []SnapshotsCurrentOrOlder
<1>1. PaymentInv => SnapshotsCurrentOrOlder
  BY DEF PaymentInv
<1> QED  BY <1>1, PaymentInvariant, PTL

\* The intent lookup and the orders agree in both directions, whatever
\* requests and webhooks interleave (bindStripePaymentIntent and
\* executeStripeWebhookTransaction write them together).
THEOREM IntentLookup == PaymentSpec => []IntentLookupAgrees
<1>1. PaymentInv => IntentLookupAgrees
  BY DEF PaymentInv
<1> QED  BY <1>1, PaymentInvariant, PTL

\* PAY-I05: no response of prepareStripePaymentIntent carries a client secret
\* before order and mapping are durable.
THEOREM SecretAfterMapping == PaymentSpec => []SecretOnlyAfterMapping
<1>1. PaymentInv => SecretOnlyAfterMapping
  BY DEF PaymentInv
<1> QED  BY <1>1, PaymentInvariant, PTL

\* PAY-I01: payment and order are decided in one commit of
\* recordStripeWebhook, so they never disagree.
THEOREM StatusAndPayment == PaymentSpec => []StatusFollowsPayment
<1>1. PaymentInit => StatusFollowsPayment
  BY DEF PaymentInit, TableInit, StatusFollowsPayment
<1>2. PaymentInv /\ StatusFollowsPayment /\ [PaymentNext]_allPaymentVars => StatusFollowsPayment'
  BY StatusKeepsFollowing
<1> QED  BY <1>1, <1>2, PaymentInvariant, PTL DEF PaymentSpec

\* Nobody but this flow writes an intent's metadata, so an intent goes on
\* naming the order whose creation key, binding or delivery it is.
THEOREM IntentsStayBound == PaymentSpec => []IntentsBelong
<1>1. PaymentInit => IntentsBelong
  BY PaymentInitBelongs
<1>2. PaymentInv /\ IntentsBelong /\ [PaymentNext]_allPaymentVars => IntentsBelong'
  BY PaymentKeepsBelonging, RestKeepsBelonging DEF PaymentNext
<1> QED  BY <1>1, <1>2, PaymentInvariant, PTL DEF PaymentSpec

\* An order processStripeWebhook takes for paid has been paid at Stripe: this
\* amount, captured automatically, on the intent the order carries.
THEOREM PaidIsCollected == PaymentSpec => []PaidMeansCollected
<1>1. PaymentInv /\ IntentsBelong => PaidMeansCollected
  BY CollectedIsOurs
<1> QED  BY <1>1, PaymentInvariant, IntentsStayBound, PTL

(***************************************************************************)
(* What is decided: the inductive invariant.                               *)
(***************************************************************************)

\* While an order waits for its payment, the two change together, so that
\* what is not before the payment's last change is not before the order's.
Timely(order) ==
  order.status = "AWAITING_PAYMENT" => order.updatedAt = order.payment.updatedAt

\* What a commit of this flow makes of an order.
ProperNext(before, after) ==
  /\ before.status = "AWAITING_PAYMENT"
  /\ CommittedChange(before, after)
  /\ Timely(after)

\* A snapshot retrieved for an event that announced a decision shows it.
Announced(e, i, snapshot) ==
  /\ e \in StripeEventIds
  /\ emitted[e] # Undefined
  /\ emitted[e].intentId = i
  /\ emitted[e].status \in TerminalPaymentStatus => snapshot.status = emitted[e].status

DecisionFrame(h) ==
  /\ pc[h] = "create" => Timely(read[h])
  /\ pc[h] = "bind" => ProperNext(read[h], proposed[h])
  /\ pc[h] \in {"lookup", "load", "recordStripe", "resolveStripe"} =>
       Announced(input[h].eventId, input[h].intentId, input[h].snapshot)
  /\ pc[h] = "recordStripe" =>
       /\ input[h].verdict = "APPLIED" => ProperNext(read[h], proposed[h])
       /\ input[h].verdict = "IGNORED" =>
            /\ input[h].snapshot.orderId = subject[h]
            /\ input[h].snapshot.status \in TerminalPaymentStatus =>
                 read[h].status # "AWAITING_PAYMENT"

EventsShowDecisions ==
  \A e \in StripeEventIds :
    ( emitted[e] # Undefined /\ emitted[e].status \in TerminalPaymentStatus ) =>
      intents[emitted[e].intentId].status = emitted[e].status

\* DecisionNeverLost, of one event whose marker is there and of the order
\* that carries its intent.
DecisionKept(e) ==
  /\ emitted[e] # Undefined
  /\ ( /\ stripeEvents[e] \in {"APPLIED", "IGNORED"}
       /\ emitted[e].status \in TerminalPaymentStatus ) =>
       \E o \in OrderIds :
         /\ orders[o] # Undefined
         /\ orders[o].payment.stripePaymentIntentId = emitted[e].intentId
         /\ orders[o].status # "AWAITING_PAYMENT"

DecisionInv ==
  /\ \A o \in OrderIds : orders[o] # Undefined => Timely(orders[o])
  /\ \A h \in Invocations : DecisionFrame(h)
  /\ EventsShowDecisions
  /\ \A e \in StripeEventIds : stripeEvents[e] # Undefined => DecisionKept(e)

\* While an order waits, the decision about its payment is still to come.
WaitingIsUndecided ==
  \A o \in OrderIds :
    orders[o] # Undefined /\ orders[o].status = "AWAITING_PAYMENT" =>
      orders[o].payment.status \notin TerminalPaymentStatus

LEMMA FollowingIsUndecided ==
  ASSUME StatusFollowsPayment
  PROVE  WaitingIsUndecided
  BY DEF StatusFollowsPayment, WaitingIsUndecided, TerminalPaymentStatus

(***************************************************************************)
(* The shape of a step.                                                    *)
(***************************************************************************)
EmissionsGrow ==
  \A e \in StripeEventIds : emitted'[e] = emitted[e] \/ emitted[e] = Undefined

StripeMoves == EmissionsGrow /\ IntentsEvolve /\ EventsShowDecisions'

OrdersMove ==
  \A o \in OrderIds :
    \/ orders'[o] = orders[o]
    \/ /\ orders'[o] \in Order
       /\ Timely(orders'[o])
       /\ orders[o] # Undefined => ProperNext(orders[o], orders'[o])

MarkersMove ==
  \A e \in StripeEventIds :
    \/ stripeEvents'[e] = stripeEvents[e]
    \/ stripeEvents[e] = Undefined /\ DecisionKept(e)'

FramesMove == \A h \in Invocations : DecisionFrame(h)'

PaymentMove == StripeMoves /\ OrdersMove /\ MarkersMove /\ FramesMove

(***************************************************************************)
(* What follows from the shape of a step.                                  *)
(***************************************************************************)
LEMMA MoveKeepsDecisions ==
  ASSUME PaymentInv, DecisionInv, PaymentMove
  PROVE  DecisionInv'
<1> USE DEF PaymentMove, StripeMoves
<1>1. \A o \in OrderIds : orders'[o] # Undefined => Timely(orders'[o])
  BY DEF DecisionInv, OrdersMove
<1>2. ASSUME NEW e \in StripeEventIds, stripeEvents'[e] # Undefined
      PROVE  DecisionKept(e)'
  <2>1. CASE stripeEvents'[e] # stripeEvents[e]
    BY <2>1 DEF MarkersMove
  <2>2. CASE stripeEvents'[e] = stripeEvents[e]
    <3>1. DecisionKept(e)
      BY <1>2, <2>2 DEF DecisionInv
    <3>2. emitted'[e] = emitted[e] /\ emitted[e] # Undefined
      BY <3>1 DEF DecisionKept, EmissionsGrow
    <3> SUFFICES ASSUME stripeEvents[e] \in {"APPLIED", "IGNORED"},
                        emitted[e].status \in TerminalPaymentStatus
                 PROVE  \E o \in OrderIds :
                          /\ orders'[o] # Undefined
                          /\ orders'[o].payment.stripePaymentIntentId = emitted[e].intentId
                          /\ orders'[o].status # "AWAITING_PAYMENT"
      BY <2>2, <3>2 DEF DecisionKept
    <3>3. PICK o \in OrderIds :
            /\ orders[o] # Undefined
            /\ orders[o].payment.stripePaymentIntentId = emitted[e].intentId
            /\ orders[o].status # "AWAITING_PAYMENT"
      BY <3>1 DEF DecisionKept
    <3>4. orders'[o] = orders[o]
      BY <3>3 DEF OrdersMove, ProperNext
    <3> QED  BY <3>3, <3>4
  <2> QED  BY <2>1, <2>2
<1> QED  BY <1>1, <1>2 DEF DecisionInv, FramesMove

(***************************************************************************)
(* What a taken-in payment does to an order.                               *)
(***************************************************************************)

\* A payment that changes carries the time of its change.
LEMMA PaymentChangedAt ==
  ASSUME NEW payment \in OrderPayment, NEW change \in PaymentStatusChange, NEW at \in Nat,
         ~PaymentUnchanged(payment, change)
  PROVE  PaymentChanged(payment, change, at).updatedAt = at
<1> DEFINE failure == FirstDefined(change.lastFailure, payment.lastFailure)
           a == [payment EXCEPT !.status = change.targetStatus]
           b == [a EXCEPT !.stripePaymentIntentId = change.stripePaymentIntentId]
           c == [b EXCEPT !.lastFailure = failure]
           d == [c EXCEPT !.updatedAt = at]
<1>1. PaymentChanged(payment, change, at) = d
  BY DEF PaymentChanged, OrderPayment
<1>2. d.updatedAt = at
  BY DEF OrderPayment
<1> QED  BY <1>1, <1>2

\* The order with a payment that changed, still waiting for its decision.
LEMMA TakenInProperly ==
  ASSUME NEW order \in Order, NEW change \in PaymentStatusChange, NEW at \in Nat,
         order.status = "AWAITING_PAYMENT", Timely(order),
         PaymentChangeAccepted(order.payment, change, at),
         PaymentChanged(order.payment, change, at) # order.payment
  PROVE  ProperNext(order, WithPayment(order, PaymentChanged(order.payment, change, at), at))
<1> DEFINE payment == PaymentChanged(order.payment, change, at)
           next == WithPayment(order, payment, at)
<1>1. order.payment \in OrderPayment
  BY DEF Order
<1>2. ~PaymentUnchanged(order.payment, change)
  BY DEF PaymentChanged
<1>3. /\ payment \in OrderPayment
      /\ payment.status = change.targetStatus
      /\ payment.stripePaymentIntentId = change.stripePaymentIntentId
      /\ payment.updatedAt = at
  BY <1>1, <1>2, PaymentChangedIsPayment, PaymentChangedShowsChange, PaymentChangedAt
<1> HIDE DEF payment
<1>4. /\ next.version = order.version + 1
      /\ next.payment = payment
      /\ next.status = order.status
      /\ next.createdAt = order.createdAt
      /\ next.updatedAt = at
      /\ next.deliveryProviderOrderId = order.deliveryProviderOrderId
      /\ next.acceptedAt = order.acceptedAt
  BY <1>3, WithPaymentIsNext
<1> HIDE DEF next
<1>5. at >= order.updatedAt
  BY <1>2 DEF PaymentChangeAccepted, Timely
<1>6. order.payment.stripePaymentIntentId \in {Undefined, change.stripePaymentIntentId}
      /\ (order.payment.status \in TerminalPaymentStatus => order.payment.status = change.targetStatus)
  BY DEF PaymentChangeAccepted
<1>7. CommittedChange(order, next)
  BY <1>3, <1>4, <1>5, <1>6 DEF CommittedChange, TerminalStatus
<1>8. Timely(next)
  BY <1>3, <1>4 DEF Timely
<1> QED  BY <1>7, <1>8 DEF ProperNext, next, payment

\* The order whose payment is decided, and which moves with it.
LEMMA DecidedProperly ==
  ASSUME NEW order \in Order, NEW change \in PaymentStatusChange, NEW at \in Nat,
         order.status = "AWAITING_PAYMENT", Timely(order),
         PaymentChangeAccepted(order.payment, change, at),
         ~PaymentUnchanged(order.payment, change),
         NEW target \in {"PENDING_SUBMISSION", "CANCELLED"}
  PROVE  LET paid == [order EXCEPT !.payment = PaymentChanged(order.payment, change, at)]
         IN ProperNext(order, StatusChanged(paid, ChangeTo(target), at))
<1> DEFINE payment == PaymentChanged(order.payment, change, at)
           paid == [order EXCEPT !.payment = payment]
           to == ChangeTo(target)
           next == StatusChanged(paid, to, at)
<1>1. order.payment \in OrderPayment
  BY DEF Order
<1>2. /\ payment \in OrderPayment
      /\ payment.status = change.targetStatus
      /\ payment.stripePaymentIntentId = change.stripePaymentIntentId
  BY <1>1, PaymentChangedIsPayment, PaymentChangedShowsChange
<1> HIDE DEF payment
<1>3. /\ paid \in Order
      /\ paid.payment = payment
      /\ paid.version = order.version
      /\ paid.createdAt = order.createdAt
      /\ paid.deliveryProviderOrderId = order.deliveryProviderOrderId
      /\ paid.acceptedAt = order.acceptedAt
  BY <1>2 DEF Order
<1> HIDE DEF paid
<1>4. to \in OrderStatusChange /\ to.targetStatus = target
  BY DEF ChangeTo, OrderStatusChange, OrderStatus, Optional
<1> HIDE DEF to
<1>5. /\ next.version = order.version + 1
      /\ next.status = target
      /\ next.payment = payment
      /\ next.createdAt = order.createdAt
      /\ next.updatedAt = at
      /\ next.deliveryProviderOrderId = order.deliveryProviderOrderId
      /\ next.acceptedAt = order.acceptedAt
  <2>1. target # "SUBMITTED"
    OBVIOUS
  <2> QED  BY <1>3, <1>4, <2>1, StatusChangedIsNext
<1> HIDE DEF next
<1>6. at >= order.updatedAt
  BY DEF PaymentChangeAccepted, Timely
<1>7. order.payment.stripePaymentIntentId \in {Undefined, change.stripePaymentIntentId}
      /\ (order.payment.status \in TerminalPaymentStatus => order.payment.status = change.targetStatus)
  BY DEF PaymentChangeAccepted
<1>8. CommittedChange(order, next)
  BY <1>2, <1>5, <1>6, <1>7 DEF CommittedChange, TerminalStatus
<1>9. Timely(next)
  BY <1>5 DEF Timely
<1> QED  BY <1>8, <1>9 DEF ProperNext, next, to, paid, payment

\* What the webhook proposes for the order it loads, and what an event it
\* ignores says of that order.
LEMMA LoadDecidesProperly ==
  ASSUME PaymentInv, WaitingIsUndecided, DecisionInv, NEW h \in Invocations, pc[h] = "load",
         NEW outcome,
         outcome = ProposedOutcome(subject[h], orders[subject[h]], input[h].intentId,
                                   input[h].snapshot, stamp[h])
  PROVE  LET o == subject[h]
             next == ProposedOrder(orders[o], input[h].intentId, input[h].snapshot, stamp[h])
         IN /\ outcome = "APPLIED" => ProperNext(orders[o], next)
            /\ outcome = "IGNORED" =>
                 /\ input[h].snapshot.orderId = o
                 /\ input[h].snapshot.status \in TerminalPaymentStatus =>
                      orders[o].status # "AWAITING_PAYMENT"
<1> DEFINE o == subject[h]
           order == orders[o]
           i == input[h].intentId
           snapshot == input[h].snapshot
           at == stamp[h]
           next == ProposedOrder(order, i, snapshot, at)
<1>1. o \in OrderIds /\ i \in IntentIds /\ snapshot \in Intent /\ at \in Nat
  BY WebhookHas
<1>2. outcome = ProposedOutcome(o, order, i, snapshot, at)
  OBVIOUS
<1>3. /\ order \in Order \cup {Undefined}
      /\ order # Undefined => Timely(order)
      /\ ( order # Undefined /\ order.status = "AWAITING_PAYMENT" ) =>
           order.payment.status \notin TerminalPaymentStatus
  BY <1>1 DEF PaymentInv, PaymentTypeOK, TableTypeOK, ItemsTypeOK, DecisionInv,
     WaitingIsUndecided
<1> HIDE DEF o, order, i, snapshot, at
<1>4. CASE Mismatch(o, order, i, snapshot)
  BY <1>2, <1>4 DEF ProposedOutcome
<1>5. ASSUME ~Mismatch(o, order, i, snapshot)
      PROVE  order \in Order /\ order # Undefined /\ snapshot.orderId = o
  BY <1>3, <1>5 DEF Mismatch
<1>6. CASE ~Mismatch(o, order, i, snapshot) /\ order.status # "AWAITING_PAYMENT"
  <2>1. outcome # "APPLIED"
    BY <1>2, <1>6 DEF ProposedOutcome
  <2> QED  BY <1>5, <1>6, <2>1 DEF o, order, snapshot
<1>7. CASE ~Mismatch(o, order, i, snapshot) /\ order.status = "AWAITING_PAYMENT"
  <2> DEFINE change == SnapshotChange(i, snapshot, at)
             payment == PaymentChanged(order.payment, change, at)
             target == DecidedTarget(snapshot)
  <2>1. outcome = IF ProposalThrows(order, i, snapshot, at) THEN "THROWS"
                  ELSE IF next = order THEN "IGNORED" ELSE "APPLIED"
    BY <1>2, <1>7 DEF ProposedOutcome
  <2>2. change \in PaymentStatusChange /\ change.targetStatus = snapshot.status
    BY <1>1, SnapshotChangeIsChange
  <2>3. /\ order \in Order
        /\ order.version \in Nat
        /\ Timely(order)
        /\ order.payment.status \notin TerminalPaymentStatus
    BY <1>3, <1>5, <1>7 DEF Order
  <2>4. ~ProposalThrows(order, i, snapshot, at) =>
          PaymentChangeAccepted(order.payment, change, at)
    BY DEF ProposalThrows
  <2>5. CASE ProposalThrows(order, i, snapshot, at)
    BY <2>1, <2>5
  <2>6. CASE ~ProposalThrows(order, i, snapshot, at) /\ Decided(snapshot)
    <3>1. next = StatusChanged([order EXCEPT !.payment = payment], ChangeTo(target), at)
      BY <2>6 DEF ProposedOrder, StatusChangedOrder, PaidOrder
    <3> HIDE DEF change, next
    <3>2. ~PaymentUnchanged(order.payment, change)
      BY <2>2, <2>3, <2>6 DEF PaymentUnchanged, Decided
    <3>3. target \in {"PENDING_SUBMISSION", "CANCELLED"}
      BY DEF DecidedTarget
    <3> HIDE DEF target
    <3>4. ProperNext(order, next)
      BY <1>1, <1>7, <2>2, <2>3, <2>4, <2>6, <3>1, <3>2, <3>3, DecidedProperly
    <3>5. next # order
      BY <2>3, <3>4 DEF ProperNext, CommittedChange
    <3> QED  BY <2>1, <2>6, <3>4, <3>5 DEF next, o, order, i, snapshot, at
  <2>7. CASE ~ProposalThrows(order, i, snapshot, at) /\ ~Decided(snapshot)
    <3>1. next = IF payment = order.payment THEN order ELSE WithPayment(order, payment, at)
      BY <2>7 DEF ProposedOrder, PaymentChangedOrder
    <3> HIDE DEF change, next
    <3>2. payment # order.payment => ProperNext(order, next)
      BY <1>1, <1>7, <2>2, <2>3, <2>4, <2>7, <3>1, TakenInProperly
    <3>3. payment = order.payment => next = order
      BY <3>1
    <3> HIDE DEF payment
    <3>4. outcome = "APPLIED" => ProperNext(order, next)
      BY <2>1, <2>7, <3>2, <3>3
    <3>5. snapshot.status \notin TerminalPaymentStatus
      BY <2>7 DEF Decided
    <3> QED  BY <1>5, <1>7, <3>4, <3>5 DEF next, o, order, i, snapshot, at
  <2> QED  BY <2>5, <2>6, <2>7
<1> QED  BY <1>4, <1>6, <1>7
(***************************************************************************)
(* Every step has the shape.                                               *)
(***************************************************************************)
LEMMA DecisionFrameStays ==
  ASSUME EmissionsGrow, NEW g \in Invocations, DecisionFrame(g),
         pc'[g] = pc[g], subject'[g] = subject[g], input'[g] = input[g],
         read'[g] = read[g], proposed'[g] = proposed[g]
  PROVE  DecisionFrame(g)'
<1>1. \A e, i, snapshot : Announced(e, i, snapshot) => Announced(e, i, snapshot)'
  BY DEF Announced, EmissionsGrow
<1> QED  BY <1>1 DEF DecisionFrame, Announced

LEMMA OthersKeepDecisionFrames ==
  ASSUME DecisionInv, EmissionsGrow, NEW h \in Invocations, DecisionFrame(h)',
         \A g \in Invocations \ {h} :
           /\ pc'[g] = pc[g]
           /\ subject'[g] = subject[g]
           /\ input'[g] = input[g]
           /\ read'[g] = read[g]
           /\ proposed'[g] = proposed[g]
  PROVE  FramesMove
<1> SUFFICES ASSUME NEW g \in Invocations, g # h
             PROVE  DecisionFrame(g)'
  BY DEF FramesMove
<1> QED  BY DecisionFrameStays DEF DecisionInv

LEMMA ReturnKeepsDecisionFrames ==
  ASSUME PaymentInv, DecisionInv, EmissionsGrow, NEW h \in Invocations, Return(h)
  PROVE  FramesMove
<1>1. /\ pc'[h] = "idle"
      /\ \A g \in Invocations \ {h} :
           /\ pc'[g] = pc[g]
           /\ subject'[g] = subject[g]
           /\ input'[g] = input[g]
           /\ read'[g] = read[g]
           /\ proposed'[g] = proposed[g]
  BY ReturnIsFair DEF PaymentInv, PaymentTypeOK, TableTypeOK
<1>2. DecisionFrame(h)'
  BY <1>1 DEF DecisionFrame
<1> QED  BY <1>1, <1>2, OthersKeepDecisionFrames

\* A step keeps to Stripe's side of the shape if what it announces is true.
LEMMA StripeMovesOn ==
  ASSUME PaymentInv, DecisionInv, IntentsEvolve, EmissionsGrow,
         \A e \in StripeEventIds :
           \/ emitted'[e] = emitted[e]
           \/ intents'[emitted'[e].intentId].status = emitted'[e].status
  PROVE  StripeMoves
<1> SUFFICES ASSUME NEW e \in StripeEventIds, emitted'[e] # Undefined,
                    emitted'[e].status \in TerminalPaymentStatus,
                    emitted'[e] = emitted[e]
             PROVE  intents'[emitted'[e].intentId].status = emitted'[e].status
  BY DEF StripeMoves, EventsShowDecisions
<1> DEFINE i == emitted[e].intentId
<1>1. i \in IntentIds /\ intents[i] # Undefined
  BY DEF PaymentInv, PaymentTypeOK, StripeTypeOK, EventsShowIntents
<1>2. intents[i].status = emitted[e].status
  BY DEF DecisionInv, EventsShowDecisions
<1>3. intents'[i].status = intents[i].status
  BY <1>1, <1>2 DEF IntentsEvolve
<1> QED  BY <1>2, <1>3

\* A step that leaves orders and markers alone.
LEMMA QuietMove ==
  ASSUME UNCHANGED <<orders, stripeEvents>>, StripeMoves, FramesMove
  PROVE  PaymentMove
  BY DEF PaymentMove, OrdersMove, MarkersMove

LEMMA StripeStill ==
  ASSUME PaymentInv, DecisionInv, UNCHANGED <<intents, emitted>>
  PROVE  StripeMoves /\ EmissionsGrow
<1>1. IntentsEvolve /\ EmissionsGrow
  BY DEF IntentsEvolve, EmissionsGrow
<1> QED  BY <1>1, StripeMovesOn

LEMMA StripeHasShape ==
  ASSUME PaymentInv, DecisionInv, Stripe
  PROVE  PaymentMove
<1>1. IntentsEvolve /\ UNCHANGED baseVars
  BY StripeEvolves
<1>2. EmissionsGrow
  BY DEF Stripe, ForeignIntent, StripeAnnounce, StripeAdvance, EmissionsGrow, PaymentInv,
     PaymentTypeOK, StripeTypeOK
<1>3. ASSUME NEW e \in StripeEventIds
      PROVE  \/ emitted'[e] = emitted[e]
             \/ intents'[emitted'[e].intentId].status = emitted'[e].status
  <2> USE DEF PaymentInv, PaymentTypeOK, StripeTypeOK, Announcement
  <2>1. CASE \E i \in IntentIds, o \in OrderIds, kind \in ForeignIntents : ForeignIntent(i, o, kind)
    BY <2>1 DEF ForeignIntent
  <2>2. CASE \E f \in StripeEventIds, i \in IntentIds : StripeAnnounce(f, i)
    BY <2>2 DEF StripeAnnounce
  <2>3. ASSUME NEW f \in StripeEventIds, NEW i \in IntentIds, NEW s \in IntentStatuses,
               NEW c \in Optional(ReasonCodes), StripeAdvance(f, i, s, c)
        PROVE  \/ emitted'[e] = emitted[e]
               \/ intents'[emitted'[e].intentId].status = emitted'[e].status
    <3>1. /\ emitted' = [emitted EXCEPT ![f] = [intentId |-> i, status |-> s]]
          /\ intents' = [intents EXCEPT ![i].status = s, ![i].failureCode = c]
          /\ intents[i] \in Intent
      BY <2>3 DEF StripeAdvance
    <3> DEFINE a == [intents[i] EXCEPT !.status = s]
               b == [a EXCEPT !.failureCode = c]
    <3>2. intents' = [intents EXCEPT ![i] = b]
      BY <3>1 DEF Intent
    <3>3. b.status = s
      <4>1. s \in PaymentStatus \ {"NOT_STARTED"}
        BY PaymentInvocations
      <4>2. a \in Intent /\ a.status = s
        BY <3>1, <4>1 DEF Intent
      <4> HIDE DEF a
      <4> QED  BY <4>2 DEF Intent
    <3> QED  BY <3>1, <3>2, <3>3
  <2> QED  BY <2>1, <2>2, <2>3 DEF Stripe
<1>4. FramesMove
  BY <1>1, <1>2, DecisionFrameStays DEF FramesMove, DecisionInv, baseVars, frameVars
<1> QED  BY <1>1, <1>2, <1>3, <1>4, StripeMovesOn, QuietMove DEF baseVars, tableVars

LEMMA CreateOrderHasShape ==
  ASSUME PaymentInv, DecisionInv, NEW o \in OrderIds, CreateOrder(o)
  PROVE  PaymentMove
<1> USE DEF CreateOrder, CreateOrderItem, paymentVars, stripeVars, frameVars
<1> DEFINE new == NewOrder(clock)
<1>1. new \in Order /\ Timely(new)
  BY NewOrderIsOrder DEF NewOrder, Timely, PaymentInv, PaymentTypeOK, TableTypeOK, ItemsTypeOK
<1>2. orders' = [orders EXCEPT ![o] = new] /\ orders[o] = Undefined
  OBVIOUS
<1> HIDE DEF new
<1>3. OrdersMove
  BY <1>1, <1>2 DEF OrdersMove, PaymentInv, PaymentTypeOK, TableTypeOK, ItemsTypeOK
<1>4. StripeMoves /\ EmissionsGrow
  BY StripeStill
<1>5. FramesMove
  BY <1>4, DecisionFrameStays DEF FramesMove, DecisionInv
<1> QED  BY <1>3, <1>4, <1>5 DEF PaymentMove, MarkersMove

(***************************************************************************)
(* The shape of payment preparation's steps.                               *)
(***************************************************************************)
LEMMA PrepareGetHasShape ==
  ASSUME PaymentInv, DecisionInv, NEW h \in PrepareInvocations, NEW o \in OrderIds,
         PrepareGet(h, o)
  PROVE  PaymentMove
<1> USE DEF PrepareGet, Goto, tableVars, paymentVars, stripeVars
<1>1. h \in Invocations /\ Timely(orders[o])
  BY PaymentInvocations DEF DecisionInv
<1>2. /\ pc'[h] \in {"create", "retrieve"}
      /\ read'[h] = orders[o]
      /\ \A g \in Invocations \ {h} :
           /\ pc'[g] = pc[g]
           /\ subject'[g] = subject[g]
           /\ input'[g] = input[g]
           /\ read'[g] = read[g]
           /\ proposed'[g] = proposed[g]
  BY <1>1 DEF PaymentInv, PaymentTypeOK, TableTypeOK, FramesTypeOK
<1>3. DecisionFrame(h)'
  BY <1>1, <1>2 DEF DecisionFrame, Timely
<1>4. StripeMoves /\ EmissionsGrow
  BY StripeStill
<1>5. FramesMove
  BY <1>1, <1>2, <1>3, <1>4, OthersKeepDecisionFrames
<1> QED  BY <1>4, <1>5, QuietMove

\* What Stripe creates, or has created before, was not announced yet.
LEMMA CreationMovesOn ==
  ASSUME PaymentInv, DecisionInv, NEW o \in OrderIds, NEW i \in IntentIds,
         intents' = [intents EXCEPT ![i] = IF @ = Undefined THEN NewIntent(o, TRUE, TRUE, TRUE) ELSE @],
         creationKeys' = [creationKeys EXCEPT ![o] = i],
         UNCHANGED <<emitted, secretReleased>>
  PROVE  StripeMoves /\ EmissionsGrow
<1>1. IntentsEvolve
  BY CreationEvolves DEF PaymentInv, PaymentTypeOK
<1>2. EmissionsGrow
  BY DEF EmissionsGrow
<1> QED  BY <1>1, <1>2, StripeMovesOn

LEMMA PrepareCreateHasShape ==
  ASSUME PaymentInv, DecisionInv, NEW h \in PrepareInvocations, NEW i \in IntentIds,
         PrepareCreate(h, i)
  PROVE  PaymentMove
<1> USE DEF PrepareCreate, Goto, tableVars
<1> DEFINE o == subject[h]
           created == NewIntent(o, TRUE, TRUE, TRUE)
           change == SnapshotChange(i, created, stamp[h])
           payment == PaymentChanged(read[h].payment, change, stamp[h])
           next == WithPayment(read[h], payment, stamp[h])
<1>1. /\ h \in Invocations
      /\ o \in OrderIds
      /\ read[h] \in Order
      /\ read[h].status = "AWAITING_PAYMENT"
      /\ read[h].payment.stripePaymentIntentId = Undefined
      /\ stamp[h] \in Nat
      /\ Timely(read[h])
  BY PaymentInvocations
  DEF PaymentInv, PaymentFramesOK, PaymentFrame, PrepareFrame, DecisionInv, DecisionFrame
<1>2. StripeMoves /\ EmissionsGrow
  BY <1>1, CreationMovesOn
<1>3. created \in Intent
  BY <1>1 DEF NewIntent, Intent, PaymentStatus, Optional
<1>4. proposed' = [proposed EXCEPT ![h] = next] /\ PaymentChangeAccepted(read[h].payment, change, stamp[h])
  OBVIOUS
<1> HIDE DEF created
<1>5. change \in PaymentStatusChange /\ change.stripePaymentIntentId = i
  BY <1>1, <1>3, SnapshotChangeIsChange
<1> HIDE DEF change
<1>6. payment # read[h].payment
  <2>1. read[h].payment \in OrderPayment
    BY <1>1 DEF Order
  <2>2. payment.stripePaymentIntentId = i
    BY <1>1, <1>5, <2>1, PaymentChangedShowsChange
  <2> QED  BY <1>1, <2>2, UndefinedIsNoValue
<1>7. ProperNext(read[h], next)
  BY <1>1, <1>4, <1>5, <1>6, TakenInProperly
<1> HIDE DEF next
<1>8. /\ pc'[h] = "bind"
      /\ proposed'[h] = next
      /\ read'[h] = read[h]
      /\ \A g \in Invocations \ {h} : pc'[g] = pc[g] /\ proposed'[g] = proposed[g]
  BY <1>1, <1>4 DEF PaymentInv, PaymentTypeOK, TableTypeOK, FramesTypeOK
<1>9. DecisionFrame(h)'
  BY <1>7, <1>8 DEF DecisionFrame
<1>10. FramesMove
  BY <1>1, <1>2, <1>8, <1>9, OthersKeepDecisionFrames
<1> QED  BY <1>2, <1>10, QuietMove

LEMMA PrepareBindHasShape ==
  ASSUME PaymentInv, DecisionInv, NEW h \in PrepareInvocations, PrepareBind(h)
  PROVE  PaymentMove
<1> USE DEF PrepareBind, stripeVars
<1>1. /\ h \in Invocations
      /\ subject[h] \in OrderIds
      /\ read[h] \in Order
      /\ proposed[h] \in Order
      /\ ProperNext(read[h], proposed[h])
  BY PaymentInvocations
  DEF PaymentInv, PaymentFramesOK, PaymentFrame, PrepareFrame, DecisionInv, DecisionFrame
<1>2. /\ orders' = [orders EXCEPT ![subject[h]] = proposed[h]]
      /\ orders[subject[h]].version = read[h].version
      /\ stripeEvents' = stripeEvents
  BY DEF BindStripePaymentIntent, BindCommits, VersionIs
<1>3. orders[subject[h]] = read[h]
  BY <1>1, <1>2, UndefinedIsNoRecord DEF PaymentInv, SnapshotsCurrentOrOlder
<1>4. OrdersMove
  BY <1>1, <1>2, <1>3
  DEF OrdersMove, ProperNext, PaymentInv, PaymentTypeOK, TableTypeOK, ItemsTypeOK
<1>5. StripeMoves /\ EmissionsGrow
  BY StripeStill
<1>6. FramesMove
  BY <1>1, <1>5, ReturnKeepsDecisionFrames
<1> QED  BY <1>2, <1>4, <1>5, <1>6 DEF PaymentMove, MarkersMove

LEMMA PrepareStepHasShape ==
  ASSUME PaymentInv, DecisionInv, NEW h \in PrepareInvocations, PrepareStep(h)
  PROVE  PaymentMove
<1> USE DEF tableVars, paymentVars, stripeVars
<1>1. h \in Invocations
  BY PaymentInvocations
<1>2. ASSUME NEW i \in IntentIds, PrepareCreateLost(h, i)
      PROVE  PaymentMove
  <2> USE <1>2 DEF PrepareCreateLost
  <2>1. subject[h] \in OrderIds
    BY <1>1 DEF PaymentInv, PaymentFramesOK, PaymentFrame, PrepareFrame
  <2>2. StripeMoves /\ EmissionsGrow
    BY <2>1, CreationMovesOn
  <2>3. FramesMove
    BY <1>1, <2>2, ReturnKeepsDecisionFrames
  <2> QED  BY <2>2, <2>3, QuietMove
<1>3. ASSUME UNCHANGED <<orders, stripeEvents, intents, emitted>>, FramesMove
      PROVE  PaymentMove
  BY <1>3, StripeStill, QuietMove
<1>4. CASE PrepareBindCancelled(h)
  <2> USE <1>4 DEF PrepareBindCancelled, Goto
  <2>1. pc'[h] = "resolveBinding" /\ \A g \in Invocations \ {h} : pc'[g] = pc[g]
    BY <1>1 DEF PaymentInv, PaymentTypeOK, TableTypeOK, FramesTypeOK
  <2>2. DecisionFrame(h)' /\ EmissionsGrow
    BY <2>1 DEF DecisionFrame, EmissionsGrow
  <2>3. FramesMove
    BY <1>1, <2>1, <2>2, OthersKeepDecisionFrames
  <2> QED  BY <1>3, <2>3
<1>5. CASE PrepareBindConflict(h) \/ PrepareRetrieve(h)
  <2>1. FramesMove
    BY <1>1, <1>5, StripeStill, ReturnKeepsDecisionFrames DEF PrepareBindConflict, PrepareRetrieve
  <2> QED  BY <1>3, <1>5, <2>1 DEF PrepareBindConflict, PrepareRetrieve
<1>6. CASE PrepareResolveBinding(h)
  <2> USE <1>6 DEF PrepareResolveBinding, Goto
  <2>1. CASE Return(h)
    BY <1>1, <1>3, <2>1, StripeStill, ReturnKeepsDecisionFrames
  <2>2. CASE ~Return(h)
    <3>1. /\ pc' = [pc EXCEPT ![h] = "retrieve"]
          /\ read' = [read EXCEPT ![h] = orders[subject[h]]]
          /\ UNCHANGED <<subject, input, stamp, proposed, attempt>>
      BY <2>2
    <3>2. /\ pc'[h] = "retrieve"
          /\ \A g \in Invocations \ {h} : pc'[g] = pc[g] /\ read'[g] = read[g]
      BY <1>1, <3>1 DEF PaymentInv, PaymentTypeOK, TableTypeOK, FramesTypeOK
    <3>3. DecisionFrame(h)' /\ EmissionsGrow
      BY <3>2 DEF DecisionFrame, EmissionsGrow
    <3>4. FramesMove
      BY <1>1, <3>1, <3>2, <3>3, OthersKeepDecisionFrames
    <3> QED  BY <1>3, <3>4
  <2> QED  BY <2>1, <2>2
<1> QED
  BY <1>2, <1>4, <1>5, <1>6, PrepareCreateHasShape, PrepareBindHasShape DEF PrepareStep

(***************************************************************************)
(* The shape of the webhook's steps.                                       *)
(***************************************************************************)
LEMMA StripeWebhookRetrieveHasShape ==
  ASSUME PaymentInv, DecisionInv, NEW h \in Invocations, NEW e \in StripeEventIds,
         StripeWebhookRetrieve(h, e)
  PROVE  PaymentMove
<1> USE DEF StripeWebhookRetrieve, Goto, tableVars, paymentVars, stripeVars
<1> DEFINE i == emitted[e].intentId
           given == [ eventId |-> e, intentId |-> i, snapshot |-> intents[i],
                      ensureMapping |-> FALSE, verdict |-> Undefined ]
<1>1. h \in Invocations
  BY PaymentInvocations
<1>2. Announced(e, i, intents[i])
  BY DEF Announced, DecisionInv, EventsShowDecisions
<1>3. /\ input' = [input EXCEPT ![h] = given]
      /\ given.eventId = e /\ given.intentId = i /\ given.snapshot = intents[i]
      /\ UNCHANGED <<orders, stripeEvents, intents, emitted>>
  OBVIOUS
<1> HIDE DEF given, i
<1>4. /\ pc'[h] = "lookup"
      /\ input'[h] = given
      /\ \A g \in Invocations \ {h} : pc'[g] = pc[g] /\ input'[g] = input[g]
  BY <1>1, <1>3 DEF PaymentInv, PaymentTypeOK, TableTypeOK, FramesTypeOK
<1>5. DecisionFrame(h)'
  BY <1>2, <1>3, <1>4 DEF DecisionFrame, Announced
<1>6. StripeMoves /\ EmissionsGrow
  BY StripeStill
<1>7. FramesMove
  BY <1>1, <1>4, <1>5, <1>6, OthersKeepDecisionFrames
<1> QED  BY <1>3, <1>6, <1>7, QuietMove

\* What a delivery was given is still what its event announced.
LEMMA WebhookWasTold ==
  ASSUME PaymentInv, DecisionInv, NEW h \in Invocations, pc[h] \in WebhookSteps
  PROVE  /\ h \in Invocations
         /\ input[h] \in Snapshot
         /\ Announced(input[h].eventId, input[h].intentId, input[h].snapshot)
  BY WebhookHas DEF WebhookSteps, DecisionInv, DecisionFrame

LEMMA StripeWebhookLookupHasShape ==
  ASSUME PaymentInv, DecisionInv, NEW h \in Invocations, StripeWebhookLookup(h)
  PROVE  PaymentMove
<1> USE DEF StripeWebhookLookup, Goto, tableVars, paymentVars, stripeVars
<1> DEFINE absent == (intentMapping[input[h].intentId] = Undefined)
           given == [input[h] EXCEPT !.ensureMapping = absent]
<1>1. /\ h \in Invocations
      /\ input[h] \in Snapshot
      /\ Announced(input[h].eventId, input[h].intentId, input[h].snapshot)
  BY WebhookWasTold DEF WebhookSteps
<1>2. input' = [input EXCEPT ![h] = given]
  OBVIOUS
<1>3. /\ given.eventId = input[h].eventId
      /\ given.intentId = input[h].intentId
      /\ given.snapshot = input[h].snapshot
  BY <1>1 DEF Snapshot
<1> HIDE DEF given
<1>4. /\ pc'[h] = "load"
      /\ input'[h] = given
      /\ \A g \in Invocations \ {h} :
           pc'[g] = pc[g] /\ input'[g] = input[g] /\ subject'[g] = subject[g]
  BY <1>1, <1>2 DEF PaymentInv, PaymentTypeOK, TableTypeOK, FramesTypeOK
<1>5. DecisionFrame(h)'
  BY <1>1, <1>3, <1>4 DEF DecisionFrame, Announced
<1>6. StripeMoves /\ EmissionsGrow
  BY StripeStill
<1>7. FramesMove
  BY <1>1, <1>4, <1>5, <1>6, OthersKeepDecisionFrames
<1> QED  BY <1>6, <1>7, QuietMove

LEMMA StripeWebhookLoadHasShape ==
  ASSUME PaymentInv, WaitingIsUndecided, DecisionInv, NEW h \in Invocations, StripeWebhookLoad(h)
  PROVE  PaymentMove
<1> USE DEF StripeWebhookLoad, Goto, tableVars, paymentVars, stripeVars
<1> DEFINE o == subject[h]
           i == input[h].intentId
           outcome == ProposedOutcome(o, orders[o], i, input[h].snapshot, stamp[h])
           next == ProposedOrder(orders[o], i, input[h].snapshot, stamp[h])
           after == IF outcome = "APPLIED" THEN next ELSE orders[o]
           given == [input[h] EXCEPT !.verdict = outcome]
<1>1. /\ h \in Invocations
      /\ input[h] \in Snapshot
      /\ Announced(input[h].eventId, input[h].intentId, input[h].snapshot)
      /\ pc[h] = "load"
  BY WebhookWasTold DEF WebhookSteps
<1>2. StripeMoves /\ EmissionsGrow
  BY StripeStill
<1>3. UNCHANGED <<orders, stripeEvents>>
  OBVIOUS
<1>4. CASE outcome = "THROWS"
  <2>1. FramesMove
    BY <1>1, <1>2, <1>4, ReturnKeepsDecisionFrames
  <2> QED  BY <1>2, <1>3, <2>1, QuietMove
<1>5. CASE outcome # "THROWS"
  <2>1. /\ outcome = "APPLIED" => ProperNext(orders[o], next)
        /\ outcome = "IGNORED" =>
             /\ input[h].snapshot.orderId = o
             /\ input[h].snapshot.status \in TerminalPaymentStatus =>
                  orders[o].status # "AWAITING_PAYMENT"
    BY <1>1, LoadDecidesProperly
  <2>2. /\ read' = [read EXCEPT ![h] = orders[o]]
        /\ proposed' = [proposed EXCEPT ![h] = after]
        /\ input' = [input EXCEPT ![h] = given]
        /\ pc' = [pc EXCEPT ![h] = "recordStripe"]
        /\ subject' = subject
    BY <1>1, <1>5 DEF PaymentInv, PaymentTypeOK, TableTypeOK, FramesTypeOK
  <2>3. outcome = "APPLIED" => after = next
    OBVIOUS
  <2> HIDE DEF outcome, next, after
  <2>4. /\ given.eventId = input[h].eventId
        /\ given.intentId = input[h].intentId
        /\ given.snapshot = input[h].snapshot
        /\ given.verdict = outcome
    BY <1>1 DEF Snapshot
  <2> HIDE DEF given, o, i
  <2>5. /\ pc'[h] = "recordStripe"
        /\ read'[h] = orders[o]
        /\ proposed'[h] = after
        /\ input'[h] = given
        /\ subject'[h] = o
        /\ \A g \in Invocations \ {h} :
             /\ pc'[g] = pc[g]
             /\ read'[g] = read[g]
             /\ proposed'[g] = proposed[g]
             /\ input'[g] = input[g]
             /\ subject'[g] = subject[g]
    BY <1>1, <2>2 DEF PaymentInv, PaymentTypeOK, TableTypeOK, FramesTypeOK, o
  <2>6. DecisionFrame(h)'
    <3>1. Announced(input[h].eventId, input[h].intentId, input[h].snapshot)'
      BY <1>1, <2>4, <2>5 DEF Announced
    <3>2. input'[h].verdict = "APPLIED" => ProperNext(read'[h], proposed'[h])
      BY <2>1, <2>3, <2>4, <2>5
    <3>3. input'[h].verdict = "IGNORED" =>
            /\ input'[h].snapshot.orderId = subject'[h]
            /\ input'[h].snapshot.status \in TerminalPaymentStatus =>
                 read'[h].status # "AWAITING_PAYMENT"
      BY <2>1, <2>4, <2>5
    <3>4. ProperNext(read[h], proposed[h])' = ProperNext(read'[h], proposed'[h])
      BY DEF ProperNext, CommittedChange, Timely
    <3> QED  BY <2>5, <3>1, <3>2, <3>3, <3>4 DEF DecisionFrame
  <2>7. FramesMove
    BY <1>1, <1>2, <2>5, <2>6, OthersKeepDecisionFrames
  <2> QED  BY <1>2, <1>3, <2>7, QuietMove
<1> QED  BY <1>4, <1>5

\* The marker goes with the order: what it says took effect has.
LEMMA StripeWebhookRecordHasShape ==
  ASSUME PaymentInv, DecisionInv, NEW h \in Invocations, StripeWebhookRecord(h)
  PROVE  PaymentMove
<1> USE DEF tableVars, paymentVars, stripeVars
<1> DEFINE o == subject[h]
           i == input[h].intentId
           e == input[h].eventId
           shown == input[h].snapshot
           before == read[h]
           after == proposed[h]
           verdict == input[h].verdict
<1>1. pc[h] = "recordStripe"
  BY DEF StripeWebhookRecord
<1>2. /\ h \in Invocations
      /\ Announced(e, i, shown)
      /\ e \in StripeEventIds
      /\ i \in IntentIds
      /\ o \in OrderIds
      /\ Shows(shown, i)
  BY <1>1, WebhookWasTold, WebhookHas DEF WebhookSteps, Snapshot
<1>3. /\ verdict = "APPLIED" => TakesIn(before, after, o, i, shown) /\ ProperNext(before, after)
      /\ verdict # "APPLIED" => after = before
      /\ verdict = "IGNORED" =>
           /\ before \in Order
           /\ before.payment.stripePaymentIntentId = i
           /\ shown.status \in TerminalPaymentStatus => before.status # "AWAITING_PAYMENT"
  BY <1>1, <1>2
  DEF PaymentInv, PaymentFramesOK, PaymentFrame, WebhookFrame, DecisionInv, DecisionFrame
<1>4. /\ Return(h)
      /\ UNCHANGED <<intents, emitted>>
      /\ StripeOrderUnchanged(o, before)
      /\ orders' = [orders EXCEPT ![o] = after]
      /\ stripeEvents' = [stripeEvents EXCEPT ![e] = verdict]
      /\ stripeEvents[e] = Undefined
  BY DEF StripeWebhookRecord, RecordStripeWebhook, StripeWebhookCommits
<1>5. /\ orders \in [OrderIds -> Order \cup {Undefined}]
      /\ stripeEvents \in [StripeEventIds -> Optional(StripeOutcomes)]
  BY DEF PaymentInv, PaymentTypeOK, TableTypeOK, ItemsTypeOK
<1>6. orders[o] = before
  <2>1. CASE before = Undefined
    BY <1>4, <2>1 DEF StripeOrderUnchanged
  <2>2. CASE before # Undefined
    BY <1>2, <1>4, <2>2 DEF StripeOrderUnchanged, VersionIs, PaymentInv, SnapshotsCurrentOrOlder
  <2> QED  BY <2>1, <2>2
<1> HIDE DEF o, i, e, shown, before, after, verdict
<1>7. OrdersMove
  <2>1. after = before \/ (after \in Order /\ ProperNext(before, after))
    BY <1>3 DEF TakesIn
  <2> QED  BY <1>2, <1>4, <1>5, <1>6, <2>1 DEF OrdersMove, ProperNext
<1>8. MarkersMove
  <2>1. ASSUME verdict \in {"APPLIED", "IGNORED"}, emitted[e].status \in TerminalPaymentStatus
        PROVE  /\ after # Undefined
               /\ after.payment.stripePaymentIntentId = i
               /\ after.status # "AWAITING_PAYMENT"
    <3>1. shown.status \in TerminalPaymentStatus
      BY <1>2, <2>1 DEF Announced
    <3>2. CASE verdict = "APPLIED"
      BY <1>3, <3>1, <3>2, UndefinedIsNoRecord DEF TakesIn, StatusFor, TerminalPaymentStatus
    <3>3. CASE verdict = "IGNORED"
      BY <1>3, <3>1, <3>3, UndefinedIsNoRecord
    <3> QED  BY <2>1, <3>2, <3>3
  <2>2. emitted[e] # Undefined /\ emitted[e].intentId = i
    BY <1>2 DEF Announced
  <2>3. orders'[o] = after /\ stripeEvents'[e] = verdict
    BY <1>2, <1>4, <1>5
  <2>4. SUFFICES ASSUME NEW f \in StripeEventIds, stripeEvents'[f] # stripeEvents[f]
                 PROVE  stripeEvents[f] = Undefined /\ DecisionKept(f)'
    BY DEF MarkersMove
  <2>5. f = e
    BY <1>4, <1>5, <2>4
  <2> QED  BY <1>2, <1>4, <2>1, <2>2, <2>3, <2>5 DEF DecisionKept
<1>9. StripeMoves /\ EmissionsGrow
  BY <1>4, StripeStill
<1>10. FramesMove
  BY <1>2, <1>4, <1>9, ReturnKeepsDecisionFrames
<1> QED  BY <1>7, <1>8, <1>9, <1>10 DEF PaymentMove

LEMMA StripeWebhookRecordCancelledHasShape ==
  ASSUME PaymentInv, DecisionInv, NEW h \in Invocations,
         StripeWebhookRecordCancelled(h)
  PROVE  PaymentMove
<1> USE DEF StripeWebhookRecordCancelled, Goto, tableVars, paymentVars, stripeVars
<1>1. /\ h \in Invocations
      /\ Announced(input[h].eventId, input[h].intentId, input[h].snapshot)
  BY WebhookWasTold DEF WebhookSteps
<1>2. pc'[h] = "resolveStripe" /\ \A g \in Invocations \ {h} : pc'[g] = pc[g]
  BY <1>1 DEF PaymentInv, PaymentTypeOK, TableTypeOK, FramesTypeOK
<1>3. DecisionFrame(h)'
  BY <1>1, <1>2 DEF DecisionFrame, Announced
<1>4. StripeMoves /\ EmissionsGrow
  BY StripeStill
<1>5. FramesMove
  BY <1>1, <1>2, <1>3, <1>4, OthersKeepDecisionFrames
<1> QED  BY <1>4, <1>5, QuietMove

LEMMA StripeWebhookResolveHasShape ==
  ASSUME PaymentInv, DecisionInv, NEW h \in Invocations, StripeWebhookResolve(h)
  PROVE  PaymentMove
<1> USE DEF tableVars, paymentVars, stripeVars
<1>1. /\ h \in Invocations
      /\ Announced(input[h].eventId, input[h].intentId, input[h].snapshot)
  BY WebhookWasTold DEF WebhookSteps, StripeWebhookResolve
<1>2. StripeMoves /\ EmissionsGrow /\ UNCHANGED <<orders, stripeEvents>>
  BY StripeStill DEF StripeWebhookResolve
<1>3. CASE Return(h)
  <2>1. FramesMove
    BY <1>1, <1>2, <1>3, ReturnKeepsDecisionFrames
  <2> QED  BY <1>2, <2>1, QuietMove
<1>4. CASE ~Return(h)
  <2>1. /\ read' = [read EXCEPT ![h] = Undefined]
        /\ proposed' = [proposed EXCEPT ![h] = Undefined]
        /\ pc' = [pc EXCEPT ![h] = "lookup"]
        /\ UNCHANGED <<subject, input, emitted>>
    BY <1>4 DEF StripeWebhookResolve, Goto
  <2>2. /\ pc'[h] = "lookup"
        /\ \A g \in Invocations \ {h} :
             pc'[g] = pc[g] /\ read'[g] = read[g] /\ proposed'[g] = proposed[g]
    BY <1>1, <2>1 DEF PaymentInv, PaymentTypeOK, TableTypeOK, FramesTypeOK
  <2>3. DecisionFrame(h)'
    BY <1>1, <2>1, <2>2 DEF DecisionFrame, Announced
  <2>4. FramesMove
    BY <1>1, <1>2, <2>1, <2>2, <2>3, OthersKeepDecisionFrames
  <2> QED  BY <1>2, <2>4, QuietMove
<1> QED  BY <1>3, <1>4

(***************************************************************************)
(* Every step keeps what is decided.                                       *)
(***************************************************************************)
LEMMA PaymentStepHasShape ==
  ASSUME PaymentInv, WaitingIsUndecided, DecisionInv, [PaymentNext]_allPaymentVars
  PROVE  PaymentMove
<1>1. CASE Stripe
  BY <1>1, StripeHasShape
<1>2. ASSUME NEW o \in OrderIds, CreateOrder(o)
      PROVE  PaymentMove
  BY <1>2, CreateOrderHasShape
<1>3. ASSUME NEW h \in PrepareInvocations, PrepareStep(h)
      PROVE  PaymentMove
  BY <1>3, PrepareStepHasShape
<1>4. ASSUME NEW h \in PrepareInvocations, NEW o \in OrderIds, PrepareGet(h, o)
      PROVE  PaymentMove
  BY <1>4, PrepareGetHasShape
<1>5. ASSUME NEW h \in StripeWebhookInvocations, StripeWebhookStep(h)
      PROVE  PaymentMove
  BY <1>5, PaymentInvocations, StripeWebhookLookupHasShape, StripeWebhookLoadHasShape,
     StripeWebhookRecordHasShape, StripeWebhookRecordCancelledHasShape,
     StripeWebhookResolveHasShape DEF StripeWebhookStep
<1>6. ASSUME NEW h \in StripeWebhookInvocations, NEW e \in StripeEventIds,
             StripeWebhookRetrieve(h, e)
      PROVE  PaymentMove
  BY <1>6, PaymentInvocations, StripeWebhookRetrieveHasShape
<1>7. CASE (Tick /\ UNCHANGED paymentVars) \/ UNCHANGED allPaymentVars
  <2> USE <1>7 DEF Tick, allPaymentVars, baseVars, paymentVars, tableVars, frameVars, stripeVars
  <2>1. StripeMoves /\ EmissionsGrow
    BY StripeStill
  <2>2. FramesMove
    BY <2>1, DecisionFrameStays DEF FramesMove, DecisionInv
  <2> QED  BY <2>1, <2>2, QuietMove
<1>8. ASSUME NEW h \in Invocations, Crash(h), UNCHANGED paymentVars
      PROVE  PaymentMove
  <2> USE <1>8 DEF Crash, paymentVars, tableVars, stripeVars
  <2>1. StripeMoves /\ EmissionsGrow
    BY StripeStill
  <2>2. FramesMove
    BY <2>1, ReturnKeepsDecisionFrames
  <2> QED  BY <2>1, <2>2, QuietMove
<1> QED
  BY <1>1, <1>2, <1>3, <1>4, <1>5, <1>6, <1>7, <1>8 DEF PaymentNext, PaymentStep

LEMMA PaymentInitHasDecisions ==
  ASSUME PaymentInit
  PROVE  DecisionInv
  BY DEF PaymentInit, TableInit, FramesInit, StripeInit, DecisionInv, DecisionFrame,
     EventsShowDecisions

\* The order that carries a recorded event's intent is the one it names.
LEMMA DecidedIsOurs ==
  ASSUME PaymentInv, IntentsBelong, DecisionInv
  PROVE  DecisionNeverLost
<1> SUFFICES ASSUME NEW e \in StripeEventIds, stripeEvents[e] \in {"APPLIED", "IGNORED"},
                    emitted[e].status \in TerminalPaymentStatus
             PROVE  orders[intents[emitted[e].intentId].orderId].status # "AWAITING_PAYMENT"
  BY DEF DecisionNeverLost
<1> DEFINE i == emitted[e].intentId
<1>1. DecisionKept(e)
  BY UndefinedIsNoOutcome DEF DecisionInv, StripeOutcomes
<1>2. i \in IntentIds
  BY <1>1 DEF DecisionKept, PaymentInv, PaymentTypeOK, StripeTypeOK
<1>3. PICK o \in OrderIds :
        /\ orders[o] # Undefined
        /\ orders[o].payment.stripePaymentIntentId = i
        /\ orders[o].status # "AWAITING_PAYMENT"
  BY <1>1 DEF DecisionKept
<1>4. intentMapping[i] = o
  BY <1>2, <1>3 DEF PaymentInv, IntentLookupAgrees
<1>5. intents[i].orderId = o
  BY <1>2, <1>4, UndefinedIsNoOrderId DEF IntentsBelong, IntentIsFor
<1> QED  BY <1>3, <1>5

(***************************************************************************)
(* What is decided, in every behaviour.                                    *)
(***************************************************************************)

\* The strengthening is inductive: what events announced, snapshots showed
\* and invocations proposed stays consistent with the orders.
THEOREM DecisionInvariant == PaymentSpec => []DecisionInv
<1>1. PaymentInit => DecisionInv
  BY PaymentInitHasDecisions
<1>2. PaymentInv /\ StatusFollowsPayment /\ DecisionInv /\ [PaymentNext]_allPaymentVars => DecisionInv'
  BY FollowingIsUndecided, PaymentStepHasShape, MoveKeepsDecisions
<1> QED  BY <1>1, <1>2, PaymentInvariant, StatusAndPayment, PTL DEF PaymentSpec

\* A delivery of processStripeWebhook that Stripe will not repeat has had its
\* effect: once an event that announced a decided payment is recorded as
\* applied or ignored, no slower invocation makes its order wait again.
THEOREM DecisionsAreKept == PaymentSpec => []DecisionNeverLost
<1>1. PaymentInv /\ IntentsBelong /\ DecisionInv => DecisionNeverLost
  BY DecidedIsOurs
<1> QED  BY <1>1, PaymentInvariant, IntentsStayBound, DecisionInvariant, PTL

\* However often Stripe repeats a delivery, recordStripeWebhook writes the
\* event's marker once, with the change of the order.
THEOREM EventsTakeEffectOnce == PaymentSpec => EventTakesEffectOnce
<1>1. PaymentInv /\ StatusFollowsPayment /\ DecisionInv /\ [PaymentNext]_allPaymentVars =>
        [ \A e \in StripeEventIds :
            stripeEvents[e] # Undefined => stripeEvents'[e] = stripeEvents[e] ]_stripeEvents
  BY FollowingIsUndecided, PaymentStepHasShape DEF PaymentMove, MarkersMove
<1> QED  BY <1>1, PaymentInvariant, StatusAndPayment, DecisionInvariant, PTL DEF PaymentSpec, EventTakesEffectOnce

\* Whatever requests and webhooks interleave, an order changes one version at
\* a time, never back in time, keeps its intent and leaves a decided payment
\* as it is (the aggregate's invariants under conditional writes).
THEOREM PaymentChangesProper == PaymentSpec => OrdersChangeProperly
<1>1. PaymentInv /\ StatusFollowsPayment /\ DecisionInv /\ [PaymentNext]_allPaymentVars =>
        [ \A o \in OrderIds :
            orders'[o] # orders[o] =>
              /\ orders'[o] # Undefined
              /\ orders[o] # Undefined => CommittedChange(orders[o], orders'[o]) ]_orders
  BY FollowingIsUndecided, PaymentStepHasShape, UndefinedIsNoRecord DEF PaymentMove, OrdersMove, ProperNext
<1> QED  BY <1>1, PaymentInvariant, StatusAndPayment, DecisionInvariant, PTL DEF PaymentSpec, OrdersChangeProperly
==============================================================================
