-------------------------- MODULE OrderServiceProofs --------------------------
(***************************************************************************)
(* Proofs about OrderService and the two repositories under it.  The       *)
(* inductive invariants of the two flows hold together, because each flow  *)
(* moves only its own invocations and respects what the other relies on:   *)
(* payment touches only orders that wait for it, delivery never touches    *)
(* those, nor any payment.  From them: what is promised from end to end,   *)
(* that the two repositories answer alike, that the service goes through   *)
(* the promised lifecycle, and that what each flow keeps alone (decisions, *)
(* event markers, acceptances, proper changes of orders) it keeps with the *)
(* other at work on the same table.                                        *)
(***************************************************************************)
EXTENDS MemoryRepository, PaymentFlowProofs, DeliveryFlowProofs

(***************************************************************************)
(* The inductive invariant.                                                *)
(***************************************************************************)

Paid(o) == orders[o] # Undefined /\ orders[o].payment.status = "SUCCEEDED"

\* An order waits while its payment is undecided, and goes on when it is paid.
SoundOrder(order) ==
  /\ order.status = "AWAITING_PAYMENT" => order.payment.status \notin TerminalPaymentStatus
  /\ order.status \notin {"AWAITING_PAYMENT", "CANCELLED"} => order.payment.status = "SUCCEEDED"

SoundOrders == \A o \in OrderIds : orders[o] # Undefined => SoundOrder(orders[o])

\* Where the provider is asked, or has answered, there is money.
AcceptedArePaid == \A o \in OrderIds : Accepted(o) => Paid(o)

SubmittedArePaid == \A h \in Workers : pc[h] = "submit" => Paid(subject[h])

ServiceInv ==
  /\ PaymentInv
  /\ DeliveryInv
  /\ AcceptanceInv
  /\ IntentsBelong
  /\ SoundOrders
  /\ AcceptedArePaid
  /\ SubmittedArePaid

(***************************************************************************)
(* A step of the payment side.                                             *)
(***************************************************************************)

\* The side's commits, as delivery sees them: an order that has not been
\* paid, and so not been submitted, goes where its payment takes it.
PaymentMoves(o) ==
  \/ orders'[o] = orders[o]
  \/ /\ orders'[o] \in Order
     /\ orders'[o].deliveryProviderOrderId = Undefined
     /\ orders'[o].acceptedAt = Undefined
     /\ orders'[o].status = StatusFor(orders'[o].payment.status)
     /\ \/ orders[o] = Undefined /\ orders'[o].status = "AWAITING_PAYMENT"
        \/ /\ orders[o] \in Order
           /\ orders[o].status = "AWAITING_PAYMENT"
           /\ orders[o].payment.status \notin TerminalPaymentStatus
           /\ orders[o].deliveryProviderOrderId = Undefined
           /\ orders'[o].version = orders[o].version + 1

LEMMA PaymentMovesOwn ==
  ASSUME ServiceInv, PaymentStep, NEW o \in OrderIds
  PROVE  PaymentMoves(o)
<1> USE DEF ServiceInv
<1>1. CASE orders' = orders
  BY <1>1 DEF PaymentMoves
<1>2. ASSUME NEW q \in OrderIds, NEW after \in Order, PaymentCommits(q, after)
      PROVE  PaymentMoves(o)
  <2>1. /\ orders'[q] = after
        /\ \A r \in OrderIds \ {q} : orders'[r] = orders[r]
    BY <1>2 DEF PaymentCommits, PaymentInv, PaymentTypeOK, TableTypeOK, ItemsTypeOK
  <2>2. CASE q # o
    BY <2>1, <2>2 DEF PaymentMoves
  <2>3. CASE q = o /\ orders[q] = Undefined /\ after = NewOrder(clock)
    <3>1. /\ after.deliveryProviderOrderId = Undefined
          /\ after.acceptedAt = Undefined
          /\ after.status = "AWAITING_PAYMENT"
          /\ after.payment.status = "NOT_STARTED"
      BY <2>3 DEF NewOrder
    <3> QED  BY <2>1, <2>3, <3>1 DEF PaymentMoves, StatusFor
  <2>4. CASE q = o /\ orders[q] \in Order /\ PaysFor(orders[q], after)
    <3>1. orders[o] # Undefined /\ orders[o].status = "AWAITING_PAYMENT"
      BY <2>4, UndefinedIsNoRecord DEF PaysFor
    <3>2. /\ orders[o].deliveryProviderOrderId = Undefined
          /\ orders[o].acceptedAt = Undefined
      BY <3>1 DEF AcceptanceInv, Clean, EarlyStatus
    <3>3. orders[o].payment.status \notin TerminalPaymentStatus
      BY <3>1 DEF SoundOrders, SoundOrder
    <3> QED  BY <2>1, <2>4, <3>1, <3>2, <3>3 DEF PaymentMoves, PaysFor
  <2> QED  BY <1>2, <2>2, <2>3, <2>4 DEF PaymentCommits
<1> QED  BY <1>1, <1>2, PaymentMovesOrders

\* An invocation of the payment side has nothing of delivery in hand.
LEMMA PaysIsNoDelivery ==
  ASSUME NEW g \in Invocations, Pays(g)
  PROVE  /\ g \notin Workers \cup OperatorInvocations \cup ProviderInvocations
         /\ pc'[g] \notin DeliverySteps
  BY ServiceInvocations DEF Pays, PaymentSteps, DeliverySteps

LEMMA PaymentSideStreams ==
  ASSUME ServiceInv, PaymentSide, NEW o \in OrderIds, orders'[o] # orders[o]
  PROVE  RequestsOf(o, orders'[o]) \subseteq stream'
  BY DEF PaymentSide, StreamedRequests

LEMMA PaymentSideKeepsDelivery ==
  ASSUME ServiceInv, PaymentInv', PaymentSide
  PROVE  DeliveryInv'
<1> USE DEF ServiceInv
<1>0. PaymentStep /\ \A o \in OrderIds : PaymentMoves(o)
  BY PaymentMovesOwn DEF PaymentSide
<1>1. /\ providerMapping' = providerMapping
      /\ providerEvents' = providerEvents
      /\ \A g \in Invocations : KeepsMemory(g) \/ Pays(g)
  BY <1>0, PaymentTouchesOwn
<1>2. /\ UNCHANGED <<queue, receives, duplicates, vendor, sent, reconciliation>>
      /\ stream' = stream \cup StreamedRequests
  BY DEF PaymentSide, vendorVars
<1>3. ASSUME NEW m \in StreamedRequests
      PROVE  /\ m.orderId \in OrderIds /\ m.version \in Nat
             /\ m \in [orderId : OrderIds, version : Nat]
             /\ orders'[m.orderId] # Undefined
  <2>1. PICK o \in OrderIds : orders'[o] # orders[o] /\ m \in RequestsOf(o, orders'[o])
    BY DEF StreamedRequests
  <2>2. orders'[o] \in Order
    BY <1>0, <2>1 DEF PaymentMoves
  <2>3. m = Request(o, orders'[o].version) /\ orders'[o].version \in Nat
    BY <2>1, <2>2 DEF RequestsOf, Order
  <2> QED  BY <2>2, <2>3, UndefinedIsNoRecord DEF Request
<1>4. DeliveryTyped'
  <2>1. TableTypeOK'
    BY DEF PaymentInv, PaymentTypeOK
  <2>2. QueueKept'
    BY <1>2, <1>3 DEF DeliveryInv, DeliveryTyped, QueueKept
  <2>3. EventsTypeOK'
    BY <1>1, <1>2 DEF DeliveryInv, DeliveryTyped, EventsTypeOK
  <2>4. InputsTypeOK'
    <3>1. \A g \in Workers \cup ProviderInvocations : input'[g] = input[g]
      BY <1>1, PaysIsNoDelivery, DeliveryInvocations DEF KeepsMemory
    <3> QED  BY <3>1 DEF DeliveryInv, DeliveryTyped, InputsTypeOK
  <2> QED  BY <2>1, <2>2, <2>3, <2>4 DEF DeliveryTyped
<1>5. DeliveryFramesOK'
  <2> SUFFICES ASSUME NEW g \in Invocations PROVE DeliveryFrame(g)'
    BY DEF DeliveryFramesOK
  <2>1. CASE KeepsMemory(g)
    BY <2>1 DEF DeliveryInv, DeliveryFramesOK, DeliveryFrame, WorkerFrame, OperatorFrame,
                ProviderFrame, KeepsMemory
  <2>2. CASE Pays(g)
    BY <2>2, PaysIsNoDelivery DEF DeliveryFrame, WorkerFrame, OperatorFrame, ProviderFrame,
                                  DeliverySteps
  <2> QED  BY <1>1, <2>1, <2>2
<1>6. DeliveryTargetsExist'
  <2>1. \A o \in OrderIds : orders[o] # Undefined => orders'[o] # Undefined
    BY <1>0, UndefinedIsNoRecord DEF PaymentMoves
  <2>2. \A m \in stream' \cup queue' : orders'[m.orderId] # Undefined
    <3> SUFFICES ASSUME NEW m \in stream' \cup queue', m \notin StreamedRequests
                 PROVE  orders'[m.orderId] # Undefined
      BY <1>3
    <3>1. m \in stream \cup queue
      BY <1>2
    <3>2. m.orderId \in OrderIds
      BY <3>1 DEF DeliveryInv, DeliveryTyped, QueueKept, Requests
    <3> QED  BY <2>1, <3>1, <3>2 DEF DeliveryInv, DeliveryTargetsExist
  <2>3. \A p \in ProviderIds :
          providerMapping'[p] # Undefined => orders'[providerMapping'[p]] # Undefined
    <3>1. \A p \in ProviderIds : providerMapping[p] \in OrderIds \cup {Undefined}
      BY DEF DeliveryInv, DeliveryTyped, TableTypeOK, ItemsTypeOK, Optional
    <3> QED  BY <1>1, <2>1, <3>1 DEF DeliveryInv, DeliveryTargetsExist
  <2> QED  BY <2>2, <2>3 DEF DeliveryTargetsExist
<1>7. PendingHasRequest'
  <2> SUFFICES ASSUME NEW o \in OrderIds, orders'[o] # Undefined,
                      orders'[o].status = "PENDING_SUBMISSION"
               PROVE  Request(o, orders'[o].version) \in stream' \cup queue'
    BY DEF PendingHasRequest
  <2>1. CASE orders'[o] = orders[o]
    BY <1>2, <2>1 DEF DeliveryInv, PendingHasRequest
  <2>2. CASE orders'[o] # orders[o]
    BY <2>2, PaymentSideStreams DEF RequestsOf
  <2> QED  BY <2>1, <2>2
<1> QED  BY <1>4, <1>5, <1>6, <1>7 DEF DeliveryInv, PaymentInv

LEMMA PaymentSideKeepsAcceptance ==
  ASSUME ServiceInv, PaymentSide
  PROVE  AcceptanceInv'
<1> USE DEF ServiceInv
<1>0. PaymentStep /\ \A o \in OrderIds : PaymentMoves(o)
  BY PaymentMovesOwn DEF PaymentSide
<1>1. /\ providerMapping' = providerMapping
      /\ \A g \in Invocations : KeepsMemory(g) \/ Pays(g)
  BY <1>0, PaymentTouchesOwn
<1>2. vendor' = vendor
  BY DEF PaymentSide, vendorVars
<1>3. \A o \in OrderIds : orders'[o] # Undefined => Clean(orders'[o])
  BY <1>0 DEF AcceptanceInv, PaymentMoves, Clean
<1>4. \A g \in Invocations : ProposalFrame(g)'
  <2> SUFFICES ASSUME NEW g \in Invocations PROVE ProposalFrame(g)'
    OBVIOUS
  <2>1. CASE KeepsMemory(g)
    BY <1>2, <2>1 DEF AcceptanceInv, ProposalFrame, KeepsMemory, TellsAcceptance, Accepted
  <2>2. CASE Pays(g)
    <3>1. read'[g] # Undefined => Clean(read'[g])
      BY <2>2 DEF Pays, AcceptanceInv, ProposalFrame
    <3> QED  BY <2>2, <3>1, PaysIsNoDelivery DEF ProposalFrame, DeliverySteps
  <2> QED  BY <1>1, <2>1, <2>2
<1>5. ProviderLookupAgrees'
  <2> SUFFICES ASSUME NEW p \in ProviderIds, NEW o \in OrderIds
               PROVE  providerMapping'[p] = o <=>
                        (orders'[o] # Undefined /\ orders'[o].deliveryProviderOrderId = p)
    BY DEF ProviderLookupAgrees
  <2>1. (orders'[o] # Undefined /\ orders'[o].deliveryProviderOrderId = p)
          <=> (orders[o] # Undefined /\ orders[o].deliveryProviderOrderId = p)
    BY <1>0, UndefinedIsNoValue DEF PaymentMoves
  <2> QED  BY <1>1, <2>1 DEF AcceptanceInv, ProviderLookupAgrees
<1>6. CarriedIsTruthful'
  <2> SUFFICES ASSUME NEW o \in OrderIds, orders'[o] # Undefined,
                      orders'[o].deliveryProviderOrderId \notin OperatorProviderIds \cup {Undefined}
               PROVE  TellsAcceptance(o, orders[o])'
    BY DEF CarriedIsTruthful, TellsAcceptance
  <2>1. orders'[o] = orders[o]
    BY <1>0 DEF PaymentMoves
  <2>2. TellsAcceptance(o, orders[o])
    BY <2>1 DEF AcceptanceInv, CarriedIsTruthful
  <2> QED  BY <1>2, <2>1, <2>2 DEF TellsAcceptance, Accepted
<1> QED  BY <1>3, <1>4, <1>5, <1>6 DEF AcceptanceInv

LEMMA PaymentSideKeepsInv ==
  ASSUME ServiceInv, PaymentSide
  PROVE  ServiceInv'
<1> USE DEF ServiceInv
<1>0. PaymentStep /\ \A o \in OrderIds : PaymentMoves(o)
  BY PaymentMovesOwn DEF PaymentSide
<1>1. PaymentInv' /\ IntentsBelong'
  BY <1>0, PaymentStepKeepsInv, PaymentKeepsBelonging DEF PaymentNext
<1>2. DeliveryInv' /\ AcceptanceInv'
  BY <1>1, PaymentSideKeepsDelivery, PaymentSideKeepsAcceptance
<1>3. SoundOrders'
  <2>1. \A o \in OrderIds : orders'[o] # Undefined => SoundOrder(orders'[o])
    BY <1>0 DEF SoundOrders, SoundOrder, PaymentMoves, StatusFor, TerminalPaymentStatus
  <2> QED  BY <2>1 DEF SoundOrders, SoundOrder
<1>4. ASSUME NEW o \in OrderIds, Paid(o) PROVE Paid(o)'
  <2>1. orders'[o] = orders[o]
    BY <1>0, <1>4 DEF Paid, PaymentMoves, TerminalPaymentStatus
  <2> QED  BY <1>4, <2>1 DEF Paid
<1>5. AcceptedArePaid'
  <2>1. vendor' = vendor
    BY DEF PaymentSide, vendorVars
  <2> QED  BY <1>4, <2>1 DEF AcceptedArePaid, Accepted
<1>6. SubmittedArePaid'
  <2> SUFFICES ASSUME NEW h \in Workers, pc'[h] = "submit" PROVE Paid(subject[h])'
    BY DEF SubmittedArePaid
  <2>1. KeepsMemory(h) /\ h \in Invocations
    BY <1>0, PaymentTouchesOwn, PaysIsNoDelivery, DeliveryInvocations
  <2>2. pc[h] = "submit" /\ subject'[h] = subject[h]
    BY <2>1 DEF KeepsMemory
  <2>3. subject[h] \in OrderIds /\ Paid(subject[h])
    BY <2>1, <2>2 DEF DeliveryInv, DeliveryFramesOK, DeliveryFrame, WorkerFrame, Requests,
                      SubmittedArePaid
  <2> QED  BY <1>4, <2>2, <2>3 DEF Paid
<1> QED  BY <1>1, <1>2, <1>3, <1>5, <1>6

(***************************************************************************)
(* A step of the delivery side, of time, or of nobody.                     *)
(***************************************************************************)

\* What delivery's commits leave alone: the payment of every order, and the
\* orders that wait for it.
DeliveryMoves(o) ==
  \/ orders'[o] = orders[o]
  \/ /\ orders[o] \in Order
     /\ orders'[o] \in Order
     /\ orders[o].status # "AWAITING_PAYMENT"
     /\ Progresses(orders[o], orders'[o])

LEMMA DeliveryMovesOwn ==
  ASSUME ServiceInv, TableMoves, NEW o \in OrderIds
  PROVE  DeliveryMoves(o)
<1> USE DEF ServiceInv
<1>1. CASE orders[o] = Undefined
  BY <1>1, OrdersStay DEF DeliveryMoves
<1>2. CASE orders[o] # Undefined
  <2>1. orders[o] \in Order /\ orders'[o] \in Order /\ Follows(orders[o], orders'[o])
    BY <1>2, OrdersMoveCleanly
  <2>2. SoundOrder(orders[o])
    BY <1>2 DEF SoundOrders
  <2> QED
    BY ONLY <2>1, <2>2
    DEF DeliveryMoves, Follows, Progresses, SoundOrder, TerminalPaymentStatus
<1> QED  BY <1>1, <1>2

LEMMA DeliveryKeepsSoundOrders ==
  ASSUME ServiceInv, TableMoves
  PROVE  SoundOrders' /\ \A o \in OrderIds : Paid(o) => Paid(o)'
<1> USE DEF ServiceInv
<1>1. ASSUME NEW o \in OrderIds, orders'[o] # Undefined
      PROVE  SoundOrder(orders'[o])
  <2>1. CASE orders'[o] = orders[o]
    BY <1>1, <2>1 DEF SoundOrders
  <2>2. CASE orders'[o] # orders[o]
    <3>1. /\ orders[o] \in Order /\ orders'[o] \in Order
          /\ orders[o].status # "AWAITING_PAYMENT"
          /\ Progresses(orders[o], orders'[o])
      BY <2>2, DeliveryMovesOwn DEF DeliveryMoves
    <3>2. SoundOrder(orders[o])
      BY <3>1, UndefinedIsNoRecord DEF SoundOrders
    <3>3. orders[o].status \in OrderStatus
      BY <3>1 DEF Order
    <3> QED
      BY ONLY <3>1, <3>2, <3>3
      DEF Progresses, SoundOrder, OrderStatus, AllowedTransitions
  <2> QED  BY <2>1, <2>2
<1>2. SoundOrders'
  BY <1>1 DEF SoundOrders, SoundOrder
<1>3. ASSUME NEW o \in OrderIds, Paid(o) PROVE Paid(o)'
  BY <1>3, DeliveryMovesOwn, UndefinedIsNoRecord DEF Paid, DeliveryMoves, Progresses
<1> QED  BY <1>2, <1>3

\* Delivery takes nothing the payment side relies on.
LEMMA DeliveryKeepsPayment ==
  ASSUME ServiceInv, DeliveryInv', TableMoves, UNCHANGED paymentVars, intentMapping' = intentMapping,
         \A g \in Invocations : KeepsMemory(g) \/ Delivers(g)
  PROVE  PaymentInv' /\ IntentsBelong'
<1> USE DEF ServiceInv, paymentVars, stripeVars
<1>1. \A o \in OrderIds :
        /\ orders[o] = Undefined <=> orders'[o] = Undefined
        /\ orders[o] # Undefined => orders'[o].payment = orders[o].payment
  BY DeliveryMovesOwn, UndefinedIsNoRecord DEF DeliveryMoves, Progresses
<1>2. IntentsEvolve /\ MappingGrows
  BY DEF IntentsEvolve, MappingGrows
<1>3. PaymentTypeOK'
  <2>1. TableTypeOK' /\ StripeTypeOK'
    BY DEF DeliveryInv, DeliveryTyped, PaymentInv, PaymentTypeOK, StripeTypeOK
  <2>2. \A g \in StripeWebhookInvocations : input'[g] = input[g]
    BY ServiceInvocations, PaymentInvocations DEF Delivers, KeepsMemory
  <2>3. WebhookInputsOK'
    BY <2>2 DEF PaymentInv, PaymentTypeOK, WebhookInputsOK
  <2> QED  BY <2>1, <2>3 DEF PaymentTypeOK
<1>4. PaymentFramesOK'
  <2> SUFFICES ASSUME NEW g \in Invocations PROVE PaymentFrame(g)'
    BY DEF PaymentFramesOK
  <2>1. CASE KeepsMemory(g)
    BY <1>2, <2>1, PaymentFrameStays DEF PaymentInv, PaymentFramesOK, KeepsMemory
  <2>2. CASE Delivers(g)
    BY <2>2 DEF Delivers, DeliverySteps, PaymentFrame, PrepareFrame, WebhookFrame
  <2> QED  BY <2>1, <2>2
<1>5. IntentLookupAgrees'
  <2>1. ASSUME NEW i \in IntentIds, NEW o \in OrderIds
        PROVE  intentMapping'[i] = o <=>
                 (orders'[o] # Undefined /\ orders'[o].payment.stripePaymentIntentId = i)
    BY <1>1 DEF PaymentInv, IntentLookupAgrees
  <2> QED  BY <2>1 DEF IntentLookupAgrees
<1>6. EventsShowIntents'
  BY DEF PaymentInv, EventsShowIntents
<1>7. SecretOnlyAfterMapping'
  <2> SUFFICES ASSUME NEW i \in secretReleased
               PROVE  \E o \in OrderIds :
                        /\ intentMapping'[i] = o
                        /\ orders'[o].payment.stripePaymentIntentId = i
    BY DEF SecretOnlyAfterMapping
  <2>1. PICK o \in OrderIds :
          intentMapping[i] = o /\ orders[o].payment.stripePaymentIntentId = i
    BY DEF PaymentInv, SecretOnlyAfterMapping
  <2>2. i \in IntentIds
    BY DEF PaymentInv, PaymentTypeOK, StripeTypeOK
  <2>3. orders[o] # Undefined
    BY <2>1, <2>2 DEF PaymentInv, IntentLookupAgrees
  <2> QED  BY <1>1, <2>1, <2>3
<1>8. PaidHasIntent' /\ MoneyIsThere'
  <2>1. ASSUME NEW o \in OrderIds, orders'[o] # Undefined, orders'[o].payment.status = "SUCCEEDED"
        PROVE  /\ orders[o] # Undefined /\ orders[o].payment.status = "SUCCEEDED"
               /\ orders'[o].payment.stripePaymentIntentId = orders[o].payment.stripePaymentIntentId
    BY <1>1, <2>1
  <2>2. PaidHasIntent'
    BY <2>1 DEF PaymentInv, PaidHasIntent
  <2>3. MoneyIsThere'
    BY <2>1 DEF PaymentInv, MoneyIsThere, Collected
  <2> QED  BY <2>2, <2>3
<1>9. PaymentInv'
  BY <1>3, <1>4, <1>5, <1>6, <1>7, <1>8 DEF PaymentInv, DeliveryInv
<1>10. IntentsBelong'
  <2>1. \A g \in Invocations : KeepsOwners(g)
    BY DEF Delivers, DeliverySteps, KeepsMemory, KeepsOwners, WebhookSteps
  <2>2. OwnersStay
    BY DEF OwnersStay
  <2> QED  BY <1>2, <2>1, <2>2, BelongingMoves
<1> QED  BY <1>9, <1>10

\* The provider is asked about, and accepts, paid orders only.
LEMMA DeliveryKeepsPaid ==
  ASSUME ServiceInv, DeliveryInv', PromiseStep
  PROVE  AcceptedArePaid' /\ SubmittedArePaid'
<1> USE DEF ServiceInv, PromiseStep
<1>1. \A o \in OrderIds : Paid(o) => Paid(o)'
  BY DeliveryKeepsSoundOrders
<1>2. ASSUME NEW h \in Workers, pc[h] = "submit"
      PROVE  subject[h] \in OrderIds /\ Paid(subject[h])
  BY <1>2, DeliveryInvocations
     DEF DeliveryInv, DeliveryFramesOK, DeliveryFrame, WorkerFrame, Requests, SubmittedArePaid
<1>3. AcceptedArePaid'
  <2> SUFFICES ASSUME NEW o \in OrderIds, Accepted(o)' PROVE Paid(o)'
    BY DEF AcceptedArePaid
  <2>1. CASE Accepted(o)
    BY <1>1, <2>1 DEF AcceptedArePaid
  <2>2. CASE ~Accepted(o)
    <3>1. \E h \in Workers : pc[h] = "submit" /\ subject[h] = o
      BY <2>2 DEF VendorMoves, Accepted
    <3> QED  BY <1>1, <1>2, <3>1
  <2> QED  BY <2>1, <2>2
<1>4. SubmittedArePaid'
  <2> SUFFICES ASSUME NEW h \in Workers, pc'[h] = "submit" PROVE Paid(subject[h])'
    BY DEF SubmittedArePaid
  <2>0. h \in Invocations
    BY DeliveryInvocations
  <2>1. CASE KeepsFrame(h)
    <3>1. pc[h] = "submit" /\ subject'[h] = subject[h]
      BY <2>1 DEF KeepsFrame
    <3>2. PICK o \in OrderIds : o = subject[h] /\ Paid(o)
      BY <1>2, <3>1
    <3>3. Paid(o)'
      BY <1>1, <3>2
    <3> QED  BY <3>1, <3>2, <3>3 DEF Paid
  <2>2. CASE TakesUp(h)
    <3>1. PICK o \in OrderIds : o = subject'[h] /\ Paid(o)
      BY <2>2 DEF TakesUp, Paid
    <3>2. Paid(o)'
      BY <1>1, <3>1
    <3> QED  BY <3>1, <3>2 DEF Paid
  <2> QED  BY <2>0, <2>1, <2>2 DEF FrameMoves, Forgets, Proposes
<1> QED  BY <1>3, <1>4

LEMMA DeliverySideKeepsInv ==
  ASSUME ServiceInv, DeliverySide
  PROVE  ServiceInv'
<1> USE DEF ServiceInv
<1>1. DeliveryInv' /\ PromiseStep
  BY DeliveryStepKeepsInv, DeliveryStepHasShape DEF DeliverySide, DeliveryNext
<1>2. AcceptanceInv'
  BY <1>1, StepKeepsAcceptance
<1>3. /\ intentMapping' = intentMapping
      /\ \A g \in Invocations : KeepsMemory(g) \/ Delivers(g)
  BY DeliveryTouchesOwn DEF DeliverySide, DeliveryInv, DeliveryTyped, TableTypeOK
<1>4. TableMoves
  BY <1>1 DEF PromiseStep
<1>5. PaymentInv' /\ IntentsBelong'
  BY <1>1, <1>3, <1>4, DeliveryKeepsPayment DEF DeliverySide
<1>6. SoundOrders' /\ AcceptedArePaid' /\ SubmittedArePaid'
  BY <1>1, <1>4, DeliveryKeepsSoundOrders, DeliveryKeepsPaid
<1> QED  BY <1>1, <1>2, <1>5, <1>6

LEMMA ServiceRestKeepsInv ==
  ASSUME ServiceInv,
         \/ Tick /\ UNCHANGED <<paymentVars, deliveryVars>>
         \/ \E h \in Invocations : Crash(h) /\ UNCHANGED <<paymentVars, deliveryVars>>
         \/ UNCHANGED serviceVars
  PROVE  ServiceInv'
<1> USE DEF ServiceInv
<1>1. /\ UNCHANGED paymentVars
      /\ UNCHANGED deliveryVars
      /\ Tick \/ (\E h \in Invocations : Crash(h)) \/ UNCHANGED baseVars
  BY DEF serviceVars
<1>2. PaymentInv'
  BY <1>1, PaymentOtherStepKeepsInv DEF allPaymentVars
<1>3. DeliveryInv' /\ PromiseStep
  BY <1>1, DeliveryOtherStepKeepsInv, OtherStepHasShape
<1>4. AcceptanceInv'
  BY <1>3, StepKeepsAcceptance
<1>5. SoundOrders' /\ AcceptedArePaid' /\ SubmittedArePaid'
  BY <1>3, DeliveryKeepsSoundOrders, DeliveryKeepsPaid DEF PromiseStep
<1>6. IntentsBelong'
  BY <1>1, RestKeepsBelonging DEF allPaymentVars
<1> QED  BY <1>2, <1>3, <1>4, <1>5, <1>6

LEMMA ServiceStepKeepsInv ==
  ASSUME ServiceInv, [ServiceNext]_serviceVars
  PROVE  ServiceInv'
  BY PaymentSideKeepsInv, DeliverySideKeepsInv, ServiceRestKeepsInv DEF ServiceNext

LEMMA ServiceInitHasInv ==
  ASSUME ServiceInit
  PROVE  ServiceInv
<1> USE DEF ServiceInit, QueueInit, PaymentInit, TableInit, FramesInit, StripeInit
<1>1. PaymentInv
  BY PaymentInitHasInv
<1>2. IntentsBelong
  BY PaymentInitBelongs
<1>3. DeliveryInv
  <2>1. QueueKept /\ EventsTypeOK /\ InputsTypeOK
    BY DeliveryInvocations DEF QueueKept, EventsTypeOK, InputsTypeOK
  <2>2. DeliveryFramesOK /\ DeliveryTargetsExist /\ PendingHasRequest
    BY DEF DeliveryFramesOK, DeliveryFrame, WorkerFrame, OperatorFrame, ProviderFrame,
           DeliveryTargetsExist, PendingHasRequest
  <2> QED  BY <1>1, <2>1, <2>2 DEF DeliveryInv, DeliveryTyped, PaymentInv, PaymentTypeOK
<1>4. AcceptanceInv
  BY UndefinedIsNoOrderId DEF AcceptanceInv, ProposalFrame, ProviderLookupAgrees, CarriedIsTruthful
<1>5. SoundOrders /\ AcceptedArePaid /\ SubmittedArePaid
  BY DeliveryInvocations DEF SoundOrders, AcceptedArePaid, Accepted, SubmittedArePaid
<1> QED  BY <1>1, <1>2, <1>3, <1>4, <1>5 DEF ServiceInv

(***************************************************************************)
(* The theorems.                                                           *)
(***************************************************************************)

\* The invariants of both flows hold of the composed service, with whatever
\* webhooks, operators, workers and crashes share the table.
THEOREM ServiceInvariant == ServiceSpec => []ServiceInv
  BY ServiceInitHasInv, ServiceStepKeepsInv, PTL DEF ServiceSpec

\* No order is fulfilled, and none accepted by the provider, whose money
\* Stripe has not collected (PAY-I01 from end to end).
THEOREM FulfilledArePaid == ServiceSpec => []OnlyPaidOrdersAreFulfilled
<1>1. ServiceInv => OnlyPaidOrdersAreFulfilled
  <2> SUFFICES ASSUME ServiceInv, NEW o \in OrderIds,
                      \/ Accepted(o)
                      \/ /\ orders[o] # Undefined
                         /\ orders[o].status \notin {"AWAITING_PAYMENT", "CANCELLED"}
               PROVE  /\ orders[o].payment.status = "SUCCEEDED"
                      /\ intents[orders[o].payment.stripePaymentIntentId].status = "SUCCEEDED"
    BY DEF OnlyPaidOrdersAreFulfilled
  <2>1. Paid(o)
    BY DEF ServiceInv, AcceptedArePaid, SoundOrders, SoundOrder, Paid
  <2> QED  BY <2>1 DEF Paid, ServiceInv, PaymentInv, MoneyIsThere, Collected
<1> QED  BY <1>1, ServiceInvariant, PTL

\* A paid order waiting for submission has its request in the stream or the
\* queue, whether a webhook or an operator made it wait.
THEOREM PaidOrdersAreRequested == ServiceSpec => []PendingHasRequest
<1>1. ServiceInv => PendingHasRequest
  BY DEF ServiceInv, DeliveryInv
<1> QED  BY <1>1, ServiceInvariant, PTL

\* What each flow promises of itself it keeps next to the other: the types of
\* both, optimistic concurrency (what an invocation read is the order or
\* older), both lookups, paid means collected, no secret before its mapping is
\* durable, and acceptances that are the provider's own.
THEOREM ServiceKeepsPromises ==
  ServiceSpec =>
    []( /\ PaymentTypeOK /\ DeliveryTyped
        /\ SnapshotsCurrentOrOlder
        /\ IntentLookupAgrees /\ ProviderLookupAgrees
        /\ PaidMeansCollected /\ SecretOnlyAfterMapping
        /\ AcceptanceIsTruthful )
<1>1. ServiceInv =>
        /\ PaymentTypeOK /\ DeliveryTyped
        /\ SnapshotsCurrentOrOlder
        /\ IntentLookupAgrees /\ ProviderLookupAgrees
        /\ PaidMeansCollected /\ SecretOnlyAfterMapping
  BY CollectedIsOurs DEF ServiceInv, PaymentInv, DeliveryInv, AcceptanceInv
<1>2. ServiceInv => AcceptanceIsTruthful
  BY DEF ServiceInv, AcceptanceInv, CarriedIsTruthful, TellsAcceptance, AcceptanceIsTruthful
<1> QED  BY <1>1, <1>2, ServiceInvariant, PTL

(***************************************************************************)
(* The two repositories.                                                   *)
(***************************************************************************)

\* A write whose version check passes is a write to the order it was read as.
LEMMA VersionMeansRead ==
  ASSUME ServiceInv, NEW h \in Invocations, read[h] # Undefined,
         VersionIs(subject[h], read[h].version)
  PROVE  orders[subject[h]] = read[h]
  BY DEF ServiceInv, PaymentInv, SnapshotsCurrentOrOlder, VersionIs

LEMMA BindsAgree ==
  ASSUME ServiceInv, NEW h \in Invocations, pc[h] = "bind"
  PROVE  LET i == proposed[h].payment.stripePaymentIntentId
         IN MemoryBind(subject[h], read[h], i) = DynamoBind(subject[h], read[h], i)
<1> DEFINE o == subject[h]
           i == proposed[h].payment.stripePaymentIntentId
           error == BindingOrderError(o, read[h], i)
<1> SUFFICES MemoryBind(o, read[h], i) = DynamoBind(o, read[h], i)
  OBVIOUS
<1>1. PrepareFrame(h)
  BY DEF ServiceInv, PaymentInv, PaymentFramesOK, PaymentFrame
<1>2. /\ read[h] # Undefined
      /\ read[h].payment.stripePaymentIntentId = Undefined
      /\ i # Undefined
  BY <1>1, UndefinedIsNoRecord, UndefinedIsNoValue DEF PrepareFrame
<1>3. CASE VersionIs(o, read[h].version)
  <2>1. orders[o] = read[h]
    BY <1>2, <1>3, VersionMeansRead
  <2>2. error = "none"
    BY <1>2, <2>1 DEF BindingOrderError
  <2> QED  BY <1>2, <1>3, <2>1, <2>2 DEF MemoryBind, DynamoBind, BindCommits
<1>4. CASE ~VersionIs(o, read[h].version)
  <2>1. error # "none"
    BY <1>4 DEF BindingOrderError, VersionIs
  <2> QED  BY <1>4, <2>1 DEF MemoryBind, DynamoBind, BindCommits
<1> QED  BY <1>3, <1>4

\* An order that waits for its acceptance carries no identifier yet, so the
\* lookup entry of the order itself is never in the way of either.
LEMMA SavesAgree ==
  ASSUME ServiceInv, NEW h \in Invocations, pc[h] \in {"saveDelivery", "saveOperator"}
  PROVE  MemorySave(subject[h], read[h], proposed[h]) = DynamoSave(subject[h], read[h], proposed[h])
<1> DEFINE o == subject[h]
           p == proposed[h].deliveryProviderOrderId
<1>1. o \in OrderIds /\ read[h] \in Order /\ read[h] # Undefined
  BY UndefinedIsNoRecord
     DEF ServiceInv, DeliveryInv, DeliveryFramesOK, DeliveryFrame, WorkerFrame, OperatorFrame, Requests
<1>2. CASE ~VersionIs(o, read[h].version)
  <2>1. OrderError(o, read[h].version) # "none"
    BY <1>2 DEF OrderError, VersionIs
  <2> QED  BY <1>2, <2>1 DEF MemorySave, DynamoSave, SaveStatusChangeCommits
<1>3. CASE VersionIs(o, read[h].version)
  <2>1. orders[o] = read[h] /\ OrderError(o, read[h].version) = "none"
    BY <1>1, <1>3, VersionMeansRead DEF OrderError, VersionIs
  <2>2. CASE ~RecordsAcceptance(read[h], proposed[h])
    BY <1>3, <2>1, <2>2 DEF MemorySave, DynamoSave, SaveStatusChangeCommits, ProviderIdTaken
  <2>3. CASE RecordsAcceptance(read[h], proposed[h])
    <3>1. /\ Follows(read[h], proposed[h]) /\ Clean(read[h])
          /\ ProviderLookupAgrees
      BY <1>1 DEF ServiceInv, AcceptanceInv, ProposalFrame
    <3>2. p \in ProviderIds /\ read[h].deliveryProviderOrderId = Undefined
      BY <2>3, <3>1 DEF RecordsAcceptance, Follows, Clean, EarlyStatus
    <3>3. providerMapping[p] # o
      BY <1>1, <2>1, <3>1, <3>2, UndefinedIsNoValue DEF ProviderLookupAgrees
    <3> QED
      BY <1>3, <2>1, <2>3, <3>3 DEF MemorySave, DynamoSave, SaveStatusChangeCommits, ProviderIdTaken
  <2> QED  BY <2>2, <2>3
<1> QED  BY <1>2, <1>3

LEMMA ProviderRecordsAgree ==
  ASSUME NEW o, NEW before, NEW event
  PROVE  MemoryProviderRecord(o, before, event) = DynamoProviderRecord(o, before, event)
  BY DEF MemoryProviderRecord, DynamoProviderRecord, OrderError, ProviderWebhookCommits, VersionIs

\* The intent is mapped to no other order, so it does not matter which of
\* the two is checked first.
LEMMA StripeRecordsAgree ==
  ASSUME ServiceInv, NEW h \in Invocations, pc[h] = "recordStripe"
  PROVE  MemoryStripeRecord(subject[h], read[h], input[h].eventId, input[h].intentId, MapIntent(h))
           = DynamoStripeRecord(subject[h], read[h], input[h].eventId, input[h].intentId, MapIntent(h))
<1> DEFINE o == subject[h]
           i == input[h].intentId
           e == input[h].eventId
           map == MapIntent(h)
<1> SUFFICES MemoryStripeRecord(o, read[h], e, i, map) = DynamoStripeRecord(o, read[h], e, i, map)
  OBVIOUS
<1>1. ~MappedElsewhere(o, i, map)
  <2> SUFFICES ASSUME map, intentMapping[i] # Undefined PROVE intentMapping[i] = o
    BY DEF MappedElsewhere
  <2>1. IntentIsFor(i, o)
    BY MappedBelongs DEF ServiceInv
  <2>2. i \in IntentIds
    BY DEF ServiceInv, PaymentInv, PaymentFramesOK, PaymentFrame, WebhookFrame, Snapshot
  <2>3. IntentIsFor(i, intentMapping[i])
    BY <2>2 DEF ServiceInv, IntentsBelong
  <2> QED  BY <2>1, <2>3 DEF IntentIsFor
<1>2. map => read[h] # Undefined
  BY MappedBelongs DEF ServiceInv
<1>3. StripeOrderUnchanged(o, read[h]) <=> StripeOrderError(o, read[h]) = "none"
  BY DEF StripeOrderUnchanged, StripeOrderError, OrderError, VersionIs
<1> HIDE DEF map
<1>4. CASE stripeEvents[e] # Undefined
  BY <1>4 DEF MemoryStripeRecord, DynamoStripeRecord, StripeWebhookCommits
<1>5. CASE stripeEvents[e] = Undefined /\ ~StripeOrderUnchanged(o, read[h])
  BY <1>1, <1>3, <1>5
     DEF MemoryStripeRecord, DynamoStripeRecord, StripeWebhookCommits, StripeOrderUnchanged,
         StripeOrderError, OrderError, VersionIs
<1>6. CASE stripeEvents[e] = Undefined /\ StripeOrderUnchanged(o, read[h])
  <2>1. CASE map /\ intentMapping[i] # Undefined
    <3>1. intentMapping[i] = o /\ orders[o] # Undefined /\ read[h] # Undefined
      BY <1>1, <1>2, <1>6, <2>1 DEF MappedElsewhere, StripeOrderUnchanged, VersionIs
    <3> QED
      BY <1>1, <1>3, <1>6, <2>1, <3>1 DEF MemoryStripeRecord, DynamoStripeRecord, StripeWebhookCommits
  <2>2. CASE ~(map /\ intentMapping[i] # Undefined)
    <3>1. map => intentMapping[i] # o
      <4> SUFFICES ASSUME map, intentMapping[i] = o PROVE FALSE
        OBVIOUS
      <4>1. o \in OrderIds
        BY DEF ServiceInv, PaymentInv, PaymentFramesOK, PaymentFrame, WebhookFrame
      <4> QED  BY <2>2, <4>1, UndefinedIsNoOrderId
    <3> QED
      BY <1>1, <1>3, <1>6, <2>2, <3>1 DEF MemoryStripeRecord, DynamoStripeRecord, StripeWebhookCommits
  <2> QED  BY <2>1, <2>2
<1> QED  BY <1>4, <1>5, <1>6

\* The tests' repository answers as DynamoDB's does: whatever write an
\* invocation of the service is about to send, in any reachable state.
THEOREM RepositoriesAgree == ServiceSpec => []MemoryRepositoryAgrees
<1>1. ServiceInv => MemoryRepositoryAgrees
  BY BindsAgree, SavesAgree, ProviderRecordsAgree, StripeRecordsAgree DEF MemoryRepositoryAgrees
<1> QED  BY <1>1, ServiceInvariant, PTL

(***************************************************************************)
(* The promised lifecycle.                                                 *)
(***************************************************************************)
StatusOf(order) == IF order = Undefined THEN Undefined ELSE order.status
DeliveryOf(order) == IF order = Undefined THEN Undefined ELSE order.deliveryProviderOrderId

\* One order goes on; what the lifecycle shows of the others stays.
OneMoves(o) == \A q \in OrderIds \ {o} : orders'[q] = orders[q]

lifecycleVars ==
  << [o \in OrderIds |-> StatusOf(orders[o])], [o \in OrderIds |-> PaidOf(orders[o])],
     [o \in OrderIds |-> DeliveryOf(orders[o])] >>

LEMMA LifecycleStands ==
  ASSUME \A o \in OrderIds : orders'[o] = orders[o]
  PROVE  UNCHANGED lifecycleVars
  BY DEF lifecycleVars, StatusOf, DeliveryOf, PaidOf

LEMMA StatusMoves ==
  ASSUME NEW o \in OrderIds, OneMoves(o), NEW to, StatusOf(orders'[o]) = to
  PROVE  [q \in OrderIds |-> StatusOf(orders'[q])]
           = [[q \in OrderIds |-> StatusOf(orders[q])] EXCEPT ![o] = to]
  BY DEF OneMoves

LEMMA PaidMoves ==
  ASSUME NEW o \in OrderIds, OneMoves(o), NEW to, PaidOf(orders'[o]) = to
  PROVE  [q \in OrderIds |-> PaidOf(orders'[q])]
           = [[q \in OrderIds |-> PaidOf(orders[q])] EXCEPT ![o] = to]
  BY DEF OneMoves

LEMMA DeliveryIdMoves ==
  ASSUME NEW o \in OrderIds, OneMoves(o), NEW to, DeliveryOf(orders'[o]) = to
  PROVE  [q \in OrderIds |-> DeliveryOf(orders'[q])]
           = [[q \in OrderIds |-> DeliveryOf(orders[q])] EXCEPT ![o] = to]
  BY DEF OneMoves

LEMMA PaymentCommitIsLifecycleStep ==
  ASSUME ServiceInv, NEW o \in OrderIds, PaymentMoves(o), OneMoves(o), orders'[o] # orders[o]
  PROVE  \/ Lifecycle!Place(o) \/ Lifecycle!Collect(o) \/ Lifecycle!Abandon(o)
         \/ UNCHANGED lifecycleVars
<1> DEFINE S == [q \in OrderIds |-> StatusOf(orders[q])]
           P == [q \in OrderIds |-> PaidOf(orders[q])]
           D == [q \in OrderIds |-> DeliveryOf(orders[q])]
           S1 == [q \in OrderIds |-> StatusOf(orders'[q])]
           P1 == [q \in OrderIds |-> PaidOf(orders'[q])]
           D1 == [q \in OrderIds |-> DeliveryOf(orders'[q])]
           after == orders'[o]
<1>1. /\ S1 = [S EXCEPT ![o] = StatusOf(after)]
      /\ P1 = [P EXCEPT ![o] = PaidOf(after)]
      /\ D1 = [D EXCEPT ![o] = DeliveryOf(after)]
  BY StatusMoves, PaidMoves, DeliveryIdMoves
<1>2. after # Undefined /\ after.deliveryProviderOrderId = Undefined
  BY UndefinedIsNoRecord DEF PaymentMoves
<1>3. StatusOf(after) = StatusFor(after.payment.status)
  BY <1>2 DEF PaymentMoves, StatusOf
<1>4. D1 = D
  <2>1. DeliveryOf(after) = Undefined /\ DeliveryOf(orders[o]) = Undefined
    BY <1>2 DEF PaymentMoves, DeliveryOf
  <2> QED  BY <1>1, <2>1
<1>5. S[o] = StatusOf(orders[o]) /\ P[o] = PaidOf(orders[o])
  OBVIOUS
<1>6. CASE orders[o] = Undefined
  <2>1. StatusOf(orders[o]) = Undefined /\ PaidOf(orders[o]) = "open"
    BY <1>6 DEF StatusOf, PaidOf
  <2>2. StatusOf(after) = "AWAITING_PAYMENT" /\ PaidOf(after) = "open"
    BY <1>2, <1>6, UndefinedIsNoRecord DEF PaymentMoves, StatusOf, PaidOf, StatusFor
  <2>3. P1 = P
    BY <1>1, <1>5, <2>1, <2>2
  <2>4. Lifecycle!Place(o)
    BY <1>1, <1>4, <1>5, <2>1, <2>2, <2>3
    DEF Lifecycle!Place, Lifecycle!Moves, StatusOf, DeliveryOf
  <2> QED  BY <2>4
<1>7. CASE orders[o] # Undefined
  <2>1. StatusOf(orders[o]) = "AWAITING_PAYMENT" /\ PaidOf(orders[o]) = "open"
    BY <1>7 DEF PaymentMoves, StatusOf, PaidOf, TerminalPaymentStatus
  <2>2. CASE after.payment.status = "SUCCEEDED"
    <3>1. StatusOf(after) = "PENDING_SUBMISSION" /\ PaidOf(after) = "collected"
      BY <1>2, <1>3, <2>2 DEF StatusFor, PaidOf
    <3>2. Lifecycle!Collect(o)
      BY <1>1, <1>4, <1>5, <2>1, <3>1
      DEF Lifecycle!Collect, Lifecycle!Moves, StatusOf, DeliveryOf
    <3> QED  BY <3>2
  <2>3. CASE after.payment.status = "CANCELLED"
    <3>1. StatusOf(after) = "CANCELLED" /\ PaidOf(after) = "cancelled"
      BY <1>2, <1>3, <2>3 DEF StatusFor, PaidOf
    <3>2. Lifecycle!Abandon(o)
      BY <1>1, <1>4, <1>5, <2>1, <3>1
      DEF Lifecycle!Abandon, Lifecycle!Moves, StatusOf, DeliveryOf
    <3> QED  BY <3>2
  <2>4. CASE after.payment.status \notin {"SUCCEEDED", "CANCELLED"}
    <3>1. StatusOf(after) = "AWAITING_PAYMENT" /\ PaidOf(after) = "open"
      BY <1>2, <1>3, <2>4 DEF StatusFor, PaidOf
    <3>2. S1 = S /\ P1 = P
      BY <1>1, <1>5, <2>1, <3>1
    <3> QED  BY <1>4, <3>2 DEF lifecycleVars
  <2> QED  BY <2>2, <2>3, <2>4
<1> QED  BY <1>6, <1>7

LEMMA DeliveryCommitIsLifecycleStep ==
  ASSUME ServiceInv, NEW h \in Invocations, Commits(h),
         NEW o \in OrderIds, o = subject[h], orders'[o] # orders[o]
  PROVE  (\E p \in ProviderIds : Lifecycle!Submit(o, p)) \/ Lifecycle!Proceed(o)
<1> DEFINE before == orders[o]
           after == orders'[o]
           S == [q \in OrderIds |-> StatusOf(orders[q])]
           P == [q \in OrderIds |-> PaidOf(orders[q])]
           D == [q \in OrderIds |-> DeliveryOf(orders[q])]
           S1 == [q \in OrderIds |-> StatusOf(orders'[q])]
           P1 == [q \in OrderIds |-> PaidOf(orders'[q])]
           D1 == [q \in OrderIds |-> DeliveryOf(orders'[q])]
<1>1. OneMoves(o) /\ after = proposed[h]
  BY CommitIsNext DEF ServiceInv, OneMoves
<1> PICK p : p = after.deliveryProviderOrderId
  OBVIOUS
<1>2. DeliveryMoves(o) /\ TableMoves
  BY <1>1, DeliveryMovesOwn DEF TableMoves
<1>3. /\ before \in Order /\ after \in Order
      /\ before # Undefined /\ after # Undefined
      /\ before.status # "AWAITING_PAYMENT" /\ before.status \in OrderStatus
      /\ Progresses(before, after)
  BY <1>2, UndefinedIsNoRecord DEF DeliveryMoves, Order
<1>4. Follows(before, after)
  BY <1>1, <1>2, <1>3, OrdersMoveCleanly DEF ServiceInv
<1>5. /\ S1 = [S EXCEPT ![o] = after.status]
      /\ P1 = [P EXCEPT ![o] = PaidOf(after)]
      /\ D1 = [D EXCEPT ![o] = p]
      /\ S[o] = before.status /\ P[o] = PaidOf(before) /\ D[o] = before.deliveryProviderOrderId
  BY <1>1, <1>3, StatusMoves, PaidMoves, DeliveryIdMoves DEF StatusOf, DeliveryOf
<1>6. P1 = P
  <2>1. PaidOf(after) = PaidOf(before)
    BY <1>3 DEF Progresses, PaidOf
  <2> QED  BY <1>5, <2>1
<1>7. CASE after.status = "SUBMITTED" /\ before.status = "PENDING_SUBMISSION"
  <2>1. /\ p \in ProviderIds
        /\ providerMapping[p] = Undefined
    BY <1>1, <1>3, <1>4, <1>7 DEF Follows, Commits, RecordsAcceptance
  <2>2. \A q \in OrderIds : D[q] # p
    BY <2>1, UndefinedIsNoValue, UndefinedIsNoOrderId
    DEF ServiceInv, AcceptanceInv, ProviderLookupAgrees, DeliveryOf
  <2>3. /\ S[o] \in {"PENDING_SUBMISSION"} /\ S1 = [S EXCEPT ![o] = "SUBMITTED"]
        /\ D1 = [D EXCEPT ![o] = p]
        /\ P1 = P
    <3> HIDE DEF S1, P1, D1, S, P, D
    <3> QED  BY <1>5, <1>6, <1>7
  <2>4. Lifecycle!Submit(o, p)
    BY ONLY <2>2, <2>3 DEF Lifecycle!Submit, Lifecycle!Moves, StatusOf, DeliveryOf
  <2> QED  BY <2>1, <2>4
<1>8. CASE ~(after.status = "SUBMITTED" /\ before.status = "PENDING_SUBMISSION")
  <2>1. SameAcceptance(before, after) /\ after.status # "SUBMITTED"
    BY <1>1, <1>4, <1>8 DEF Follows
  <2>2. D1 = D
    BY <1>5, <2>1 DEF SameAcceptance
  <2> DEFINE from(to) ==
        CASE to = "SUBMISSION_FAILED" -> {"PENDING_SUBMISSION"}
          [] to = "PENDING_SUBMISSION" -> {"SUBMISSION_FAILED"}
          [] to = "PICKED_UP" -> {"SUBMITTED"}
          [] to \in {"DELIVERED", "DELIVERY_FAILED"} -> {"SUBMITTED", "PICKED_UP"}
          [] to = "CANCELLED" -> {"PENDING_SUBMISSION", "SUBMISSION_FAILED", "SUBMITTED"}
  <2>3. /\ before.status \in from(after.status)
        /\ after.status \in { "SUBMISSION_FAILED", "PENDING_SUBMISSION", "PICKED_UP", "DELIVERED",
                              "DELIVERY_FAILED", "CANCELLED" }
    BY ONLY <1>3, <2>1 DEF Progresses, AllowedTransitions, OrderStatus
  <2>4. Lifecycle!Proceed(o)
    <3> HIDE DEF S1, P1, D1, S, P, D
    <3>1. /\ S1 = [S EXCEPT ![o] = after.status]
          /\ S[o] = before.status
          /\ P1 = P /\ D1 = D
      BY <1>5, <1>6, <2>2
    <3>2. /\ \/ S[o] \in {"PENDING_SUBMISSION"} /\ S1 = [S EXCEPT ![o] = "SUBMISSION_FAILED"]
             \/ S[o] \in {"SUBMISSION_FAILED"} /\ S1 = [S EXCEPT ![o] = "PENDING_SUBMISSION"]
             \/ S[o] \in {"SUBMITTED"} /\ S1 = [S EXCEPT ![o] = "PICKED_UP"]
             \/ S[o] \in {"SUBMITTED", "PICKED_UP"} /\ S1 = [S EXCEPT ![o] = "DELIVERED"]
             \/ S[o] \in {"SUBMITTED", "PICKED_UP"} /\ S1 = [S EXCEPT ![o] = "DELIVERY_FAILED"]
             \/ /\ S[o] \in {"PENDING_SUBMISSION", "SUBMISSION_FAILED", "SUBMITTED"}
                /\ S1 = [S EXCEPT ![o] = "CANCELLED"]
          /\ P1 = P /\ D1 = D
      BY <2>3, <3>1
    <3> QED
      BY <3>2 DEF S1, P1, D1, S, P, D, Lifecycle!Proceed, Lifecycle!Moves, StatusOf, DeliveryOf
  <2> QED  BY <1>1, <2>4
<1> QED  BY <1>7, <1>8

LEMMA ServiceStepIsLifecycleStep ==
  ASSUME ServiceInv, [ServiceNext]_serviceVars
  PROVE  Lifecycle!LifecycleNext \/ UNCHANGED lifecycleVars
<1>1. CASE PaymentSide
  <2>1. CASE orders' = orders
    BY <2>1, LifecycleStands
  <2>2. ASSUME NEW o \in OrderIds, NEW after \in Order, PaymentCommits(o, after)
        PROVE  Lifecycle!LifecycleNext \/ UNCHANGED lifecycleVars
    <3>1. PaymentMoves(o)
      BY <1>1, PaymentMovesOwn DEF PaymentSide
    <3>2. OneMoves(o)
      BY <2>2 DEF PaymentCommits, OneMoves, ServiceInv, PaymentInv, PaymentTypeOK, TableTypeOK,
                  ItemsTypeOK
    <3>3. CASE orders'[o] = orders[o]
      BY <3>2, <3>3, LifecycleStands DEF OneMoves
    <3>4. CASE orders'[o] # orders[o]
      BY <3>1, <3>2, <3>4, PaymentCommitIsLifecycleStep DEF Lifecycle!LifecycleNext
    <3> QED  BY <3>3, <3>4
  <2> QED  BY <1>1, <2>1, <2>2, PaymentMovesOrders DEF PaymentSide, ServiceInv
<1>2. CASE DeliverySide
  <2>1. TableMoves
    BY <1>2, DeliveryStepHasShape DEF DeliverySide, DeliveryNext, PromiseStep, ServiceInv
  <2>2. ASSUME NEW h \in Invocations, Commits(h)
        PROVE  Lifecycle!LifecycleNext \/ UNCHANGED lifecycleVars
    <3>1. CASE orders'[subject[h]] = orders[subject[h]]
      <4>1. \A q \in OrderIds : orders'[q] = orders[q]
        BY <2>2, <3>1, CommitIsNext DEF ServiceInv
      <4> QED  BY <4>1, LifecycleStands
    <3>2. CASE orders'[subject[h]] # orders[subject[h]]
      <4>1. PICK o \in OrderIds : o = subject[h]
        BY <2>2 DEF Commits
      <4> QED  BY <2>2, <3>2, <4>1, DeliveryCommitIsLifecycleStep DEF Lifecycle!LifecycleNext
    <3> QED  BY <3>1, <3>2
  <2> QED  BY <2>1, <2>2, LifecycleStands DEF TableMoves
<1>3. CASE \/ Tick /\ UNCHANGED <<paymentVars, deliveryVars>>
           \/ \E h \in Invocations : Crash(h) /\ UNCHANGED <<paymentVars, deliveryVars>>
           \/ UNCHANGED serviceVars
  <2>1. orders' = orders
    BY <1>3 DEF Tick, Crash, serviceVars, baseVars, tableVars
  <2> QED  BY <2>1, LifecycleStands
<1> QED  BY <1>1, <1>2, <1>3 DEF ServiceNext

\* Every commit of every handler is a step of the promised lifecycle, or
\* shows nothing of it: orders are placed, paid for once, submitted once under
\* an identifier of their own, and never move but along it.
THEOREM ServiceImplementsLifecycle == ServiceSpec => ImplementsLifecycle
<1>1. ServiceInit => Lifecycle!LifecycleInit
  BY DEF ServiceInit, PaymentInit, TableInit, Lifecycle!LifecycleInit, PaidOf
<1>2. ServiceInv /\ [ServiceNext]_serviceVars => Lifecycle!LifecycleNext \/ UNCHANGED lifecycleVars
  BY ServiceStepIsLifecycleStep
<1>3. UNCHANGED lifecycleVars =>
        UNCHANGED << [o \in OrderIds |-> IF orders[o] = Undefined THEN Undefined ELSE orders[o].status],
                     [o \in OrderIds |-> PaidOf(orders[o])],
                     [o \in OrderIds |-> IF orders[o] = Undefined THEN Undefined
                                         ELSE orders[o].deliveryProviderOrderId] >>
  BY DEF lifecycleVars, StatusOf, DeliveryOf
<1> QED
  BY <1>1, <1>2, <1>3, ServiceInvariant, PTL
  DEF ServiceSpec, ImplementsLifecycle, Lifecycle!LifecycleSpec

(***************************************************************************)
(* What is decided, with delivery going on.                                *)
(***************************************************************************)

\* A step is of the payment side, or one of delivery's, of time or of nobody.
LEMMA ServiceStepIsOfOneSide ==
  ASSUME [ServiceNext]_serviceVars
  PROVE  PaymentSide \/ ([DeliveryNext]_allDeliveryVars /\ UNCHANGED paymentVars)
  BY DEF ServiceNext, DeliverySide, DeliveryNext, serviceVars, allDeliveryVars

\* What delivery, time and crashes leave to the payment side.
LEMMA DeliverySideTouchesOwn ==
  ASSUME ServiceInv, [DeliveryNext]_allDeliveryVars
  PROVE  /\ stripeEvents' = stripeEvents
         /\ \A g \in Invocations : KeepsMemory(g) \/ pc'[g] \in DeliverySteps \cup {"idle"}
<1>1. FramesTypeOK
  BY DEF ServiceInv, DeliveryInv, DeliveryTyped, TableTypeOK
<1>2. CASE DeliveryStep
  BY <1>1, <1>2, DeliveryTouchesOwn DEF Delivers
<1>3. CASE Tick \/ UNCHANGED allDeliveryVars
  BY <1>3 DEF Tick, allDeliveryVars, baseVars, tableVars, frameVars, KeepsMemory
<1>4. ASSUME NEW h \in Invocations, Crash(h)
      PROVE  /\ stripeEvents' = stripeEvents
             /\ \A g \in Invocations : KeepsMemory(g) \/ pc'[g] \in DeliverySteps \cup {"idle"}
  BY <1>1, <1>4, ReturnTouchesOne DEF Crash, tableVars
<1> QED  BY <1>2, <1>3, <1>4 DEF DeliveryNext

LEMMA WaitingOrdersAreUndecided ==
  ASSUME ServiceInv
  PROVE  WaitingIsUndecided
  BY DEF ServiceInv, SoundOrders, SoundOrder, WaitingIsUndecided

LEMMA PaymentSideMovesOn ==
  ASSUME ServiceInv, DecisionInv, PaymentSide
  PROVE  PaymentMove
  BY WaitingOrdersAreUndecided, PaymentStepHasShape DEF ServiceInv, PaymentSide, PaymentNext

\* An order delivery moves has been decided, and stays so.
LEMMA DeliveryKeepsDecisions ==
  ASSUME ServiceInv, DecisionInv, [DeliveryNext]_allDeliveryVars, UNCHANGED paymentVars
  PROVE  DecisionInv'
<1> USE DEF ServiceInv, paymentVars, stripeVars
<1>1. /\ stripeEvents' = stripeEvents
      /\ \A g \in Invocations : KeepsMemory(g) \/ pc'[g] \in DeliverySteps \cup {"idle"}
  BY DeliverySideTouchesOwn
<1>2. ASSUME NEW o \in OrderIds
      PROVE  \/ orders'[o] = orders[o]
             \/ /\ orders[o] # Undefined /\ orders'[o] # Undefined
                /\ orders'[o].payment = orders[o].payment
                /\ orders[o].status # "AWAITING_PAYMENT"
                /\ orders'[o].status # "AWAITING_PAYMENT"
  <2>1. DeliveryMoves(o)
    BY DeliveryStepHasShape, DeliveryMovesOwn DEF PromiseStep
  <2>2. CASE orders'[o] # orders[o]
    <3>1. /\ orders[o] \in Order /\ orders'[o] \in Order
          /\ orders[o].status \in OrderStatus
          /\ orders[o].status # "AWAITING_PAYMENT"
          /\ Progresses(orders[o], orders'[o])
      BY <2>1, <2>2 DEF DeliveryMoves, Order
    <3>2. orders'[o].status # "AWAITING_PAYMENT"
      BY <3>1 DEF Progresses, AllowedTransitions, OrderStatus
    <3> QED  BY <3>1, <3>2, UndefinedIsNoRecord DEF Progresses
  <2> QED  BY <2>2
<1>3. \A o \in OrderIds : orders'[o] # Undefined => Timely(orders'[o])
  BY <1>2 DEF DecisionInv, Timely
<1>4. ASSUME NEW g \in Invocations PROVE DecisionFrame(g)'
  <2>1. CASE KeepsMemory(g)
    BY <2>1, DecisionFrameStays DEF DecisionInv, EmissionsGrow, KeepsMemory
  <2>2. CASE pc'[g] \in DeliverySteps \cup {"idle"}
    BY <2>2 DEF DecisionFrame, DeliverySteps
  <2> QED  BY <1>1, <2>1, <2>2
<1>5. EventsShowDecisions'
  BY DEF DecisionInv, EventsShowDecisions
<1>6. ASSUME NEW e \in StripeEventIds, stripeEvents'[e] # Undefined
      PROVE  DecisionKept(e)'
  <2>1. DecisionKept(e)
    BY <1>1, <1>6 DEF DecisionInv
  <2> SUFFICES ASSUME stripeEvents[e] \in {"APPLIED", "IGNORED"},
                      emitted[e].status \in TerminalPaymentStatus
               PROVE  \E o \in OrderIds :
                        /\ orders'[o] # Undefined
                        /\ orders'[o].payment.stripePaymentIntentId = emitted[e].intentId
                        /\ orders'[o].status # "AWAITING_PAYMENT"
    BY <1>1, <2>1 DEF DecisionKept
  <2>2. PICK o \in OrderIds :
          /\ orders[o] # Undefined
          /\ orders[o].payment.stripePaymentIntentId = emitted[e].intentId
          /\ orders[o].status # "AWAITING_PAYMENT"
    BY <2>1 DEF DecisionKept
  <2> QED  BY <1>2, <2>2
<1> QED  BY <1>3, <1>4, <1>5, <1>6 DEF DecisionInv

LEMMA ServiceStepKeepsDecisions ==
  ASSUME ServiceInv, DecisionInv, [ServiceNext]_serviceVars
  PROVE  DecisionInv'
<1>1. CASE PaymentSide
  BY <1>1, PaymentSideMovesOn, MoveKeepsDecisions DEF ServiceInv
<1> QED  BY <1>1, ServiceStepIsOfOneSide, DeliveryKeepsDecisions

\* What events announced, snapshots showed and invocations proposed stays
\* consistent with the orders while workers, operators and the provider's
\* webhook move them on.
THEOREM ServiceDecisionInvariant == ServiceSpec => []DecisionInv
<1>1. ServiceInit => DecisionInv
  BY PaymentInitHasDecisions DEF ServiceInit
<1>2. ServiceInv /\ DecisionInv /\ [ServiceNext]_serviceVars => DecisionInv'
  BY ServiceStepKeepsDecisions
<1> QED  BY <1>1, <1>2, ServiceInvariant, PTL DEF ServiceSpec

\* A decided payment that processStripeWebhook has recorded keeps its order
\* from waiting again, also when delivery has long taken the order over.
THEOREM ServiceDecisionsKept == ServiceSpec => []DecisionNeverLost
<1>1. ServiceInv /\ DecisionInv => DecisionNeverLost
  BY DecidedIsOurs DEF ServiceInv
<1> QED  BY <1>1, ServiceInvariant, ServiceDecisionInvariant, PTL

\* The marker of a Stripe event is written once, and nobody outside the
\* payment side ever touches it.
THEOREM ServiceEventsTakeEffectOnce == ServiceSpec => EventTakesEffectOnce
<1>1. ServiceInv /\ DecisionInv /\ [ServiceNext]_serviceVars =>
        [ \A e \in StripeEventIds :
            stripeEvents[e] # Undefined => stripeEvents'[e] = stripeEvents[e] ]_stripeEvents
  BY ServiceStepIsOfOneSide, PaymentSideMovesOn, DeliverySideTouchesOwn DEF PaymentMove, MarkersMove
<1> QED
  BY <1>1, ServiceInvariant, ServiceDecisionInvariant, PTL DEF ServiceSpec, EventTakesEffectOnce

\* Nor does the payment side touch a marker of the provider's webhook: the
\* same event id stands for the same event for ever.
THEOREM ServiceEventsStayBound == ServiceSpec => ProviderEventIdsStayBound
<1>1. ServiceInv /\ [ServiceNext]_serviceVars =>
        [ \A e \in ProviderEventIds :
            providerEvents[e] # Undefined => providerEvents'[e] = providerEvents[e]
        ]_providerEvents
  BY ServiceStepIsOfOneSide, PaymentTouchesOwn, MarkersStand DEF ServiceInv, PaymentSide
<1> QED  BY <1>1, ServiceInvariant, PTL DEF ServiceSpec, ProviderEventIdsStayBound

(***************************************************************************)
(* Changes of orders, whoever commits them.                                *)
(***************************************************************************)

\* What the payment side has put aside and proposes is not of the future.
PaymentTimeFrame(h) ==
  /\ pc[h] \in {"create", "lookup", "load", "recordStripe", "resolveStripe"} => stamp[h] <= clock
  /\ (pc[h] \in {"bind", "recordStripe"} /\ proposed[h] # Undefined) =>
       proposed[h].updatedAt <= clock

ServiceTimeInv ==
  /\ TimeInv
  /\ \A h \in Invocations : PaymentTimeFrame(h)

\* The times of a payment frame are times.
LEMMA PaymentTimesAreTimes ==
  ASSUME ServiceInv, NEW h \in Invocations
  PROVE  /\ pc[h] \in {"create", "lookup", "load", "recordStripe", "resolveStripe"} => stamp[h] \in Nat
         /\ proposed[h] # Undefined => proposed[h].updatedAt \in Nat
<1>1. PrepareFrame(h) /\ WebhookFrame(h)
  BY DEF ServiceInv, PaymentInv, PaymentFramesOK, PaymentFrame
<1>2. proposed[h] \in Order \cup {Undefined}
  BY DEF ServiceInv, PaymentInv, PaymentTypeOK, TableTypeOK, FramesTypeOK
<1> QED  BY <1>1, <1>2 DEF PrepareFrame, WebhookFrame, Order

LEMMA PaymentTimesStay ==
  ASSUME ServiceInv, NEW h \in Invocations, PaymentTimeFrame(h), KeepsMemory(h),
         clock \in Nat, clock' \in Nat, clock <= clock'
  PROVE  PaymentTimeFrame(h)'
  BY PaymentTimesAreTimes DEF PaymentTimeFrame, KeepsMemory

\* A stored order is not of the future either.
LEMMA StoredAreTimely ==
  ASSUME ServiceInv, TimeInv, NEW o \in OrderIds, orders[o] # Undefined
  PROVE  orders[o] \in Order /\ orders[o].updatedAt \in Nat /\ orders[o].updatedAt <= clock
  BY DEF ServiceInv, PaymentInv, PaymentTypeOK, TableTypeOK, ItemsTypeOK, TimeInv, Order

LEMMA CreateProposesNow ==
  ASSUME ServiceInv, ServiceTimeInv, NEW h \in PrepareInvocations, NEW i \in IntentIds,
         PrepareCreate(h, i)
  PROVE  PaymentTimeFrame(h)'
<1>0. h \in Invocations /\ PrepareFrame(h) /\ pc[h] = "create"
  BY PaymentInvocations DEF ServiceInv, PaymentInv, PaymentFramesOK, PaymentFrame, PrepareCreate
<1>1. /\ pc'[h] = "bind" /\ clock' = clock
      /\ \E payment : proposed'[h] = WithPayment(read[h], payment, stamp[h])
  BY <1>0 DEF PrepareCreate, Goto, ServiceInv, PaymentInv, PaymentTypeOK, TableTypeOK, FramesTypeOK
<1>2. read[h] \in Order
  BY <1>0 DEF PrepareFrame
<1>3. \A payment : WithPayment(read[h], payment, stamp[h]).updatedAt = stamp[h]
  BY <1>2 DEF WithPayment, Order
<1>4. stamp[h] <= clock
  BY <1>0 DEF ServiceTimeInv, PaymentTimeFrame
<1> QED  BY <1>1, <1>3, <1>4 DEF PaymentTimeFrame

\* What a webhook proposes it dates with its own time, or leaves as it was.
LEMMA ProposedOrderIsDated ==
  ASSUME NEW order \in Order, NEW i \in IntentIds, NEW snapshot \in Intent, NEW at \in Nat
  PROVE  ProposedOrder(order, i, snapshot, at).updatedAt \in {at, order.updatedAt}
<1> DEFINE payment == PaymentChanged(order.payment, SnapshotChange(i, snapshot, at), at)
           paid == [order EXCEPT !.payment = payment]
<1> HIDE DEF payment
<1>1. PaymentChangedOrder(order, i, snapshot, at).updatedAt \in {at, order.updatedAt}
  BY DEF PaymentChangedOrder, WithPayment, Order, payment
<1>2. StatusChangedOrder(order, i, snapshot, at).updatedAt = at
  <2>1. PaidOrder(order, i, snapshot, at) = paid
    BY DEF PaidOrder, payment
  <2>2. \A change : StatusChanged(paid, change, at).updatedAt = at
    BY DEF StatusChanged, Order
  <2> QED  BY <2>1, <2>2 DEF StatusChangedOrder
<1> QED  BY <1>1, <1>2 DEF ProposedOrder

LEMMA LoadProposesInTime ==
  ASSUME ServiceInv, ServiceTimeInv, NEW h \in StripeWebhookInvocations, StripeWebhookLoad(h),
         ~Return(h)
  PROVE  PaymentTimeFrame(h)'
<1>0. h \in Invocations /\ WebhookFrame(h) /\ pc[h] = "load"
  BY PaymentInvocations DEF ServiceInv, PaymentInv, PaymentFramesOK, PaymentFrame, StripeWebhookLoad
<1> DEFINE o == subject[h]
           proposal == ProposedOrder(orders[o], input[h].intentId, input[h].snapshot, stamp[h])
           outcome == ProposedOutcome(o, orders[o], input[h].intentId, input[h].snapshot, stamp[h])
<1>1. /\ pc'[h] = "recordStripe" /\ clock' = clock /\ stamp'[h] = stamp[h]
      /\ proposed'[h] = IF outcome = "APPLIED" THEN proposal ELSE orders[o]
  BY <1>0 DEF StripeWebhookLoad, Goto, ServiceInv, PaymentInv, PaymentTypeOK, TableTypeOK, FramesTypeOK
<1>2. /\ o \in OrderIds
      /\ stamp[h] \in Nat /\ stamp[h] <= clock
      /\ input[h].intentId \in IntentIds /\ input[h].snapshot \in Intent
  BY <1>0 DEF WebhookFrame, Snapshot, ServiceTimeInv, PaymentTimeFrame
<1>3. orders[o] # Undefined => orders[o] \in Order /\ orders[o].updatedAt <= clock
  BY <1>2, StoredAreTimely DEF ServiceTimeInv
<1>4. outcome = "APPLIED" => orders[o] # Undefined
  BY DEF ProposedOutcome, Mismatch
<1>5. outcome = "APPLIED" => proposal.updatedAt <= clock
  <2> HIDE DEF outcome
  <2> SUFFICES ASSUME outcome = "APPLIED" PROVE proposal.updatedAt <= clock
    OBVIOUS
  <2>1. proposal.updatedAt \in {stamp[h], orders[o].updatedAt}
    BY <1>2, <1>3, <1>4, ProposedOrderIsDated
  <2> QED  BY <1>2, <1>3, <1>4, <2>1
<1> HIDE DEF outcome, proposal
<1> QED  BY <1>1, <1>2, <1>3, <1>5 DEF PaymentTimeFrame

LEMMA PaymentStepKeepsFrameTimes ==
  ASSUME ServiceInv, ServiceTimeInv, PaymentStep, NEW g \in Invocations
  PROVE  PaymentTimeFrame(g)'
<1> USE DEF ServiceInv, PaymentInv, PaymentTypeOK, TableTypeOK, FramesTypeOK, Goto
<1>0. /\ clock' = clock /\ clock \in Nat
      /\ KeepsMemory(g) => PaymentTimeFrame(g)'
  <2>1. clock' = clock /\ clock \in Nat
    BY PaymentTouchesOwn DEF ItemsTypeOK
  <2> QED  BY <2>1, PaymentTimesStay DEF ServiceTimeInv
<1>1. CASE Stripe \/ \E o \in OrderIds : CreateOrder(o)
  <2>1. KeepsMemory(g)
    BY <1>1 DEF Stripe, ForeignIntent, StripeAnnounce, StripeAdvance, CreateOrder, CreateOrderItem,
                KeepsMemory, baseVars, frameVars
  <2> QED  BY <1>0, <2>1
<1>2. ASSUME NEW h \in Invocations, Return(h)
      PROVE  PaymentTimeFrame(g)'
  BY <1>0, <1>2, ReturnTouchesOne DEF PaymentTimeFrame
<1>3. ASSUME NEW h \in PrepareInvocations, PrepareStep(h) \/ \E o \in OrderIds : PrepareGet(h, o)
      PROVE  PaymentTimeFrame(g)'
  <2>0. h \in Invocations
    BY PaymentInvocations
  <2>1. ASSUME NEW o \in OrderIds, PrepareGet(h, o)
        PROVE  PaymentTimeFrame(g)'
    <3>1. g # h => KeepsMemory(g)
      BY <2>1 DEF PrepareGet, KeepsMemory
    <3>2. pc'[h] = "retrieve" \/ (pc'[h] = "create" /\ stamp'[h] = clock)
      BY <2>0, <2>1 DEF PrepareGet
    <3>3. g = h => PaymentTimeFrame(g)'
      BY <1>0, <3>2 DEF PaymentTimeFrame
    <3> QED  BY <1>0, <3>1, <3>3
  <2>2. ASSUME NEW i \in IntentIds, PrepareCreate(h, i)
        PROVE  PaymentTimeFrame(g)'
    <3>1. /\ \A f \in Invocations \ {h} : pc'[f] = pc[f] /\ proposed'[f] = proposed[f]
          /\ UNCHANGED <<subject, input, stamp, read>>
      BY <2>2 DEF PrepareCreate
    <3>2. g # h => KeepsMemory(g)
      BY <3>1 DEF KeepsMemory
    <3> QED  BY <1>0, <2>2, <3>2, CreateProposesNow
  <2>3. CASE PrepareBindCancelled(h)
    <3>1. g # h => KeepsMemory(g)
      BY <2>3 DEF PrepareBindCancelled, KeepsMemory
    <3>2. pc'[h] = "resolveBinding"
      BY <2>0, <2>3 DEF PrepareBindCancelled
    <3> QED  BY <1>0, <3>1, <3>2 DEF PaymentTimeFrame
  <2>4. CASE PrepareResolveBinding(h) /\ ~Return(h)
    <3>1. /\ pc' = [pc EXCEPT ![h] = "retrieve"]
          /\ read' = [read EXCEPT ![h] = orders[subject[h]]]
          /\ UNCHANGED <<subject, input, stamp, proposed>>
      BY <2>4 DEF PrepareResolveBinding
    <3>2. g # h => KeepsMemory(g)
      BY <3>1 DEF KeepsMemory
    <3>3. pc'[h] = "retrieve"
      BY <2>0, <3>1
    <3> QED  BY <1>0, <3>2, <3>3 DEF PaymentTimeFrame
  <2>5. ASSUME NEW i \in IntentIds, PrepareCreateLost(h, i)
        PROVE  Return(h)
    BY <2>5 DEF PrepareCreateLost
  <2>6. ASSUME \/ PrepareBind(h) \/ PrepareBindConflict(h) \/ PrepareRetrieve(h)
        PROVE  Return(h)
    BY <2>6 DEF PrepareBind, PrepareBindConflict, PrepareRetrieve
  <2> QED
    BY <1>2, <1>3, <2>0, <2>1, <2>2, <2>3, <2>4, <2>5, <2>6 DEF PrepareStep
<1>4. ASSUME NEW h \in StripeWebhookInvocations,
             StripeWebhookStep(h) \/ \E e \in StripeEventIds : StripeWebhookRetrieve(h, e)
      PROVE  PaymentTimeFrame(g)'
  <2>0. h \in Invocations /\ stamp[h] \in Nat \cup {Undefined}
    BY PaymentInvocations DEF Optional
  <2>1. ASSUME NEW e \in StripeEventIds, StripeWebhookRetrieve(h, e)
        PROVE  PaymentTimeFrame(g)'
    <3>1. /\ pc' = [pc EXCEPT ![h] = "lookup"]
          /\ stamp' = [stamp EXCEPT ![h] = clock]
          /\ \A f \in Invocations \ {h} : input'[f] = input[f]
          /\ UNCHANGED <<subject, read, proposed>>
      BY <2>1 DEF StripeWebhookRetrieve
    <3>2. g # h => KeepsMemory(g)
      BY <3>1 DEF KeepsMemory
    <3>3. pc'[h] = "lookup" /\ stamp'[h] = clock
      BY <2>0, <3>1
    <3>4. g = h => PaymentTimeFrame(g)'
      BY <1>0, <3>3 DEF PaymentTimeFrame
    <3> QED  BY <1>0, <3>2, <3>4
  <2>2. CASE StripeWebhookLookup(h)
    <3>1. /\ pc[h] = "lookup" /\ pc' = [pc EXCEPT ![h] = "load"]
          /\ \A f \in Invocations \ {h} : input'[f] = input[f] /\ subject'[f] = subject[f]
          /\ UNCHANGED <<stamp, read, proposed>>
      BY <2>2 DEF StripeWebhookLookup
    <3>2. g # h => KeepsMemory(g)
      BY <3>1 DEF KeepsMemory
    <3>3. pc'[h] = "load" /\ stamp[h] <= clock
      BY <2>0, <3>1 DEF ServiceTimeInv, PaymentTimeFrame
    <3>4. g = h => PaymentTimeFrame(g)'
      BY <1>0, <3>1, <3>3 DEF PaymentTimeFrame
    <3> QED  BY <1>0, <3>2, <3>4
  <2>3. CASE StripeWebhookLoad(h) /\ ~Return(h)
    <3>1. /\ pc' = [pc EXCEPT ![h] = "recordStripe"]
          /\ \A f \in Invocations \ {h} :
               read'[f] = read[f] /\ input'[f] = input[f] /\ proposed'[f] = proposed[f]
          /\ UNCHANGED <<subject, stamp>>
      BY <2>3 DEF StripeWebhookLoad
    <3>2. g # h => KeepsMemory(g)
      BY <3>1 DEF KeepsMemory
    <3> QED  BY <1>0, <2>3, <3>2, LoadProposesInTime
  <2>4. CASE StripeWebhookRecordCancelled(h)
    <3>1. g # h => KeepsMemory(g)
      BY <2>4 DEF StripeWebhookRecordCancelled, KeepsMemory
    <3>2. pc[h] = "recordStripe" /\ pc'[h] = "resolveStripe" /\ stamp' = stamp
      BY <2>0, <2>4 DEF StripeWebhookRecordCancelled
    <3>3. g = h => PaymentTimeFrame(g)'
      BY <1>0, <3>2 DEF ServiceTimeInv, PaymentTimeFrame
    <3> QED  BY <1>0, <3>1, <3>3
  <2>5. CASE StripeWebhookResolve(h) /\ ~Return(h)
    <3>1. /\ pc[h] = "resolveStripe" /\ pc' = [pc EXCEPT ![h] = "lookup"]
          /\ read' = [read EXCEPT ![h] = Undefined]
          /\ proposed' = [proposed EXCEPT ![h] = Undefined]
          /\ UNCHANGED <<subject, input, stamp>>
      BY <2>5 DEF StripeWebhookResolve
    <3>2. g # h => KeepsMemory(g)
      BY <3>1 DEF KeepsMemory
    <3>3. g = h => PaymentTimeFrame(g)'
      BY <1>0, <2>0, <3>1 DEF ServiceTimeInv, PaymentTimeFrame
    <3> QED  BY <1>0, <3>2, <3>3
  <2>6. CASE StripeWebhookRecord(h)
    BY <1>2, <2>0, <2>6 DEF StripeWebhookRecord
  <2> QED  BY <1>2, <1>4, <2>0, <2>1, <2>2, <2>3, <2>4, <2>5, <2>6 DEF StripeWebhookStep
<1> QED  BY <1>1, <1>3, <1>4 DEF PaymentStep

\* No commit of the payment side dates an order into the future.
LEMMA PaymentCommitsInTime ==
  ASSUME ServiceInv, ServiceTimeInv, PaymentStep, NEW o \in OrderIds,
         orders'[o] # orders[o], orders'[o] # Undefined
  PROVE  orders'[o].updatedAt <= clock
<1> USE DEF ServiceInv, PaymentInv, PaymentTypeOK, TableTypeOK, ItemsTypeOK
<1>1. CASE Stripe
  BY <1>1 DEF Stripe, ForeignIntent, StripeAnnounce, StripeAdvance, baseVars, tableVars
<1>2. ASSUME NEW q \in OrderIds, CreateOrder(q)
      PROVE  orders'[o].updatedAt <= clock
  <2>1. orders'[o] = NewOrder(clock)
    BY <1>2 DEF CreateOrder, CreateOrderItem
  <2>2. NewOrder(clock).updatedAt = clock
    BY DEF NewOrder
  <2> QED  BY <2>1, <2>2
<1>3. ASSUME NEW h \in Invocations, pc[h] \in {"bind", "recordStripe"},
             orders' = [orders EXCEPT ![subject[h]] = proposed[h]]
      PROVE  orders'[o].updatedAt <= clock
  BY <1>3 DEF ServiceTimeInv, PaymentTimeFrame
<1>4. ASSUME NEW h \in PrepareInvocations, PrepareStep(h) \/ \E q \in OrderIds : PrepareGet(h, q)
      PROVE  orders'[o].updatedAt <= clock
  <2>1. CASE PrepareBind(h)
    BY <1>3, <2>1, PaymentInvocations DEF PrepareBind, BindStripePaymentIntent
  <2> QED
    BY <1>4, <2>1 DEF PrepareStep, PrepareCreate, PrepareCreateLost, PrepareBindCancelled,
       PrepareBindConflict, PrepareResolveBinding, PrepareRetrieve, PrepareGet, tableVars
<1>5. ASSUME NEW h \in StripeWebhookInvocations,
             StripeWebhookStep(h) \/ \E e \in StripeEventIds : StripeWebhookRetrieve(h, e)
      PROVE  orders'[o].updatedAt <= clock
  <2>1. CASE StripeWebhookRecord(h)
    BY <1>3, <2>1, PaymentInvocations DEF StripeWebhookRecord, RecordStripeWebhook
  <2> QED
    BY <1>5, <2>1 DEF StripeWebhookStep, StripeWebhookLookup, StripeWebhookLoad,
       StripeWebhookRecordCancelled, StripeWebhookResolve, StripeWebhookRetrieve, tableVars
<1> QED  BY <1>1, <1>2, <1>4, <1>5 DEF PaymentStep

LEMMA PaymentSideKeepsTimes ==
  ASSUME ServiceInv, ServiceTimeInv, PaymentSide
  PROVE  ServiceTimeInv'
<1>0. PaymentStep /\ ServiceInv' /\ PaymentInv
  BY PaymentSideKeepsInv DEF PaymentSide, ServiceInv
<1>1. /\ clock' = clock /\ sent' = sent
      /\ \A g \in Invocations : KeepsMemory(g) \/ Pays(g)
  BY <1>0, PaymentTouchesOwn DEF PaymentSide, vendorVars
<1>2. \A g \in Invocations : PaymentTimeFrame(g)'
  BY <1>0, PaymentStepKeepsFrameTimes
<1>3. ASSUME NEW g \in Invocations PROVE TimeFrame(g)'
  <2>1. CASE KeepsMemory(g)
    BY <1>1, <2>1 DEF ServiceTimeInv, TimeInv, TimeFrame, KeepsMemory
  <2>2. CASE Pays(g)
    BY <2>2, PaysIsNoDelivery DEF TimeFrame, DeliverySteps
  <2> QED  BY <1>1, <2>1, <2>2
<1>4. ASSUME NEW o \in OrderIds, orders'[o] # Undefined
      PROVE  orders'[o].updatedAt <= clock'
  BY <1>0, <1>1, <1>4, PaymentCommitsInTime DEF ServiceTimeInv, TimeInv
<1>5. TimeInv'
  BY <1>1, <1>3, <1>4 DEF TimeInv, ServiceTimeInv
<1> QED  BY <1>2, <1>5 DEF ServiceTimeInv

LEMMA DeliverySideKeepsTimes ==
  ASSUME ServiceInv, ServiceTimeInv, [DeliveryNext]_allDeliveryVars
  PROVE  ServiceTimeInv'
<1>1. TimeInv' /\ clock \in Nat /\ clock' \in Nat /\ clock <= clock'
  BY StepKeepsTimes, FramesKeepTimes DEF ServiceInv, ServiceTimeInv
<1>2. ASSUME NEW g \in Invocations PROVE PaymentTimeFrame(g)'
  <2>1. CASE KeepsMemory(g)
    BY <1>1, <2>1, PaymentTimesStay DEF ServiceTimeInv
  <2>2. CASE pc'[g] \in DeliverySteps \cup {"idle"}
    BY <2>2 DEF PaymentTimeFrame, DeliverySteps
  <2> QED  BY <2>1, <2>2, DeliverySideTouchesOwn
<1> QED  BY <1>1, <1>2 DEF ServiceTimeInv

LEMMA ServiceInitHasTimes ==
  ASSUME ServiceInit
  PROVE  ServiceTimeInv
  BY DEF ServiceInit, PaymentInit, TableInit, FramesInit, QueueInit, ServiceTimeInv, TimeInv,
     TimeFrame, PaymentTimeFrame

\* Nothing the service holds or stores is dated after its clock.
THEOREM ServiceTimes == ServiceSpec => []ServiceTimeInv
<1>1. ServiceInv /\ ServiceTimeInv /\ [ServiceNext]_serviceVars => ServiceTimeInv'
  BY ServiceStepIsOfOneSide, PaymentSideKeepsTimes, DeliverySideKeepsTimes
<1> QED  BY <1>1, ServiceInitHasTimes, ServiceInvariant, PTL DEF ServiceSpec

\* Whoever commits, a payment request, a Stripe webhook, a worker, an
\* operator or the provider's webhook: an order changes one version at a
\* time, never back in time, keeps the intent, the delivery and the outcome of
\* its payment once it has them, and never leaves a final status.
THEOREM ServiceChangesProper == ServiceSpec => OrdersChangeProperly
<1>1. ASSUME ServiceInv, DecisionInv, ServiceTimeInv, [ServiceNext]_serviceVars,
             NEW o \in OrderIds, orders'[o] # orders[o]
      PROVE  /\ orders'[o] # Undefined
             /\ orders[o] # Undefined => CommittedChange(orders[o], orders'[o])
  <2>1. CASE PaymentSide
    BY <1>1, <2>1, PaymentSideMovesOn, UndefinedIsNoRecord DEF PaymentMove, OrdersMove, ProperNext
  <2>2. CASE [DeliveryNext]_allDeliveryVars
    BY <1>1, <2>2, DeliveryStepHasShape, DeliveryChangesProperly
       DEF PromiseStep, ServiceInv, ServiceTimeInv
  <2> QED  BY <1>1, <2>1, <2>2, ServiceStepIsOfOneSide
<1>2. ServiceInv /\ DecisionInv /\ ServiceTimeInv /\ [ServiceNext]_serviceVars =>
        [ \A o \in OrderIds :
            orders'[o] # orders[o] =>
              /\ orders'[o] # Undefined
              /\ orders[o] # Undefined => CommittedChange(orders[o], orders'[o]) ]_orders
  BY <1>1
<1> QED
  BY <1>2, ServiceInvariant, ServiceDecisionInvariant, ServiceTimes, PTL
  DEF ServiceSpec, OrdersChangeProperly

(***************************************************************************)
(* What the provider accepted, with payment going on.                      *)
(***************************************************************************)

LEMMA AcceptedAreStored ==
  ASSUME ServiceInv
  PROVE  AcceptedExist
  BY DEF ServiceInv, AcceptedArePaid, Paid, AcceptedExist

\* Payment moves no order that was submitted, and no worker's request.
LEMMA PaymentSideKeepsPromise ==
  ASSUME ServiceInv, PromiseInv, PaymentSide
  PROVE  PromiseInv'
<1> USE DEF ServiceInv
<1> SUFFICES ASSUME VendorConsistent
             PROVE  /\ RefusalsKnown'
                    /\ \A h \in Invocations : RefusalFrame(h)' /\ RequestFrame(h)'
                    /\ AcceptanceNeverForgotten'
  BY DEF PromiseInv
<1>0. /\ RefusalsKnown
      /\ \A h \in Invocations : RefusalFrame(h) /\ RequestFrame(h)
      /\ AcceptanceNeverForgotten
  BY DEF PromiseInv
<1>1. \A o \in OrderIds : PaymentMoves(o)
  BY PaymentMovesOwn DEF PaymentSide
<1>2. vendor' = vendor /\ queue' = queue
  BY DEF PaymentSide, vendorVars
<1>3. \A g \in Invocations : KeepsMemory(g) \/ Pays(g)
  BY PaymentTouchesOwn DEF PaymentSide
<1>4. RefusalsKnown'
  <2> SUFFICES ASSUME NEW o \in OrderIds, orders'[o] # Undefined,
                      orders'[o].status = "SUBMISSION_FAILED"
               PROVE  \E v \in Nat : orders'[o].version = v + 1 /\ RejectedSince(o, v)'
    BY DEF RefusalsKnown
  <2>1. orders'[o] = orders[o]
    BY <1>1 DEF PaymentMoves, StatusFor
  <2> QED  BY <1>0, <1>2, <2>1 DEF RefusalsKnown, RejectedSince
<1>5. ASSUME NEW h \in Invocations
      PROVE  RefusalFrame(h)' /\ RequestFrame(h)'
  <2>1. CASE Pays(h)
    BY <2>1, PaysIsNoDelivery DEF RefusalFrame, RequestFrame, DeliverySteps
  <2>2. CASE KeepsMemory(h) /\ pc[h] \in {"submit", "saveDelivery", "resolveDelivery"}
    <3>1. PICK o \in OrderIds : o = subject[h] /\ o = input[h].orderId
      BY <2>2, BusyWorker
    <3>2. PICK v \in Nat : v = read[h].version
      BY <2>2, BusyWorker
    <3>3. orders[o] # Undefined /\ v <= orders[o].version
      BY <2>2, <3>1, <3>2, BusyWorker
    <3>4. \/ orders'[o] = orders[o]
          \/ /\ orders[o] \in Order
             /\ orders'[o].version = orders[o].version + 1
             /\ orders[o].deliveryProviderOrderId = Undefined
      BY <1>1, <3>3 DEF PaymentMoves
    <3>5. RefusalFrame(h)'
      <4>1. /\ pc'[h] = pc[h] /\ subject'[h] = o
            /\ read'[h] = read[h] /\ proposed'[h] = proposed[h]
        BY <2>2, <3>1 DEF KeepsMemory
      <4>2. CASE v < orders[o].version
        <5>1. v < orders'[o].version
          BY <3>4, <4>2 DEF Order
        <5> QED  BY <3>2, <4>1, <5>1 DEF RefusalFrame
      <4>3. CASE orders'[o] # orders[o]
        <5>1. v < orders'[o].version
          BY <3>3, <3>4, <4>3 DEF Order
        <5> QED  BY <3>2, <4>1, <5>1 DEF RefusalFrame
      <4>4. CASE orders'[o] = orders[o] /\ ~(v < orders[o].version)
        BY <1>0, <1>2, <3>1, <3>2, <4>1, <4>4 DEF RefusalFrame, RejectedSince
      <4> QED  BY <4>2, <4>3, <4>4
    <3>6. RequestFrame(h)'
      <4>1. pc'[h] = pc[h] /\ input'[h] = input[h]
        BY <2>2 DEF KeepsMemory
      <4>2. CASE input[h] \in queue
        BY <1>2, <4>1, <4>2 DEF RequestFrame
      <4>3. CASE Answered(input[h])
        BY <1>2, <3>1, <3>4, <4>1, <4>3 DEF RequestFrame, Answered, Accepted, RejectedSince
      <4> QED  BY <1>0, <2>2, <4>2, <4>3 DEF RequestFrame
    <3> QED  BY <3>5, <3>6
  <2>3. CASE KeepsMemory(h) /\ pc[h] \notin {"submit", "saveDelivery", "resolveDelivery"}
    BY <2>3 DEF KeepsMemory, RefusalFrame, RequestFrame
  <2> QED  BY <1>3, <2>1, <2>2, <2>3
<1>6. AcceptanceNeverForgotten'
  <2> SUFFICES ASSUME NEW o \in OrderIds, Accepted(o)',
                      orders'[o].deliveryProviderOrderId = Undefined
               PROVE  \E m \in queue' : m.orderId = o
    BY DEF AcceptanceNeverForgotten
  <2>1. Accepted(o) /\ Paid(o)
    BY <1>2 DEF Accepted, AcceptedArePaid
  <2>2. orders'[o] = orders[o]
    BY <1>1, <2>1 DEF Paid, PaymentMoves, TerminalPaymentStatus
  <2> QED  BY <1>0, <1>2, <2>1, <2>2 DEF AcceptanceNeverForgotten
<1> QED  BY <1>4, <1>5, <1>6

LEMMA ServiceStepKeepsPromise ==
  ASSUME ServiceInv, PromiseInv, [ServiceNext]_serviceVars
  PROVE  PromiseInv'
<1>1. CASE [DeliveryNext]_allDeliveryVars
  BY <1>1, AcceptedAreStored, DeliveryStepHasShape, StepKeepsPromise DEF ServiceInv
<1> QED  BY <1>1, ServiceStepIsOfOneSide, PaymentSideKeepsPromise

\* With a provider that does not contradict itself, an accepted delivery is
\* in its order, or a request of the order stays on the queue's failure path,
\* whatever payments, retries and operator changes go on around it.
THEOREM ServiceAcceptancesAreRemembered ==
  ServiceSpec => [](VendorConsistent => AcceptanceNeverForgotten)
<1>1. ServiceInit => PromiseInv
  BY DEF ServiceInit, PaymentInit, TableInit, FramesInit, QueueInit, PromiseInv, RefusalsKnown,
     RefusalFrame, RequestFrame, AcceptanceNeverForgotten, Accepted
<1>2. ServiceInv /\ PromiseInv /\ [ServiceNext]_serviceVars => PromiseInv'
  BY ServiceStepKeepsPromise
<1>3. PromiseInv => (VendorConsistent => AcceptanceNeverForgotten)
  BY DEF PromiseInv
<1> QED  BY <1>1, <1>2, <1>3, ServiceInvariant, PTL DEF ServiceSpec
==============================================================================
