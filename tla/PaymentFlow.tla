----------------------------- MODULE PaymentFlow -----------------------------
(***************************************************************************)
(* Payment of an order: POST /orders/{id}/payment-intent                   *)
(* (prepareStripePaymentIntent), the Stripe webhook (processStripeWebhook) *)
(* and Stripe itself as their environment.                                 *)
(*                                                                         *)
(* Each invocation takes one step per call it awaits, so any number of     *)
(* requests, duplicate webhook deliveries and late answers interleave with *)
(* the conditional writes of OrderTable.                                   *)
(***************************************************************************)
EXTENDS OrderTable

CONSTANTS
  PrepareInvocations,        \* invocations of the orders API preparing a payment
  StripeWebhookInvocations,  \* invocations of the Stripe webhook Lambda
  IntentStatuses,            \* statuses intents take at Stripe
  ForeignIntents             \* kinds of intents others create: [matches, automatic]

ASSUME PaymentInvocations ==
  /\ PrepareInvocations \subseteq Invocations
  /\ StripeWebhookInvocations \subseteq Invocations
  /\ PrepareInvocations \cap StripeWebhookInvocations = {}
  /\ IntentStatuses \subseteq PaymentStatus \ {"NOT_STARTED"}
  /\ "REQUIRES_PAYMENT_METHOD" \in IntentStatuses
  /\ ForeignIntents \subseteq [matches : BOOLEAN, automatic : BOOLEAN]

VARIABLES
  intents,          \* Stripe: PaymentIntents
  creationKeys,     \* Stripe: intent already created for an order's creation key
  emitted,          \* Stripe: events sent, with what they announced
  secretReleased    \* intents whose client secret a response carried

stripeVars  == <<intents, creationKeys, emitted>>
paymentVars == <<stripeVars, secretReleased>>

(***************************************************************************)
(* Stripe.  An intent the application did not create ("own" is FALSE) may  *)
(* carry the metadata of an order with a wrong amount or manual capture.   *)
(***************************************************************************)
Intent ==
  [ orderId : OrderIds,
    status : PaymentStatus \ {"NOT_STARTED"},
    failureCode : Optional(ReasonCodes),
    matches : BOOLEAN,      \* amount and currency are the order's
    automatic : BOOLEAN,    \* capture method
    own : BOOLEAN ]

ASSUME UndefinedIsNoIntent == Undefined \notin Intent

ASSUME UndefinedIsNoOutcome == Undefined \notin StripeOutcomes

NewIntent(o, matches, automatic, own) ==
  [ orderId |-> o, status |-> "REQUIRES_PAYMENT_METHOD", failureCode |-> Undefined,
    matches |-> matches, automatic |-> automatic, own |-> own ]

StripeTransitions ==
  [ REQUIRES_PAYMENT_METHOD |-> {"REQUIRES_PAYMENT_METHOD", "REQUIRES_CONFIRMATION",
                                 "REQUIRES_ACTION", "PROCESSING", "SUCCEEDED", "CANCELLED"},
    REQUIRES_CONFIRMATION |-> {"REQUIRES_PAYMENT_METHOD", "REQUIRES_ACTION", "PROCESSING",
                               "SUCCEEDED", "CANCELLED"},
    REQUIRES_ACTION |-> {"REQUIRES_PAYMENT_METHOD", "PROCESSING", "SUCCEEDED", "CANCELLED"},
    PROCESSING |-> {"REQUIRES_PAYMENT_METHOD", "SUCCEEDED"},
    SUCCEEDED |-> {},
    CANCELLED |-> {} ]

Announcement(i, status) == [intentId |-> i, status |-> status]

\* Somebody else's intent names an order of ours.
ForeignIntent(i, o, kind) ==
  /\ intents[i] = Undefined
  /\ intents' = [intents EXCEPT ![i] = NewIntent(o, kind.matches, kind.automatic, FALSE)]
  /\ UNCHANGED <<baseVars, creationKeys, emitted, secretReleased>>

\* payment_intent.created
StripeAnnounce(e, i) ==
  /\ intents[i] # Undefined
  /\ emitted[e] = Undefined
  /\ \A f \in StripeEventIds : emitted[f] # Undefined => emitted[f].intentId # i
  /\ emitted' = [emitted EXCEPT ![e] = Announcement(i, intents[i].status)]
  /\ UNCHANGED <<baseVars, intents, creationKeys, secretReleased>>

\* The customer can act on our intent only with its client secret; it can be
\* canceled at Stripe at any time.  A decline returns to
\* REQUIRES_PAYMENT_METHOD with a reason code.
StripeAdvance(e, i, status, code) ==
  /\ intents[i] # Undefined
  /\ status \in StripeTransitions[intents[i].status]
  /\ intents[i].own => (i \in secretReleased \/ status = "CANCELLED")
  /\ (code # Undefined) <=> (status = "REQUIRES_PAYMENT_METHOD")
  /\ emitted[e] = Undefined
  /\ intents' = [intents EXCEPT ![i].status = status, ![i].failureCode = code]
  /\ emitted' = [emitted EXCEPT ![e] = Announcement(i, status)]
  /\ UNCHANGED <<baseVars, creationKeys, secretReleased>>

(***************************************************************************)
(* Order creation, as far as payment sees it.                              *)
(***************************************************************************)
CreateOrder(o) ==
  /\ CreateOrderItem(o, NewOrder(clock))
  /\ UNCHANGED <<clock, crashes, frameVars, paymentVars>>

(***************************************************************************)
(* prepareStripePaymentIntent.                                             *)
(***************************************************************************)

\* The change a snapshot of intent i asks of the payment.
SnapshotChange(i, snapshot, changedAt) ==
  [ targetStatus |-> snapshot.status,
    stripePaymentIntentId |-> i,
    lastFailure |-> IF snapshot.failureCode = Undefined THEN Undefined
                    ELSE [reasonCode |-> snapshot.failureCode, occurredAt |-> changedAt] ]

PrepareGet(h, o) ==
  /\ pc[h] = "idle"
  /\ orders[o] # Undefined
  /\ \/ /\ orders[o].payment.stripePaymentIntentId # Undefined
        /\ Goto(h, "retrieve")
        /\ UNCHANGED stamp
     \/ /\ orders[o].payment.stripePaymentIntentId = Undefined
        /\ orders[o].status = "AWAITING_PAYMENT"
        /\ orders[o].payment.status = "NOT_STARTED"
        /\ Goto(h, "create")
        /\ stamp' = [stamp EXCEPT ![h] = clock]
  /\ subject' = [subject EXCEPT ![h] = o]
  /\ read' = [read EXCEPT ![h] = orders[o]]
  /\ UNCHANGED <<tableVars, clock, crashes, input, proposed, attempt, paymentVars>>

\* Stripe creates the intent, or replays for the creation key the answer it
\* gave the first time: the intent as it was when new.
PrepareCreate(h, i) ==
  LET o == subject[h]
      created == NewIntent(o, TRUE, TRUE, TRUE)
      change == SnapshotChange(i, created, stamp[h])
  IN /\ pc[h] = "create"
     /\ IF creationKeys[o] = Undefined THEN intents[i] = Undefined ELSE creationKeys[o] = i
     /\ intents' = [intents EXCEPT ![i] = IF @ = Undefined THEN created ELSE @]
     /\ creationKeys' = [creationKeys EXCEPT ![o] = i]
     /\ PaymentChangeAccepted(read[h].payment, change, stamp[h])
     /\ proposed' = [proposed EXCEPT ![h] =
          WithPayment(read[h], PaymentChanged(read[h].payment, change, stamp[h]), stamp[h])]
     /\ Goto(h, "bind")
     /\ UNCHANGED <<tableVars, clock, crashes, subject, input, stamp, read, attempt,
                    emitted, secretReleased>>

\* The intent exists at Stripe, the answer is lost: the request fails.
PrepareCreateLost(h, i) ==
  LET o == subject[h]
  IN /\ pc[h] = "create"
     /\ IF creationKeys[o] = Undefined THEN intents[i] = Undefined ELSE creationKeys[o] = i
     /\ intents' = [intents EXCEPT ![i] =
          IF @ = Undefined THEN NewIntent(o, TRUE, TRUE, TRUE) ELSE @]
     /\ creationKeys' = [creationKeys EXCEPT ![o] = i]
     /\ Return(h)
     /\ UNCHANGED <<tableVars, clock, crashes, emitted, secretReleased>>

PrepareBind(h) ==
  /\ pc[h] = "bind"
  /\ BindStripePaymentIntent(subject[h], read[h], proposed[h])
  /\ secretReleased' = secretReleased \cup {proposed[h].payment.stripePaymentIntentId}
  /\ Return(h)
  /\ UNCHANGED <<clock, crashes, stripeVars>>

PrepareBindCancelled(h) ==
  /\ pc[h] = "bind"
  /\ ~BindCommits(subject[h], read[h], proposed[h].payment.stripePaymentIntentId)
  /\ Goto(h, "resolveBinding")
  /\ UNCHANGED <<tableVars, clock, crashes, subject, input, stamp, read, proposed, attempt,
                 paymentVars>>

\* Cancelled for a conflict alone: the request fails.
PrepareBindConflict(h) ==
  /\ pc[h] = "bind"
  /\ Contended(h)
  /\ Return(h)
  /\ UNCHANGED <<tableVars, clock, crashes, paymentVars>>

\* Reads mapping and order again: bound to this order means replay, anything
\* else fails the request.
PrepareResolveBinding(h) ==
  LET o == subject[h]
      i == proposed[h].payment.stripePaymentIntentId
  IN /\ pc[h] = "resolveBinding"
     /\ IF /\ intentMapping[i] = o
           /\ orders[o].payment.stripePaymentIntentId = i
        THEN /\ Goto(h, "retrieve")
             /\ read' = [read EXCEPT ![h] = orders[o]]
             /\ UNCHANGED <<subject, input, stamp, proposed, attempt>>
        ELSE Return(h)
     /\ UNCHANGED <<tableVars, clock, crashes, paymentVars>>

\* Faulty variant: a replayed request answers from the intent it created.
PrepareRetrieveCreated(h) ==
  /\ pc[h] \in {"retrieve", "bind"}
  /\ LET i == IF pc[h] = "bind" THEN proposed[h].payment.stripePaymentIntentId
              ELSE read[h].payment.stripePaymentIntentId
     IN secretReleased' = secretReleased \cup {i}
  /\ Return(h)
  /\ UNCHANGED <<tableVars, clock, crashes, stripeVars>>

\* The bound intent is retrieved and its secret returned, if what Stripe
\* answers is consistent with the order.
PrepareRetrieve(h) ==
  LET i == read[h].payment.stripePaymentIntentId
  IN /\ pc[h] = "retrieve"
     /\ secretReleased' =
          IF intents[i].orderId = subject[h] /\ intents[i].matches /\ intents[i].automatic
          THEN secretReleased \cup {i} ELSE secretReleased
     /\ Return(h)
     /\ UNCHANGED <<tableVars, clock, crashes, stripeVars>>

(***************************************************************************)
(* processStripeWebhook.                                                   *)
(***************************************************************************)

\* Faulty variant: capture method and amount are not compared.
MismatchUnchecked(o, order, i, snapshot) ==
  \/ order = Undefined
  \/ snapshot.orderId # o
  \/ order.payment.stripePaymentIntentId \notin {Undefined, i}

\* proposeChange finds the intent not to be the order's.
Mismatch(o, order, i, snapshot) ==
  \/ order = Undefined
  \/ snapshot.orderId # o
  \/ ~snapshot.matches
  \/ order.payment.stripePaymentIntentId \notin {Undefined, i}
  \/ ~snapshot.automatic

\* The order with the payment the snapshot shows, and with the status that
\* follows from it when the payment is decided.
PaymentChangedOrder(order, i, snapshot, at) ==
  LET payment == PaymentChanged(order.payment, SnapshotChange(i, snapshot, at), at)
  IN IF payment = order.payment THEN order ELSE WithPayment(order, payment, at)

DecidedTarget(snapshot) ==
  IF snapshot.status = "SUCCEEDED" THEN "PENDING_SUBMISSION" ELSE "CANCELLED"

PaidOrder(order, i, snapshot, at) ==
  [order EXCEPT !.payment = PaymentChanged(@, SnapshotChange(i, snapshot, at), at)]

StatusChangedOrder(order, i, snapshot, at) ==
  StatusChanged(PaidOrder(order, i, snapshot, at), ChangeTo(DecidedTarget(snapshot)), at)

Decided(snapshot) == snapshot.status \in TerminalPaymentStatus

\* Faulty variant: a decided payment does not move the order along.
ProposedOrderPaymentOnly(order, i, snapshot, at) == PaymentChangedOrder(order, i, snapshot, at)

ProposedOrder(order, i, snapshot, at) ==
  IF Decided(snapshot) THEN StatusChangedOrder(order, i, snapshot, at)
  ELSE PaymentChangedOrder(order, i, snapshot, at)

\* applyPaymentStatusChange or applyOrderStatusChange would throw.
ProposalThrows(order, i, snapshot, at) ==
  \/ ~PaymentChangeAccepted(order.payment, SnapshotChange(i, snapshot, at), at)
  \/ /\ Decided(snapshot)
     /\ ~StatusChangeApplies(PaidOrder(order, i, snapshot, at),
                             ChangeTo(DecidedTarget(snapshot)), at)

ProposedOutcome(o, order, i, snapshot, at) ==
  CASE Mismatch(o, order, i, snapshot) -> "RECONCILIATION_REQUIRED"
    [] /\ ~Mismatch(o, order, i, snapshot)
       /\ order.status # "AWAITING_PAYMENT" ->
         IF /\ order.payment.status = snapshot.status
            /\ order.payment.stripePaymentIntentId = i
         THEN "IGNORED" ELSE "RECONCILIATION_REQUIRED"  \* ORDER_ALREADY_PROGRESSED
    [] OTHER ->
         IF ProposalThrows(order, i, snapshot, at) THEN "THROWS"
         ELSE IF ProposedOrder(order, i, snapshot, at) = order THEN "IGNORED"
         ELSE "APPLIED"

\* The intent is retrieved, and the time taken, once per delivery.
StripeWebhookRetrieve(h, e) ==
  /\ pc[h] = "idle"
  /\ emitted[e] # Undefined
  /\ input' = [input EXCEPT ![h] =
       [ eventId |-> e, intentId |-> emitted[e].intentId,
         snapshot |-> intents[emitted[e].intentId],
         ensureMapping |-> FALSE,     \* the mapping was absent when looked up
         verdict |-> Undefined ]]     \* the proposed outcome
  /\ stamp' = [stamp EXCEPT ![h] = clock]
  /\ attempt' = [attempt EXCEPT ![h] = 1]
  /\ Goto(h, "lookup")
  /\ UNCHANGED <<tableVars, clock, crashes, subject, read, proposed, paymentVars>>

StripeWebhookLookup(h) ==
  LET mapped == intentMapping[input[h].intentId]
  IN /\ pc[h] = "lookup"
     /\ input' = [input EXCEPT ![h].ensureMapping = (mapped = Undefined)]
     /\ subject' = [subject EXCEPT ![h] = FirstDefined(mapped, input[h].snapshot.orderId)]
     /\ Goto(h, "load")
     /\ UNCHANGED <<tableVars, clock, crashes, stamp, read, proposed, attempt, paymentVars>>

StripeWebhookLoad(h) ==
  LET o == subject[h]
      order == orders[o]
      outcome == ProposedOutcome(o, order, input[h].intentId, input[h].snapshot, stamp[h])
  IN /\ pc[h] = "load"
     /\ IF outcome = "THROWS"
        THEN Return(h)
        ELSE /\ read' = [read EXCEPT ![h] = order]
             /\ proposed' = [proposed EXCEPT ![h] =
                  IF outcome = "APPLIED"
                  THEN ProposedOrder(order, input[h].intentId, input[h].snapshot, stamp[h])
                  ELSE order]
             /\ input' = [input EXCEPT ![h].verdict = outcome]
             /\ Goto(h, "recordStripe")
             /\ UNCHANGED <<subject, stamp, attempt>>
     /\ UNCHANGED <<tableVars, clock, crashes, paymentVars>>

\* A reconciliation record never writes the mapping.
MapIntent(h) == input[h].ensureMapping /\ input[h].verdict # "RECONCILIATION_REQUIRED"

StripeWebhookRecord(h) ==
  /\ pc[h] = "recordStripe"
  /\ RecordStripeWebhook(subject[h], read[h], proposed[h], input[h].eventId,
                         input[h].intentId, MapIntent(h), input[h].verdict)
  /\ Return(h)
  /\ UNCHANGED <<clock, crashes, paymentVars>>

StripeWebhookRecordCancelled(h) ==
  /\ pc[h] = "recordStripe"
  /\ \/ ~StripeWebhookCommits(subject[h], read[h], input[h].eventId, input[h].intentId,
                               MapIntent(h))
     \/ Contended(h)
  /\ Goto(h, "resolveStripe")
  /\ UNCHANGED <<tableVars, clock, crashes, subject, input, stamp, read, proposed, attempt,
                 paymentVars>>

\* Why the transaction was cancelled: a recorded event ends the delivery, a
\* version conflict starts another turn with the same snapshot and time.
StripeWebhookResolve(h) ==
  /\ pc[h] = "resolveStripe"
  /\ \/ /\ stripeEvents[input[h].eventId] = Undefined
        /\ MapIntent(h) => intentMapping[input[h].intentId] \in {Undefined, subject[h]}
        /\ orders[subject[h]] # Undefined
        /\ AttemptsLeft(h)
        /\ attempt' = [attempt EXCEPT ![h] = @ + 1]
        /\ read' = [read EXCEPT ![h] = Undefined]
        /\ proposed' = [proposed EXCEPT ![h] = Undefined]
        /\ Goto(h, "lookup")
        /\ UNCHANGED <<subject, input, stamp>>
     \/ /\ \/ stripeEvents[input[h].eventId] # Undefined
           \/ MapIntent(h) /\ intentMapping[input[h].intentId] \notin {Undefined, subject[h]}
           \/ orders[subject[h]] = Undefined
           \/ ~AttemptsLeft(h)
        /\ Return(h)
  /\ UNCHANGED <<tableVars, clock, crashes, paymentVars>>

(***************************************************************************)
(* Specification.                                                          *)
(***************************************************************************)
StripeInit ==
  /\ intents = [i \in IntentIds |-> Undefined]
  /\ creationKeys = [o \in OrderIds |-> Undefined]
  /\ emitted = [e \in StripeEventIds |-> Undefined]
  /\ secretReleased = {}

PaymentInit ==
  /\ TableInit
  /\ FramesInit
  /\ clock = 0
  /\ crashes = 0
  /\ StripeInit

Stripe ==
  \/ \E i \in IntentIds, o \in OrderIds, kind \in ForeignIntents : ForeignIntent(i, o, kind)
  \/ \E e \in StripeEventIds, i \in IntentIds : StripeAnnounce(e, i)
  \/ \E e \in StripeEventIds, i \in IntentIds, s \in IntentStatuses, c \in Optional(ReasonCodes) :
       StripeAdvance(e, i, s, c)

PrepareStep(h) ==
  \/ \E i \in IntentIds : PrepareCreate(h, i) \/ PrepareCreateLost(h, i)
  \/ PrepareBind(h)
  \/ PrepareBindCancelled(h)
  \/ PrepareBindConflict(h)
  \/ PrepareResolveBinding(h)
  \/ PrepareRetrieve(h)

StripeWebhookStep(h) ==
  \/ StripeWebhookLookup(h)
  \/ StripeWebhookLoad(h)
  \/ StripeWebhookRecord(h)
  \/ StripeWebhookRecordCancelled(h)
  \/ StripeWebhookResolve(h)

PaymentStep ==
  \/ Stripe
  \/ \E o \in OrderIds : CreateOrder(o)
  \/ \E h \in PrepareInvocations : PrepareStep(h) \/ \E o \in OrderIds : PrepareGet(h, o)
  \/ \E h \in StripeWebhookInvocations :
       StripeWebhookStep(h) \/ \E e \in StripeEventIds : StripeWebhookRetrieve(h, e)

PaymentNext ==
  \/ PaymentStep
  \/ Tick /\ UNCHANGED paymentVars
  \/ \E h \in Invocations : Crash(h) /\ UNCHANGED paymentVars

allPaymentVars == <<baseVars, paymentVars>>

PaymentSpec == PaymentInit /\ [][PaymentNext]_allPaymentVars

\* A running webhook invocation goes on (or crashes), and Stripe repeats the
\* delivery of an event until it has been recorded.
RedeliverUnrecorded(e) ==
  /\ stripeEvents[e] = Undefined
  /\ \E h \in StripeWebhookInvocations : StripeWebhookRetrieve(h, e)

PaymentFairness ==
  /\ \A h \in StripeWebhookInvocations : WF_allPaymentVars(StripeWebhookStep(h))
  /\ \A e \in StripeEventIds : SF_allPaymentVars(RedeliverUnrecorded(e))

FairPaymentSpec == PaymentSpec /\ PaymentFairness

(***************************************************************************)
(* Properties.                                                             *)
(***************************************************************************)
Snapshot ==
  [ eventId : StripeEventIds, intentId : IntentIds, snapshot : Intent,
    ensureMapping : BOOLEAN, verdict : Optional(StripeOutcomes) ]

StripeTypeOK ==
  /\ intents \in [IntentIds -> Intent \cup {Undefined}]
  /\ creationKeys \in [OrderIds -> Optional(IntentIds)]
  /\ emitted \in [StripeEventIds -> [intentId : IntentIds, status : PaymentStatus] \cup {Undefined}]
  /\ secretReleased \subseteq IntentIds

WebhookInputsOK ==
  \A h \in StripeWebhookInvocations : input[h] \in Snapshot \cup {Undefined}

\* The table, the frames and Stripe hold values of their types.
PaymentTypeOK == TableTypeOK /\ StripeTypeOK /\ WebhookInputsOK

\* PAY-I05: the secret with which a customer can pay leaves the API only
\* once the order carries the intent and the mapping to find it again is
\* durable; otherwise money could be taken for no known order.
SecretOnlyAfterMapping ==
  \A i \in secretReleased :
    \E o \in OrderIds :
      /\ intentMapping[i] = o
      /\ orders[o].payment.stripePaymentIntentId = i

\* An order is taken for paid only if Stripe really has the order's amount,
\* captured automatically, on the very intent the order carries: whatever
\* the age of the snapshot, the kind of the intent and the order of events.
PaidMeansCollected ==
  \A o \in OrderIds :
    (orders[o] # Undefined /\ orders[o].payment.status = "SUCCEEDED") =>
      LET intent == intents[orders[o].payment.stripePaymentIntentId]
      IN /\ intent.status = "SUCCEEDED"
         /\ intent.orderId = o
         /\ intent.matches
         /\ intent.automatic

\* PAY-I01: payment and order are decided in one commit, so no reader ever
\* sees a paid order that waits for payment, or the reverse.
StatusFollowsPayment ==
  \A o \in OrderIds :
    orders[o] # Undefined =>
      /\ (orders[o].payment.status = "SUCCEEDED") <=> (orders[o].status = "PENDING_SUBMISSION")
      /\ (orders[o].payment.status = "CANCELLED") <=> (orders[o].status = "CANCELLED")

\* A delivery Stripe will not repeat has had its effect: once an event that
\* announced a decided payment is recorded as applied or ignored, the order
\* no longer waits, and no slower invocation sets it back.
DecisionNeverLost ==
  \A e \in StripeEventIds :
    ( /\ stripeEvents[e] \in {"APPLIED", "IGNORED"}
      /\ emitted[e].status \in TerminalPaymentStatus )
    => orders[intents[emitted[e].intentId].orderId].status # "AWAITING_PAYMENT"

\* Repeated deliveries of an event take effect once: the marker is written
\* in the transaction that changes the order, and never written again.
EventTakesEffectOnce ==
  [][ \A e \in StripeEventIds :
        stripeEvents[e] # Undefined => stripeEvents'[e] = stripeEvents[e]
    ]_stripeEvents

\* An order whose intent is decided at Stripe does not wait for payment for
\* ever, however many turns of the retry loop concurrent writers defeat.
DecidedOrderProceeds ==
  \A o \in OrderIds, i \in IntentIds :
    ( /\ orders[o] # Undefined
      /\ orders[o].payment.stripePaymentIntentId = i
      /\ intents[i].status \in TerminalPaymentStatus )
    ~> (orders[o] # Undefined /\ orders[o].status # "AWAITING_PAYMENT")

\* stripe-payment-extension.md, webhook failure policy: what is recorded for
\* reconciliation is a verified permanent mismatch.  Here: the intent is not
\* one the order could be paid with.
ReconciliationMeansMismatch ==
  \A e \in StripeEventIds :
    stripeEvents[e] = "RECONCILIATION_REQUIRED" =>
      LET i == emitted[e].intentId
          o == intents[i].orderId
      IN Mismatch(o, orders[o], i, intents[i])
==============================================================================
