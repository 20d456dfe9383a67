--------------------------- MODULE MCOrderLiveness ---------------------------
(***************************************************************************)
(* PaymentFlow and DeliveryFlow under their fairness, for one TLC run: a   *)
(* behaviour follows the flow its first state names, and leaves the other  *)
(* at rest.  Each flow keeps its own initial states, steps and fairness.   *)
(***************************************************************************)
EXTENDS OrderService, TLC

VARIABLE flow

NoForeignIntents == {}

\* Stripe's side of the paid orders DeliveryFlow starts from.
CollectedIntents ==
  [ i \in IntentIds |->
      IF intentMapping[i] = Undefined THEN Undefined
      ELSE [NewIntent(intentMapping[i], TRUE, TRUE, TRUE) EXCEPT !.status = "SUCCEEDED"] ]

LivenessInit ==
  \/ /\ flow = "payment"
     /\ ServiceInit
  \/ /\ flow = "delivery"
     /\ DeliveryInit
     /\ intents = CollectedIntents
     /\ creationKeys = [o \in OrderIds |-> Undefined]
     /\ emitted = [e \in StripeEventIds |-> Undefined]
     /\ secretReleased = {}

\* Failure codes of an intent would only repeat the states without them.
NoFailureCodes ==
  \A i \in IntentIds : intents'[i] # Undefined => intents'[i].failureCode = Undefined

LivenessNext ==
  /\ UNCHANGED flow
  /\ \/ flow = "payment" /\ PaymentNext /\ NoFailureCodes /\ UNCHANGED deliveryVars
     \/ flow = "delivery" /\ DeliveryNext /\ UNCHANGED paymentVars

livenessVars == <<serviceVars, flow>>

\* PaymentFairness and DeliveryFairness, each where its flow runs.  Receives
\* and duplicates are bounded, so that fairness for all requests together
\* says the same as fairness for each.
FlowFairness ==
  /\ \A h \in StripeWebhookInvocations :
       WF_allPaymentVars(flow = "payment" /\ StripeWebhookStep(h))
  /\ \A e \in StripeEventIds :
       SF_allPaymentVars(flow = "payment" /\ RedeliverUnrecorded(e))
  /\ WF_allDeliveryVars(flow = "delivery" /\ \E m \in Requests : Publish(m))
  /\ \A h \in Workers : WF_allDeliveryVars(flow = "delivery" /\ WorkerStep(h))
  /\ SF_allDeliveryVars( /\ flow = "delivery"
                         /\ \E m \in Requests, h \in Workers : WorkerReceive(h, m) )

FairFlows == LivenessInit /\ [][LivenessNext]_livenessVars /\ FlowFairness

DecidedOrdersProceed == flow = "payment" => DecidedOrderProceeds
PendingOrdersSettle == flow = "delivery" => SubmissionSettles
==============================================================================
