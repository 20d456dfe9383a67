------------------------- MODULE DeliveryFlowProofs --------------------------
(***************************************************************************)
(* DeliveryFlow, for any number of orders, invocations, requests, events   *)
(* and crashes: types, optimistic concurrency, no paid order forgotten;    *)
(* then what the provider promised (the lookup and the orders agree, an    *)
(* order tells the acceptance the provider gave, none is forgotten); and   *)
(* that orders only ever change as they may.                               *)
(***************************************************************************)
EXTENDS DeliveryFlow, OrderTableProofs

(***************************************************************************)
(* The inductive invariant.                                                *)
(***************************************************************************)

\* A worker with a request has read the very version the request names, and
\* will commit one of the two outcomes of a submission.
WorkerFrame(h) ==
  /\ pc[h] \in {"submit", "saveDelivery", "resolveDelivery"} =>
       /\ input[h] \in Requests
       /\ subject[h] = input[h].orderId
       /\ read[h] \in Order
       /\ read[h].version = input[h].version
       /\ read[h].status = "PENDING_SUBMISSION"
  /\ pc[h] \in {"saveDelivery", "resolveDelivery"} =>
       /\ proposed[h] \in Order
       /\ proposed[h].version = read[h].version + 1
       /\ proposed[h].status \in {"SUBMITTED", "SUBMISSION_FAILED"}

OperatorFrame(h) ==
  pc[h] = "saveOperator" =>
    /\ subject[h] \in OrderIds
    /\ read[h] \in Order
    /\ proposed[h] \in Order
    /\ proposed[h].version = read[h].version + 1
    /\ read[h].version < MaxVersion

\* A provider webhook leaves the order as it was read, or takes it to the
\* status the event tells.
ProviderFrame(h) ==
  /\ pc[h] \in {"getProvider", "recordProvider", "resolveProvider"} => input[h] \in SentEvent
  /\ pc[h] = "recordProvider" =>
       /\ subject[h] \in OrderIds
       /\ read[h] \in Order
       /\ \/ proposed[h] = read[h]
          \/ /\ proposed[h] \in Order
             /\ proposed[h].version = read[h].version + 1
             /\ proposed[h].status \in EventTargets

DeliveryFrame(h) == WorkerFrame(h) /\ OperatorFrame(h) /\ ProviderFrame(h)

DeliveryFramesOK == \A h \in Invocations : DeliveryFrame(h)

\* What is requested or looked up exists.
DeliveryTargetsExist ==
  /\ \A m \in stream \cup queue : orders[m.orderId] # Undefined
  /\ \A p \in ProviderIds :
       providerMapping[p] # Undefined => orders[providerMapping[p]] # Undefined

\* The types, but for the versions in the stream: what the payment flow
\* streams is not bounded by the last version an operator changes.
QueueKept ==
  /\ stream \subseteq [orderId : OrderIds, version : Nat]
  /\ queue \subseteq Requests
  /\ receives \in [Requests -> Nat]
  /\ duplicates \in Nat
  /\ reconciliation \subseteq Requests

DeliveryTyped == TableTypeOK /\ QueueKept /\ EventsTypeOK /\ InputsTypeOK

DeliveryInv ==
  /\ DeliveryTyped
  /\ SnapshotsCurrentOrOlder
  /\ DeliveryFramesOK
  /\ DeliveryTargetsExist
  /\ PendingHasRequest

(***************************************************************************)
(* Steps of any actor.                                                     *)
(***************************************************************************)

\* An invocation's step disturbs no other invocation.
LEMMA OthersKeepDeliveryFrames ==
  ASSUME DeliveryFramesOK, NEW h \in Invocations, DeliveryFrame(h)',
         \A g \in Invocations \ {h} :
           /\ pc'[g] = pc[g]
           /\ subject'[g] = subject[g]
           /\ input'[g] = input[g]
           /\ read'[g] = read[g]
           /\ proposed'[g] = proposed[g]
  PROVE  DeliveryFramesOK'
<1> SUFFICES ASSUME NEW g \in Invocations, g # h
             PROVE  DeliveryFrame(g)'
  BY DEF DeliveryFramesOK
<1>1. DeliveryFrame(g)
  BY DEF DeliveryFramesOK
<1>2. WorkerFrame(g)'
  BY <1>1 DEF DeliveryFrame, WorkerFrame
<1>3. OperatorFrame(g)'
  BY <1>1 DEF DeliveryFrame, OperatorFrame
<1>4. ProviderFrame(g)'
  BY <1>1 DEF DeliveryFrame, ProviderFrame
<1> QED  BY <1>2, <1>3, <1>4 DEF DeliveryFrame

\* An idle invocation has nothing in its memory to be wrong.
LEMMA ReturnKeepsDeliveryFrames ==
  ASSUME FramesTypeOK, DeliveryFramesOK, NEW h \in Invocations, Return(h)
  PROVE  DeliveryFramesOK' /\ FramesTypeOK' /\ ReadsFairly
<1>1. /\ FramesTypeOK'
      /\ read'[h] = Undefined
      /\ pc'[h] = "idle"
      /\ \A g \in Invocations \ {h} :
           /\ read'[g] = read[g]
           /\ subject'[g] = subject[g]
           /\ input'[g] = input[g]
           /\ proposed'[g] = proposed[g]
           /\ pc'[g] = pc[g]
  BY ReturnIsFair
<1>2. DeliveryFrame(h)'
  BY <1>1 DEF DeliveryFrame, WorkerFrame, OperatorFrame, ProviderFrame
<1>3. DeliveryFramesOK'
  BY <1>1, <1>2, OthersKeepDeliveryFrames
<1>4. ReadsFairly
  BY <1>1 DEF ReadsFairly
<1> QED  BY <1>1, <1>3, <1>4

LEMMA ReturnKeepsDeliveryInputs ==
  ASSUME FramesTypeOK, InputsTypeOK, NEW h \in Invocations, Return(h)
  PROVE  InputsTypeOK'
  BY DeliveryInvocations DEF FramesTypeOK, InputsTypeOK, Return

\* A step that writes no order and no lookup, and gives up no request of the
\* present version of an order.
LEMMA DeliveryQuietStep ==
  ASSUME DeliveryInv, DeliveryTyped', DeliveryFramesOK', ReadsFairly,
         orders' = orders, providerMapping' = providerMapping,
         stream' \cup queue' \subseteq stream \cup queue,
         \A m \in (stream \cup queue) \ (stream' \cup queue') :
           orders[m.orderId].version # m.version
  PROVE  DeliveryInv'
<1>1. SnapshotsCurrentOrOlder'
  <2>1. Advances
    BY DEF Advances
  <2> QED  BY <2>1, SnapshotsStayCurrentOrOlder DEF DeliveryInv, DeliveryTyped
<1>2. DeliveryTargetsExist'
  BY DEF DeliveryInv, DeliveryTargetsExist
<1>3. PendingHasRequest'
  BY DEF DeliveryInv, PendingHasRequest, Request
<1> QED  BY <1>1, <1>2, <1>3 DEF DeliveryInv

\* A step that commits one order, whose request it publishes when the order
\* is pending, and gives up no request of another order.
LEMMA DeliveryCommitStep ==
  ASSUME DeliveryInv, DeliveryTyped', DeliveryFramesOK', ReadsFairly,
         NEW o \in OrderIds, NEW after \in Order,
         orders[o] \in Order,
         orders' = [orders EXCEPT ![o] = after],
         after = orders[o] \/ after.version = orders[o].version + 1,
         \A p \in ProviderIds : providerMapping'[p] \in {providerMapping[p], o},
         stream' \cup queue' \subseteq stream \cup queue \cup {Request(o, after.version)},
         \A m \in (stream \cup queue) \ (stream' \cup queue') : m.orderId = o,
         after.status = "PENDING_SUBMISSION" =>
           Request(o, after.version) \in stream' \cup queue'
  PROVE  DeliveryInv'
<1>1. /\ orders'[o] = after
      /\ after # Undefined
      /\ \A q \in OrderIds \ {o} : orders'[q] = orders[q]
  BY UndefinedIsNoRecord DEF DeliveryInv, DeliveryTyped, TableTypeOK, ItemsTypeOK
<1>2. SnapshotsCurrentOrOlder'
  <2>1. Advances
    <3> SUFFICES ASSUME NEW q \in OrderIds, orders'[q] # orders[q]
                 PROVE  /\ orders[q] \in Order
                        /\ orders'[q] \in Order
                        /\ orders'[q].version > orders[q].version
      BY DEF Advances
    <3>1. q = o /\ after.version = orders[o].version + 1
      BY <1>1
    <3>2. orders[o].version \in Nat
      BY DEF Order
    <3> QED  BY <1>1, <3>1, <3>2
  <2> QED  BY <2>1, SnapshotsStayCurrentOrOlder DEF DeliveryInv, DeliveryTyped
<1>3. DeliveryTargetsExist'
  <2>1. ASSUME NEW m \in stream' \cup queue' PROVE orders'[m.orderId] # Undefined
    <3>1. CASE m = Request(o, after.version)
      BY <1>1, <3>1 DEF Request
    <3>2. CASE m \in stream \cup queue
      <4>1. m.orderId \in OrderIds
        BY <3>2 DEF DeliveryInv, DeliveryTyped, QueueKept, Requests
      <4>2. orders[m.orderId] # Undefined
        BY <3>2 DEF DeliveryInv, DeliveryTargetsExist
      <4> QED  BY <1>1, <4>1, <4>2
    <3> QED  BY <3>1, <3>2
  <2>2. ASSUME NEW p \in ProviderIds, providerMapping'[p] # Undefined
        PROVE  orders'[providerMapping'[p]] # Undefined
    <3>1. CASE providerMapping'[p] = o
      BY <1>1, <3>1
    <3>2. CASE providerMapping'[p] = providerMapping[p]
      <4>1. providerMapping[p] \in OrderIds
        BY <2>2, <3>2 DEF DeliveryInv, DeliveryTyped, TableTypeOK, ItemsTypeOK, Optional
      <4>2. orders[providerMapping[p]] # Undefined
        BY <2>2, <3>2 DEF DeliveryInv, DeliveryTargetsExist
      <4> QED  BY <1>1, <3>2, <4>1, <4>2
    <3> QED  BY <3>1, <3>2
  <2> QED  BY <2>1, <2>2 DEF DeliveryTargetsExist
<1>4. PendingHasRequest'
  <2> SUFFICES ASSUME NEW q \in OrderIds, orders'[q] # Undefined,
                      orders'[q].status = "PENDING_SUBMISSION"
               PROVE  Request(q, orders'[q].version) \in stream' \cup queue'
    BY DEF PendingHasRequest
  <2>1. CASE q = o
    BY <1>1, <2>1
  <2>2. CASE q # o
    <3>1. Request(q, orders[q].version) \in stream \cup queue
      BY <1>1, <2>2 DEF DeliveryInv, PendingHasRequest
    <3>2. Request(q, orders[q].version).orderId = q
      BY DEF Request
    <3> QED  BY <1>1, <2>2, <3>1, <3>2
  <2> QED  BY <2>1, <2>2
<1> QED  BY <1>2, <1>3, <1>4 DEF DeliveryInv

(***************************************************************************)
(* Workers.                                                                *)
(***************************************************************************)

LEMMA AcknowledgeDropsOne ==
  ASSUME crashes \in Nat, NEW m, Acknowledge(m)
  PROVE  /\ crashes' \in Nat
         /\ queue' \subseteq queue
         /\ queue \ queue' \subseteq {m}
  BY DEF Acknowledge

LEMMA ReceiveCounts ==
  ASSUME QueueKept, NEW h, NEW m \in Requests, Receive(h, m)
  PROVE  receives' \in [Requests -> Nat] /\ m \in queue
  BY DEF QueueKept, Receive

\* Whatever a worker does with a message it does not take up, or takes up.
LEMMA WorkerReceiveKeepsInv ==
  ASSUME DeliveryInv, NEW h \in Workers, NEW m \in Requests, WorkerReceive(h, m)
  PROVE  DeliveryInv'
<1> USE DEF DeliveryInv, DeliveryTyped, TableTypeOK
<1>1. m.orderId \in OrderIds /\ m.version \in Nat
  BY DEF Requests
<1>2. CASE WorkerSkipCompleted(h, m)
  <2> USE <1>2 DEF WorkerSkipCompleted, tableVars, frameVars, vendorVars
  <2>1. /\ crashes' \in Nat
        /\ queue' \subseteq queue
        /\ queue \ queue' \subseteq {m}
    BY AcknowledgeDropsOne DEF ItemsTypeOK
  <2>2. ItemsTypeOK' /\ FramesTypeOK'
    BY <2>1 DEF ItemsTypeOK, FramesTypeOK
  <2>3. QueueKept'
    BY <2>1, ReceiveCounts DEF QueueKept
  <2>4. EventsTypeOK' /\ InputsTypeOK'
    BY DEF EventsTypeOK, InputsTypeOK
  <2>5. DeliveryFramesOK' /\ ReadsFairly
    BY DEF DeliveryFramesOK, DeliveryFrame, WorkerFrame, OperatorFrame, ProviderFrame, ReadsFairly
  <2>6. orders[m.orderId].version # m.version
    <3>1. orders[m.orderId] \in Order
      BY <1>1, ReceiveCounts DEF ItemsTypeOK, DeliveryTargetsExist
    <3> QED  BY <1>1, <3>1 DEF SafelyCompletedBefore, ProgressedAfter, Order
  <2> QED  BY <2>1, <2>2, <2>3, <2>4, <2>5, <2>6, DeliveryQuietStep
<1>3. CASE WorkerRefuseProgressed(h, m)
  <2> USE <1>3 DEF WorkerRefuseProgressed, baseVars, tableVars, frameVars, vendorVars
  <2>1. ItemsTypeOK' /\ FramesTypeOK'
    BY DEF ItemsTypeOK, FramesTypeOK
  <2>2. QueueKept'
    BY ReceiveCounts DEF QueueKept
  <2>3. EventsTypeOK' /\ InputsTypeOK'
    BY DEF EventsTypeOK, InputsTypeOK
  <2>4. DeliveryFramesOK' /\ ReadsFairly
    BY DEF DeliveryFramesOK, DeliveryFrame, WorkerFrame, OperatorFrame, ProviderFrame, ReadsFairly
  <2> QED  BY <2>1, <2>2, <2>3, <2>4, DeliveryQuietStep
<1>4. CASE WorkerTakeUp(h, m)
  <2> USE <1>4 DEF WorkerTakeUp, Goto, tableVars, vendorVars
  <2>0. h \in Invocations
    BY DeliveryInvocations
  <2>1. orders[m.orderId] \in Order
    BY <1>1, ReceiveCounts DEF ItemsTypeOK, DeliveryTargetsExist
  <2>2. ItemsTypeOK'
    BY DEF ItemsTypeOK
  <2>3. FramesTypeOK'
    <3>1. pc' \in [Invocations -> Steps] /\ DOMAIN input' = Invocations
      BY DEF FramesTypeOK, Steps
    <3>2. subject' \in [Invocations -> Optional(OrderIds)]
      BY <1>1 DEF FramesTypeOK, Optional
    <3>3. read' \in [Invocations -> Order \cup {Undefined}]
      BY <2>1 DEF FramesTypeOK
    <3> QED  BY <3>1, <3>2, <3>3 DEF FramesTypeOK
  <2>4. QueueKept'
    BY ReceiveCounts DEF QueueKept
  <2>5. EventsTypeOK'
    BY DEF EventsTypeOK
  <2>6. InputsTypeOK'
    BY <2>0, DeliveryInvocations DEF InputsTypeOK, FramesTypeOK
  <2>7. /\ pc'[h] = "submit" /\ subject'[h] = m.orderId /\ input'[h] = m
        /\ read'[h] = orders[m.orderId]
        /\ \A g \in Invocations \ {h} :
             /\ pc'[g] = pc[g]
             /\ subject'[g] = subject[g]
             /\ input'[g] = input[g]
             /\ read'[g] = read[g]
             /\ proposed'[g] = proposed[g]
    BY <2>0 DEF FramesTypeOK
  <2>8. DeliveryFrame(h)'
    BY <2>1, <2>7 DEF DeliveryFrame, WorkerFrame, OperatorFrame, ProviderFrame
  <2>9. DeliveryFramesOK'
    BY <2>0, <2>7, <2>8, OthersKeepDeliveryFrames
  <2>10. ReadsFairly
    BY <1>1, <2>7 DEF ReadsFairly
  <2> QED  BY <2>2, <2>3, <2>4, <2>5, <2>6, <2>9, <2>10, DeliveryQuietStep
<1> QED  BY <1>2, <1>3, <1>4 DEF WorkerReceive

\* The invocation of a worker in the middle of its work.
LEMMA WorkerHas ==
  ASSUME DeliveryInv, NEW h \in Workers,
         pc[h] \in {"submit", "saveDelivery", "resolveDelivery"}
  PROVE  /\ h \in Invocations
         /\ input[h] \in Requests
         /\ subject[h] = input[h].orderId
         /\ subject[h] \in OrderIds
         /\ read[h] \in Order
         /\ read[h].version = input[h].version
         /\ read[h].version \in Nat
         /\ read[h].status = "PENDING_SUBMISSION"
         /\ pc[h] # "submit" =>
              /\ proposed[h] \in Order
              /\ proposed[h].version = read[h].version + 1
              /\ proposed[h].status \in {"SUBMITTED", "SUBMISSION_FAILED"}
<1>1. h \in Invocations
  BY DeliveryInvocations
<1>2. WorkerFrame(h)
  BY <1>1 DEF DeliveryInv, DeliveryFramesOK, DeliveryFrame
<1> QED  BY <1>1, <1>2 DEF WorkerFrame, Requests, Order

LEMMA WorkerProposesKeepsInv ==
  ASSUME DeliveryInv, NEW h \in Workers, pc[h] = "submit",
         NEW change \in OrderStatusChange,
         change.targetStatus \in {"SUBMITTED", "SUBMISSION_FAILED"},
         WorkerProposes(h, change), EventsTypeOK'
  PROVE  DeliveryInv'
<1> USE DEF DeliveryInv, DeliveryTyped, TableTypeOK, WorkerProposes, Goto, tableVars, queueVars
<1>1. /\ h \in Invocations
      /\ input[h] \in Requests
      /\ subject[h] = input[h].orderId
      /\ read[h] \in Order
      /\ read[h].version = input[h].version
      /\ read[h].status = "PENDING_SUBMISSION"
  BY WorkerHas
<1>2. clock \in Nat
  BY DEF ItemsTypeOK
<1> DEFINE next == StatusChanged(read[h], change, clock)
<1>3. /\ next \in Order
      /\ next.version = read[h].version + 1
      /\ next.status = change.targetStatus
  BY <1>1, <1>2, StatusChangedIsNext
<1>4. proposed' = [proposed EXCEPT ![h] = next]
  OBVIOUS
<1> HIDE DEF next
<1>5. ItemsTypeOK' /\ QueueKept' /\ InputsTypeOK'
  BY DEF ItemsTypeOK, QueueKept, InputsTypeOK
<1>6. FramesTypeOK'
  <2>1. pc' \in [Invocations -> Steps]
    BY DEF FramesTypeOK, Steps, WriteSteps
  <2>2. proposed' \in [Invocations -> Order \cup {Undefined}]
    BY <1>3, <1>4 DEF FramesTypeOK
  <2> QED  BY <2>1, <2>2 DEF FramesTypeOK
<1>7. /\ pc'[h] = "saveDelivery"
      /\ proposed'[h] = next
      /\ \A g \in Invocations \ {h} : pc'[g] = pc[g] /\ proposed'[g] = proposed[g]
  BY <1>1, <1>4 DEF FramesTypeOK
<1>8. DeliveryFrame(h)'
  BY <1>1, <1>3, <1>7 DEF DeliveryFrame, WorkerFrame, OperatorFrame, ProviderFrame
<1>9. DeliveryFramesOK'
  BY <1>1, <1>7, <1>8, OthersKeepDeliveryFrames
<1>10. ReadsFairly
  BY DEF ReadsFairly
<1> QED  BY <1>5, <1>6, <1>9, <1>10, DeliveryQuietStep

LEMMA WorkerSaveKeepsInv ==
  ASSUME DeliveryInv, NEW h \in Workers, WorkerSave(h)
  PROVE  DeliveryInv'
<1> USE DEF DeliveryInv, DeliveryTyped, TableTypeOK, WorkerSave, vendorVars
<1> DEFINE o == subject[h]
           after == proposed[h]
<1>1. /\ h \in Invocations
      /\ input[h] \in Requests
      /\ o = input[h].orderId
      /\ o \in OrderIds
      /\ read[h].version \in Nat
      /\ after \in Order
      /\ after.version = read[h].version + 1
      /\ after.status \in {"SUBMITTED", "SUBMISSION_FAILED"}
  BY WorkerHas
<1>2. /\ orders[o] # Undefined
      /\ orders[o].version = read[h].version
      /\ orders' = [orders EXCEPT ![o] = after]
  BY DEF SaveStatusChange, SaveStatusChangeCommits, VersionIs
<1>3. orders[o] \in Order
  BY <1>1, <1>2 DEF ItemsTypeOK
<1>4. /\ crashes' \in Nat
      /\ queue' \subseteq queue
      /\ queue \ queue' \subseteq {input[h]}
  BY AcknowledgeDropsOne DEF ItemsTypeOK
<1>5. /\ providerMapping' \in [ProviderIds -> Optional(OrderIds)]
      /\ \A p \in ProviderIds : providerMapping'[p] \in {providerMapping[p], o}
  BY <1>1 DEF SaveStatusChange, ItemsTypeOK, Optional
<1>6. ItemsTypeOK'
  <2>1. orders' \in [OrderIds -> Order \cup {Undefined}]
    BY <1>1, <1>2 DEF ItemsTypeOK
  <2> QED  BY <1>4, <1>5, <2>1 DEF ItemsTypeOK, SaveStatusChange
<1>7. QueueKept'
  BY <1>4 DEF QueueKept
<1>8. EventsTypeOK'
  BY DEF EventsTypeOK, SaveStatusChange
<1>9. InputsTypeOK'
  BY <1>1, ReturnKeepsDeliveryInputs
<1>10. FramesTypeOK' /\ DeliveryFramesOK' /\ ReadsFairly
  BY <1>1, ReturnKeepsDeliveryFrames
<1>11. \A m \in (stream \cup queue) \ (stream' \cup queue') : m.orderId = o
  BY <1>1, <1>4
<1> HIDE DEF o, after
<1> QED
  BY <1>1, <1>2, <1>3, <1>4, <1>5, <1>6, <1>7, <1>8, <1>9, <1>10, <1>11, DeliveryCommitStep

\* A worker that ends without a commit, or turns to what was committed.
LEMMA WorkerEndsKeepsInv ==
  ASSUME DeliveryInv, NEW h \in Workers,
         WorkerFailsRetryably(h) \/ WorkerSaveCancelled(h) \/ WorkerResolve(h)
  PROVE  DeliveryInv'
<1> USE DEF DeliveryInv, DeliveryTyped, TableTypeOK, tableVars, queueVars, vendorVars, deliveryVars
<1>0. h \in Invocations
  BY DeliveryInvocations
<1>1. CASE WorkerFailsRetryably(h)
  <2> USE <1>1 DEF WorkerFailsRetryably
  <2>1. ItemsTypeOK' /\ QueueKept' /\ EventsTypeOK'
    BY DEF ItemsTypeOK, QueueKept, EventsTypeOK
  <2>2. InputsTypeOK' /\ FramesTypeOK' /\ DeliveryFramesOK' /\ ReadsFairly
    BY <1>0, ReturnKeepsDeliveryInputs, ReturnKeepsDeliveryFrames
  <2> QED  BY <2>1, <2>2, DeliveryQuietStep
<1>2. CASE WorkerSaveCancelled(h)
  <2> USE <1>2 DEF WorkerSaveCancelled, Goto
  <2>1. ItemsTypeOK' /\ QueueKept' /\ EventsTypeOK' /\ InputsTypeOK'
    BY DEF ItemsTypeOK, QueueKept, EventsTypeOK, InputsTypeOK
  <2>2. FramesTypeOK'
    BY DEF FramesTypeOK, Steps
  <2>3. /\ pc'[h] = "resolveDelivery"
        /\ \A g \in Invocations \ {h} : pc'[g] = pc[g]
    BY <1>0 DEF FramesTypeOK
  <2>4. DeliveryFrame(h)'
    BY <1>0, <2>3 DEF DeliveryFramesOK, DeliveryFrame, WorkerFrame, OperatorFrame, ProviderFrame
  <2>5. DeliveryFramesOK' /\ ReadsFairly
    BY <1>0, <2>3, <2>4, OthersKeepDeliveryFrames DEF ReadsFairly
  <2> QED  BY <2>1, <2>2, <2>5, DeliveryQuietStep
<1>3. CASE WorkerResolve(h)
  <2> USE <1>3 DEF WorkerResolve
  <2>1. /\ input[h] \in Requests
        /\ subject[h] = input[h].orderId
        /\ input[h].version \in Nat
    BY WorkerHas DEF Requests
  <2>2. /\ crashes' \in Nat
        /\ queue' \subseteq queue
        /\ reconciliation' \subseteq reconciliation \cup {input[h]}
        /\ \A m \in queue \ queue' :
             m = input[h] /\ ProgressedAfter(m, orders[m.orderId])
    BY <2>1, AcknowledgeDropsOne DEF ItemsTypeOK
  <2>3. ItemsTypeOK'
    BY <2>2 DEF ItemsTypeOK
  <2>4. QueueKept'
    BY <2>1, <2>2 DEF QueueKept
  <2>5. EventsTypeOK'
    BY DEF EventsTypeOK
  <2>6. InputsTypeOK' /\ FramesTypeOK' /\ DeliveryFramesOK' /\ ReadsFairly
    BY <1>0, ReturnKeepsDeliveryInputs, ReturnKeepsDeliveryFrames
  <2>7. ASSUME NEW m \in (stream \cup queue) \ (stream' \cup queue')
        PROVE  orders[m.orderId].version # m.version
    <3>1. m \in queue \ queue'
      OBVIOUS
    <3>2. orders[m.orderId].version > m.version /\ m.version \in Nat /\ m.orderId \in OrderIds
      BY <2>1, <2>2, <3>1 DEF ProgressedAfter, Requests
    <3>3. orders[m.orderId] \in Order
      BY <3>1, <3>2 DEF DeliveryTargetsExist, ItemsTypeOK
    <3> QED  BY <3>2, <3>3 DEF Order
  <2> QED  BY <2>2, <2>3, <2>4, <2>5, <2>6, <2>7, DeliveryQuietStep
<1> QED  BY <1>1, <1>2, <1>3

LEMMA WorkerStepKeepsInv ==
  ASSUME DeliveryInv, NEW h \in Workers, WorkerStep(h)
  PROVE  DeliveryInv'
<1>1. CASE WorkerAccepted(h)
  <2> DEFINE o == subject[h]
             change == [ targetStatus |-> "SUBMITTED", deliveryProviderOrderId |-> vendor[o].id,
                         acceptedAt |-> vendor[o].acceptedAt, failure |-> Undefined ]
  <2>1. pc[h] = "submit" /\ Accepted(o) /\ WorkerProposes(h, change) /\ vendor' = vendor
    BY <1>1 DEF WorkerAccepted
  <2>2. o \in OrderIds
    BY <2>1, WorkerHas
  <2>3. vendor[o].id \in ProviderIds /\ vendor[o].acceptedAt \in Nat
    BY <2>1, <2>2 DEF Accepted, DeliveryInv, DeliveryTyped, EventsTypeOK, Verdict
  <2>4. change \in OrderStatusChange /\ change.targetStatus = "SUBMITTED"
    BY <2>3 DEF OrderStatusChange, OrderStatus, Optional
  <2>5. EventsTypeOK'
    BY <2>1 DEF DeliveryInv, DeliveryTyped, EventsTypeOK, WorkerProposes, tableVars
  <2> HIDE DEF change
  <2> QED  BY <2>1, <2>4, <2>5, WorkerProposesKeepsInv
<1>2. ASSUME NEW c \in ReasonCodes, WorkerRejected(h, c)
      PROVE  DeliveryInv'
  <2> DEFINE o == subject[h]
             change == [ChangeTo("SUBMISSION_FAILED") EXCEPT
               !.failure = [stage |-> "SUBMISSION", reasonCode |-> c]]
  <2>1. /\ pc[h] = "submit"
        /\ WorkerProposes(h, change)
        /\ vendor' = IF Accepted(o) \/ RejectedSince(o, read[h].version) THEN vendor
                     ELSE [vendor EXCEPT ![o] = [verdict |-> "rejected", version |-> read[h].version]]
    BY <1>2 DEF WorkerRejected
  <2>2. change = [ targetStatus |-> "SUBMISSION_FAILED", deliveryProviderOrderId |-> Undefined,
                   acceptedAt |-> Undefined,
                   failure |-> [stage |-> "SUBMISSION", reasonCode |-> c] ]
    BY DEF ChangeTo
  <2>3. change \in OrderStatusChange /\ change.targetStatus = "SUBMISSION_FAILED"
    BY <2>2 DEF OrderStatusChange, OrderStatus, Optional, FailureDetails
  <2>4. read[h].version \in Nat /\ o \in OrderIds
    BY <2>1, WorkerHas
  <2>5. EventsTypeOK'
    <3>1. [verdict |-> "rejected", version |-> read[h].version] \in Verdict
      BY <2>4 DEF Verdict
    <3>2. vendor' \in [OrderIds -> Verdict \cup {Undefined}]
      BY <2>1, <3>1 DEF DeliveryInv, DeliveryTyped, EventsTypeOK
    <3> QED  BY <2>1, <3>2 DEF DeliveryInv, DeliveryTyped, EventsTypeOK, WorkerProposes, tableVars
  <2> HIDE DEF change
  <2> QED  BY <2>1, <2>3, <2>5, WorkerProposesKeepsInv
<1> QED  BY <1>1, <1>2, WorkerSaveKeepsInv, WorkerEndsKeepsInv DEF WorkerStep

(***************************************************************************)
(* Operators.                                                              *)
(***************************************************************************)

LEMMA OperatorChangesAreChanges ==
  ASSUME NEW change \in OperatorChanges
  PROVE  change \in OrderStatusChange
<1>1. \A t \in OrderStatus : ChangeTo(t) \in OrderStatusChange
  BY DEF ChangeTo, OrderStatusChange, Optional
<1>2. CASE \E p \in OperatorProviderIds :
             change = [ChangeTo("SUBMITTED") EXCEPT !.deliveryProviderOrderId = p]
  BY <1>1, <1>2, DeliveryInvocations DEF OrderStatusChange, OrderStatus, Optional
<1>3. CASE \E c \in ReasonCodes :
             change = [ChangeTo("DELIVERY_FAILED") EXCEPT
                         !.failure = [stage |-> "DELIVERY", reasonCode |-> c]]
  BY <1>1, <1>3 DEF OrderStatusChange, OrderStatus, FailureDetails
<1>4. CASE \E t \in {"PENDING_SUBMISSION", "PICKED_UP", "DELIVERED", "CANCELLED"} :
             change = ChangeTo(t)
  BY <1>1, <1>4 DEF OrderStatus
<1> QED  BY <1>2, <1>3, <1>4 DEF OperatorChanges

LEMMA OperatorGetKeepsInv ==
  ASSUME DeliveryInv, NEW h \in OperatorInvocations, NEW o \in OrderIds,
         NEW change \in OperatorChanges, OperatorGet(h, o, change)
  PROVE  DeliveryInv'
<1> USE DEF DeliveryInv, DeliveryTyped, TableTypeOK, OperatorGet, Goto, tableVars,
            queueVars, vendorVars, deliveryVars
<1>1. h \in Invocations /\ clock \in Nat /\ orders[o] \in Order
  BY DeliveryInvocations DEF ItemsTypeOK
<1> DEFINE next == StatusChanged(orders[o], change, clock)
<1>2. next \in Order /\ next.version = orders[o].version + 1
  BY <1>1, OperatorChangesAreChanges, StatusChangedIsNext
<1>3. proposed' = [proposed EXCEPT ![h] = next]
  OBVIOUS
<1> HIDE DEF next
<1>4. ItemsTypeOK' /\ QueueKept' /\ EventsTypeOK' /\ InputsTypeOK'
  BY DEF ItemsTypeOK, QueueKept, EventsTypeOK, InputsTypeOK
<1>5. FramesTypeOK'
  <2>1. pc' \in [Invocations -> Steps]
    BY DEF FramesTypeOK, Steps, WriteSteps
  <2>2. subject' \in [Invocations -> Optional(OrderIds)]
    BY DEF FramesTypeOK, Optional
  <2>3. read' \in [Invocations -> Order \cup {Undefined}]
    BY <1>1 DEF FramesTypeOK
  <2>4. proposed' \in [Invocations -> Order \cup {Undefined}]
    BY <1>2, <1>3 DEF FramesTypeOK
  <2> QED  BY <2>1, <2>2, <2>3, <2>4 DEF FramesTypeOK
<1>6. /\ pc'[h] = "saveOperator"
      /\ subject'[h] = o
      /\ read'[h] = orders[o]
      /\ proposed'[h] = next
      /\ \A g \in Invocations \ {h} :
           /\ pc'[g] = pc[g]
           /\ subject'[g] = subject[g]
           /\ input'[g] = input[g]
           /\ read'[g] = read[g]
           /\ proposed'[g] = proposed[g]
  BY <1>1, <1>3 DEF FramesTypeOK
<1>7. DeliveryFrame(h)'
  BY <1>1, <1>2, <1>6 DEF DeliveryFrame, WorkerFrame, OperatorFrame, ProviderFrame
<1>8. DeliveryFramesOK'
  BY <1>1, <1>6, <1>7, OthersKeepDeliveryFrames
<1>9. ReadsFairly
  BY <1>6 DEF ReadsFairly
<1> QED  BY <1>4, <1>5, <1>8, <1>9, DeliveryQuietStep

LEMMA RequestsAreOfOrders ==
  Requests \subseteq [orderId : OrderIds, version : Nat]
  BY DeliveryInvocations DEF Requests

LEMMA OperatorSaveKeepsInv ==
  ASSUME DeliveryInv, NEW h \in OperatorInvocations, OperatorSave(h)
  PROVE  DeliveryInv'
<1> USE DEF DeliveryInv, DeliveryTyped, TableTypeOK, OperatorSave, vendorVars
<1> DEFINE o == subject[h]
           after == proposed[h]
<1>1. /\ h \in Invocations
      /\ o \in OrderIds
      /\ read[h] \in Order
      /\ after \in Order
      /\ after.version = read[h].version + 1
      /\ read[h].version < MaxVersion
  BY DeliveryInvocations DEF DeliveryFramesOK, DeliveryFrame, OperatorFrame
<1>2. read[h].version \in Nat
  BY <1>1 DEF Order
<1>3. /\ orders[o] # Undefined
      /\ orders[o].version = read[h].version
      /\ orders' = [orders EXCEPT ![o] = after]
  BY DEF SaveStatusChange, SaveStatusChangeCommits, VersionIs
<1>4. orders[o] \in Order
  BY <1>1, <1>3 DEF ItemsTypeOK
<1>5. /\ providerMapping' \in [ProviderIds -> Optional(OrderIds)]
      /\ \A p \in ProviderIds : providerMapping'[p] \in {providerMapping[p], o}
  BY <1>1 DEF SaveStatusChange, ItemsTypeOK, Optional
<1>6. ItemsTypeOK'
  <2>1. orders' \in [OrderIds -> Order \cup {Undefined}]
    BY <1>1, <1>3 DEF ItemsTypeOK
  <2> QED  BY <1>5, <2>1 DEF ItemsTypeOK, SaveStatusChange
<1>7. Request(o, after.version) \in Requests
  BY <1>1, <1>2, DeliveryInvocations DEF Request, Requests
<1>8. /\ RequestsOf(o, after) \subseteq {Request(o, after.version)}
      /\ after.status = "PENDING_SUBMISSION" =>
           Request(o, after.version) \in RequestsOf(o, after)
      /\ stream' = stream \cup RequestsOf(o, after)
  BY DEF RequestsOf
<1>9. QueueKept'
  BY <1>7, <1>8, RequestsAreOfOrders DEF QueueKept
<1>10. EventsTypeOK'
  BY DEF EventsTypeOK, SaveStatusChange
<1>11. InputsTypeOK' /\ FramesTypeOK' /\ DeliveryFramesOK' /\ ReadsFairly
  BY <1>1, ReturnKeepsDeliveryInputs, ReturnKeepsDeliveryFrames
<1> HIDE DEF o, after
<1> QED
  BY <1>1, <1>2, <1>3, <1>4, <1>5, <1>6, <1>8, <1>9, <1>10, <1>11, DeliveryCommitStep

LEMMA OperatorStepKeepsInv ==
  ASSUME DeliveryInv, NEW h \in OperatorInvocations, OperatorStep(h)
  PROVE  DeliveryInv'
<1>1. CASE OperatorSaveCancelled(h)
  <2> USE <1>1 DEF OperatorSaveCancelled, DeliveryInv, DeliveryTyped, TableTypeOK, tableVars,
                   queueVars, vendorVars, deliveryVars
  <2>1. ItemsTypeOK' /\ QueueKept' /\ EventsTypeOK'
    BY DEF ItemsTypeOK, QueueKept, EventsTypeOK
  <2>2. InputsTypeOK' /\ FramesTypeOK' /\ DeliveryFramesOK' /\ ReadsFairly
    BY DeliveryInvocations, ReturnKeepsDeliveryInputs, ReturnKeepsDeliveryFrames
  <2> QED  BY <2>1, <2>2, DeliveryQuietStep
<1> QED  BY <1>1, OperatorGetKeepsInv, OperatorSaveKeepsInv DEF OperatorStep

(***************************************************************************)
(* Provider webhooks.                                                      *)
(***************************************************************************)

\* The order a webhook proposes is the one it read, or the next one in the
\* status its event tells.
LEMMA ChangedOrderForIsNext ==
  ASSUME NEW event \in SentEvent, NEW order \in Order
  PROVE  LET next == ChangedOrderFor(event, order) IN
         /\ next \in Order
         /\ \/ next = order
            \/ /\ next.version = order.version + 1
               /\ next.status \in EventTargets
<1> DEFINE change == EventChange(event)
           next == StatusChanged(order, change, event.occurredAt)
<1>1. /\ event.target \in EventTargets
      /\ event.reasonCode \in Optional(ReasonCodes)
      /\ event.occurredAt \in Nat
  BY DEF SentEvent
<1>2. ChangeTo(event.target) \in OrderStatusChange
  BY <1>1 DEF ChangeTo, OrderStatusChange, OrderStatus, EventTargets, Optional
<1>3. change \in OrderStatusChange /\ change.targetStatus = event.target
  <2>1. ChangeTo(event.target).targetStatus = event.target
    BY DEF ChangeTo
  <2> QED  BY <1>1, <1>2, <2>1 DEF EventChange, OrderStatusChange, FailureDetails, Optional
<1> HIDE DEF change
<1>4. /\ next \in Order
      /\ next.version = order.version + 1
      /\ next.status \in EventTargets
  BY <1>1, <1>3, StatusChangedIsNext
<1> QED  BY <1>4 DEF ChangedOrderFor, change

LEMMA ProviderReceiveKeepsInv ==
  ASSUME DeliveryInv, NEW h \in ProviderInvocations, NEW e \in ProviderEventIds,
         ProviderReceive(h, e)
  PROVE  DeliveryInv'
<1> USE DEF DeliveryInv, DeliveryTyped, TableTypeOK, ProviderReceive, Goto, tableVars,
            queueVars, vendorVars, deliveryVars
<1>1. h \in Invocations
  BY DeliveryInvocations
<1>2. sent[e] \in SentEvent
  BY DEF EventsTypeOK
<1>3. ItemsTypeOK' /\ QueueKept' /\ EventsTypeOK'
  BY DEF ItemsTypeOK, QueueKept, EventsTypeOK
<1>4. InputsTypeOK'
  BY <1>1, <1>2, DeliveryInvocations DEF InputsTypeOK, FramesTypeOK
<1>5. FramesTypeOK'
  <2>1. pc' \in [Invocations -> Steps] /\ DOMAIN input' = Invocations
    BY DEF FramesTypeOK, Steps
  <2>2. attempt' \in [Invocations -> 0..MaxConcurrentWriteAttempts]
    <3>1. 1 \in 0..3
      OBVIOUS
    <3>2. attempt \in [Invocations -> 0..3] /\ attempt' = [attempt EXCEPT ![h] = 1]
      BY DEF FramesTypeOK, MaxConcurrentWriteAttempts
    <3>3. attempt' \in [Invocations -> 0..3]
      BY <3>1, <3>2
    <3> QED  BY <3>3 DEF MaxConcurrentWriteAttempts
  <2> QED  BY <2>1, <2>2 DEF FramesTypeOK
<1>6. /\ pc'[h] = "getProvider" /\ input'[h] = sent[e]
      /\ \A g \in Invocations \ {h} : pc'[g] = pc[g] /\ input'[g] = input[g]
  BY <1>1 DEF FramesTypeOK
<1>7. DeliveryFrame(h)'
  BY <1>2, <1>6 DEF DeliveryFrame, WorkerFrame, OperatorFrame, ProviderFrame
<1>8. DeliveryFramesOK' /\ ReadsFairly
  BY <1>1, <1>6, <1>7, OthersKeepDeliveryFrames DEF ReadsFairly
<1> QED  BY <1>3, <1>4, <1>5, <1>8, DeliveryQuietStep

LEMMA ProviderGetKeepsInv ==
  ASSUME DeliveryInv, NEW h \in ProviderInvocations, ProviderGet(h)
  PROVE  DeliveryInv'
<1> USE DEF DeliveryInv, DeliveryTyped, TableTypeOK, ProviderGet, Goto, tableVars,
            queueVars, vendorVars, deliveryVars
<1> DEFINE o == providerMapping[input[h].deliveryProviderOrderId]
           next == ChangedOrderFor(input[h], orders[o])
<1>1. h \in Invocations
  BY DeliveryInvocations
<1>2. input[h] \in SentEvent
  BY <1>1 DEF DeliveryFramesOK, DeliveryFrame, ProviderFrame
<1>3. o \in OrderIds /\ orders[o] \in Order
  <2>1. input[h].deliveryProviderOrderId \in ProviderIds
    BY <1>2 DEF SentEvent
  <2> QED  BY <2>1 DEF ItemsTypeOK, DeliveryTargetsExist, Optional
<1>4. /\ next \in Order
      /\ \/ next = orders[o]
         \/ next.version = orders[o].version + 1 /\ next.status \in EventTargets
  BY <1>2, <1>3, ChangedOrderForIsNext
<1>5. /\ subject' = [subject EXCEPT ![h] = o]
      /\ read' = [read EXCEPT ![h] = orders[o]]
      /\ proposed' = [proposed EXCEPT ![h] = next]
  OBVIOUS
<1> HIDE DEF o, next
<1>6. ItemsTypeOK' /\ QueueKept' /\ EventsTypeOK' /\ InputsTypeOK'
  BY DEF ItemsTypeOK, QueueKept, EventsTypeOK, InputsTypeOK
<1>7. FramesTypeOK'
  <2>1. pc' \in [Invocations -> Steps]
    BY DEF FramesTypeOK, Steps, WriteSteps
  <2>2. subject' \in [Invocations -> Optional(OrderIds)]
    BY <1>3, <1>5 DEF FramesTypeOK, Optional
  <2>3. read' \in [Invocations -> Order \cup {Undefined}]
    BY <1>3, <1>5 DEF FramesTypeOK
  <2>4. proposed' \in [Invocations -> Order \cup {Undefined}]
    <3>1. proposed \in [Invocations -> Order \cup {Undefined}]
      BY DEF FramesTypeOK
    <3>2. proposed' = [proposed EXCEPT ![h] = next]
      BY <1>5
    <3>3. next \in Order \cup {Undefined}
      BY <1>4
    <3> QED  BY ONLY <3>1, <3>2, <3>3
  <2> QED  BY <2>1, <2>2, <2>3, <2>4 DEF FramesTypeOK
<1>8. /\ pc'[h] = "recordProvider"
      /\ input'[h] = input[h]
      /\ subject'[h] = o
      /\ read'[h] = orders[o]
      /\ proposed'[h] = next
      /\ \A g \in Invocations \ {h} :
           /\ pc'[g] = pc[g]
           /\ subject'[g] = subject[g]
           /\ input'[g] = input[g]
           /\ read'[g] = read[g]
           /\ proposed'[g] = proposed[g]
  BY <1>1, <1>5 DEF FramesTypeOK
<1>9. DeliveryFrame(h)'
  BY <1>2, <1>3, <1>4, <1>8 DEF DeliveryFrame, WorkerFrame, OperatorFrame, ProviderFrame
<1>10. DeliveryFramesOK'
  BY <1>1, <1>8, <1>9, OthersKeepDeliveryFrames
<1>11. ReadsFairly
  BY <1>3, <1>8 DEF ReadsFairly
<1> QED  BY <1>6, <1>7, <1>10, <1>11, DeliveryQuietStep

LEMMA ProviderRecordKeepsInv ==
  ASSUME DeliveryInv, NEW h \in ProviderInvocations, ProviderRecord(h)
  PROVE  DeliveryInv'
<1> USE DEF DeliveryInv, DeliveryTyped, TableTypeOK, ProviderRecord, queueVars, vendorVars,
            deliveryVars
<1> DEFINE o == subject[h]
           after == proposed[h]
<1>1. /\ h \in Invocations
      /\ input[h] \in SentEvent
      /\ o \in OrderIds
      /\ read[h] \in Order
      /\ \/ after = read[h]
         \/ /\ after \in Order
            /\ after.version = read[h].version + 1
            /\ after.status \in EventTargets
  BY DeliveryInvocations DEF DeliveryFramesOK, DeliveryFrame, ProviderFrame
<1>2. /\ orders[o] # Undefined
      /\ orders[o].version = read[h].version
      /\ orders' = [orders EXCEPT ![o] = after]
      /\ providerEvents' = [providerEvents EXCEPT ![input[h].eventId] = input[h]]
      /\ UNCHANGED <<intentMapping, providerMapping, stripeEvents>>
  BY DEF RecordProviderWebhook, ProviderWebhookCommits, VersionIs
<1>3. orders[o] \in Order /\ orders[o] = read[h]
  BY <1>1, <1>2, UndefinedIsNoRecord DEF ItemsTypeOK, SnapshotsCurrentOrOlder
<1>4. ItemsTypeOK'
  <2>1. orders' \in [OrderIds -> Order \cup {Undefined}]
    BY <1>1, <1>2 DEF ItemsTypeOK
  <2> QED  BY <1>2, <2>1 DEF ItemsTypeOK
<1>5. QueueKept'
  BY DEF QueueKept
<1>6. EventsTypeOK'
  BY <1>1, <1>2 DEF EventsTypeOK
<1>7. InputsTypeOK' /\ FramesTypeOK' /\ DeliveryFramesOK' /\ ReadsFairly
  BY <1>1, ReturnKeepsDeliveryInputs, ReturnKeepsDeliveryFrames
<1>8. after.status = "PENDING_SUBMISSION" =>
        Request(o, after.version) \in stream' \cup queue'
  <2>1. CASE after = read[h]
    BY <1>1, <1>2, <1>3, <2>1 DEF PendingHasRequest
  <2>2. CASE after.status \in EventTargets
    BY <2>2 DEF EventTargets
  <2> QED  BY <1>1, <2>1, <2>2
<1>9. after \in Order /\ (after = orders[o] \/ after.version = orders[o].version + 1)
  BY <1>1, <1>2, <1>3
<1> HIDE DEF o, after
<1> QED
  BY <1>1, <1>2, <1>3, <1>4, <1>5, <1>6, <1>7, <1>8, <1>9, DeliveryCommitStep

LEMMA ProviderStepKeepsInv ==
  ASSUME DeliveryInv, NEW h \in ProviderInvocations, ProviderStep(h)
  PROVE  DeliveryInv'
<1> USE DEF DeliveryInv, DeliveryTyped, TableTypeOK, tableVars, queueVars, vendorVars,
            deliveryVars
<1>0. h \in Invocations
  BY DeliveryInvocations
<1>1. CASE ProviderNotFound(h) \/ ProviderGiveUp(h)
  <2> USE <1>1 DEF ProviderNotFound, ProviderGiveUp
  <2>1. ItemsTypeOK' /\ QueueKept' /\ EventsTypeOK'
    BY DEF ItemsTypeOK, QueueKept, EventsTypeOK
  <2>2. InputsTypeOK' /\ FramesTypeOK' /\ DeliveryFramesOK' /\ ReadsFairly
    BY <1>0, ReturnKeepsDeliveryInputs, ReturnKeepsDeliveryFrames
  <2> QED  BY <2>1, <2>2, DeliveryQuietStep
<1>2. CASE ProviderRecordCancelled(h)
  <2> USE <1>2 DEF ProviderRecordCancelled, Goto
  <2>1. ItemsTypeOK' /\ QueueKept' /\ EventsTypeOK' /\ InputsTypeOK'
    BY DEF ItemsTypeOK, QueueKept, EventsTypeOK, InputsTypeOK
  <2>2. FramesTypeOK'
    BY DEF FramesTypeOK, Steps
  <2>3. pc'[h] = "resolveProvider" /\ \A g \in Invocations \ {h} : pc'[g] = pc[g]
    BY <1>0 DEF FramesTypeOK
  <2>4. DeliveryFrame(h)'
    BY <1>0, <2>3 DEF DeliveryFramesOK, DeliveryFrame, WorkerFrame, OperatorFrame, ProviderFrame
  <2>5. DeliveryFramesOK' /\ ReadsFairly
    BY <1>0, <2>3, <2>4, OthersKeepDeliveryFrames DEF ReadsFairly
  <2> QED  BY <2>1, <2>2, <2>5, DeliveryQuietStep
<1>3. CASE ProviderRetry(h)
  <2> USE <1>3 DEF ProviderRetry, Goto
  <2>1. ItemsTypeOK' /\ QueueKept' /\ EventsTypeOK' /\ InputsTypeOK'
    BY DEF ItemsTypeOK, QueueKept, EventsTypeOK, InputsTypeOK
  <2>2. FramesTypeOK'
    <3>1. pc' \in [Invocations -> Steps]
      BY DEF FramesTypeOK, Steps
    <3>2. /\ subject' \in [Invocations -> Optional(OrderIds)]
          /\ read' \in [Invocations -> Order \cup {Undefined}]
          /\ proposed' \in [Invocations -> Order \cup {Undefined}]
      BY DEF FramesTypeOK, Optional
    <3>3. attempt' \in [Invocations -> 0..MaxConcurrentWriteAttempts]
      <4>1. attempt[h] \in 0..3 /\ attempt[h] < 3
        BY <1>0 DEF FramesTypeOK, AttemptsLeft, MaxConcurrentWriteAttempts
      <4>2. attempt[h] + 1 \in 0..3
        BY <4>1
      <4> QED  BY <4>2 DEF FramesTypeOK, MaxConcurrentWriteAttempts
    <3> QED  BY <3>1, <3>2, <3>3 DEF FramesTypeOK
  <2>3. /\ pc'[h] = "getProvider" /\ read'[h] = Undefined
        /\ \A g \in Invocations \ {h} :
             /\ pc'[g] = pc[g]
             /\ subject'[g] = subject[g]
             /\ read'[g] = read[g]
             /\ proposed'[g] = proposed[g]
    BY <1>0 DEF FramesTypeOK
  <2>4. DeliveryFrame(h)'
    BY <1>0, <2>3 DEF DeliveryFramesOK, DeliveryFrame, WorkerFrame, OperatorFrame, ProviderFrame
  <2>5. DeliveryFramesOK' /\ ReadsFairly
    BY <1>0, <2>3, <2>4, OthersKeepDeliveryFrames DEF ReadsFairly
  <2> QED  BY <2>1, <2>2, <2>5, DeliveryQuietStep
<1> QED
  BY <1>1, <1>2, <1>3, ProviderGetKeepsInv, ProviderRecordKeepsInv DEF ProviderStep

(***************************************************************************)
(* Environment: publisher, provider, clock, crashes.                       *)
(***************************************************************************)

LEMMA PublishKeepsInv ==
  ASSUME DeliveryInv, NEW m \in Requests, Publish(m)
  PROVE  DeliveryInv'
<1> USE DEF DeliveryInv, DeliveryTyped, TableTypeOK, Publish, baseVars, tableVars, frameVars,
            vendorVars
<1>1. ItemsTypeOK' /\ FramesTypeOK' /\ EventsTypeOK' /\ InputsTypeOK'
  BY DEF ItemsTypeOK, FramesTypeOK, EventsTypeOK, InputsTypeOK
<1>2. QueueKept'
  BY DEF QueueKept
<1>3. DeliveryFramesOK' /\ ReadsFairly
  BY DEF DeliveryFramesOK, DeliveryFrame, WorkerFrame, OperatorFrame, ProviderFrame, ReadsFairly
<1> QED  BY <1>1, <1>2, <1>3, DeliveryQuietStep

LEMMA VendorStepKeepsInv ==
  ASSUME DeliveryInv, VendorStep
  PROVE  DeliveryInv'
<1> USE DEF DeliveryInv, DeliveryTyped, TableTypeOK, baseVars, tableVars, frameVars, queueVars
<1>1. ASSUME NEW h \in Workers, NEW p \in ProviderIds, VendorAccepts(h, p)
      PROVE  EventsTypeOK' /\ UNCHANGED <<baseVars, queueVars, reconciliation>>
  <2>1. subject[h] \in OrderIds
    BY <1>1, WorkerHas DEF VendorAccepts
  <2>2. [verdict |-> "accepted", id |-> p, acceptedAt |-> clock, state |-> "SUBMITTED"] \in Verdict
    BY DEF Verdict, OrderStatus, ItemsTypeOK
  <2>3. vendor' \in [OrderIds -> Verdict \cup {Undefined}]
    BY <1>1, <2>1, <2>2 DEF VendorAccepts, EventsTypeOK
  <2> QED  BY <1>1, <2>3 DEF VendorAccepts, EventsTypeOK
<1>2. ASSUME NEW e \in ProviderEventIds, NEW o \in OrderIds,
             NEW c \in Optional(ReasonCodes), NEW t \in EventTargets, VendorSends(e, o, t, c)
      PROVE  EventsTypeOK' /\ UNCHANGED <<baseVars, queueVars, reconciliation>>
  <2> DEFINE delivery == [vendor[o] EXCEPT !.state = t]
  <2>1. vendor[o] \in [verdict : {"accepted"}, id : ProviderIds, acceptedAt : Nat, state : OrderStatus]
    BY <1>2 DEF VendorSends, Accepted, EventsTypeOK, Verdict
  <2>2. delivery \in Verdict
    BY <2>1 DEF Verdict, EventTargets, OrderStatus
  <2>3. vendor' = [vendor EXCEPT ![o] = delivery]
    BY <1>2 DEF VendorSends
  <2>4. vendor' \in [OrderIds -> Verdict \cup {Undefined}]
    BY <2>2, <2>3 DEF EventsTypeOK
  <2>5. [ eventId |-> e, deliveryProviderOrderId |-> vendor[o].id, target |-> t,
          reasonCode |-> c, occurredAt |-> clock ] \in SentEvent
    BY <2>1 DEF SentEvent, ItemsTypeOK
  <2>6. sent' \in [ProviderEventIds -> SentEvent \cup {Undefined}]
    BY <1>2, <2>5 DEF VendorSends, EventsTypeOK
  <2> QED  BY <1>2, <2>4, <2>6 DEF VendorSends, EventsTypeOK
<1>3. EventsTypeOK' /\ UNCHANGED <<baseVars, queueVars, reconciliation>>
  BY <1>1, <1>2 DEF VendorStep
<1>4. ItemsTypeOK' /\ FramesTypeOK' /\ QueueKept' /\ InputsTypeOK'
  BY <1>3 DEF ItemsTypeOK, FramesTypeOK, QueueKept, InputsTypeOK
<1>5. DeliveryFramesOK' /\ ReadsFairly
  BY <1>3 DEF DeliveryFramesOK, DeliveryFrame, WorkerFrame, OperatorFrame, ProviderFrame, ReadsFairly
<1> QED  BY <1>3, <1>4, <1>5, DeliveryQuietStep

\* The steps that are not those of the delivery flow: time, a crash, nothing.
LEMMA DeliveryOtherStepKeepsInv ==
  ASSUME DeliveryInv, UNCHANGED deliveryVars,
         Tick \/ (\E h \in Invocations : Crash(h)) \/ UNCHANGED baseVars
  PROVE  DeliveryInv'
<1> USE DEF DeliveryInv, DeliveryTyped, TableTypeOK, baseVars, tableVars, frameVars, queueVars,
            vendorVars, deliveryVars
<1>1. CASE Tick \/ UNCHANGED baseVars
  <2>1. clock' \in Nat
    BY <1>1 DEF Tick, ItemsTypeOK
  <2>2. UNCHANGED <<tableVars, crashes, frameVars>>
    BY <1>1 DEF Tick
  <2>3. ItemsTypeOK' /\ FramesTypeOK' /\ QueueKept' /\ EventsTypeOK' /\ InputsTypeOK'
    BY <2>1, <2>2 DEF ItemsTypeOK, FramesTypeOK, QueueKept, EventsTypeOK, InputsTypeOK
  <2>4. DeliveryFramesOK' /\ ReadsFairly
    BY <2>2 DEF DeliveryFramesOK, DeliveryFrame, WorkerFrame, OperatorFrame, ProviderFrame, ReadsFairly
  <2> QED  BY <2>2, <2>3, <2>4, DeliveryQuietStep
<1>2. ASSUME NEW h \in Invocations, Crash(h)
      PROVE  DeliveryInv'
  <2> USE <1>2 DEF Crash
  <2>1. ItemsTypeOK' /\ QueueKept' /\ EventsTypeOK'
    BY DEF ItemsTypeOK, QueueKept, EventsTypeOK
  <2>2. InputsTypeOK' /\ FramesTypeOK' /\ DeliveryFramesOK' /\ ReadsFairly
    BY ReturnKeepsDeliveryInputs, ReturnKeepsDeliveryFrames
  <2> QED  BY <2>1, <2>2, DeliveryQuietStep
<1> QED  BY <1>1, <1>2

(***************************************************************************)
(* The theorems.                                                           *)
(***************************************************************************)

LEMMA DeliveryStepKeepsInv ==
  ASSUME DeliveryInv, [DeliveryNext]_allDeliveryVars
  PROVE  DeliveryInv'
<1>1. CASE DeliveryStep
  BY <1>1, PublishKeepsInv, WorkerReceiveKeepsInv, WorkerStepKeepsInv, OperatorStepKeepsInv,
     ProviderReceiveKeepsInv, ProviderStepKeepsInv, VendorStepKeepsInv
  DEF DeliveryStep
<1>2. CASE Tick /\ UNCHANGED deliveryVars
  BY <1>2, DeliveryOtherStepKeepsInv
<1>3. CASE \E h \in Invocations : Crash(h) /\ UNCHANGED deliveryVars
  BY <1>3, DeliveryOtherStepKeepsInv
<1>4. CASE UNCHANGED allDeliveryVars
  BY <1>4, DeliveryOtherStepKeepsInv DEF allDeliveryVars
<1> QED  BY <1>1, <1>2, <1>3, <1>4 DEF DeliveryNext

LEMMA PaidOrderIsOrder ==
  ASSUME NEW i \in IntentIds
  PROVE  OrderPaidWith(i) \in Order /\ OrderPaidWith(i).version = 3
<1> DEFINE new == NewOrder(0)
           pay == new.payment
           a == [pay EXCEPT !.status = "SUCCEEDED"]
           b == [a EXCEPT !.stripePaymentIntentId = i]
           c == [new EXCEPT !.status = "PENDING_SUBMISSION"]
           d == [c EXCEPT !.version = 3]
           e == [d EXCEPT !.payment = b]
<1>1. new \in Order
  BY NewOrderIsOrder
<1>2. OrderPaidWith(i) = e
  BY DEF OrderPaidWith, NewOrder
<1> HIDE DEF new
<1>3. pay \in OrderPayment  BY <1>1 DEF Order
<1> HIDE DEF pay
<1>4. a \in OrderPayment  BY <1>3 DEF OrderPayment, PaymentStatus
<1> HIDE DEF a
<1>5. b \in OrderPayment  BY <1>4 DEF OrderPayment, Optional
<1> HIDE DEF b
<1>6. c \in Order  BY <1>1 DEF Order, OrderStatus
<1> HIDE DEF c
<1>7. d \in Order /\ d.version = 3  BY <1>6 DEF Order
<1> HIDE DEF d
<1>8. e \in Order /\ e.version = 3  BY <1>5, <1>7 DEF Order
<1> QED  BY <1>2, <1>8

LEMMA InitialStreamBounded ==
  ASSUME DeliveryInit
  PROVE  /\ stream \subseteq Requests
         /\ \A m \in stream : m.orderId \in OrderIds
<1> SUFFICES ASSUME NEW o \in OrderIds
             PROVE  /\ RequestsOf(o, orders[o]) \subseteq Requests
                    /\ \A m \in RequestsOf(o, orders[o]) : m.orderId = o
  BY DEF DeliveryInit
<1>1. PICK intentOf \in Injection(OrderIds, IntentIds) :
        orders = [q \in OrderIds |-> OrderPaidWith(intentOf[q])]
  BY DEF DeliveryInit
<1>2. intentOf[o] \in IntentIds
  BY <1>1 DEF Injection
<1>3. orders[o].version = 3
  BY <1>1, <1>2, PaidOrderIsOrder
<1> QED  BY <1>3, DeliveryInvocations DEF RequestsOf, Request, Requests

LEMMA DeliveryInitInv ==
  ASSUME DeliveryInit
  PROVE  DeliveryInv
<1> USE DEF DeliveryInit, FramesInit, QueueInit
<1> PICK intentOf \in Injection(OrderIds, IntentIds) :
      /\ orders = [o \in OrderIds |-> OrderPaidWith(intentOf[o])]
      /\ intentMapping = [i \in IntentIds |->
           IF \E o \in OrderIds : intentOf[o] = i
           THEN CHOOSE o \in OrderIds : intentOf[o] = i ELSE Undefined]
  OBVIOUS
<1>1. \A o \in OrderIds : intentOf[o] \in IntentIds
  BY DEF Injection
<1>2. \A o \in OrderIds : orders[o] \in Order /\ orders[o].version = 3
  BY <1>1, PaidOrderIsOrder
<1>3. ItemsTypeOK
  <2>1. orders \in [OrderIds -> Order \cup {Undefined}]
    BY <1>2
  <2>2. intentMapping \in [IntentIds -> Optional(OrderIds)]
    BY DEF Optional
  <2> QED  BY <2>1, <2>2 DEF ItemsTypeOK, Optional
<1>4. FramesTypeOK
  BY DEF FramesTypeOK, Steps, Optional, MaxConcurrentWriteAttempts
<1>5. stream \subseteq Requests /\ \A m \in stream : m.orderId \in OrderIds
  BY InitialStreamBounded
<1>6. QueueKept
  BY <1>5, RequestsAreOfOrders DEF QueueKept
<1>7. EventsTypeOK /\ InputsTypeOK
  BY DeliveryInvocations DEF EventsTypeOK, InputsTypeOK
<1>8. SnapshotsCurrentOrOlder
  BY DEF SnapshotsCurrentOrOlder
<1>9. DeliveryFramesOK
  BY DEF DeliveryFramesOK, DeliveryFrame, WorkerFrame, OperatorFrame, ProviderFrame
<1>10. DeliveryTargetsExist
  BY <1>2, <1>5, UndefinedIsNoRecord DEF DeliveryTargetsExist
<1>11. PendingHasRequest
  <2> SUFFICES ASSUME NEW o \in OrderIds, orders[o].status = "PENDING_SUBMISSION"
               PROVE  Request(o, orders[o].version) \in stream \cup queue
    BY DEF PendingHasRequest
  <2>1. Request(o, orders[o].version) \in RequestsOf(o, orders[o])
    BY DEF RequestsOf
  <2>2. RequestsOf(o, orders[o]) \subseteq stream
    OBVIOUS
  <2> QED  BY <2>1, <2>2
<1> QED
  BY <1>3, <1>4, <1>6, <1>7, <1>8, <1>9, <1>10, <1>11 DEF DeliveryInv, DeliveryTyped, TableTypeOK

THEOREM DeliveryInvariant == DeliverySpec => []DeliveryInv
  BY DeliveryInitInv, DeliveryStepKeepsInv, PTL DEF DeliverySpec

\* What an operator streams is a request a worker can receive.
LEMMA StreamStaysBounded ==
  ASSUME DeliveryInv, stream \subseteq Requests, [DeliveryNext]_allDeliveryVars
  PROVE  stream' \subseteq Requests
<1>1. ASSUME NEW h \in OperatorInvocations, OperatorSave(h)
      PROVE  stream' \subseteq Requests
  <2>1. OperatorFrame(h) /\ pc[h] = "saveOperator"
    BY <1>1, DeliveryInvocations DEF OperatorSave, DeliveryInv, DeliveryFramesOK, DeliveryFrame
  <2>2. /\ subject[h] \in OrderIds
        /\ read[h].version \in Nat
        /\ read[h].version < MaxVersion
        /\ proposed[h].version = read[h].version + 1
    BY <2>1 DEF OperatorFrame, Order
  <2>3. Request(subject[h], proposed[h].version) \in Requests
    BY <2>2, DeliveryInvocations DEF Request, Requests
  <2>4. stream' = stream \cup RequestsOf(subject[h], proposed[h])
    BY <1>1 DEF OperatorSave
  <2> QED  BY <2>3, <2>4 DEF RequestsOf
<1>2. ASSUME NEW h \in OperatorInvocations, OperatorStep(h), ~OperatorSave(h)
      PROVE  stream' = stream
  BY <1>2 DEF OperatorStep, OperatorGet, OperatorSaveCancelled, deliveryVars, queueVars
<1>3. ASSUME NEW m \in Requests, Publish(m)
      PROVE  stream' \subseteq stream
  BY <1>3 DEF Publish
<1>4. ASSUME NEW h \in Workers, WorkerStep(h) \/ \E m \in Requests : WorkerReceive(h, m)
      PROVE  stream' = stream
  BY <1>4 DEF WorkerStep, WorkerReceive, WorkerAccepted, WorkerRejected, WorkerProposes,
              WorkerFailsRetryably, WorkerSave, WorkerSaveCancelled, WorkerResolve,
              WorkerSkipCompleted, WorkerRefuseProgressed, WorkerTakeUp, deliveryVars, queueVars
<1>5. ASSUME NEW h \in ProviderInvocations,
             ProviderStep(h) \/ \E e \in ProviderEventIds : ProviderReceive(h, e)
      PROVE  stream' = stream
  BY <1>5 DEF ProviderStep, ProviderReceive, ProviderNotFound, ProviderGet, ProviderRecord,
              ProviderRecordCancelled, ProviderRetry, ProviderGiveUp, deliveryVars, queueVars
<1>6. ASSUME VendorStep
      PROVE  stream' = stream
  BY <1>6 DEF VendorStep, VendorAccepts, VendorSends, queueVars
<1>7. CASE DeliveryStep
  BY <1>1, <1>2, <1>3, <1>4, <1>5, <1>6, <1>7 DEF DeliveryStep
<1>8. CASE UNCHANGED deliveryVars
  BY <1>8 DEF deliveryVars, queueVars
<1> QED  BY <1>7, <1>8 DEF DeliveryNext, allDeliveryVars

\* Table, invocations, queue and provider hold values of their types, and the
\* webhook's retry loop stays within its attempts (processDeliveryEvent,
\* changeOrderStatus, processProviderWebhook in any interleaving).
THEOREM DeliveryTypes == DeliverySpec => []DeliveryTypeOK
<1>1. DeliveryInit => stream \subseteq Requests
  BY InitialStreamBounded
<1>2. DeliveryInv /\ stream \subseteq Requests /\ [DeliveryNext]_allDeliveryVars
        => (stream \subseteq Requests)'
  BY StreamStaysBounded
<1>3. DeliveryInv /\ stream \subseteq Requests => DeliveryTypeOK
  BY DEF DeliveryInv, DeliveryTyped, QueueKept, DeliveryTypeOK, QueueTypeOK
<1> QED  BY <1>1, <1>2, <1>3, DeliveryInvariant, PTL DEF DeliverySpec

\* What an invocation read is the stored order, or visibly older than it.
THEOREM DeliverySnapshots == DeliverySpec => []SnapshotsCurrentOrOlder
  BY DeliveryInvariant, PTL DEF DeliveryInv

\* No paid order that waits for submission is forgotten, however many
\* workers, operators, duplicates and crashes there are.
THEOREM PendingNeverForgotten == DeliverySpec => []PendingHasRequest
  BY DeliveryInvariant, PTL DEF DeliveryInv

(***************************************************************************)
(* The inductive invariants.                                               *)
(***************************************************************************)
EarlyStatus == {"AWAITING_PAYMENT", "PENDING_SUBMISSION", "SUBMISSION_FAILED"}

\* An order that was not submitted has no acceptance to tell of.
Clean(order) ==
  order.status \in EarlyStatus =>
    order.deliveryProviderOrderId = Undefined /\ order.acceptedAt = Undefined

SameAcceptance(before, after) ==
  /\ after.deliveryProviderOrderId = before.deliveryProviderOrderId
  /\ after.acceptedAt = before.acceptedAt

\* One allowed transition on, with the payment as it was.
Progresses(before, after) ==
  /\ after.version = before.version + 1
  /\ after.createdAt = before.createdAt
  /\ after.payment = before.payment
  /\ after.status \in AllowedTransitions[before.status]
  /\ before.status = "AWAITING_PAYMENT" =>
       before.payment.status =
         IF after.status = "PENDING_SUBMISSION" THEN "SUCCEEDED" ELSE "CANCELLED"

\* What a proposed change does to the acceptance an order carries.
Follows(before, after) ==
  \/ after = before
  \/ /\ Progresses(before, after)
     /\ \/ /\ after.status = "SUBMITTED"
           /\ before.status = "PENDING_SUBMISSION"
           /\ after.deliveryProviderOrderId \in ProviderIds
        \/ /\ after.status # "SUBMITTED"
           /\ SameAcceptance(before, after)
           /\ after.status \in EarlyStatus => before.status \in EarlyStatus

TellsAcceptance(o, order) ==
  /\ Accepted(o)
  /\ vendor[o].id = order.deliveryProviderOrderId
  /\ vendor[o].acceptedAt = order.acceptedAt

\* A worker submits what the provider told it, an operator what it typed.
ProposalFrame(h) ==
  /\ read[h] # Undefined => Clean(read[h])
  /\ pc[h] \in {"saveDelivery", "resolveDelivery", "saveOperator", "recordProvider"} =>
       Follows(read[h], proposed[h])
  /\ (pc[h] \in {"saveDelivery", "resolveDelivery"} /\ proposed[h].status = "SUBMITTED") =>
       TellsAcceptance(subject[h], proposed[h])
  /\ pc[h] = "saveOperator" =>
       /\ proposed[h].status # "SUBMISSION_FAILED"
       /\ proposed[h].status = "SUBMITTED" =>
            proposed[h].deliveryProviderOrderId \in OperatorProviderIds

CarriedIsTruthful ==
  \A o \in OrderIds :
    ( /\ orders[o] # Undefined
      /\ orders[o].deliveryProviderOrderId \notin OperatorProviderIds \cup {Undefined} ) =>
    TellsAcceptance(o, orders[o])

AcceptanceInv ==
  /\ \A o \in OrderIds : orders[o] # Undefined => Clean(orders[o])
  /\ \A h \in Invocations : ProposalFrame(h)
  /\ ProviderLookupAgrees
  /\ CarriedIsTruthful

\* The provider accepts orders the table has.
AcceptedExist == \A o \in OrderIds : Accepted(o) => orders[o] # Undefined

\* A failed submission was refused under the version it was sent with.
RefusalsKnown ==
  \A o \in OrderIds :
    orders[o] # Undefined /\ orders[o].status = "SUBMISSION_FAILED" =>
      \E v \in Nat : orders[o].version = v + 1 /\ RejectedSince(o, v)

\* So was one a worker is about to record, unless the order went on.
RefusalFrame(h) ==
  ( pc[h] \in {"saveDelivery", "resolveDelivery"} /\ proposed[h].status = "SUBMISSION_FAILED" ) =>
    \/ read[h].version < orders[subject[h]].version
    \/ RejectedSince(subject[h], read[h].version)

Answered(m) ==
  \/ orders[m.orderId].deliveryProviderOrderId # Undefined
  \/ Accepted(m.orderId)
  \/ RejectedSince(m.orderId, m.version)

\* A request some worker still has in hand leaves the queue only when the
\* provider will not accept it any more.
RequestFrame(h) ==
  pc[h] \in {"submit", "saveDelivery", "resolveDelivery"} =>
    input[h] \in queue \/ Answered(input[h])

PromiseInv ==
  VendorConsistent =>
    /\ RefusalsKnown
    /\ \A h \in Invocations : RefusalFrame(h) /\ RequestFrame(h)
    /\ AcceptanceNeverForgotten

(***************************************************************************)
(* The shape of a step: what it may do to the table, the provider, the     *)
(* queue and the memory of an invocation.                                  *)
(***************************************************************************)
Commits(h) ==
  LET o == subject[h]
      p == proposed[h].deliveryProviderOrderId
  IN /\ pc[h] \in {"saveDelivery", "saveOperator", "recordProvider"}
     /\ o \in OrderIds
     /\ orders[o] = read[h]
     /\ proposed[h] \in Order
     /\ orders' = [orders EXCEPT ![o] = proposed[h]]
     /\ \/ /\ RecordsAcceptance(read[h], proposed[h])
           /\ providerMapping[p] = Undefined
           /\ providerMapping' = [providerMapping EXCEPT ![p] = o]
        \/ /\ ~RecordsAcceptance(read[h], proposed[h])
           /\ providerMapping' = providerMapping
     /\ vendor' = vendor

TableMoves ==
  \/ orders' = orders /\ providerMapping' = providerMapping
  \/ \E h \in Invocations : Commits(h)

\* An acceptance stands; a refusal stands until a submission of an older
\* request is accepted.
VendorMoves(o) ==
  \/ vendor'[o] = vendor[o]
  \/ /\ Accepted(o) /\ Accepted(o)'
     /\ vendor'[o].id = vendor[o].id /\ vendor'[o].acceptedAt = vendor[o].acceptedAt
  \/ /\ ~Accepted(o) /\ Accepted(o)'
     /\ \E h \in Workers :
          /\ pc[h] = "submit" /\ subject[h] = o
          /\ VendorConsistent => ~RejectedSince(o, read[h].version)
  \/ /\ ~Accepted(o) /\ ~Accepted(o)'
     /\ \A v \in Nat : RejectedSince(o, v) => RejectedSince(o, v)'

QueueMoves ==
  PromiseInv =>
    \A m \in queue \ queue' :
      \/ orders'[m.orderId].deliveryProviderOrderId # Undefined
      \/ VendorConsistent => RejectedSince(m.orderId, m.version)'

Forgets(h) ==
  /\ pc'[h] \in {"idle", "getProvider", "resolveProvider"}
  /\ read'[h] = Undefined \/ read'[h] = read[h]

KeepsFrame(h) ==
  /\ pc'[h] = pc[h] \/ (pc[h] = "saveDelivery" /\ pc'[h] = "resolveDelivery")
  /\ subject'[h] = subject[h]
  /\ input'[h] = input[h]
  /\ read'[h] = read[h]
  /\ proposed'[h] = proposed[h]

TakesUp(h) ==
  /\ pc'[h] = "submit"
  /\ subject'[h] \in OrderIds
  /\ orders[subject'[h]] # Undefined
  /\ orders[subject'[h]].payment.status = "SUCCEEDED"
  /\ read'[h] = orders[subject'[h]]
  /\ input'[h] \in queue
  /\ queue' = queue

Proposes(h) ==
  /\ pc'[h] \in {"saveDelivery", "saveOperator", "recordProvider"}
  /\ ProposalFrame(h)'
  /\ pc'[h] = "saveDelivery" =>
       /\ pc[h] = "submit"
       /\ input'[h] = input[h]
       /\ proposed'[h].status = "SUBMISSION_FAILED" =>
            (VendorConsistent => RejectedSince(subject[h], read[h].version)')

FrameMoves(h) == Forgets(h) \/ KeepsFrame(h) \/ TakesUp(h) \/ Proposes(h)

PromiseStep ==
  /\ TableMoves
  /\ \A o \in OrderIds : VendorMoves(o)
  /\ QueueMoves
  /\ \A h \in Invocations : FrameMoves(h)

(***************************************************************************)
(* What follows from the shape of a step.                                  *)
(***************************************************************************)

\* The effect of a commit on the order it writes.
LEMMA CommitIsNext ==
  ASSUME DeliveryInv, NEW h \in Invocations, Commits(h)
  PROVE  LET o == subject[h] IN
         /\ o \in OrderIds
         /\ orders'[o] = proposed[h]
         /\ \A q \in OrderIds \ {o} : orders'[q] = orders[q]
         /\ proposed[h] = orders[o] \/ proposed[h].version = orders[o].version + 1
         /\ proposed[h].status = "SUBMISSION_FAILED" =>
              proposed[h] = orders[o] \/ pc[h] \in {"saveDelivery", "saveOperator"}
<1>1. DeliveryFrame(h) /\ orders \in [OrderIds -> Order \cup {Undefined}]
  BY DEF DeliveryInv, DeliveryFramesOK, DeliveryTyped, TableTypeOK, ItemsTypeOK
<1>2. /\ subject[h] \in OrderIds
      /\ orders[subject[h]] = read[h]
      /\ orders' = [orders EXCEPT ![subject[h]] = proposed[h]]
      /\ pc[h] \in {"saveDelivery", "saveOperator", "recordProvider"}
  BY DEF Commits
<1>3. /\ orders'[subject[h]] = proposed[h]
      /\ \A q \in OrderIds \ {subject[h]} : orders'[q] = orders[q]
  BY <1>1, <1>2
<1>4. proposed[h] = read[h] \/ proposed[h].version = read[h].version + 1
  BY <1>1, <1>2 DEF DeliveryFrame, WorkerFrame, OperatorFrame, ProviderFrame
<1>5. CASE pc[h] = "recordProvider"
  <2>1. proposed[h] = read[h] \/ proposed[h].status \in EventTargets
    BY <1>1, <1>5 DEF DeliveryFrame, ProviderFrame
  <2>2. proposed[h].status = "SUBMISSION_FAILED" => proposed[h] = read[h]
    BY <2>1 DEF EventTargets
  <2> QED  BY <1>2, <1>3, <1>4, <2>2
<1>6. CASE pc[h] \in {"saveDelivery", "saveOperator"}
  BY <1>2, <1>3, <1>4, <1>6
<1> QED  BY <1>2, <1>5, <1>6

\* An acceptance an order carries is there to stay, and none comes early; a
\* changed order is one allowed transition on.
LEMMA OrdersMoveCleanly ==
  ASSUME DeliveryInv, AcceptanceInv, TableMoves, NEW o \in OrderIds, orders[o] # Undefined
  PROVE  /\ orders[o] \in Order /\ orders'[o] \in Order /\ Clean(orders'[o])
         /\ orders'[o] = orders[o] \/ orders'[o].version = orders[o].version + 1
         /\ orders[o].deliveryProviderOrderId # Undefined => SameAcceptance(orders[o], orders'[o])
         /\ Follows(orders[o], orders'[o])
<1>1. orders[o] \in Order /\ Clean(orders[o])
  BY DEF AcceptanceInv, DeliveryInv, DeliveryTyped, TableTypeOK, ItemsTypeOK
<1>2. CASE orders'[o] = orders[o]
  BY <1>1, <1>2 DEF SameAcceptance, Follows
<1>3. CASE orders'[o] # orders[o]
  <2>1. PICK h \in Invocations : Commits(h)
    BY <1>3 DEF TableMoves
  <2>2. /\ subject[h] = o
        /\ orders'[o] = proposed[h]
        /\ proposed[h] = orders[o] \/ proposed[h].version = orders[o].version + 1
    BY <1>3, <2>1, CommitIsNext
  <2>3. orders[o] = read[h] /\ proposed[h] \in Order
    BY <2>1, <2>2 DEF Commits
  <2>4. Follows(orders[o], orders'[o])
    BY <2>1, <2>2, <2>3 DEF AcceptanceInv, ProposalFrame, Commits
  <2>5. /\ Clean(orders'[o])
        /\ orders[o].deliveryProviderOrderId # Undefined => SameAcceptance(orders[o], orders'[o])
    BY ONLY <1>1, <2>4 DEF Follows, Clean, SameAcceptance, EarlyStatus
  <2> QED  BY <1>1, <2>2, <2>3, <2>4, <2>5
<1> QED  BY <1>2, <1>3

\* No order appears or goes.
LEMMA OrdersStay ==
  ASSUME DeliveryInv, AcceptanceInv, TableMoves, NEW o \in OrderIds
  PROVE  orders[o] = Undefined <=> orders'[o] = Undefined
<1>1. CASE orders[o] # Undefined
  BY <1>1, OrdersMoveCleanly, UndefinedIsNoRecord
<1>2. CASE orders[o] = Undefined
  <2>1. ASSUME NEW h \in Invocations, Commits(h) PROVE orders'[o] = orders[o]
    <3>1. DeliveryFrame(h)
      BY DEF DeliveryInv, DeliveryFramesOK
    <3>2. read[h] # Undefined
      BY <2>1, <3>1, UndefinedIsNoRecord
         DEF Commits, DeliveryFrame, WorkerFrame, OperatorFrame, ProviderFrame
    <3>3. subject[h] # o
      BY <1>2, <2>1, <3>2 DEF Commits
    <3> QED  BY <2>1, <3>3, CommitIsNext
  <2> QED  BY <1>2, <2>1 DEF TableMoves
<1> QED  BY <1>1, <1>2

\* The lookup gains an entry with the order that carries it.
LEMMA LookupMoves ==
  ASSUME DeliveryInv, AcceptanceInv, TableMoves
  PROVE  ProviderLookupAgrees'
<1> SUFFICES ASSUME NEW p \in ProviderIds, NEW o \in OrderIds
             PROVE  providerMapping'[p] = o <=>
                      (orders'[o] # Undefined /\ orders'[o].deliveryProviderOrderId = p)
  BY DEF ProviderLookupAgrees
<1>1. \A q \in OrderIds : orders[q] = Undefined <=> orders'[q] = Undefined
  BY OrdersStay
<1>2. \A r \in ProviderIds, q \in OrderIds :
        providerMapping[r] = q <=>
          (orders[q] # Undefined /\ orders[q].deliveryProviderOrderId = r)
  BY DEF AcceptanceInv, ProviderLookupAgrees
<1>3. CASE orders' = orders /\ providerMapping' = providerMapping
  BY <1>2, <1>3
<1>4. ASSUME NEW h \in Invocations, Commits(h)
      PROVE  providerMapping'[p] = o <=>
               (orders'[o] # Undefined /\ orders'[o].deliveryProviderOrderId = p)
  <2> DEFINE q == subject[h]
             after == proposed[h]
             r == after.deliveryProviderOrderId
  <2>1. /\ q \in OrderIds
        /\ orders'[q] = after
        /\ \A s \in OrderIds \ {q} : orders'[s] = orders[s]
    BY <1>4, CommitIsNext
  <2>2. /\ orders[q] = read[h]
        /\ orders[q] # Undefined /\ orders'[q] # Undefined
        /\ Follows(orders[q], after)
        /\ Clean(orders[q])
    <3>1. DeliveryFrame(h)
      BY DEF DeliveryInv, DeliveryFramesOK
    <3>2. read[h] \in Order /\ orders[q] = read[h]
      BY <1>4, <3>1 DEF Commits, DeliveryFrame, WorkerFrame, OperatorFrame, ProviderFrame
    <3> QED  BY <1>1, <1>4, <2>1, <3>2, UndefinedIsNoRecord DEF Commits, AcceptanceInv, ProposalFrame
  <2>3. providerMapping \in [ProviderIds -> Optional(OrderIds)]
    BY DEF DeliveryInv, DeliveryTyped, TableTypeOK, ItemsTypeOK
  <2>4. CASE /\ RecordsAcceptance(orders[q], after)
             /\ providerMapping[r] = Undefined
             /\ providerMapping' = [providerMapping EXCEPT ![r] = q]
    <3>1. r \in ProviderIds /\ orders[q].deliveryProviderOrderId = Undefined
      BY <2>2, <2>4 DEF RecordsAcceptance, Follows, Clean, EarlyStatus
    <3>2. CASE p = r
      <4>1. providerMapping'[p] = q
        BY <2>3, <2>4, <3>1, <3>2
      <4>2. ~(orders[o] # Undefined /\ orders[o].deliveryProviderOrderId = p)
        BY <1>2, <2>4, <3>1, <3>2, UndefinedIsNoOrderId
      <4> QED  BY <2>1, <2>2, <3>2, <4>1, <4>2
    <3>3. CASE p # r
      <4>1. providerMapping'[p] = providerMapping[p]
        BY <2>3, <2>4, <3>1, <3>3
      <4>2. orders[q].deliveryProviderOrderId # p /\ orders'[q].deliveryProviderOrderId # p
        BY <2>1, <3>1, <3>3, UndefinedIsNoValue
      <4> QED  BY <1>2, <2>1, <4>1, <4>2
    <3> QED  BY <3>2, <3>3
  <2>5. CASE ~RecordsAcceptance(orders[q], after) /\ providerMapping' = providerMapping
    <3>1. orders'[q].deliveryProviderOrderId = orders[q].deliveryProviderOrderId
      BY <2>1, <2>2, <2>5 DEF RecordsAcceptance, Follows, SameAcceptance
    <3>2. CASE o = q
      BY <1>2, <2>2, <2>5, <3>1, <3>2
    <3>3. CASE o # q
      BY <1>2, <2>1, <2>5, <3>3
    <3> QED  BY <3>2, <3>3
  <2> QED  BY <1>4, <2>2, <2>4, <2>5 DEF Commits
<1> QED  BY <1>3, <1>4 DEF TableMoves

\* What the provider once told stays what it tells.
LEMMA AcceptanceStands ==
  ASSUME NEW o \in OrderIds, VendorMoves(o), Accepted(o)
  PROVE  /\ Accepted(o)'
         /\ vendor'[o].id = vendor[o].id
         /\ vendor'[o].acceptedAt = vendor[o].acceptedAt
  BY DEF VendorMoves, Accepted

LEMMA TruthMoves ==
  ASSUME DeliveryInv, AcceptanceInv, TableMoves, \A o \in OrderIds : VendorMoves(o)
  PROVE  CarriedIsTruthful'
<1> SUFFICES ASSUME NEW o \in OrderIds, orders'[o] # Undefined,
                    orders'[o].deliveryProviderOrderId \notin OperatorProviderIds \cup {Undefined}
             PROVE  TellsAcceptance(o, orders[o])'
  BY DEF CarriedIsTruthful, TellsAcceptance
<1>0. orders[o] # Undefined
  BY OrdersStay
<1>1. TellsAcceptance(o, orders'[o])
  <2>1. CASE SameAcceptance(orders[o], orders'[o])
    BY <1>0, <2>1 DEF AcceptanceInv, CarriedIsTruthful, TellsAcceptance, SameAcceptance
  <2>2. CASE ~SameAcceptance(orders[o], orders'[o])
    <3>1. orders' # orders
      BY <2>2 DEF SameAcceptance
    <3>2. PICK h \in Invocations : Commits(h)
      BY <3>1 DEF TableMoves
    <3>3. subject[h] = o /\ orders'[o] = proposed[h]
      BY <2>2, <3>2, CommitIsNext DEF SameAcceptance
    <3>4. orders[o] = read[h] /\ pc[h] \in {"saveDelivery", "saveOperator", "recordProvider"}
      BY <3>2, <3>3 DEF Commits
    <3>5. Follows(read[h], proposed[h])
      BY <3>4 DEF AcceptanceInv, ProposalFrame
    <3>6. proposed[h].status = "SUBMITTED" /\ proposed[h] # read[h]
      BY <2>2, <3>3, <3>4, <3>5 DEF Follows, SameAcceptance
    <3>7. CASE pc[h] = "saveDelivery"
      BY <3>3, <3>6, <3>7 DEF AcceptanceInv, ProposalFrame
    <3>8. CASE pc[h] = "saveOperator"
      BY <3>3, <3>6, <3>8 DEF AcceptanceInv, ProposalFrame
    <3>9. CASE pc[h] = "recordProvider"
      BY <3>6, <3>9 DEF DeliveryInv, DeliveryFramesOK, DeliveryFrame, ProviderFrame, EventTargets
    <3> QED  BY <3>4, <3>7, <3>8, <3>9
  <2> QED  BY <2>1, <2>2
<1>2. Accepted(o)' /\ vendor'[o].id = vendor[o].id /\ vendor'[o].acceptedAt = vendor[o].acceptedAt
  BY <1>1, AcceptanceStands DEF TellsAcceptance
<1> QED  BY <1>1, <1>2 DEF TellsAcceptance

\* A worker in the middle of its work has the subject and version of its
\* request, and has read a pending order.
LEMMA BusyWorker ==
  ASSUME DeliveryInv, NEW h \in Invocations,
         pc[h] \in {"submit", "saveDelivery", "resolveDelivery"}
  PROVE  /\ subject[h] \in OrderIds
         /\ subject[h] = input[h].orderId
         /\ input[h].version = read[h].version
         /\ read[h].version \in Nat
         /\ read[h].status = "PENDING_SUBMISSION"
         /\ orders[subject[h]] # Undefined
         /\ read[h].version <= orders[subject[h]].version
         /\ read[h].version = orders[subject[h]].version => read[h] = orders[subject[h]]
<1>1. WorkerFrame(h)
  BY DEF DeliveryInv, DeliveryFramesOK, DeliveryFrame
<1>2. /\ input[h] \in Requests
      /\ subject[h] = input[h].orderId
      /\ read[h] \in Order
      /\ read[h].version = input[h].version
      /\ read[h].status = "PENDING_SUBMISSION"
  BY <1>1 DEF WorkerFrame
<1>3. subject[h] \in OrderIds /\ read[h].version \in Nat /\ read[h] # Undefined
  BY <1>2, UndefinedIsNoRecord DEF Requests, Order
<1> QED  BY <1>2, <1>3 DEF DeliveryInv, SnapshotsCurrentOrOlder

LEMMA ProposalMoves ==
  ASSUME DeliveryInv, AcceptanceInv, \A o \in OrderIds : VendorMoves(o),
         NEW h \in Invocations, FrameMoves(h)
  PROVE  ProposalFrame(h)'
<1>1. ProposalFrame(h)
  BY DEF AcceptanceInv
<1>2. CASE Forgets(h)
  BY <1>1, <1>2 DEF Forgets, ProposalFrame
<1>3. CASE KeepsFrame(h)
  <2>1. /\ read'[h] # Undefined => Clean(read'[h])
        /\ pc'[h] \in {"saveDelivery", "resolveDelivery", "saveOperator", "recordProvider"} =>
             Follows(read'[h], proposed'[h])
        /\ pc'[h] = "saveOperator" =>
             /\ proposed'[h].status # "SUBMISSION_FAILED"
             /\ proposed'[h].status = "SUBMITTED" =>
                  proposed'[h].deliveryProviderOrderId \in OperatorProviderIds
    BY <1>1, <1>3 DEF KeepsFrame, ProposalFrame
  <2>2. ASSUME pc'[h] \in {"saveDelivery", "resolveDelivery"}, proposed'[h].status = "SUBMITTED"
        PROVE  TellsAcceptance(subject[h], proposed[h])'
    <3>1. pc[h] \in {"saveDelivery", "resolveDelivery"} /\ proposed[h].status = "SUBMITTED"
      BY <1>3, <2>2 DEF KeepsFrame
    <3>2. TellsAcceptance(subject[h], proposed[h]) /\ subject[h] \in OrderIds
      BY <1>1, <3>1, BusyWorker DEF ProposalFrame
    <3>3. /\ Accepted(subject[h])'
          /\ vendor'[subject[h]].id = vendor[subject[h]].id
          /\ vendor'[subject[h]].acceptedAt = vendor[subject[h]].acceptedAt
      <4>1. PICK o \in OrderIds : o = subject[h] /\ o = subject'[h]
        BY <1>3, <3>2 DEF KeepsFrame
      <4>2. Accepted(o) /\ VendorMoves(o)
        BY <3>2, <4>1 DEF TellsAcceptance
      <4>3. Accepted(o)' /\ vendor'[o].id = vendor[o].id /\ vendor'[o].acceptedAt = vendor[o].acceptedAt
        BY <4>2, AcceptanceStands
      <4> QED  BY <4>1, <4>3 DEF Accepted
    <3> QED  BY <1>3, <3>2, <3>3 DEF KeepsFrame, TellsAcceptance
  <2> QED  BY <2>1, <2>2 DEF ProposalFrame
<1>4. CASE TakesUp(h)
  BY <1>4 DEF TakesUp, ProposalFrame, AcceptanceInv
<1>5. CASE Proposes(h)
  BY <1>5 DEF Proposes
<1> QED  BY <1>2, <1>3, <1>4, <1>5 DEF FrameMoves

LEMMA StepKeepsAcceptance ==
  ASSUME DeliveryInv, AcceptanceInv, PromiseStep
  PROVE  AcceptanceInv'
<1>1. TableMoves /\ (\A o \in OrderIds : VendorMoves(o)) /\ \A h \in Invocations : FrameMoves(h)
  BY DEF PromiseStep
<1>2. \A o \in OrderIds : orders'[o] # Undefined => Clean(orders'[o])
  BY <1>1, OrdersMoveCleanly, OrdersStay
<1>3. \A h \in Invocations : ProposalFrame(h)'
  BY <1>1, ProposalMoves
<1>4. ProviderLookupAgrees' /\ CarriedIsTruthful'
  BY <1>1, LookupMoves, TruthMoves
<1> QED  BY <1>2, <1>3, <1>4 DEF AcceptanceInv

(***************************************************************************)
(* Refusals, and the requests behind them.                                 *)
(***************************************************************************)

\* A refusal as young as every submission under way cannot be overtaken.
LEMMA RefusalStands ==
  ASSUME VendorConsistent, DeliveryInv, NEW o \in OrderIds, VendorMoves(o),
         NEW v \in Nat, RejectedSince(o, v),
         \A h \in Workers : pc[h] = "submit" /\ subject[h] = o => read[h].version <= v
  PROVE  RejectedSince(o, v)'
<1>1. ~Accepted(o)
  BY DEF RejectedSince, Accepted
<1>2. ASSUME NEW h \in Workers, pc[h] = "submit", subject[h] = o,
             ~RejectedSince(o, read[h].version)
      PROVE  FALSE
  <2>1. read[h].version <= v /\ read[h].version \in Nat
    BY <1>2, BusyWorker, DeliveryInvocations
  <2>2. vendor[o].version \in Nat /\ vendor[o].version >= v
    BY DEF RejectedSince, DeliveryInv, DeliveryTyped, EventsTypeOK, Verdict
  <2> QED  BY <1>2, <2>1, <2>2 DEF RejectedSince
<1>3. CASE vendor'[o] = vendor[o]
  BY <1>3 DEF RejectedSince
<1> QED  BY <1>1, <1>2, <1>3 DEF VendorMoves

LEMMA RefusalsStayKnown ==
  ASSUME VendorConsistent, DeliveryInv, AcceptanceInv, RefusalsKnown,
         \A h \in Invocations : RefusalFrame(h),
         TableMoves, \A o \in OrderIds : VendorMoves(o)
  PROVE  RefusalsKnown'
<1> SUFFICES ASSUME NEW o \in OrderIds, orders'[o] # Undefined,
                    orders'[o].status = "SUBMISSION_FAILED"
             PROVE  \E v \in Nat : orders'[o].version = v + 1 /\ RejectedSince(o, v)'
  BY DEF RefusalsKnown
<1>0. orders[o] \in Order /\ orders[o].version \in Nat
  BY OrdersStay, OrdersMoveCleanly DEF Order
<1>1. CASE orders'[o] = orders[o]
  <2>1. PICK v \in Nat : orders[o].version = v + 1 /\ RejectedSince(o, v)
    BY <1>1 DEF RefusalsKnown
  <2>2. \A h \in Workers : pc[h] = "submit" /\ subject[h] = o => read[h].version <= v
    BY <1>0, <1>1, <2>1, BusyWorker, DeliveryInvocations
  <2>3. RejectedSince(o, v)'
    BY <2>1, <2>2, RefusalStands
  <2> QED  BY <1>1, <2>1, <2>3
<1>2. CASE orders'[o] # orders[o]
  <2>1. PICK h \in Invocations : Commits(h)
    BY <1>2 DEF TableMoves
  <2>2. subject[h] = o /\ orders'[o] = proposed[h]
    BY <1>2, <2>1, CommitIsNext
  <2>3. orders[o] = read[h] /\ vendor' = vendor
    BY <2>1, <2>2 DEF Commits
  <2>4. pc[h] \in {"saveDelivery", "saveOperator"}
    BY <1>2, <2>1, <2>2, CommitIsNext
  <2>5. pc[h] = "saveDelivery"
    BY <2>2, <2>4 DEF AcceptanceInv, ProposalFrame
  <2>6. RejectedSince(o, orders[o].version)
    BY <1>0, <2>2, <2>3, <2>5 DEF RefusalFrame
  <2>7. orders'[o].version = orders[o].version + 1
    BY <1>2, <2>1, <2>2, CommitIsNext
  <2>8. PICK v \in Nat : v = orders[o].version
    BY <1>0
  <2>9. RejectedSince(o, v)'
    BY <2>3, <2>6, <2>8 DEF RejectedSince
  <2> QED  BY <2>7, <2>8, <2>9
<1> QED  BY <1>1, <1>2

LEMMA RefusalMoves ==
  ASSUME VendorConsistent, DeliveryInv, AcceptanceInv, NEW h \in Invocations,
         RefusalFrame(h),
         TableMoves, \A o \in OrderIds : VendorMoves(o), FrameMoves(h)
  PROVE  RefusalFrame(h)'
<1> SUFFICES ASSUME pc'[h] \in {"saveDelivery", "resolveDelivery"},
                    proposed'[h].status = "SUBMISSION_FAILED"
             PROVE  \/ read'[h].version < orders'[subject'[h]].version
                    \/ RejectedSince(subject[h], read[h].version)'
  BY DEF RefusalFrame
<1>1. CASE KeepsFrame(h)
  <2>1. PICK o \in OrderIds : o = subject[h] /\ o = subject'[h]
    BY <1>1, BusyWorker DEF KeepsFrame
  <2>2. PICK v \in Nat : v = read[h].version /\ v = read'[h].version
    BY <1>1, BusyWorker DEF KeepsFrame
  <2>3. v < orders[o].version \/ RejectedSince(o, v)
    BY <1>1, <2>1, <2>2 DEF KeepsFrame, RefusalFrame
  <2>4. /\ v <= orders[o].version /\ orders[o].version \in Nat
        /\ orders'[o] = orders[o] \/ orders'[o].version = orders[o].version + 1
    BY <1>1, <2>1, <2>2, BusyWorker, OrdersMoveCleanly DEF KeepsFrame, Order
  <2>5. CASE v < orders[o].version
    BY <2>1, <2>2, <2>4, <2>5
  <2>6. CASE v = orders[o].version
    <3>1. RejectedSince(o, v)
      BY <2>3, <2>4, <2>6
    <3>2. \A g \in Workers : pc[g] = "submit" /\ subject[g] = o => read[g].version <= v
      BY <2>6, BusyWorker, DeliveryInvocations
    <3>3. RejectedSince(o, v)'
      BY <3>1, <3>2, RefusalStands
    <3> QED  BY <2>1, <2>2, <3>3 DEF RejectedSince
  <2> QED  BY <2>4, <2>5, <2>6
<1>2. CASE Proposes(h)
  BY <1>2 DEF Proposes
<1> QED  BY <1>1, <1>2 DEF FrameMoves, Forgets, TakesUp

\* What has been answered stays answered.
LEMMA AnsweredStays ==
  ASSUME DeliveryInv, AcceptanceInv, NEW m \in Requests, orders[m.orderId] # Undefined, TableMoves,
         \A o \in OrderIds : VendorMoves(o), Answered(m)
  PROVE  Answered(m)'
<1>1. PICK o \in OrderIds : o = m.orderId
  BY DEF Requests
<1>2. m.version \in Nat
  BY DEF Requests
<1>3. CASE orders[o].deliveryProviderOrderId # Undefined
  BY <1>1, <1>3, OrdersMoveCleanly DEF Answered, SameAcceptance
<1>4. CASE Accepted(o)
  BY <1>1, <1>4, AcceptanceStands DEF Answered, Accepted
<1>5. CASE RejectedSince(o, m.version)
  <2>1. CASE Accepted(o)'
    BY <1>1, <2>1 DEF Answered, Accepted
  <2>2. CASE ~Accepted(o)'
    <3>1. RejectedSince(o, m.version)'
      BY <1>1, <1>2, <1>5, <2>2 DEF VendorMoves, RejectedSince, Accepted
    <3> QED  BY <1>1, <3>1 DEF Answered, RejectedSince
  <2> QED  BY <2>1, <2>2
<1> QED  BY <1>1, <1>3, <1>4, <1>5 DEF Answered

LEMMA RequestMoves ==
  ASSUME VendorConsistent, DeliveryInv, AcceptanceInv, PromiseInv,
         NEW h \in Invocations, RequestFrame(h), PromiseStep
  PROVE  RequestFrame(h)'
<1> USE DEF PromiseStep
<1> SUFFICES ASSUME pc'[h] \in {"submit", "saveDelivery", "resolveDelivery"}
             PROVE  input'[h] \in queue' \/ Answered(input[h])'
  BY DEF RequestFrame
<1>1. CASE TakesUp(h)
  BY <1>1 DEF TakesUp
<1>2. CASE KeepsFrame(h) \/ Proposes(h)
  <2>1. /\ input'[h] = input[h]
        /\ pc[h] \in {"submit", "saveDelivery", "resolveDelivery"}
    BY <1>2 DEF KeepsFrame, Proposes
  <2>2. PICK m \in Requests : m = input[h] /\ m = input'[h]
    BY <2>1 DEF DeliveryInv, DeliveryFramesOK, DeliveryFrame, WorkerFrame
  <2>3. m \in queue \/ Answered(m)
    BY <2>1, <2>2 DEF RequestFrame
  <2>4. CASE m \in queue'
    BY <2>2, <2>4
  <2>5. CASE m \in queue \ queue'
    <3>1. Answered(m)'
      BY <2>5 DEF QueueMoves, Answered
    <3> QED  BY <2>2, <3>1 DEF Answered, RejectedSince, Accepted
  <2>6. CASE Answered(m)
    <3>0. orders[m.orderId] # Undefined
      BY <2>1, <2>2, BusyWorker
    <3>1. Answered(m)'
      BY <2>6, <3>0, AnsweredStays
    <3> QED  BY <2>2, <3>1 DEF Answered, RejectedSince, Accepted
  <2> QED  BY <2>3, <2>4, <2>5, <2>6
<1>3. FrameMoves(h)
  OBVIOUS
<1> QED  BY <1>1, <1>2, <1>3 DEF FrameMoves, Forgets

\* Only a submission under way is accepted, and its order is in the table.
LEMMA AcceptedStayStored ==
  ASSUME DeliveryInv, AcceptanceInv, AcceptedExist, PromiseStep, NEW o \in OrderIds, Accepted(o)'
  PROVE  orders[o] # Undefined /\ orders'[o] # Undefined
<1>1. orders[o] # Undefined
  <2>1. CASE Accepted(o)
    BY <2>1 DEF AcceptedExist
  <2>2. CASE ~Accepted(o)
    <3>1. \E h \in Workers : pc[h] = "submit" /\ subject[h] = o
      BY <2>2 DEF PromiseStep, VendorMoves, Accepted
    <3> QED  BY <3>1, BusyWorker, DeliveryInvocations
  <2> QED  BY <2>1, <2>2
<1> QED  BY <1>1, OrdersStay DEF PromiseStep

LEMMA AcceptanceRemembered ==
  ASSUME VendorConsistent, DeliveryInv, AcceptanceInv, AcceptedExist, PromiseInv,
         AcceptanceNeverForgotten, \A h \in Invocations : RequestFrame(h), PromiseStep
  PROVE  AcceptanceNeverForgotten'
<1> USE DEF PromiseStep
<1> SUFFICES ASSUME NEW o \in OrderIds, Accepted(o)',
                    orders'[o].deliveryProviderOrderId = Undefined
             PROVE  \E m \in queue' : m.orderId = o
  BY DEF AcceptanceNeverForgotten
<1>1. orders[o].deliveryProviderOrderId = Undefined
  BY AcceptedStayStored, OrdersMoveCleanly DEF SameAcceptance
<1>2. \E m \in queue : m.orderId = o
  <2>1. CASE Accepted(o)
    BY <1>1, <2>1 DEF AcceptanceNeverForgotten
  <2>2. CASE ~Accepted(o)
    <3>1. PICK h \in Workers :
            /\ pc[h] = "submit" /\ subject[h] = o
            /\ ~RejectedSince(o, read[h].version)
      BY <2>2 DEF VendorMoves, Accepted
    <3>2. /\ h \in Invocations
          /\ input[h].orderId = o
          /\ input[h].version = read[h].version
      BY <3>1, BusyWorker, DeliveryInvocations
    <3>3. input[h] \in queue
      BY <1>1, <2>2, <3>1, <3>2 DEF RequestFrame, Answered
    <3> QED  BY <3>2, <3>3
  <2> QED  BY <2>1, <2>2
<1>3. PICK m \in queue : m.orderId = o
  BY <1>2
<1>4. CASE m \notin queue'
  <2>1. RejectedSince(m.orderId, m.version)'
    BY <1>3, <1>4 DEF QueueMoves
  <2> QED  BY <1>3, <2>1 DEF RejectedSince, Accepted
<1> QED  BY <1>3, <1>4

LEMMA StepKeepsPromise ==
  ASSUME DeliveryInv, AcceptanceInv, AcceptedExist, PromiseInv, PromiseStep
  PROVE  AcceptedExist' /\ PromiseInv'
<1>0. AcceptedExist'
  BY AcceptedStayStored DEF AcceptedExist
<1> SUFFICES ASSUME VendorConsistent
             PROVE  /\ RefusalsKnown'
                    /\ \A h \in Invocations : RefusalFrame(h)' /\ RequestFrame(h)'
                    /\ AcceptanceNeverForgotten'
  BY <1>0 DEF PromiseInv
<1>1. /\ RefusalsKnown
      /\ \A h \in Invocations : RefusalFrame(h) /\ RequestFrame(h)
      /\ AcceptanceNeverForgotten
  BY DEF PromiseInv
<1>2. /\ TableMoves
      /\ \A o \in OrderIds : VendorMoves(o)
      /\ \A h \in Invocations : FrameMoves(h)
  BY DEF PromiseStep
<1>3. RefusalsKnown'
  BY <1>1, <1>2, RefusalsStayKnown
<1>4. \A h \in Invocations : RefusalFrame(h)' /\ RequestFrame(h)'
  BY <1>1, <1>2, RefusalMoves, RequestMoves
<1>5. AcceptanceNeverForgotten'
  BY <1>1, AcceptanceRemembered
<1> QED  BY <1>3, <1>4, <1>5

(***************************************************************************)
(* Every step has the shape.                                               *)
(***************************************************************************)

\* What a status change does to the acceptance an order carries.
LEMMA StatusChangedFollows ==
  ASSUME NEW order \in Order, Clean(order), NEW change \in OrderStatusChange, NEW at \in Nat,
         TransitionAllowed(order, change), PaymentGateOpen(order, change),
         change.targetStatus = "SUBMITTED" => ProviderMatches(order, change)
  PROVE  LET after == StatusChanged(order, change, at) IN
         /\ Follows(order, after)
         /\ after.status = change.targetStatus
         /\ change.targetStatus = "SUBMITTED" =>
              /\ after.deliveryProviderOrderId = change.deliveryProviderOrderId
              /\ change.acceptedAt # Undefined => after.acceptedAt = change.acceptedAt
<1> DEFINE after == StatusChanged(order, change, at)
<1>1. /\ after \in Order
      /\ after.status = change.targetStatus
      /\ after.deliveryProviderOrderId =
           IF change.targetStatus = "SUBMITTED"
           THEN FirstDefined(order.deliveryProviderOrderId, change.deliveryProviderOrderId)
           ELSE order.deliveryProviderOrderId
      /\ after.acceptedAt =
           IF change.targetStatus = "SUBMITTED"
           THEN FirstDefined(FirstDefined(order.acceptedAt, change.acceptedAt), at)
           ELSE order.acceptedAt
      /\ after.version = order.version + 1
      /\ after.payment = order.payment
      /\ after.createdAt = order.createdAt
  BY StatusChangedIsNext
<1> HIDE DEF after
<1>2. order.status \in OrderStatus /\ change.targetStatus \in AllowedTransitions[order.status]
  BY DEF Order, TransitionAllowed
<1>3. change.targetStatus = "SUBMITTED" => order.status = "PENDING_SUBMISSION"
  BY <1>2 DEF AllowedTransitions, OrderStatus
<1>4. change.targetStatus \in EarlyStatus => order.status \in EarlyStatus
  BY <1>2 DEF AllowedTransitions, OrderStatus, EarlyStatus
<1>7. Progresses(order, after)
  BY <1>1, <1>2 DEF Progresses, PaymentGateOpen
<1>5. CASE change.targetStatus = "SUBMITTED"
  <2>1. order.deliveryProviderOrderId = Undefined /\ order.acceptedAt = Undefined
    BY <1>3, <1>5 DEF Clean, EarlyStatus
  <2>2. change.deliveryProviderOrderId \in ProviderIds
    BY <1>5, <2>1 DEF ProviderMatches, OrderStatusChange, Optional
  <2>3. after.deliveryProviderOrderId = change.deliveryProviderOrderId
    BY <1>1, <1>5, <2>1 DEF FirstDefined
  <2>4. change.acceptedAt # Undefined => after.acceptedAt = change.acceptedAt
    BY <1>1, <1>5, <2>1 DEF FirstDefined
  <2> QED  BY <1>1, <1>3, <1>5, <1>7, <2>2, <2>3, <2>4 DEF Follows, after
<1>6. CASE change.targetStatus # "SUBMITTED"
  BY <1>1, <1>4, <1>6, <1>7 DEF Follows, SameAcceptance, after
<1> QED  BY <1>5, <1>6

\* An invocation's step leaves the memory of the others alone.
LEMMA OthersKeepFrames ==
  ASSUME NEW h \in Invocations, FrameMoves(h),
         \A g \in Invocations \ {h} :
           /\ pc'[g] = pc[g]
           /\ subject'[g] = subject[g]
           /\ input'[g] = input[g]
           /\ read'[g] = read[g]
           /\ proposed'[g] = proposed[g]
  PROVE  \A g \in Invocations : FrameMoves(g)
  BY DEF FrameMoves, KeepsFrame

LEMMA ReturnForgets ==
  ASSUME DeliveryInv, NEW h \in Invocations, Return(h)
  PROVE  \A g \in Invocations : FrameMoves(g)
<1>1. /\ read'[h] = Undefined /\ pc'[h] = "idle"
      /\ \A g \in Invocations \ {h} :
           /\ read'[g] = read[g]
           /\ subject'[g] = subject[g]
           /\ input'[g] = input[g]
           /\ proposed'[g] = proposed[g]
           /\ pc'[g] = pc[g]
  BY ReturnIsFair DEF DeliveryInv, DeliveryTyped, TableTypeOK
<1>2. FrameMoves(h)
  BY <1>1 DEF FrameMoves, Forgets
<1> QED  BY <1>1, <1>2, OthersKeepFrames

\* A step away from table and provider.
LEMMA StepAsideHasShape ==
  ASSUME UNCHANGED <<orders, providerMapping, vendor>>, QueueMoves,
         \A g \in Invocations : FrameMoves(g)
  PROVE  PromiseStep
  BY DEF PromiseStep, TableMoves, VendorMoves

\* The version condition makes the order the one the writer read.
LEMMA SaveCommits ==
  ASSUME DeliveryInv, NEW h \in Invocations, pc[h] \in {"saveDelivery", "saveOperator"},
         SaveStatusChange(subject[h], read[h], proposed[h]), vendor' = vendor
  PROVE  Commits(h)
<1>1. /\ subject[h] \in OrderIds /\ read[h] \in Order /\ proposed[h] \in Order
  <2>1. CASE pc[h] = "saveDelivery"
    BY <2>1 DEF DeliveryInv, DeliveryFramesOK, DeliveryFrame, WorkerFrame, Requests
  <2>2. CASE pc[h] = "saveOperator"
    BY <2>2 DEF DeliveryInv, DeliveryFramesOK, DeliveryFrame, OperatorFrame
  <2> QED  BY <2>1, <2>2
<1>2. orders[subject[h]].version = read[h].version
  BY DEF SaveStatusChange, SaveStatusChangeCommits, VersionIs
<1>3. orders[subject[h]] = read[h]
  BY <1>1, <1>2, UndefinedIsNoRecord DEF DeliveryInv, SnapshotsCurrentOrOlder
<1>4. /\ orders' = [orders EXCEPT ![subject[h]] = proposed[h]]
      /\ \/ /\ RecordsAcceptance(read[h], proposed[h])
            /\ providerMapping[proposed[h].deliveryProviderOrderId] = Undefined
            /\ providerMapping' =
                 [providerMapping EXCEPT ![proposed[h].deliveryProviderOrderId] = subject[h]]
         \/ /\ ~RecordsAcceptance(read[h], proposed[h])
            /\ providerMapping' = providerMapping
  BY DEF SaveStatusChange, SaveStatusChangeCommits
<1> QED  BY <1>1, <1>3, <1>4 DEF Commits

LEMMA RecordCommits ==
  ASSUME DeliveryInv, NEW h \in Invocations, pc[h] = "recordProvider",
         RecordProviderWebhook(subject[h], read[h], proposed[h], input[h]), vendor' = vendor
  PROVE  Commits(h)
<1>1. /\ subject[h] \in OrderIds /\ read[h] \in Order /\ proposed[h] \in Order
      /\ proposed[h] = read[h] \/ proposed[h].status \in EventTargets
  BY DEF DeliveryInv, DeliveryFramesOK, DeliveryFrame, ProviderFrame
<1>2. /\ orders[subject[h]].version = read[h].version
      /\ orders' = [orders EXCEPT ![subject[h]] = proposed[h]]
      /\ providerMapping' = providerMapping
  BY DEF RecordProviderWebhook, ProviderWebhookCommits, VersionIs
<1>3. orders[subject[h]] = read[h]
  BY <1>1, <1>2, UndefinedIsNoRecord DEF DeliveryInv, SnapshotsCurrentOrOlder
<1>4. ~RecordsAcceptance(read[h], proposed[h])
  BY <1>1 DEF RecordsAcceptance, EventTargets
<1> QED  BY <1>1, <1>2, <1>3, <1>4 DEF Commits

(***************************************************************************)
(* The shape of a worker's steps.                                          *)
(***************************************************************************)
LEMMA AcknowledgedIsHandled ==
  ASSUME NEW m, Acknowledge(m) \/ queue' = queue,
         PromiseInv =>
           \/ orders'[m.orderId].deliveryProviderOrderId # Undefined
           \/ VendorConsistent => RejectedSince(m.orderId, m.version)'
  PROVE  QueueMoves
<1>1. queue \ queue' \subseteq {m}
  BY DEF Acknowledge
<1> QED  BY <1>1 DEF QueueMoves

\* An order past a request and in SUBMISSION_FAILED was refused since.
LEMMA FailedWasRefused ==
  ASSUME DeliveryInv, RefusalsKnown, NEW m \in Requests, orders[m.orderId] # Undefined,
         orders[m.orderId].version > m.version, orders[m.orderId].status = "SUBMISSION_FAILED"
  PROVE  RejectedSince(m.orderId, m.version)
<1>1. m.orderId \in OrderIds /\ m.version \in Nat
  BY DEF Requests
<1>2. PICK v \in Nat : orders[m.orderId].version = v + 1 /\ RejectedSince(m.orderId, v)
  BY <1>1 DEF RefusalsKnown
<1>3. vendor[m.orderId].version \in Nat /\ vendor[m.orderId].version >= v
  BY <1>1, <1>2 DEF RejectedSince, DeliveryInv, DeliveryTyped, EventsTypeOK, Verdict
<1> QED  BY <1>1, <1>2, <1>3 DEF RejectedSince

LEMMA WorkerReceiveHasShape ==
  ASSUME DeliveryInv, AcceptanceInv, NEW h \in Workers, NEW m \in Requests,
         WorkerReceive(h, m)
  PROVE  PromiseStep
<1>0. h \in Invocations /\ m.orderId \in OrderIds /\ m.version \in Nat
  BY DeliveryInvocations DEF Requests
<1>1. CASE WorkerSkipCompleted(h, m)
  <2>1. /\ UNCHANGED <<orders, providerMapping, vendor>>
        /\ UNCHANGED <<pc, subject, input, read, proposed>>
        /\ Acknowledge(m)
        /\ SafelyCompletedBefore(m, orders[m.orderId])
    BY <1>1 DEF WorkerSkipCompleted, tableVars, frameVars, vendorVars
  <2>0. orders[m.orderId] # Undefined
    BY <1>1 DEF WorkerSkipCompleted, Receive, DeliveryInv, DeliveryTargetsExist
  <2>2. ASSUME PromiseInv
        PROVE  \/ orders'[m.orderId].deliveryProviderOrderId # Undefined
               \/ VendorConsistent => RejectedSince(m.orderId, m.version)'
    <3>1. CASE orders[m.orderId].deliveryProviderOrderId # Undefined
      BY <2>1, <3>1
    <3>2. CASE orders[m.orderId].status = "SUBMISSION_FAILED"
      <4>1. VendorConsistent => RejectedSince(m.orderId, m.version)
        BY <2>0, <2>1, <2>2, <3>2, FailedWasRefused
           DEF SafelyCompletedBefore, ProgressedAfter, PromiseInv
      <4> QED  BY <2>1, <4>1 DEF RejectedSince
    <3> QED  BY <2>1, <3>1, <3>2 DEF SafelyCompletedBefore
  <2>3. QueueMoves
    BY <2>1, <2>2, AcknowledgedIsHandled
  <2>4. \A g \in Invocations : FrameMoves(g)
    BY <2>1 DEF FrameMoves, KeepsFrame
  <2> QED  BY <2>1, <2>3, <2>4, StepAsideHasShape
<1>2. CASE WorkerRefuseProgressed(h, m)
  <2>1. /\ UNCHANGED <<orders, providerMapping, vendor>>
        /\ UNCHANGED <<pc, subject, input, read, proposed, queue>>
    BY <1>2 DEF WorkerRefuseProgressed, baseVars, tableVars, frameVars, vendorVars
  <2>2. QueueMoves /\ \A g \in Invocations : FrameMoves(g)
    BY <2>1 DEF QueueMoves, FrameMoves, KeepsFrame
  <2> QED  BY <2>1, <2>2, StepAsideHasShape
<1>3. CASE WorkerTakeUp(h, m)
  <2>1. /\ UNCHANGED <<orders, providerMapping, vendor, queue>>
        /\ m \in queue
    BY <1>3 DEF WorkerTakeUp, Receive, tableVars, vendorVars
  <2>2. /\ pc'[h] = "submit" /\ subject'[h] = m.orderId /\ input'[h] = m
        /\ read'[h] = orders[m.orderId]
        /\ orders[m.orderId].payment.status = "SUCCEEDED"
        /\ \A g \in Invocations \ {h} :
             /\ pc'[g] = pc[g]
             /\ subject'[g] = subject[g]
             /\ input'[g] = input[g]
             /\ read'[g] = read[g]
             /\ proposed'[g] = proposed[g]
    BY <1>0, <1>3 DEF WorkerTakeUp, Goto, DeliveryInv, DeliveryTyped, TableTypeOK, FramesTypeOK
  <2>3. orders[m.orderId] # Undefined
    BY <2>1 DEF DeliveryInv, DeliveryTargetsExist
  <2>4. FrameMoves(h)
    BY <1>0, <2>1, <2>2, <2>3 DEF FrameMoves, TakesUp
  <2>5. QueueMoves /\ \A g \in Invocations : FrameMoves(g)
    BY <1>0, <2>1, <2>2, <2>4, OthersKeepFrames DEF QueueMoves
  <2> QED  BY <2>1, <2>5, StepAsideHasShape
<1> QED  BY <1>1, <1>2, <1>3 DEF WorkerReceive

\* A worker that heard from the provider turns to the table.
LEMMA WorkerProposesFrame ==
  ASSUME DeliveryInv, AcceptanceInv, NEW h \in Workers, pc[h] = "submit",
         NEW change \in OrderStatusChange, WorkerProposes(h, change),
         change.targetStatus = "SUBMITTED" =>
           /\ change.acceptedAt # Undefined
           /\ Accepted(subject[h])'
           /\ vendor'[subject[h]].id = change.deliveryProviderOrderId
           /\ vendor'[subject[h]].acceptedAt = change.acceptedAt,
         change.targetStatus = "SUBMISSION_FAILED" =>
           (VendorConsistent => RejectedSince(subject[h], read[h].version)'),
         change.targetStatus \in {"SUBMITTED", "SUBMISSION_FAILED"}
  PROVE  \A g \in Invocations : FrameMoves(g)
<1> DEFINE next == StatusChanged(read[h], change, clock)
<1>1. /\ h \in Invocations /\ clock \in Nat
      /\ read[h] \in Order /\ read[h] # Undefined /\ Clean(read[h])
  BY WorkerHas, UndefinedIsNoRecord
     DEF DeliveryInv, DeliveryTyped, TableTypeOK, ItemsTypeOK, AcceptanceInv, ProposalFrame
<1>2. /\ TransitionAllowed(read[h], change)
      /\ PaymentGateOpen(read[h], change)
      /\ ProviderMatches(read[h], change)
  BY DEF WorkerProposes, StatusChangeApplies, DetailsAccepted
<1>3. /\ Follows(read[h], next)
      /\ next.status = change.targetStatus
      /\ change.targetStatus = "SUBMITTED" =>
           /\ next.deliveryProviderOrderId = change.deliveryProviderOrderId
           /\ next.acceptedAt = change.acceptedAt
  BY <1>1, <1>2, StatusChangedFollows
<1>4. proposed' = [proposed EXCEPT ![h] = next]
  BY DEF WorkerProposes
<1> HIDE DEF next
<1>5. /\ pc'[h] = "saveDelivery" /\ proposed'[h] = next
      /\ UNCHANGED <<subject, input, read>>
      /\ \A g \in Invocations \ {h} : pc'[g] = pc[g] /\ proposed'[g] = proposed[g]
  BY <1>1, <1>4 DEF WorkerProposes, Goto, DeliveryInv, DeliveryTyped, TableTypeOK, FramesTypeOK
<1>6. ProposalFrame(h)'
  <2>1. next.status = "SUBMITTED" => TellsAcceptance(subject[h], proposed[h])'
    BY <1>3, <1>5 DEF TellsAcceptance, Accepted
  <2> QED  BY <1>1, <1>3, <1>5, <2>1 DEF ProposalFrame
<1>7. proposed'[h].status = "SUBMISSION_FAILED" =>
        (VendorConsistent => RejectedSince(subject[h], read[h].version)')
  BY <1>3, <1>5
<1>8. FrameMoves(h)
  BY <1>5, <1>6, <1>7 DEF FrameMoves, Proposes
<1> QED  BY <1>1, <1>5, <1>8, OthersKeepFrames

LEMMA WorkerAcceptedHasShape ==
  ASSUME DeliveryInv, AcceptanceInv, NEW h \in Workers, WorkerAccepted(h)
  PROVE  PromiseStep
<1> DEFINE o == subject[h]
           change == [ targetStatus |-> "SUBMITTED", deliveryProviderOrderId |-> vendor[o].id,
                       acceptedAt |-> vendor[o].acceptedAt, failure |-> Undefined ]
<1>1. pc[h] = "submit" /\ Accepted(o) /\ WorkerProposes(h, change) /\ vendor' = vendor
  BY DEF WorkerAccepted
<1>2. o \in OrderIds
  BY <1>1, WorkerHas
<1>3. vendor[o].id \in ProviderIds /\ vendor[o].acceptedAt \in Nat
  BY <1>1, <1>2 DEF Accepted, DeliveryInv, DeliveryTyped, EventsTypeOK, Verdict
<1>4. /\ change \in OrderStatusChange /\ change.targetStatus = "SUBMITTED"
      /\ change.deliveryProviderOrderId = vendor[o].id
      /\ change.acceptedAt = vendor[o].acceptedAt
      /\ change.acceptedAt # Undefined
  BY <1>3, UndefinedIsNoValue DEF OrderStatusChange, OrderStatus, Optional
<1> HIDE DEF change
<1>5. UNCHANGED <<subject, orders, providerMapping, queue>>
  BY <1>1 DEF WorkerProposes, tableVars, queueVars
<1>6. /\ Accepted(subject[h])'
      /\ vendor'[subject[h]].id = change.deliveryProviderOrderId
      /\ vendor'[subject[h]].acceptedAt = change.acceptedAt
  BY <1>1, <1>4, <1>5 DEF Accepted
<1>7. change.targetStatus # "SUBMISSION_FAILED"
  BY <1>4
<1>8. \A g \in Invocations : FrameMoves(g)
  BY <1>1, <1>4, <1>6, <1>7, WorkerProposesFrame
<1>9. QueueMoves
  BY <1>5 DEF QueueMoves
<1> QED  BY <1>1, <1>5, <1>8, <1>9, StepAsideHasShape

LEMMA WorkerRejectedHasShape ==
  ASSUME DeliveryInv, AcceptanceInv, NEW h \in Workers, NEW c \in ReasonCodes,
         WorkerRejected(h, c)
  PROVE  PromiseStep
<1> DEFINE o == subject[h]
           v == read[h].version
           change == [ChangeTo("SUBMISSION_FAILED") EXCEPT
             !.failure = [stage |-> "SUBMISSION", reasonCode |-> c]]
<1>1. /\ pc[h] = "submit"
      /\ VendorConsistent => ~Accepted(o)
      /\ WorkerProposes(h, change)
      /\ vendor' = IF Accepted(o) \/ RejectedSince(o, v) THEN vendor
                   ELSE [vendor EXCEPT ![o] = [verdict |-> "rejected", version |-> v]]
  BY DEF WorkerRejected
<1>2. change = [ targetStatus |-> "SUBMISSION_FAILED", deliveryProviderOrderId |-> Undefined,
                 acceptedAt |-> Undefined,
                 failure |-> [stage |-> "SUBMISSION", reasonCode |-> c] ]
  BY DEF ChangeTo
<1>3. change \in OrderStatusChange /\ change.targetStatus = "SUBMISSION_FAILED"
  BY <1>2 DEF OrderStatusChange, OrderStatus, Optional, FailureDetails
<1> HIDE DEF change
<1>4. v \in Nat /\ o \in OrderIds
  BY <1>1, WorkerHas
<1>5. UNCHANGED <<subject, read, orders, providerMapping, queue>>
  BY <1>1 DEF WorkerProposes, tableVars, queueVars
<1>6. vendor \in [OrderIds -> Verdict \cup {Undefined}]
  BY DEF DeliveryInv, DeliveryTyped, EventsTypeOK
<1>7. VendorConsistent => RejectedSince(subject[h], read[h].version)'
  <2>1. CASE Accepted(o) \/ RejectedSince(o, v)
    BY <1>1, <1>5, <2>1 DEF RejectedSince
  <2>2. CASE ~(Accepted(o) \/ RejectedSince(o, v))
    <3>1. vendor'[o] = [verdict |-> "rejected", version |-> v]
      BY <1>1, <1>4, <1>6, <2>2
    <3>2. [verdict |-> "rejected", version |-> v] # Undefined
      <4>1. [verdict |-> "rejected", version |-> v].version = v
        OBVIOUS
      <4> QED  BY <1>4, UndefinedIsNoVerdict DEF Verdict
    <3>3. vendor'[o].verdict = "rejected" /\ vendor'[o].version >= v
      BY <1>4, <3>1
    <3> QED  BY <1>5, <3>1, <3>2, <3>3 DEF RejectedSince
  <2> QED  BY <2>1, <2>2
<1>8. \A g \in Invocations : FrameMoves(g)
  BY <1>1, <1>3, <1>7, WorkerProposesFrame
<1>9. ASSUME NEW q \in OrderIds PROVE VendorMoves(q)
  <2>1. CASE vendor' = vendor
    BY <2>1 DEF VendorMoves
  <2>2. CASE /\ ~Accepted(o) /\ ~RejectedSince(o, v)
             /\ vendor' = [vendor EXCEPT ![o] = [verdict |-> "rejected", version |-> v]]
    <3>1. CASE q # o
      BY <1>6, <2>2, <3>1 DEF VendorMoves
    <3>2. CASE q = o
      <4>1. vendor'[o] = [verdict |-> "rejected", version |-> v]
        BY <1>4, <1>6, <2>2
      <4>2. ~Accepted(q)'
        BY <3>2, <4>1 DEF Accepted
      <4>3. ASSUME NEW w \in Nat, RejectedSince(q, w) PROVE RejectedSince(q, w)'
        <5>1. /\ vendor[o].version \in Nat /\ vendor[o].version >= w
              /\ vendor[o] # Undefined /\ vendor[o].verdict = "rejected"
          BY <1>4, <1>6, <3>2, <4>3 DEF RejectedSince, Verdict
        <5>2. v > vendor[o].version
          BY <1>4, <2>2, <5>1 DEF RejectedSince
        <5>3. vendor'[o] # Undefined
          BY <1>4, <4>1, UndefinedIsNoVerdict DEF Verdict
        <5>4. vendor'[o].verdict = "rejected" /\ vendor'[o].version >= w
          BY <1>4, <4>1, <5>1, <5>2
        <5> QED  BY <3>2, <5>3, <5>4 DEF RejectedSince
      <4> QED  BY <2>2, <3>2, <4>2, <4>3 DEF VendorMoves
    <3> QED  BY <3>1, <3>2
  <2> QED  BY <1>1, <2>1, <2>2
<1>10. TableMoves /\ QueueMoves
  BY <1>5 DEF TableMoves, QueueMoves
<1> QED  BY <1>8, <1>9, <1>10 DEF PromiseStep

LEMMA WorkerSaveHasShape ==
  ASSUME DeliveryInv, AcceptanceInv, NEW h \in Workers, WorkerSave(h)
  PROVE  PromiseStep
<1> DEFINE o == subject[h]
<1>1. /\ pc[h] = "saveDelivery"
      /\ SaveStatusChange(o, read[h], proposed[h])
      /\ Acknowledge(input[h]) /\ Return(h) /\ vendor' = vendor
  BY DEF WorkerSave, vendorVars
<1>2. /\ h \in Invocations
      /\ o \in OrderIds
      /\ o = input[h].orderId
      /\ input[h].version = read[h].version
      /\ proposed[h].status \in {"SUBMITTED", "SUBMISSION_FAILED"}
  BY <1>1, WorkerHas
<1>3. Commits(h)
  BY <1>1, <1>2, SaveCommits
<1>4. orders'[o] = proposed[h] /\ orders[o] = read[h]
  BY <1>2, <1>3, CommitIsNext DEF Commits
<1>5. PICK m : m = input[h]
  OBVIOUS
<1>6. ASSUME PromiseInv
      PROVE  \/ orders'[m.orderId].deliveryProviderOrderId # Undefined
             \/ VendorConsistent => RejectedSince(m.orderId, m.version)'
  <2>1. CASE proposed[h].status = "SUBMITTED"
    <3>1. TellsAcceptance(o, proposed[h])
      BY <1>1, <1>2, <2>1 DEF AcceptanceInv, ProposalFrame
    <3>2. vendor[o].id # Undefined
      BY <1>2, <3>1, UndefinedIsNoValue
         DEF TellsAcceptance, Accepted, DeliveryInv, DeliveryTyped, EventsTypeOK, Verdict
    <3> QED  BY <1>2, <1>4, <1>5, <3>1, <3>2 DEF TellsAcceptance
  <2>2. CASE proposed[h].status = "SUBMISSION_FAILED"
    <3>1. orders[o].version \in Nat
      BY <1>1, <1>2, <1>4, BusyWorker
    <3>2. VendorConsistent => RejectedSince(o, read[h].version)
      BY <1>1, <1>2, <1>4, <1>6, <2>2, <3>1 DEF PromiseInv, RefusalFrame
    <3> QED  BY <1>1, <1>2, <1>5, <3>2 DEF RejectedSince
  <2> QED  BY <1>2, <2>1, <2>2
<1>7. QueueMoves
  BY <1>1, <1>5, <1>6, AcknowledgedIsHandled
<1>8. \A g \in Invocations : FrameMoves(g)
  BY <1>1, <1>2, ReturnForgets
<1>9. TableMoves /\ \A q \in OrderIds : VendorMoves(q)
  BY <1>1, <1>2, <1>3 DEF TableMoves, VendorMoves
<1> QED  BY <1>7, <1>8, <1>9 DEF PromiseStep

LEMMA WorkerResolveHasShape ==
  ASSUME DeliveryInv, AcceptanceInv, NEW h \in Workers, WorkerResolve(h)
  PROVE  PromiseStep
<1> DEFINE o == subject[h]
           current == orders[o]
<1>1. /\ pc[h] = "resolveDelivery" /\ Return(h)
      /\ UNCHANGED <<orders, providerMapping, vendor>>
      /\ \/ /\ ProgressedAfter(input[h], current)
            /\ IntendedOutcomeWasRecorded(proposed[h], current)
            /\ Acknowledge(input[h])
         \/ queue' = queue
  BY DEF WorkerResolve, tableVars, vendorVars
<1>2. /\ h \in Invocations
      /\ input[h] \in Requests
      /\ o \in OrderIds
      /\ o = input[h].orderId
  BY <1>1, WorkerHas
<1>3. PICK m \in Requests : m = input[h]
  BY <1>2
<1>4. QueueMoves
  <2>1. CASE queue' = queue
    BY <2>1 DEF QueueMoves
  <2>2. CASE /\ ProgressedAfter(input[h], current)
             /\ IntendedOutcomeWasRecorded(proposed[h], current)
             /\ Acknowledge(input[h])
    <3>1. CASE proposed[h].status = "SUBMITTED"
      <4>1. TellsAcceptance(o, proposed[h])
        BY <1>1, <1>2, <3>1 DEF AcceptanceInv, ProposalFrame
      <4>2. vendor[o].id # Undefined
        BY <1>2, <4>1, UndefinedIsNoValue
           DEF TellsAcceptance, Accepted, DeliveryInv, DeliveryTyped, EventsTypeOK, Verdict
      <4>3. current.deliveryProviderOrderId = proposed[h].deliveryProviderOrderId
        BY <2>2, <3>1 DEF IntendedOutcomeWasRecorded
      <4>4. orders'[m.orderId].deliveryProviderOrderId # Undefined
        BY <1>1, <1>2, <1>3, <4>1, <4>2, <4>3 DEF TellsAcceptance
      <4> QED  BY <1>3, <2>2, <4>4, AcknowledgedIsHandled
    <3>2. CASE proposed[h].status # "SUBMITTED"
      <4>1. orders[m.orderId].status = "SUBMISSION_FAILED" /\ orders[m.orderId].version > m.version
        BY <1>2, <1>3, <2>2, <3>2 DEF IntendedOutcomeWasRecorded, ProgressedAfter
      <4>2. PromiseInv => (VendorConsistent => RejectedSince(m.orderId, m.version))
        BY <1>1, <1>2, <1>3, <4>1, BusyWorker, FailedWasRefused DEF PromiseInv
      <4>3. PromiseInv => (VendorConsistent => RejectedSince(m.orderId, m.version)')
        BY <1>1, <4>2 DEF RejectedSince
      <4> QED  BY <1>3, <2>2, <4>3, AcknowledgedIsHandled
    <3> QED  BY <3>1, <3>2
  <2> QED  BY <1>1, <2>1, <2>2
<1>5. \A g \in Invocations : FrameMoves(g)
  BY <1>1, <1>2, ReturnForgets
<1> QED  BY <1>1, <1>4, <1>5, StepAsideHasShape

LEMMA WorkerStepHasShape ==
  ASSUME DeliveryInv, AcceptanceInv, NEW h \in Workers, WorkerStep(h)
  PROVE  PromiseStep
<1>0. h \in Invocations
  BY DeliveryInvocations
<1>1. CASE WorkerFailsRetryably(h)
  <2>1. Return(h) /\ UNCHANGED <<orders, providerMapping, vendor, queue>>
    BY <1>1 DEF WorkerFailsRetryably, tableVars, deliveryVars, queueVars, vendorVars
  <2>2. QueueMoves /\ \A g \in Invocations : FrameMoves(g)
    BY <1>0, <2>1, ReturnForgets DEF QueueMoves
  <2> QED  BY <2>1, <2>2, StepAsideHasShape
<1>2. CASE WorkerSaveCancelled(h)
  <2>1. /\ UNCHANGED <<orders, providerMapping, vendor, queue, subject, input, read, proposed>>
        /\ pc[h] = "saveDelivery" /\ pc' = [pc EXCEPT ![h] = "resolveDelivery"]
    BY <1>2 DEF WorkerSaveCancelled, Goto, tableVars, deliveryVars, queueVars, vendorVars
  <2>2. pc'[h] = "resolveDelivery" /\ \A g \in Invocations \ {h} : pc'[g] = pc[g]
    BY <1>0, <2>1 DEF DeliveryInv, DeliveryTyped, TableTypeOK, FramesTypeOK
  <2>3. QueueMoves /\ \A g \in Invocations : FrameMoves(g)
    BY <2>1, <2>2 DEF QueueMoves, FrameMoves, KeepsFrame
  <2> QED  BY <2>1, <2>3, StepAsideHasShape
<1> QED
  BY <1>1, <1>2, WorkerAcceptedHasShape, WorkerRejectedHasShape, WorkerSaveHasShape,
     WorkerResolveHasShape
  DEF WorkerStep

(***************************************************************************)
(* The shape of an operator's steps.                                       *)
(***************************************************************************)
LEMMA OperatorGetHasShape ==
  ASSUME DeliveryInv, AcceptanceInv, NEW h \in OperatorInvocations, NEW o \in OrderIds,
         NEW change \in OperatorChanges, OperatorGet(h, o, change)
  PROVE  PromiseStep
<1> DEFINE next == StatusChanged(orders[o], change, clock)
<1>1. /\ h \in Invocations /\ clock \in Nat
      /\ orders[o] \in Order /\ Clean(orders[o])
      /\ change \in OrderStatusChange
  BY DeliveryInvocations, OperatorChangesAreChanges
     DEF DeliveryInv, DeliveryTyped, TableTypeOK, ItemsTypeOK, AcceptanceInv, OperatorGet
<1>2. /\ change.targetStatus # "SUBMISSION_FAILED"
      /\ change.targetStatus = "SUBMITTED" =>
           change.deliveryProviderOrderId \in OperatorProviderIds
  BY DEF OperatorChanges, ChangeTo
<1>3. /\ TransitionAllowed(orders[o], change)
      /\ PaymentGateOpen(orders[o], change)
      /\ ProviderMatches(orders[o], change)
  BY DEF OperatorGet, StatusChangeApplies, DetailsAccepted
<1>4. /\ Follows(orders[o], next)
      /\ next.status = change.targetStatus
      /\ change.targetStatus = "SUBMITTED" =>
           next.deliveryProviderOrderId = change.deliveryProviderOrderId
  BY <1>1, <1>3, StatusChangedFollows
<1>5. proposed' = [proposed EXCEPT ![h] = next]
  BY DEF OperatorGet
<1> HIDE DEF next
<1>6. /\ pc'[h] = "saveOperator" /\ subject'[h] = o /\ read'[h] = orders[o]
      /\ proposed'[h] = next
      /\ \A g \in Invocations \ {h} :
           /\ pc'[g] = pc[g]
           /\ subject'[g] = subject[g]
           /\ input'[g] = input[g]
           /\ read'[g] = read[g]
           /\ proposed'[g] = proposed[g]
  BY <1>1, <1>5 DEF OperatorGet, Goto, DeliveryInv, DeliveryTyped, TableTypeOK, FramesTypeOK
<1>7. ProposalFrame(h)'
  BY <1>1, <1>2, <1>4, <1>6 DEF ProposalFrame
<1>8. FrameMoves(h)
  BY <1>6, <1>7 DEF FrameMoves, Proposes
<1>9. UNCHANGED <<orders, providerMapping, vendor, queue>>
  BY DEF OperatorGet, tableVars, deliveryVars, queueVars, vendorVars
<1>10. QueueMoves /\ \A g \in Invocations : FrameMoves(g)
  BY <1>1, <1>6, <1>8, <1>9, OthersKeepFrames DEF QueueMoves
<1> QED  BY <1>9, <1>10, StepAsideHasShape

LEMMA OperatorStepHasShape ==
  ASSUME DeliveryInv, AcceptanceInv, NEW h \in OperatorInvocations, OperatorStep(h)
  PROVE  PromiseStep
<1>0. h \in Invocations
  BY DeliveryInvocations
<1>1. CASE OperatorSave(h)
  <2>1. /\ pc[h] = "saveOperator" /\ SaveStatusChange(subject[h], read[h], proposed[h])
        /\ Return(h) /\ UNCHANGED <<vendor, queue>>
    BY <1>1 DEF OperatorSave, vendorVars
  <2>2. Commits(h)
    BY <1>0, <2>1, SaveCommits
  <2>3. QueueMoves /\ TableMoves /\ \A q \in OrderIds : VendorMoves(q)
    BY <1>0, <2>1, <2>2 DEF QueueMoves, TableMoves, VendorMoves
  <2>4. \A g \in Invocations : FrameMoves(g)
    BY <1>0, <2>1, ReturnForgets
  <2> QED  BY <2>3, <2>4 DEF PromiseStep
<1>2. CASE OperatorSaveCancelled(h)
  <2>1. Return(h) /\ UNCHANGED <<orders, providerMapping, vendor, queue>>
    BY <1>2 DEF OperatorSaveCancelled, tableVars, deliveryVars, queueVars, vendorVars
  <2>2. QueueMoves /\ \A g \in Invocations : FrameMoves(g)
    BY <1>0, <2>1, ReturnForgets DEF QueueMoves
  <2> QED  BY <2>1, <2>2, StepAsideHasShape
<1> QED  BY <1>1, <1>2, OperatorGetHasShape DEF OperatorStep

(***************************************************************************)
(* The shape of a provider webhook's steps.                                *)
(***************************************************************************)
LEMMA EventFollows ==
  ASSUME NEW event \in SentEvent, NEW order \in Order, Clean(order),
         order.deliveryProviderOrderId # Undefined
  PROVE  Follows(order, ChangedOrderFor(event, order))
<1> DEFINE change == EventChange(event)
<1>1. /\ event.target \in EventTargets
      /\ event.reasonCode \in Optional(ReasonCodes)
      /\ event.occurredAt \in Nat
  BY DEF SentEvent
<1>2. ChangeTo(event.target) \in OrderStatusChange /\ ChangeTo(event.target).targetStatus = event.target
  BY <1>1 DEF ChangeTo, OrderStatusChange, OrderStatus, EventTargets, Optional
<1>3. change \in OrderStatusChange /\ change.targetStatus = event.target
  BY <1>1, <1>2 DEF EventChange, OrderStatusChange, FailureDetails, Optional
<1>4. change.targetStatus # "SUBMITTED"
  BY <1>1, <1>3 DEF EventTargets
<1>6. PaymentGateOpen(order, change)
  BY DEF Clean, EarlyStatus, PaymentGateOpen
<1> HIDE DEF change
<1>5. TransitionAllowed(order, change) => Follows(order, StatusChanged(order, change, event.occurredAt))
  BY <1>1, <1>3, <1>4, <1>6, StatusChangedFollows
<1> QED  BY <1>5 DEF ChangedOrderFor, Follows, change

LEMMA ProviderGetHasShape ==
  ASSUME DeliveryInv, AcceptanceInv, NEW h \in ProviderInvocations, ProviderGet(h)
  PROVE  PromiseStep
<1> DEFINE o == providerMapping[input[h].deliveryProviderOrderId]
           next == ChangedOrderFor(input[h], orders[o])
<1>1. /\ h \in Invocations /\ pc[h] = "getProvider"
      /\ UNCHANGED <<orders, providerMapping, vendor, queue, input>>
      /\ o # Undefined
      /\ subject' = [subject EXCEPT ![h] = o]
      /\ read' = [read EXCEPT ![h] = orders[o]]
      /\ proposed' = [proposed EXCEPT ![h] = next]
      /\ pc' = [pc EXCEPT ![h] = "recordProvider"]
  BY DeliveryInvocations
     DEF ProviderGet, Goto, tableVars, deliveryVars, queueVars, vendorVars
<1>2. input[h] \in SentEvent
  BY <1>1 DEF DeliveryInv, DeliveryFramesOK, DeliveryFrame, ProviderFrame
<1>3. o \in OrderIds
  BY <1>1, <1>2 DEF SentEvent, DeliveryInv, DeliveryTyped, TableTypeOK, ItemsTypeOK, Optional
<1>4. /\ orders[o] \in Order /\ Clean(orders[o])
      /\ Follows(orders[o], next)
  <2>1. input[h].deliveryProviderOrderId \in ProviderIds
    BY <1>2 DEF SentEvent
  <2>2. /\ orders[o] # Undefined
        /\ orders[o].deliveryProviderOrderId = input[h].deliveryProviderOrderId
    BY <1>3, <2>1 DEF AcceptanceInv, ProviderLookupAgrees
  <2>3. orders[o] \in Order /\ Clean(orders[o])
    BY <1>3, <2>2 DEF AcceptanceInv, DeliveryInv, DeliveryTyped, TableTypeOK, ItemsTypeOK
  <2>4. orders[o].deliveryProviderOrderId # Undefined
    BY <2>1, <2>2, UndefinedIsNoValue
  <2> QED  BY <1>2, <2>3, <2>4, EventFollows
<1> HIDE DEF o, next
<1>5. /\ pc'[h] = "recordProvider" /\ subject'[h] = o /\ read'[h] = orders[o]
      /\ proposed'[h] = next
      /\ \A g \in Invocations \ {h} :
           /\ pc'[g] = pc[g]
           /\ subject'[g] = subject[g]
           /\ input'[g] = input[g]
           /\ read'[g] = read[g]
           /\ proposed'[g] = proposed[g]
  BY <1>1 DEF DeliveryInv, DeliveryTyped, TableTypeOK, FramesTypeOK
<1>6. ProposalFrame(h)'
  BY <1>4, <1>5 DEF ProposalFrame
<1>7. FrameMoves(h)
  BY <1>5, <1>6 DEF FrameMoves, Proposes
<1>8. QueueMoves /\ \A g \in Invocations : FrameMoves(g)
  BY <1>1, <1>5, <1>7, OthersKeepFrames DEF QueueMoves
<1> QED  BY <1>1, <1>8, StepAsideHasShape

LEMMA ProviderStepHasShape ==
  ASSUME DeliveryInv, AcceptanceInv, NEW h \in ProviderInvocations, ProviderStep(h)
  PROVE  PromiseStep
<1> USE DEF tableVars, deliveryVars, queueVars, vendorVars
<1>0. h \in Invocations
  BY DeliveryInvocations
<1>1. CASE ProviderNotFound(h) \/ ProviderGiveUp(h)
  <2>1. Return(h) /\ UNCHANGED <<orders, providerMapping, vendor, queue>>
    BY <1>1 DEF ProviderNotFound, ProviderGiveUp
  <2>2. QueueMoves /\ \A g \in Invocations : FrameMoves(g)
    BY <1>0, <2>1, ReturnForgets DEF QueueMoves
  <2> QED  BY <2>1, <2>2, StepAsideHasShape
<1>2. CASE ProviderRecord(h)
  <2>1. /\ pc[h] = "recordProvider"
        /\ RecordProviderWebhook(subject[h], read[h], proposed[h], input[h])
        /\ Return(h) /\ UNCHANGED <<vendor, queue>>
    BY <1>2 DEF ProviderRecord
  <2>2. Commits(h)
    BY <1>0, <2>1, RecordCommits
  <2>3. QueueMoves /\ TableMoves /\ \A q \in OrderIds : VendorMoves(q)
    BY <1>0, <2>1, <2>2 DEF QueueMoves, TableMoves, VendorMoves
  <2>4. \A g \in Invocations : FrameMoves(g)
    BY <1>0, <2>1, ReturnForgets
  <2> QED  BY <2>3, <2>4 DEF PromiseStep
<1>3. CASE ProviderRecordCancelled(h) \/ ProviderRetry(h)
  <2>1. /\ UNCHANGED <<orders, providerMapping, vendor, queue, input>>
        /\ pc'[h] \in {"resolveProvider", "getProvider"}
        /\ read'[h] = Undefined \/ read'[h] = read[h]
        /\ \A g \in Invocations \ {h} :
             /\ pc'[g] = pc[g]
             /\ subject'[g] = subject[g]
             /\ read'[g] = read[g]
             /\ proposed'[g] = proposed[g]
    BY <1>0, <1>3 DEF ProviderRecordCancelled, ProviderRetry, Goto, DeliveryInv, DeliveryTyped,
                      TableTypeOK, FramesTypeOK
  <2>2. FrameMoves(h)
    BY <2>1 DEF FrameMoves, Forgets
  <2>3. QueueMoves /\ \A g \in Invocations : FrameMoves(g)
    BY <1>0, <2>1, <2>2, OthersKeepFrames DEF QueueMoves
  <2> QED  BY <2>1, <2>3, StepAsideHasShape
<1> QED  BY <1>1, <1>2, <1>3, ProviderGetHasShape DEF ProviderStep

LEMMA ProviderReceiveHasShape ==
  ASSUME DeliveryInv, NEW h \in ProviderInvocations, NEW e \in ProviderEventIds,
         ProviderReceive(h, e)
  PROVE  PromiseStep
<1>1. h \in Invocations
  BY DeliveryInvocations
<1>2. /\ UNCHANGED <<orders, providerMapping, vendor, queue, subject, read, proposed>>
      /\ pc'[h] = "getProvider"
      /\ \A g \in Invocations \ {h} : pc'[g] = pc[g] /\ input'[g] = input[g]
  BY <1>1 DEF ProviderReceive, Goto, tableVars, deliveryVars, queueVars, vendorVars, DeliveryInv,
              DeliveryTyped, TableTypeOK, FramesTypeOK
<1>3. FrameMoves(h)
  BY <1>2 DEF FrameMoves, Forgets
<1>4. QueueMoves /\ \A g \in Invocations : FrameMoves(g)
  BY <1>1, <1>2, <1>3, OthersKeepFrames DEF QueueMoves
<1> QED  BY <1>2, <1>4, StepAsideHasShape

(***************************************************************************)
(* Environment.                                                            *)
(***************************************************************************)
LEMMA PublishHasShape ==
  ASSUME NEW m \in Requests, Publish(m)
  PROVE  PromiseStep
<1>1. /\ UNCHANGED <<orders, providerMapping, vendor, pc, subject, input, read, proposed>>
      /\ queue \subseteq queue'
  BY DEF Publish, baseVars, tableVars, frameVars, vendorVars
<1>2. QueueMoves /\ \A g \in Invocations : FrameMoves(g)
  BY <1>1 DEF QueueMoves, FrameMoves, KeepsFrame
<1> QED  BY <1>1, <1>2, StepAsideHasShape

LEMMA VendorStepHasShape ==
  ASSUME DeliveryInv, VendorStep
  PROVE  PromiseStep
<1>0. vendor \in [OrderIds -> Verdict \cup {Undefined}]
  BY DEF DeliveryInv, DeliveryTyped, EventsTypeOK
<1>1. UNCHANGED <<baseVars, queueVars>>
  BY DEF VendorStep, VendorAccepts, VendorSends
<1>2. ASSUME NEW h \in Workers, NEW p \in ProviderIds, VendorAccepts(h, p), NEW q \in OrderIds
      PROVE  VendorMoves(q)
  <2> DEFINE o == subject[h]
             delivery == [verdict |-> "accepted", id |-> p, acceptedAt |-> clock, state |-> "SUBMITTED"]
  <2>1. /\ pc[h] = "submit" /\ ~Accepted(o)
        /\ VendorConsistent => ~RejectedSince(o, read[h].version)
        /\ vendor' = [vendor EXCEPT ![o] = delivery]
    BY <1>2 DEF VendorAccepts
  <2>2. o \in OrderIds
    BY <2>1, WorkerHas
  <2>3. delivery \in Verdict /\ delivery.verdict = "accepted"
    BY DEF Verdict, OrderStatus, DeliveryInv, DeliveryTyped, TableTypeOK, ItemsTypeOK
  <2> HIDE DEF delivery
  <2>4. CASE q # o
    BY <1>0, <2>1, <2>4 DEF VendorMoves
  <2>5. CASE q = o
    <3>1. vendor'[q] = delivery
      BY <1>0, <2>1, <2>2, <2>5
    <3>2. Accepted(q)'
      BY <2>3, <3>1, UndefinedIsNoVerdict DEF Accepted
    <3> QED  BY <2>1, <2>5, <3>2 DEF VendorMoves
  <2> QED  BY <2>4, <2>5
<1>3. ASSUME NEW e \in ProviderEventIds, NEW o \in OrderIds, NEW c \in Optional(ReasonCodes),
             NEW t \in EventTargets, VendorSends(e, o, t, c), NEW q \in OrderIds
      PROVE  VendorMoves(q)
  <2> DEFINE delivery == [vendor[o] EXCEPT !.state = t]
  <2>1. Accepted(o) /\ vendor' = [vendor EXCEPT ![o] = delivery]
    BY <1>3 DEF VendorSends
  <2>2. vendor[o] \in [verdict : {"accepted"}, id : ProviderIds, acceptedAt : Nat, state : OrderStatus]
    BY <1>0, <2>1 DEF Accepted, Verdict
  <2>3. /\ delivery \in Verdict /\ delivery.verdict = "accepted"
        /\ delivery.id = vendor[o].id /\ delivery.acceptedAt = vendor[o].acceptedAt
    BY <2>2 DEF Verdict, EventTargets, OrderStatus
  <2> HIDE DEF delivery
  <2>4. CASE q # o
    BY <1>0, <2>1, <2>4 DEF VendorMoves
  <2>5. CASE q = o
    <3>1. vendor'[q] = delivery
      BY <1>0, <2>1, <2>5
    <3>2. Accepted(q)'
      BY <2>3, <3>1, UndefinedIsNoVerdict DEF Accepted
    <3> QED  BY <2>1, <2>3, <2>5, <3>1, <3>2 DEF VendorMoves
  <2> QED  BY <2>4, <2>5
<1>4. \A q \in OrderIds : VendorMoves(q)
  BY <1>2, <1>3 DEF VendorStep
<1>5. TableMoves /\ QueueMoves /\ \A g \in Invocations : FrameMoves(g)
  BY <1>1 DEF baseVars, tableVars, frameVars, queueVars, TableMoves, QueueMoves, FrameMoves, KeepsFrame
<1> QED  BY <1>4, <1>5 DEF PromiseStep

LEMMA OtherStepHasShape ==
  ASSUME DeliveryInv, UNCHANGED deliveryVars,
         Tick \/ (\E h \in Invocations : Crash(h)) \/ UNCHANGED baseVars
  PROVE  PromiseStep
<1>1. UNCHANGED <<orders, providerMapping, vendor, queue>>
  BY DEF Tick, Crash, baseVars, tableVars, deliveryVars, queueVars, vendorVars
<1>2. \A g \in Invocations : FrameMoves(g)
  <2>1. CASE Tick \/ UNCHANGED baseVars
    BY <2>1 DEF Tick, baseVars, frameVars, FrameMoves, KeepsFrame
  <2>2. ASSUME NEW h \in Invocations, Crash(h)
        PROVE  \A g \in Invocations : FrameMoves(g)
    BY <2>2, ReturnForgets DEF Crash
  <2> QED  BY <2>1, <2>2
<1> QED  BY <1>1, <1>2, StepAsideHasShape DEF QueueMoves

LEMMA DeliveryStepHasShape ==
  ASSUME DeliveryInv, AcceptanceInv, [DeliveryNext]_allDeliveryVars
  PROVE  PromiseStep
<1>1. CASE DeliveryStep
  BY <1>1, PublishHasShape, WorkerReceiveHasShape, WorkerStepHasShape, OperatorStepHasShape,
     ProviderReceiveHasShape, ProviderStepHasShape, VendorStepHasShape
  DEF DeliveryStep
<1>2. CASE Tick /\ UNCHANGED deliveryVars
  BY <1>2, OtherStepHasShape
<1>3. CASE \E h \in Invocations : Crash(h) /\ UNCHANGED deliveryVars
  BY <1>3, OtherStepHasShape
<1>4. CASE UNCHANGED allDeliveryVars
  BY <1>4, OtherStepHasShape DEF allDeliveryVars
<1> QED  BY <1>1, <1>2, <1>3, <1>4 DEF DeliveryNext

(***************************************************************************)
(* What the provider knows, in every behaviour.                            *)
(***************************************************************************)

\* A paid order has no provider identifier and no acceptance yet.
LEMMA PaidOrderIsUndelivered ==
  ASSUME NEW i
  PROVE  /\ OrderPaidWith(i).deliveryProviderOrderId = Undefined
         /\ OrderPaidWith(i).acceptedAt = Undefined
         /\ OrderPaidWith(i).status = "PENDING_SUBMISSION"
<1> DEFINE new == NewOrder(0)
           a == [new.payment EXCEPT !.status = "SUCCEEDED"]
           b == [a EXCEPT !.stripePaymentIntentId = i]
           c == [new EXCEPT !.status = "PENDING_SUBMISSION"]
           d == [c EXCEPT !.version = 3]
           e == [d EXCEPT !.payment = b]
<1>1. new \in Order
  BY NewOrderIsOrder
<1>2. new.deliveryProviderOrderId = Undefined /\ new.acceptedAt = Undefined
  BY DEF NewOrder
<1>3. OrderPaidWith(i) = e
  BY DEF OrderPaidWith, NewOrder
<1> HIDE DEF new, a, b
<1>4. /\ e.deliveryProviderOrderId = new.deliveryProviderOrderId
      /\ e.acceptedAt = new.acceptedAt
      /\ e.status = "PENDING_SUBMISSION"
  BY <1>1 DEF Order
<1> QED  BY <1>2, <1>3, <1>4

\* Paid orders, an empty lookup, and a provider that has decided nothing.
LEMMA PromiseInit ==
  ASSUME DeliveryInit
  PROVE  AcceptanceInv /\ AcceptedExist /\ PromiseInv
<1>1. PICK intentOf \in Injection(OrderIds, IntentIds) :
        orders = [o \in OrderIds |-> OrderPaidWith(intentOf[o])]
  BY DEF DeliveryInit
<1>2. ASSUME NEW o \in OrderIds
      PROVE  /\ orders[o] \in Order
             /\ orders[o].deliveryProviderOrderId = Undefined
             /\ orders[o].acceptedAt = Undefined
             /\ orders[o].status = "PENDING_SUBMISSION"
  <2>1. intentOf[o] \in IntentIds
    BY DEF Injection
  <2>2. orders[o] = OrderPaidWith(intentOf[o])
    BY <1>1
  <2>3. OrderPaidWith(intentOf[o]) \in Order
    BY <2>1, PaidOrderIsOrder
  <2>4. /\ OrderPaidWith(intentOf[o]).deliveryProviderOrderId = Undefined
        /\ OrderPaidWith(intentOf[o]).acceptedAt = Undefined
        /\ OrderPaidWith(intentOf[o]).status = "PENDING_SUBMISSION"
    BY PaidOrderIsUndelivered
  <2> QED  BY <2>2, <2>3, <2>4
<1>3. /\ \A h \in Invocations : pc[h] = "idle" /\ read[h] = Undefined
      /\ \A p \in ProviderIds : providerMapping[p] = Undefined
      /\ \A o \in OrderIds : ~Accepted(o)
  BY DEF DeliveryInit, FramesInit, QueueInit, Accepted
<1>4. \A o \in OrderIds : Clean(orders[o])
  BY <1>2 DEF Clean
<1>5. \A h \in Invocations : ProposalFrame(h) /\ RefusalFrame(h) /\ RequestFrame(h)
  BY <1>3 DEF ProposalFrame, RefusalFrame, RequestFrame
<1>6. ProviderLookupAgrees
  BY <1>2, <1>3, UndefinedIsNoOrderId, UndefinedIsNoValue DEF ProviderLookupAgrees
<1>7. CarriedIsTruthful /\ RefusalsKnown /\ AcceptanceNeverForgotten
  BY <1>2, <1>3 DEF CarriedIsTruthful, RefusalsKnown, AcceptanceNeverForgotten
<1> QED  BY <1>2, <1>3, <1>4, <1>5, <1>6, <1>7 DEF AcceptanceInv, AcceptedExist, PromiseInv

\* The inductive invariant of the two sides of an acceptance, the order's and
\* the provider's: what every worker, operator and webhook has in hand agrees
\* with both, and what was refused is known to be refused.
THEOREM PromiseInvariant == DeliverySpec => [](AcceptanceInv /\ AcceptedExist /\ PromiseInv)
<1>1. DeliveryInit => AcceptanceInv /\ AcceptedExist /\ PromiseInv
  BY PromiseInit
<1>2. /\ DeliveryInv /\ AcceptanceInv /\ AcceptedExist /\ PromiseInv
      /\ [DeliveryNext]_allDeliveryVars
      => (AcceptanceInv /\ AcceptedExist /\ PromiseInv)'
  BY DeliveryStepHasShape, StepKeepsAcceptance, StepKeepsPromise
<1> QED  BY <1>1, <1>2, DeliveryInvariant, PTL DEF DeliverySpec

\* The reverse lookup and the orders agree: a provider event finds the one
\* order that carries its identifier, and none is carried unfindably
\* (saveStatusChange's transaction under races of workers and operators).
THEOREM ProviderLookup == DeliverySpec => []ProviderLookupAgrees
  BY PromiseInvariant, PTL DEF AcceptanceInv

\* What an order tells of its acceptance is what the provider decided,
\* unless an operator typed it in (processDeliveryEvent).
THEOREM AcceptancesAreTrue == DeliverySpec => []AcceptanceIsTruthful
<1>1. AcceptanceInv => AcceptanceIsTruthful
  BY DEF AcceptanceInv, CarriedIsTruthful, TellsAcceptance, AcceptanceIsTruthful
<1> QED  BY <1>1, PromiseInvariant, PTL

\* With a provider that does not contradict itself, an accepted delivery is
\* in its order or a request of the order stays on the queue's failure path,
\* through crashes, duplicates and stale requests.
THEOREM AcceptancesAreRemembered ==
  DeliverySpec => [](VendorConsistent => AcceptanceNeverForgotten)
<1>1. PromiseInv => (VendorConsistent => AcceptanceNeverForgotten)
  BY DEF PromiseInv
<1> QED  BY <1>1, PromiseInvariant, PTL

(***************************************************************************)
(* What delivery leaves alone, for those who share its table.              *)
(***************************************************************************)
DeliverySteps ==
  { "submit", "saveDelivery", "resolveDelivery", "saveOperator", "getProvider",
    "recordProvider", "resolveProvider" }

Delivers(g) ==
  /\ g \in Workers \cup OperatorInvocations \cup ProviderInvocations
  /\ pc'[g] \in DeliverySteps \/ (pc'[g] = "idle" /\ read'[g] = Undefined)

\* Delivery writes neither the intent lookup nor a marker of the Stripe
\* webhook, and moves no invocation but its own.
LEMMA DeliveryTouchesOwn ==
  ASSUME FramesTypeOK, DeliveryStep
  PROVE  /\ intentMapping' = intentMapping
         /\ stripeEvents' = stripeEvents
         /\ clock' = clock
         /\ \A g \in Invocations : KeepsMemory(g) \/ Delivers(g)
<1> USE DEF FramesTypeOK, tableVars, frameVars, baseVars, Goto
<1>1. ASSUME UNCHANGED <<baseVars>>
      PROVE  /\ UNCHANGED <<intentMapping, stripeEvents, clock>>
             /\ \A g \in Invocations : KeepsMemory(g) \/ Delivers(g)
  BY <1>1 DEF KeepsMemory
<1>2. ASSUME NEW h \in Workers, WorkerStep(h) \/ \E m \in Requests : WorkerReceive(h, m)
      PROVE  /\ UNCHANGED <<intentMapping, stripeEvents, clock>>
             /\ \A g \in Invocations : KeepsMemory(g) \/ Delivers(g)
  <2>0. h \in Invocations
    BY DeliveryInvocations
  <2>1. CASE Return(h) /\ UNCHANGED <<intentMapping, stripeEvents, clock>>
    BY <2>0, <2>1, ReturnTouchesOne DEF Delivers
  <2>2. CASE WorkerSaveCancelled(h)
    BY <2>0, <2>2 DEF WorkerSaveCancelled, KeepsMemory, Delivers, DeliverySteps
  <2>3. ASSUME NEW change, WorkerProposes(h, change)
        PROVE  /\ UNCHANGED <<intentMapping, stripeEvents, clock>>
               /\ \A g \in Invocations : KeepsMemory(g) \/ Delivers(g)
    BY <2>0, <2>3 DEF WorkerProposes, KeepsMemory, Delivers, DeliverySteps
  <2>4. ASSUME NEW m \in Requests, WorkerReceive(h, m)
        PROVE  /\ UNCHANGED <<intentMapping, stripeEvents, clock>>
               /\ \A g \in Invocations : KeepsMemory(g) \/ Delivers(g)
    BY <2>0, <2>4 DEF WorkerReceive, WorkerSkipCompleted, WorkerRefuseProgressed, WorkerTakeUp,
                      KeepsMemory, Delivers, DeliverySteps
  <2>5. CASE WorkerFailsRetryably(h) \/ WorkerSave(h) \/ WorkerResolve(h)
    BY <2>1, <2>5 DEF WorkerFailsRetryably, WorkerSave, WorkerResolve, SaveStatusChange
  <2>6. CASE WorkerAccepted(h) \/ \E c \in ReasonCodes : WorkerRejected(h, c)
    BY <2>3, <2>6 DEF WorkerAccepted, WorkerRejected
  <2> QED  BY <1>2, <2>2, <2>4, <2>5, <2>6 DEF WorkerStep
<1>3. ASSUME NEW h \in OperatorInvocations, OperatorStep(h)
      PROVE  /\ UNCHANGED <<intentMapping, stripeEvents, clock>>
             /\ \A g \in Invocations : KeepsMemory(g) \/ Delivers(g)
  <2>0. h \in Invocations
    BY DeliveryInvocations
  <2>1. CASE Return(h) /\ UNCHANGED <<intentMapping, stripeEvents, clock>>
    BY <2>0, <2>1, ReturnTouchesOne DEF Delivers
  <2>2. ASSUME NEW o \in OrderIds, NEW change \in OperatorChanges, OperatorGet(h, o, change)
        PROVE  /\ UNCHANGED <<intentMapping, stripeEvents, clock>>
               /\ \A g \in Invocations : KeepsMemory(g) \/ Delivers(g)
    BY <2>0, <2>2 DEF OperatorGet, KeepsMemory, Delivers, DeliverySteps
  <2>3. CASE OperatorSave(h) \/ OperatorSaveCancelled(h)
    BY <2>1, <2>3 DEF OperatorSave, OperatorSaveCancelled, SaveStatusChange
  <2> QED  BY <1>3, <2>2, <2>3 DEF OperatorStep
<1>4. ASSUME NEW h \in ProviderInvocations,
             ProviderStep(h) \/ \E e \in ProviderEventIds : ProviderReceive(h, e)
      PROVE  /\ UNCHANGED <<intentMapping, stripeEvents, clock>>
             /\ \A g \in Invocations : KeepsMemory(g) \/ Delivers(g)
  <2>0. h \in Invocations
    BY DeliveryInvocations
  <2>1. CASE Return(h) /\ UNCHANGED <<intentMapping, stripeEvents, clock>>
    BY <2>0, <2>1, ReturnTouchesOne DEF Delivers
  <2>2. CASE ProviderGet(h)
    BY <2>0, <2>2 DEF ProviderGet, KeepsMemory, Delivers, DeliverySteps
  <2>3. CASE ProviderRecordCancelled(h)
    BY <2>0, <2>3 DEF ProviderRecordCancelled, KeepsMemory, Delivers, DeliverySteps
  <2>4. CASE ProviderRetry(h)
    BY <2>0, <2>4 DEF ProviderRetry, KeepsMemory, Delivers, DeliverySteps
  <2>5. ASSUME NEW e \in ProviderEventIds, ProviderReceive(h, e)
        PROVE  /\ UNCHANGED <<intentMapping, stripeEvents, clock>>
               /\ \A g \in Invocations : KeepsMemory(g) \/ Delivers(g)
    BY <2>0, <2>5 DEF ProviderReceive, KeepsMemory, Delivers, DeliverySteps
  <2>6. CASE ProviderNotFound(h) \/ ProviderRecord(h) \/ ProviderGiveUp(h)
    BY <2>1, <2>6 DEF ProviderNotFound, ProviderRecord, ProviderGiveUp, RecordProviderWebhook
  <2> QED  BY <1>4, <2>2, <2>3, <2>4, <2>5, <2>6 DEF ProviderStep
<1>5. ASSUME (\E m \in Requests : Publish(m)) \/ VendorStep
      PROVE  UNCHANGED <<baseVars>>
  BY <1>5 DEF Publish, VendorStep, VendorAccepts, VendorSends
<1> QED  BY <1>1, <1>2, <1>3, <1>4, <1>5 DEF DeliveryStep

(***************************************************************************)
(* Changes of orders: one version further, and never back in time.         *)
(***************************************************************************)

\* What an invocation has in hand is not of the future, and what it proposes
\* is not older than what it read.
TimeFrame(h) ==
  /\ pc[h] = "submit" => read[h].updatedAt <= clock
  /\ pc[h] \in {"saveDelivery", "saveOperator", "recordProvider"} =>
       /\ read[h].updatedAt <= proposed[h].updatedAt
       /\ proposed[h].updatedAt <= clock
  /\ pc[h] \in {"getProvider", "recordProvider", "resolveProvider"} =>
       input[h].occurredAt <= clock

TimeInv ==
  /\ \A o \in OrderIds : orders[o] # Undefined => orders[o].updatedAt <= clock
  /\ \A e \in ProviderEventIds : sent[e] # Undefined => sent[e].occurredAt <= clock
  /\ \A h \in Invocations : TimeFrame(h)

\* The times an invocation compares are times.
LEMMA TimesAreTimes ==
  ASSUME DeliveryInv, NEW h \in Invocations
  PROVE  /\ pc[h] = "submit" => read[h].updatedAt \in Nat
         /\ pc[h] \in {"saveDelivery", "saveOperator", "recordProvider"} =>
              proposed[h].updatedAt \in Nat
         /\ pc[h] \in {"getProvider", "recordProvider", "resolveProvider"} =>
              input[h].occurredAt \in Nat
<1>1. DeliveryFrame(h)
  BY DEF DeliveryInv, DeliveryFramesOK
<1>2. CASE pc[h] = "submit"
  <2>1. read[h] \in Order
    BY <1>1, <1>2 DEF DeliveryFrame, WorkerFrame
  <2> QED  BY <1>2, <2>1 DEF Order
<1>3. CASE pc[h] \in {"saveDelivery", "saveOperator", "recordProvider"}
  <2>1. proposed[h] \in Order
    BY <1>1, <1>3 DEF DeliveryFrame, WorkerFrame, OperatorFrame, ProviderFrame
  <2>2. pc[h] = "recordProvider" => input[h] \in SentEvent
    BY <1>1 DEF DeliveryFrame, ProviderFrame
  <2> QED  BY <1>3, <2>1, <2>2 DEF Order, SentEvent
<1>4. CASE pc[h] \in {"getProvider", "resolveProvider"}
  <2>1. input[h] \in SentEvent
    BY <1>1, <1>4 DEF DeliveryFrame, ProviderFrame
  <2> QED  BY <1>4, <2>1 DEF SentEvent
<1> QED  BY <1>2, <1>3, <1>4

LEMMA OthersKeepTimes ==
  ASSUME DeliveryInv, TimeInv, clock' \in Nat, clock <= clock',
         NEW h \in Invocations, TimeFrame(h)',
         \A g \in Invocations \ {h} :
           /\ pc'[g] = pc[g]
           /\ input'[g] = input[g]
           /\ read'[g] = read[g]
           /\ proposed'[g] = proposed[g]
  PROVE  \A g \in Invocations : TimeFrame(g)'
<1> SUFFICES ASSUME NEW g \in Invocations, g # h PROVE TimeFrame(g)'
  OBVIOUS
<1>1. /\ pc'[g] = pc[g] /\ input'[g] = input[g]
      /\ read'[g] = read[g] /\ proposed'[g] = proposed[g]
      /\ TimeFrame(g) /\ clock \in Nat
  BY DEF TimeInv, DeliveryInv, DeliveryTyped, TableTypeOK, ItemsTypeOK
<1> QED  BY <1>1, TimesAreTimes DEF TimeFrame

\* An invocation that ends, or waits, compares no times.
LEMMA ReturnKeepsTimes ==
  ASSUME DeliveryInv, TimeInv, clock' \in Nat, clock <= clock', NEW h \in Invocations, Return(h)
  PROVE  \A g \in Invocations : TimeFrame(g)'
<1>1. /\ pc'[h] = "idle"
      /\ \A g \in Invocations \ {h} :
           /\ pc'[g] = pc[g]
           /\ input'[g] = input[g]
           /\ read'[g] = read[g]
           /\ proposed'[g] = proposed[g]
  BY ReturnIsFair DEF DeliveryInv, DeliveryTyped, TableTypeOK
<1>2. TimeFrame(h)'
  BY <1>1 DEF TimeFrame
<1> QED  BY <1>1, <1>2, OthersKeepTimes

LEMMA KeptFramesKeepTimes ==
  ASSUME DeliveryInv, TimeInv, clock' \in Nat, clock <= clock',
         UNCHANGED <<pc, input, read, proposed>>
  PROVE  \A g \in Invocations : TimeFrame(g)'
<1> SUFFICES ASSUME NEW g \in Invocations PROVE TimeFrame(g)'
  OBVIOUS
<1>1. TimeFrame(g) /\ clock \in Nat
  BY DEF TimeInv, DeliveryInv, DeliveryTyped, TableTypeOK, ItemsTypeOK
<1> QED  BY <1>1, TimesAreTimes DEF TimeFrame

LEMMA WorkerKeepsTimes ==
  ASSUME DeliveryInv, TimeInv, NEW h \in Workers,
         WorkerStep(h) \/ \E m \in Requests : WorkerReceive(h, m)
  PROVE  clock' = clock /\ \A g \in Invocations : TimeFrame(g)'
<1>0. h \in Invocations /\ clock \in Nat
  BY DeliveryInvocations DEF DeliveryInv, DeliveryTyped, TableTypeOK, ItemsTypeOK
<1>1. ASSUME NEW m \in Requests, WorkerSkipCompleted(h, m) \/ WorkerRefuseProgressed(h, m)
      PROVE  clock' = clock /\ UNCHANGED <<pc, input, read, proposed>>
  BY <1>1 DEF WorkerSkipCompleted, WorkerRefuseProgressed, baseVars, frameVars
<1>2. ASSUME NEW m \in Requests, WorkerTakeUp(h, m)
      PROVE  clock' = clock /\ \A g \in Invocations : TimeFrame(g)'
  <2>1. /\ clock' = clock /\ m \in queue
        /\ pc'[h] = "submit" /\ read'[h] = orders[m.orderId]
        /\ \A g \in Invocations \ {h} :
             /\ pc'[g] = pc[g]
             /\ input'[g] = input[g]
             /\ read'[g] = read[g]
             /\ proposed'[g] = proposed[g]
    BY <1>0, <1>2 DEF WorkerTakeUp, Receive, Goto, DeliveryInv, DeliveryTyped, TableTypeOK, FramesTypeOK
  <2>2. m.orderId \in OrderIds /\ orders[m.orderId] # Undefined
    BY <2>1 DEF DeliveryInv, DeliveryTargetsExist, Requests
  <2>3. TimeFrame(h)'
    BY <2>1, <2>2 DEF TimeInv, TimeFrame
  <2> QED  BY <1>0, <2>1, <2>3, OthersKeepTimes
<1>3. ASSUME pc[h] = "submit", NEW change \in OrderStatusChange, WorkerProposes(h, change)
      PROVE  clock' = clock /\ \A g \in Invocations : TimeFrame(g)'
  <2> DEFINE next == StatusChanged(read[h], change, clock)
  <2>1. next.updatedAt = clock
    BY <1>0, <1>3, WorkerHas, StatusChangedIsNext
  <2>2. proposed' = [proposed EXCEPT ![h] = next] /\ clock' = clock
    BY <1>3 DEF WorkerProposes
  <2> HIDE DEF next
  <2>3. /\ pc'[h] = "saveDelivery" /\ proposed'[h] = next /\ read'[h] = read[h]
        /\ \A g \in Invocations \ {h} :
             /\ pc'[g] = pc[g]
             /\ input'[g] = input[g]
             /\ read'[g] = read[g]
             /\ proposed'[g] = proposed[g]
    BY <1>0, <1>3, <2>2 DEF WorkerProposes, Goto, DeliveryInv, DeliveryTyped, TableTypeOK, FramesTypeOK
  <2>4. TimeFrame(h)'
    BY <1>0, <1>3, <2>1, <2>2, <2>3 DEF TimeInv, TimeFrame
  <2> QED  BY <1>0, <2>2, <2>3, <2>4, OthersKeepTimes
<1>4. CASE WorkerAccepted(h)
  <2> DEFINE o == subject[h]
             change == [ targetStatus |-> "SUBMITTED", deliveryProviderOrderId |-> vendor[o].id,
                         acceptedAt |-> vendor[o].acceptedAt, failure |-> Undefined ]
  <2>1. pc[h] = "submit" /\ Accepted(o) /\ WorkerProposes(h, change)
    BY <1>4 DEF WorkerAccepted
  <2>2. vendor[o].id \in ProviderIds /\ vendor[o].acceptedAt \in Nat
    BY <2>1, WorkerHas DEF Accepted, DeliveryInv, DeliveryTyped, EventsTypeOK, Verdict
  <2>3. change \in OrderStatusChange
    BY <2>2 DEF OrderStatusChange, OrderStatus, Optional
  <2> QED  BY <1>3, <2>1, <2>3
<1>5. ASSUME NEW c \in ReasonCodes, WorkerRejected(h, c)
      PROVE  clock' = clock /\ \A g \in Invocations : TimeFrame(g)'
  <2> DEFINE change == [ChangeTo("SUBMISSION_FAILED") EXCEPT
                          !.failure = [stage |-> "SUBMISSION", reasonCode |-> c]]
  <2>1. pc[h] = "submit" /\ WorkerProposes(h, change)
    BY <1>5 DEF WorkerRejected
  <2>2. change = [ targetStatus |-> "SUBMISSION_FAILED", deliveryProviderOrderId |-> Undefined,
                   acceptedAt |-> Undefined,
                   failure |-> [stage |-> "SUBMISSION", reasonCode |-> c] ]
    BY DEF ChangeTo
  <2>3. change \in OrderStatusChange
    BY <2>2 DEF OrderStatusChange, OrderStatus, Optional, FailureDetails
  <2> QED  BY <1>3, <2>1, <2>3
<1>6. CASE WorkerFailsRetryably(h) \/ WorkerSave(h) \/ WorkerResolve(h)
  <2>1. clock' = clock /\ Return(h)
    BY <1>6 DEF WorkerFailsRetryably, WorkerSave, WorkerResolve
  <2> QED  BY <1>0, <2>1, ReturnKeepsTimes
<1>7. CASE WorkerSaveCancelled(h)
  <2>1. /\ clock' = clock /\ UNCHANGED <<input, read, proposed>>
        /\ pc'[h] = "resolveDelivery" /\ \A g \in Invocations \ {h} : pc'[g] = pc[g]
    BY <1>0, <1>7 DEF WorkerSaveCancelled, Goto, DeliveryInv, DeliveryTyped, TableTypeOK, FramesTypeOK
  <2>2. TimeFrame(h)'
    BY <2>1 DEF TimeFrame
  <2> QED  BY <1>0, <2>1, <2>2, OthersKeepTimes
<1> QED
  BY <1>0, <1>1, <1>2, <1>4, <1>5, <1>6, <1>7, KeptFramesKeepTimes DEF WorkerStep, WorkerReceive

LEMMA OperatorKeepsTimes ==
  ASSUME DeliveryInv, TimeInv, NEW h \in OperatorInvocations, OperatorStep(h)
  PROVE  clock' = clock /\ \A g \in Invocations : TimeFrame(g)'
<1>0. h \in Invocations /\ clock \in Nat
  BY DeliveryInvocations DEF DeliveryInv, DeliveryTyped, TableTypeOK, ItemsTypeOK
<1>1. ASSUME NEW o \in OrderIds, NEW change \in OperatorChanges, OperatorGet(h, o, change)
      PROVE  clock' = clock /\ \A g \in Invocations : TimeFrame(g)'
  <2> DEFINE next == StatusChanged(orders[o], change, clock)
  <2>1. orders[o] \in Order /\ orders[o] # Undefined /\ change \in OrderStatusChange
    BY <1>1, OperatorChangesAreChanges
       DEF OperatorGet, DeliveryInv, DeliveryTyped, TableTypeOK, ItemsTypeOK
  <2>2. next.updatedAt = clock
    BY <1>0, <2>1, StatusChangedIsNext
  <2>3. proposed' = [proposed EXCEPT ![h] = next] /\ clock' = clock
    BY <1>1 DEF OperatorGet
  <2> HIDE DEF next
  <2>4. /\ pc'[h] = "saveOperator" /\ proposed'[h] = next /\ read'[h] = orders[o]
        /\ \A g \in Invocations \ {h} :
             /\ pc'[g] = pc[g]
             /\ input'[g] = input[g]
             /\ read'[g] = read[g]
             /\ proposed'[g] = proposed[g]
    BY <1>0, <1>1, <2>3 DEF OperatorGet, Goto, DeliveryInv, DeliveryTyped, TableTypeOK, FramesTypeOK
  <2>5. TimeFrame(h)'
    BY <1>0, <2>1, <2>2, <2>3, <2>4 DEF TimeInv, TimeFrame
  <2> QED  BY <1>0, <2>3, <2>4, <2>5, OthersKeepTimes
<1>2. CASE OperatorSave(h) \/ OperatorSaveCancelled(h)
  <2>1. clock' = clock /\ Return(h)
    BY <1>2 DEF OperatorSave, OperatorSaveCancelled
  <2> QED  BY <1>0, <2>1, ReturnKeepsTimes
<1> QED  BY <1>1, <1>2 DEF OperatorStep

\* changedOrderFor applies no event older than the order's last change.
LEMMA EventsDoNotGoBack ==
  ASSUME NEW event \in SentEvent, NEW order \in Order, NEW now \in Nat,
         event.occurredAt <= now, order.updatedAt <= now
  PROVE  LET next == ChangedOrderFor(event, order) IN
         order.updatedAt <= next.updatedAt /\ next.updatedAt <= now
<1> DEFINE change == EventChange(event)
           next == StatusChanged(order, change, event.occurredAt)
<1>1. /\ event.target \in EventTargets
      /\ event.reasonCode \in Optional(ReasonCodes)
      /\ event.occurredAt \in Nat
      /\ order.updatedAt \in Nat
  BY DEF SentEvent, Order
<1>2. ChangeTo(event.target) \in OrderStatusChange
  BY <1>1 DEF ChangeTo, OrderStatusChange, OrderStatus, EventTargets, Optional
<1>3. change \in OrderStatusChange
  BY <1>1, <1>2 DEF EventChange, OrderStatusChange, FailureDetails, Optional
<1> HIDE DEF change
<1>4. next.updatedAt = event.occurredAt
  BY <1>1, <1>3, StatusChangedIsNext
<1> HIDE DEF next
<1>5. \/ ChangedOrderFor(event, order) = next /\ event.occurredAt >= order.updatedAt
      \/ ChangedOrderFor(event, order) = order
  BY DEF ChangedOrderFor, change, next
<1> QED  BY <1>1, <1>4, <1>5

LEMMA ProviderKeepsTimes ==
  ASSUME DeliveryInv, TimeInv, NEW h \in ProviderInvocations,
         ProviderStep(h) \/ \E e \in ProviderEventIds : ProviderReceive(h, e)
  PROVE  clock' = clock /\ \A g \in Invocations : TimeFrame(g)'
<1>0. h \in Invocations /\ clock \in Nat
  BY DeliveryInvocations DEF DeliveryInv, DeliveryTyped, TableTypeOK, ItemsTypeOK
<1>1. CASE ProviderNotFound(h) \/ ProviderGiveUp(h) \/ ProviderRecord(h)
  <2>1. clock' = clock /\ Return(h)
    BY <1>1 DEF ProviderNotFound, ProviderGiveUp, ProviderRecord
  <2> QED  BY <1>0, <2>1, ReturnKeepsTimes
<1>2. CASE ProviderGet(h)
  <2> DEFINE o == providerMapping[input[h].deliveryProviderOrderId]
             next == ChangedOrderFor(input[h], orders[o])
  <2>1. /\ pc[h] = "getProvider" /\ clock' = clock /\ input' = input /\ o # Undefined
        /\ read' = [read EXCEPT ![h] = orders[o]]
        /\ proposed' = [proposed EXCEPT ![h] = next]
        /\ pc' = [pc EXCEPT ![h] = "recordProvider"]
    BY <1>2 DEF ProviderGet, Goto
  <2>2. input[h] \in SentEvent /\ input[h].occurredAt <= clock
    BY <1>0, <2>1 DEF DeliveryInv, DeliveryFramesOK, DeliveryFrame, ProviderFrame, TimeInv, TimeFrame
  <2>3. o \in OrderIds /\ orders[o] \in Order /\ orders[o] # Undefined
    <3>1. input[h].deliveryProviderOrderId \in ProviderIds
      BY <2>2 DEF SentEvent
    <3> QED  BY <2>1, <3>1 DEF DeliveryInv, DeliveryTyped, TableTypeOK, ItemsTypeOK,
                               DeliveryTargetsExist, Optional
  <2> HIDE DEF o
  <2>4. orders[o].updatedAt <= next.updatedAt /\ next.updatedAt <= clock
    BY <1>0, <2>2, <2>3, EventsDoNotGoBack DEF TimeInv
  <2> HIDE DEF next
  <2>5. /\ pc'[h] = "recordProvider" /\ read'[h] = orders[o] /\ proposed'[h] = next
        /\ \A g \in Invocations \ {h} :
             /\ pc'[g] = pc[g]
             /\ read'[g] = read[g]
             /\ proposed'[g] = proposed[g]
    BY <1>0, <2>1 DEF DeliveryInv, DeliveryTyped, TableTypeOK, FramesTypeOK
  <2>6. TimeFrame(h)'
    BY <2>1, <2>2, <2>4, <2>5 DEF TimeFrame
  <2> QED  BY <1>0, <2>1, <2>5, <2>6, OthersKeepTimes
<1>3. CASE ProviderRecordCancelled(h) \/ ProviderRetry(h)
  <2>1. /\ clock' = clock /\ input' = input
        /\ pc[h] \in {"recordProvider", "resolveProvider"}
        /\ pc'[h] \in {"resolveProvider", "getProvider"}
        /\ \A g \in Invocations \ {h} :
             /\ pc'[g] = pc[g]
             /\ read'[g] = read[g]
             /\ proposed'[g] = proposed[g]
    BY <1>0, <1>3 DEF ProviderRecordCancelled, ProviderRetry, Goto, DeliveryInv, DeliveryTyped,
                      TableTypeOK, FramesTypeOK
  <2>2. TimeFrame(h)'
    BY <1>0, <2>1 DEF TimeInv, TimeFrame
  <2> QED  BY <1>0, <2>1, <2>2, OthersKeepTimes
<1>4. ASSUME NEW e \in ProviderEventIds, ProviderReceive(h, e)
      PROVE  clock' = clock /\ \A g \in Invocations : TimeFrame(g)'
  <2>1. /\ clock' = clock /\ sent[e] # Undefined
        /\ UNCHANGED <<read, proposed>>
        /\ pc'[h] = "getProvider" /\ input'[h] = sent[e]
        /\ \A g \in Invocations \ {h} : pc'[g] = pc[g] /\ input'[g] = input[g]
    BY <1>0, <1>4 DEF ProviderReceive, Goto, DeliveryInv, DeliveryTyped, TableTypeOK, FramesTypeOK
  <2>2. TimeFrame(h)'
    BY <2>1 DEF TimeInv, TimeFrame
  <2> QED  BY <1>0, <2>1, <2>2, OthersKeepTimes
<1> QED  BY <1>1, <1>2, <1>3, <1>4 DEF ProviderStep

\* The clock goes on, and nobody is ahead of it.
LEMMA FramesKeepTimes ==
  ASSUME DeliveryInv, TimeInv, [DeliveryNext]_allDeliveryVars
  PROVE  /\ clock \in Nat /\ clock' \in Nat /\ clock <= clock'
         /\ \A g \in Invocations : TimeFrame(g)'
<1>0. clock \in Nat
  BY DEF DeliveryInv, DeliveryTyped, TableTypeOK, ItemsTypeOK
<1>1. CASE VendorStep \/ \E m \in Requests : Publish(m)
  <2>1. clock' = clock /\ UNCHANGED <<pc, input, read, proposed>>
    BY <1>1 DEF VendorStep, VendorAccepts, VendorSends, Publish, baseVars, frameVars
  <2> QED  BY <1>0, <2>1, KeptFramesKeepTimes
<1>2. CASE Tick \/ UNCHANGED allDeliveryVars
  <2>1. clock' \in Nat /\ clock <= clock' /\ UNCHANGED <<pc, input, read, proposed>>
    BY <1>0, <1>2 DEF Tick, allDeliveryVars, baseVars, frameVars
  <2> QED  BY <1>0, <2>1, KeptFramesKeepTimes
<1>3. ASSUME NEW h \in Invocations, Crash(h)
      PROVE  clock' = clock /\ \A g \in Invocations : TimeFrame(g)'
  <2>1. clock' = clock /\ Return(h)
    BY <1>3 DEF Crash
  <2> QED  BY <1>0, <2>1, ReturnKeepsTimes
<1>4. CASE DeliveryStep
  BY <1>0, <1>1, <1>4, WorkerKeepsTimes, OperatorKeepsTimes, ProviderKeepsTimes DEF DeliveryStep
<1> QED  BY <1>0, <1>2, <1>3, <1>4 DEF DeliveryNext

LEMMA EventsKeepTimes ==
  ASSUME DeliveryInv, TimeInv, [DeliveryNext]_allDeliveryVars, clock' \in Nat, clock <= clock'
  PROVE  \A e \in ProviderEventIds : sent'[e] # Undefined => sent'[e].occurredAt <= clock'
<1>0. clock \in Nat /\ sent \in [ProviderEventIds -> SentEvent \cup {Undefined}]
  BY DEF DeliveryInv, DeliveryTyped, TableTypeOK, ItemsTypeOK, EventsTypeOK
<1> SUFFICES ASSUME NEW e \in ProviderEventIds, sent'[e] # Undefined
             PROVE  sent'[e].occurredAt <= clock'
  OBVIOUS
<1>1. CASE sent' = sent
  <2>1. sent[e] \in SentEvent /\ sent[e].occurredAt <= clock
    BY <1>0, <1>1 DEF TimeInv
  <2>2. sent[e].occurredAt \in Nat
    BY <2>1 DEF SentEvent
  <2> QED  BY <1>0, <1>1, <2>1, <2>2
<1>2. ASSUME NEW f \in ProviderEventIds, NEW o \in OrderIds, NEW c \in Optional(ReasonCodes),
             NEW t \in EventTargets, VendorSends(f, o, t, c)
      PROVE  sent'[e].occurredAt <= clock'
  <2>1. CASE e = f
    BY <1>0, <1>2, <2>1 DEF VendorSends
  <2>2. CASE e # f
    <3>1. sent'[e] = sent[e]
      BY <1>0, <1>2, <2>2 DEF VendorSends
    <3>2. sent[e] \in SentEvent /\ sent[e].occurredAt <= clock
      BY <1>0, <3>1 DEF TimeInv
    <3>3. sent[e].occurredAt \in Nat
      BY <3>2 DEF SentEvent
    <3> QED  BY <1>0, <3>1, <3>2, <3>3
  <2> QED  BY <2>1, <2>2
<1>3. ASSUME NEW h \in Workers, WorkerStep(h) \/ \E m \in Requests : WorkerReceive(h, m)
      PROVE  sent' = sent
  BY <1>3 DEF WorkerStep, WorkerReceive, WorkerSkipCompleted, WorkerRefuseProgressed, WorkerTakeUp,
              WorkerAccepted, WorkerRejected, WorkerProposes, WorkerFailsRetryably, WorkerSave,
              WorkerSaveCancelled, WorkerResolve, deliveryVars, vendorVars
<1>4. ASSUME NEW h \in OperatorInvocations, OperatorStep(h)
      PROVE  sent' = sent
  BY <1>4 DEF OperatorStep, OperatorGet, OperatorSave, OperatorSaveCancelled, deliveryVars, vendorVars
<1>5. ASSUME NEW h \in ProviderInvocations,
             ProviderStep(h) \/ \E f \in ProviderEventIds : ProviderReceive(h, f)
      PROVE  sent' = sent
  BY <1>5 DEF ProviderStep, ProviderNotFound, ProviderGet, ProviderRecord, ProviderRecordCancelled,
              ProviderRetry, ProviderGiveUp, ProviderReceive, deliveryVars, vendorVars
<1>6. ASSUME NEW m \in Requests, Publish(m)
      PROVE  sent' = sent
  BY <1>6 DEF Publish, vendorVars
<1>7. ASSUME NEW h \in Workers, NEW p \in ProviderIds, VendorAccepts(h, p)
      PROVE  sent' = sent
  BY <1>7 DEF VendorAccepts
<1>8. CASE UNCHANGED deliveryVars \/ UNCHANGED allDeliveryVars
  BY <1>1, <1>8 DEF allDeliveryVars, deliveryVars, vendorVars
<1>9. CASE DeliveryStep
  BY <1>1, <1>2, <1>3, <1>4, <1>5, <1>6, <1>7, <1>9 DEF DeliveryStep, VendorStep
<1> QED  BY <1>8, <1>9 DEF DeliveryNext

\* A commit brings an order the version, the times and the status of an
\* allowed change of it.
LEMMA DeliveryChangesProperly ==
  ASSUME DeliveryInv, AcceptanceInv, TimeInv, TableMoves, NEW o \in OrderIds,
         orders'[o] # orders[o]
  PROVE  /\ orders[o] # Undefined /\ orders'[o] # Undefined
         /\ CommittedChange(orders[o], orders'[o])
         /\ orders'[o].updatedAt <= clock
<1>1. PICK h \in Invocations : Commits(h)
  BY DEF TableMoves
<1>2. subject[h] = o /\ orders'[o] = proposed[h] /\ orders[o] = read[h]
  BY <1>1, CommitIsNext DEF Commits
<1>3. read[h] \in Order
  <2>1. DeliveryFrame(h)
    BY DEF DeliveryInv, DeliveryFramesOK
  <2> QED  BY <1>1, <2>1 DEF Commits, DeliveryFrame, WorkerFrame, OperatorFrame, ProviderFrame
<1>4. orders[o] # Undefined /\ orders'[o] # Undefined
  BY <1>2, <1>3, OrdersStay, UndefinedIsNoRecord
<1>5. /\ orders[o] \in Order /\ orders'[o] \in Order
      /\ Follows(orders[o], orders'[o])
      /\ orders[o].deliveryProviderOrderId # Undefined => SameAcceptance(orders[o], orders'[o])
  BY <1>4, OrdersMoveCleanly
<1>6. Progresses(orders[o], orders'[o])
  BY <1>5 DEF Follows
<1>7. orders[o].updatedAt <= orders'[o].updatedAt /\ orders'[o].updatedAt <= clock
  BY <1>1, <1>2 DEF Commits, TimeInv, TimeFrame
<1>8. orders[o].status \notin TerminalStatus
  BY <1>5, <1>6 DEF Progresses, AllowedTransitions, TerminalStatus, Order, OrderStatus
<1>9. orders[o].updatedAt \in Nat /\ orders'[o].updatedAt \in Nat
  BY <1>5 DEF Order
<1> QED  BY <1>4, <1>5, <1>6, <1>7, <1>8, <1>9 DEF Progresses, SameAcceptance, CommittedChange

LEMMA StepKeepsTimes ==
  ASSUME DeliveryInv, AcceptanceInv, TimeInv, [DeliveryNext]_allDeliveryVars
  PROVE  TimeInv'
<1>1. TableMoves
  BY DeliveryStepHasShape DEF PromiseStep
<1>2. /\ clock \in Nat /\ clock' \in Nat /\ clock <= clock'
      /\ \A g \in Invocations : TimeFrame(g)'
  BY FramesKeepTimes
<1>3. \A e \in ProviderEventIds : sent'[e] # Undefined => sent'[e].occurredAt <= clock'
  BY <1>2, EventsKeepTimes
<1>4. ASSUME NEW o \in OrderIds, orders'[o] # Undefined PROVE orders'[o].updatedAt <= clock'
  <2>1. orders'[o].updatedAt <= clock
    BY <1>1, <1>4, DeliveryChangesProperly DEF TimeInv
  <2>2. orders'[o] \in Order
    BY <1>1, <1>4, OrdersStay, OrdersMoveCleanly
  <2> QED  BY <1>2, <2>1, <2>2 DEF Order
<1> QED  BY <1>2, <1>3, <1>4 DEF TimeInv

LEMMA TimeInit ==
  ASSUME DeliveryInit
  PROVE  TimeInv
<1>1. PICK intentOf \in Injection(OrderIds, IntentIds) :
        orders = [o \in OrderIds |-> OrderPaidWith(intentOf[o])]
  BY DEF DeliveryInit
<1>2. ASSUME NEW o \in OrderIds PROVE orders[o].updatedAt = 0
  <2> DEFINE i == intentOf[o]
             new == NewOrder(0)
             a == [new.payment EXCEPT !.status = "SUCCEEDED"]
             b == [a EXCEPT !.stripePaymentIntentId = i]
             c == [new EXCEPT !.status = "PENDING_SUBMISSION"]
             d == [c EXCEPT !.version = 3]
             e == [d EXCEPT !.payment = b]
  <2>1. new \in Order /\ new.updatedAt = 0
    BY NewOrderIsOrder DEF NewOrder
  <2>2. orders[o] = OrderPaidWith(i)
    BY <1>1
  <2>3. OrderPaidWith(i) = e
    BY DEF OrderPaidWith, NewOrder
  <2> HIDE DEF new, a, b
  <2>4. e.updatedAt = new.updatedAt
    BY <2>1 DEF Order
  <2> QED  BY <2>1, <2>2, <2>3, <2>4
<1>3. \A h \in Invocations : pc[h] = "idle"
  BY DEF DeliveryInit, FramesInit
<1>4. clock = 0 /\ \A e \in ProviderEventIds : sent[e] = Undefined
  BY DEF DeliveryInit, QueueInit
<1> QED  BY <1>2, <1>3, <1>4 DEF TimeInv, TimeFrame

\* Every commit of a worker, an operator or a provider webhook takes an order
\* one version further and not back in time, keeps what was recorded for
\* good, and leaves finished orders and payments alone (CommittedChange).
THEOREM DeliveryChangesProper == DeliverySpec => OrdersChangeProperly
<1>1. DeliveryInit => TimeInv
  BY TimeInit
<1>2. DeliveryInv /\ AcceptanceInv /\ TimeInv /\ [DeliveryNext]_allDeliveryVars => TimeInv'
  BY StepKeepsTimes
<1>3. DeliverySpec => []TimeInv
  BY <1>1, <1>2, DeliveryInvariant, PromiseInvariant, PTL DEF DeliverySpec
<1>4. DeliveryInv /\ AcceptanceInv /\ TimeInv /\ [DeliveryNext]_allDeliveryVars =>
        [ \A o \in OrderIds :
            orders'[o] # orders[o] =>
              /\ orders'[o] # Undefined
              /\ orders[o] # Undefined => CommittedChange(orders[o], orders'[o]) ]_orders
  BY DeliveryStepHasShape, DeliveryChangesProperly DEF PromiseStep
<1> QED
  BY <1>3, <1>4, DeliveryInvariant, PromiseInvariant, PTL DEF DeliverySpec, OrdersChangeProperly

\* Only a webhook's transaction writes an event marker, and only when there
\* is none.
LEMMA MarkersStand ==
  ASSUME DeliveryInv, [DeliveryNext]_allDeliveryVars, NEW e \in ProviderEventIds,
         providerEvents[e] # Undefined
  PROVE  providerEvents'[e] = providerEvents[e]
<1>1. ASSUME NEW h \in ProviderInvocations, ProviderRecord(h)
      PROVE  providerEvents'[e] = providerEvents[e]
  <2>1. /\ providerEvents[input[h].eventId] = Undefined
        /\ providerEvents' = [providerEvents EXCEPT ![input[h].eventId] = input[h]]
    BY <1>1 DEF ProviderRecord, RecordProviderWebhook, ProviderWebhookCommits
  <2>2. input[h].eventId # e /\ providerEvents \in [ProviderEventIds -> SentEvent \cup {Undefined}]
    BY <2>1 DEF DeliveryInv, DeliveryTyped, EventsTypeOK
  <2> QED  BY <2>1, <2>2
<1>2. ASSUME NEW h \in Workers, WorkerStep(h) \/ \E m \in Requests : WorkerReceive(h, m)
      PROVE  providerEvents' = providerEvents
  BY <1>2 DEF WorkerStep, WorkerReceive, WorkerSkipCompleted, WorkerRefuseProgressed, WorkerTakeUp,
              WorkerAccepted, WorkerRejected, WorkerProposes, WorkerFailsRetryably, WorkerSave,
              WorkerSaveCancelled, WorkerResolve, SaveStatusChange, baseVars, tableVars
<1>3. ASSUME NEW h \in OperatorInvocations, OperatorStep(h)
      PROVE  providerEvents' = providerEvents
  BY <1>3 DEF OperatorStep, OperatorGet, OperatorSave, OperatorSaveCancelled, SaveStatusChange,
              tableVars
<1>4. ASSUME NEW h \in ProviderInvocations, ~ProviderRecord(h),
             ProviderStep(h) \/ \E f \in ProviderEventIds : ProviderReceive(h, f)
      PROVE  providerEvents' = providerEvents
  BY <1>4 DEF ProviderStep, ProviderNotFound, ProviderGet, ProviderRecordCancelled,
              ProviderRetry, ProviderGiveUp, ProviderReceive, tableVars
<1>5. CASE VendorStep \/ \E m \in Requests : Publish(m)
  BY <1>5 DEF VendorStep, VendorAccepts, VendorSends, Publish, baseVars, tableVars
<1>6. CASE Tick \/ (\E h \in Invocations : Crash(h)) \/ UNCHANGED allDeliveryVars
  BY <1>6 DEF Tick, Crash, allDeliveryVars, baseVars, tableVars
<1> QED  BY <1>1, <1>2, <1>3, <1>4, <1>5, <1>6 DEF DeliveryNext, DeliveryStep

\* An event id once recorded stands for one event, whatever the provider
\* sends under it later (recordProviderWebhook puts its marker once).
THEOREM ProviderEventsStayBound == DeliverySpec => ProviderEventIdsStayBound
<1>1. DeliveryInv /\ [DeliveryNext]_allDeliveryVars =>
        [ \A e \in ProviderEventIds :
            providerEvents[e] # Undefined => providerEvents'[e] = providerEvents[e]
        ]_providerEvents
  BY MarkersStand
<1> QED  BY <1>1, DeliveryInvariant, PTL DEF DeliverySpec, ProviderEventIdsStayBound
==============================================================================
