---------------------------- MODULE OrderLifecycle ----------------------------
(***************************************************************************)
(* What the service promises about an order as a whole, with no word of    *)
(* tables, versions, events or queues: the steps an order takes, each of   *)
(* them all at once.  OrderService is shown to implement it.               *)
(***************************************************************************)
CONSTANTS
  OrderIds,
  ProviderIds,
  None            \* no order yet, no delivery yet

VARIABLES
  status,         \* the order's status, None before it is created
  paid,           \* "open", "collected" or "cancelled"
  delivery        \* the provider's identifier of the order's delivery

LifecycleInit ==
  /\ status = [o \in OrderIds |-> None]
  /\ paid = [o \in OrderIds |-> "open"]
  /\ delivery = [o \in OrderIds |-> None]

Moves(o, from, to) ==
  /\ status[o] \in from
  /\ status' = [status EXCEPT ![o] = to]

\* Orders start unpaid.
Place(o) ==
  Moves(o, {None}, "AWAITING_PAYMENT") /\ UNCHANGED <<paid, delivery>>

\* The payment is decided, once, together with what becomes of the order.
Collect(o) ==
  /\ Moves(o, {"AWAITING_PAYMENT"}, "PENDING_SUBMISSION")
  /\ paid' = [paid EXCEPT ![o] = "collected"]
  /\ UNCHANGED delivery

Abandon(o) ==
  /\ Moves(o, {"AWAITING_PAYMENT"}, "CANCELLED")
  /\ paid' = [paid EXCEPT ![o] = "cancelled"]
  /\ UNCHANGED delivery

\* Only a paid order is handed to the provider, under an identifier no other
\* order has; the identifier never changes.
Submit(o, p) ==
  /\ Moves(o, {"PENDING_SUBMISSION"}, "SUBMITTED")
  /\ \A q \in OrderIds : delivery[q] # p
  /\ delivery' = [delivery EXCEPT ![o] = p]
  /\ UNCHANGED paid

Proceed(o) ==
  /\ \/ Moves(o, {"PENDING_SUBMISSION"}, "SUBMISSION_FAILED")
     \/ Moves(o, {"SUBMISSION_FAILED"}, "PENDING_SUBMISSION")
     \/ Moves(o, {"SUBMITTED"}, "PICKED_UP")
     \/ Moves(o, {"SUBMITTED", "PICKED_UP"}, "DELIVERED")
     \/ Moves(o, {"SUBMITTED", "PICKED_UP"}, "DELIVERY_FAILED")
     \/ Moves(o, {"PENDING_SUBMISSION", "SUBMISSION_FAILED", "SUBMITTED"}, "CANCELLED")
  /\ UNCHANGED <<paid, delivery>>

LifecycleNext ==
  \E o \in OrderIds :
    \/ Place(o)
    \/ Collect(o)
    \/ Abandon(o)
    \/ \E p \in ProviderIds : Submit(o, p)
    \/ Proceed(o)

LifecycleSpec == LifecycleInit /\ [][LifecycleNext]_<<status, paid, delivery>>
==============================================================================
