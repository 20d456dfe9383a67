---------------------------- MODULE BrowserJourney ----------------------------
(***************************************************************************)
(* The browser's side of an order over the orders API: the submission that *)
(* is retried under one idempotency key (CreateOrderSubmission over the    *)
(* operations of client/idempotent-operation.ts), the payment prepared and *)
(* confirmed for the order, and the poll that then follows the stored      *)
(* order (OrderJourneyTracker).  Other systems of the merchant call the    *)
(* API with keys of their own choice.                                      *)
(***************************************************************************)
EXTENDS OrderApi

CONSTANTS
  Browsers,     \* open pages
  OtherKeys,    \* keys other systems use, for whatever requests
  MaxRetries,   \* bound on the attempts of one submission
  MaxPolls      \* maxAttempts of the tracker

ASSUME BrowserConstants ==
  OtherKeys \subseteq Keys /\ MaxRetries \in Nat \ {0} /\ MaxPolls \in Nat

VARIABLES
  operation,    \* a page's idempotent operation
  usedKeys,     \* keys pages have generated
  preparation,  \* state of a page's PreparePaymentIntent
  tracker,      \* a page's OrderJourneyTracker
  polls         \* order states on their way to a page

browserVars == <<operation, usedKeys, preparation, tracker, polls>>
journeyVars == <<apiVars, browserVars>>

OperationStates == {"IN_FLIGHT", "OUTCOME_UNKNOWN", "SUCCEEDED", "REJECTED"}
Operation ==
  [ state : OperationStates, key : Keys, request : Request, attemptCount : 1..MaxRetries,
    over : Calls \cup {Undefined}, order : OrderIds \cup {Undefined} ]

TrackedOrder == [stage : Stages, version : 1..MaxVersion]

ASSUME UndefinedIsNoOperation == Undefined \notin Operation /\ Undefined \notin TrackedOrder

NotTracking ==
  [state |-> "NOT_STARTED", aborted |-> FALSE, attemptCount |-> 0, order |-> Undefined]

BrowserInit ==
  /\ operation = [b \in Browsers |-> Undefined]
  /\ usedKeys = {}
  /\ preparation = [b \in Browsers |-> "NOT_STARTED"]
  /\ tracker = [b \in Browsers |-> NotTracking]
  /\ polls = [b \in Browsers |-> {}]

InState(b, state) == operation[b] # Undefined /\ operation[b].state = state

(***************************************************************************)
(* CreateOrderSubmission.                                                  *)
(***************************************************************************)

Attempting(key, request, n, c) ==
  [ state |-> "IN_FLIGHT", key |-> key, request |-> request, attemptCount |-> n, over |-> c,
    order |-> Undefined ]

\* submit: a fresh key, and the first attempt at once.
Submit(b) ==
  /\ operation[b] = Undefined
  /\ \E k \in Keys \ (OtherKeys \cup usedKeys), r \in Request, c \in Calls :
       /\ usedKeys' = usedKeys \cup {k}
       /\ Send(c, k, r)
       /\ operation' = [operation EXCEPT ![b] = Attempting(k, r, 1, c)]
  /\ UNCHANGED <<itemVars, preparation, tracker, polls>>

\* retry: the same request under the same key.
Retry(b) ==
  /\ InState(b, "OUTCOME_UNKNOWN")
  /\ LET op == operation[b]
     IN /\ op.attemptCount < MaxRetries
        /\ \E c \in Calls :
             /\ Send(c, op.key, op.request)
             /\ operation' = [operation EXCEPT ![b] =
                  Attempting(op.key, op.request, op.attemptCount + 1, c)]
  /\ UNCHANGED <<itemVars, usedKeys, preparation, tracker, polls>>

Settle(b, state, o) ==
  LET op == operation[b]
  IN operation' = [operation EXCEPT ![b] =
       [ state |-> state, key |-> op.key, request |-> op.request,
         attemptCount |-> op.attemptCount, over |-> Undefined, order |-> o ]]

\* readCreatedOrder takes only an order that has not moved yet.
ReadsAsCreated(a) == a.answer \in {"created", "replayed"} /\ a.stage = "awaiting"

\* Faulty variant: every answer that is no success rejects the operation.
OutcomeOfHasty(a) == IF ReadsAsCreated(a) THEN "SUCCEEDED" ELSE "REJECTED"

\* createOrder of the browser's client, and the state attempt() draws from it.
OutcomeOf(a) ==
  IF ReadsAsCreated(a) THEN "SUCCEEDED"
  ELSE IF a.answer \in Rejections THEN "REJECTED" ELSE "OUTCOME_UNKNOWN"

ReceiveAnswer(b) ==
  /\ InState(b, "IN_FLIGHT")
  /\ LET a == call[operation[b].over]
     IN /\ a.at = "answered"
        /\ Settle(b, OutcomeOf(a), IF ReadsAsCreated(a) THEN a.id ELSE Undefined)
        /\ call' = [call EXCEPT ![operation[b].over] = NoCall]
  /\ UNCHANGED <<itemVars, usedKeys, preparation, tracker, polls>>

\* The connection breaks: a request that was not sent is gone, one that
\* arrived goes on without its caller.
LoseConnection(b) ==
  /\ InState(b, "IN_FLIGHT")
  /\ Settle(b, "OUTCOME_UNKNOWN", Undefined)
  /\ \/ call[operation[b].over].at = "sent" /\ call' = [call EXCEPT ![operation[b].over] = NoCall]
     \/ UNCHANGED call
  /\ UNCHANGED <<itemVars, usedKeys, preparation, tracker, polls>>

\* reset, which the page offers for a rejected operation only.
Reset(b) ==
  /\ InState(b, "REJECTED")
  /\ operation' = [operation EXCEPT ![b] = Undefined]
  /\ UNCHANGED <<apiVars, usedKeys, preparation, tracker, polls>>

(***************************************************************************)
(* PreparePaymentIntent and the confirmation with Stripe.  What the server *)
(* does with a preparation is PaymentFlow's; here it is one of the three   *)
(* outcomes the page tells apart.                                          *)
(***************************************************************************)
PreparePayment(b) ==
  /\ InState(b, "SUCCEEDED")
  /\ preparation[b] \in {"NOT_STARTED", "RETRYABLE"}
  /\ preparation' = [preparation EXCEPT ![b] = "IN_FLIGHT"]
  /\ UNCHANGED <<apiVars, operation, usedKeys, tracker, polls>>

PreparationSettles(b) ==
  /\ preparation[b] = "IN_FLIGHT"
  /\ \E s \in {"SUCCEEDED", "RETRYABLE", "REJECTED"} :
       preparation' = [preparation EXCEPT ![b] = s]
  /\ UNCHANGED <<apiVars, operation, usedKeys, tracker, polls>>

\* A confirmation Stripe accepts starts the tracker, and is accepted once.
ConfirmPayment(b) ==
  /\ preparation[b] = "SUCCEEDED"
  /\ tracker[b].state = "NOT_STARTED"
  /\ tracker' = [tracker EXCEPT ![b].state = "POLLING"]
  /\ UNCHANGED <<apiVars, operation, usedKeys, preparation, polls>>

(***************************************************************************)
(* OrderJourneyTracker.                                                    *)
(***************************************************************************)

\* The loop awaits one answer before it asks again.
MayPoll(b) == polls[b] = {}

\* The top of the loop: getOrder reads the item consistently, and its
\* answer takes its time.
Poll(b) ==
  /\ tracker[b].state = "POLLING" /\ ~tracker[b].aborted
  /\ tracker[b].attemptCount < MaxPolls
  /\ MayPoll(b)
  /\ tracker' = [tracker EXCEPT ![b].attemptCount = @ + 1]
  /\ LET item == items[operation[b].order]
     IN polls' = [polls EXCEPT ![b] = @ \cup {[stage |-> item.stage, version |-> item.version]}]
  /\ UNCHANGED <<apiVars, operation, usedKeys, preparation>>

TrackingState(b, stage) ==
  CASE stage = "delivered" -> "DELIVERED"
    [] stage = "attention" -> "ATTENTION_REQUIRED"
    [] OTHER -> IF tracker[b].attemptCount = MaxPolls THEN "TIMED_OUT" ELSE "POLLING"

\* Faulty variant: an answer counts although the page has stopped asking.
HearsAlways(b) == TRUE

\* After each await the loop looks whether it was stopped.
Hears(b) == ~tracker[b].aborted

PollAnswered(b) ==
  \E p \in polls[b] :
    /\ polls' = [polls EXCEPT ![b] = @ \ {p}]
    /\ tracker' =
         IF Hears(b)
         THEN [tracker EXCEPT ![b] =
                [ state |-> TrackingState(b, p.stage), aborted |-> FALSE,
                  attemptCount |-> tracker[b].attemptCount, order |-> p ]]
         ELSE [tracker EXCEPT ![b].state = "STOPPED"]
    /\ UNCHANGED <<apiVars, operation, usedKeys, preparation>>

\* A poll that fails for now leaves the last known order; a definite
\* rejection ends the tracking.
PollFails(b) ==
  \E p \in polls[b], s \in {TrackingState(b, "underway"), "REJECTED"} :
    /\ polls' = [polls EXCEPT ![b] = @ \ {p}]
    /\ tracker' = [tracker EXCEPT ![b].state = IF Hears(b) THEN s ELSE "STOPPED"]
    /\ UNCHANGED <<apiVars, operation, usedKeys, preparation>>

\* stop: the page goes away; the loop finds out when it next looks.
StopTracking(b) ==
  /\ tracker[b].state # "NOT_STARTED" /\ ~tracker[b].aborted
  /\ tracker' = [tracker EXCEPT ![b].aborted = TRUE]
  /\ UNCHANGED <<apiVars, operation, usedKeys, preparation, polls>>

TrackingStops(b) ==
  /\ tracker[b].state = "POLLING" /\ tracker[b].aborted /\ polls[b] = {}
  /\ tracker' = [tracker EXCEPT ![b].state = "STOPPED"]
  /\ UNCHANGED <<apiVars, operation, usedKeys, preparation, polls>>

BrowserStep(b) ==
  \/ Submit(b) \/ Retry(b) \/ ReceiveAnswer(b) \/ LoseConnection(b) \/ Reset(b)
  \/ PreparePayment(b) \/ PreparationSettles(b) \/ ConfirmPayment(b)
  \/ Poll(b) \/ PollAnswered(b) \/ PollFails(b) \/ StopTracking(b) \/ TrackingStops(b)

(***************************************************************************)
(* Other systems, and calls whose caller is gone.                          *)
(***************************************************************************)
OtherSystemCalls(c) ==
  /\ \E k \in OtherKeys, r \in Request : Send(c, k, r)
  /\ UNCHANGED <<itemVars, browserVars>>

Unattended(c) == \A b \in Browsers : operation[b] # Undefined => operation[b].over # c

AnswerDropped(c) ==
  /\ call[c].at = "answered" /\ Unattended(c)
  /\ call' = [call EXCEPT ![c] = NoCall]
  /\ UNCHANGED <<itemVars, browserVars>>

JourneyInit == ApiInit /\ BrowserInit

JourneyNext ==
  \/ ApiStep /\ UNCHANGED browserVars
  \/ \E o \in OrderIds : OrderMovesOn(o) /\ UNCHANGED browserVars
  \/ \E b \in Browsers : BrowserStep(b)
  \/ \E c \in Calls : OtherSystemCalls(c) \/ AnswerDropped(c)

JourneySpec == JourneyInit /\ [][JourneyNext]_journeyVars

(***************************************************************************)
(* Properties.                                                             *)
(***************************************************************************)
Tracking ==
  [ state : {"NOT_STARTED", "POLLING", "DELIVERED", "ATTENTION_REQUIRED", "TIMED_OUT",
             "STOPPED", "REJECTED"},
    aborted : BOOLEAN,
    attemptCount : 0..MaxPolls,
    order : TrackedOrder \cup {Undefined} ]

\* Items, frames, operations and trackers hold values of their types.
JourneyTypeOK ==
  /\ ApiTypeOK
  /\ operation \in [Browsers -> Operation \cup {Undefined}]
  /\ usedKeys \subseteq Keys
  /\ preparation \in
       [Browsers -> {"NOT_STARTED", "IN_FLIGHT", "RETRYABLE", "SUCCEEDED", "REJECTED"}]
  /\ tracker \in [Browsers -> Tracking]
  /\ polls \in [Browsers -> SUBSET TrackedOrder]

\* BR-003 from the page: the key of a submission never stands for another
\* request; a submission that succeeded shows the one order of its key; and
\* one rejected at its first attempt has no order and will have none.
SubmissionMakesOneOrder ==
  \A b \in Browsers :
    operation[b] # Undefined =>
      LET op == operation[b]
      IN /\ keyItems[op.key] # Undefined => keyItems[op.key].fingerprint = op.request
         /\ op.state = "SUCCEEDED" =>
              keyItems[op.key] # Undefined /\ keyItems[op.key].orderId = op.order
         /\ op.state = "REJECTED" /\ op.attemptCount = 1 => keyItems[op.key] = Undefined

\* What the page shows of the order it tracks is that order, never an older
\* state after a newer one, however slow the answers are; it changes while
\* the loop polls only, and never once the page asked it to stop.
TrackedNeverGoesBack ==
  [][ \A b \in Browsers :
        tracker'[b].order # tracker[b].order =>
          /\ tracker[b].state = "POLLING" /\ ~tracker[b].aborted
          /\ tracker[b].order # Undefined => tracker'[b].order.version >= tracker[b].order.version
    ]_tracker

\* create-order-submission.ts, reset: an ambiguous operation cannot be
\* replaced with a new key.  So an operation that may be replaced, a
\* rejected one, has no order behind it.
RejectedLeavesNoOrder ==
  \A b \in Browsers : InState(b, "REJECTED") => keyItems[operation[b].key] = Undefined
==============================================================================
