------------------------------- MODULE MockVendor -------------------------------
(***************************************************************************)
(* The mock delivery vendor: POST /deliveries accepts a submission once    *)
(* per idempotency key, whatever its scenario does to the answer, and then *)
(* calls the platform's webhook, first for the pickup, then for the        *)
(* delivery, each with a bounded number of attempts.                       *)
(*                                                                         *)
(* Of the platform only what the vendor can tell is here: it answers 404   *)
(* until the worker has saved the acceptance, and 2xx from then on, to the *)
(* first and to later copies of an event (DeliveryFlow has the handler).   *)
(***************************************************************************)
EXTENDS Identifiers, Naturals, Sequences

CONSTANTS
  DeliveryKeys,            \* idempotency keys the workers send
  Parcels,                 \* contents of submissions
  Submissions,             \* requests to the vendor
  Scenarios,               \* scenarios in use
  WebhookMaximumAttempts,  \* attempts per event
  MaxDisturbances          \* bound on lost, late and refused callbacks

ASSUME VendorConstants ==
  /\ Scenarios \subseteq {"success", "rate-limit", "server-error", "request-rejected",
                          "timeout", "malformed-response"}
  /\ WebhookMaximumAttempts \in Nat \ {0}
  /\ MaxDisturbances \in Nat
  /\ Undefined \notin Parcels \cup {"DELIVERY_PICKED_UP", "DELIVERY_DELIVERED"}

VARIABLES
  submissions,   \* what the vendor does with each request
  accepted,      \* acceptedSubmissions: the content first accepted under each key
  scheduled,     \* scheduledWebhookSubmissions
  journeys,      \* the webhook journeys, in the order they were scheduled
  callbacks,     \* callbacks on their way to the platform
  shuttingDown,
  known,         \* platform: deliveries whose acceptance is saved
  progress,      \* platform: the last event applied to each delivery
  disturbances

vendorVars == <<submissions, accepted, scheduled, journeys, callbacks, shuttingDown,
                known, progress, disturbances>>

NextEvent == [DELIVERY_PICKED_UP |-> "DELIVERY_DELIVERED"]
Events == {"DELIVERY_PICKED_UP", "DELIVERY_DELIVERED"}

\* Scenarios that answer 429, 500 and 422 before they look at the request.
Turning == {"rate-limit", "server-error", "request-rejected"}

VendorInit ==
  /\ submissions = [r \in Submissions |-> Undefined]
  /\ accepted = [k \in DeliveryKeys |-> Undefined]
  /\ scheduled = {}
  /\ journeys = <<>>
  /\ callbacks = {}
  /\ shuttingDown = FALSE
  /\ known = {}
  /\ progress = [k \in DeliveryKeys |-> Undefined]
  /\ disturbances = 0

Disturb == disturbances < MaxDisturbances /\ disturbances' = disturbances + 1

(***************************************************************************)
(* Submissions.                                                            *)
(***************************************************************************)
Remember(r, key, parcel, answer) ==
  submissions' = [submissions EXCEPT ![r] = [key |-> key, parcel |-> parcel, answer |-> answer]]

\* scheduleWebhookJourneyOnce
ScheduleOnce(key) ==
  IF key \in scheduled THEN UNCHANGED <<scheduled, journeys>>
  ELSE /\ scheduled' = scheduled \cup {key}
       /\ journeys' = Append(journeys, [key |-> key, event |-> "DELIVERY_PICKED_UP",
                                        attempt |-> 1, at |-> "waiting"])

SameSubmission(key, parcel) == accepted[key] \in {Undefined, parcel}

Turn(r, key, parcel, scenario) ==
  /\ scenario \in Turning
  /\ Remember(r, key, parcel, scenario)
  /\ UNCHANGED <<accepted, scheduled, journeys>>

Conflict(r, key, parcel, scenario) ==
  /\ scenario \notin Turning
  /\ ~SameSubmission(key, parcel)
  /\ Remember(r, key, parcel, "conflict")
  /\ UNCHANGED <<accepted, scheduled, journeys>>

\* A malformed answer is cut off in the middle; a timed-out one comes later.
Accept(r, key, parcel, scenario) ==
  /\ scenario \notin Turning
  /\ SameSubmission(key, parcel)
  /\ accepted' = IF accepted[key] = Undefined THEN [accepted EXCEPT ![key] = parcel] ELSE accepted
  /\ CASE scenario = "timeout" ->
            Remember(r, key, parcel, "waiting") /\ UNCHANGED <<scheduled, journeys>>
       [] scenario = "malformed-response" ->
            Remember(r, key, parcel, "malformed") /\ ScheduleOnce(key)
       [] OTHER -> Remember(r, key, parcel, "created") /\ ScheduleOnce(key)

SubmitDelivery(r, key, parcel, scenario) ==
  /\ submissions[r] = Undefined
  /\ ~shuttingDown
  /\ \/ Turn(r, key, parcel, scenario)
     \/ Conflict(r, key, parcel, scenario)
     \/ Accept(r, key, parcel, scenario)
  /\ UNCHANGED <<callbacks, shuttingDown, known, progress, disturbances>>

\* The delay of the timeout scenario is over; closing does not cut it short.
AnswerLate(r) ==
  /\ submissions[r] # Undefined
  /\ submissions[r].answer = "waiting"
  /\ submissions' = [submissions EXCEPT ![r].answer = "created"]
  /\ ScheduleOnce(submissions[r].key)
  /\ UNCHANGED <<accepted, callbacks, shuttingDown, known, progress, disturbances>>

(***************************************************************************)
(* Journeys: scheduleWebhookJourney and deliverWebhook.                    *)
(***************************************************************************)
Become(n, change) == journeys' = [journeys EXCEPT ![n] = change]

Callback(n) ==
  [journey |-> n, event |-> journeys[n].event, attempt |-> journeys[n].attempt]

\* Each delay is over; a vendor that closes sends nothing more.
SendCallback(n) ==
  /\ journeys[n].at = "waiting"
  /\ IF shuttingDown
     THEN Become(n, [journeys[n] EXCEPT !.at = "stopped"]) /\ UNCHANGED callbacks
     ELSE /\ Become(n, [journeys[n] EXCEPT !.at = "sent"])
          /\ callbacks' = callbacks \cup {Callback(n)}
  /\ UNCHANGED <<submissions, accepted, scheduled, shuttingDown, known, progress, disturbances>>

\* Faulty variant: an unknown delivery is taken for a final refusal.
RetryableKnownOnly(status) == status >= 429

Retryable(status) == status = 404 \/ status = 429 \/ status >= 500

\* Faulty variant: the delivery is announced whatever became of the pickup.
GiveUpOnEvent(journey) ==
  IF journey.event = "DELIVERY_PICKED_UP"
  THEN [journey EXCEPT !.event = NextEvent[@], !.attempt = 1, !.at = "waiting"]
  ELSE [journey EXCEPT !.at = "exhausted"]

GiveUp(journey) == [journey EXCEPT !.at = "exhausted"]

TryAgain(journey) ==
  IF journey.attempt < WebhookMaximumAttempts
  THEN [journey EXCEPT !.attempt = @ + 1, !.at = "waiting"] ELSE GiveUp(journey)

AfterAnswer(journey, status) ==
  IF status \in 200..299
  THEN IF journey.event = "DELIVERY_DELIVERED" \/ shuttingDown
       THEN [journey EXCEPT !.at = "done"]
       ELSE [journey EXCEPT !.event = NextEvent[@], !.attempt = 1, !.at = "waiting"]
  ELSE IF Retryable(status) THEN TryAgain(journey)
  ELSE [journey EXCEPT !.at = "refused"]

Awaits(c) == journeys[c.journey].at = "sent" /\ Callback(c.journey) = c

\* The platform answers; the vendor hears it unless it no longer waits.
PlatformAnswers(c, status) ==
  LET key == journeys[c.journey].key
  IN /\ callbacks' = callbacks \ {c}
     /\ progress' = IF status = 200 THEN [progress EXCEPT ![key] =
                      IF @ = "DELIVERY_DELIVERED" THEN @ ELSE c.event] ELSE progress
     /\ IF Awaits(c) THEN Become(c.journey, AfterAnswer(journeys[c.journey], status))
        ELSE UNCHANGED journeys
     /\ UNCHANGED <<submissions, accepted, scheduled, shuttingDown, known>>

Handle(c) ==
  /\ PlatformAnswers(c, IF journeys[c.journey].key \in known THEN 200 ELSE 404)
  /\ UNCHANGED disturbances

\* Throttled, in trouble, or refused as unauthentic.
HandleBadly(c) == Disturb /\ \E status \in {401, 429, 500} : PlatformAnswers(c, status)

\* No answer in time, or the vendor closes; the callback is lost or late.
LoseAnswer(n) ==
  /\ journeys[n].at = "sent"
  /\ IF shuttingDown THEN UNCHANGED disturbances ELSE Disturb
  /\ Become(n, IF shuttingDown THEN [journeys[n] EXCEPT !.at = "stopped"]
               ELSE TryAgain(journeys[n]))
  /\ callbacks' \in {callbacks, callbacks \ {Callback(n)}}
  /\ UNCHANGED <<submissions, accepted, scheduled, shuttingDown, known, progress>>

\* The worker that got the answer saves the acceptance.
SaveAcceptance(key) ==
  /\ key \notin known
  /\ \E r \in Submissions : /\ submissions[r] # Undefined
                            /\ submissions[r].key = key /\ submissions[r].answer = "created"
  /\ known' = known \cup {key}
  /\ UNCHANGED <<submissions, accepted, scheduled, journeys, callbacks, shuttingDown, progress,
                 disturbances>>

CloseVendor ==
  /\ ~shuttingDown
  /\ shuttingDown' = TRUE
  /\ UNCHANGED <<submissions, accepted, scheduled, journeys, callbacks, known, progress,
                 disturbances>>

VendorNext ==
  \/ \E r \in Submissions :
       \/ \E k \in DeliveryKeys, p \in Parcels, s \in Scenarios : SubmitDelivery(r, k, p, s)
       \/ AnswerLate(r)
  \/ \E n \in DOMAIN journeys : SendCallback(n) \/ LoseAnswer(n)
  \/ \E c \in callbacks : Handle(c) \/ HandleBadly(c)
  \/ \E k \in DeliveryKeys : SaveAcceptance(k)
  \/ CloseVendor

VendorSpec == VendorInit /\ [][VendorNext]_vendorVars

(***************************************************************************)
(* Properties.                                                             *)
(***************************************************************************)

\* Each variable has its shape, and a journey belongs to an accepted
\* submission and is the only one of its key.
VendorTypeOK ==
  /\ \A r \in Submissions : submissions[r] # Undefined =>
       submissions[r].answer \in Turning \cup {"created", "conflict", "waiting", "malformed"}
  /\ accepted \in [DeliveryKeys -> Parcels \cup {Undefined}]
  /\ \A n \in DOMAIN journeys :
       /\ journeys[n].event \in Events
       /\ journeys[n].attempt \in 1..WebhookMaximumAttempts
       /\ journeys[n].at \in {"waiting", "sent", "done", "exhausted", "refused", "stopped"}
       /\ accepted[journeys[n].key] # Undefined
  /\ \A m, n \in DOMAIN journeys : journeys[m].key = journeys[n].key => m = n
  /\ \A c \in callbacks : c.journey \in DOMAIN journeys

\* The platform never hears of a delivery before it has taken note of its
\* pickup, whatever callbacks were lost, late or answered with an error.
EventsArriveInOrder ==
  [][\A k \in DeliveryKeys :
       progress'[k] = "DELIVERY_DELIVERED" => progress[k] # Undefined]_vendorVars

\* A callback that came before the acceptance was saved is sent again: a
\* journey ends early only after all attempts of one event, by a refusal that
\* is not about an unknown delivery, or with the vendor.
GivesUpOnlyAfterTrying ==
  \A n \in DOMAIN journeys :
    /\ journeys[n].at = "exhausted" => journeys[n].attempt = WebhookMaximumAttempts
    /\ journeys[n].at = "refused" => disturbances > 0
    /\ journeys[n].at = "stopped" => shuttingDown
=============================================================================
