------------------------ MODULE ReconciliationCampaign ------------------------
(***************************************************************************)
(* npm run stripe:reconcile, the operator's way back from an outage of the *)
(* webhook: "preview" looks at a bounded number of Stripe's events, leaves *)
(* out those whose PaymentIntent no longer belongs to the order the event  *)
(* names, and writes the rest to a manifest; "execute" validates the whole *)
(* manifest, then validates each entry again and processes it as the       *)
(* webhook would have.  Webhooks and requests go on meanwhile, intents     *)
(* change hands at Stripe, events expire there, and the command may die.   *)
(*                                                                         *)
(* Left out: the envelope checks that a test account's own events pass     *)
(* (account, live mode, type, namespace, fingerprint) and the manifest's   *)
(* digest, mode and fields, by which an edited file is refused unread.     *)
(***************************************************************************)
EXTENDS PaymentFlow, Sequences

CONSTANTS
  Campaigner,         \* the invocation as which the command processes events
  CampaignLimit,      \* --limit
  MaxReassignments,   \* bound on changes of the metadata of intents
  MaxExecutions       \* bound on executions of the manifest

ASSUME CampaignConstants ==
  /\ Campaigner \in Invocations \ (PrepareInvocations \cup StripeWebhookInvocations)
  /\ CampaignLimit \in 1..100
  /\ MaxReassignments \in Nat
  /\ MaxExecutions \in Nat

VARIABLES
  eventLog,       \* Stripe: its events in creation order, with the metadata they carry
  reassignments,  \* how often metadata were changed
  manifest,       \* the campaign's file: the reviewed entries
  campaign,       \* what the command is doing
  executions      \* how often the manifest was executed

stripeSideVars == <<eventLog, reassignments>>
campaignVars   == <<stripeSideVars, manifest, campaign, executions>>

Outcomes == {"applied", "ignored", "reconciliation_required", "failed"}

\* "todo" is what the present pass has not come to, "kept" what a preview
\* includes, "outcomes" what an execution has to say of the entries it did.
NoCampaign == [at |-> "idle", todo |-> <<>>, kept |-> <<>>, outcomes |-> <<>>]

Current == Head(campaign.todo)

(***************************************************************************)
(* Stripe.                                                                 *)
(***************************************************************************)

\* An event, once sent, keeps the metadata its intent had.
PublishSent ==
  LET new == { e \in StripeEventIds : emitted[e] = Undefined /\ emitted'[e] # Undefined }
  IN eventLog' =
       IF new = {} THEN eventLog
       ELSE LET e == CHOOSE x \in new : TRUE
                i == emitted'[e].intentId
            IN Append(eventLog, [eventId |-> e, intentId |-> i, orderId |-> intents'[i].orderId])

\* Somebody edits an intent's metadata in the Dashboard.
Reassign(i, o) ==
  /\ reassignments < MaxReassignments
  /\ intents[i] # Undefined
  /\ intents[i].orderId # o
  /\ intents' = [intents EXCEPT ![i].orderId = o]
  /\ reassignments' = reassignments + 1
  /\ UNCHANGED <<baseVars, creationKeys, emitted, secretReleased, eventLog, manifest,
                 campaign, executions>>

\* Stripe keeps events for 30 days.
Expire ==
  /\ eventLog # <<>>
  /\ eventLog' = Tail(eventLog)
  /\ UNCHANGED <<baseVars, paymentVars, reassignments, manifest, campaign, executions>>

Retrievable(entry) == \E k \in 1..Len(eventLog) : eventLog[k] = entry

\* The intent still names the order the event, or the reviewed entry, names.
Owned(entry) == intents[entry.intentId].orderId = entry.orderId

(***************************************************************************)
(* preview                                                                 *)
(***************************************************************************)
NewestFirst(events) ==
  IF Len(events) <= CampaignLimit THEN events
  ELSE SubSeq(events, Len(events) - CampaignLimit + 1, Len(events))

StartPreview(events) ==
  /\ campaign = NoCampaign
  /\ manifest = Undefined
  /\ campaign' = [NoCampaign EXCEPT !.at = "reviewing", !.todo = events]
  /\ UNCHANGED <<baseVars, paymentVars, stripeSideVars, manifest, executions>>

\* Stripe lists the newest events of the range first and says whether there
\* are more; the command takes one page and puts it in creation order.
PreviewTimeRange(first, last) ==
  StartPreview(NewestFirst(SubSeq(eventLog, first, last)))

\* Of the events asked for, Stripe still has n, at these places of its log.
PreviewEventIds(n, place) ==
  /\ n <= CampaignLimit
  /\ \A j, k \in 1..n : j < k => place[j] < place[k]
  /\ StartPreview([k \in 1..n |-> eventLog[place[k]]])

ReviewEvent ==
  /\ campaign.at = "reviewing"
  /\ campaign.todo # <<>>
  /\ campaign' = [campaign EXCEPT
       !.kept = IF Owned(Current) THEN Append(@, Current) ELSE @,
       !.todo = Tail(@)]
  /\ UNCHANGED <<baseVars, paymentVars, stripeSideVars, manifest, executions>>

WriteManifest ==
  /\ campaign.at = "reviewing"
  /\ campaign.todo = <<>>
  /\ manifest' = campaign.kept
  /\ campaign' = NoCampaign
  /\ UNCHANGED <<baseVars, paymentVars, stripeSideVars, executions>>

(***************************************************************************)
(* execute                                                                 *)
(***************************************************************************)
StartExecution ==
  /\ campaign.at \in {"idle", "ended"}
  /\ manifest \notin {Undefined, <<>>}
  /\ executions < MaxExecutions
  /\ executions' = executions + 1
  /\ campaign' = [NoCampaign EXCEPT !.at = "preflight", !.todo = manifest]
  /\ UNCHANGED <<baseVars, paymentVars, stripeSideVars, manifest>>

\* REVIEW_MISMATCH: the command fails, whatever is left is not processed.
Refused == [campaign EXCEPT !.at = "ended", !.outcomes = Append(@, "refused"), !.todo = <<>>]

AsReviewed(entry) == Retrievable(entry) /\ Owned(entry)

\* validateCampaign over the whole manifest.
Preflight ==
  /\ campaign.at = "preflight"
  /\ campaign' =
       IF ~AsReviewed(Current) THEN Refused
       ELSE IF Len(campaign.todo) = 1 THEN [campaign EXCEPT !.at = "validate", !.todo = manifest]
       ELSE [campaign EXCEPT !.todo = Tail(@)]
  /\ UNCHANGED <<baseVars, paymentVars, stripeSideVars, manifest, executions>>

\* validateEntryImmediatelyBeforeMutation
ValidateEntry ==
  /\ campaign.at = "validate"
  /\ campaign' = IF AsReviewed(Current) THEN [campaign EXCEPT !.at = "process"] ELSE Refused
  /\ UNCHANGED <<baseVars, paymentVars, stripeSideVars, manifest, executions>>

\* The outcome is noted and the next entry's turn comes.
Noted(outcome) ==
  [campaign EXCEPT !.outcomes = Append(@, outcome), !.todo = Tail(@),
                   !.at = IF Len(campaign.todo) = 1 THEN "ended" ELSE "validate"]

\* Faulty variant: an entry whose processing failed is passed over in silence.
EntryFailsSilently ==
  /\ campaign.at \in {"validate", "process"}
  /\ campaign' = [campaign EXCEPT !.todo = Tail(@),
                    !.at = IF Len(campaign.todo) = 1 THEN "ended" ELSE "validate"]
  /\ UNCHANGED <<baseVars, paymentVars, stripeSideVars, manifest, executions>>

\* Stripe does not answer: the entry failed, the campaign goes on.
EntryFails ==
  /\ campaign.at \in {"validate", "process"}
  /\ campaign' = Noted("failed")
  /\ UNCHANGED <<baseVars, paymentVars, stripeSideVars, manifest, executions>>

\* Faulty variant: processing retrieves with the plain client.
ReviewedRetrievalPlain ==
  /\ campaign.at = "process"
  /\ StripeWebhookRetrieve(Campaigner, Current.eventId)
  /\ campaign' = [campaign EXCEPT !.at = "processing"]
  /\ UNCHANGED <<stripeSideVars, manifest, executions>>

\* reviewedPaymentClient.retrievePaymentIntent
ReviewedRetrieval ==
  /\ campaign.at = "process"
  /\ \/ /\ Owned(Current)
        /\ StripeWebhookRetrieve(Campaigner, Current.eventId)
        /\ campaign' = [campaign EXCEPT !.at = "processing"]
     \/ /\ ~Owned(Current)
        /\ campaign' = Refused
        /\ UNCHANGED <<baseVars, paymentVars>>
  /\ UNCHANGED <<stripeSideVars, manifest, executions>>

\* What processStripeWebhook returned, in the command's words; "failed" when
\* it threw.  A duplicate is ignored, unless it was to be reconciled.
ReportOf(verdict) ==
  CASE verdict = "APPLIED" -> "applied"
    [] verdict = "IGNORED" -> "ignored"
    [] OTHER -> "reconciliation_required"

EntryOutcome ==
  LET verdict == input[Campaigner].verdict
  IN CASE pc[Campaigner] = "recordStripe" -> ReportOf(verdict)
       [] pc[Campaigner] = "resolveStripe" /\ stripeEvents[Current.eventId] # Undefined ->
            IF verdict = "RECONCILIATION_REQUIRED" THEN ReportOf(verdict) ELSE "ignored"
       [] OTHER -> "failed"

ProcessEntry ==
  /\ campaign.at = "processing"
  /\ StripeWebhookStep(Campaigner)
  /\ campaign' = IF pc'[Campaigner] = "idle" THEN Noted(EntryOutcome) ELSE campaign
  /\ UNCHANGED <<stripeSideVars, manifest, executions>>

\* The command is interrupted, or fails before the first entry; the manifest
\* stays.
CampaignDies ==
  /\ campaign.at \notin {"idle", "ended"}
  /\ campaign' = NoCampaign
  /\ IF pc[Campaigner] = "idle"
     THEN crashes < MaxCrashes /\ crashes' = crashes + 1 /\ UNCHANGED <<tableVars, clock, frameVars>>
     ELSE Crash(Campaigner)
  /\ UNCHANGED <<paymentVars, stripeSideVars, manifest, executions>>

(***************************************************************************)
(* Specification.                                                          *)
(***************************************************************************)
\* The order with its own new intent bound to it.
Bound(i) ==
  LET change == SnapshotChange(i, NewIntent(Undefined, TRUE, TRUE, TRUE), 0)
  IN WithPayment(NewOrder(0), PaymentChanged(NewOrder(0).payment, change, 0), 0)

CommandInit ==
  /\ eventLog = <<>>
  /\ reassignments = 0
  /\ manifest = Undefined
  /\ campaign = NoCampaign
  /\ executions = 0

\* An order with a payment intent, which the order carries and the mapping
\* finds, unless the request that created the intent died before it bound it.
CampaignInit ==
  /\ \E o \in OrderIds, i \in IntentIds, bound \in BOOLEAN :
       /\ orders = [[x \in OrderIds |-> Undefined] EXCEPT
            ![o] = IF bound THEN Bound(i) ELSE NewOrder(0)]
       /\ intentMapping = [[x \in IntentIds |-> Undefined] EXCEPT
            ![i] = IF bound THEN o ELSE Undefined]
       /\ intents = [[x \in IntentIds |-> Undefined] EXCEPT
            ![i] = NewIntent(o, TRUE, TRUE, TRUE)]
       /\ creationKeys = [[x \in OrderIds |-> Undefined] EXCEPT ![o] = i]
       /\ secretReleased = IF bound THEN {i} ELSE {}
  /\ providerMapping = [p \in ProviderIds |-> Undefined]
  /\ stripeEvents = [e \in StripeEventIds |-> Undefined]
  /\ providerEvents = [e \in ProviderEventIds |-> Undefined]
  /\ emitted = [e \in StripeEventIds |-> Undefined]
  /\ FramesInit
  /\ clock = 0
  /\ crashes = 0
  /\ CommandInit

ServiceGoesOn ==
  /\ PaymentStep
  /\ PublishSent
  /\ UNCHANGED <<reassignments, manifest, campaign, executions>>

CampaignStep ==
  \/ \E first, last \in 1..Len(eventLog) : first <= last /\ PreviewTimeRange(first, last)
  \/ \E n \in 0..Len(eventLog) : \E place \in [1..n -> 1..Len(eventLog)] : PreviewEventIds(n, place)
  \/ ReviewEvent
  \/ WriteManifest
  \/ StartExecution
  \/ Preflight
  \/ ValidateEntry
  \/ EntryFails
  \/ ReviewedRetrieval
  \/ ProcessEntry
  \/ CampaignDies

\* The other invocations' crashes are PaymentFlow's concern.
CampaignNext ==
  \/ ServiceGoesOn
  \/ \E i \in IntentIds, o \in OrderIds : Reassign(i, o)
  \/ Expire
  \/ CampaignStep

allCampaignVars == <<allPaymentVars, campaignVars>>

CampaignSpec == CampaignInit /\ [][CampaignNext]_allCampaignVars

(***************************************************************************)
(* Properties.                                                             *)
(***************************************************************************)

\* What the operator approved is all that happens: the command changes no
\* order but the reviewed entry's, and that once, records no event but the
\* entry's, and maps no intent but the entry's, however metadata changed
\* since the approval and however often the campaign is executed.
CampaignKeepsToReview ==
  [][ pc[Campaigner] # "idle" /\ pc'[Campaigner] # pc[Campaigner] =>
        /\ \A o \in OrderIds : orders'[o] # orders[o] =>
             o = Current.orderId /\ stripeEvents[Current.eventId] = Undefined
        /\ \A e \in StripeEventIds : stripeEvents'[e] # stripeEvents[e] => e = Current.eventId
        /\ \A i \in IntentIds : intentMapping'[i] # intentMapping[i] =>
             i = Current.intentId /\ intentMapping'[i] = Current.orderId
    ]_<<orders, stripeEvents, intentMapping, pc>>

\* The command exits with success.
Successful ==
  /\ campaign.at = "ended"
  /\ \A k \in 1..Len(campaign.outcomes) : campaign.outcomes[k] \in {"applied", "ignored"}

\* An event that announced a decided payment and was not put aside for
\* reconciliation has moved the order that its intent is bound to.
Settled(entry) ==
  LET o == intentMapping[entry.intentId]
  IN /\ stripeEvents[entry.eventId] # Undefined
     /\ ( /\ stripeEvents[entry.eventId] # "RECONCILIATION_REQUIRED"
          /\ emitted[entry.eventId].status \in TerminalPaymentStatus )
        => o # Undefined /\ orders[o].status # "AWAITING_PAYMENT"

\* After a success the outage is over: every event of the manifest is
\* recorded, and no order waits for a payment that was announced as decided,
\* unless a webhook found the event to need reconciliation.  What the command
\* itself applied, it applied to the reviewed order; an event that a webhook
\* recorded first may have moved the order the intent meanwhile named.
SuccessMeansSettled ==
  Successful =>
    \A k \in 1..Len(manifest) :
      /\ Settled(manifest[k])
      /\ campaign.outcomes[k] = "applied" =>
           intentMapping[manifest[k].intentId] = manifest[k].orderId

\* stripe-payment-extension.md, reconciliation command contract: any
\* reconciliation-required event makes the command exit non-zero.
ReconciliationRequiredFails ==
  Successful => \A k \in 1..Len(manifest) :
    stripeEvents[manifest[k].eventId] # "RECONCILIATION_REQUIRED"

\* Everything an execution reports, it reports of the manifest in its order;
\* a manifest that is not as reviewed is refused.
CampaignTypeOK ==
  /\ PaymentTypeOK
  /\ reassignments \in 0..MaxReassignments
  /\ executions \in 0..MaxExecutions
  /\ campaign.at \in
       {"idle", "reviewing", "preflight", "validate", "process", "processing", "ended"}
  /\ campaign.outcomes \in Seq(Outcomes \cup {"refused"})
  /\ campaign.at = "ended" => Len(campaign.outcomes) \in 1..Len(manifest)
==============================================================================
