---------------------------- MODULE CampaignProofs ----------------------------
(***************************************************************************)
(* ReconciliationCampaign, for any number of orders, intents and events,   *)
(* any limit, and however often metadata change, the command dies or the   *)
(* manifest is executed: the command stays within what was reviewed, and   *)
(* its success means that what the manifest holds is settled.              *)
(*                                                                         *)
(* The invariant joins that of the payment flow, none of which rests on    *)
(* the metadata of intents, with what the command knows: its sequences     *)
(* hold events that Stripe sent, its reports are true of the entries they  *)
(* are about, and while it processes an entry it holds that entry's event, *)
(* with a snapshot that names the reviewed order.                          *)
(***************************************************************************)
EXTENDS ReconciliationCampaign, PaymentFlowProofs, SequenceTheorems

Phases == {"idle", "reviewing", "preflight", "validate", "process", "processing", "ended"}

\* While an execution goes through the entries.
Working == {"validate", "process", "processing"}

\* What log, manifest and passes are made of: events that were sent, each
\* with the intent it is about and the order that the intent named.
Entries ==
  { entry \in [eventId : StripeEventIds, intentId : IntentIds, orderId : OrderIds] :
      /\ emitted[entry.eventId] # Undefined
      /\ emitted[entry.eventId].intentId = entry.intentId }

CampaignsOver(E) ==
  [ at : Phases, todo : Seq(E), kept : Seq(E), outcomes : Seq(Outcomes \cup {"refused"}) ]

CommandTyped ==
  /\ eventLog \in Seq(Entries)
  /\ manifest # Undefined => manifest \in Seq(Entries)
  /\ campaign \in CampaignsOver(Entries)

CountsTyped == reassignments \in 0..MaxReassignments /\ executions \in 0..MaxExecutions

\* What is still to be done is the rest of the manifest.
RestToDo ==
  /\ campaign.todo # <<>>
  /\ Len(campaign.outcomes) + Len(campaign.todo) = Len(manifest)
  /\ \A k \in 1..Len(campaign.todo) : campaign.todo[k] = manifest[Len(campaign.outcomes) + k]

WasRefused == \E k \in 1..Len(campaign.outcomes) : campaign.outcomes[k] = "refused"

\* An execution ends with its last entry or where it refuses one.
Progress ==
  /\ campaign.at \in {"idle", "reviewing"} => campaign.outcomes = <<>>
  /\ campaign.at \in {"preflight", "ended"} \cup Working => manifest \notin {Undefined, <<>>}
  /\ campaign.at = "preflight" => campaign.todo # <<>> /\ campaign.outcomes = <<>>
  /\ campaign.at \in Working => RestToDo
  /\ campaign.at = "ended" =>
       /\ Len(campaign.outcomes) \in 1..Len(manifest)
       /\ Len(campaign.outcomes) = Len(manifest) \/ WasRefused

\* What the command says of an entry is so.
IsTrue(outcome, entry) ==
  /\ outcome \in {"applied", "ignored"} => stripeEvents[entry.eventId] # Undefined
  /\ outcome = "applied" => intentMapping[entry.intentId] = entry.orderId

ReportsTrue == \A k \in 1..Len(campaign.outcomes) : IsTrue(campaign.outcomes[k], manifest[k])

\* The command processes the entry it has come to, as it was reviewed.
Processes(entry) ==
  /\ pc[Campaigner] \in WebhookSteps
  /\ input[Campaigner].eventId = entry.eventId
  /\ input[Campaigner].intentId = entry.intentId
  /\ input[Campaigner].snapshot.orderId = entry.orderId

AtWork == IF campaign.at = "processing" THEN Processes(Current) ELSE pc[Campaigner] = "idle"

TableInv == PaymentInv /\ StatusFollowsPayment /\ DecisionInv

CommandInv == CommandTyped /\ CountsTyped /\ Progress /\ ReportsTrue /\ AtWork

CampaignInv == TableInv /\ CommandInv

(***************************************************************************)
(* The table's side of a step.                                             *)
(***************************************************************************)
TableMovesOn == TableInv' /\ PaymentMove /\ MappingGrows

LEMMA TableFollows ==
  ASSUME TableInv, PaymentInv', StatusFollowsPayment', PaymentMove
  PROVE  TableMovesOn
<1>1. DecisionInv'
  BY MoveKeepsDecisions DEF TableInv
<1>2. MappingGrows
  <2> SUFFICES ASSUME NEW i \in IntentIds, intentMapping[i] # Undefined
               PROVE  intentMapping'[i] = intentMapping[i]
    BY DEF MappingGrows
  <2>1. PICK o \in OrderIds : intentMapping[i] = o
    BY DEF TableInv, PaymentInv, PaymentTypeOK, TableTypeOK, ItemsTypeOK, Optional
  <2>2. orders[o] # Undefined /\ orders[o].payment.stripePaymentIntentId = i
    BY <2>1 DEF TableInv, PaymentInv, IntentLookupAgrees
  <2>3. i # Undefined
    BY UndefinedIsNoValue
  <2>4. orders'[o] # Undefined /\ orders'[o].payment.stripePaymentIntentId = i
    BY <2>2, <2>3, UndefinedIsNoRecord DEF PaymentMove, OrdersMove, ProperNext, CommittedChange
  <2>5. intentMapping'[i] = o
    BY <2>4 DEF PaymentInv, IntentLookupAgrees
  <2> QED  BY <2>1, <2>5
<1> QED  BY <1>1, <1>2 DEF TableInv, TableMovesOn

\* The service goes on as ever.
LEMMA ServiceMovesTable ==
  ASSUME TableInv, PaymentStep
  PROVE  TableMovesOn
<1>1. PaymentInv' /\ StatusFollowsPayment' /\ PaymentMove
  BY PaymentStepKeepsInv, StatusKeepsFollowing, FollowingIsUndecided, PaymentStepHasShape
  DEF TableInv, PaymentNext
<1> QED  BY <1>1, TableFollows

\* The command, or its end, or nothing.
LEMMA OtherStepMovesTable ==
  ASSUME TableInv,
         \/ \E h \in Invocations : Crash(h) /\ UNCHANGED paymentVars
         \/ UNCHANGED allPaymentVars
  PROVE  TableMovesOn
<1>1. PaymentInv' /\ StatusFollowsPayment' /\ PaymentMove
  BY PaymentOtherStepKeepsInv, StatusKeepsFollowing, FollowingIsUndecided, PaymentStepHasShape
  DEF TableInv, PaymentNext
<1> QED  BY <1>1, TableFollows

\* The command's own invocation works as the webhook's do.
LEMMA CampaignerMovesTable ==
  ASSUME TableInv,
         \/ StripeWebhookStep(Campaigner)
         \/ \E e \in StripeEventIds : StripeWebhookRetrieve(Campaigner, e)
  PROVE  TableMovesOn
<1>0. Campaigner \in Invocations
  BY CampaignConstants
<1>1. CASE StripeWebhookRecord(Campaigner)
  <2>1. PaymentInv' /\ PaymentMove
    BY <1>0, <1>1, StripeWebhookRecordKeepsInv, StripeWebhookRecordHasShape DEF TableInv
  <2>2. StatusFollowsPayment'
    BY <1>0, <1>1, StripeWebhookRecordCommits, CommitFollowsPayment DEF TableInv, StatusFollowsPayment
  <2> QED  BY <2>1, <2>2, TableFollows
<1>2. CASE ~StripeWebhookRecord(Campaigner)
  <2>1. orders' = orders
    BY <1>2 DEF StripeWebhookStep, StripeWebhookLookup, StripeWebhookLoad,
                StripeWebhookRecordCancelled, StripeWebhookResolve, StripeWebhookRetrieve, tableVars
  <2>2. StatusFollowsPayment'
    BY <2>1 DEF TableInv, StatusFollowsPayment
  <2>3. PaymentInv'
    BY <1>0, <1>2, StripeWebhookRetrieveKeepsInv, StripeWebhookLookupKeepsInv,
       StripeWebhookLoadKeepsInv, StripeWebhookRecordCancelledKeepsInv,
       StripeWebhookResolveKeepsInv DEF StripeWebhookStep, TableInv
  <2>4. PaymentMove
    BY <1>0, <1>2, StripeWebhookRetrieveHasShape, StripeWebhookLookupHasShape,
       FollowingIsUndecided, StripeWebhookLoadHasShape, StripeWebhookRecordCancelledHasShape,
       StripeWebhookResolveHasShape DEF StripeWebhookStep, TableInv
  <2> QED  BY <2>2, <2>3, <2>4, TableFollows
<1> QED  BY <1>1, <1>2

\* Metadata are nothing the table's promises rest on.
LEMMA ReassignMovesTable ==
  ASSUME TableInv, NEW i \in IntentIds, NEW o \in OrderIds, Reassign(i, o)
  PROVE  TableMovesOn
<1> DEFINE given == [intents[i] EXCEPT !.orderId = o]
<1>1. /\ intents[i] \in Intent
      /\ intents \in [IntentIds -> Intent \cup {Undefined}]
  BY DEF TableInv, PaymentInv, PaymentTypeOK, StripeTypeOK, Reassign
<1>2. /\ given \in Intent
      /\ given.status = intents[i].status
      /\ given.matches = intents[i].matches
      /\ given.automatic = intents[i].automatic
  BY <1>1 DEF Intent
<1>3. /\ intents' = [intents EXCEPT ![i] = given]
      /\ UNCHANGED <<baseVars, creationKeys, emitted, secretReleased>>
  BY DEF Reassign
<1> HIDE DEF given
<1>4. IntentsEvolve
  BY <1>1, <1>2, <1>3 DEF IntentsEvolve
<1>5. UNCHANGED <<tableVars, clock, crashes, frameVars, creationKeys, emitted, secretReleased>>
  BY <1>3 DEF baseVars
<1>6. PaymentTypeOK'
  <2>1. TableTypeOK' /\ WebhookInputsOK'
    BY <1>5 DEF TableInv, PaymentInv, PaymentTypeOK, TableTypeOK, ItemsTypeOK, FramesTypeOK,
                WebhookInputsOK, tableVars, frameVars
  <2>2. intents' \in [IntentIds -> Intent \cup {Undefined}]
    BY <1>1, <1>2, <1>3
  <2> QED
    BY <1>5, <2>1, <2>2 DEF TableInv, PaymentInv, PaymentTypeOK, StripeTypeOK
<1>7. PaymentFramesOK'
  BY <1>4, <1>5, PaymentFrameStays
  DEF TableInv, PaymentInv, PaymentFramesOK, MappingGrows, tableVars, frameVars
<1>8. EventsShowIntents'
  <2>1. \A j \in IntentIds : intents[j] # Undefined => intents'[j] # Undefined
    BY <1>1, <1>2, <1>3, UndefinedIsNoIntent
  <2> QED
    BY <1>5, <2>1 DEF TableInv, PaymentInv, EventsShowIntents, PaymentTypeOK, StripeTypeOK
<1>9. PaymentInv'
  BY <1>4, <1>5, <1>6, <1>7, <1>8, PaymentQuietStep
  DEF TableInv, ReadsFairly, tableVars, frameVars
<1>10. StatusFollowsPayment'
  BY <1>5 DEF TableInv, StatusFollowsPayment, tableVars
<1>11. PaymentMove
  <2>1. EmissionsGrow
    BY <1>5 DEF EmissionsGrow
  <2>2. StripeMoves
    BY <1>4, <1>5, <2>1, StripeMovesOn DEF TableInv
  <2>3. FramesMove
    BY <1>5, <2>1, DecisionFrameStays DEF TableInv, DecisionInv, FramesMove, frameVars
  <2> QED  BY <1>5, <2>2, <2>3, QuietMove DEF tableVars
<1> QED  BY <1>9, <1>10, <1>11, TableFollows

\* The command dies between two entries.
LEMMA NoticedDeathMovesTable ==
  ASSUME TableInv, crashes' \in Nat, UNCHANGED <<tableVars, clock, frameVars, paymentVars>>
  PROVE  TableMovesOn
<1> USE DEF tableVars, frameVars, paymentVars, stripeVars
<1>1. PaymentTypeOK'
  BY DEF TableInv, PaymentInv, PaymentTypeOK, TableTypeOK, ItemsTypeOK, FramesTypeOK,
         WebhookInputsOK, StripeTypeOK
<1>2. IntentsEvolve /\ EmissionsGrow
  BY DEF IntentsEvolve, EmissionsGrow
<1>3. PaymentFramesOK'
  BY <1>2, PaymentFrameStays DEF TableInv, PaymentInv, PaymentFramesOK, MappingGrows
<1>4. EventsShowIntents'
  BY DEF TableInv, PaymentInv, EventsShowIntents
<1>5. PaymentInv'
  BY <1>1, <1>2, <1>3, <1>4, PaymentQuietStep DEF TableInv, ReadsFairly
<1>6. StatusFollowsPayment'
  BY DEF TableInv, StatusFollowsPayment
<1>7. PaymentMove
  <2>1. StripeMoves
    BY StripeStill DEF TableInv
  <2>2. FramesMove
    BY <1>2, DecisionFrameStays DEF TableInv, DecisionInv, FramesMove
  <2> QED  BY <2>1, <2>2, QuietMove
<1> QED  BY <1>5, <1>6, <1>7, TableFollows

(***************************************************************************)
(* What stays true of sequences and reports.                               *)
(***************************************************************************)
LEMMA EntriesStay ==
  ASSUME PaymentMove
  PROVE  /\ \A entry \in Entries : entry \in Entries'
         /\ \A s \in Seq(Entries) : s \in Seq(Entries')
<1>1. Entries \subseteq Entries'
  BY DEF PaymentMove, StripeMoves, EmissionsGrow, Entries
<1> QED  BY <1>1, SeqMonotonic

LEMMA ReportsStay ==
  ASSUME PaymentMove, MappingGrows, NEW entry \in Entries, NEW outcome, IsTrue(outcome, entry)
  PROVE  IsTrue(outcome, entry)'
<1>1. /\ entry.eventId \in StripeEventIds
      /\ entry.intentId \in IntentIds
      /\ entry.orderId \in OrderIds
  BY DEF Entries
<1>2. stripeEvents[entry.eventId] # Undefined => stripeEvents'[entry.eventId] # Undefined
  BY <1>1 DEF PaymentMove, MarkersMove
<1>3. intentMapping[entry.intentId] = entry.orderId => intentMapping'[entry.intentId] = entry.orderId
  BY <1>1, UndefinedIsNoOrderId DEF MappingGrows
<1> QED  BY <1>2, <1>3 DEF IsTrue

\* The reviewed entry it is the turn of.
LEMMA CurrentIsNext ==
  ASSUME CommandTyped, Progress, campaign.at \in Working
  PROVE  /\ Current \in Entries
         /\ Current = manifest[Len(campaign.outcomes) + 1]
         /\ manifest \in Seq(Entries)
         /\ Len(campaign.outcomes) + 1 \in 1..Len(manifest)
         /\ Len(campaign.todo) \in Nat \ {0}
<1>1. /\ campaign.todo \in Seq(Entries) /\ campaign.todo # <<>>
      /\ campaign.outcomes \in Seq(Outcomes \cup {"refused"})
      /\ manifest \in Seq(Entries)
      /\ RestToDo
  BY DEF CommandTyped, CampaignsOver, Progress, RestToDo, Working
<1>2. /\ Len(campaign.todo) \in Nat \ {0}
      /\ Len(campaign.outcomes) \in Nat
      /\ Current \in Entries
      /\ Current = campaign.todo[1]
  BY <1>1 DEF Current
<1>3. 1 \in 1..Len(campaign.todo)
  BY <1>2
<1>4. campaign.todo[1] = manifest[Len(campaign.outcomes) + 1]
  BY <1>1, <1>3 DEF RestToDo
<1>5. Len(campaign.outcomes) + Len(campaign.todo) = Len(manifest)
  BY <1>1 DEF RestToDo
<1>6. Len(manifest) \in Nat
  BY <1>1, LenProperties
<1>7. ASSUME NEW done \in Nat, NEW left \in Nat \ {0}, NEW all \in Nat, done + left = all
      PROVE  done + 1 \in 1..all
  BY <1>7
<1>8. Len(campaign.outcomes) + 1 \in 1..Len(manifest)
  BY <1>2, <1>5, <1>6, <1>7
<1> QED  BY <1>1, <1>2, <1>4, <1>8

(***************************************************************************)
(* What a step leaves of the command's half of the invariant.              *)
(***************************************************************************)

\* A step of others.
LEMMA CommandStays ==
  ASSUME CampaignInv, TableMovesOn, KeepsMemory(Campaigner), eventLog' \in Seq(Entries'),
         CountsTyped', UNCHANGED <<manifest, campaign>>
  PROVE  CommandInv'
<1> USE DEF CampaignInv, CommandInv, TableMovesOn
<1>1. CommandTyped'
  BY EntriesStay DEF CommandTyped, CampaignsOver
<1>2. Progress'
  BY DEF Progress, RestToDo, WasRefused
<1>3. ReportsTrue'
  <2> SUFFICES ASSUME NEW k \in 1..Len(campaign.outcomes)
               PROVE  IsTrue(campaign.outcomes[k], manifest[k])'
    BY DEF ReportsTrue
  <2>1. k \in 1..Len(manifest) /\ manifest \in Seq(Entries)
    <3>1. CASE campaign.at \in {"idle", "reviewing", "preflight"}
      BY <3>1 DEF Progress
    <3>2. CASE campaign.at \in Working
      BY <3>2, CurrentIsNext
    <3>3. CASE campaign.at = "ended"
      BY <3>3 DEF Progress, CommandTyped, CampaignsOver
    <3> QED  BY <3>1, <3>2, <3>3 DEF CommandTyped, CampaignsOver, Phases, Working
  <2>2. manifest[k] \in Entries
    BY <2>1
  <2>3. IsTrue(campaign.outcomes[k], manifest[k])
    BY DEF ReportsTrue
  <2>4. PICK entry, outcome : entry = manifest[k] /\ outcome = campaign.outcomes[k]
    OBVIOUS
  <2>5. IsTrue(outcome, entry)'
    BY <2>2, <2>3, <2>4, ReportsStay
  <2> QED  BY <2>4, <2>5 DEF IsTrue
<1>4. AtWork'
  BY DEF AtWork, Processes, KeepsMemory, Current
<1> QED  BY <1>1, <1>2, <1>3, <1>4

(***************************************************************************)
(* The kinds of step the command takes.                                    *)
(***************************************************************************)
CampaignTo(step, todo, kept, outcomes) ==
  /\ campaign' \in CampaignsOver(Entries)
  /\ campaign'.at = step
  /\ campaign'.todo = todo
  /\ campaign'.kept = kept
  /\ campaign'.outcomes = outcomes

\* What the command has read of the payment flow's state does not change.
Beside == TableMovesOn /\ pc'[Campaigner] = "idle" /\ UNCHANGED eventLog /\ CountsTyped'

LEMMA TypesGoOn ==
  ASSUME CampaignInv, TableMovesOn, campaign' \in CampaignsOver(Entries), UNCHANGED eventLog,
         manifest' # Undefined => manifest' \in Seq(Entries)
  PROVE  CommandTyped'
<1>1. campaign' \in CampaignsOver(Entries')
  BY EntriesStay DEF TableMovesOn, CampaignsOver
<1> QED  BY <1>1, EntriesStay DEF CampaignInv, CommandInv, TableMovesOn, CommandTyped

\* It has nothing to report yet.
LEMMA StepBeforeEntries ==
  ASSUME CampaignInv, Beside, NEW step \in {"idle", "reviewing", "preflight"}, NEW todo, NEW kept,
         CampaignTo(step, todo, kept, <<>>),
         manifest' # Undefined => manifest' \in Seq(Entries),
         step = "preflight" => todo # <<>> /\ manifest' \notin {Undefined, <<>>}
  PROVE  CampaignInv'
<1> USE DEF Beside, CampaignTo
<1>1. CommandTyped'
  BY TypesGoOn
<1>2. Progress'
  BY DEF Progress, Working
<1>3. ReportsTrue'
  <2>1. Len(campaign'.outcomes) = 0
    BY EmptySeq
  <2> QED  BY <2>1 DEF ReportsTrue
<1>4. AtWork'
  BY DEF AtWork
<1> QED  BY <1>1, <1>2, <1>3, <1>4 DEF CampaignInv, CommandInv, TableMovesOn

\* It goes on with the entry it has come to.
LEMMA StepWithEntry ==
  ASSUME CampaignInv, TableMovesOn, UNCHANGED <<eventLog, manifest>>, CountsTyped',
         campaign.at \in Working, NEW step \in Working,
         CampaignTo(step, campaign.todo, campaign.kept, campaign.outcomes),
         IF step = "processing" THEN Processes(Current)' ELSE pc'[Campaigner] = "idle"
  PROVE  CampaignInv'
<1> USE DEF CampaignTo
<1>0. CommandTyped /\ Progress
  BY DEF CampaignInv, CommandInv
<1>1. CommandTyped'
  BY <1>0, TypesGoOn DEF CommandTyped
<1>2. Progress'
  BY <1>0 DEF Progress, RestToDo, Working
<1>3. ReportsTrue'
  <2> SUFFICES ASSUME NEW k \in 1..Len(campaign.outcomes)
               PROVE  IsTrue(campaign.outcomes[k], manifest[k])'
    BY DEF ReportsTrue, IsTrue
  <2>1. manifest[k] \in Entries
    BY <1>0, CurrentIsNext, ElementOfSeq DEF CommandTyped, CampaignsOver
  <2>2. IsTrue(campaign.outcomes[k], manifest[k])
    BY DEF CampaignInv, CommandInv, ReportsTrue
  <2>3. PICK entry, outcome : entry = manifest[k] /\ outcome = campaign.outcomes[k]
    OBVIOUS
  <2>4. IsTrue(outcome, entry)'
    BY <2>1, <2>2, <2>3, ReportsStay DEF TableMovesOn
  <2> QED  BY <2>3, <2>4 DEF IsTrue
<1>4. AtWork'
  BY DEF AtWork, Working
<1> QED  BY <1>1, <1>2, <1>3, <1>4 DEF CampaignInv, CommandInv, TableMovesOn

\* The manifest has been found to be as it was reviewed.
LEMMA StepToFirstEntry ==
  ASSUME CampaignInv, Beside, UNCHANGED manifest, campaign.at = "preflight",
         CampaignTo("validate", manifest, campaign.kept, <<>>)
  PROVE  CampaignInv'
<1> USE DEF Beside, CampaignTo
<1>1. CommandTyped'
  BY TypesGoOn DEF CampaignInv, CommandInv, CommandTyped
<1>2. manifest \in Seq(Entries) /\ manifest # <<>> /\ manifest # Undefined
  BY DEF CampaignInv, CommandInv, CommandTyped, Progress
<1>3. RestToDo'
  <2>1. Len(campaign'.outcomes) = 0
    BY EmptySeq
  <2>2. Len(manifest) \in Nat
    BY <1>2, LenProperties
  <2> QED  BY <1>2, <2>1, <2>2 DEF RestToDo
<1>4. Progress'
  BY <1>2, <1>3 DEF Progress, Working
<1>5. ReportsTrue'
  <2>1. Len(campaign'.outcomes) = 0
    BY EmptySeq
  <2> QED  BY <2>1 DEF ReportsTrue
<1>6. AtWork'
  BY DEF AtWork
<1> QED  BY <1>1, <1>4, <1>5, <1>6 DEF CampaignInv, CommandInv, TableMovesOn

\* What has been reported is of the manifest's first entries.
LEMMA ReportedEntries ==
  ASSUME CampaignInv, campaign.at \in {"preflight"} \cup Working
  PROVE  /\ campaign.outcomes \in Seq(Outcomes \cup {"refused"})
         /\ Len(campaign.outcomes) \in Nat
         /\ manifest \in Seq(Entries) /\ Len(manifest) \in Nat
         /\ Len(campaign.outcomes) < Len(manifest)
         /\ \A k \in 1..Len(campaign.outcomes) : manifest[k] \in Entries
<1>1. CommandTyped /\ Progress
  BY DEF CampaignInv, CommandInv
<1>2. /\ campaign.outcomes \in Seq(Outcomes \cup {"refused"})
      /\ manifest \in Seq(Entries) /\ manifest # <<>>
  BY <1>1 DEF CommandTyped, CampaignsOver, Progress
<1>3. Len(campaign.outcomes) \in Nat /\ Len(manifest) \in Nat /\ Len(manifest) # 0
  BY <1>2, LenProperties, EmptySeq
<1>4. Len(campaign.outcomes) < Len(manifest)
  <2>1. CASE campaign.at = "preflight"
    <3>1. Len(campaign.outcomes) = 0
      BY <1>1, <2>1, EmptySeq DEF Progress
    <3> QED  BY <1>3, <3>1
  <2>2. CASE campaign.at \in Working
    <3>1. Len(campaign.outcomes) + 1 \in 1..Len(manifest)
      BY <1>1, <2>2, CurrentIsNext
    <3> QED  BY <1>3, <3>1
  <2> QED  BY <2>1, <2>2
<1>5. \A k \in 1..Len(campaign.outcomes) : manifest[k] \in Entries
  BY <1>2, <1>3, <1>4, ElementOfSeq
<1> QED  BY <1>2, <1>3, <1>4, <1>5

\* One more report, of the next entry, joins those there are.
LEMMA OneMoreReport ==
  ASSUME CampaignInv, TableMovesOn, UNCHANGED manifest,
         campaign.at \in {"preflight"} \cup Working,
         NEW entry, entry = manifest[Len(campaign.outcomes) + 1],
         NEW outcome \in Outcomes \cup {"refused"}, IsTrue(outcome, entry)',
         campaign'.outcomes = Append(campaign.outcomes, outcome)
  PROVE  /\ Len(campaign'.outcomes) = Len(campaign.outcomes) + 1
         /\ campaign'.outcomes[Len(campaign'.outcomes)] = outcome
         /\ ReportsTrue'
<1>1. PICK told, n : told = campaign.outcomes /\ n = Len(campaign.outcomes)
  OBVIOUS
<1>2. told \in Seq(Outcomes \cup {"refused"}) /\ n \in Nat
  BY <1>1, ReportedEntries
<1>3. /\ Len(Append(told, outcome)) = n + 1
      /\ Append(told, outcome)[n + 1] = outcome
      /\ \A k \in 1..n : Append(told, outcome)[k] = told[k]
  BY <1>1, <1>2
<1>4. campaign'.outcomes = Append(told, outcome)
  BY <1>1
<1>5. ReportsTrue'
  <2> SUFFICES ASSUME NEW k \in 1..(n + 1)
               PROVE  IsTrue(campaign.outcomes[k], manifest[k])'
    BY <1>3, <1>4 DEF ReportsTrue
  <2>1. CASE k = n + 1
    BY <1>1, <1>3, <1>4, <2>1 DEF IsTrue
  <2>2. CASE k # n + 1
    <3>1. k \in 1..n
      BY <1>2, <2>2
    <3>2. manifest[k] \in Entries /\ IsTrue(told[k], manifest[k])
      BY <1>1, <3>1, ReportedEntries DEF CampaignInv, CommandInv, ReportsTrue
    <3>3. PICK earlier : earlier = manifest[k]
      OBVIOUS
    <3>4. IsTrue(told[k], earlier)'
      BY <3>2, <3>3, ReportsStay DEF TableMovesOn
    <3> QED  BY <1>3, <1>4, <3>1, <3>3, <3>4 DEF IsTrue
  <2> QED  BY <2>1, <2>2
<1> QED  BY <1>1, <1>3, <1>4, <1>5

\* The manifest, or an entry of it, is not as it was reviewed.
LEMMA RefusingStep ==
  ASSUME CampaignInv, Beside, UNCHANGED manifest, campaign.at \in {"preflight"} \cup Working,
         campaign' = Refused
  PROVE  CampaignInv'
<1> USE DEF Beside
<1>1. campaign \in CampaignsOver(Entries)
  BY DEF CampaignInv, CommandInv, CommandTyped
<1>2. CampaignTo("ended", <<>>, campaign.kept, Append(campaign.outcomes, "refused"))
  <2>1. /\ Append(campaign.outcomes, "refused") \in Seq(Outcomes \cup {"refused"})
        /\ <<>> \in Seq(Entries)
    BY <1>1, EmptySeq DEF CampaignsOver
  <2> QED  BY <1>1, <2>1 DEF CampaignTo, CampaignsOver, Refused, Phases
<1>3. CommandTyped'
  BY <1>2, TypesGoOn DEF CampaignTo, CampaignInv, CommandInv, CommandTyped
<1>4. /\ Len(campaign'.outcomes) = Len(campaign.outcomes) + 1
      /\ campaign'.outcomes[Len(campaign'.outcomes)] = "refused"
      /\ ReportsTrue'
  <2>1. PICK entry : entry = manifest[Len(campaign.outcomes) + 1]
    OBVIOUS
  <2>2. IsTrue("refused", entry)'
    BY DEF IsTrue
  <2> QED  BY <1>2, <2>1, <2>2, OneMoreReport DEF CampaignTo
<1>5. Progress'
  <2>1. Len(campaign'.outcomes) \in 1..Len(manifest)
    BY <1>4, ReportedEntries
  <2>2. WasRefused'
    BY <1>4, <2>1, ReportedEntries DEF WasRefused
  <2>3. manifest \notin {Undefined, <<>>}
    BY DEF CampaignInv, CommandInv, Progress
  <2> QED  BY <1>2, <2>1, <2>2, <2>3 DEF Progress, CampaignTo, Working
<1>6. AtWork'
  BY <1>2 DEF AtWork, CampaignTo
<1> QED  BY <1>3, <1>4, <1>5, <1>6 DEF CampaignInv, CommandInv, TableMovesOn

\* An entry is done with.
LEMMA NextEntryStep ==
  ASSUME CampaignInv, Beside, UNCHANGED manifest, campaign.at \in Working,
         NEW entry, entry = Current,
         NEW outcome \in Outcomes, IsTrue(outcome, entry)', campaign' = Noted(outcome)
  PROVE  CampaignInv'
<1> USE DEF Beside
<1>1. /\ campaign \in CampaignsOver(Entries)
      /\ RestToDo
  BY DEF CampaignInv, CommandInv, CommandTyped, Progress, Working
<1> DEFINE step == IF Len(campaign.todo) = 1 THEN "ended" ELSE "validate"
<1>2. /\ campaign.todo \in Seq(Entries) /\ campaign.todo # <<>>
      /\ Tail(campaign.todo) \in Seq(Entries)
      /\ Len(campaign.todo) \in Nat \ {0}
      /\ Len(Tail(campaign.todo)) = Len(campaign.todo) - 1
      /\ \A k \in 1..Len(Tail(campaign.todo)) : Tail(campaign.todo)[k] = campaign.todo[k + 1]
  BY <1>1, HeadTailProperties, LenProperties, EmptySeq DEF CampaignsOver, RestToDo
<1>3. CampaignTo(step, Tail(campaign.todo), campaign.kept, Append(campaign.outcomes, outcome))
  <2>1. Append(campaign.outcomes, outcome) \in Seq(Outcomes \cup {"refused"})
    BY <1>1 DEF CampaignsOver
  <2> QED  BY <1>1, <1>2, <2>1 DEF CampaignTo, CampaignsOver, Noted, Phases
<1>4. step \in {"ended", "validate"} /\ (step = "ended" <=> Len(campaign.todo) = 1)
  OBVIOUS
<1> HIDE DEF step
<1>5. CommandTyped'
  BY <1>3, TypesGoOn DEF CampaignTo, CampaignInv, CommandInv, CommandTyped
<1>6. Len(campaign'.outcomes) = Len(campaign.outcomes) + 1 /\ ReportsTrue'
  <2>1. entry = manifest[Len(campaign.outcomes) + 1]
    BY CurrentIsNext DEF CampaignInv, CommandInv
  <2> QED  BY <1>3, <2>1, OneMoreReport DEF CampaignTo
<1>7. Progress'
  <2>0. PICK done \in Nat, rest \in Nat \ {0}, all \in Nat :
          done = Len(campaign.outcomes) /\ rest = Len(campaign.todo) /\ all = Len(manifest)
    BY <1>2, ReportedEntries
  <2> DEFINE now == done + 1
             left == rest - 1
  <2>1. /\ done = Len(campaign.outcomes) /\ rest = Len(campaign.todo) /\ all = Len(manifest)
        /\ now = Len(campaign'.outcomes) /\ left = Len(Tail(campaign.todo))
    BY <1>2, <1>6, <2>0
  <2>2. done + rest = all /\ now = done + 1 /\ left = rest - 1 /\ (step = "ended" <=> rest = 1)
    BY <1>1, <1>4, <2>1 DEF RestToDo
  <2>3. /\ now + left = all
        /\ step = "ended" => now \in 1..all /\ now = all
        /\ step # "ended" => left # 0
    BY <2>2
  <2> HIDE DEF now, left
  <2>4. CASE step = "ended"
    <3>1. Len(campaign'.outcomes) \in 1..Len(manifest) /\ Len(campaign'.outcomes) = Len(manifest)
      BY <2>1, <2>3, <2>4
    <3> QED
      BY <1>3, <2>4, <3>1 DEF Progress, CampaignTo, Working, CampaignInv, CommandInv
  <2>5. CASE step = "validate"
    <3>1. Tail(campaign.todo) # <<>>
      BY <2>1, <2>3, <2>5, EmptySeq
    <3>2. ASSUME NEW k \in 1..left
          PROVE  Tail(campaign.todo)[k] = manifest[now + k]
      <4>1. k \in Nat /\ k + 1 \in 1..rest /\ done + (k + 1) = now + k
        BY <2>2
      <4>2. campaign.todo[k + 1] = manifest[done + (k + 1)]
        BY <1>1, <2>1, <4>1 DEF RestToDo
      <4>3. Tail(campaign.todo)[k] = campaign.todo[k + 1]
        BY <1>2, <2>1
      <4> QED  BY <4>1, <4>2, <4>3
    <3>3. RestToDo'
      BY <1>3, <2>1, <2>3, <3>1, <3>2 DEF RestToDo, CampaignTo
    <3> QED  BY <1>3, <2>5, <3>3 DEF Progress, CampaignTo, Working, CampaignInv, CommandInv
  <2> QED  BY <1>4, <2>4, <2>5
<1>8. AtWork'
  BY <1>3, <1>4 DEF AtWork, CampaignTo
<1> QED  BY <1>5, <1>6, <1>7, <1>8 DEF CampaignInv, CommandInv, TableMovesOn

(***************************************************************************)
(* What processing an entry does.                                          *)
(***************************************************************************)

\* A record is of the event that was retrieved; if it says that the event
\* took effect, then on the order that the snapshot names.
LEMMA RecordingDoes ==
  ASSUME PaymentInv, NEW h \in Invocations, StripeWebhookRecord(h)
  PROVE  LET given == input[h]
             o == given.snapshot.orderId
         IN /\ given.verdict \in StripeOutcomes
            /\ stripeEvents[given.eventId] = Undefined
            /\ stripeEvents' = [stripeEvents EXCEPT ![given.eventId] = given.verdict]
            /\ \A q \in OrderIds : orders'[q] # orders[q] => q = o
            /\ \A i \in IntentIds :
                 intentMapping'[i] # intentMapping[i] => i = given.intentId /\ intentMapping'[i] = o
            /\ given.verdict = "APPLIED" => intentMapping'[given.intentId] = o
<1> DEFINE given == input[h]
           o == given.snapshot.orderId
<1>1. /\ pc[h] = "recordStripe"
      /\ StripeOrderUnchanged(subject[h], read[h])
      /\ stripeEvents[given.eventId] = Undefined
      /\ orders' = [orders EXCEPT ![subject[h]] = proposed[h]]
      /\ intentMapping' = IF MapIntent(h) THEN [intentMapping EXCEPT ![given.intentId] = subject[h]]
                          ELSE intentMapping
      /\ stripeEvents' = [stripeEvents EXCEPT ![given.eventId] = given.verdict]
  BY DEF StripeWebhookRecord, RecordStripeWebhook, StripeWebhookCommits
<1>2. /\ given \in Snapshot
      /\ given.intentId \in IntentIds
      /\ subject[h] \in OrderIds
  BY <1>1, WebhookHas
<1>3. /\ given.verdict \in StripeOutcomes
      /\ given.verdict = "APPLIED" =>
           TakesIn(read[h], proposed[h], subject[h], given.intentId, given.snapshot)
      /\ given.verdict # "APPLIED" => proposed[h] = read[h]
      /\ given.verdict = "IGNORED" => o = subject[h]
  BY <1>1 DEF PaymentInv, PaymentFramesOK, PaymentFrame, WebhookFrame
<1>4. given.verdict \in {"APPLIED", "IGNORED"} => subject[h] = o
  BY <1>3 DEF TakesIn
<1>5. orders[subject[h]] = read[h]
  BY <1>1, <1>2 DEF PaymentInv, SnapshotsCurrentOrOlder, StripeOrderUnchanged, VersionIs
<1>6. /\ orders \in [OrderIds -> Order \cup {Undefined}]
      /\ intentMapping \in [IntentIds -> Optional(OrderIds)]
  BY DEF PaymentInv, PaymentTypeOK, TableTypeOK, ItemsTypeOK
<1> HIDE DEF given, o
<1>7. \A q \in OrderIds : orders'[q] # orders[q] => q = o
  BY <1>1, <1>2, <1>3, <1>4, <1>5, <1>6
<1>8. ASSUME NEW i \in IntentIds, intentMapping'[i] # intentMapping[i]
      PROVE  i = given.intentId /\ intentMapping'[i] = o
  <2>1. MapIntent(h) /\ i = given.intentId /\ intentMapping'[i] = subject[h]
    BY <1>1, <1>2, <1>6, <1>8
  <2>2. given.verdict # "RECONCILIATION_REQUIRED"
    BY <2>1 DEF MapIntent, given
  <2> QED  BY <1>3, <1>4, <2>1, <2>2 DEF StripeOutcomes
<1>9. ASSUME given.verdict = "APPLIED"
      PROVE  intentMapping'[given.intentId] = o
  <2>1. PaymentInv'
    BY StripeWebhookRecordKeepsInv
  <2>2. /\ proposed[h] \in Order
        /\ proposed[h].payment.stripePaymentIntentId = given.intentId
        /\ orders'[subject[h]] = proposed[h]
    BY <1>1, <1>2, <1>3, <1>6, <1>9 DEF TakesIn
  <2>3. intentMapping'[given.intentId] = subject[h]
    BY <1>2, <2>1, <2>2, UndefinedIsNoRecord DEF PaymentInv, IntentLookupAgrees
  <2> QED  BY <1>4, <1>9, <2>3
<1> QED  BY <1>1, <1>3, <1>7, <1>8, <1>9 DEF given, o

\* While the command processes an entry, its invocation is at the entry's
\* event, intent and order.
LEMMA CampaignerAtEntry ==
  ASSUME CampaignInv, campaign.at = "processing"
  PROVE  /\ Campaigner \in Invocations
         /\ Current \in Entries
         /\ Current.eventId \in StripeEventIds /\ Current.intentId \in IntentIds
         /\ Processes(Current)
<1>1. Campaigner \in Invocations /\ Processes(Current)
  BY CampaignConstants DEF CampaignInv, CommandInv, AtWork
<1>2. Current \in Entries
  BY CurrentIsNext DEF CampaignInv, CommandInv, Working
<1> QED  BY <1>1, <1>2 DEF Entries

\* What the command says of an entry when its processing ends is so.
LEMMA OutcomeIsTrue ==
  ASSUME CampaignInv, TableMovesOn, ProcessEntry, Return(Campaigner),
         NEW entry, entry = Current, NEW outcome, outcome = EntryOutcome
  PROVE  outcome \in Outcomes /\ IsTrue(outcome, entry)'
<1>0. /\ Campaigner \in Invocations
      /\ entry.eventId \in StripeEventIds /\ entry.intentId \in IntentIds
      /\ Processes(entry) /\ PaymentInv
      /\ stripeEvents \in [StripeEventIds -> Optional(StripeOutcomes)]
  BY CampaignerAtEntry
  DEF ProcessEntry, CampaignInv, TableInv, PaymentInv, PaymentTypeOK, TableTypeOK, ItemsTypeOK
<1>1. CASE pc[Campaigner] = "recordStripe"
  <2>1. StripeWebhookRecord(Campaigner)
    <3>1. pc'[Campaigner] = "idle"
      BY <1>0 DEF Return, PaymentInv, PaymentTypeOK, TableTypeOK, FramesTypeOK
    <3> QED
      BY <1>0, <1>1, <3>1 DEF ProcessEntry, StripeWebhookStep, StripeWebhookLookup, StripeWebhookLoad,
         StripeWebhookRecordCancelled, StripeWebhookResolve, Goto, PaymentInv, PaymentTypeOK,
         TableTypeOK, FramesTypeOK
  <2>2. PICK o, verdict : /\ o = input[Campaigner].snapshot.orderId
                          /\ verdict = input[Campaigner].verdict
    OBVIOUS
  <2>3. /\ verdict \in StripeOutcomes
        /\ stripeEvents'[entry.eventId] = verdict
        /\ verdict = "APPLIED" => intentMapping'[entry.intentId] = o
        /\ o = entry.orderId
    BY <1>0, <2>1, <2>2, RecordingDoes DEF Processes
  <2>4. outcome = ReportOf(verdict)
    BY <1>1, <2>2 DEF EntryOutcome
  <2>5. /\ outcome \in Outcomes
        /\ outcome = "applied" => verdict = "APPLIED"
    BY <2>3, <2>4 DEF ReportOf, Outcomes
  <2>6. verdict # Undefined
    BY <2>3, UndefinedIsNoOutcome
  <2> QED  BY <2>3, <2>5, <2>6 DEF IsTrue
<1>2. CASE pc[Campaigner] = "resolveStripe" /\ stripeEvents[entry.eventId] # Undefined
  <2>1. stripeEvents'[entry.eventId] # Undefined
    BY <1>0, <1>2 DEF TableMovesOn, PaymentMove, MarkersMove
  <2>2. outcome \in {"ignored", "reconciliation_required"}
    BY <1>2 DEF EntryOutcome, ReportOf
  <2> QED  BY <2>1, <2>2 DEF IsTrue, Outcomes
<1>3. CASE /\ pc[Campaigner] # "recordStripe"
           /\ ~(pc[Campaigner] = "resolveStripe" /\ stripeEvents[entry.eventId] # Undefined)
  <2>1. outcome = "failed"
    BY <1>3 DEF EntryOutcome
  <2> QED  BY <2>1 DEF IsTrue, Outcomes
<1> QED  BY <1>1, <1>2, <1>3

(***************************************************************************)
(* The steps of a campaign, one by one.                                    *)
(***************************************************************************)
LEMMA ServiceGoesOnKeeps ==
  ASSUME CampaignInv, ServiceGoesOn
  PROVE  CampaignInv'
<1> USE DEF ServiceGoesOn
<1>1. TableMovesOn
  BY ServiceMovesTable DEF CampaignInv
<1>2. KeepsMemory(Campaigner)
  BY CampaignConstants, PaymentTouchesOwn DEF CampaignInv, TableInv, Pays
<1>3. eventLog' \in Seq(Entries')
  <2> DEFINE new == { e \in StripeEventIds : emitted[e] = Undefined /\ emitted'[e] # Undefined }
  <2>0. eventLog \in Seq(Entries')
    BY <1>1, EntriesStay DEF TableMovesOn, CampaignInv, CommandInv, CommandTyped
  <2>1. CASE new = {}
    BY <2>0, <2>1 DEF PublishSent
  <2>2. CASE new # {}
    <3>1. PICK e : e = CHOOSE x \in new : TRUE
      OBVIOUS
    <3>2. e \in StripeEventIds /\ emitted'[e] # Undefined
      BY <2>2, <3>1
    <3> DEFINE i == emitted'[e].intentId
               entry == [eventId |-> e, intentId |-> i, orderId |-> intents'[i].orderId]
    <3>3. eventLog' = Append(eventLog, entry)
      BY <2>2, <3>1 DEF PublishSent
    <3>4. i \in IntentIds /\ intents'[i] \in Intent
      BY <1>1, <3>2
      DEF TableMovesOn, TableInv, PaymentInv, PaymentTypeOK, StripeTypeOK, EventsShowIntents
    <3>5. entry \in Entries'
      BY <3>2, <3>4 DEF Entries, Intent
    <3> QED  BY <2>0, <3>3, <3>5
  <2> QED  BY <2>1, <2>2
<1>4. CountsTyped'
  BY DEF CampaignInv, CommandInv, CountsTyped
<1>5. CommandInv'
  BY <1>1, <1>2, <1>3, <1>4, CommandStays
<1> QED  BY <1>1, <1>5 DEF TableMovesOn, CampaignInv

LEMMA ReassignKeeps ==
  ASSUME CampaignInv, NEW i \in IntentIds, NEW o \in OrderIds, Reassign(i, o)
  PROVE  CampaignInv'
<1>1. TableMovesOn
  BY ReassignMovesTable DEF CampaignInv
<1>2. KeepsMemory(Campaigner)
  BY DEF Reassign, baseVars, frameVars, KeepsMemory
<1>3. eventLog' \in Seq(Entries')
  BY <1>1, EntriesStay DEF TableMovesOn, CampaignInv, CommandInv, CommandTyped, Reassign
<1>4. CountsTyped'
  BY CampaignConstants DEF CampaignInv, CommandInv, CountsTyped, Reassign
<1>5. CommandInv'
  BY <1>1, <1>2, <1>3, <1>4, CommandStays DEF Reassign
<1> QED  BY <1>1, <1>5 DEF TableMovesOn, CampaignInv

LEMMA ExpireKeeps ==
  ASSUME CampaignInv, Expire
  PROVE  CampaignInv'
<1>1. TableMovesOn
  BY OtherStepMovesTable DEF CampaignInv, Expire, allPaymentVars
<1>2. KeepsMemory(Campaigner)
  BY DEF Expire, baseVars, frameVars, KeepsMemory
<1>3. eventLog' \in Seq(Entries')
  <2>1. eventLog' \in Seq(Entries)
    BY HeadTailProperties DEF CampaignInv, CommandInv, CommandTyped, Expire
  <2> QED  BY <1>1, <2>1, EntriesStay DEF TableMovesOn
<1>4. CountsTyped'
  BY DEF CampaignInv, CommandInv, CountsTyped, Expire
<1>5. CommandInv'
  BY <1>1, <1>2, <1>3, <1>4, CommandStays DEF Expire
<1> QED  BY <1>1, <1>5 DEF TableMovesOn, CampaignInv

\* Most steps of the command touch nothing but what it knows.
LEMMA BesideService ==
  ASSUME CampaignInv, UNCHANGED <<baseVars, paymentVars, stripeSideVars>>,
         executions' = executions, campaign.at # "processing"
  PROVE  Beside
<1>1. TableMovesOn
  BY OtherStepMovesTable DEF CampaignInv, allPaymentVars
<1>2. pc'[Campaigner] = "idle"
  BY DEF CampaignInv, CommandInv, AtWork, baseVars, frameVars
<1> QED  BY <1>1, <1>2 DEF Beside, CampaignInv, CommandInv, CountsTyped, stripeSideVars

LEMMA StartPreviewKeeps ==
  ASSUME CampaignInv, NEW events \in Seq(Entries), StartPreview(events)
  PROVE  CampaignInv'
<1>1. CampaignTo("reviewing", events, <<>>, <<>>)
  BY EmptySeq DEF StartPreview, NoCampaign, CampaignTo, CampaignsOver, Phases
<1>2. Beside
  BY BesideService DEF StartPreview, NoCampaign
<1>3. manifest' = Undefined
  BY DEF StartPreview
<1> QED  BY <1>1, <1>2, <1>3, StepBeforeEntries

\* A page of the log, newest events first, in creation order.
LEMMA PreviewTimeRangeKeeps ==
  ASSUME CampaignInv, NEW first \in 1..Len(eventLog), NEW last \in 1..Len(eventLog),
         first <= last, PreviewTimeRange(first, last)
  PROVE  CampaignInv'
<1>1. eventLog \in Seq(Entries) /\ Len(eventLog) \in Nat
  BY LenProperties DEF CampaignInv, CommandInv, CommandTyped
<1>2. \A k \in first..last : eventLog[k] \in Entries
  BY <1>1, ElementOfSeq
<1>3. PICK range : range = SubSeq(eventLog, first, last)
  OBVIOUS
<1>4. range \in Seq(Entries) /\ Len(range) \in Nat
  BY <1>1, <1>2, <1>3, SubSeqProperties, LenProperties
<1>5. NewestFirst(range) \in Seq(Entries)
  <2>1. CampaignLimit \in Nat
    BY CampaignConstants
  <2>2. ASSUME Len(range) > CampaignLimit
        PROVE  SubSeq(range, Len(range) - CampaignLimit + 1, Len(range)) \in Seq(Entries)
    <3>1. \A k \in Len(range) - CampaignLimit + 1 .. Len(range) : range[k] \in Entries
      BY <1>4, <2>1, <2>2, ElementOfSeq
    <3> QED  BY <1>4, <2>1, <3>1, SubSeqProperties
  <2> QED  BY <1>4, <2>1, <2>2 DEF NewestFirst
<1> QED  BY <1>3, <1>5, StartPreviewKeeps DEF PreviewTimeRange

LEMMA PreviewEventIdsKeeps ==
  ASSUME CampaignInv, NEW n \in 0..Len(eventLog), NEW place \in [1..n -> 1..Len(eventLog)],
         PreviewEventIds(n, place)
  PROVE  CampaignInv'
<1> DEFINE found == [k \in 1..n |-> eventLog[place[k]]]
<1>1. eventLog \in Seq(Entries) /\ n \in Nat
  BY LenProperties DEF CampaignInv, CommandInv, CommandTyped
<1>2. found \in [1..n -> Entries]
  BY <1>1, ElementOfSeq
<1> HIDE DEF found
<1>3. found \in Seq(Entries)
  BY <1>1, <1>2, SeqDef
<1> QED  BY <1>3, StartPreviewKeeps DEF PreviewEventIds, found

LEMMA ReviewEventKeeps ==
  ASSUME CampaignInv, ReviewEvent
  PROVE  CampaignInv'
<1>1. /\ campaign \in CampaignsOver(Entries)
      /\ campaign.at = "reviewing" /\ campaign.todo # <<>> /\ campaign.outcomes = <<>>
  BY DEF CampaignInv, CommandInv, CommandTyped, Progress, ReviewEvent
<1> DEFINE kept == IF Owned(Current) THEN Append(campaign.kept, Current) ELSE campaign.kept
<1>2. /\ Tail(campaign.todo) \in Seq(Entries)
      /\ Current \in Entries
  BY <1>1, HeadTailProperties DEF CampaignsOver, Current
<1>3. kept \in Seq(Entries)
  BY <1>1, <1>2 DEF CampaignsOver
<1>4. CampaignTo("reviewing", Tail(campaign.todo), kept, <<>>)
  <2>1. campaign' = [campaign EXCEPT !.kept = kept, !.todo = Tail(campaign.todo)]
    BY <1>1 DEF ReviewEvent, CampaignsOver
  <2> HIDE DEF kept
  <2> QED  BY <1>1, <1>2, <1>3, <2>1 DEF CampaignTo, CampaignsOver
<1>5. Beside
  BY BesideService DEF ReviewEvent
<1>6. manifest' # Undefined => manifest' \in Seq(Entries)
  BY DEF ReviewEvent, CampaignInv, CommandInv, CommandTyped
<1> HIDE DEF kept
<1> QED  BY <1>4, <1>5, <1>6, StepBeforeEntries

LEMMA WriteManifestKeeps ==
  ASSUME CampaignInv, WriteManifest
  PROVE  CampaignInv'
<1>1. CampaignTo("idle", <<>>, <<>>, <<>>)
  BY EmptySeq DEF WriteManifest, NoCampaign, CampaignTo, CampaignsOver, Phases
<1>2. Beside
  BY BesideService DEF WriteManifest
<1>3. manifest' \in Seq(Entries)
  BY DEF WriteManifest, CampaignInv, CommandInv, CommandTyped, CampaignsOver
<1> QED  BY <1>1, <1>2, <1>3, StepBeforeEntries

LEMMA StartExecutionKeeps ==
  ASSUME CampaignInv, StartExecution
  PROVE  CampaignInv'
<1>1. manifest \in Seq(Entries) /\ manifest \notin {Undefined, <<>>}
  BY DEF StartExecution, CampaignInv, CommandInv, CommandTyped
<1>2. CampaignTo("preflight", manifest, <<>>, <<>>)
  BY <1>1, EmptySeq DEF StartExecution, NoCampaign, CampaignTo, CampaignsOver, Phases
<1>3. Beside
  <2>1. TableMovesOn
    BY OtherStepMovesTable DEF CampaignInv, allPaymentVars, StartExecution
  <2>2. pc'[Campaigner] = "idle"
    BY DEF StartExecution, CampaignInv, CommandInv, AtWork, baseVars, frameVars
  <2>3. CountsTyped'
    BY CampaignConstants DEF StartExecution, CampaignInv, CommandInv, CountsTyped, stripeSideVars
  <2> QED  BY <2>1, <2>2, <2>3 DEF Beside, StartExecution, stripeSideVars
<1>4. manifest' = manifest
  BY DEF StartExecution
<1> QED  BY <1>1, <1>2, <1>3, <1>4, StepBeforeEntries

LEMMA PreflightKeeps ==
  ASSUME CampaignInv, Preflight
  PROVE  CampaignInv'
<1>1. /\ campaign \in CampaignsOver(Entries)
      /\ campaign.at = "preflight" /\ campaign.todo # <<>> /\ campaign.outcomes = <<>>
      /\ manifest \in Seq(Entries) /\ manifest \notin {Undefined, <<>>}
  BY DEF CampaignInv, CommandInv, CommandTyped, Progress, Preflight
<1>2. Beside /\ manifest' = manifest
  BY BesideService DEF Preflight
<1>3. CASE ~AsReviewed(Current)
  BY <1>1, <1>2, <1>3, RefusingStep DEF Preflight
<1>4. CASE AsReviewed(Current) /\ Len(campaign.todo) = 1
  <2>1. campaign' = [campaign EXCEPT !.at = "validate", !.todo = manifest]
    BY <1>4 DEF Preflight
  <2>2. CampaignTo("validate", manifest, campaign.kept, <<>>)
    BY <1>1, <2>1 DEF CampaignTo, CampaignsOver, Phases
  <2> QED  BY <1>1, <1>2, <2>2, StepToFirstEntry
<1>5. CASE AsReviewed(Current) /\ Len(campaign.todo) # 1
  <2>1. campaign' = [campaign EXCEPT !.todo = Tail(campaign.todo)]
    BY <1>1, <1>5 DEF Preflight, CampaignsOver
  <2>2. /\ Tail(campaign.todo) \in Seq(Entries)
        /\ Tail(campaign.todo) # <<>>
    <3>1. /\ Tail(campaign.todo) \in Seq(Entries)
          /\ Len(Tail(campaign.todo)) = Len(campaign.todo) - 1
          /\ Len(campaign.todo) \in Nat
      BY <1>1, HeadTailProperties, LenProperties DEF CampaignsOver
    <3>2. \A n \in Nat : n # 1 => n - 1 # 0
      OBVIOUS
    <3>3. Len(Tail(campaign.todo)) # 0
      BY <1>5, <3>1, <3>2
    <3>4. Len(<<>>) = 0
      BY EmptySeq
    <3> QED  BY <3>1, <3>3, <3>4
  <2>3. CampaignTo("preflight", Tail(campaign.todo), campaign.kept, <<>>)
    BY <1>1, <2>1, <2>2 DEF CampaignTo, CampaignsOver
  <2> QED  BY <1>1, <1>2, <2>2, <2>3, StepBeforeEntries
<1> QED  BY <1>3, <1>4, <1>5

LEMMA ValidateEntryKeeps ==
  ASSUME CampaignInv, ValidateEntry
  PROVE  CampaignInv'
<1>1. campaign \in CampaignsOver(Entries) /\ campaign.at = "validate"
  BY DEF CampaignInv, CommandInv, CommandTyped, ValidateEntry
<1>2. Beside /\ manifest' = manifest
  BY BesideService DEF ValidateEntry
<1>3. CASE ~AsReviewed(Current)
  BY <1>1, <1>2, <1>3, RefusingStep DEF ValidateEntry, Working
<1>4. CASE AsReviewed(Current)
  <2>1. CampaignTo("process", campaign.todo, campaign.kept, campaign.outcomes)
    BY <1>1, <1>4 DEF ValidateEntry, CampaignTo, CampaignsOver, Phases
  <2> QED  BY <1>1, <1>2, <2>1, StepWithEntry DEF Beside, Working
<1> QED  BY <1>3, <1>4

LEMMA EntryFailsKeeps ==
  ASSUME CampaignInv, EntryFails
  PROVE  CampaignInv'
<1>1. /\ campaign.at \in Working /\ campaign.at # "processing"
      /\ campaign' = Noted("failed") /\ manifest' = manifest
  BY DEF EntryFails, Working
<1>2. Beside
  BY <1>1, BesideService DEF EntryFails
<1>3. PICK entry : entry = Current
  OBVIOUS
<1>4. IsTrue("failed", entry)' /\ "failed" \in Outcomes
  BY DEF IsTrue, Outcomes
<1> QED  BY <1>1, <1>2, <1>3, <1>4, NextEntryStep

\* The snapshot that processing starts from names the reviewed order.
LEMMA ReviewedRetrievalKeeps ==
  ASSUME CampaignInv, ReviewedRetrieval
  PROVE  CampaignInv'
<1> USE DEF ReviewedRetrieval
<1>1. /\ campaign \in CampaignsOver(Entries) /\ campaign.at = "process"
      /\ UNCHANGED <<eventLog, manifest>> /\ CountsTyped'
  BY DEF CampaignInv, CommandInv, CommandTyped, CountsTyped, stripeSideVars
<1>2. Current \in Entries /\ Campaigner \in Invocations
  BY <1>1, CurrentIsNext, CampaignConstants DEF CampaignInv, CommandInv, Working
<1>3. CASE ~Owned(Current)
  <2>1. Beside
    BY <1>1, <1>3, BesideService DEF stripeSideVars
  <2> QED  BY <1>1, <1>3, <2>1, RefusingStep DEF Working
<1>4. CASE Owned(Current)
  <2> DEFINE e == Current.eventId
             i == Current.intentId
             given == [ eventId |-> e, intentId |-> emitted[e].intentId,
                        snapshot |-> intents[emitted[e].intentId],
                        ensureMapping |-> FALSE, verdict |-> Undefined ]
  <2>1. /\ e \in StripeEventIds /\ emitted[e].intentId = i
        /\ intents[i].orderId = Current.orderId
    BY <1>2, <1>4 DEF Entries, Owned
  <2>2. /\ StripeWebhookRetrieve(Campaigner, e)
        /\ campaign' = [campaign EXCEPT !.at = "processing"]
    BY <1>4
  <2>3. TableMovesOn
    BY <2>1, <2>2, CampaignerMovesTable DEF CampaignInv
  <2>4. CampaignTo("processing", campaign.todo, campaign.kept, campaign.outcomes)
    BY <1>1, <2>2 DEF CampaignTo, CampaignsOver, Phases
  <2>5. pc'[Campaigner] = "lookup" /\ input'[Campaigner] = given
    BY <1>2, <2>2
    DEF StripeWebhookRetrieve, Goto, CampaignInv, TableInv, PaymentInv, PaymentTypeOK, TableTypeOK,
        FramesTypeOK
  <2>6. given.eventId = e /\ given.intentId = i /\ given.snapshot.orderId = Current.orderId
    BY <2>1
  <2> HIDE DEF given
  <2>7. Current' = Current
    BY <2>4 DEF Current, CampaignTo
  <2>8. Processes(Current)'
    BY <2>5, <2>6, <2>7 DEF Processes, WebhookSteps
  <2> QED  BY <1>1, <2>3, <2>4, <2>8, StepWithEntry DEF Working
<1> QED  BY <1>3, <1>4

LEMMA ProcessEntryKeeps ==
  ASSUME CampaignInv, ProcessEntry
  PROVE  CampaignInv'
<1>1. /\ campaign.at = "processing" /\ StripeWebhookStep(Campaigner)
      /\ campaign' = IF pc'[Campaigner] = "idle" THEN Noted(EntryOutcome) ELSE campaign
      /\ UNCHANGED <<eventLog, manifest>> /\ CountsTyped'
  BY DEF ProcessEntry, CampaignInv, CommandInv, CountsTyped, stripeSideVars
<1>2. TableMovesOn
  BY <1>1, CampaignerMovesTable DEF CampaignInv
<1>3. Campaigner \in Invocations /\ Processes(Current)
  BY <1>1, CampaignerAtEntry
<1>4. CASE Return(Campaigner) /\ pc'[Campaigner] = "idle"
  <2>1. PICK entry, outcome : entry = Current /\ outcome = EntryOutcome
    OBVIOUS
  <2>2. outcome \in Outcomes /\ IsTrue(outcome, entry)'
    BY <1>2, <1>4, <2>1, OutcomeIsTrue
  <2>3. campaign' = Noted(outcome)
    BY <1>1, <1>4, <2>1
  <2>4. Beside
    BY <1>1, <1>2, <1>4 DEF Beside
  <2> QED  BY <1>1, <2>1, <2>2, <2>3, <2>4, NextEntryStep DEF Working
<1>5. CASE /\ pc'[Campaigner] \in WebhookSteps
           /\ input'[Campaigner].eventId = input[Campaigner].eventId
           /\ input'[Campaigner].intentId = input[Campaigner].intentId
           /\ input'[Campaigner].snapshot = input[Campaigner].snapshot
  <2>1. campaign' = campaign
    BY <1>1, <1>5 DEF WebhookSteps
  <2>2. CampaignTo("processing", campaign.todo, campaign.kept, campaign.outcomes)
    BY <1>1, <2>1 DEF CampaignTo, CampaignInv, CommandInv, CommandTyped
  <2>3. Processes(Current)'
    BY <1>3, <1>5, <2>1 DEF Processes, Current
  <2> QED  BY <1>1, <1>2, <2>2, <2>3, StepWithEntry DEF Working
<1> QED
  BY <1>1, <1>3, <1>4, <1>5, DeliveryGoesOn DEF CampaignInv, TableInv

\* The command dies; what it processed stays as far as it had come.
LEMMA CampaignDiesKeeps ==
  ASSUME CampaignInv, CampaignDies
  PROVE  CampaignInv'
<1>1. Campaigner \in Invocations
  BY CampaignConstants
<1>2. CampaignTo("idle", <<>>, <<>>, <<>>)
  BY EmptySeq DEF CampaignDies, NoCampaign, CampaignTo, CampaignsOver, Phases
<1>3. /\ UNCHANGED <<eventLog, manifest>> /\ CountsTyped'
      /\ manifest # Undefined => manifest \in Seq(Entries)
  BY DEF CampaignDies, CampaignInv, CommandInv, CommandTyped, CountsTyped, stripeSideVars
<1>4. CASE pc[Campaigner] # "idle"
  <2>1. Crash(Campaigner) /\ UNCHANGED paymentVars
    BY <1>4 DEF CampaignDies
  <2>2. TableMovesOn
    BY <1>1, <2>1, OtherStepMovesTable DEF CampaignInv
  <2>3. pc'[Campaigner] = "idle"
    BY <1>1, <2>1, ReturnTouchesOne
    DEF Crash, CampaignInv, TableInv, PaymentInv, PaymentTypeOK, TableTypeOK
  <2> QED  BY <1>2, <1>3, <2>2, <2>3, StepBeforeEntries DEF Beside
<1>5. CASE pc[Campaigner] = "idle"
  <2>1. /\ crashes' = crashes + 1 /\ crashes \in Nat
        /\ UNCHANGED <<tableVars, clock, frameVars, paymentVars>>
    BY <1>5
    DEF CampaignDies, CampaignInv, TableInv, PaymentInv, PaymentTypeOK, TableTypeOK, ItemsTypeOK
  <2>2. TableMovesOn
    BY <2>1, NoticedDeathMovesTable DEF CampaignInv
  <2>3. pc'[Campaigner] = "idle"
    BY <1>5, <2>1 DEF frameVars
  <2> QED  BY <1>2, <1>3, <2>2, <2>3, StepBeforeEntries DEF Beside
<1> QED  BY <1>4, <1>5

\* However the command goes on, and whatever goes on beside it.
LEMMA CampaignStepKeepsInv ==
  ASSUME CampaignInv, [CampaignNext]_allCampaignVars
  PROVE  CampaignInv'
<1>1. CASE CampaignStep
  BY <1>1, PreviewTimeRangeKeeps, PreviewEventIdsKeeps, ReviewEventKeeps, WriteManifestKeeps,
     StartExecutionKeeps, PreflightKeeps, ValidateEntryKeeps, EntryFailsKeeps,
     ReviewedRetrievalKeeps, ProcessEntryKeeps, CampaignDiesKeeps DEF CampaignStep
<1>2. CASE UNCHANGED allCampaignVars
  <2> USE <1>2 DEF allCampaignVars, campaignVars, stripeSideVars
  <2>1. TableMovesOn
    BY OtherStepMovesTable DEF CampaignInv
  <2>2. KeepsMemory(Campaigner)
    BY DEF KeepsMemory, allPaymentVars, baseVars, frameVars
  <2>3. eventLog' \in Seq(Entries')
    BY <2>1, EntriesStay DEF TableMovesOn, CampaignInv, CommandInv, CommandTyped
  <2>4. CountsTyped'
    BY DEF CampaignInv, CommandInv, CountsTyped
  <2>5. CommandInv'
    BY <2>1, <2>2, <2>3, <2>4, CommandStays
  <2> QED  BY <2>1, <2>5 DEF CampaignInv, TableMovesOn
<1> QED
  BY <1>1, <1>2, ServiceGoesOnKeeps, ReassignKeeps, ExpireKeeps DEF CampaignNext

(***************************************************************************)
(* Where a campaign starts.                                                *)
(***************************************************************************)
LEMMA BoundIsOrder ==
  ASSUME NEW i \in IntentIds
  PROVE  /\ Bound(i) \in Order
         /\ Bound(i).status = "AWAITING_PAYMENT"
         /\ Bound(i).updatedAt = 0
         /\ Bound(i).payment.status = "REQUIRES_PAYMENT_METHOD"
         /\ Bound(i).payment.stripePaymentIntentId = i
         /\ Bound(i).payment.updatedAt = 0
<1> DEFINE new == NewOrder(0)
           change == SnapshotChange(i, NewIntent(Undefined, TRUE, TRUE, TRUE), 0)
           payment == PaymentChanged(new.payment, change, 0)
<1>1. /\ new \in Order
      /\ new.payment \in OrderPayment
      /\ new.payment.status = "NOT_STARTED"
      /\ new.status = "AWAITING_PAYMENT"
  BY NewOrderIsOrder DEF NewOrder, Order
<1>2. /\ change \in PaymentStatusChange
      /\ change.targetStatus = "REQUIRES_PAYMENT_METHOD"
      /\ change.stripePaymentIntentId = i
  BY DEF SnapshotChange, NewIntent, PaymentStatusChange, PaymentStatus
<1>3. Bound(i) = WithPayment(new, payment, 0)
  BY DEF Bound
<1> HIDE DEF new, change
<1>4. ~PaymentUnchanged(new.payment, change)
  BY <1>1, <1>2 DEF PaymentUnchanged
<1>5. /\ payment \in OrderPayment
      /\ payment.status = "REQUIRES_PAYMENT_METHOD"
      /\ payment.stripePaymentIntentId = i
      /\ payment.updatedAt = 0
  BY <1>1, <1>2, <1>4, PaymentChangedIsPayment, PaymentChangedShowsChange, PaymentChangedAt
<1> HIDE DEF payment
<1> QED  BY <1>1, <1>3, <1>5, WithPaymentIsNext

\* The order stands or its creation is all there is of it: either way nothing
\* is decided, and only a bound intent's secret was given away.
LEMMA CampaignInitHasInv ==
  ASSUME CampaignInit
  PROVE  CampaignInv
<1>1. PICK o \in OrderIds, i \in IntentIds, bound \in BOOLEAN :
       /\ orders = [[x \in OrderIds |-> Undefined] EXCEPT
            ![o] = IF bound THEN Bound(i) ELSE NewOrder(0)]
       /\ intentMapping = [[x \in IntentIds |-> Undefined] EXCEPT
            ![i] = IF bound THEN o ELSE Undefined]
       /\ intents = [[x \in IntentIds |-> Undefined] EXCEPT
            ![i] = NewIntent(o, TRUE, TRUE, TRUE)]
       /\ creationKeys = [[x \in OrderIds |-> Undefined] EXCEPT ![o] = i]
       /\ secretReleased = IF bound THEN {i} ELSE {}
  BY DEF CampaignInit
<1>2. PICK order, intent :
        /\ order = IF bound THEN Bound(i) ELSE NewOrder(0)
        /\ intent = NewIntent(o, TRUE, TRUE, TRUE)
  OBVIOUS
<1>3. /\ order \in Order
      /\ order.status = "AWAITING_PAYMENT"
      /\ order.payment.status \notin TerminalPaymentStatus
      /\ order.payment.stripePaymentIntentId = IF bound THEN i ELSE Undefined
      /\ Timely(order)
  <2>1. CASE bound
    BY <1>2, <2>1, BoundIsOrder DEF Timely, TerminalPaymentStatus
  <2>2. CASE ~bound
    <3>1. order = NewOrder(0) /\ NewOrder(0) \in Order
      BY <1>2, <2>2, NewOrderIsOrder
    <3> QED  BY <2>2, <3>1 DEF NewOrder, Timely, TerminalPaymentStatus
  <2> QED  BY <2>1, <2>2
<1>4. intent \in Intent
  BY <1>2 DEF NewIntent, Intent, PaymentStatus, Optional
<1>5. /\ \A q \in OrderIds : orders[q] = IF q = o THEN order ELSE Undefined
      /\ \A j \in IntentIds :
           intentMapping[j] = IF j = i /\ bound THEN o ELSE Undefined
      /\ orders \in [OrderIds -> Order \cup {Undefined}]
      /\ intentMapping \in [IntentIds -> Optional(OrderIds)]
      /\ intents \in [IntentIds -> Intent \cup {Undefined}]
      /\ creationKeys \in [OrderIds -> Optional(IntentIds)]
  BY <1>1, <1>2, <1>3, <1>4 DEF Optional
<1> USE DEF CampaignInit, FramesInit
<1>6. PaymentTypeOK
  <2>1. ItemsTypeOK
    BY <1>5 DEF ItemsTypeOK, Optional
  <2>2. FramesTypeOK
    <3>1. 0 \in 0..MaxConcurrentWriteAttempts
      BY DEF MaxConcurrentWriteAttempts
    <3>2. "idle" \in Steps
      BY DEF Steps
    <3> QED  BY <3>1, <3>2 DEF FramesTypeOK, Optional
  <2>3. StripeTypeOK
    BY <1>1, <1>5 DEF StripeTypeOK, Optional
  <2>4. WebhookInputsOK
    BY PaymentInvocations DEF WebhookInputsOK
  <2> QED  BY <2>1, <2>2, <2>3, <2>4 DEF PaymentTypeOK, TableTypeOK
<1>7. SnapshotsCurrentOrOlder /\ EventsShowIntents /\ PaymentFramesOK
  BY DEF SnapshotsCurrentOrOlder, EventsShowIntents, PaymentFramesOK, PaymentFrame, PrepareFrame,
         WebhookFrame
<1>8. IntentLookupAgrees
  BY <1>3, <1>5, UndefinedIsNoOrderId, UndefinedIsNoValue, UndefinedIsNoRecord
  DEF IntentLookupAgrees
<1>9. SecretOnlyAfterMapping
  BY <1>1, <1>3, <1>5 DEF SecretOnlyAfterMapping
<1>10. PaidHasIntent /\ MoneyIsThere /\ StatusFollowsPayment
  BY <1>3, <1>5 DEF PaidHasIntent, MoneyIsThere, StatusFollowsPayment, TerminalPaymentStatus
<1>11. DecisionInv
  BY <1>3, <1>5 DEF DecisionInv, DecisionFrame, EventsShowDecisions
<1>12. CommandInv
  <2> USE DEF CommandInit, NoCampaign
  <2>1. CommandTyped
    BY EmptySeq DEF CommandTyped, CampaignsOver, Phases
  <2>2. CountsTyped
    BY CampaignConstants DEF CountsTyped
  <2>3. Progress
    BY DEF Progress, Working
  <2>4. ReportsTrue
    BY EmptySeq DEF ReportsTrue
  <2>5. AtWork
    BY CampaignConstants DEF AtWork
  <2> QED  BY <2>1, <2>2, <2>3, <2>4, <2>5 DEF CommandInv
<1> QED
  BY <1>6, <1>7, <1>8, <1>9, <1>10, <1>11, <1>12 DEF CampaignInv, TableInv, PaymentInv

(***************************************************************************)
(* What a step of the command does to the table.                           *)
(***************************************************************************)
KeptToReview ==
  /\ \A o \in OrderIds : orders'[o] # orders[o] =>
       o = Current.orderId /\ stripeEvents[Current.eventId] = Undefined
  /\ \A e \in StripeEventIds : stripeEvents'[e] # stripeEvents[e] => e = Current.eventId
  /\ \A i \in IntentIds : intentMapping'[i] # intentMapping[i] =>
       i = Current.intentId /\ intentMapping'[i] = Current.orderId

LEMMA ProcessingKeepsToReview ==
  ASSUME CampaignInv, ProcessEntry
  PROVE  KeptToReview
<1>1. CASE StripeWebhookRecord(Campaigner)
  <2>1. /\ Campaigner \in Invocations
        /\ Processes(Current)
        /\ Current.eventId \in StripeEventIds
        /\ PaymentInv
    BY CampaignerAtEntry DEF ProcessEntry, CampaignInv, TableInv
  <2>2. PICK given, e, i, o :
          /\ given = input[Campaigner]
          /\ e = Current.eventId /\ i = Current.intentId /\ o = Current.orderId
    OBVIOUS
  <2>3. given.eventId = e /\ given.intentId = i /\ given.snapshot.orderId = o
    BY <2>1, <2>2 DEF Processes
  <2>4. /\ stripeEvents[e] = Undefined
        /\ stripeEvents' = [stripeEvents EXCEPT ![e] = given.verdict]
        /\ \A q \in OrderIds : orders'[q] # orders[q] => q = o
        /\ \A j \in IntentIds : intentMapping'[j] # intentMapping[j] => j = i /\ intentMapping'[j] = o
    BY <1>1, <2>1, <2>2, <2>3, RecordingDoes
  <2>5. stripeEvents \in [StripeEventIds -> Optional(StripeOutcomes)]
    BY <2>1 DEF PaymentInv, PaymentTypeOK, TableTypeOK, ItemsTypeOK
  <2>6. \A x \in StripeEventIds : stripeEvents'[x] # stripeEvents[x] => x = e
    BY <2>4, <2>5
  <2> QED  BY <2>2, <2>4, <2>6 DEF KeptToReview
<1>2. CASE ~StripeWebhookRecord(Campaigner)
  <2>1. UNCHANGED <<orders, stripeEvents, intentMapping>>
    BY <1>2 DEF ProcessEntry, StripeWebhookStep, StripeWebhookLookup, StripeWebhookLoad,
                StripeWebhookRecordCancelled, StripeWebhookResolve, tableVars
  <2> QED  BY <2>1 DEF KeptToReview
<1> QED  BY <1>1, <1>2

\* Only where it processes an entry, or dies, does its invocation move on.
LEMMA StepKeepsToReview ==
  ASSUME CampaignInv, CampaignNext, pc[Campaigner] # "idle", pc'[Campaigner] # pc[Campaigner]
  PROVE  KeptToReview
<1>1. CASE ServiceGoesOn
  <2>1. KeepsMemory(Campaigner)
    BY <1>1, CampaignConstants, PaymentTouchesOwn DEF ServiceGoesOn, CampaignInv, TableInv, Pays
  <2> QED  BY <2>1 DEF KeepsMemory
<1>2. CASE ProcessEntry
  BY <1>2, ProcessingKeepsToReview
<1>3. CASE CampaignDies
  <2>1. UNCHANGED <<orders, stripeEvents, intentMapping>>
    BY <1>3 DEF CampaignDies, Crash, tableVars
  <2> QED  BY <2>1 DEF KeptToReview
<1>4. CASE ReviewedRetrieval
  <2>1. pc[Campaigner] = "idle"
    BY <1>4 DEF ReviewedRetrieval, CampaignInv, CommandInv, AtWork
  <2> QED  BY <2>1
<1>5. CASE UNCHANGED pc
  BY <1>5
<1> QED
  BY <1>1, <1>2, <1>3, <1>4, <1>5
  DEF CampaignNext, CampaignStep, Reassign, Expire, PreviewTimeRange, PreviewEventIds, StartPreview,
      ReviewEvent, WriteManifest, StartExecution, Preflight, ValidateEntry, EntryFails, baseVars,
      frameVars

LEMMA StepMovesTable ==
  ASSUME CampaignInv, [CampaignNext]_allCampaignVars
  PROVE  OrdersMove /\ MarkersMove
<1> USE DEF CampaignInv
<1>1. CASE ServiceGoesOn
  BY <1>1, ServiceMovesTable DEF ServiceGoesOn, TableMovesOn, PaymentMove
<1>2. CASE ProcessEntry
  BY <1>2, CampaignerMovesTable DEF ProcessEntry, TableMovesOn, PaymentMove
<1>3. CASE UNCHANGED <<orders, stripeEvents>>
  BY <1>3 DEF OrdersMove, MarkersMove
<1> QED
  BY <1>1, <1>2, <1>3
  DEF CampaignNext, CampaignStep, Reassign, Expire, PreviewTimeRange, PreviewEventIds, StartPreview,
      ReviewEvent, WriteManifest, StartExecution, Preflight, ValidateEntry, EntryFails,
      ReviewedRetrieval, StripeWebhookRetrieve, CampaignDies, Crash, baseVars, tableVars,
      allCampaignVars, allPaymentVars

\* What the invariant says of a command that exits with success.
LEMMA SuccessSettles ==
  ASSUME CampaignInv
  PROVE  SuccessMeansSettled
<1> SUFFICES ASSUME Successful, NEW k \in 1..Len(manifest)
             PROVE  /\ Settled(manifest[k])
                    /\ campaign.outcomes[k] = "applied" =>
                         intentMapping[manifest[k].intentId] = manifest[k].orderId
  BY DEF SuccessMeansSettled
<1>1. /\ campaign.at = "ended" /\ ~WasRefused
      /\ Len(campaign.outcomes) = Len(manifest)
      /\ manifest \in Seq(Entries)
  BY DEF Successful, WasRefused, CampaignInv, CommandInv, CommandTyped, Progress
<1>2. PICK entry : entry = manifest[k]
  OBVIOUS
<1>3. /\ entry \in Entries
      /\ entry.eventId \in StripeEventIds
      /\ entry.intentId \in IntentIds
      /\ emitted[entry.eventId].intentId = entry.intentId
  <2>1. entry \in Entries
    BY <1>1, <1>2, ElementOfSeq
  <2> QED  BY <2>1 DEF Entries
<1>4. /\ stripeEvents[entry.eventId] # Undefined
      /\ campaign.outcomes[k] = "applied" => intentMapping[entry.intentId] = entry.orderId
  BY <1>1, <1>2 DEF Successful, CampaignInv, CommandInv, ReportsTrue, IsTrue
<1>5. ASSUME stripeEvents[entry.eventId] # "RECONCILIATION_REQUIRED",
             emitted[entry.eventId].status \in TerminalPaymentStatus
      PROVE  LET o == intentMapping[entry.intentId]
             IN o # Undefined /\ orders[o].status # "AWAITING_PAYMENT"
  <2>1. stripeEvents[entry.eventId] \in {"APPLIED", "IGNORED"}
    BY <1>3, <1>4, <1>5
    DEF CampaignInv, TableInv, PaymentInv, PaymentTypeOK, TableTypeOK, ItemsTypeOK, Optional, StripeOutcomes
  <2>2. PICK o \in OrderIds : /\ orders[o] # Undefined
                              /\ orders[o].payment.stripePaymentIntentId = entry.intentId
                              /\ orders[o].status # "AWAITING_PAYMENT"
    BY <1>3, <1>4, <1>5, <2>1 DEF CampaignInv, TableInv, DecisionInv, DecisionKept
  <2>3. intentMapping[entry.intentId] = o
    BY <1>3, <2>2 DEF CampaignInv, TableInv, PaymentInv, IntentLookupAgrees
  <2> QED  BY <2>2, <2>3, UndefinedIsNoOrderId
<1> QED  BY <1>2, <1>4, <1>5 DEF Settled

(***************************************************************************)
(* What holds of every campaign.                                           *)
(***************************************************************************)

\* The strengthening is inductive, with metadata that change under the
\* command, deaths and repeated executions.
THEOREM CampaignInvariant == CampaignSpec => []CampaignInv
<1>1. CampaignInit => CampaignInv
  BY CampaignInitHasInv
<1>2. CampaignInv /\ [CampaignNext]_allCampaignVars => CampaignInv'
  BY CampaignStepKeepsInv
<1> QED  BY <1>1, <1>2, PTL DEF CampaignSpec

\* The command is where executeCampaign can be, and an execution that ended
\* reports at least one entry and no more than the manifest has.
THEOREM CampaignTypes == CampaignSpec => []CampaignTypeOK
<1>1. CampaignInv => CampaignTypeOK
  BY DEF CampaignInv, TableInv, PaymentInv, CommandInv, CommandTyped, CountsTyped, CampaignsOver,
         Phases, Progress, CampaignTypeOK
<1> QED  BY <1>1, CampaignInvariant, PTL

\* The reconciliation command contract's "execute processes only the exact
\* manifest": what executeCampaign writes is of the reviewed entry it has come
\* to, its order, event and intent, and takes effect once.
THEOREM CampaignStaysReviewed == CampaignSpec => CampaignKeepsToReview
<1>1. CampaignInv /\ [CampaignNext]_allCampaignVars =>
        [ pc[Campaigner] # "idle" /\ pc'[Campaigner] # pc[Campaigner] =>
            KeptToReview ]_<<orders, stripeEvents, intentMapping, pc>>
  BY StepKeepsToReview DEF allCampaignVars, allPaymentVars, baseVars, tableVars, frameVars
<1> QED  BY <1>1, CampaignInvariant, PTL DEF CampaignSpec, CampaignKeepsToReview, KeptToReview

\* When executeCampaign reports success, every event of the manifest is
\* recorded and no order waits any more for a payment that one of them
\* announced as decided, but for events set aside for reconciliation.
THEOREM SuccessSettlesManifest == CampaignSpec => []SuccessMeansSettled
<1>1. CampaignInv => SuccessMeansSettled
  BY SuccessSettles
<1> QED  BY <1>1, CampaignInvariant, PTL

\* The table's promises outlast a campaign and the metadata edits it is there
\* for: lookup and orders agree, no order is fulfilled without its payment,
\* and a payment taken for made is collected at Stripe.
THEOREM CampaignKeepsPromises ==
  CampaignSpec => [](IntentLookupAgrees /\ StatusFollowsPayment /\ MoneyIsThere)
<1>1. CampaignInv => IntentLookupAgrees /\ StatusFollowsPayment /\ MoneyIsThere
  BY DEF CampaignInv, TableInv, PaymentInv
<1> QED  BY <1>1, CampaignInvariant, PTL

\* Command and webhooks, applying the same events side by side, change an
\* order one version at a time and never twice for the same event.
THEOREM CampaignChangesProper == CampaignSpec => OrdersChangeProperly /\ EventTakesEffectOnce
<1>1. CampaignInv /\ [CampaignNext]_allCampaignVars =>
        [ \A o \in OrderIds :
            orders'[o] # orders[o] =>
              /\ orders'[o] # Undefined
              /\ orders[o] # Undefined => CommittedChange(orders[o], orders'[o]) ]_orders
  BY StepMovesTable, UndefinedIsNoRecord DEF OrdersMove, ProperNext
<1>2. CampaignInv /\ [CampaignNext]_allCampaignVars =>
        [ \A e \in StripeEventIds :
            stripeEvents[e] # Undefined => stripeEvents'[e] = stripeEvents[e] ]_stripeEvents
  BY StepMovesTable DEF MarkersMove
<1> QED
  BY <1>1, <1>2, CampaignInvariant, PTL DEF CampaignSpec, OrdersChangeProperly, EventTakesEffectOnce
==============================================================================
