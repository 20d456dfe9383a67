---------------------------- MODULE MCSurroundings ----------------------------
(***************************************************************************)
(* The components around the service, for one TLC run: a behaviour runs    *)
(* the component its first state names, with that component's own initial  *)
(* states and steps, and leaves the others at rest.  No behaviour runs     *)
(* two, so the run covers the sum of their state spaces.                   *)
(***************************************************************************)
EXTENDS BrowserJourney, OrderListing, RetryableInitializer, ReconciliationCampaign,
        StreamPublisher, DevelopmentLab, MockVendor, TLC

VARIABLE part

NoForeignIntents == {}

\* Orders, merchant order ids, the keys pages generate, and the calls of the
\* API are interchangeable; so are Stripe's events, whose values are those of
\* the calls: no behaviour has both.
Symmetry ==
  Permutations(OrderIds) \cup Permutations(Calls \cup StripeEventIds)
    \cup Permutations(MerchantOrderIds) \cup Permutations(Keys \ OtherKeys)

SurroundingsInit ==
  /\ part \in {"journey", "listing", "initializer", "campaign", "publisher", "lab", "vendor"}
  /\ JourneyInit
  /\ ListingInit
  /\ InitializerInit
  /\ IF part = "campaign" THEN CampaignInit ELSE PaymentInit /\ CommandInit
  /\ PublisherInit
  /\ LabInit
  /\ VendorInit

NoJourney     == UNCHANGED journeyVars
NoListing     == UNCHANGED listingVars
NoInitializer == UNCHANGED initializerVars
CampaignRests == UNCHANGED allCampaignVars
NoPublisher   == UNCHANGED allPublisherVars
NoLab         == UNCHANGED labVars
NoVendor      == UNCHANGED vendorVars

\* Failure codes of an intent would only repeat the states without them, and
\* the cancellation of an intent whose secret is out those of its success.
FewerIntents ==
  \A i \in IntentIds : intents'[i] # Undefined =>
    /\ intents'[i].failureCode = Undefined
    /\ i \in secretReleased => intents'[i].status # "CANCELLED"

\* MaxRecords commits tell the whole life of one order; of two orders one
\* commit less will do.
LastRecordOfOneOrder ==
  Len(shard') = MaxRecords => \A j, k \in 1..MaxRecords : shard'[j].orderId = shard'[k].orderId

SurroundingsNext ==
  /\ UNCHANGED part
  /\ \/ /\ part = "journey" /\ JourneyNext
        /\ NoListing /\ NoInitializer /\ CampaignRests /\ NoPublisher /\ NoLab /\ NoVendor
     \/ /\ part = "listing" /\ ListingNext
        /\ NoJourney /\ NoInitializer /\ CampaignRests /\ NoPublisher /\ NoLab /\ NoVendor
     \/ /\ part = "initializer" /\ InitializerNext
        /\ NoJourney /\ NoListing /\ CampaignRests /\ NoPublisher /\ NoLab /\ NoVendor
     \/ /\ part = "campaign" /\ CampaignNext /\ FewerIntents
        /\ NoJourney /\ NoListing /\ NoInitializer /\ NoPublisher /\ NoLab /\ NoVendor
     \/ /\ part = "publisher" /\ PublisherNext /\ LastRecordOfOneOrder
        /\ NoJourney /\ NoListing /\ NoInitializer /\ CampaignRests /\ NoLab /\ NoVendor
     \/ /\ part = "lab" /\ LabNext
        /\ NoJourney /\ NoListing /\ NoInitializer /\ CampaignRests /\ NoPublisher /\ NoVendor
     \/ /\ part = "vendor" /\ VendorNext
        /\ NoJourney /\ NoListing /\ NoInitializer /\ CampaignRests /\ NoPublisher /\ NoLab

surroundingsVars ==
  << journeyVars, listingVars, initializerVars, allCampaignVars, allPublisherVars, labVars,
     vendorVars, part >>

Surroundings == SurroundingsInit /\ [][SurroundingsNext]_surroundingsVars

\* Every variable of the component that runs keeps to its type.
SurroundingsTypeOK ==
  CASE part = "journey"     -> JourneyTypeOK
    [] part = "listing"     -> ListingTypeOK
    [] part = "initializer" -> InitializerTypeOK
    [] part = "campaign"    -> CampaignTypeOK
    [] part = "publisher"   -> PublisherTypeOK
    [] part = "lab"         -> LabTypeOK
    [] part = "vendor"      -> VendorTypeOK
===============================================================================
