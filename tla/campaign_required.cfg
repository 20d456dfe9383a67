SPECIFICATION CampaignSpec
CONSTANTS
  Undefined = Undefined
  ProviderIds = {}
  IntentIds = {i1}
  ReasonCodes = {}
  OrderIds = {o1, o2}
  StripeEventIds = {e1, e2}
  ProviderEventIds = {}
  Invocations = {s1, c1}
  PrepareInvocations = {}
  StripeWebhookInvocations = {s1}
  MaxTime = 0
  TransactionConflicts = FALSE
  MaxCrashes = 1
  IntentStatuses = {"REQUIRES_PAYMENT_METHOD", "SUCCEEDED"}
  ForeignIntents <- NoForeignIntents
  Campaigner = c1
  CampaignLimit = 2
  MaxReassignments = 1
  MaxExecutions = 2
SYMMETRY Symmetry
INVARIANTS ReconciliationRequiredFails
CHECK_DEADLOCK FALSE
