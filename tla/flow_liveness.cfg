SPECIFICATION FairFlows
CONSTANTS
  Undefined = Undefined
  OrderIds = {o1}
  IntentIds = {i1}
  ProviderIds = {d1}
  OperatorProviderIds = {}
  ReasonCodes = {failed}
  StripeEventIds = {e1, e2}
  ProviderEventIds = {}
  Invocations = {p1, s1, s2, w1, w2, op1}
  PrepareInvocations = {p1}
  StripeWebhookInvocations = {s1, s2}
  Workers = {w1, w2}
  OperatorInvocations = {op1}
  ProviderInvocations = {}
  IntentStatuses = {"REQUIRES_PAYMENT_METHOD", "SUCCEEDED", "CANCELLED"}
  ForeignIntents <- NoForeignIntents
  MaxTime = 0
  MaxCrashes = 1
  TransactionConflicts = FALSE
  VendorConsistent = TRUE
  VendorReusesIds = FALSE
  MaxVersion = 4
  MaxReceives = 3
  MaxDuplicates = 1
PROPERTIES DecidedOrdersProceed PendingOrdersSettle
CHECK_DEADLOCK FALSE
