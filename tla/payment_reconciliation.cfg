SPECIFICATION PaymentSpec
CONSTANTS
  Undefined = Undefined
  ProviderIds = {}
  IntentIds = {i1}
  ReasonCodes = {}
  OrderIds = {o1}
  StripeEventIds = {e1, e2}
  ProviderEventIds = {}
  Invocations = {p1, s1, s2}
  PrepareInvocations = {p1}
  StripeWebhookInvocations = {s1, s2}
  MaxTime = 1
  TransactionConflicts = TRUE
  MaxCrashes = 0
  IntentStatuses = {"REQUIRES_PAYMENT_METHOD", "PROCESSING", "SUCCEEDED", "CANCELLED"}
  ForeignIntents <- NoForeignIntents
SYMMETRY Symmetry
INVARIANTS ReconciliationMeansMismatch
CHECK_DEADLOCK FALSE
