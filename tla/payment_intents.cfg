SPECIFICATION PaymentSpec
CONSTANTS
  Undefined = Undefined
  ProviderIds = {}
  IntentIds = {i1, i2}
  ReasonCodes = {}
  OrderIds = {o1}
  StripeEventIds = {e1, e2}
  ProviderEventIds = {}
  Invocations = {p1, p2, s1}
  PrepareInvocations = {p1, p2}
  StripeWebhookInvocations = {s1}
  MaxTime = 1
  TransactionConflicts = TRUE
  MaxCrashes = 1
  IntentStatuses = {"REQUIRES_PAYMENT_METHOD", "SUCCEEDED", "CANCELLED"}
  ForeignIntents <- MCForeignIntents
SYMMETRY Symmetry
INVARIANTS IntentLookupAgrees PaidMeansCollected SecretOnlyAfterMapping
CHECK_DEADLOCK FALSE
