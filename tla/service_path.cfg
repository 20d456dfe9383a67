SPECIFICATION ServiceSpec
CONSTANTS
  Undefined = Undefined
  OrderIds = {o1}
  IntentIds = {i1}
  ProviderIds = {d1}
  OperatorProviderIds = {}
  ReasonCodes = {failed}
  StripeEventIds = {e1}
  ProviderEventIds = {v1}
  Invocations = {p1, s1, w1, op1, c1}
  PrepareInvocations = {p1}
  StripeWebhookInvocations = {s1}
  Workers = {w1}
  OperatorInvocations = {op1}
  ProviderInvocations = {c1}
  IntentStatuses = {"REQUIRES_PAYMENT_METHOD", "SUCCEEDED", "CANCELLED"}
  ForeignIntents <- NoForeignIntents
  MaxTime = 1
  MaxCrashes = 1
  TransactionConflicts = FALSE
  VendorConsistent = TRUE
  VendorReusesIds = FALSE
  MaxVersion = 5
  MaxReceives = 1
  MaxDuplicates = 0
INVARIANTS PendingHasRequest OnlyPaidOrdersAreFulfilled MemoryRepositoryAgrees
PROPERTIES ImplementsLifecycle
CHECK_DEADLOCK FALSE
