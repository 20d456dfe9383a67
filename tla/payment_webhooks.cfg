SPECIFICATION PaymentSpec
CONSTANTS
  Undefined = Undefined
  ProviderIds = {}
  IntentIds = {i1}
  ReasonCodes = {}
  OrderIds = {o1}
  StripeEventIds = {e1, e2, e3}
  ProviderEventIds = {}
  Invocations = {p1, s1, s2}
  PrepareInvocations = {p1}
  StripeWebhookInvocations = {s1, s2}
  MaxTime = 1
  TransactionConflicts = TRUE
  MaxCrashes = 0
  IntentStatuses = {"REQUIRES_PAYMENT_METHOD", "PROCESSING", "SUCCEEDED"}
  ForeignIntents <- NoForeignIntents
SYMMETRY Symmetry
INVARIANTS PaymentTypeOK SnapshotsCurrentOrOlder StatusFollowsPayment DecisionNeverLost
PROPERTIES OrdersChangeProperly 
CHECK_DEADLOCK FALSE
