SPECIFICATION DeliverySpec
CONSTANTS
  Undefined = Undefined
  OrderIds = {o1}
  IntentIds = {i1}
  ProviderIds = {d1, d2}
  OperatorProviderIds = {d2}
  ReasonCodes = {}
  StripeEventIds = {}
  ProviderEventIds = {}
  Invocations = {w1, w2, op1}
  Workers = {w1, w2}
  OperatorInvocations = {op1}
  ProviderInvocations = {}
  MaxTime = 0
  MaxCrashes = 0
  TransactionConflicts = FALSE
  VendorConsistent = TRUE
  VendorReusesIds = FALSE
  MaxVersion = 6
  MaxReceives = 3
  MaxDuplicates = 0
PROPERTIES ReconciliationStaysOnFailurePath
CHECK_DEADLOCK FALSE
