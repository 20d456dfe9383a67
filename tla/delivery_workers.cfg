SPECIFICATION DeliverySpec
CONSTANTS
  Undefined = Undefined
  OrderIds = {o1, o2}
  IntentIds = {i1, i2}
  ProviderIds = {d1, d2}
  OperatorProviderIds = {d1}
  ReasonCodes = {failed}
  StripeEventIds = {}
  ProviderEventIds = {}
  Invocations = {w1, w2, op1}
  Workers = {w1, w2}
  OperatorInvocations = {op1}
  ProviderInvocations = {}
  MaxTime = 0
  MaxCrashes = 1
  TransactionConflicts = TRUE
  VendorConsistent = TRUE
  VendorReusesIds = FALSE
  MaxVersion = 5
  MaxReceives = 2
  MaxDuplicates = 0
SYMMETRY Symmetry
INVARIANTS  ProviderLookupAgrees
CHECK_DEADLOCK FALSE
