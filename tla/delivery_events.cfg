SPECIFICATION DeliverySpec
CONSTANTS
  Undefined = Undefined
  OrderIds = {o1}
  IntentIds = {i1}
  ProviderIds = {d1}
  OperatorProviderIds = {}
  ReasonCodes = {failed}
  StripeEventIds = {}
  ProviderEventIds = {e1, e2}
  Invocations = {w1, op1, v1, v2}
  Workers = {w1}
  OperatorInvocations = {op1}
  ProviderInvocations = {v1, v2}
  MaxTime = 2
  MaxCrashes = 0
  TransactionConflicts = TRUE
  VendorConsistent = TRUE
  VendorReusesIds = TRUE
  MaxVersion = 5
  MaxReceives = 1
  MaxDuplicates = 0
SYMMETRY Symmetry
INVARIANTS DeliveryTypeOK AcceptanceIsTruthful
  
CHECK_DEADLOCK FALSE
