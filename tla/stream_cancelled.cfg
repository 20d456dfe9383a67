SPECIFICATION PublisherSpec
CONSTANTS
  Undefined = Undefined
  OrderIds = {o1, o2}
  IntentIds = {i1}
  ProviderIds = {d1}
  ReasonCodes = {failed}
  BatchSize = 2
  MaximumRetryAttempts = 1
  PaymentStatuses = {"REQUIRES_PAYMENT_METHOD", "SUCCEEDED", "CANCELLED"}
  MaxRecords = 4
SYMMETRY Symmetry
INVARIANTS CancellationsCanBeTold
CHECK_DEADLOCK FALSE
