SPECIFICATION JourneySpec
CONSTANTS
  Undefined = Undefined
  OrderIds = {o1, o2}
  Keys = {k0, k1, k2}
  OtherKeys = {k0}
  MerchantOrderIds = {m1, m2}
  Contents = {x}
  Calls = {a1, a2}
  MaxVersion = 2
  Browsers = {b1}
  MaxRetries = 2
  MaxPolls = 2
SYMMETRY Symmetry
INVARIANTS RejectedLeavesNoOrder
CHECK_DEADLOCK FALSE
