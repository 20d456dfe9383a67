SPECIFICATION Surroundings
CONSTANTS
  Undefined = Undefined
  OrderIds = {o1, o2}
  IntentIds = {i1}
  ProviderIds = {d1}
  ReasonCodes = {failed}
  StripeEventIds = {a1, a2}
  ProviderEventIds = {}
  Invocations = {s1, c1}
  PrepareInvocations = {}
  StripeWebhookInvocations = {s1}
  MaxTime = 0
  TransactionConflicts = FALSE
  MaxCrashes = 1
  IntentStatuses = {"REQUIRES_PAYMENT_METHOD", "SUCCEEDED", "CANCELLED"}
  ForeignIntents <- NoForeignIntents
  Campaigner = c1
  CampaignLimit = 2
  MaxReassignments = 1
  MaxExecutions = 2
  Keys = {k0, k1, k2}
  OtherKeys = {k0}
  MerchantOrderIds = {m1, m2}
  Contents = {x}
  Calls = {a1, a2}
  MaxVersion = 2
  Browsers = {b1}
  MaxRetries = 2
  MaxPolls = 2
  Callers = {l1, l2, l3}
  MaxAttempts = 3
  OrderNumbers = {1, 2, 3}
  Statuses = {t1, t2}
  InitialStatus = t1
  Times = {1, 2}
  Limits = {1, 2}
  MaxChanges = 2
  BatchSize = 2
  MaximumRetryAttempts = 1
  PaymentStatuses = {"REQUIRES_PAYMENT_METHOD", "SUCCEEDED", "CANCELLED"}
  MaxRecords = 5
  Commits = {h1}
  MaxDeploys = 2
  MaxDeaths = 1
  MaxFailures = 1
  DeliveryKeys = {q1}
  Parcels = {p1, p2}
  Submissions = {r1, r2}
  Scenarios = {"success", "server-error", "timeout", "malformed-response"}
  WebhookMaximumAttempts = 3
  MaxDisturbances = 2
SYMMETRY Symmetry
INVARIANTS SurroundingsTypeOK
INVARIANTS OneOrderPerKeyAndClaim AnswersAreTrue SubmissionMakesOneOrder
INVARIANTS FailureIsForgottenInTime WalkListsLastingOrdersOnce SuccessMeansSettled
INVARIANTS NothingSkipped PendingIsRequested 
INVARIANTS  SecretIsRecoverable DestroyedMeansGone ActiveLabIsWhole
INVARIANTS GivesUpOnlyAfterTrying
PROPERTIES PublishedInOrder TrackedNeverGoesBack CampaignKeepsToReview EventsArriveInOrder
CHECK_DEADLOCK FALSE
