-------------------------- MODULE BrowserJourneyProofs --------------------------
(***************************************************************************)
(* Creation of orders over the API and from a page, for any number of      *)
(* keys, merchant order ids, calls under way and pages.                    *)
(***************************************************************************)
EXTENDS BrowserJourney, FiniteSetTheorems, TLAPS

(***************************************************************************)
(* The inductive invariant.                                                *)
(***************************************************************************)
TablesTyped ==
  /\ items \in [OrderIds -> Item \cup {Undefined}]
  /\ keyItems \in [Keys -> KeyItem \cup {Undefined}]
  /\ claims \in [MerchantOrderIds -> OrderIds \cup {Undefined}]
  /\ call = [c \in Calls |-> call[c]]

\* A key's item names an order made from the request it was made from, every
\* order has one key, and an order holds the claim of its merchant order id.
KeysNameOrders ==
  \A k \in Keys :
    keyItems[k] # Undefined =>
      items[keyItems[k].orderId] # Undefined
        /\ items[keyItems[k].orderId].request = keyItems[k].fingerprint

ClaimsNameOrders ==
  \A m \in MerchantOrderIds, o \in OrderIds :
    claims[m] = o <=> (items[o] # Undefined /\ items[o].request.merchantOrderId = m)

Names(k, o) == keyItems[k] # Undefined /\ keyItems[k].orderId = o

OrdersHaveOneKey ==
  /\ \A o \in OrderIds : items[o] # Undefined => \E k \in Keys : Names(k, o)
  /\ \A o \in OrderIds, k, l \in Keys : Names(k, o) /\ Names(l, o) => k = l

\* The merchant order id of a request is taken, and not by this request.
ClaimedByAnother(f) ==
  /\ claims[f.request.merchantOrderId] # Undefined
  /\ keyItems[f.key] # Undefined => keyItems[f.key].fingerprint # f.request

\* What a call knows at each step.
FrameHolds(f) ==
  f.at # "idle" =>
    /\ f.key \in Keys /\ f.request \in Request
    /\ f.at = "create" => f.id \in OrderIds /\ items[f.id] = Undefined
    /\ f.at = "resolveKey" =>
         keyItems[f.key] # Undefined \/ claims[f.request.merchantOrderId] # Undefined
    /\ f.at = "resolveReplay" => KeyIsForCall(f)
    /\ f.at = "resolveClaim" => ClaimedByAnother(f)
    /\ f.at = "answered" => AnswerIsTrue(f)

CreatesDiffer ==
  \A c, d \in Calls :
    call[c].at = "create" /\ call[d].at = "create" /\ call[c].id = call[d].id => c = d

ApiInv ==
  /\ TablesTyped
  /\ KeysNameOrders
  /\ ClaimsNameOrders
  /\ OrdersHaveOneKey
  /\ \A c \in Calls : FrameHolds(call[c])
  /\ CreatesDiffer

(***************************************************************************)
(* The API.                                                                *)
(***************************************************************************)

\* A step that changes one call only, to one whose frame holds and which, if
\* it creates, does so under an order id of its own.
LEMMA CallStep ==
  ASSUME ApiInv, UNCHANGED itemVars, NEW c \in Calls, NEW f,
         call' = [call EXCEPT ![c] = f], FrameHolds(f),
         f.at = "create" =>
           \A d \in Calls : call[d].at = "create" => call[d].id # f.id
  PROVE  ApiInv'
<1>1. TablesTyped' /\ KeysNameOrders' /\ ClaimsNameOrders' /\ OrdersHaveOneKey'
  BY DEF ApiInv, TablesTyped, KeysNameOrders, ClaimsNameOrders, OrdersHaveOneKey, Names, itemVars
<1>2. call'[c] = f /\ \A d \in Calls : d # c => call'[d] = call[d]
  BY DEF ApiInv, TablesTyped
<1>3. FrameHolds(f)'
  BY DEF FrameHolds, ClaimedByAnother, AnswerIsTrue, KeyIsForCall, itemVars
<1>4. ASSUME NEW d \in Calls PROVE FrameHolds(call[d])'
  <2>1. CASE d = c
    BY <2>1, <1>2, <1>3 DEF FrameHolds, ClaimedByAnother, AnswerIsTrue, KeyIsForCall, itemVars
  <2>2. CASE d # c
    BY <2>2, <1>2 DEF ApiInv, FrameHolds, ClaimedByAnother, AnswerIsTrue, KeyIsForCall, itemVars
  <2> QED BY <2>1, <2>2
<1>5. CreatesDiffer'
  BY <1>2 DEF ApiInv, CreatesDiffer
<1> QED BY <1>1, <1>4, <1>5 DEF ApiInv

\* A request that is sent.
LEMMA SendKeepsApi ==
  ASSUME ApiInv, UNCHANGED itemVars, NEW c \in Calls, NEW k \in Keys, NEW r \in Request,
         Send(c, k, r)
  PROVE  ApiInv'
<1> DEFINE f == [at |-> "sent", key |-> k, request |-> r, id |-> Undefined]
<1>1. FrameHolds(f) /\ f.at # "create"
  BY DEF FrameHolds
<1>2. call' = [call EXCEPT ![c] = f]
  BY DEF Send
<1> HIDE DEF f
<1> QED BY <1>1, <1>2, CallStep

\* An answer.
LEMMA AnswerKeepsApi ==
  ASSUME ApiInv, UNCHANGED itemVars, NEW c \in Calls, call[c].at # "idle",
         NEW answer, NEW o, Answer(c, answer, o),
         AnswerIsTrue(AnswerOf(c, answer, o))
  PROVE  ApiInv'
<1> DEFINE f == AnswerOf(c, answer, o)
<1>1. FrameHolds(f) /\ f.at # "create"
  <2>1. f.at = "answered" /\ f.key = call[c].key /\ f.request = call[c].request
    BY DEF AnswerOf
  <2>2. call[c].key \in Keys /\ call[c].request \in Request
    BY DEF ApiInv, FrameHolds
  <2>3. AnswerIsTrue(f)
    OBVIOUS
  <2> HIDE DEF f
  <2> QED BY <2>1, <2>2, <2>3 DEF FrameHolds
<1>2. call' = [call EXCEPT ![c] = f]
  BY DEF Answer
<1> HIDE DEF f
<1> QED BY <1>1, <1>2, CallStep

LEMMA GoOnKeepsApi ==
  ASSUME ApiInv, UNCHANGED itemVars, NEW c \in Calls, NEW at, NEW o, GoOn(c, at, o),
         at # "create",
         FrameHolds([at |-> at, key |-> call[c].key, request |-> call[c].request, id |-> o])
  PROVE  ApiInv'
<1> DEFINE f == [at |-> at, key |-> call[c].key, request |-> call[c].request, id |-> o]
<1>1. FrameHolds(f) /\ f.at # "create"
  OBVIOUS
<1>2. call' = [call EXCEPT ![c] = f]
  BY DEF GoOn
<1> HIDE DEF f
<1> QED BY <1>1, <1>2, CallStep

LEMMA ApiHandlesKeepsApi ==
  ASSUME ApiInv, NEW c \in Calls, ApiHandles(c)
  PROVE  ApiInv'
<1>1. call[c].at = "sent" /\ UNCHANGED itemVars
  BY DEF ApiHandles
<1>2. CASE Answer(c, "unauthorized", Undefined)
  <2>1. AnswerIsTrue(AnswerOf(c, "unauthorized", Undefined))
    BY DEF AnswerIsTrue, AnswerOf
  <2> QED BY <1>1, <1>2, <2>1, AnswerKeepsApi
<1>3. ASSUME NEW o \in OrderIds,
             items[o] = Undefined,
             \A d \in Calls : call[d] # NoCall => call[d].id # o,
             GoOn(c, "create", o)
      PROVE  ApiInv'
  <2> DEFINE f == [at |-> "create", key |-> call[c].key, request |-> call[c].request, id |-> o]
  <2>1. FrameHolds(f)
    BY <1>1, <1>3 DEF ApiInv, FrameHolds
  <2>2. \A d \in Calls : call[d].at = "create" => call[d].id # f.id
    BY <1>3 DEF NoCall
  <2>3. call' = [call EXCEPT ![c] = f]
    BY <1>3 DEF GoOn
  <2> HIDE DEF f
  <2> QED BY <1>1, <2>1, <2>2, <2>3, CallStep
<1> QED BY <1>2, <1>3 DEF ApiHandles

\* The transaction commits.
LEMMA PutKeepsApi ==
  ASSUME ApiInv, NEW c \in Calls, NEW answer \in {"created", "error"}, NEW o,
         call[c].at = "create",
         CreateCommits(call[c].key, call[c].request, call[c].id),
         PutItems(call[c].key, call[c].request, call[c].id),
         Answer(c, answer, o),
         answer = "created" => o = call[c].id
  PROVE  ApiInv'
<1> DEFINE k == call[c].key
           r == call[c].request
           id == call[c].id
           item == [request |-> r, stage |-> "awaiting", version |-> 1]
           keyItem == [fingerprint |-> r, orderId |-> id]
<1>0. PICK f : f = AnswerOf(c, answer, o)
  OBVIOUS
<1>1. k \in Keys /\ r \in Request /\ id \in OrderIds /\ r.merchantOrderId \in MerchantOrderIds
  BY DEF ApiInv, FrameHolds, Request
<1>2. items[id] = Undefined /\ keyItems[k] = Undefined /\ claims[r.merchantOrderId] = Undefined
  BY DEF CreateCommits
<1>3. /\ items' = [items EXCEPT ![id] = item]
      /\ keyItems' = [keyItems EXCEPT ![k] = keyItem]
      /\ claims' = [claims EXCEPT ![r.merchantOrderId] = id]
      /\ call' = [call EXCEPT ![c] = f]
  BY <1>0 DEF PutItems, Answer
<1>4. item \in Item /\ item # Undefined /\ item.request = r
  BY <1>1, ApiConstants, UndefinedIsNoItem DEF Item, Stages
<1>5. /\ keyItem \in KeyItem /\ keyItem # Undefined
      /\ keyItem.fingerprint = r /\ keyItem.orderId = id
  BY <1>1, UndefinedIsNoItem DEF KeyItem
<1>6. f.at = "answered" /\ f.key = k /\ f.request = r /\ f.answer = answer /\ f.id = o
  BY <1>0 DEF AnswerOf
<1> HIDE DEF k, r, id, item, keyItem
<1>7. TablesTyped'
  BY <1>1, <1>3, <1>4, <1>5 DEF ApiInv, TablesTyped
<1>8. /\ items'[id] = item /\ \A x \in OrderIds : x # id => items'[x] = items[x]
      /\ keyItems'[k] = keyItem /\ \A x \in Keys : x # k => keyItems'[x] = keyItems[x]
      /\ claims'[r.merchantOrderId] = id
      /\ \A m \in MerchantOrderIds : m # r.merchantOrderId => claims'[m] = claims[m]
      /\ call'[c] = f /\ \A d \in Calls : d # c => call'[d] = call[d]
  BY <1>1, <1>3 DEF ApiInv, TablesTyped
<1>9. \A x \in Keys : keyItems[x] # Undefined => keyItems[x].orderId \in OrderIds
  BY DEF ApiInv, TablesTyped, KeyItem
<1>10. \A x \in Keys : keyItems[x] # Undefined => keyItems[x].orderId # id
  BY <1>2 DEF ApiInv, KeysNameOrders
<1>11. KeysNameOrders'
  BY <1>4, <1>5, <1>8, <1>9, <1>10 DEF ApiInv, KeysNameOrders
<1>12. ClaimsNameOrders'
  BY <1>1, <1>2, <1>4, <1>8, UndefinedIsNoOrderId DEF ApiInv, ClaimsNameOrders
<1>13. OrdersHaveOneKey'
  BY <1>1, <1>2, <1>5, <1>8, <1>10 DEF ApiInv, OrdersHaveOneKey, Names
<1>14. FrameHolds(f)'
  BY <1>1, <1>5, <1>6, <1>8 DEF FrameHolds, AnswerIsTrue, KeyIsForCall, id
<1>15. ASSUME NEW d \in Calls, d # c PROVE FrameHolds(call[d])'
  <2>0. PICK g : g = call[d]
    OBVIOUS
  <2>1. FrameHolds(g) /\ call'[d] = g
    BY <1>8, <1>15, <2>0 DEF ApiInv
  <2>2. g.at = "create" => g.id # id
    BY <1>15, <2>0 DEF ApiInv, CreatesDiffer, id
  <2>3. g.at # "idle" => g.request.merchantOrderId \in MerchantOrderIds /\ g.key \in Keys
    BY <2>1 DEF FrameHolds, Request
  <2>4. SUFFICES ASSUME g.at # "idle" PROVE FrameHolds(g)'
    BY <2>1 DEF FrameHolds
  <2>5. claims[g.request.merchantOrderId] # Undefined =>
          /\ claims'[g.request.merchantOrderId] # Undefined
          /\ g.request # r
    BY <1>2, <1>8, <2>3, <2>4
  <2>6. keyItems[g.key] # Undefined => keyItems'[g.key] = keyItems[g.key]
    BY <1>2, <1>8, <2>3, <2>4
  <2>7. keyItems[g.key] = Undefined =>
          keyItems'[g.key] = Undefined \/ keyItems'[g.key].fingerprint = r
    BY <1>5, <1>8, <2>3, <2>4
  <2>8. ClaimedByAnother(g) => ClaimedByAnother(g)'
    BY <2>5, <2>6, <2>7 DEF ClaimedByAnother
  <2>9. AnswerIsTrue(g) => AnswerIsTrue(g)'
    BY <2>5, <2>6, <2>7 DEF AnswerIsTrue, KeyIsForCall
  <2>10. g.at = "create" => items'[g.id] = Undefined
    BY <1>8, <2>1, <2>2, <2>4 DEF FrameHolds
  <2>11. g.at = "resolveKey" =>
           keyItems'[g.key] # Undefined \/ claims'[g.request.merchantOrderId] # Undefined
    BY <2>1, <2>4, <2>5, <2>6 DEF FrameHolds
  <2>12. g.at = "resolveReplay" => KeyIsForCall(g)'
    BY <2>1, <2>4, <2>6 DEF FrameHolds, KeyIsForCall
  <2> QED BY <2>1, <2>4, <2>8, <2>9, <2>10, <2>11, <2>12 DEF FrameHolds
<1>16. \A d \in Calls : FrameHolds(call[d])'
  BY <1>8, <1>14, <1>15 DEF FrameHolds, AnswerIsTrue, KeyIsForCall, ClaimedByAnother
<1>17. CreatesDiffer'
  BY <1>6, <1>8 DEF ApiInv, CreatesDiffer
<1> QED BY <1>7, <1>11, <1>12, <1>13, <1>16, <1>17 DEF ApiInv

LEMMA ApiCreatesKeepsApi ==
  ASSUME ApiInv, NEW c \in Calls, ApiCreates(c)
  PROVE  ApiInv'
<1>1. call[c].at = "create"
  BY DEF ApiCreates
<1>2. CASE /\ CreateCommits(call[c].key, call[c].request, call[c].id)
           /\ PutItems(call[c].key, call[c].request, call[c].id)
           /\ Answer(c, "created", call[c].id)
  BY <1>1, <1>2, PutKeepsApi
<1>3. CASE /\ CreateCommits(call[c].key, call[c].request, call[c].id)
           /\ PutItems(call[c].key, call[c].request, call[c].id)
           /\ Answer(c, "error", Undefined)
  BY <1>1, <1>3, PutKeepsApi
<1>4. CASE /\ ~CreateCommits(call[c].key, call[c].request, call[c].id)
           /\ GoOn(c, "resolveKey", Undefined)
           /\ UNCHANGED itemVars
  <2>1. FrameHolds([at |-> "resolveKey", key |-> call[c].key, request |-> call[c].request,
                    id |-> Undefined])
    BY <1>1, <1>4 DEF ApiInv, FrameHolds, CreateCommits
  <2> QED BY <1>4, <2>1, GoOnKeepsApi
<1>5. CASE Answer(c, "error", Undefined) /\ UNCHANGED itemVars
  <2>1. AnswerIsTrue(AnswerOf(c, "error", Undefined))
    BY DEF AnswerIsTrue, AnswerOf
  <2> QED BY <1>1, <1>5, <2>1, AnswerKeepsApi
<1> QED BY <1>2, <1>3, <1>4, <1>5 DEF ApiCreates

LEMMA ApiResolvesKeyKeepsApi ==
  ASSUME ApiInv, NEW c \in Calls, ApiResolvesKey(c)
  PROVE  ApiInv'
<1>1. call[c].at = "resolveKey" /\ UNCHANGED itemVars
  BY DEF ApiResolvesKey
<1>2. CASE keyItems[call[c].key] = Undefined /\ GoOn(c, "resolveClaim", Undefined)
  <2>1. FrameHolds([at |-> "resolveClaim", key |-> call[c].key, request |-> call[c].request,
                    id |-> Undefined])
    BY <1>1, <1>2 DEF ApiInv, FrameHolds, ClaimedByAnother
  <2> QED BY <1>1, <1>2, <2>1, GoOnKeepsApi
<1>3. CASE /\ keyItems[call[c].key] # Undefined
           /\ SameFingerprint(call[c].key, call[c].request)
           /\ GoOn(c, "resolveReplay", keyItems[call[c].key].orderId)
  <2>1. FrameHolds([at |-> "resolveReplay", key |-> call[c].key, request |-> call[c].request,
                    id |-> keyItems[call[c].key].orderId])
    BY <1>1, <1>3 DEF ApiInv, FrameHolds, KeyIsForCall, SameFingerprint
  <2> QED BY <1>1, <1>3, <2>1, GoOnKeepsApi
<1>4. CASE /\ keyItems[call[c].key] # Undefined
           /\ ~SameFingerprint(call[c].key, call[c].request)
           /\ Answer(c, "idempotencyConflict", Undefined)
  <2>1. AnswerIsTrue(AnswerOf(c, "idempotencyConflict", Undefined))
    BY <1>4 DEF AnswerIsTrue, AnswerOf, SameFingerprint
  <2> QED BY <1>1, <1>4, <2>1, AnswerKeepsApi
<1> QED BY <1>2, <1>3, <1>4 DEF ApiResolvesKey

LEMMA ApiReplaysKeepsApi ==
  ASSUME ApiInv, NEW c \in Calls, ApiReplays(c)
  PROVE  ApiInv'
<1>1. call[c].at = "resolveReplay" /\ UNCHANGED itemVars
  BY DEF ApiReplays
<1>2. KeyIsForCall(call[c]) /\ call[c].key \in Keys
  BY <1>1 DEF ApiInv, FrameHolds
<1>3. items[call[c].id] # Undefined
  BY <1>2 DEF ApiInv, KeysNameOrders, KeyIsForCall
<1>4. Answer(c, "replayed", call[c].id)
  BY <1>3 DEF ApiReplays
<1>5. AnswerIsTrue(AnswerOf(c, "replayed", call[c].id))
  BY <1>2 DEF AnswerIsTrue, AnswerOf, KeyIsForCall
<1> QED BY <1>1, <1>4, <1>5, AnswerKeepsApi

LEMMA ApiResolvesClaimKeepsApi ==
  ASSUME ApiInv, NEW c \in Calls, ApiResolvesClaim(c)
  PROVE  ApiInv'
<1>1. call[c].at = "resolveClaim" /\ UNCHANGED itemVars
  BY DEF ApiResolvesClaim
<1>2. ClaimedByAnother(call[c])
  BY <1>1 DEF ApiInv, FrameHolds
<1>3. Answer(c, "merchantOrderIdConflict", Undefined)
  BY <1>2 DEF ApiResolvesClaim, ClaimedByAnother
<1>4. AnswerIsTrue(AnswerOf(c, "merchantOrderIdConflict", Undefined))
  BY <1>2 DEF AnswerIsTrue, AnswerOf, ClaimedByAnother
<1> QED BY <1>1, <1>3, <1>4, AnswerKeepsApi

LEMMA ApiStepKeepsApi ==
  ASSUME ApiInv, ApiStep
  PROVE  ApiInv'
<1>1. ASSUME NEW c \in Calls, ApiDies(c) PROVE ApiInv'
  <2>1. AnswerIsTrue(AnswerOf(c, "error", Undefined))
    BY DEF AnswerIsTrue, AnswerOf
  <2>2. call[c].at # "idle" /\ Answer(c, "error", Undefined) /\ UNCHANGED itemVars
    BY <1>1 DEF ApiDies
  <2> QED BY <2>1, <2>2, AnswerKeepsApi
<1> QED BY <1>1, ApiHandlesKeepsApi, ApiCreatesKeepsApi, ApiResolvesKeyKeepsApi,
           ApiReplaysKeepsApi, ApiResolvesClaimKeepsApi DEF ApiStep

\* The rest of the service changes neither requests nor who exists.
LEMMA OrderMovesOnKeepsApi ==
  ASSUME ApiInv, NEW o \in OrderIds, OrderMovesOn(o)
  PROVE  /\ ApiInv'
         /\ UNCHANGED <<keyItems, claims, call>>
         /\ \A x \in OrderIds :
              /\ items'[x] = Undefined <=> items[x] = Undefined
              /\ items[x] # Undefined => items[x].version <= items'[x].version
<1>1. UNCHANGED <<keyItems, claims, call>>
  BY DEF OrderMovesOn
<1>2. PICK item : /\ items' = [items EXCEPT ![o] = item]
                  /\ item \in Item /\ item.request = items[o].request
                  /\ item.version = items[o].version + 1
  <2>1. items[o] \in Item
    BY DEF ApiInv, TablesTyped, OrderMovesOn
  <2>2. PICK s \in NextStages(items[o].stage) :
          items' = [items EXCEPT ![o] =
            [request |-> items[o].request, stage |-> s, version |-> items[o].version + 1]]
    BY DEF OrderMovesOn
  <2>3. s \in Stages /\ items[o].version + 1 \in 1..MaxVersion /\ items[o].request \in Request
    BY <2>1, <2>2, ApiConstants DEF NextStages, Stages, Item, OrderMovesOn
  <2> DEFINE next ==
        [request |-> items[o].request, stage |-> s, version |-> items[o].version + 1]
  <2>4. /\ next \in Item /\ next.request = items[o].request
        /\ next.version = items[o].version + 1
    BY <2>3 DEF Item
  <2> HIDE DEF next
  <2> QED BY <2>2, <2>4 DEF next
<1>3. items[o] \in Item /\ items[o] # Undefined
  BY DEF ApiInv, TablesTyped, OrderMovesOn
<1>4. items'[o] = item /\ \A x \in OrderIds : x # o => items'[x] = items[x]
  BY <1>2 DEF ApiInv, TablesTyped
<1>5. \A x \in OrderIds :
        /\ items'[x] = Undefined <=> items[x] = Undefined
        /\ items[x] # Undefined => items'[x].request = items[x].request
  BY <1>2, <1>3, <1>4, UndefinedIsNoItem
<1>6. \A x \in OrderIds : items[x] # Undefined => items[x].version <= items'[x].version
  <2>1. \A x \in OrderIds : items[x] # Undefined => items[x].version \in Nat
    BY ApiConstants DEF ApiInv, TablesTyped, Item
  <2> QED BY <1>2, <1>3, <1>4, <2>1
<1>7. TablesTyped'
  BY <1>1, <1>2 DEF ApiInv, TablesTyped
<1>8. \A x \in Keys : keyItems[x] # Undefined => keyItems[x].orderId \in OrderIds
  BY DEF ApiInv, TablesTyped, KeyItem
<1>9. KeysNameOrders' /\ ClaimsNameOrders' /\ OrdersHaveOneKey' /\ CreatesDiffer'
  BY <1>1, <1>5, <1>8
     DEF ApiInv, KeysNameOrders, ClaimsNameOrders, OrdersHaveOneKey, Names, CreatesDiffer
<1>10. \A c \in Calls : FrameHolds(call[c])'
  BY <1>1, <1>5 DEF ApiInv, FrameHolds, ClaimedByAnother, AnswerIsTrue, KeyIsForCall
<1> QED BY <1>1, <1>5, <1>6, <1>7, <1>9, <1>10 DEF ApiInv

LEMMA ApiInitHolds == ApiInit => ApiInv
  BY UndefinedIsNoOrderId
     DEF ApiInit, ApiInv, TablesTyped, KeysNameOrders, ClaimsNameOrders, OrdersHaveOneKey, Names,
         FrameHolds, CreatesDiffer, NoCall

\* The answers hold, and every order has the one key and the one claim.
LEMMA ApiInvImplies == ApiInv => OneOrderPerKeyAndClaim /\ AnswersAreTrue
<1> SUFFICES ASSUME ApiInv PROVE OneOrderPerKeyAndClaim /\ AnswersAreTrue
  OBVIOUS
<1>1. AnswersAreTrue
  BY DEF ApiInv, AnswersAreTrue, FrameHolds
<1>2. ASSUME NEW o \in OrderIds, items[o] # Undefined
      PROVE  Cardinality({k \in Keys : keyItems[k] # Undefined /\ keyItems[k].orderId = o}) = 1
  <2>1. PICK k \in Keys : Names(k, o)
    BY <1>2 DEF ApiInv, OrdersHaveOneKey
  <2>2. {l \in Keys : keyItems[l] # Undefined /\ keyItems[l].orderId = o} = {k}
    BY <2>1 DEF ApiInv, OrdersHaveOneKey, Names
  <2> QED BY <2>2, FS_Singleton
<1> QED BY <1>1, <1>2 DEF ApiInv, KeysNameOrders, ClaimsNameOrders, OneOrderPerKeyAndClaim

(***************************************************************************)
(* Pages.                                                                  *)
(***************************************************************************)

\* What a page keeps, as far as the creations depend on it.
PageTyped(op) ==
  /\ op.key \in (Keys \ OtherKeys) \cap usedKeys
  /\ op.request \in Request
  /\ op.attemptCount \in Nat \ {0}
  /\ op.state = "IN_FLIGHT" =>
       op.over \in Calls /\ call[op.over].at # "idle" /\ call[op.over].key = op.key

PagesTyped ==
  /\ DOMAIN operation = Browsers
  /\ \A b \in Browsers : operation[b] # Undefined => PageTyped(operation[b])

Active(c) == call[c].at # "idle"

\* A key a page generated is known as used wherever it turns up.
KeysAreUsed ==
  /\ \A k \in Keys \ OtherKeys : keyItems[k] # Undefined => k \in usedKeys
  /\ \A c \in Calls : Active(c) /\ call[c].key \notin OtherKeys => call[c].key \in usedKeys

PagesDiffer ==
  \A b, d \in Browsers :
    operation[b] # Undefined /\ operation[d] # Undefined
      /\ operation[b].key = operation[d].key => b = d

\* A call that has not reached the repository, and will not without a step.
Untried(a) == a.at = "sent" \/ (a.at = "answered" /\ a.answer = "unauthorized")

\* A page's key stands for its request in every item and call, and has no
\* item while nothing of its first attempt can have made one.
PageHolds(op) ==
  /\ keyItems[op.key] # Undefined => keyItems[op.key].fingerprint = op.request
  /\ \A c \in Calls : Active(c) /\ call[c].key = op.key => call[c].request = op.request
  /\ op.state = "SUCCEEDED" =>
       keyItems[op.key] # Undefined /\ keyItems[op.key].orderId = op.order
  /\ op.attemptCount = 1 /\ op.state = "IN_FLIGHT" =>
       /\ \A c \in Calls : Active(c) /\ call[c].key = op.key => c = op.over
       /\ Untried(call[op.over]) => keyItems[op.key] = Undefined
  /\ op.attemptCount = 1 /\ op.state = "REJECTED" =>
       /\ keyItems[op.key] = Undefined
       /\ \A c \in Calls : Active(c) => call[c].key # op.key

PageInv ==
  /\ PagesTyped
  /\ KeysAreUsed
  /\ PagesDiffer
  /\ \A b \in Browsers : operation[b] # Undefined => PageHolds(operation[b])

\* What a step of the API does to a call and to the keys' items.
CallMoves(c, f) ==
  /\ Active(c)
  /\ call' = [call EXCEPT ![c] = f]
  /\ f.at # "idle" /\ f.key = call[c].key /\ f.request = call[c].request
  /\ Untried(f) => Untried(call[c]) /\ UNCHANGED keyItems
  /\ \/ UNCHANGED keyItems
     \/ /\ call[c].at = "create"
        /\ keyItems[call[c].key] = Undefined
        /\ keyItems' = [keyItems EXCEPT ![call[c].key] =
             [fingerprint |-> call[c].request, orderId |-> call[c].id]]

LEMMA ApiStepShape ==
  ASSUME ApiInv, ApiStep
  PROVE  \E c \in Calls : \E f : CallMoves(c, f)
<1>1. ASSUME NEW c \in Calls, Active(c), NEW o,
             NEW at \in {"create", "resolveKey", "resolveClaim", "resolveReplay"},
             GoOn(c, at, o), UNCHANGED keyItems
      PROVE  \E f : CallMoves(c, f)
  <2>0. PICK f : f = [at |-> at, key |-> call[c].key, request |-> call[c].request, id |-> o]
    OBVIOUS
  <2>1. CallMoves(c, f)
    BY <1>1, <2>0 DEF GoOn, Untried, CallMoves
  <2> QED BY <2>1
<1>2. ASSUME NEW c \in Calls, Active(c), NEW answer, NEW o, Answer(c, answer, o),
             answer = "unauthorized" => Untried(call[c]) /\ UNCHANGED keyItems,
             \/ UNCHANGED keyItems
             \/ /\ call[c].at = "create"
                /\ keyItems[call[c].key] = Undefined
                /\ keyItems' = [keyItems EXCEPT ![call[c].key] =
                     [fingerprint |-> call[c].request, orderId |-> call[c].id]]
      PROVE  \E f : CallMoves(c, f)
  <2>0. PICK f : f = AnswerOf(c, answer, o)
    OBVIOUS
  <2>1. /\ f.at = "answered" /\ f.key = call[c].key /\ f.request = call[c].request
        /\ f.answer = answer
    BY <2>0 DEF AnswerOf
  <2>2. Untried(f) => answer = "unauthorized"
    BY <2>1 DEF Untried
  <2>3. call' = [call EXCEPT ![c] = f]
    BY <2>0, <1>2 DEF Answer
  <2>4. CallMoves(c, f)
    BY <1>2, <2>1, <2>2, <2>3 DEF CallMoves
  <2> QED BY <2>4
<1>3. PICK c \in Calls :
        \/ ApiHandles(c) \/ ApiCreates(c) \/ ApiResolvesKey(c) \/ ApiReplays(c)
        \/ ApiResolvesClaim(c) \/ ApiDies(c)
  BY DEF ApiStep
<1>4. Active(c)
  BY <1>3 DEF ApiHandles, ApiCreates, ApiResolvesKey, ApiReplays, ApiResolvesClaim, ApiDies, Active
<1>5. ASSUME ApiHandles(c) PROVE \E f : CallMoves(c, f)
  <2>1. UNCHANGED keyItems /\ Untried(call[c])
    BY <1>5 DEF ApiHandles, itemVars, Untried
  <2>2. CASE Answer(c, "unauthorized", Undefined)
    BY <1>2, <1>4, <2>1, <2>2
  <2>3. CASE \E o \in OrderIds : GoOn(c, "create", o)
    BY <1>1, <1>4, <2>1, <2>3
  <2> QED BY <1>5, <2>2, <2>3 DEF ApiHandles
<1>6. ASSUME ApiCreates(c) PROVE \E f : CallMoves(c, f)
  <2>1. call[c].at = "create"
    BY <1>6 DEF ApiCreates
  <2>2. CASE /\ CreateCommits(call[c].key, call[c].request, call[c].id)
             /\ PutItems(call[c].key, call[c].request, call[c].id)
             /\ Answer(c, "created", call[c].id) \/ Answer(c, "error", Undefined)
    <3>1. /\ keyItems[call[c].key] = Undefined
          /\ keyItems' = [keyItems EXCEPT ![call[c].key] =
               [fingerprint |-> call[c].request, orderId |-> call[c].id]]
      BY <2>2 DEF CreateCommits, PutItems
    <3> QED BY <1>2, <1>4, <2>1, <2>2, <3>1
  <2>3. CASE GoOn(c, "resolveKey", Undefined) /\ UNCHANGED itemVars
    BY <1>1, <1>4, <2>3 DEF itemVars
  <2>4. CASE Answer(c, "error", Undefined) /\ UNCHANGED itemVars
    BY <1>2, <1>4, <2>4 DEF itemVars
  <2> QED BY <1>6, <2>2, <2>3, <2>4 DEF ApiCreates
<1>7. ASSUME ApiResolvesKey(c) PROVE \E f : CallMoves(c, f)
  <2>1. UNCHANGED keyItems
    BY <1>7 DEF ApiResolvesKey, itemVars
  <2>2. CASE GoOn(c, "resolveClaim", Undefined) \/ GoOn(c, "resolveReplay", keyItems[call[c].key].orderId)
    BY <1>1, <1>4, <2>1, <2>2
  <2>3. CASE Answer(c, "idempotencyConflict", Undefined)
    BY <1>2, <1>4, <2>1, <2>3
  <2> QED BY <1>7, <2>2, <2>3 DEF ApiResolvesKey
<1>8. ASSUME ApiReplays(c) PROVE \E f : CallMoves(c, f)
  <2>1. UNCHANGED keyItems
    BY <1>8 DEF ApiReplays, itemVars
  <2>2. Answer(c, "keyWithoutOrder", Undefined) \/ Answer(c, "replayed", call[c].id)
    BY <1>8 DEF ApiReplays
  <2> QED BY <1>2, <1>4, <2>1, <2>2
<1>9. ASSUME ApiResolvesClaim(c) PROVE \E f : CallMoves(c, f)
  <2>1. UNCHANGED keyItems
    BY <1>9 DEF ApiResolvesClaim, itemVars
  <2>2. Answer(c, "merchantOrderIdConflict", Undefined) \/ Answer(c, "noConflictFound", Undefined)
    BY <1>9 DEF ApiResolvesClaim
  <2> QED BY <1>2, <1>4, <2>1, <2>2
<1>10. ASSUME ApiDies(c) PROVE \E f : CallMoves(c, f)
  BY <1>2, <1>4, <1>10 DEF ApiDies, itemVars
<1>11. PICK f : CallMoves(c, f)
  BY <1>3, <1>5, <1>6, <1>7, <1>8, <1>9, <1>10
<1> QED BY <1>11

LEMMA ApiStepKeepsPages ==
  ASSUME ApiInv, PageInv, ApiStep, UNCHANGED browserVars
  PROVE  PageInv'
<1>0. UNCHANGED <<operation, usedKeys>>
  BY DEF browserVars
<1>1. PICK c \in Calls : \E f : CallMoves(c, f)
  BY ApiStepShape
<1>10. PICK f : CallMoves(c, f)
  BY <1>1
<1>11. /\ Active(c)
       /\ call' = [call EXCEPT ![c] = f]
       /\ f.at # "idle" /\ f.key = call[c].key /\ f.request = call[c].request
       /\ Untried(f) => Untried(call[c]) /\ UNCHANGED keyItems
       /\ \/ UNCHANGED keyItems
          \/ /\ call[c].at = "create"
             /\ keyItems[call[c].key] = Undefined
             /\ keyItems' = [keyItems EXCEPT ![call[c].key] =
                  [fingerprint |-> call[c].request, orderId |-> call[c].id]]
  BY <1>10 DEF CallMoves
<1>2. call'[c] = f /\ \A d \in Calls : d # c => call'[d] = call[d]
  BY <1>11 DEF ApiInv, TablesTyped
<1>3. \A d \in Calls : /\ Active(d)' <=> Active(d)
                       /\ Active(d) => call'[d].key = call[d].key /\ call'[d].request = call[d].request
  BY <1>11, <1>2 DEF Active
<1>4. \A k \in Keys :
        \/ keyItems'[k] = keyItems[k]
        \/ /\ k = call[c].key /\ keyItems[k] = Undefined /\ call[c].at = "create"
           /\ keyItems'[k].fingerprint = call[c].request
  BY <1>11 DEF ApiInv, TablesTyped
<1>5. PagesTyped'
  BY <1>0, <1>3 DEF PageInv, PagesTyped, PageTyped, Active
<1>6. KeysAreUsed'
  BY <1>0, <1>11, <1>3, <1>4 DEF PageInv, KeysAreUsed
<1>7. PagesDiffer'
  BY <1>0 DEF PageInv, PagesDiffer
<1>8. ASSUME NEW b \in Browsers, operation[b] # Undefined
      PROVE  PageHolds(operation[b])'
  <2>0. PICK op : op = operation[b] /\ op = operation'[b]
    BY <1>0
  <2>1. PageHolds(op) /\ op.key \in Keys
    BY <1>8, <2>0 DEF PageInv, PagesTyped, PageTyped
  <2>2. keyItems'[op.key] # Undefined => keyItems'[op.key].fingerprint = op.request
    BY <1>11, <1>4, <2>1 DEF PageHolds
  <2>3. \A d \in Calls : Active(d)' /\ call'[d].key = op.key => call'[d].request = op.request
    BY <1>3, <2>1 DEF PageHolds
  <2>4. op.state = "SUCCEEDED" =>
          keyItems'[op.key] # Undefined /\ keyItems'[op.key].orderId = op.order
    BY <1>4, <2>1 DEF PageHolds
  <2>5. op.attemptCount = 1 /\ op.state = "IN_FLIGHT" =>
          /\ \A d \in Calls : Active(d)' /\ call'[d].key = op.key => d = op.over
          /\ Untried(call'[op.over]) => keyItems'[op.key] = Undefined
    <3> SUFFICES ASSUME op.attemptCount = 1, op.state = "IN_FLIGHT"
                 PROVE  /\ \A d \in Calls : Active(d)' /\ call'[d].key = op.key => d = op.over
                        /\ Untried(call'[op.over]) => keyItems'[op.key] = Undefined
      OBVIOUS
    <3>1. \A d \in Calls : Active(d)' /\ call'[d].key = op.key => d = op.over
      BY <1>3, <2>1 DEF PageHolds
    <3>2. op.over \in Calls
      BY <1>8, <2>0 DEF PageInv, PagesTyped, PageTyped
    <3>3. ASSUME Untried(call'[op.over]) PROVE keyItems'[op.key] = Undefined
      <4>1. CASE op.over = c
        <5>1. Untried(f)
          BY <1>2, <3>3, <4>1
        <5>2. Untried(call[c]) /\ UNCHANGED keyItems
          BY <1>11, <5>1
        <5> QED BY <2>1, <4>1, <5>2 DEF PageHolds
      <4>2. CASE op.over # c
        <5>1. Untried(call[op.over])
          BY <1>2, <3>2, <3>3, <4>2
        <5>2. keyItems[op.key] = Undefined /\ call[c].key # op.key
          BY <1>11, <2>1, <4>2, <5>1 DEF PageHolds
        <5> QED BY <1>4, <2>1, <5>2
      <4> QED BY <4>1, <4>2
    <3> QED BY <3>1, <3>3
  <2>6. op.attemptCount = 1 /\ op.state = "REJECTED" =>
          /\ keyItems'[op.key] = Undefined
          /\ \A d \in Calls : Active(d)' => call'[d].key # op.key
    BY <1>11, <1>3, <1>4, <2>1 DEF PageHolds
  <2>7. PageHolds(op)'
    BY <2>2, <2>3, <2>4, <2>5, <2>6 DEF PageHolds, Active, Untried
  <2> QED BY <2>0, <2>7 DEF PageHolds, Active, Untried
<1> QED BY <1>0, <1>5, <1>6, <1>7, <1>8 DEF PageInv

LEMMA PagesLeftAlone ==
  ASSUME PageInv, UNCHANGED <<keyItems, call, operation, usedKeys>>
  PROVE  PageInv'
  BY DEF PageInv, PagesTyped, PageTyped, KeysAreUsed, PagesDiffer, PageHolds, Active, Untried

\* A page does not notice a change of a call that is neither its own nor
\* becomes one with its key.
Unconcerned(op, c, f) ==
  /\ f.at # "idle" => f.key # op.key
  /\ op.state = "IN_FLIGHT" => op.over # c

LEMMA UnconcernedKept ==
  ASSUME ApiInv, PageInv, UNCHANGED keyItems, usedKeys \subseteq usedKeys',
         NEW c \in Calls, NEW f, call' = [call EXCEPT ![c] = f],
         NEW op, PageTyped(op), PageHolds(op), Unconcerned(op, c, f)
  PROVE  PageTyped(op)' /\ PageHolds(op)'
<1>1. call'[c] = f /\ \A d \in Calls : d # c => call'[d] = call[d]
  BY DEF ApiInv, TablesTyped
<1>2. PageTyped(op)'
  BY <1>1 DEF PageTyped, Unconcerned
<1>3. \A d \in Calls : Active(d)' /\ call'[d].key = op.key => d # c /\ call'[d] = call[d]
  BY <1>1 DEF Active, Unconcerned
<1>4. op.state = "IN_FLIGHT" => call'[op.over] = call[op.over]
  BY <1>1 DEF PageTyped, Unconcerned
<1>5. PageHolds(op)'
  BY <1>3, <1>4 DEF PageHolds, Active, Untried
<1> QED BY <1>2, <1>5

\* A call changes, and no page is concerned.
LEMMA CallLeavesPages ==
  ASSUME ApiInv, PageInv, UNCHANGED <<keyItems, operation, usedKeys>>,
         NEW c \in Calls, NEW f, call' = [call EXCEPT ![c] = f],
         f.at # "idle" /\ f.key \notin OtherKeys => f.key \in usedKeys,
         \A d \in Browsers : operation[d] # Undefined => Unconcerned(operation[d], c, f)
  PROVE  PageInv'
<1>1. call'[c] = f /\ \A d \in Calls : d # c => call'[d] = call[d]
  BY DEF ApiInv, TablesTyped
<1>2. KeysAreUsed' /\ PagesDiffer'
  BY <1>1 DEF PageInv, KeysAreUsed, PagesDiffer, Active
<1>3. ASSUME NEW d \in Browsers, operation[d] # Undefined
      PROVE  PageTyped(operation[d])' /\ PageHolds(operation[d])'
  <2>0. PICK op : op = operation[d] /\ op = operation'[d]
    OBVIOUS
  <2>1. PageTyped(op) /\ PageHolds(op) /\ Unconcerned(op, c, f)
    BY <1>3, <2>0 DEF PageInv, PagesTyped
  <2>2. PageTyped(op)' /\ PageHolds(op)'
    BY <2>1, UnconcernedKept
  <2> QED BY <2>0, <2>2 DEF PageTyped, PageHolds, Active, Untried
<1>4. PagesTyped'
  BY <1>3 DEF PageInv, PagesTyped
<1> QED BY <1>2, <1>3, <1>4 DEF PageInv

\* One page and one call change together.
PageAndCallChange(b, new, c, f) ==
  /\ operation' = [operation EXCEPT ![b] = new]
  /\ call' = [call EXCEPT ![c] = f]
  /\ UNCHANGED keyItems
  /\ usedKeys \subseteq usedKeys'
  /\ f.at # "idle" /\ f.key \notin OtherKeys => f.key \in usedKeys'
  /\ \A d \in Browsers \ {b} :
       operation[d] # Undefined =>
         Unconcerned(operation[d], c, f) /\ operation[d].key # new.key

LEMMA PageStep ==
  ASSUME ApiInv, PageInv, NEW b \in Browsers, NEW new, NEW c \in Calls, NEW f,
         PageAndCallChange(b, new, c, f), PageTyped(new)', PageHolds(new)'
  PROVE  PageInv'
<1>0. /\ operation' = [operation EXCEPT ![b] = new]
      /\ call' = [call EXCEPT ![c] = f]
      /\ UNCHANGED keyItems
      /\ usedKeys \subseteq usedKeys'
      /\ f.at # "idle" /\ f.key \notin OtherKeys => f.key \in usedKeys'
      /\ \A d \in Browsers \ {b} :
           operation[d] # Undefined =>
             Unconcerned(operation[d], c, f) /\ operation[d].key # new.key
  BY DEF PageAndCallChange
<1>1. call'[c] = f /\ \A d \in Calls : d # c => call'[d] = call[d]
  BY <1>0 DEF ApiInv, TablesTyped
<1>2. operation'[b] = new /\ \A d \in Browsers : d # b => operation'[d] = operation[d]
  BY <1>0 DEF PageInv, PagesTyped
<1>3. KeysAreUsed'
  BY <1>0, <1>1 DEF PageInv, KeysAreUsed, Active
<1>4. PagesDiffer'
  BY <1>0, <1>2 DEF PageInv, PagesDiffer
<1>5. ASSUME NEW d \in Browsers, operation'[d] # Undefined
      PROVE  PageTyped(operation[d])' /\ PageHolds(operation[d])'
  <2>0. PICK op : op = operation'[d]
    OBVIOUS
  <2>1. CASE d = b
    <3>1. op = new
      BY <1>2, <2>0, <2>1
    <3>2. PageTyped(op)' /\ PageHolds(op)'
      BY <3>1
    <3> QED BY <2>0, <3>2 DEF PageTyped, PageHolds, Active, Untried
  <2>2. CASE d # b
    <3>1. PageTyped(op) /\ PageHolds(op) /\ Unconcerned(op, c, f)
      BY <1>0, <1>2, <1>5, <2>0, <2>2 DEF PageInv, PagesTyped
    <3>2. PageTyped(op)' /\ PageHolds(op)'
      BY <1>0, <3>1, UnconcernedKept
    <3> QED BY <2>0, <3>2 DEF PageTyped, PageHolds, Active, Untried
  <2> QED BY <2>1, <2>2
<1>6. PagesTyped'
  <2>1. DOMAIN operation' = Browsers
    BY <1>0 DEF PageInv, PagesTyped
  <2> QED BY <1>5, <2>1 DEF PagesTyped
<1> QED BY <1>3, <1>4, <1>5, <1>6 DEF PageInv

LEMMA SubmitKeepsInvs ==
  ASSUME ApiInv, PageInv, NEW b \in Browsers, Submit(b)
  PROVE  ApiInv' /\ PageInv'
<1>1. PICK k \in Keys \ (OtherKeys \cup usedKeys), r \in Request, c \in Calls :
        /\ usedKeys' = usedKeys \cup {k}
        /\ Send(c, k, r)
        /\ operation' = [operation EXCEPT ![b] = Attempting(k, r, 1, c)]
  BY DEF Submit
<1>2. operation[b] = Undefined /\ UNCHANGED itemVars
  BY DEF Submit
<1>3. ApiInv'
  BY <1>1, <1>2, SendKeepsApi
<1>4. PICK f : f = [at |-> "sent", key |-> k, request |-> r, id |-> Undefined]
  OBVIOUS
<1>5. PICK new : new = Attempting(k, r, 1, c)
  OBVIOUS
<1>6. f.at = "sent" /\ f.key = k /\ f.request = r
  BY <1>4
<1>7. /\ new.key = k /\ new.request = r /\ new.attemptCount = 1
      /\ new.state = "IN_FLIGHT" /\ new.over = c
  BY <1>5 DEF Attempting
<1>8. call' = [call EXCEPT ![c] = f] /\ ~Active(c)
  BY <1>1, <1>4 DEF Send, NoCall, Active
<1>9. call'[c] = f /\ \A d \in Calls : d # c => call'[d] = call[d]
  BY <1>8 DEF ApiInv, TablesTyped
<1>10. keyItems[k] = Undefined /\ \A d \in Calls : Active(d) => call[d].key # k
  BY <1>1 DEF PageInv, KeysAreUsed
<1>11. PageTyped(new)'
  BY <1>1, <1>6, <1>7, <1>9 DEF PageTyped
<1>12. UNCHANGED keyItems
  BY <1>2 DEF itemVars
<1>13. PageHolds(new)'
  BY <1>6, <1>7, <1>9, <1>10, <1>12 DEF PageHolds, Active
<1>14. \A d \in Browsers \ {b} :
         operation[d] # Undefined =>
           Unconcerned(operation[d], c, f) /\ operation[d].key # new.key
  BY <1>1, <1>6, <1>7, <1>8 DEF PageInv, PagesTyped, PageTyped, Unconcerned, Active
<1>15. /\ usedKeys \subseteq usedKeys'
       /\ operation' = [operation EXCEPT ![b] = new]
       /\ f.at # "idle" /\ f.key \notin OtherKeys => f.key \in usedKeys'
  BY <1>1, <1>5, <1>6
<1>16. PageInv'
  <2>1. PageAndCallChange(b, new, c, f)
    BY <1>8, <1>12, <1>14, <1>15 DEF PageAndCallChange
  <2> QED BY <1>11, <1>13, <2>1, PageStep
<1> QED BY <1>3, <1>16

LEMMA RetryKeepsInvs ==
  ASSUME ApiInv, PageInv, NEW b \in Browsers, Retry(b)
  PROVE  ApiInv' /\ PageInv'
<1>0. PICK op : op = operation[b]
  OBVIOUS
<1>1. PICK c \in Calls :
        /\ Send(c, op.key, op.request)
        /\ operation' = [operation EXCEPT ![b] =
             Attempting(op.key, op.request, op.attemptCount + 1, c)]
  BY <1>0 DEF Retry
<1>2. op # Undefined /\ op.state = "OUTCOME_UNKNOWN" /\ UNCHANGED <<itemVars, usedKeys>>
  BY <1>0 DEF Retry, InState
<1>3. PageTyped(op) /\ PageHolds(op)
  BY <1>0, <1>2 DEF PageInv, PagesTyped
<1>4. op.key \in Keys /\ op.request \in Request
  BY <1>3 DEF PageTyped
<1>5. ApiInv'
  BY <1>1, <1>2, <1>4, SendKeepsApi
<1>6. PICK f : f = [at |-> "sent", key |-> op.key, request |-> op.request, id |-> Undefined]
  OBVIOUS
<1>7. PICK new : new = Attempting(op.key, op.request, op.attemptCount + 1, c)
  OBVIOUS
<1>8. f.at = "sent" /\ f.key = op.key /\ f.request = op.request
  BY <1>6
<1>9. /\ new.key = op.key /\ new.request = op.request
      /\ new.attemptCount \in Nat \ {0, 1}
      /\ new.state = "IN_FLIGHT" /\ new.over = c
  BY <1>3, <1>7 DEF Attempting, PageTyped
<1>10. call' = [call EXCEPT ![c] = f] /\ ~Active(c)
  BY <1>1, <1>6 DEF Send, NoCall, Active
<1>11. call'[c] = f /\ \A d \in Calls : d # c => call'[d] = call[d]
  BY <1>10 DEF ApiInv, TablesTyped
<1>12. UNCHANGED keyItems
  BY <1>2 DEF itemVars
<1>13. PageTyped(new)'
  BY <1>2, <1>3, <1>8, <1>9, <1>11 DEF PageTyped
<1>14. PageHolds(new)'
  BY <1>3, <1>8, <1>9, <1>11, <1>12 DEF PageHolds, Active
<1>15. \A d \in Browsers \ {b} :
         operation[d] # Undefined =>
           Unconcerned(operation[d], c, f) /\ operation[d].key # new.key
  BY <1>0, <1>2, <1>8, <1>9, <1>10
     DEF PageInv, PagesTyped, PageTyped, PagesDiffer, Unconcerned, Active
<1>16. /\ usedKeys \subseteq usedKeys'
       /\ operation' = [operation EXCEPT ![b] = new]
       /\ f.at # "idle" /\ f.key \notin OtherKeys => f.key \in usedKeys'
  BY <1>1, <1>2, <1>3, <1>7, <1>8 DEF PageTyped
<1>17. PageInv'
  <2>1. PageAndCallChange(b, new, c, f)
    BY <1>10, <1>12, <1>15, <1>16 DEF PageAndCallChange
  <2> QED BY <1>13, <1>14, <2>1, PageStep
<1> QED BY <1>5, <1>17

\* An operation in flight settles, and its call ends or goes on alone.
LEMMA SettleKeepsInvs ==
  ASSUME ApiInv, PageInv, UNCHANGED <<itemVars, usedKeys>>,
         NEW b \in Browsers, InState(b, "IN_FLIGHT"), NEW state, NEW o, Settle(b, state, o),
         state # "IN_FLIGHT",
         \/ call' = [call EXCEPT ![operation[b].over] = NoCall]
         \/ UNCHANGED call /\ state = "OUTCOME_UNKNOWN",
         LET op == operation[b]
         IN /\ state = "SUCCEEDED" =>
                 keyItems[op.key] # Undefined /\ keyItems[op.key].orderId = o
            /\ state = "REJECTED" /\ op.attemptCount = 1 => keyItems[op.key] = Undefined
  PROVE  ApiInv' /\ PageInv'
<1>0. PICK op : op = operation[b]
  OBVIOUS
<1>1. PageTyped(op) /\ PageHolds(op) /\ op # Undefined /\ op.state = "IN_FLIGHT"
  BY <1>0 DEF PageInv, PagesTyped, InState
<1>2. PICK c \in Calls : c = op.over /\ call[c].key = op.key /\ call[c].at # "idle"
  BY <1>1 DEF PageTyped
<1>3. PICK f : /\ call' = [call EXCEPT ![c] = f]
               /\ f.at = "idle" \/ (f = call[c] /\ state = "OUTCOME_UNKNOWN")
  <2>1. CASE call' = [call EXCEPT ![operation[b].over] = NoCall]
    <3>1. call' = [call EXCEPT ![c] = NoCall]
      BY <1>0, <1>2, <2>1
    <3>2. NoCall.at = "idle"
      BY DEF NoCall
    <3> QED BY <3>1, <3>2
  <2>2. CASE UNCHANGED call /\ state = "OUTCOME_UNKNOWN"
    <3>1. call' = [call EXCEPT ![c] = call[c]]
      BY <2>2 DEF ApiInv, TablesTyped
    <3> QED BY <2>2, <3>1
  <2> QED BY <2>1, <2>2
<1>4. PICK new : new = [ state |-> state, key |-> op.key, request |-> op.request,
                         attemptCount |-> op.attemptCount, over |-> Undefined, order |-> o ]
  OBVIOUS
<1>5. operation' = [operation EXCEPT ![b] = new]
  BY <1>0, <1>4 DEF Settle
<1>6. /\ new.key = op.key /\ new.request = op.request /\ new.attemptCount = op.attemptCount
      /\ new.state = state /\ new.order = o
  BY <1>4
<1>7. FrameHolds(f)
  BY <1>3 DEF FrameHolds, ApiInv
<1>8. f.at = "create" => \A d \in Calls : call[d].at = "create" => call[d].id # f.id \/ d = c
  BY <1>3 DEF ApiInv, CreatesDiffer
<1>9. ApiInv'
  <2>1. CASE f.at = "idle"
    BY <1>3, <1>7, <2>1, CallStep
  <2>2. CASE f = call[c]
    <3>1. UNCHANGED call
      BY <1>3, <2>2 DEF ApiInv, TablesTyped
    <3> QED BY <3>1 DEF ApiInv, TablesTyped, KeysNameOrders, ClaimsNameOrders, OrdersHaveOneKey,
                        Names, FrameHolds, ClaimedByAnother, AnswerIsTrue, KeyIsForCall,
                        CreatesDiffer, itemVars
  <2> QED BY <1>3, <2>1, <2>2
<1>10. call'[c] = f /\ \A d \in Calls : d # c => call'[d] = call[d]
  BY <1>3 DEF ApiInv, TablesTyped
<1>11. UNCHANGED keyItems
  BY DEF itemVars
<1>12. PageTyped(new)'
  BY <1>1, <1>6 DEF PageTyped
<1>13. \A d \in Calls : Active(d)' => Active(d) /\ call'[d] = call[d]
  BY <1>2, <1>3, <1>10 DEF Active
<1>14. PageHolds(new)'
  <2>1. keyItems'[new.key] # Undefined => keyItems'[new.key].fingerprint = new.request
    BY <1>1, <1>6, <1>11 DEF PageHolds
  <2>2. \A d \in Calls : Active(d)' /\ call'[d].key = new.key => call'[d].request = new.request
    BY <1>1, <1>6, <1>13 DEF PageHolds
  <2>3. new.state = "SUCCEEDED" =>
          keyItems'[new.key] # Undefined /\ keyItems'[new.key].orderId = new.order
    BY <1>0, <1>6, <1>11
  <2>4. new.attemptCount = 1 /\ new.state = "REJECTED" =>
          /\ keyItems'[new.key] = Undefined
          /\ \A d \in Calls : Active(d)' => call'[d].key # new.key
    <3> SUFFICES ASSUME op.attemptCount = 1, state = "REJECTED"
                 PROVE  /\ keyItems'[op.key] = Undefined
                        /\ \A d \in Calls : Active(d)' => call'[d].key # op.key
      BY <1>6
    <3>1. f.at = "idle"
      BY <1>3
    <3>2. ~Active(c)'
      BY <1>10, <3>1 DEF Active
    <3>3. \A d \in Calls : Active(d) /\ call[d].key = op.key => d = c
      BY <1>1, <1>2 DEF PageHolds
    <3> QED BY <1>0, <1>11, <1>13, <3>2, <3>3
  <2> QED BY <1>6, <2>1, <2>2, <2>3, <2>4 DEF PageHolds
<1>15. \A d \in Browsers \ {b} :
         operation[d] # Undefined =>
           Unconcerned(operation[d], c, f) /\ operation[d].key # new.key
  <2> SUFFICES ASSUME NEW d \in Browsers \ {b}, operation[d] # Undefined
               PROVE  Unconcerned(operation[d], c, f) /\ operation[d].key # new.key
    OBVIOUS
  <2>1. operation[d].key # op.key
    BY <1>0, <1>1 DEF PageInv, PagesDiffer
  <2>2. PageTyped(operation[d])
    BY DEF PageInv, PagesTyped
  <2> QED BY <1>2, <1>3, <1>6, <2>1, <2>2 DEF Unconcerned, PageTyped
<1>16. /\ usedKeys \subseteq usedKeys'
       /\ f.at # "idle" /\ f.key \notin OtherKeys => f.key \in usedKeys'
  BY <1>1, <1>2, <1>3 DEF PageTyped
<1>17. PageInv'
  <2>1. PageAndCallChange(b, new, c, f)
    BY <1>3, <1>5, <1>11, <1>15, <1>16 DEF PageAndCallChange
  <2> QED BY <1>12, <1>14, <2>1, PageStep
<1> QED BY <1>9, <1>17

LEMMA ReceiveAnswerKeepsInvs ==
  ASSUME ApiInv, PageInv, NEW b \in Browsers, ReceiveAnswer(b)
  PROVE  ApiInv' /\ PageInv'
<1>0. PICK op : op = operation[b]
  OBVIOUS
<1>1. PICK a : a = call[op.over]
  OBVIOUS
<1>2. /\ UNCHANGED <<itemVars, usedKeys>>
      /\ InState(b, "IN_FLIGHT")
      /\ a.at = "answered"
      /\ Settle(b, OutcomeOf(a), IF ReadsAsCreated(a) THEN a.id ELSE Undefined)
      /\ call' = [call EXCEPT ![op.over] = NoCall]
  BY <1>0, <1>1 DEF ReceiveAnswer
<1>3. PageTyped(op) /\ PageHolds(op) /\ op.state = "IN_FLIGHT"
  BY <1>0, <1>2 DEF PageInv, PagesTyped, InState
<1>4. AnswerIsTrue(a) /\ a.key = op.key
  BY <1>1, <1>2, <1>3 DEF ApiInv, FrameHolds, PageTyped
<1>5. a.request = op.request
  BY <1>1, <1>2, <1>3, <1>4 DEF PageHolds, PageTyped, Active
<1>6. OutcomeOf(a) # "IN_FLIGHT"
  BY DEF OutcomeOf
<1>7. ASSUME OutcomeOf(a) = "SUCCEEDED"
      PROVE  /\ keyItems[op.key] # Undefined
             /\ keyItems[op.key].orderId = IF ReadsAsCreated(a) THEN a.id ELSE Undefined
  <2>1. ReadsAsCreated(a)
    BY <1>7 DEF OutcomeOf
  <2> QED BY <1>4, <2>1 DEF ReadsAsCreated, AnswerIsTrue, KeyIsForCall
<1>8. ASSUME OutcomeOf(a) = "REJECTED", op.attemptCount = 1
      PROVE  keyItems[op.key] = Undefined
  <2>1. a.answer \in Rejections
    BY <1>8 DEF OutcomeOf
  <2>2. CASE a.answer = "unauthorized"
    BY <1>0, <1>1, <1>2, <1>3, <1>8, <2>2 DEF PageHolds, Untried, InState
  <2>3. CASE a.answer = "idempotencyConflict"
    BY <1>3, <1>4, <1>5, <2>3 DEF PageHolds, AnswerIsTrue
  <2>4. CASE a.answer = "merchantOrderIdConflict"
    BY <1>3, <1>4, <1>5, <2>4 DEF PageHolds, AnswerIsTrue
  <2> QED BY <2>1, <2>2, <2>3, <2>4 DEF Rejections
<1> DEFINE state == OutcomeOf(a)
           o == IF ReadsAsCreated(a) THEN a.id ELSE Undefined
<1>9. /\ Settle(b, state, o) /\ state # "IN_FLIGHT"
      /\ call' = [call EXCEPT ![operation[b].over] = NoCall]
      /\ state = "SUCCEEDED" =>
           keyItems[operation[b].key] # Undefined /\ keyItems[operation[b].key].orderId = o
      /\ state = "REJECTED" /\ operation[b].attemptCount = 1 =>
           keyItems[operation[b].key] = Undefined
  BY <1>0, <1>2, <1>6, <1>7, <1>8
<1> HIDE DEF state, o
<1> QED BY <1>2, <1>9, SettleKeepsInvs

LEMMA LoseConnectionKeepsInvs ==
  ASSUME ApiInv, PageInv, NEW b \in Browsers, LoseConnection(b)
  PROVE  ApiInv' /\ PageInv'
<1>1. /\ UNCHANGED <<itemVars, usedKeys>>
      /\ InState(b, "IN_FLIGHT")
      /\ Settle(b, "OUTCOME_UNKNOWN", Undefined)
      /\ \/ call' = [call EXCEPT ![operation[b].over] = NoCall]
         \/ UNCHANGED call
  BY DEF LoseConnection
<1> QED BY <1>1, SettleKeepsInvs

LEMMA OtherSystemCallsKeepsInvs ==
  ASSUME ApiInv, PageInv, NEW c \in Calls, OtherSystemCalls(c)
  PROVE  ApiInv' /\ PageInv'
<1>1. PICK k \in OtherKeys, r \in Request : Send(c, k, r)
  BY DEF OtherSystemCalls
<1>2. UNCHANGED <<keyItems, operation, usedKeys>> /\ UNCHANGED itemVars
  BY DEF OtherSystemCalls, browserVars, itemVars
<1>3. ApiInv'
  BY <1>1, <1>2, BrowserConstants, SendKeepsApi
<1>4. PICK f : f = [at |-> "sent", key |-> k, request |-> r, id |-> Undefined]
  OBVIOUS
<1>5. call' = [call EXCEPT ![c] = f] /\ ~Active(c)
  BY <1>1, <1>4 DEF Send, NoCall, Active
<1>6. f.at = "sent" /\ f.key \in OtherKeys
  BY <1>4
<1>7. \A d \in Browsers : operation[d] # Undefined => Unconcerned(operation[d], c, f)
  BY <1>5, <1>6 DEF PageInv, PagesTyped, PageTyped, Unconcerned, Active
<1>8. f.at # "idle" /\ f.key \notin OtherKeys => f.key \in usedKeys
  BY <1>6
<1>9. PageInv'
  BY <1>2, <1>5, <1>7, <1>8, CallLeavesPages
<1> QED BY <1>3, <1>9

LEMMA AnswerDroppedKeepsInvs ==
  ASSUME ApiInv, PageInv, NEW c \in Calls, AnswerDropped(c)
  PROVE  ApiInv' /\ PageInv'
<1>1. UNCHANGED <<keyItems, operation, usedKeys>> /\ UNCHANGED itemVars
  BY DEF AnswerDropped, browserVars, itemVars
<1>0. PICK f : f = NoCall
  OBVIOUS
<1>2. f.at = "idle"
  BY <1>0 DEF NoCall
<1>3. call' = [call EXCEPT ![c] = f]
  BY <1>0 DEF AnswerDropped
<1>4. ApiInv'
  BY <1>1, <1>2, <1>3, CallStep DEF FrameHolds
<1>5. \A d \in Browsers : operation[d] # Undefined => Unconcerned(operation[d], c, f)
  BY <1>2 DEF AnswerDropped, Unattended, Unconcerned
<1>6. f.at # "idle" /\ f.key \notin OtherKeys => f.key \in usedKeys
  BY <1>2
<1>7. PageInv'
  BY <1>1, <1>3, <1>5, <1>6, CallLeavesPages
<1> QED BY <1>4, <1>7

\* Steps of a page that concern neither its operation nor a call.
LEMMA OtherPageStepsKeepInvs ==
  ASSUME ApiInv, PageInv, UNCHANGED <<apiVars, operation, usedKeys>>
  PROVE  ApiInv' /\ PageInv'
<1>1. UNCHANGED <<items, keyItems, claims, call>>
  BY DEF apiVars, itemVars
<1>2. ApiInv'
  BY <1>1 DEF ApiInv, TablesTyped, KeysNameOrders, ClaimsNameOrders, OrdersHaveOneKey, Names,
              FrameHolds, ClaimedByAnother, AnswerIsTrue, KeyIsForCall, CreatesDiffer
<1> QED BY <1>1, <1>2, PagesLeftAlone

LEMMA ResetKeepsInvs ==
  ASSUME ApiInv, PageInv, NEW b \in Browsers, Reset(b)
  PROVE  ApiInv' /\ PageInv'
<1>1. /\ UNCHANGED <<items, keyItems, claims, call, usedKeys>>
      /\ operation' = [operation EXCEPT ![b] = Undefined]
  BY DEF Reset, apiVars, itemVars
<1>2. ApiInv'
  BY <1>1 DEF ApiInv, TablesTyped, KeysNameOrders, ClaimsNameOrders, OrdersHaveOneKey, Names,
              FrameHolds, ClaimedByAnother, AnswerIsTrue, KeyIsForCall, CreatesDiffer
<1>3. /\ DOMAIN operation' = Browsers
      /\ \A d \in Browsers : operation'[d] # Undefined => operation'[d] = operation[d]
  BY <1>1 DEF PageInv, PagesTyped
<1>4. PageInv'
  BY <1>1, <1>3
     DEF PageInv, PagesTyped, PageTyped, KeysAreUsed, PagesDiffer, PageHolds, Active, Untried
<1> QED BY <1>2, <1>4

LEMMA JourneyStepKeepsInvs ==
  ASSUME ApiInv, PageInv, [JourneyNext]_journeyVars
  PROVE  ApiInv' /\ PageInv'
<1>1. CASE ApiStep /\ UNCHANGED browserVars
  BY <1>1, ApiStepKeepsApi, ApiStepKeepsPages
<1>2. ASSUME NEW o \in OrderIds, OrderMovesOn(o), UNCHANGED browserVars
      PROVE  ApiInv' /\ PageInv'
  <2>1. ApiInv' /\ UNCHANGED <<keyItems, call>>
    BY <1>2, OrderMovesOnKeepsApi
  <2>2. UNCHANGED <<keyItems, call, operation, usedKeys>>
    BY <1>2, <2>1 DEF browserVars
  <2> QED BY <2>1, <2>2, PagesLeftAlone
<1>3. ASSUME NEW b \in Browsers, BrowserStep(b)
      PROVE  ApiInv' /\ PageInv'
  <2>1. CASE Submit(b)
    BY <2>1, SubmitKeepsInvs
  <2>2. CASE Retry(b)
    BY <2>2, RetryKeepsInvs
  <2>3. CASE ReceiveAnswer(b)
    BY <2>3, ReceiveAnswerKeepsInvs
  <2>4. CASE LoseConnection(b)
    BY <2>4, LoseConnectionKeepsInvs
  <2>5. CASE Reset(b)
    BY <2>5, ResetKeepsInvs
  <2>6. CASE \/ PreparePayment(b) \/ PreparationSettles(b) \/ ConfirmPayment(b)
             \/ Poll(b) \/ PollAnswered(b) \/ PollFails(b) \/ StopTracking(b) \/ TrackingStops(b)
    <3>1. UNCHANGED <<apiVars, operation, usedKeys>>
      BY <2>6 DEF PreparePayment, PreparationSettles, ConfirmPayment, Poll, PollAnswered,
                  PollFails, StopTracking, TrackingStops
    <3> QED BY <3>1, OtherPageStepsKeepInvs
  <2> QED BY <1>3, <2>1, <2>2, <2>3, <2>4, <2>5, <2>6 DEF BrowserStep
<1>4. ASSUME NEW c \in Calls, OtherSystemCalls(c) \/ AnswerDropped(c)
      PROVE  ApiInv' /\ PageInv'
  BY <1>4, OtherSystemCallsKeepsInvs, AnswerDroppedKeepsInvs
<1>5. CASE UNCHANGED journeyVars
  <2>1. UNCHANGED <<apiVars, operation, usedKeys>>
    BY <1>5 DEF journeyVars, browserVars
  <2> QED BY <2>1, OtherPageStepsKeepInvs
<1> QED BY <1>1, <1>2, <1>3, <1>4, <1>5 DEF JourneyNext

LEMMA JourneyInitHolds == JourneyInit => ApiInv /\ PageInv
<1> SUFFICES ASSUME JourneyInit PROVE ApiInv /\ PageInv
  OBVIOUS
<1>1. ApiInv
  BY ApiInitHolds DEF JourneyInit
<1>2. PageInv
  BY DEF JourneyInit, ApiInit, BrowserInit, NoCall, PageInv, PagesTyped, KeysAreUsed, PagesDiffer,
         Active
<1> QED BY <1>1, <1>2

LEMMA JourneyInvariant == JourneySpec => [](ApiInv /\ PageInv)
<1>1. JourneyInit => ApiInv /\ PageInv
  BY JourneyInitHolds
<1>2. ApiInv /\ PageInv /\ [JourneyNext]_journeyVars => (ApiInv /\ PageInv)'
  BY JourneyStepKeepsInvs
<1> QED BY <1>1, <1>2, PTL DEF JourneySpec

\* Every order has the one key and the one claim of its request, whatever
\* calls overlap (DynamoDbOrderRepository.create).
THEOREM CreationsAreConsistent == JourneySpec => []OneOrderPerKeyAndClaim
  BY JourneyInvariant, ApiInvImplies, PTL

\* Nobody is told anything about a creation that is or becomes untrue
\* (createOrder and resolveCreateConflict).
THEOREM CallersAreToldTheTruth == JourneySpec => []AnswersAreTrue
  BY JourneyInvariant, ApiInvImplies, PTL

\* A submission makes one order, however often and from wherever it is
\* retried (CreateOrderSubmission over idempotent-operation.ts).
THEOREM SubmissionsMakeOneOrder == JourneySpec => []SubmissionMakesOneOrder
<1>1. PageInv => SubmissionMakesOneOrder
  BY DEF PageInv, PageHolds, SubmissionMakesOneOrder
<1> QED BY <1>1, JourneyInvariant, PTL

(***************************************************************************)
(* The tracker.                                                            *)
(***************************************************************************)
PageParts ==
  /\ tracker \in [Browsers -> Tracking]
  /\ polls \in [Browsers -> SUBSET TrackedOrder]
  /\ DOMAIN preparation = Browsers

\* A page that tracks has its order, and neither what it shows nor what is
\* on its way is ahead of the item; what is on its way is the one answer
\* the loop awaits, and not behind what is shown.
TrackerHolds(op, prep, t, ps) ==
  /\ prep # "NOT_STARTED" => op # Undefined /\ op.state = "SUCCEEDED"
  /\ t.state # "NOT_STARTED" => prep = "SUCCEEDED"
  /\ t.order # Undefined =>
       t.state # "NOT_STARTED" /\ t.order.version <= items[op.order].version
  /\ ps # {} => t.state = "POLLING"
  /\ \A p \in ps :
       /\ p.version <= items[op.order].version
       /\ t.order # Undefined => t.order.version <= p.version
       /\ \A q \in ps : q = p

TrackerInv ==
  /\ PageParts
  /\ \A b \in Browsers : TrackerHolds(operation[b], preparation[b], tracker[b], polls[b])

\* The page's order is there, and its version only grows.
OrdersGrow ==
  \A o \in OrderIds :
    items[o] # Undefined => items'[o] # Undefined /\ items[o].version <= items'[o].version

LEMMA OrderOfPage ==
  ASSUME ApiInv, PageInv, NEW b \in Browsers, InState(b, "SUCCEEDED")
  PROVE  /\ operation[b].order \in OrderIds
         /\ items[operation[b].order] \in Item
         /\ items[operation[b].order] # Undefined
<1>1. PageTyped(operation[b]) /\ PageHolds(operation[b])
  BY DEF PageInv, PagesTyped, InState
<1>2. /\ operation[b].key \in Keys
      /\ keyItems[operation[b].key] # Undefined
      /\ keyItems[operation[b].key].orderId = operation[b].order
  BY <1>1 DEF PageTyped, PageHolds, InState
<1>3. operation[b].order \in OrderIds
  BY <1>2 DEF ApiInv, TablesTyped, KeyItem
<1> QED BY <1>2, <1>3 DEF ApiInv, TablesTyped, KeysNameOrders

LEMMA ApiStepGrows ==
  ASSUME ApiInv, ApiStep
  PROVE  OrdersGrow
<1>0. \A o \in OrderIds : items[o] # Undefined => items[o].version \in Nat
  BY ApiConstants DEF ApiInv, TablesTyped, Item
<1>1. PICK c \in Calls :
        \/ ApiHandles(c) \/ ApiCreates(c) \/ ApiResolvesKey(c) \/ ApiReplays(c)
        \/ ApiResolvesClaim(c) \/ ApiDies(c)
  BY DEF ApiStep
<1>2. CASE UNCHANGED itemVars
  BY <1>0, <1>2 DEF OrdersGrow, itemVars
<1>3. CASE /\ CreateCommits(call[c].key, call[c].request, call[c].id)
           /\ PutItems(call[c].key, call[c].request, call[c].id)
  <2>1. items[call[c].id] = Undefined
    BY <1>3 DEF CreateCommits
  <2>2. \A o \in OrderIds : o # call[c].id => items'[o] = items[o]
    BY <1>3 DEF PutItems, ApiInv, TablesTyped
  <2> QED BY <1>0, <2>1, <2>2 DEF OrdersGrow
<1> QED BY <1>1, <1>2, <1>3
        DEF ApiHandles, ApiCreates, ApiResolvesKey, ApiReplays, ApiResolvesClaim, ApiDies

\* The service goes on without the pages.
LEMMA TrackersLeftAlone ==
  ASSUME ApiInv, PageInv, TrackerInv, OrdersGrow, ApiInv', UNCHANGED browserVars
  PROVE  TrackerInv'
<1>1. UNCHANGED <<operation, usedKeys, preparation, tracker, polls>>
  BY DEF browserVars
<1>2. PageParts'
  BY <1>1 DEF TrackerInv, PageParts
<1>3. ASSUME NEW b \in Browsers
      PROVE  TrackerHolds(operation[b], preparation[b], tracker[b], polls[b])'
  <2>0. PICK op, prep, t, ps :
          op = operation[b] /\ prep = preparation[b] /\ t = tracker[b] /\ ps = polls[b]
    OBVIOUS
  <2>1. TrackerHolds(op, prep, t, ps)
    BY <2>0 DEF TrackerInv
  <2>2. t \in Tracking /\ ps \in SUBSET TrackedOrder
    BY <2>0 DEF TrackerInv, PageParts
  <2>3. prep # "NOT_STARTED" =>
          /\ items[op.order].version \in Nat /\ items'[op.order].version \in Nat
          /\ items[op.order].version <= items'[op.order].version
    <3> SUFFICES ASSUME prep # "NOT_STARTED"
                 PROVE  /\ items[op.order].version \in Nat /\ items'[op.order].version \in Nat
                        /\ items[op.order].version <= items'[op.order].version
      OBVIOUS
    <3>1. InState(b, "SUCCEEDED")
      BY <2>0, <2>1 DEF TrackerHolds, InState
    <3>2. /\ op.order \in OrderIds /\ items[op.order] \in Item
          /\ items[op.order] # Undefined
      BY <2>0, <3>1, OrderOfPage
    <3>3. items'[op.order] # Undefined /\ items[op.order].version <= items'[op.order].version
      BY <3>2 DEF OrdersGrow
    <3>4. items'[op.order] \in Item
      BY <3>2, <3>3 DEF ApiInv, TablesTyped
    <3> QED BY <3>2, <3>3, <3>4, ApiConstants DEF Item
  <2>4. /\ t.order # Undefined => t.order.version \in Nat
        /\ \A p \in ps : p.version \in Nat
    BY <2>2, ApiConstants DEF Tracking, TrackedOrder
  <2>5. TrackerHolds(op, prep, t, ps)'
    <3>1. t.order # Undefined =>
            t.state # "NOT_STARTED" /\ t.order.version <= items'[op.order].version
      BY <2>1, <2>3, <2>4 DEF TrackerHolds
    <3>2. \A p \in ps : p.version <= items'[op.order].version
      BY <2>1, <2>3, <2>4 DEF TrackerHolds
    <3> QED BY <2>1, <3>1, <3>2 DEF TrackerHolds
  <2> QED BY <1>1, <2>0, <2>5 DEF TrackerHolds
<1> QED BY <1>2, <1>3 DEF TrackerInv

\* What a page becomes while the items stay; the other pages stay too.
PageBecomes(b, op, prep, t, ps) ==
  /\ operation'[b] = op /\ preparation'[b] = prep /\ tracker'[b] = t /\ polls'[b] = ps
  /\ \A d \in Browsers \ {b} :
       /\ operation'[d] = operation[d] /\ preparation'[d] = preparation[d]
       /\ tracker'[d] = tracker[d] /\ polls'[d] = polls[d]

LEMMA PageBecomesKeeps ==
  ASSUME TrackerInv, UNCHANGED items, PageParts', NEW b \in Browsers,
         NEW op, NEW prep, NEW t, NEW ps,
         PageBecomes(b, op, prep, t, ps), TrackerHolds(op, prep, t, ps)
  PROVE  TrackerInv'
<1>1. ASSUME NEW d \in Browsers
      PROVE  TrackerHolds(operation[d], preparation[d], tracker[d], polls[d])'
  <2>0. PICK op1, prep1, t1, ps1 :
          /\ op1 = operation'[d] /\ prep1 = preparation'[d]
          /\ t1 = tracker'[d] /\ ps1 = polls'[d]
    OBVIOUS
  <2>1. TrackerHolds(op1, prep1, t1, ps1)
    BY <2>0 DEF TrackerInv, PageBecomes
  <2> QED BY <2>0, <2>1 DEF TrackerHolds
<1> QED BY <1>1 DEF TrackerInv

\* Until its submission succeeded a page tracks nothing.
LEMMA OperationMovesTrackers ==
  ASSUME PageInv, TrackerInv, UNCHANGED <<items, preparation, tracker, polls>>,
         NEW b \in Browsers, ~InState(b, "SUCCEEDED"),
         NEW op, operation' = [operation EXCEPT ![b] = op]
  PROVE  TrackerInv'
<1>1. PageParts'
  BY DEF TrackerInv, PageParts
<1>2. TrackerHolds(operation[b], preparation[b], tracker[b], polls[b])
  BY DEF TrackerInv
<1>3. TrackerHolds(op, preparation[b], tracker[b], polls[b])
  BY <1>2 DEF TrackerHolds, InState
<1>4. PageBecomes(b, op, preparation[b], tracker[b], polls[b])
  BY DEF PageBecomes, PageInv, PagesTyped
<1> QED BY <1>1, <1>3, <1>4, PageBecomesKeeps

LEMMA SubmissionStepsKeepTrackers ==
  ASSUME PageInv, TrackerInv, NEW b \in Browsers,
         Submit(b) \/ Retry(b) \/ ReceiveAnswer(b) \/ LoseConnection(b) \/ Reset(b)
  PROVE  TrackerInv'
<1>1. UNCHANGED <<items, preparation, tracker, polls>>
  BY DEF Submit, Retry, ReceiveAnswer, LoseConnection, Reset, itemVars, apiVars
<1>2. ~InState(b, "SUCCEEDED")
  BY DEF Submit, Retry, ReceiveAnswer, LoseConnection, Reset, InState
<1>3. PICK op : operation' = [operation EXCEPT ![b] = op]
  <2>1. CASE Submit(b)
    BY <2>1 DEF Submit
  <2>2. CASE Retry(b)
    BY <2>2 DEF Retry
  <2>3. CASE ReceiveAnswer(b)
    BY <2>3 DEF ReceiveAnswer, Settle
  <2>4. CASE LoseConnection(b)
    BY <2>4 DEF LoseConnection, Settle
  <2>5. CASE Reset(b)
    BY <2>5 DEF Reset
  <2> QED BY <2>1, <2>2, <2>3, <2>4, <2>5
<1> QED BY <1>1, <1>2, <1>3, OperationMovesTrackers

LEMMA PreparationStepsKeepTrackers ==
  ASSUME PageInv, TrackerInv, NEW b \in Browsers, PreparePayment(b) \/ PreparationSettles(b)
  PROVE  TrackerInv'
<1>1. UNCHANGED <<items, operation, tracker, polls>>
  BY DEF PreparePayment, PreparationSettles, itemVars, apiVars
<1>2. PICK s : preparation' = [preparation EXCEPT ![b] = s]
  BY DEF PreparePayment, PreparationSettles
<1>3. PageParts'
  BY <1>1, <1>2 DEF TrackerInv, PageParts
<1>4. TrackerHolds(operation[b], preparation[b], tracker[b], polls[b])
  BY DEF TrackerInv
<1>5. TrackerHolds(operation[b], s, tracker[b], polls[b])
  BY <1>4 DEF TrackerHolds, PreparePayment, PreparationSettles, InState
<1>6. PageBecomes(b, operation[b], s, tracker[b], polls[b])
  BY <1>1, <1>2 DEF PageBecomes, TrackerInv, PageParts
<1> QED BY <1>1, <1>3, <1>5, <1>6, PageBecomesKeeps

\* The loop and what starts and stops it: the tracker of the page and the
\* answers on its way become t and ps.
LEMMA TrackerSteps ==
  ASSUME PageInv, TrackerInv, NEW b \in Browsers,
         UNCHANGED <<items, operation, preparation>>,
         NEW t \in Tracking, tracker' = [tracker EXCEPT ![b] = t],
         NEW ps \in SUBSET TrackedOrder, polls' = [polls EXCEPT ![b] = ps],
         TrackerHolds(operation[b], preparation[b], t, ps)
  PROVE  TrackerInv'
<1>1. PageParts'
  BY DEF TrackerInv, PageParts
<1>2. PageBecomes(b, operation[b], preparation[b], t, ps)
  BY DEF PageBecomes, TrackerInv, PageParts
<1> QED BY <1>1, <1>2, PageBecomesKeeps

LEMMA LoopStepsKeepTrackers ==
  ASSUME ApiInv, PageInv, TrackerInv, NEW b \in Browsers,
         \/ ConfirmPayment(b) \/ Poll(b) \/ PollAnswered(b) \/ PollFails(b)
         \/ StopTracking(b) \/ TrackingStops(b)
  PROVE  /\ TrackerInv'
         /\ \A d \in Browsers \ {b} : tracker'[d] = tracker[d]
         /\ tracker'[b].order # tracker[b].order =>
              /\ tracker[b].state = "POLLING" /\ ~tracker[b].aborted
              /\ tracker[b].order # Undefined =>
                   tracker'[b].order.version >= tracker[b].order.version
<1>0. PICK t0, ps0 : t0 = tracker[b] /\ ps0 = polls[b]
  OBVIOUS
<1>1. UNCHANGED <<items, operation, preparation>>
  BY DEF ConfirmPayment, Poll, PollAnswered, PollFails, StopTracking, TrackingStops,
         itemVars, apiVars
<1>2. /\ t0 \in Tracking /\ ps0 \in SUBSET TrackedOrder
      /\ TrackerHolds(operation[b], preparation[b], t0, ps0)
  BY <1>0 DEF TrackerInv, PageParts
<1>3. /\ tracker = [d \in Browsers |-> tracker[d]]
      /\ polls = [d \in Browsers |-> polls[d]]
  BY DEF TrackerInv, PageParts
<1> DEFINE Goes(t, ps) ==
      /\ tracker' = [tracker EXCEPT ![b] = t] /\ t \in Tracking
      /\ polls' = [polls EXCEPT ![b] = ps] /\ ps \in SUBSET TrackedOrder
      /\ TrackerHolds(operation[b], preparation[b], t, ps)
      /\ t.order # t0.order =>
           /\ t0.state = "POLLING" /\ ~t0.aborted
           /\ t0.order # Undefined => t.order.version >= t0.order.version
<1>4. ASSUME NEW s \in {"POLLING", "STOPPED", "TIMED_OUT", "REJECTED"},
             NEW ps \in SUBSET ps0,
             tracker' = [tracker EXCEPT ![b].state = s],
             polls' = [polls EXCEPT ![b] = ps],
             preparation[b] = "SUCCEEDED",
             s # "POLLING" => ps = {}
      PROVE  \E t, qs : Goes(t, qs)
  <2>1. PICK t : t = [t0 EXCEPT !.state = s]
    OBVIOUS
  <2>2. t \in Tracking /\ t.state = s /\ t.order = t0.order
    BY <1>2, <2>1 DEF Tracking
  <2>3. tracker' = [tracker EXCEPT ![b] = t]
    BY <1>0, <1>4, <2>1
  <2>4. t0.order # Undefined => t0.order.version <= items[operation[b].order].version
    BY <1>2 DEF TrackerHolds
  <2>5. TrackerHolds(operation[b], preparation[b], t, ps)
    BY <1>2, <1>4, <2>2, <2>4 DEF TrackerHolds
  <2>6. Goes(t, ps)
    BY <1>2, <1>4, <2>2, <2>3, <2>5
  <2> QED BY <2>6
<1>5. ASSUME ConfirmPayment(b) PROVE \E t, qs : Goes(t, qs)
  <2>1. /\ tracker' = [tracker EXCEPT ![b].state = "POLLING"]
        /\ polls' = [polls EXCEPT ![b] = ps0]
        /\ preparation[b] = "SUCCEEDED"
    BY <1>0, <1>3, <1>5 DEF ConfirmPayment
  <2> HIDE DEF Goes
  <2> QED BY <1>4, <2>1
<1>6. ASSUME Poll(b) PROVE \E t, qs : Goes(t, qs)
  <2>1. PICK t : t = [t0 EXCEPT !.attemptCount = @ + 1]
    OBVIOUS
  <2>2. /\ t0.state = "POLLING" /\ t0.attemptCount < MaxPolls /\ ps0 = {}
        /\ tracker' = [tracker EXCEPT ![b] = t]
    BY <1>0, <2>1, <1>6 DEF Poll, MayPoll
  <2>3. t0.attemptCount + 1 \in 0..MaxPolls
    BY <1>2, <2>2, BrowserConstants DEF Tracking
  <2>4. t \in Tracking /\ t.state = "POLLING" /\ t.order = t0.order
    BY <1>2, <2>1, <2>2, <2>3 DEF Tracking
  <2>5. InState(b, "SUCCEEDED") /\ preparation[b] = "SUCCEEDED"
    BY <1>2, <2>2 DEF TrackerHolds, InState
  <2>6. PICK item \in Item : item = items[operation[b].order]
    BY <2>5, OrderOfPage
  <2>7. PICK p : p = [stage |-> item.stage, version |-> item.version]
    OBVIOUS
  <2>8. p \in TrackedOrder /\ p.version = item.version /\ item.version \in Nat
    BY <2>7, ApiConstants DEF TrackedOrder, Item
  <2>9. polls' = [polls EXCEPT ![b] = {p}]
    BY <1>0, <1>6, <2>2, <2>6, <2>7 DEF Poll
  <2>10. t0.order # Undefined => t0.order.version <= item.version
    BY <1>2, <2>6 DEF TrackerHolds
  <2>11. TrackerHolds(operation[b], preparation[b], t, {p})
    BY <1>2, <2>2, <2>4, <2>5, <2>6, <2>8, <2>10 DEF TrackerHolds, InState
  <2>12. Goes(t, {p})
    BY <2>2, <2>4, <2>8, <2>9, <2>11
  <2> QED BY <2>12
<1>7. \A p \in ps0 : ps0 \ {p} = {} /\ preparation[b] = "SUCCEEDED" /\ t0.state = "POLLING"
  BY <1>2 DEF TrackerHolds
<1>8. ASSUME PollAnswered(b) PROVE \E t, qs : Goes(t, qs)
  <2>1. PICK p \in ps0 :
          /\ polls' = [polls EXCEPT ![b] = @ \ {p}]
          /\ tracker' =
               IF Hears(b)
               THEN [tracker EXCEPT ![b] =
                      [ state |-> TrackingState(b, p.stage), aborted |-> FALSE,
                        attemptCount |-> tracker[b].attemptCount, order |-> p ]]
               ELSE [tracker EXCEPT ![b].state = "STOPPED"]
    BY <1>0, <1>8 DEF PollAnswered
  <2>2. polls' = [polls EXCEPT ![b] = {}]
    BY <1>0, <1>7, <2>1
  <2>3. CASE ~Hears(b)
    <3>1. tracker' = [tracker EXCEPT ![b].state = "STOPPED"]
      BY <2>1, <2>3
    <3> HIDE DEF Goes
    <3> QED BY <1>4, <1>7, <2>1, <2>2, <3>1
  <2>4. CASE Hears(b)
    <3>1. PICK t : t = [ state |-> TrackingState(b, p.stage), aborted |-> FALSE,
                         attemptCount |-> t0.attemptCount, order |-> p ]
      OBVIOUS
    <3>2. tracker' = [tracker EXCEPT ![b] = t]
      BY <1>0, <2>1, <2>4, <3>1
    <3>3. p \in TrackedOrder /\ p # Undefined /\ p.version \in Nat
      BY <1>2, ApiConstants, UndefinedIsNoOperation DEF TrackedOrder
    <3>4. TrackingState(b, p.stage) \in
            {"DELIVERED", "ATTENTION_REQUIRED", "TIMED_OUT", "POLLING"}
      BY DEF TrackingState
    <3>5. t \in Tracking /\ t.order = p /\ t.state # "NOT_STARTED"
      BY <1>2, <3>1, <3>3, <3>4 DEF Tracking
    <3>6. ~t0.aborted
      BY <1>0, <2>4 DEF Hears
    <3>7. TrackerHolds(operation[b], preparation[b], t, {})
      BY <1>2, <1>7, <3>5 DEF TrackerHolds
    <3>8. t0.order # Undefined => t0.order.version \in Nat /\ t0.order.version <= p.version
      BY <1>2, ApiConstants DEF TrackerHolds, Tracking, TrackedOrder
    <3>9. t0.order # Undefined => t.order.version >= t0.order.version
      BY <3>3, <3>5, <3>8
    <3>10. Goes(t, {})
      BY <1>7, <2>2, <3>2, <3>5, <3>6, <3>7, <3>9
    <3> QED BY <3>10
  <2> QED BY <2>3, <2>4
<1>9. ASSUME PollFails(b) PROVE \E t, qs : Goes(t, qs)
  <2>1. PICK p \in ps0, s \in {TrackingState(b, "underway"), "REJECTED"} :
          /\ polls' = [polls EXCEPT ![b] = @ \ {p}]
          /\ tracker' = [tracker EXCEPT ![b].state = IF Hears(b) THEN s ELSE "STOPPED"]
    BY <1>0, <1>9 DEF PollFails
  <2>2. polls' = [polls EXCEPT ![b] = {}]
    BY <1>0, <1>7, <2>1
  <2>3. PICK r : r = IF Hears(b) THEN s ELSE "STOPPED"
    OBVIOUS
  <2>4. r \in {"POLLING", "STOPPED", "TIMED_OUT", "REJECTED"}
    BY <2>1, <2>3 DEF TrackingState
  <2>5. tracker' = [tracker EXCEPT ![b].state = r]
    BY <2>1, <2>3
  <2> HIDE DEF Goes
  <2> QED BY <1>4, <1>7, <2>2, <2>4, <2>5
<1>10. ASSUME StopTracking(b) PROVE \E t, qs : Goes(t, qs)
  <2>1. PICK t : t = [t0 EXCEPT !.aborted = TRUE]
    OBVIOUS
  <2>2. t \in Tracking /\ t.state = t0.state /\ t.order = t0.order
    BY <1>2, <2>1 DEF Tracking
  <2>3. tracker' = [tracker EXCEPT ![b] = t] /\ polls' = [polls EXCEPT ![b] = ps0]
    BY <1>0, <1>3, <1>10, <2>1 DEF StopTracking
  <2>4. TrackerHolds(operation[b], preparation[b], t, ps0)
    BY <1>2, <2>2 DEF TrackerHolds
  <2>5. Goes(t, ps0)
    BY <1>2, <2>2, <2>3, <2>4
  <2> QED BY <2>5
<1>11. ASSUME TrackingStops(b) PROVE \E t, qs : Goes(t, qs)
  <2>1. /\ tracker' = [tracker EXCEPT ![b].state = "STOPPED"]
        /\ polls' = [polls EXCEPT ![b] = ps0] /\ ps0 = {}
        /\ t0.state = "POLLING"
    BY <1>0, <1>3, <1>11 DEF TrackingStops
  <2>2. preparation[b] = "SUCCEEDED"
    BY <1>2, <2>1 DEF TrackerHolds
  <2> HIDE DEF Goes
  <2> QED BY <1>4, <2>1, <2>2
<1>12. PICK t, ps : Goes(t, ps)
  BY <1>5, <1>6, <1>8, <1>9, <1>10, <1>11
<1>13. TrackerInv'
  BY <1>1, <1>12, TrackerSteps
<1> QED BY <1>0, <1>3, <1>12, <1>13

LEMMA TrackerInitHolds == JourneyInit => TrackerInv
  BY BrowserConstants
     DEF JourneyInit, BrowserInit, TrackerInv, PageParts, TrackerHolds, NotTracking, Tracking

\* No step of the page's loop, or of anything else, shows an older order.
OrderShown(b) ==
  tracker'[b].order # tracker[b].order =>
    /\ tracker[b].state = "POLLING" /\ ~tracker[b].aborted
    /\ tracker[b].order # Undefined => tracker'[b].order.version >= tracker[b].order.version

LEMMA JourneyStepKeepsTrackers ==
  ASSUME ApiInv, PageInv, TrackerInv, [JourneyNext]_journeyVars
  PROVE  TrackerInv' /\ \A b \in Browsers : OrderShown(b)
<1>1. ApiInv'
  BY JourneyStepKeepsInvs
<1>2. CASE ApiStep /\ UNCHANGED browserVars
  <2>1. UNCHANGED tracker
    BY <1>2 DEF browserVars
  <2> QED BY <1>1, <1>2, <2>1, ApiStepGrows, TrackersLeftAlone DEF OrderShown
<1>3. ASSUME NEW o \in OrderIds, OrderMovesOn(o), UNCHANGED browserVars
      PROVE  TrackerInv' /\ \A b \in Browsers : OrderShown(b)
  <2>1. UNCHANGED tracker
    BY <1>3 DEF browserVars
  <2>2. OrdersGrow
    BY <1>3, OrderMovesOnKeepsApi DEF OrdersGrow
  <2> QED BY <1>1, <1>3, <2>1, <2>2, TrackersLeftAlone DEF OrderShown
<1>4. ASSUME NEW b \in Browsers, BrowserStep(b)
      PROVE  TrackerInv' /\ \A d \in Browsers : OrderShown(d)
  <2>1. CASE Submit(b) \/ Retry(b) \/ ReceiveAnswer(b) \/ LoseConnection(b) \/ Reset(b)
    <3>1. UNCHANGED tracker
      BY <2>1 DEF Submit, Retry, ReceiveAnswer, LoseConnection, Reset
    <3> QED BY <2>1, <3>1, SubmissionStepsKeepTrackers DEF OrderShown
  <2>2. CASE PreparePayment(b) \/ PreparationSettles(b)
    <3>1. UNCHANGED tracker
      BY <2>2 DEF PreparePayment, PreparationSettles
    <3> QED BY <2>2, <3>1, PreparationStepsKeepTrackers DEF OrderShown
  <2>3. CASE \/ ConfirmPayment(b) \/ Poll(b) \/ PollAnswered(b) \/ PollFails(b)
             \/ StopTracking(b) \/ TrackingStops(b)
    BY <2>3, LoopStepsKeepTrackers DEF OrderShown
  <2> QED BY <1>4, <2>1, <2>2, <2>3 DEF BrowserStep
<1>5. ASSUME UNCHANGED <<items, browserVars>>
      PROVE  TrackerInv' /\ \A b \in Browsers : OrderShown(b)
  BY <1>5 DEF browserVars, TrackerInv, PageParts, TrackerHolds, OrderShown
<1>6. ASSUME NEW c \in Calls, OtherSystemCalls(c) \/ AnswerDropped(c)
      PROVE  UNCHANGED <<items, browserVars>>
  BY <1>6 DEF OtherSystemCalls, AnswerDropped, itemVars
<1>7. ASSUME UNCHANGED journeyVars PROVE UNCHANGED <<items, browserVars>>
  BY <1>7 DEF journeyVars, apiVars, itemVars
<1> QED BY <1>2, <1>3, <1>4, <1>5, <1>6, <1>7 DEF JourneyNext

\* What a page shows of its order is never older than what it showed, and
\* changes while its loop polls only (OrderJourneyTracker).
THEOREM PagesNeverGoBack == JourneySpec => TrackedNeverGoesBack
<1>1. JourneyInit => TrackerInv
  BY TrackerInitHolds
<1>2. ApiInv /\ PageInv /\ TrackerInv /\ [JourneyNext]_journeyVars => TrackerInv'
  BY JourneyStepKeepsTrackers
<1>3. ApiInv /\ PageInv /\ TrackerInv /\ [JourneyNext]_journeyVars =>
        [ \A b \in Browsers :
            tracker'[b].order # tracker[b].order =>
              /\ tracker[b].state = "POLLING" /\ ~tracker[b].aborted
              /\ tracker[b].order # Undefined =>
                   tracker'[b].order.version >= tracker[b].order.version ]_tracker
  BY JourneyStepKeepsTrackers DEF OrderShown
<1> QED BY <1>1, <1>2, <1>3, JourneyInvariant, PTL DEF JourneySpec, TrackedNeverGoesBack
==============================================================================
