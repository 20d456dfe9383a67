------------------------------- MODULE OrderApi -------------------------------
(***************************************************************************)
(* POST /orders: from a caller's request through createOrder to the three  *)
(* items DynamoDbOrderRepository.create puts in one transaction, and back. *)
(*                                                                         *)
(* A call takes one step per request it awaits.  The body is reduced to    *)
(* the merchant's own order id and its remaining business values; the      *)
(* fingerprint, a hash of both, is the request itself.                     *)
(***************************************************************************)
EXTENDS Identifiers, Naturals, FiniteSets

CONSTANTS
  Keys,              \* idempotency keys
  MerchantOrderIds,  \* the merchant's own order ids
  Contents,          \* the other business values of a body
  Calls,             \* requests that may be under way at once
  MaxVersion         \* bound on an order's version

ASSUME ApiConstants == MaxVersion \in Nat \ {0}

VARIABLES
  items,      \* ORDER items
  keyItems,   \* IDEMPOTENCY items: key -> request and order
  claims,     \* MERCHANT_ORDER_ID items: merchant order id -> order
  call        \* what is under way for a request

itemVars == <<items, keyItems, claims>>
apiVars  == <<itemVars, call>>

Request == [merchantOrderId : MerchantOrderIds, contents : Contents]

\* How far an order has come, as far as a browser tells it apart.
Stages == {"awaiting", "underway", "delivered", "attention"}
Item == [request : Request, stage : Stages, version : 1..MaxVersion]
KeyItem == [fingerprint : Request, orderId : OrderIds]

ASSUME UndefinedIsNoItem == Undefined \notin Item /\ Undefined \notin KeyItem

Rejections == {"idempotencyConflict", "merchantOrderIdConflict", "unauthorized"}
Failures   == {"error", "keyWithoutOrder", "noConflictFound"}
Answers    == {"created", "replayed"} \cup Rejections \cup Failures

NoCall == [at |-> "idle"]

Frame ==
  [ at : {"sent", "create", "resolveKey", "resolveReplay",
          "resolveClaim"},
    key : Keys, request : Request, id : OrderIds \cup {Undefined} ]

Answered ==
  [ at : {"answered"}, key : Keys, request : Request,
    answer : Answers, id : OrderIds \cup {Undefined}, stage : Stages \cup {Undefined} ]

ApiInit ==
  /\ items = [o \in OrderIds |-> Undefined]
  /\ keyItems = [k \in Keys |-> Undefined]
  /\ claims = [m \in MerchantOrderIds |-> Undefined]
  /\ call = [c \in Calls |-> NoCall]

Send(c, key, request) ==
  /\ call[c] = NoCall
  /\ call' = [call EXCEPT ![c] =
       [at |-> "sent", key |-> key, request |-> request, id |-> Undefined]]

GoOn(c, at, o) ==
  call' = [call EXCEPT ![c] =
    [at |-> at, key |-> call[c].key, request |-> call[c].request, id |-> o]]

AnswerOf(c, answer, o) ==
  [ at |-> "answered", key |-> call[c].key, request |-> call[c].request, answer |-> answer,
    id |-> o, stage |-> IF o = Undefined THEN Undefined ELSE items'[o].stage ]

Answer(c, answer, o) == call' = [call EXCEPT ![c] = AnswerOf(c, answer, o)]

\* The caller's token is checked before anything is read or written (bodies
\* are well-formed here: one that is not is refused at every attempt);
\* createOrder then draws an order id nothing else has.
ApiHandles(c) ==
  /\ call[c].at = "sent"
  /\ \/ Answer(c, "unauthorized", Undefined)
     \/ \E o \in OrderIds :
          /\ items[o] = Undefined
          /\ \A d \in Calls : call[d] # NoCall => call[d].id # o
          /\ GoOn(c, "create", o)
  /\ UNCHANGED itemVars

(***************************************************************************)
(* DynamoDbOrderRepository.create.                                         *)
(***************************************************************************)

CreateCommits(key, request, o) ==
  /\ items[o] = Undefined
  /\ keyItems[key] = Undefined
  /\ claims[request.merchantOrderId] = Undefined

\* Faulty variant: the order item alone, the other two left for later.
PutOrderOnly(key, request, o) ==
  /\ items' = [items EXCEPT ![o] = [request |-> request, stage |-> "awaiting", version |-> 1]]
  /\ UNCHANGED <<keyItems, claims>>

PutItems(key, request, o) ==
  /\ items' = [items EXCEPT ![o] = [request |-> request, stage |-> "awaiting", version |-> 1]]
  /\ keyItems' = [keyItems EXCEPT ![key] = [fingerprint |-> request, orderId |-> o]]
  /\ claims' = [claims EXCEPT ![request.merchantOrderId] = o]

\* The transaction: it commits, is cancelled by a condition, or fails for
\* another reason; also after it committed (a time-out of the client).
ApiCreates(c) ==
  LET f == call[c]
  IN /\ f.at = "create"
     /\ \/ /\ CreateCommits(f.key, f.request, f.id)
           /\ PutItems(f.key, f.request, f.id)
           /\ Answer(c, "created", f.id) \/ Answer(c, "error", Undefined)
        \/ /\ ~CreateCommits(f.key, f.request, f.id)
           /\ GoOn(c, "resolveKey", Undefined)
           /\ UNCHANGED itemVars
        \/ Answer(c, "error", Undefined) /\ UNCHANGED itemVars

\* Faulty variant: the key is trusted whatever was sent with it.
SameFingerprintAssumed(key, request) == TRUE

SameFingerprint(key, request) == keyItems[key].fingerprint = request

\* resolveCreateConflict reads the key's item ...
ApiResolvesKey(c) ==
  LET f == call[c]
  IN /\ f.at = "resolveKey"
     /\ \/ keyItems[f.key] = Undefined /\ GoOn(c, "resolveClaim", Undefined)
        \/ /\ keyItems[f.key] # Undefined
           /\ IF SameFingerprint(f.key, f.request)
              THEN GoOn(c, "resolveReplay", keyItems[f.key].orderId)
              ELSE Answer(c, "idempotencyConflict", Undefined)
     /\ UNCHANGED itemVars

\* ... the order it names, which may have moved on ...
ApiReplays(c) ==
  /\ call[c].at = "resolveReplay"
  /\ UNCHANGED itemVars
  /\ IF items[call[c].id] = Undefined
     THEN Answer(c, "keyWithoutOrder", Undefined)
     ELSE Answer(c, "replayed", call[c].id)

\* ... or the claim on the merchant's order id; with neither, the order of
\* that id, and an error whether there is one or not.
ApiResolvesClaim(c) ==
  /\ call[c].at = "resolveClaim"
  /\ Answer(c, IF claims[call[c].request.merchantOrderId] # Undefined
               THEN "merchantOrderIdConflict" ELSE "noConflictFound", Undefined)
  /\ UNCHANGED itemVars

\* The invocation times out.
ApiDies(c) ==
  /\ call[c].at \notin {"idle", "sent", "answered"}
  /\ Answer(c, "error", Undefined)
  /\ UNCHANGED itemVars

ApiStep ==
  \E c \in Calls :
    \/ ApiHandles(c) \/ ApiCreates(c) \/ ApiResolvesKey(c) \/ ApiReplays(c)
    \/ ApiResolvesClaim(c) \/ ApiDies(c)

\* The rest of the service moves an order on.
NextStages(stage) ==
  CASE stage = "awaiting"  -> {"awaiting", "underway", "attention"}
    [] stage = "underway"  -> {"underway", "delivered", "attention"}
    [] stage = "attention" -> {"underway"}       \* an operator retries the submission
    [] stage = "delivered" -> {}

OrderMovesOn(o) ==
  /\ items[o] # Undefined
  /\ items[o].version < MaxVersion
  /\ \E s \in NextStages(items[o].stage) :
       items' = [items EXCEPT ![o] =
         [request |-> items[o].request, stage |-> s, version |-> items[o].version + 1]]
  /\ UNCHANGED <<keyItems, claims, call>>

(***************************************************************************)
(* Properties.                                                             *)
(***************************************************************************)
ApiTypeOK ==
  /\ items \in [OrderIds -> Item \cup {Undefined}]
  /\ keyItems \in [Keys -> KeyItem \cup {Undefined}]
  /\ claims \in [MerchantOrderIds -> OrderIds \cup {Undefined}]
  /\ call \in [Calls -> {NoCall} \cup Frame \cup Answered]

\* Idempotency rules 1, 4 and 5: every order is named by exactly one key
\* and one claim, both of its own request, and neither names anything else.
OneOrderPerKeyAndClaim ==
  /\ \A k \in Keys :
       keyItems[k] # Undefined =>
         items[keyItems[k].orderId] # Undefined
           /\ items[keyItems[k].orderId].request = keyItems[k].fingerprint
  /\ \A m \in MerchantOrderIds, o \in OrderIds :
       claims[m] = o <=> (items[o] # Undefined /\ items[o].request.merchantOrderId = m)
  /\ \A o \in OrderIds :
       items[o] # Undefined =>
         Cardinality({k \in Keys : keyItems[k] # Undefined /\ keyItems[k].orderId = o}) = 1

\* A call's key stands for its request and the order it has in hand.
KeyIsForCall(a) ==
  /\ keyItems[a.key] # Undefined
  /\ keyItems[a.key].fingerprint = a.request
  /\ keyItems[a.key].orderId = a.id

AnswerIsTrue(a) ==
  /\ a.answer \in {"created", "replayed"} => KeyIsForCall(a)
  /\ a.answer = "idempotencyConflict" =>
       keyItems[a.key] # Undefined /\ keyItems[a.key].fingerprint # a.request
  /\ a.answer = "merchantOrderIdConflict" =>
       /\ claims[a.request.merchantOrderId] # Undefined
       /\ keyItems[a.key] # Undefined => keyItems[a.key].fingerprint # a.request
  /\ a.answer \notin {"keyWithoutOrder", "noConflictFound"}

\* What a caller is told stays true while and after it is told, however
\* calls with its key or its merchant order id overlap: a success names the
\* key's one order, made from this very request, and a conflict is final.
\* The two errors that would mean a broken table are never reached.
AnswersAreTrue == \A c \in Calls : call[c].at = "answered" => AnswerIsTrue(call[c])
==============================================================================
