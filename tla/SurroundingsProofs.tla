--------------------------- MODULE SurroundingsProofs ---------------------------
(***************************************************************************)
(* What is proved of the components around the service, each by itself:    *)
(* the initialiser of the Lambda containers, the mock delivery vendor, the *)
(* supervisor of the development lab, the listing of orders, and the       *)
(* publisher of the table's stream.                                        *)
(***************************************************************************)
EXTENDS RetryableInitializer, MockVendor, DevelopmentLab, OrderListing, StreamPublisher,
        OrderDomainProofs, FiniteSetTheorems

(***************************************************************************)
(* RetryableInitializer.                                                   *)
(***************************************************************************)

\* The attempt that is kept and has not succeeded.
KeptUnproven(a) == currentAttempt = a /\ attempts[a] # "fulfilled"

\* Until an attempt that is kept has succeeded, forgetting it is the first
\* thing its end will do; callers wait for the attempt they were handed.
InitializerInv ==
  /\ InitializerTypeOK
  /\ reactions \in Seq(Seq(Callers \cup {Forget}))
  /\ \A a \in DOMAIN attempts :
       KeptUnproven(a) => reactions[a] # <<>> /\ Head(reactions[a]) = Forget
  /\ \A a \in DOMAIN attempts : \A k \in DOMAIN reactions[a] :
       reactions[a][k] # Forget => caller[reactions[a][k]].attempt = a
  /\ \A c \in Callers : caller[c].told # "no" => caller[c].attempt # Undefined
  /\ FailureIsForgottenInTime

AttemptStates == {"pending", "fulfilled", "rejected"}
Told == {"no", "waiting", "fulfilled", "rejected"}

\* What the invariant says of the types, in the form the steps use.
LEMMA InitializerTypes ==
  ASSUME InitializerInv
  PROVE  /\ attempts \in Seq(AttemptStates)
         /\ reactions \in Seq(Seq(Callers \cup {Forget}))
         /\ Len(reactions) = Len(attempts)
         /\ DOMAIN attempts = 1..Len(attempts) /\ DOMAIN reactions = 1..Len(attempts)
         /\ Len(attempts) \in Nat
         /\ currentAttempt \in (1..Len(attempts)) \cup {Undefined}
         /\ caller \in [Callers -> [attempt : (1..Len(attempts)) \cup {Undefined}, told : Told]]
BY DEF InitializerInv, InitializerTypeOK, AttemptStates, Told

LEMMA InitializerStarts == InitializerInit => InitializerInv
<1> SUFFICES ASSUME InitializerInit PROVE InitializerInv
  OBVIOUS
<1> USE InitializerConstants DEF InitializerInit, NotCalled, Forget
<1>1. DOMAIN attempts = {} /\ DOMAIN reactions = {}
  OBVIOUS
<1>2. InitializerTypeOK
  BY <1>1 DEF InitializerTypeOK
<1>3. reactions \in Seq(Seq(Callers \cup {Forget}))
  OBVIOUS
<1>4. FailureIsForgottenInTime
  BY <1>1 DEF FailureIsForgottenInTime
<1> QED
  BY <1>1, <1>2, <1>3, <1>4 DEF InitializerInv, KeptUnproven

\* A call that finds an attempt joins those who wait for it.
LEMMA CallJoins ==
  ASSUME InitializerInv, NEW c \in Callers, Call(c), currentAttempt # Undefined
  PROVE  InitializerInv'
<1> DEFINE k == currentAttempt
<1>1. /\ k \in 1..Len(attempts) /\ caller[c] = NotCalled
      /\ reactions' = [reactions EXCEPT ![k] = Append(@, c)]
      /\ caller' = [caller EXCEPT ![c] = Waiting(k)]
      /\ attempts' = attempts /\ currentAttempt = k /\ currentAttempt' = k
  BY InitializerTypes DEF Call
<1> HIDE DEF k
<1>0. /\ attempts \in Seq(AttemptStates) /\ Len(attempts) \in Nat
      /\ reactions \in Seq(Seq(Callers \cup {Forget}))
      /\ Len(reactions) = Len(attempts)
      /\ DOMAIN attempts = 1..Len(attempts) /\ DOMAIN reactions = 1..Len(attempts)
      /\ caller \in [Callers -> [attempt : (1..Len(attempts)) \cup {Undefined}, told : Told]]
  BY InitializerTypes
<1> USE <1>0, <1>1
<1>2. caller' \in [Callers -> [attempt : (1..Len(attempts)) \cup {Undefined}, told : Told]]
  BY DEF Waiting, Told
<1>3. /\ reactions' \in Seq(Seq(Callers \cup {Forget})) /\ Len(reactions') = Len(reactions)
      /\ DOMAIN reactions' = 1..Len(attempts)
  BY DEF Forget
<1>4. InitializerTypeOK'
  BY <1>2, <1>3 DEF InitializerTypeOK, AttemptStates, Told
<1>5. \A a \in DOMAIN attempts :
        KeptUnproven(a)' => reactions'[a] # <<>> /\ Head(reactions'[a]) = Forget
  <2> SUFFICES ASSUME NEW a \in DOMAIN attempts, KeptUnproven(a)'
               PROVE  reactions'[a] # <<>> /\ Head(reactions'[a]) = Forget
    OBVIOUS
  <2>1. a = k /\ KeptUnproven(a)
    BY DEF KeptUnproven, k
  <2>2. reactions[a] \in Seq(Callers \cup {Forget}) /\ reactions[a] # <<>>
        /\ Head(reactions[a]) = Forget
    BY <2>1 DEF InitializerInv
  <2>3. reactions'[a] = Append(reactions[a], c)
    BY <2>1
  <2> QED
    BY ONLY <2>2, <2>3
<1>6. \A a \in DOMAIN attempts : \A n \in DOMAIN reactions'[a] :
        reactions'[a][n] # Forget => caller'[reactions'[a][n]].attempt = a
  <2> SUFFICES ASSUME NEW a \in DOMAIN attempts, NEW n \in DOMAIN reactions'[a],
                      reactions'[a][n] # Forget
               PROVE  caller'[reactions'[a][n]].attempt = a
    OBVIOUS
  <2>1. CASE n \in DOMAIN reactions[a] /\ reactions'[a][n] = reactions[a][n]
    <3>1. reactions[a][n] \in Callers
      BY <2>1
    <3>2. caller[reactions[a][n]].attempt = a
      BY <2>1 DEF InitializerInv
    <3>3. reactions[a][n] # c
      BY <3>2, InitializerConstants DEF NotCalled
    <3> QED
      BY <2>1, <3>1, <3>2, <3>3
  <2>2. CASE a = k /\ reactions'[a][n] = c
    BY <2>2 DEF Waiting
  <2> QED
    BY <2>1, <2>2
<1>7. \A d \in Callers : caller'[d].told # "no" => caller'[d].attempt # Undefined
  BY InitializerConstants DEF InitializerInv, Waiting
<1>8. FailureIsForgottenInTime'
  BY DEF InitializerInv, FailureIsForgottenInTime, Waiting
<1> QED
  BY <1>3, <1>4, <1>5, <1>6, <1>7, <1>8 DEF InitializerInv

\* A call that finds none starts one: all attempts before it have failed.
LEMMA CallStarts ==
  ASSUME InitializerInv, NEW c \in Callers, Call(c), currentAttempt = Undefined
  PROVE  InitializerInv'
<1>0. /\ attempts \in Seq(AttemptStates) /\ Len(attempts) \in Nat
      /\ reactions \in Seq(Seq(Callers \cup {Forget}))
      /\ Len(reactions) = Len(attempts)
      /\ DOMAIN attempts = 1..Len(attempts) /\ DOMAIN reactions = 1..Len(attempts)
      /\ caller \in [Callers -> [attempt : (1..Len(attempts)) \cup {Undefined}, told : Told]]
  BY InitializerTypes
<1> DEFINE n == Len(attempts) + 1
<1>1. /\ caller[c] = NotCalled
      /\ attempts' = Append(attempts, "pending")
      /\ reactions' = Append(reactions, <<Forget, c>>)
      /\ currentAttempt' = n
      /\ caller' = [caller EXCEPT ![c] = Waiting(n)]
  BY DEF Call, RegisteredFirst
<1>2. n = Len(attempts) + 1 /\ n \in Nat /\ n # Undefined /\ 1..Len(attempts) \subseteq 1..n
      /\ n \in 1..n /\ n \notin 1..Len(attempts)
  BY <1>0, InitializerConstants
<1> HIDE DEF n
<1>3. <<Forget, c>> \in Seq(Callers \cup {Forget}) /\ <<Forget, c>> # <<>>
      /\ Head(<<Forget, c>>) = Forget /\ DOMAIN <<Forget, c>> = {1, 2}
  OBVIOUS
<1>4. /\ attempts' \in Seq(AttemptStates) /\ Len(attempts') = n /\ DOMAIN attempts' = 1..n
      /\ attempts'[n] = "pending"
      /\ \A a \in 1..Len(attempts) : attempts'[a] = attempts[a]
  BY <1>0, <1>1, <1>2 DEF AttemptStates
<1>5. /\ reactions' \in Seq(Seq(Callers \cup {Forget})) /\ Len(reactions') = n
      /\ DOMAIN reactions' = 1..n
      /\ reactions'[n] = <<Forget, c>>
      /\ \A a \in 1..Len(attempts) : reactions'[a] = reactions[a]
  BY <1>0, <1>1, <1>2, <1>3
<1>6. \A a \in 1..n : a = n \/ a \in 1..Len(attempts)
  BY <1>0, <1>2
<1>7. \A a \in 1..Len(attempts) : attempts[a] = "rejected"
  BY <1>0, InitializerConstants DEF InitializerInv, FailureIsForgottenInTime
<1>8. caller' \in [Callers -> [attempt : (1..n) \cup {Undefined}, told : Told]]
  BY <1>0, <1>1, <1>2 DEF Waiting, Told
<1>9. InitializerTypeOK'
  <2>1. \A a \in 1..n : reactions'[a] \in Seq(Callers \cup {Forget})
    BY <1>5
  <2>2. currentAttempt' \in (1..n) \cup {Undefined}
    BY <1>1, <1>2
  <2> QED
    BY <1>4, <1>5, <1>8, <2>1, <2>2 DEF InitializerTypeOK, AttemptStates, Told
<1>10. \A a \in 1..n : KeptUnproven(a)' => reactions'[a] # <<>> /\ Head(reactions'[a]) = Forget
  BY <1>1, <1>3, <1>5 DEF KeptUnproven
<1>11. \A a \in 1..n : \A k \in DOMAIN reactions'[a] :
         reactions'[a][k] # Forget => caller'[reactions'[a][k]].attempt = a
  <2> SUFFICES ASSUME NEW a \in 1..n, NEW k \in DOMAIN reactions'[a],
                      reactions'[a][k] # Forget
               PROVE  caller'[reactions'[a][k]].attempt = a
    OBVIOUS
  <2>1. CASE a = n
    <3>1. reactions'[a][k] = c
      BY <1>3, <1>5, <2>1
    <3> QED
      BY <1>0, <1>1, <2>1, <3>1 DEF Waiting
  <2>2. CASE a \in 1..Len(attempts)
    <3>1. reactions'[a] = reactions[a]
      BY <1>5, <2>2
    <3>2. reactions[a][k] \in Callers /\ caller[reactions[a][k]].attempt = a
      BY <1>0, <2>2, <3>1 DEF InitializerInv
    <3>3. reactions[a][k] # c
      BY <1>0, <1>1, <2>2, <3>2, InitializerConstants DEF NotCalled
    <3> QED
      BY <1>0, <1>1, <3>1, <3>2, <3>3
  <2> QED
    BY <1>6, <2>1, <2>2
<1>12. \A d \in Callers : caller'[d].told # "no" => caller'[d].attempt # Undefined
  BY <1>0, <1>1, <1>2 DEF InitializerInv, Waiting
<1>13. FailureIsForgottenInTime'
  <2>1. \A d \in Callers : caller'[d].told = "rejected" => currentAttempt' # caller'[d].attempt
    BY <1>0, <1>1, <1>2 DEF Waiting
  <2>2. \A a \in 1..n : attempts'[a] # "rejected" => a = n
    BY <1>4, <1>6, <1>7
  <2> QED
    BY <1>1, <1>4, <2>1, <2>2 DEF FailureIsForgottenInTime
<1> QED
  BY <1>4, <1>5, <1>9, <1>10, <1>11, <1>12, <1>13 DEF InitializerInv

\* An attempt comes to its end.
LEMMA SettlingKeeps ==
  ASSUME InitializerInv, NEW a \in DOMAIN attempts, Settles(a)
  PROVE  InitializerInv'
<1>0. /\ attempts \in Seq(AttemptStates) /\ Len(attempts) \in Nat
      /\ DOMAIN attempts = 1..Len(attempts) /\ DOMAIN reactions = 1..Len(attempts)
      /\ caller \in [Callers -> [attempt : (1..Len(attempts)) \cup {Undefined}, told : Told]]
  BY InitializerTypes
<1>1. PICK outcome \in {"fulfilled", "rejected"} : attempts' = [attempts EXCEPT ![a] = outcome]
  BY DEF Settles
<1>2. attempts[a] = "pending" /\ UNCHANGED <<reactions, currentAttempt, caller>>
  BY DEF Settles
<1>3. /\ attempts' \in Seq(AttemptStates) /\ Len(attempts') = Len(attempts)
      /\ DOMAIN attempts' = DOMAIN attempts
      /\ \A b \in DOMAIN attempts : b # a => attempts'[b] = attempts[b]
  BY <1>0, <1>1 DEF AttemptStates
<1>4. InitializerTypeOK'
  BY <1>2, <1>3 DEF InitializerInv, InitializerTypeOK, AttemptStates
<1>5. \A b \in DOMAIN attempts : KeptUnproven(b)' => KeptUnproven(b)
  BY <1>2, <1>3 DEF KeptUnproven
<1>6. currentAttempt = a /\ a = Len(attempts)
  BY <1>0, <1>2 DEF InitializerInv, FailureIsForgottenInTime
<1>7. \A b \in DOMAIN attempts : attempts'[b] # "rejected" => b = a
  BY <1>0, <1>3, <1>6 DEF InitializerInv, FailureIsForgottenInTime
<1>8. FailureIsForgottenInTime'
  BY <1>2, <1>3, <1>6, <1>7 DEF InitializerInv, FailureIsForgottenInTime
<1> QED
  BY <1>2, <1>3, <1>4, <1>5, <1>8 DEF InitializerInv

\* The first reaction of an attempt that ended runs.
LEMMA ReactingKeeps ==
  ASSUME InitializerInv, NEW a \in DOMAIN attempts, Reacts(a)
  PROVE  InitializerInv'
<1>0. /\ attempts \in Seq(AttemptStates) /\ Len(attempts) \in Nat
      /\ reactions \in Seq(Seq(Callers \cup {Forget}))
      /\ Len(reactions) = Len(attempts)
      /\ DOMAIN attempts = 1..Len(attempts) /\ DOMAIN reactions = 1..Len(attempts)
      /\ currentAttempt \in (1..Len(attempts)) \cup {Undefined}
      /\ caller \in [Callers -> [attempt : (1..Len(attempts)) \cup {Undefined}, told : Told]]
  BY InitializerTypes
<1> DEFINE r == Head(reactions[a])
<1>1. /\ attempts[a] # "pending" /\ reactions[a] # <<>> /\ attempts' = attempts
      /\ reactions' = [reactions EXCEPT ![a] = Tail(reactions[a])]
      /\ r = Forget => /\ caller' = caller
                       /\ currentAttempt' = IF attempts[a] = "rejected" /\ currentAttempt = a
                                            THEN Undefined ELSE currentAttempt
      /\ r # Forget => /\ caller' = [caller EXCEPT ![r].told = attempts[a]]
                       /\ currentAttempt' = currentAttempt
  BY DEF Reacts
<1>2. /\ reactions[a] \in Seq(Callers \cup {Forget})
      /\ Tail(reactions[a]) \in Seq(Callers \cup {Forget})
      /\ r = reactions[a][1] /\ 1 \in DOMAIN reactions[a] /\ r \in Callers \cup {Forget}
      /\ \A k \in DOMAIN Tail(reactions[a]) :
           k + 1 \in DOMAIN reactions[a] /\ Tail(reactions[a])[k] = reactions[a][k + 1]
  BY <1>0, <1>1
<1> HIDE DEF r
<1>3. /\ reactions' \in Seq(Seq(Callers \cup {Forget})) /\ Len(reactions') = Len(attempts)
      /\ DOMAIN reactions' = DOMAIN attempts
  BY <1>0, <1>1, <1>2
<1>4. attempts[a] \in {"fulfilled", "rejected"}
  BY <1>0, <1>1 DEF AttemptStates
<1>5. r # Forget => r \in Callers /\ caller[r].attempt = a
  BY <1>2 DEF InitializerInv
<1>6. /\ caller' \in [Callers -> [attempt : (1..Len(attempts)) \cup {Undefined}, told : Told]]
      /\ \A c \in Callers : /\ caller'[c].attempt = caller[c].attempt
                            /\ caller'[c].told = caller[c].told
                                 \/ (c = r /\ r # Forget /\ caller'[c].told = attempts[a])
  <2>1. CASE r = Forget
    <3>1. caller' = caller
      BY <1>1, <2>1
    <3> QED
      BY <1>0, <3>1
  <2>2. CASE r # Forget
    <3>1. caller' = [caller EXCEPT ![r].told = attempts[a]] /\ r \in Callers
          /\ attempts[a] \in Told
      BY <1>1, <1>4, <1>5, <2>2 DEF Told
    <3>2. caller' \in [Callers -> [attempt : (1..Len(attempts)) \cup {Undefined}, told : Told]]
      BY <1>0, <3>1
    <3>3. \A c \in Callers : c # r => caller'[c] = caller[c]
      BY <1>0, <3>1
    <3>4. caller'[r].attempt = caller[r].attempt /\ caller'[r].told = attempts[a]
      BY <1>0, <3>1
    <3> QED
      BY <2>2, <3>2, <3>3, <3>4
  <2> QED
    BY <2>1, <2>2
<1>7. currentAttempt' \in {currentAttempt, Undefined}
  BY <1>1
<1>8. InitializerTypeOK'
  BY <1>0, <1>1, <1>3, <1>6, <1>7 DEF InitializerTypeOK, AttemptStates, Told
<1>9. KeptUnproven(a) => r = Forget /\ attempts[a] = "rejected" /\ currentAttempt' = Undefined
  BY <1>1, <1>4 DEF InitializerInv, KeptUnproven, r
<1>10. \A b \in DOMAIN attempts :
         KeptUnproven(b)' => reactions'[b] = reactions[b] /\ KeptUnproven(b)
  BY <1>0, <1>1, <1>7, <1>9, InitializerConstants DEF KeptUnproven
<1>11. \A b \in DOMAIN attempts : \A k \in DOMAIN reactions'[b] :
         reactions'[b][k] # Forget =>
           reactions'[b][k] \in Callers /\ caller[reactions'[b][k]].attempt = b
  <2> SUFFICES ASSUME NEW b \in DOMAIN attempts, NEW k \in DOMAIN reactions'[b],
                      reactions'[b][k] # Forget
               PROVE  reactions'[b][k] \in Callers /\ caller[reactions'[b][k]].attempt = b
    OBVIOUS
  <2>1. PICK n \in DOMAIN reactions[b] : reactions'[b][k] = reactions[b][n]
    BY <1>0, <1>1, <1>2
  <2>2. reactions[b][n] \in Callers
    BY <1>0, <2>1
  <2> QED
    BY <2>1, <2>2 DEF InitializerInv
<1>12. \A c \in Callers : caller'[c].told # "no" => caller'[c].attempt # Undefined
  <2> SUFFICES ASSUME NEW c \in Callers, caller'[c].told # "no"
               PROVE  caller[c].attempt # Undefined
    BY <1>6
  <2>1. CASE caller'[c].told = caller[c].told
    BY <2>1 DEF InitializerInv
  <2>2. CASE c = r /\ r # Forget
    BY <1>0, <1>5, <2>2, InitializerConstants
  <2> QED
    BY <1>6, <2>1, <2>2
<1>13. FailureIsForgottenInTime'
  <2>1. \A c \in Callers : caller'[c].told = "rejected" => currentAttempt' # caller'[c].attempt
    <3> SUFFICES ASSUME NEW c \in Callers, caller'[c].told = "rejected"
                 PROVE  currentAttempt' # caller'[c].attempt
      OBVIOUS
    <3>1. caller'[c].attempt # Undefined
      BY <1>12
    <3>2. CASE caller'[c].told = caller[c].told
      BY <1>6, <1>7, <3>1, <3>2 DEF InitializerInv, FailureIsForgottenInTime
    <3>3. CASE c = r /\ r # Forget /\ caller'[c].told = attempts[a]
      BY <1>1, <1>5, <1>6, <1>9, <3>3 DEF KeptUnproven
    <3> QED
      BY <1>6, <3>2, <3>3
  <2>2. \A b \in DOMAIN attempts :
          attempts[b] # "rejected" => b = Len(attempts) /\ currentAttempt' = b
    BY <1>1, <1>4, <1>7 DEF InitializerInv, FailureIsForgottenInTime
  <2> QED
    BY <1>1, <2>1, <2>2 DEF FailureIsForgottenInTime
<1>14. \A b \in DOMAIN attempts :
         KeptUnproven(b)' => reactions'[b] # <<>> /\ Head(reactions'[b]) = Forget
  BY <1>10 DEF InitializerInv
<1>15. \A b \in DOMAIN attempts : \A k \in DOMAIN reactions'[b] :
         reactions'[b][k] # Forget => caller'[reactions'[b][k]].attempt = b
  BY <1>6, <1>11
<1> QED
  BY <1>1, <1>3, <1>8, <1>12, <1>13, <1>14, <1>15 DEF InitializerInv

LEMMA InitializerStays == InitializerInv /\ [InitializerNext]_initializerVars => InitializerInv'
<1> SUFFICES ASSUME InitializerInv, [InitializerNext]_initializerVars PROVE InitializerInv'
  OBVIOUS
<1>1. CASE \E c \in Callers : Call(c)
  BY <1>1, CallJoins, CallStarts
<1>2. CASE \E a \in DOMAIN attempts : Settles(a) \/ Reacts(a)
  BY <1>2, SettlingKeeps, ReactingKeeps
<1>3. CASE UNCHANGED initializerVars
  BY <1>3 DEF initializerVars, InitializerInv, InitializerTypeOK, FailureIsForgottenInTime,
              KeptUnproven
<1> QED
  BY <1>1, <1>2, <1>3 DEF InitializerNext

\* A container that was told of a failed initialisation never hands that
\* attempt to another call, never runs two attempts at a time, and never
\* initialises again after a success, however settling and calls interleave.
THEOREM FailureIsForgotten == InitializerSpec => []FailureIsForgottenInTime
<1>1. InitializerInv => FailureIsForgottenInTime
  BY DEF InitializerInv
<1> QED
  BY InitializerStarts, InitializerStays, <1>1, PTL DEF InitializerSpec

\* The initialiser's variables keep to their types.
THEOREM InitializerTypesKept == InitializerSpec => []InitializerTypeOK
<1>1. InitializerInv => InitializerTypeOK
  BY DEF InitializerInv
<1> QED
  BY InitializerStarts, InitializerStays, <1>1, PTL DEF InitializerSpec

(***************************************************************************)
(* MockVendor.                                                             *)
(***************************************************************************)
Answers == Turning \cup {"conflict", "created", "waiting", "malformed"}

JourneyStates == {"waiting", "sent", "done", "exhausted", "refused", "stopped"}

VendorSubmissions == [key : DeliveryKeys, parcel : Parcels, answer : Answers]

Journeys == [key : DeliveryKeys, event : Events, attempt : 1..WebhookMaximumAttempts,
             at : JourneyStates]

SubmissionsInv ==
  /\ submissions \in [Submissions -> {Undefined} \cup VendorSubmissions]
  /\ accepted \in [DeliveryKeys -> Parcels \cup {Undefined}]
  /\ \A r \in Submissions :
       submissions[r] # Undefined /\ submissions[r].answer = "waiting"
         => accepted[submissions[r].key] # Undefined

JourneysInv ==
  /\ journeys \in Seq(Journeys)
  /\ progress \in [DeliveryKeys -> Events \cup {Undefined}]
  /\ disturbances \in Nat
  /\ \A c \in callbacks : c.journey \in DOMAIN journeys /\ c.event \in Events
  /\ \A n \in DOMAIN journeys :
       journeys[n].key \in scheduled /\ accepted[journeys[n].key] # Undefined
  /\ \A m, n \in DOMAIN journeys : journeys[m].key = journeys[n].key => m = n
  /\ \A n \in DOMAIN journeys :
       journeys[n].event = "DELIVERY_DELIVERED" => progress[journeys[n].key] # Undefined
  /\ \A c \in callbacks :
       c.event = "DELIVERY_DELIVERED" => progress[journeys[c.journey].key] # Undefined
  /\ GivesUpOnlyAfterTrying

\* The pickup is known to the platform when a journey, or a callback still
\* on its way, announces the delivery; a journey is the only one of its key,
\* and its submission was accepted.
VendorInv == SubmissionsInv /\ JourneysInv

LEMMA VendorStarts == VendorInit => VendorInv
<1> SUFFICES ASSUME VendorInit PROVE VendorInv
  OBVIOUS
<1>1. journeys \in Seq(Journeys) /\ DOMAIN journeys = {}
  BY DEF VendorInit
<1> QED
  BY <1>1 DEF VendorInit, VendorInv, SubmissionsInv, JourneysInv, GivesUpOnlyAfterTrying

\* The type invariant and the promise to try are parts of the invariant.
LEMMA VendorInvSays == VendorInv => VendorTypeOK /\ GivesUpOnlyAfterTrying
<1> SUFFICES ASSUME VendorInv PROVE VendorTypeOK /\ GivesUpOnlyAfterTrying
  OBVIOUS
<1>1. \A n \in DOMAIN journeys : journeys[n] \in Journeys
  BY DEF VendorInv, JourneysInv
<1>2. \A r \in Submissions : submissions[r] # Undefined => submissions[r] \in VendorSubmissions
  BY DEF VendorInv, SubmissionsInv
<1> QED
  BY <1>1, <1>2 DEF VendorInv, SubmissionsInv, JourneysInv, VendorTypeOK,
                    GivesUpOnlyAfterTrying, Journeys, JourneyStates, VendorSubmissions, Answers

\* Changing one journey, or adding one, leaves the rest of the journeys be.
LEMMA JourneyBecomes ==
  ASSUME VendorInv, NEW n \in DOMAIN journeys, NEW j \in Journeys, j.key = journeys[n].key,
         Become(n, j)
  PROVE  /\ journeys' \in Seq(Journeys) /\ DOMAIN journeys' = DOMAIN journeys
         /\ journeys'[n] = j
         /\ \A m \in DOMAIN journeys : m # n => journeys'[m] = journeys[m]
         /\ \A m \in DOMAIN journeys : journeys'[m].key = journeys[m].key
BY DEF VendorInv, JourneysInv, Become

\* What a journey becomes after an attempt that came to nothing.
LEMMA TryingAgain ==
  ASSUME NEW j \in Journeys
  PROVE  /\ TryAgain(j) \in Journeys
         /\ TryAgain(j).key = j.key /\ TryAgain(j).event = j.event
         /\ TryAgain(j).at \in {"waiting", "exhausted"}
         /\ TryAgain(j).at = "exhausted" => TryAgain(j).attempt = WebhookMaximumAttempts
<1> DEFINE again == [j EXCEPT !.attempt = j.attempt + 1]
           next  == [again EXCEPT !.at = "waiting"]
           last  == [j EXCEPT !.at = "exhausted"]
<1>1. j.attempt \in Nat /\ WebhookMaximumAttempts \in Nat /\ j.attempt <= WebhookMaximumAttempts
      /\ j.attempt >= 1
  BY VendorConstants DEF Journeys
<1>2. CASE j.attempt < WebhookMaximumAttempts
  <2>1. TryAgain(j) = next
    BY <1>2 DEF TryAgain, Journeys
  <2>2. j.attempt + 1 \in 1..WebhookMaximumAttempts
    BY <1>1, <1>2
  <2>3. again \in Journeys /\ again.key = j.key /\ again.event = j.event
    BY <2>2 DEF Journeys
  <2> HIDE DEF again
  <2>4. next \in Journeys /\ next.key = j.key /\ next.event = j.event /\ next.at = "waiting"
    BY <2>3 DEF Journeys, JourneyStates
  <2> QED
    BY <2>1, <2>4
<1>3. CASE ~(j.attempt < WebhookMaximumAttempts)
  <2>1. TryAgain(j) = last /\ j.attempt = WebhookMaximumAttempts
    BY <1>1, <1>3 DEF TryAgain, GiveUp
  <2>2. last \in Journeys /\ last.key = j.key /\ last.event = j.event
        /\ last.at = "exhausted" /\ last.attempt = j.attempt
    BY DEF Journeys, JourneyStates
  <2> QED
    BY <2>1, <2>2
<1> QED
  BY <1>2, <1>3

\* What it becomes after an answer: it goes on to the delivery only after a
\* 2xx, and is refused only by an answer that is not one of an unknown
\* delivery.
LEMMA AfterAnAnswer ==
  ASSUME NEW j \in Journeys, NEW status \in {200, 401, 404, 429, 500}
  PROVE  LET k == AfterAnswer(j, status)
         IN /\ k \in Journeys /\ k.key = j.key
            /\ k.event = "DELIVERY_DELIVERED" /\ status # 200 => j.event = "DELIVERY_DELIVERED"
            /\ k.at \in {"waiting", "done", "exhausted", "refused"}
            /\ k.at = "exhausted" => k.attempt = WebhookMaximumAttempts
            /\ k.at = "refused" => status = 401
<1> DEFINE k == AfterAnswer(j, status)
<1> SUFFICES /\ k \in Journeys /\ k.key = j.key
             /\ k.event = "DELIVERY_DELIVERED" /\ status # 200 => j.event = "DELIVERY_DELIVERED"
             /\ k.at \in {"waiting", "done", "exhausted", "refused"}
             /\ k.at = "exhausted" => k.attempt = WebhookMaximumAttempts
             /\ k.at = "refused" => status = 401
  OBVIOUS
<1>1. CASE status = 200
  <2>1. CASE j.event = "DELIVERY_DELIVERED" \/ shuttingDown
    <3>1. k = [j EXCEPT !.at = "done"]
      BY <1>1, <2>1 DEF AfterAnswer
    <3> QED
      BY <3>1, <1>1 DEF Journeys, JourneyStates
  <2>2. CASE ~(j.event = "DELIVERY_DELIVERED" \/ shuttingDown)
    <3>1. j.event = "DELIVERY_PICKED_UP" /\ NextEvent[j.event] = "DELIVERY_DELIVERED"
      BY <2>2 DEF Journeys, Events, NextEvent
    <3> DEFINE told  == [j EXCEPT !.event = "DELIVERY_DELIVERED"]
               fresh == [told EXCEPT !.attempt = 1]
               next  == [fresh EXCEPT !.at = "waiting"]
    <3>2. k = next
      <4>1. k = [j EXCEPT !.event = NextEvent[j.event], !.attempt = 1, !.at = "waiting"]
        BY <1>1, <2>2 DEF AfterAnswer
      <4>2. [j EXCEPT !.event = "DELIVERY_DELIVERED", !.attempt = 1, !.at = "waiting"] = next
        BY DEF Journeys
      <4> QED
        BY <3>1, <4>1, <4>2
    <3>3. 1 \in 1..WebhookMaximumAttempts
      BY VendorConstants
    <3>4. told \in Journeys /\ told.key = j.key
      BY DEF Journeys, Events
    <3> HIDE DEF told
    <3>5. fresh \in Journeys /\ fresh.key = j.key
      BY <3>3, <3>4 DEF Journeys
    <3> HIDE DEF fresh
    <3>6. next \in Journeys /\ next.key = j.key /\ next.at = "waiting"
      BY <3>5 DEF Journeys, JourneyStates
    <3> HIDE DEF next, k
    <3> QED
      BY <1>1, <3>2, <3>6
  <2> QED
    BY <2>1, <2>2
<1>2. CASE status \in {404, 429, 500}
  <2>1. k = TryAgain(j)
    BY <1>2 DEF AfterAnswer, Retryable
  <2> QED
    BY <2>1, TryingAgain
<1>3. CASE status = 401
  <2>1. k = [j EXCEPT !.at = "refused"]
    BY <1>3 DEF AfterAnswer, Retryable
  <2> QED
    BY <1>3, <2>1 DEF Journeys, JourneyStates
<1> QED
  BY <1>1, <1>2, <1>3

\* What the invariant says of the journeys' types.
LEMMA VendorTypes ==
  ASSUME VendorInv
  PROVE  /\ journeys \in Seq(Journeys) /\ Len(journeys) \in Nat
         /\ DOMAIN journeys = 1..Len(journeys)
         /\ \A n \in DOMAIN journeys :
              /\ journeys[n] \in Journeys
              /\ journeys[n].key \in DeliveryKeys /\ journeys[n].event \in Events
         /\ disturbances \in Nat
<1>1. journeys \in Seq(Journeys) /\ disturbances \in Nat
  BY DEF VendorInv, JourneysInv
<1>2. \A n \in DOMAIN journeys : journeys[n] \in Journeys
  BY <1>1
<1> QED
  BY <1>1, <1>2 DEF Journeys

\* A submission may schedule its journey.
LEMMA SchedulingKeeps ==
  ASSUME VendorInv, NEW key \in DeliveryKeys, accepted'[key] # Undefined,
         \A k \in DeliveryKeys : accepted[k] # Undefined => accepted'[k] # Undefined,
         ScheduleOnce(key) \/ UNCHANGED <<scheduled, journeys>>,
         UNCHANGED <<callbacks, shuttingDown, progress, disturbances>>
  PROVE  JourneysInv'
<1>0. /\ journeys \in Seq(Journeys) /\ Len(journeys) \in Nat
      /\ DOMAIN journeys = 1..Len(journeys)
      /\ \A n \in DOMAIN journeys : journeys[n].key \in DeliveryKeys
  BY VendorTypes
<1>1. CASE UNCHANGED <<scheduled, journeys>>
  BY <1>0, <1>1 DEF VendorInv, JourneysInv, GivesUpOnlyAfterTrying
<1>2. CASE ScheduleOnce(key) /\ ~UNCHANGED <<scheduled, journeys>>
  <2> DEFINE n == Len(journeys) + 1
             j == [key |-> key, event |-> "DELIVERY_PICKED_UP", attempt |-> 1, at |-> "waiting"]
  <2>1. key \notin scheduled /\ scheduled' = scheduled \cup {key} /\ journeys' = Append(journeys, j)
    BY <1>2 DEF ScheduleOnce
  <2>2. /\ j \in Journeys /\ j.key = key /\ j.event = "DELIVERY_PICKED_UP" /\ j.at = "waiting"
    BY VendorConstants DEF Journeys, Events, JourneyStates
  <2> HIDE DEF j
  <2>3. /\ journeys' \in Seq(Journeys) /\ DOMAIN journeys' = 1..n /\ journeys'[n] = j
        /\ \A m \in DOMAIN journeys : journeys'[m] = journeys[m] /\ m \in DOMAIN journeys'
        /\ \A m \in DOMAIN journeys' : m = n \/ m \in DOMAIN journeys
    <3>1. n = Len(journeys) + 1 /\ n \in Nat /\ 1..n = (1..Len(journeys)) \cup {n}
      BY <1>0
    <3> HIDE DEF n
    <3>2. journeys' \in Seq(Journeys) /\ Len(journeys') = n
      BY ONLY <1>0, <2>1, <2>2, <3>1
    <3>3. DOMAIN journeys' = 1..n
      BY ONLY <3>2
    <3>4. journeys'[n] = j /\ \A m \in DOMAIN journeys : journeys'[m] = journeys[m]
      BY ONLY <1>0, <2>1, <3>1
    <3> QED
      BY <1>0, <3>1, <3>2, <3>3, <3>4
  <2>4. \A m \in DOMAIN journeys : journeys[m].key # key
    BY <2>1 DEF VendorInv, JourneysInv
  <2>5. \A m, l \in DOMAIN journeys' : journeys'[m].key = journeys'[l].key => m = l
    BY <2>2, <2>3, <2>4 DEF VendorInv, JourneysInv
  <2>6. \A m \in DOMAIN journeys' :
          journeys'[m].key \in scheduled' /\ accepted'[journeys'[m].key] # Undefined
    BY <1>0, <2>1, <2>2, <2>3 DEF VendorInv, JourneysInv
  <2>7. \A m \in DOMAIN journeys' :
          journeys'[m].event = "DELIVERY_DELIVERED" => progress'[journeys'[m].key] # Undefined
    BY <2>2, <2>3 DEF VendorInv, JourneysInv
  <2>8. \A c \in callbacks' :
          /\ c.journey \in DOMAIN journeys' /\ c.event \in Events
          /\ c.event = "DELIVERY_DELIVERED" => progress'[journeys'[c.journey].key] # Undefined
    BY <2>3 DEF VendorInv, JourneysInv
  <2>9. GivesUpOnlyAfterTrying'
    BY <2>2, <2>3 DEF VendorInv, JourneysInv, GivesUpOnlyAfterTrying
  <2>10. disturbances' \in Nat /\ progress' \in [DeliveryKeys -> Events \cup {Undefined}]
    BY DEF VendorInv, JourneysInv
  <2> QED
    BY <2>3, <2>5, <2>6, <2>7, <2>8, <2>9, <2>10 DEF JourneysInv
<1> QED
  BY <1>1, <1>2

\* A journey moves on, and what is on its way of callbacks changes.
LEMMA JourneyMoves ==
  ASSUME VendorInv, NEW n \in DOMAIN journeys, NEW j \in Journeys, j.key = journeys[n].key,
         Become(n, j),
         j.event = "DELIVERY_DELIVERED" => progress'[j.key] # Undefined,
         j.at = "exhausted" => j.attempt = WebhookMaximumAttempts,
         j.at = "refused" => disturbances' > 0,
         j.at = "stopped" => shuttingDown',
         progress' \in [DeliveryKeys -> Events \cup {Undefined}],
         \A k \in DeliveryKeys : progress[k] # Undefined => progress'[k] # Undefined,
         disturbances' \in Nat, disturbances' >= disturbances,
         \A c \in callbacks' : c \in callbacks \/ c = Callback(n),
         UNCHANGED <<submissions, accepted, scheduled>>, shuttingDown' = shuttingDown
  PROVE  VendorInv'
<1>0. /\ journeys \in Seq(Journeys)
      /\ \A m \in DOMAIN journeys : journeys[m] \in Journeys /\ journeys[m].key \in DeliveryKeys
      /\ disturbances \in Nat
  BY VendorTypes
<1>1. /\ journeys' \in Seq(Journeys) /\ DOMAIN journeys' = DOMAIN journeys
      /\ journeys'[n] = j
      /\ \A m \in DOMAIN journeys : m # n => journeys'[m] = journeys[m]
      /\ \A m \in DOMAIN journeys : journeys'[m].key = journeys[m].key
  BY JourneyBecomes
<1>2. SubmissionsInv'
  BY DEF VendorInv, SubmissionsInv
<1>3. \A m \in DOMAIN journeys' :
        journeys'[m].key \in scheduled' /\ accepted'[journeys'[m].key] # Undefined
  BY <1>1 DEF VendorInv, JourneysInv
<1>4. \A m, l \in DOMAIN journeys' : journeys'[m].key = journeys'[l].key => m = l
  BY <1>1 DEF VendorInv, JourneysInv
<1>5. \A m \in DOMAIN journeys' :
        journeys'[m].event = "DELIVERY_DELIVERED" => progress'[journeys'[m].key] # Undefined
  BY <1>0, <1>1 DEF VendorInv, JourneysInv
<1>6. \A c \in callbacks' :
        /\ c.journey \in DOMAIN journeys' /\ c.event \in Events
        /\ c.event = "DELIVERY_DELIVERED" => progress'[journeys'[c.journey].key] # Undefined
  <2> SUFFICES ASSUME NEW c \in callbacks'
               PROVE  /\ c.journey \in DOMAIN journeys' /\ c.event \in Events
                      /\ c.event = "DELIVERY_DELIVERED" =>
                           progress'[journeys'[c.journey].key] # Undefined
    OBVIOUS
  <2>1. /\ c.journey \in DOMAIN journeys /\ c.event \in Events
        /\ c.event = "DELIVERY_DELIVERED" => progress[journeys[c.journey].key] # Undefined
    <3>1. CASE c \in callbacks
      BY <3>1 DEF VendorInv, JourneysInv
    <3>2. CASE c = Callback(n)
      <4>1. c.journey = n /\ c.event = journeys[n].event
        BY <3>2 DEF Callback
      <4>2. journeys[n].event \in Events
        BY <1>0 DEF Journeys
      <4> QED
        BY <4>1, <4>2 DEF VendorInv, JourneysInv
    <3> QED
      BY <3>1, <3>2
  <2> QED
    BY <1>0, <1>1, <2>1
<1>7. GivesUpOnlyAfterTrying'
  BY <1>0, <1>1 DEF VendorInv, JourneysInv, GivesUpOnlyAfterTrying
<1> QED
  BY <1>1, <1>2, <1>3, <1>4, <1>5, <1>6, <1>7 DEF VendorInv, JourneysInv

\* A request that is turned away, or is in conflict, leaves no more than its
\* own trace.
LEMMA RememberingKeeps ==
  ASSUME VendorInv, NEW r \in Submissions, NEW s \in VendorSubmissions,
         submissions' = [submissions EXCEPT ![r] = s],
         accepted' \in [DeliveryKeys -> Parcels \cup {Undefined}],
         \A k \in DeliveryKeys : accepted[k] # Undefined => accepted'[k] # Undefined,
         s.answer = "waiting" => accepted'[s.key] # Undefined
  PROVE  SubmissionsInv'
<1>1. \A q \in Submissions : submissions[q] # Undefined => submissions[q].key \in DeliveryKeys
  <2>1. \A q \in Submissions : submissions[q] # Undefined => submissions[q] \in VendorSubmissions
    BY DEF VendorInv, SubmissionsInv
  <2> QED
    BY <2>1 DEF VendorSubmissions
<1> QED
  BY <1>1 DEF VendorInv, SubmissionsInv

LEMMA SubmitKeeps ==
  ASSUME VendorInv, NEW r \in Submissions, NEW key \in DeliveryKeys, NEW parcel \in Parcels,
         NEW scenario \in Scenarios, SubmitDelivery(r, key, parcel, scenario)
  PROVE  VendorInv'
<1>0. UNCHANGED <<callbacks, shuttingDown, progress, disturbances>>
  BY DEF SubmitDelivery
<1> DEFINE Submission(answer) == [key |-> key, parcel |-> parcel, answer |-> answer]
<1>1. \A answer \in Answers :
        /\ Submission(answer) \in VendorSubmissions
        /\ Submission(answer).key = key /\ Submission(answer).answer = answer
  BY DEF VendorSubmissions
<1>2. \A answer : Remember(r, key, parcel, answer) <=>
                    submissions' = [submissions EXCEPT ![r] = Submission(answer)]
  BY DEF Remember
<1>3. accepted \in [DeliveryKeys -> Parcels \cup {Undefined}]
  BY DEF VendorInv, SubmissionsInv
<1> HIDE DEF Submission
<1>4. CASE Turn(r, key, parcel, scenario) \/ Conflict(r, key, parcel, scenario)
  <2>1. PICK answer \in Answers : Remember(r, key, parcel, answer) /\ answer # "waiting"
    BY <1>4, VendorConstants DEF Turn, Conflict, Turning, Answers
  <2>2. UNCHANGED <<accepted, scheduled, journeys>>
    BY <1>4 DEF Turn, Conflict
  <2>3. SubmissionsInv'
    BY <1>1, <1>2, <1>3, <2>1, <2>2, RememberingKeeps
  <2>4. JourneysInv'
    BY <1>0, <2>2 DEF VendorInv, JourneysInv, GivesUpOnlyAfterTrying
  <2> QED
    BY <2>3, <2>4 DEF VendorInv
<1>5. CASE Accept(r, key, parcel, scenario)
  <2>1. /\ accepted' = IF accepted[key] = Undefined THEN [accepted EXCEPT ![key] = parcel]
                       ELSE accepted
        /\ parcel # Undefined
    BY <1>5, VendorConstants DEF Accept
  <2>2. /\ accepted' \in [DeliveryKeys -> Parcels \cup {Undefined}]
        /\ accepted'[key] # Undefined
        /\ \A k \in DeliveryKeys : accepted[k] # Undefined => accepted'[k] # Undefined
    BY <1>3, <2>1
  <2>3. PICK answer \in {"waiting", "malformed", "created"} :
          /\ Remember(r, key, parcel, answer)
          /\ ScheduleOnce(key) \/ UNCHANGED <<scheduled, journeys>>
    <3>1. CASE scenario = "timeout"
      BY <1>5, <3>1 DEF Accept
    <3>2. CASE scenario = "malformed-response"
      BY <1>5, <3>2 DEF Accept
    <3>3. CASE scenario \notin {"timeout", "malformed-response"}
      BY <1>5, <3>3 DEF Accept
    <3> QED
      BY <3>1, <3>2, <3>3
  <2>4. answer \in Answers
    BY DEF Answers
  <2>5. SubmissionsInv'
    BY <1>1, <1>2, <2>2, <2>3, <2>4, RememberingKeeps
  <2>6. JourneysInv'
    BY <1>0, <2>2, <2>3, SchedulingKeeps
  <2> QED
    BY <2>5, <2>6 DEF VendorInv
<1> QED
  BY <1>4, <1>5 DEF SubmitDelivery

LEMMA AnswerLateKeeps ==
  ASSUME VendorInv, NEW r \in Submissions, AnswerLate(r)
  PROVE  VendorInv'
<1>1. /\ submissions[r] # Undefined /\ submissions[r].answer = "waiting"
      /\ submissions' = [submissions EXCEPT ![r].answer = "created"]
      /\ ScheduleOnce(submissions[r].key)
      /\ UNCHANGED <<accepted, callbacks, shuttingDown, known, progress, disturbances>>
  BY DEF AnswerLate
<1>2. PICK s : s = submissions[r]
  OBVIOUS
<1>3. s \in VendorSubmissions /\ s.key \in DeliveryKeys
  <2>1. s \in VendorSubmissions
    BY <1>1, <1>2 DEF VendorInv, SubmissionsInv
  <2> QED
    BY <2>1 DEF VendorSubmissions
<1>4. accepted[s.key] # Undefined
  BY <1>1, <1>2 DEF VendorInv, SubmissionsInv
<1> DEFINE t == [s EXCEPT !.answer = "created"]
<1>5. t \in VendorSubmissions /\ t.key = s.key /\ t.answer = "created"
  BY <1>3 DEF VendorSubmissions, Answers
<1>6. submissions' = [submissions EXCEPT ![r] = t]
  BY <1>1, <1>2
<1> HIDE DEF t
<1>7. accepted \in [DeliveryKeys -> Parcels \cup {Undefined}]
  BY DEF VendorInv, SubmissionsInv
<1>8. SubmissionsInv'
  BY <1>1, <1>5, <1>6, <1>7, RememberingKeeps
<1>9. JourneysInv'
  BY <1>1, <1>2, <1>3, <1>4, SchedulingKeeps
<1> QED
  BY <1>8, <1>9 DEF VendorInv

LEMMA SendCallbackKeeps ==
  ASSUME VendorInv, NEW n \in DOMAIN journeys, SendCallback(n)
  PROVE  VendorInv'
<1>0. /\ UNCHANGED <<submissions, accepted, scheduled, shuttingDown, progress, disturbances>>
      /\ journeys[n] \in Journeys /\ journeys[n].key \in DeliveryKeys /\ disturbances \in Nat
      /\ progress \in [DeliveryKeys -> Events \cup {Undefined}]
      /\ journeys[n].event = "DELIVERY_DELIVERED" => progress[journeys[n].key] # Undefined
  BY VendorTypes DEF SendCallback, VendorInv, JourneysInv
<1>1. PICK state \in {"stopped", "sent"} :
        /\ Become(n, [journeys[n] EXCEPT !.at = state])
        /\ state = "stopped" => shuttingDown
        /\ \A c \in callbacks' : c \in callbacks \/ c = Callback(n)
  BY DEF SendCallback
<1>2. PICK j : j = [journeys[n] EXCEPT !.at = state]
  OBVIOUS
<1>3. /\ j \in Journeys /\ j.key = journeys[n].key /\ j.event = journeys[n].event /\ j.at = state
  BY <1>0, <1>2 DEF Journeys, JourneyStates
<1>4. Become(n, j)
  BY <1>1, <1>2
<1>5. \A k \in DeliveryKeys : progress[k] # Undefined => progress'[k] # Undefined
  BY <1>0
<1>6. /\ j.event = "DELIVERY_DELIVERED" => progress'[j.key] # Undefined
      /\ j.at = "exhausted" => j.attempt = WebhookMaximumAttempts
      /\ j.at = "refused" => disturbances' > 0
      /\ j.at = "stopped" => shuttingDown'
  BY <1>0, <1>1, <1>3
<1>7. disturbances' \in Nat /\ disturbances' >= disturbances
      /\ progress' \in [DeliveryKeys -> Events \cup {Undefined}]
  BY <1>0
<1> QED
  BY <1>0, <1>1, <1>3, <1>4, <1>5, <1>6, <1>7, JourneyMoves

LEMMA LoseAnswerKeeps ==
  ASSUME VendorInv, NEW n \in DOMAIN journeys, LoseAnswer(n)
  PROVE  VendorInv'
<1>0. /\ UNCHANGED <<submissions, accepted, scheduled, shuttingDown, progress>>
      /\ disturbances' = disturbances \/ disturbances' = disturbances + 1
      /\ journeys[n] \in Journeys /\ journeys[n].key \in DeliveryKeys /\ disturbances \in Nat
      /\ progress \in [DeliveryKeys -> Events \cup {Undefined}]
      /\ journeys[n].event = "DELIVERY_DELIVERED" => progress[journeys[n].key] # Undefined
      /\ \A c \in callbacks' : c \in callbacks \/ c = Callback(n)
  BY VendorTypes DEF LoseAnswer, VendorInv, JourneysInv, Disturb
<1>1. PICK j : j = IF shuttingDown THEN [journeys[n] EXCEPT !.at = "stopped"]
                   ELSE TryAgain(journeys[n])
  OBVIOUS
<1>2. Become(n, j)
  BY <1>1 DEF LoseAnswer
<1>3. /\ j \in Journeys /\ j.key = journeys[n].key /\ j.event = journeys[n].event
      /\ j.at \in {"stopped", "waiting", "exhausted"}
      /\ j.at = "stopped" => shuttingDown
      /\ j.at = "exhausted" => j.attempt = WebhookMaximumAttempts
  <2>1. CASE shuttingDown
    BY <1>0, <1>1, <2>1 DEF Journeys, JourneyStates
  <2>2. CASE ~shuttingDown
    BY <1>0, <1>1, <2>2, TryingAgain
  <2> QED
    BY <2>1, <2>2
<1>5. \A k \in DeliveryKeys : progress[k] # Undefined => progress'[k] # Undefined
  BY <1>0
<1>6. /\ j.event = "DELIVERY_DELIVERED" => progress'[j.key] # Undefined
      /\ j.at = "refused" => disturbances' > 0
      /\ j.at = "stopped" => shuttingDown'
  BY <1>0, <1>3
<1>7. disturbances' \in Nat /\ disturbances' >= disturbances
      /\ progress' \in [DeliveryKeys -> Events \cup {Undefined}]
  BY <1>0
<1> QED
  BY <1>0, <1>2, <1>3, <1>5, <1>6, <1>7, JourneyMoves

\* What the platform's answer does to the record of a delivery's events.
LEMMA AnswerKeepsProgress ==
  ASSUME VendorInv, NEW c \in callbacks, NEW status \in {200, 401, 404, 429, 500},
         PlatformAnswers(c, status)
  PROVE  /\ progress' \in [DeliveryKeys -> Events \cup {Undefined}]
         /\ \A k \in DeliveryKeys : progress[k] # Undefined => progress'[k] # Undefined
         /\ status = 200 => progress'[journeys[c.journey].key] # Undefined
         /\ \A k \in DeliveryKeys :
              progress'[k] = "DELIVERY_DELIVERED" => progress[k] # Undefined
<1> DEFINE key == journeys[c.journey].key
<1>1. /\ key \in DeliveryKeys /\ c.event \in Events
      /\ c.event = "DELIVERY_DELIVERED" => progress[key] # Undefined
      /\ progress \in [DeliveryKeys -> Events \cup {Undefined}]
  BY VendorTypes DEF VendorInv, JourneysInv
<1>2. progress' = IF status = 200 THEN [progress EXCEPT ![key] =
                    IF progress[key] = "DELIVERY_DELIVERED" THEN progress[key] ELSE c.event]
                  ELSE progress
  BY DEF PlatformAnswers
<1>3. Undefined \notin Events
  BY VendorConstants DEF Events
<1> HIDE DEF key
<1>4. CASE status = 200
  BY <1>1, <1>2, <1>3, <1>4 DEF Events, key
<1>5. CASE status # 200
  BY <1>1, <1>2, <1>3, <1>5 DEF Events, key
<1> QED
  BY <1>4, <1>5

LEMMA AnswerKeeps ==
  ASSUME VendorInv, NEW c \in callbacks, NEW status \in {200, 401, 404, 429, 500},
         PlatformAnswers(c, status),
         disturbances' = disturbances \/ disturbances' = disturbances + 1,
         status = 401 => disturbances' = disturbances + 1
  PROVE  VendorInv'
<1> DEFINE n == c.journey
<1>0. /\ n \in DOMAIN journeys /\ journeys[n] \in Journeys /\ journeys[n].key \in DeliveryKeys
      /\ disturbances \in Nat
      /\ journeys[n].event = "DELIVERY_DELIVERED" => progress[journeys[n].key] # Undefined
  BY VendorTypes DEF VendorInv, JourneysInv
<1>1. /\ progress' \in [DeliveryKeys -> Events \cup {Undefined}]
      /\ \A k \in DeliveryKeys : progress[k] # Undefined => progress'[k] # Undefined
      /\ status = 200 => progress'[journeys[n].key] # Undefined
  BY AnswerKeepsProgress
<1>2. UNCHANGED <<submissions, accepted, scheduled, shuttingDown>>
      /\ callbacks' \subseteq callbacks
  BY DEF PlatformAnswers
<1>3. disturbances' \in Nat /\ disturbances' >= disturbances
      /\ status = 401 => disturbances' > 0
  BY <1>0
<1>4. CASE Awaits(c)
  <2>1. PICK j : j = AfterAnswer(journeys[n], status)
    OBVIOUS
  <2>2. Become(n, j)
    BY <1>4, <2>1 DEF PlatformAnswers
  <2>3. /\ j \in Journeys /\ j.key = journeys[n].key
        /\ j.event = "DELIVERY_DELIVERED" /\ status # 200 =>
             journeys[n].event = "DELIVERY_DELIVERED"
        /\ j.at \in {"waiting", "done", "exhausted", "refused"}
        /\ j.at = "exhausted" => j.attempt = WebhookMaximumAttempts
        /\ j.at = "refused" => status = 401
    BY <1>0, <2>1, AfterAnAnswer
  <2> HIDE DEF n
  <2>4. /\ j.event = "DELIVERY_DELIVERED" => progress'[j.key] # Undefined
        /\ j.at = "refused" => disturbances' > 0
        /\ j.at = "stopped" => shuttingDown'
    BY <1>0, <1>1, <1>3, <2>3
  <2>5. \A d \in callbacks' : d \in callbacks \/ d = Callback(n)
    BY <1>2
  <2> QED
    BY <1>0, <1>1, <1>2, <1>3, <2>2, <2>3, <2>4, <2>5, JourneyMoves
<1>5. CASE ~Awaits(c)
  <2>1. journeys' = journeys
    BY <1>5 DEF PlatformAnswers
  <2>2. \A m \in DOMAIN journeys : journeys[m].key \in DeliveryKeys
    BY VendorTypes
  <2>3. \A d \in callbacks' : d.journey \in DOMAIN journeys /\ d \in callbacks
    BY <1>2 DEF VendorInv, JourneysInv
  <2>4. SubmissionsInv'
    BY <1>2 DEF VendorInv, SubmissionsInv
  <2>5. GivesUpOnlyAfterTrying'
    BY <1>0, <1>2, <1>3, <2>1 DEF VendorInv, JourneysInv, GivesUpOnlyAfterTrying
  <2>6. JourneysInv'
    BY <1>1, <1>2, <1>3, <2>1, <2>2, <2>3, <2>5 DEF VendorInv, JourneysInv
  <2> QED
    BY <2>4, <2>6 DEF VendorInv
<1> QED
  BY <1>4, <1>5

\* The platform handles a callback, well or badly.
LEMMA HandlingAnswers ==
  ASSUME VendorInv, NEW c \in callbacks, Handle(c) \/ HandleBadly(c)
  PROVE  \E status \in {200, 401, 404, 429, 500} :
           /\ PlatformAnswers(c, status)
           /\ disturbances' = disturbances \/ disturbances' = disturbances + 1
           /\ status = 401 => disturbances' = disturbances + 1
<1>1. CASE Handle(c)
  <2>1. PICK status \in {200, 404} : status = IF journeys[c.journey].key \in known THEN 200 ELSE 404
    OBVIOUS
  <2> QED
    BY <1>1, <2>1 DEF Handle
<1>2. CASE HandleBadly(c)
  BY <1>2 DEF HandleBadly, Disturb
<1> QED
  BY <1>1, <1>2

LEMMA VendorStays == VendorInv /\ [VendorNext]_vendorVars => VendorInv'
<1> SUFFICES ASSUME VendorInv, [VendorNext]_vendorVars PROVE VendorInv'
  OBVIOUS
<1>1. CASE \E r \in Submissions :
             \/ \E k \in DeliveryKeys, p \in Parcels, s \in Scenarios : SubmitDelivery(r, k, p, s)
             \/ AnswerLate(r)
  BY <1>1, SubmitKeeps, AnswerLateKeeps
<1>2. CASE \E n \in DOMAIN journeys : SendCallback(n) \/ LoseAnswer(n)
  BY <1>2, SendCallbackKeeps, LoseAnswerKeeps
<1>3. CASE \E c \in callbacks : Handle(c) \/ HandleBadly(c)
  BY <1>3, HandlingAnswers, AnswerKeeps
<1>4. CASE UNCHANGED <<submissions, accepted, scheduled, journeys, callbacks, progress,
                       disturbances>> /\ (shuttingDown => shuttingDown')
  BY <1>4 DEF VendorInv, SubmissionsInv, JourneysInv, GivesUpOnlyAfterTrying
<1>5. ASSUME NEW k \in DeliveryKeys, SaveAcceptance(k) PROVE VendorInv'
  BY <1>4, <1>5 DEF SaveAcceptance
<1>6. CASE CloseVendor
  BY <1>4, <1>6 DEF CloseVendor
<1>7. CASE UNCHANGED vendorVars
  BY <1>4, <1>7 DEF vendorVars
<1> QED
  BY <1>1, <1>2, <1>3, <1>5, <1>6, <1>7 DEF VendorNext

\* A journey of the mock vendor ends before the delivery is known only after
\* every attempt of one event, by a refusal, or because the vendor closes: a
\* callback that overtook the acceptance is never the last.
THEOREM VendorKeepsTrying == VendorSpec => [](VendorTypeOK /\ GivesUpOnlyAfterTrying)
<1> QED
  BY VendorStarts, VendorStays, VendorInvSays, PTL DEF VendorSpec

\* However callbacks are lost, late, repeated or answered with an error, the
\* platform hears of a delivery only after it took note of the pickup.
THEOREM EventsKeepTheirOrder == VendorSpec => EventsArriveInOrder
<1> DEFINE Ordered == \A k \in DeliveryKeys :
             progress'[k] = "DELIVERY_DELIVERED" => progress[k] # Undefined
<1>1. VendorInv /\ [VendorNext]_vendorVars => [Ordered]_vendorVars
  <2> SUFFICES ASSUME VendorInv, VendorNext PROVE Ordered
    BY DEF vendorVars
  <2>1. CASE progress' = progress
    BY <2>1, VendorConstants
  <2>2. CASE \E c \in callbacks : Handle(c) \/ HandleBadly(c)
    BY <2>2, HandlingAnswers, AnswerKeepsProgress
  <2> QED
    BY <2>1, <2>2 DEF VendorNext, SubmitDelivery, AnswerLate, SendCallback, LoseAnswer,
                      SaveAcceptance, CloseVendor
<1> QED
  BY VendorStarts, VendorStays, <1>1, PTL DEF VendorSpec, EventsArriveInOrder

(***************************************************************************)
(* DevelopmentLab.                                                         *)
(***************************************************************************)

(***************************************************************************)
(* What every later invariant rests on: the types, what a step finds at    *)
(* hand, and the order among GitHub's runs.                                *)
(***************************************************************************)

\* Steps behind the start of the tunnel, and behind the deployment.
Built  == {"deployed", "endpoint", "stored", "hooked", "ui", "uiRecorded", "active"}
Routed == {"stack", "preparing", "prepared", "executing"} \cup Built

\* What a step needs is there.
AtHand ==
  /\ supervisor.at \in {"vendor", "tunnel", "hooked", "ui"} <=> supervisor.started # Undefined
  /\ supervisor.at \in {"tunnel"} \cup Routed => file.vendor # Undefined
  /\ supervisor.at \in Routed => file.tunnel # Undefined
  /\ supervisor.at \in {"uiRecorded", "active"} => file.ui # Undefined
  /\ supervisor.at \in {"prepared", "executing"} => supervisor.set # Undefined
  /\ At("endpoint") => stripe.endpoints = {made}

\* Runs happen one at a time, on what is there for them.
Serialised ==
  /\ \A r, s \in runs : r.status = "running" /\ s.status = "running" => r = s
  /\ \A r \in runs : r.operation = "execute" =>
       r.set # Undefined /\ (r.status = "running" => cloud.stack # Undefined)
  /\ cloud.sets # {} => cloud.stack # Undefined
  /\ \A s \in cloud.sets : s.run <= made
  /\ cloud.stack # Undefined => (cloud.stack.status = "complete" => cloud.stack.api # Undefined)

LabShape == LabTypeOK /\ AtHand /\ Serialised

(***************************************************************************)
(* What each step does, field by field.  Of the supervisor only what the   *)
(* invariants speak of is told.                                            *)
(***************************************************************************)
SupervisorTo(step, run, ended, set, api, errors, started) ==
  /\ supervisor' \in Supervisors
  /\ supervisor'.at = step /\ supervisor'.run = run /\ supervisor'.ended = ended
  /\ supervisor'.set = set /\ supervisor'.api = api /\ supervisor'.errors = errors
  /\ supervisor'.started = started

\* The supervisor goes on with a newly started process, or none.
Continues(step, started) ==
  SupervisorTo(step, supervisor.run, supervisor.ended, supervisor.set, supervisor.api,
               supervisor.errors, started)

MovesTo(step) == Continues(step, supervisor.started)

FileTo(phase, vendor, tunnel, ui, endpoint) ==
  /\ file' \in Files
  /\ file'.phase = phase /\ file'.vendor = vendor /\ file'.tunnel = tunnel /\ file'.ui = ui
  /\ file'.endpoint = endpoint

CloudTo(stack, sets, artifacts, signing) ==
  /\ cloud' \in Clouds
  /\ cloud'.stack = stack /\ cloud'.sets = sets /\ cloud'.artifacts = artifacts
  /\ cloud'.secret = signing

StripeTo(endpoints, parameter) ==
  /\ stripe' \in Stripes
  /\ stripe'.endpoints = endpoints /\ stripe'.parameter = parameter

SpentTo(deaths, lost, abandoned) ==
  /\ spent' \in Spendings
  /\ spent'.deaths = deaths /\ spent'.lost = lost /\ spent'.abandoned = abandoned

SpentAsBefore == SpentTo(spent.deaths, spent.lost, spent.abandoned)

\* The command is over; runs that go on are abandoned.
Left(deaths) ==
  /\ supervisor' = Off
  /\ SpentTo(deaths, spent.lost, spent.abandoned \/ runs # {})

\* What the invariant says of the types.
LEMMA LabShapeTypes ==
  ASSUME LabShape
  PROVE  /\ file \in Files /\ supervisor \in Supervisors /\ running \subseteq Processes
         /\ secret \in Identifier /\ cloud \in Clouds /\ runs \subseteq GitHubRuns
         /\ stripe \in Stripes /\ made \in Nat /\ spent \in Spendings
<1>1. LabTypeOK
  BY DEF LabShape
<1> QED
  BY <1>1 DEF LabTypeOK

\* What is made is never the undefined value.
LEMMA NothingMadeIsUndefined ==
  /\ \A p \in OwnProcesses : p # Undefined
  /\ \A s \in ChangeSets : s # Undefined
  /\ \A s \in Stacks : s # Undefined
  /\ \A n \in Nat : n # Undefined
<1>1. OwnProcesses \subseteq Processes
  BY DEF OwnProcesses, Processes
<1> QED
  BY <1>1, UndefinedIsNothingMade, LabConstants

LEMMA StartDeployDoes ==
  ASSUME LabShape, StartDeploy
  PROVE  /\ supervisor.at = "off" /\ MovesTo("checking")
         /\ SpentAsBefore
         /\ UNCHANGED <<file, running, secret, cloud, runs, stripe, made>>
<1> USE LabShapeTypes, LabConstants, UndefinedIsNothingMade DEF StartDeploy
<1>1. /\ supervisor.at = "off" /\ MovesTo("checking")
  BY DEF At, GoTo, Supervisors, DeploySteps, TeardownSteps, SupervisorTo, Continues, MovesTo
<1>2. /\ SpentAsBefore
  BY DEF SpentAsBefore, SpentTo, Spendings
<1>3. /\ UNCHANGED <<file, running, secret, cloud, runs, stripe, made>>
  OBVIOUS
<1> QED
  BY ONLY <1>1, <1>2, <1>3

LEMMA ChecksPassDoes ==
  ASSUME LabShape, ChecksPass
  PROVE  /\ supervisor.at = "checking" /\ MovesTo("boundary")
         /\ secret' = (IF secret = Undefined THEN made + 1 ELSE secret)
         /\ made' \in Nat /\ made' >= made
         /\ CloudTo(cloud.stack, cloud.sets, cloud.artifacts, secret')
         /\ UNCHANGED <<file, running, runs, stripe, spent>>
<1> USE LabShapeTypes, LabConstants, UndefinedIsNothingMade DEF ChecksPass
<1>1. /\ supervisor.at = "checking" /\ MovesTo("boundary")
  BY DEF At, GoTo, Supervisors, DeploySteps, TeardownSteps, SupervisorTo, Continues, MovesTo,
       OptionalCommit
<1>2. /\ secret' = (IF secret = Undefined THEN made + 1 ELSE secret)
      /\ made' \in Nat /\ made' >= made
  BY DEF LabSecret, Fresh
<1>3. /\ CloudTo(cloud.stack, cloud.sets, cloud.artifacts, secret')
  BY <1>2 DEF CloudTo, Clouds, Identifier
<1>4. /\ UNCHANGED <<file, running, runs, stripe, spent>>
  OBVIOUS
<1> QED
  BY ONLY <1>1, <1>2, <1>3, <1>4

LEMMA ReuseBoundaryDoes ==
  ASSUME LabShape, ReuseBoundary
  PROVE  /\ supervisor.at = "boundary" /\ Continues("stack", Undefined)
         /\ file.vendor # Undefined /\ file.tunnel # Undefined
         /\ file.tunnel.port = file.vendor.port
         /\ FileTo("deploying", file.vendor, file.tunnel, file.ui, file.endpoint)
         /\ UNCHANGED <<running, secret, cloud, runs, stripe, made, spent>>
<1> USE LabShapeTypes, LabConstants, UndefinedIsNothingMade DEF ReuseBoundary
<1>1. /\ supervisor.at = "boundary" /\ Continues("stack", Undefined)
  BY DEF At, GoTo, Supervisors, DeploySteps, TeardownSteps, SupervisorTo, Continues, MovesTo,
       Deploying
<1>2. /\ file.vendor # Undefined /\ file.tunnel # Undefined
      /\ file.tunnel.port = file.vendor.port
  BY DEF BoundaryReusable, Alive, TunnelAnswers
<1>3. /\ FileTo("deploying", file.vendor, file.tunnel, file.ui, file.endpoint)
  BY DEF Deploying, FileTo, Files, OptionalCommit, Supervisors
<1>4. /\ UNCHANGED <<running, secret, cloud, runs, stripe, made, spent>>
  OBVIOUS
<1> QED
  BY ONLY <1>1, <1>2, <1>3, <1>4

\* A new process takes the place of others.
LEMMA StartingDoes ==
  ASSUME LabShape, NEW kind \in OwnKinds, NEW port \in Nat, NEW api \in Identifier, NEW instead,
         NEW step \in DeploySteps, Start(kind, port, api, instead, step)
  PROVE  /\ made' = made + 1
         /\ \E p \in OwnProcesses :
              /\ p.pid = made + 1 /\ p.port = port /\ p.api = api
              /\ running' = (running \ instead) \cup {p} /\ Continues(step, p)
<1> DEFINE p == [pid |-> made + 1, kind |-> kind, port |-> port, api |-> api]
<1>1. p \in OwnProcesses /\ p.pid = made + 1 /\ p.port = port /\ p.api = api
  BY LabShapeTypes DEF OwnProcesses
<1>2. /\ made' = made + 1 /\ running' = (running \ instead) \cup {p}
      /\ supervisor' = [supervisor EXCEPT !.at = step, !.started = p]
  BY DEF Start, Stopped, Fresh
<1> HIDE DEF p
<1>3. Continues(step, p)
  BY <1>1, <1>2, LabShapeTypes DEF Continues, SupervisorTo, Supervisors
<1> QED
  BY <1>1, <1>2, <1>3

\* A run is dispatched, or one that is under way is awaited.
AwaitsRun(operation, url, set, step) ==
  /\ made' \in Nat /\ made' >= made
  /\ \E id \in Nat :
       /\ SupervisorTo(step, id, Undefined, supervisor.set, supervisor.api, supervisor.errors,
                       supervisor.started)
       /\ \/ /\ made' = made + 1 /\ id = made + 1
             /\ \E new \in GitHubRuns :
                  /\ new.id = id /\ new.operation = operation /\ new.url = url
                  /\ new.set = set /\ new.status = "queued"
                  /\ runs' = { r \in runs : r.status # "queued" } \cup {new}
          \/ made' = made /\ runs' = runs /\ runs # {}

LEMMA DispatchDoes ==
  ASSUME LabShape, NEW operation \in {"prepare", "execute", "destroy"}, NEW url \in Identifier,
         NEW set \in ChangeSets \cup {Undefined}, NEW step \in DeploySteps \cup TeardownSteps,
         Dispatch(operation, url, set, step)
  PROVE  AwaitsRun(operation, url, set, step)
<1> DEFINE active == { r \in runs : /\ r.operation = operation
                                    /\ r.commit = supervisor.commit \/ operation = "destroy" }
           new    == [id |-> made + 1, operation |-> operation, commit |-> supervisor.commit,
                      url |-> url, set |-> set, status |-> "queued"]
<1>1. /\ new \in GitHubRuns
      /\ new.id = made + 1 /\ new.operation = operation /\ new.url = url
      /\ new.set = set /\ new.status = "queued"
  BY LabShapeTypes DEF GitHubRuns, Supervisors
<1>2. \/ /\ runs' = { r \in runs : r.status # "queued" } \cup {new}
         /\ made' = made + 1
         /\ supervisor' = [supervisor EXCEPT !.at = step, !.run = made + 1, !.ended = Undefined]
      \/ \E r \in active :
           /\ supervisor' = [supervisor EXCEPT !.at = step, !.run = r.id, !.ended = Undefined]
           /\ UNCHANGED <<runs, made>>
  BY DEF Dispatch, Fresh
<1>3. \A id \in Nat :
        supervisor' = [supervisor EXCEPT !.at = step, !.run = id, !.ended = Undefined] =>
          SupervisorTo(step, id, Undefined, supervisor.set, supervisor.api, supervisor.errors,
                       supervisor.started)
  BY LabShapeTypes DEF SupervisorTo, Supervisors, Identifier
<1>4. \A r \in active : r \in runs /\ r.id \in Nat
  BY LabShapeTypes DEF GitHubRuns
<1>5. made \in Nat /\ made + 1 \in Nat
  BY LabShapeTypes
<1> HIDE DEF new, active
<1>6. CASE /\ runs' = { r \in runs : r.status # "queued" } \cup {new}
           /\ made' = made + 1
           /\ supervisor' = [supervisor EXCEPT !.at = step, !.run = made + 1, !.ended = Undefined]
  <2>1. SupervisorTo(step, made + 1, Undefined, supervisor.set, supervisor.api, supervisor.errors,
                     supervisor.started)
    BY <1>3, <1>5, <1>6
  <2> QED
    BY ONLY <1>1, <1>5, <1>6, <2>1 DEF AwaitsRun
<1>7. CASE \E r \in active :
             /\ supervisor' = [supervisor EXCEPT !.at = step, !.run = r.id, !.ended = Undefined]
             /\ UNCHANGED <<runs, made>>
  <2>1. PICK r \in active :
          /\ supervisor' = [supervisor EXCEPT !.at = step, !.run = r.id, !.ended = Undefined]
          /\ UNCHANGED <<runs, made>>
    BY <1>7
  <2>2. PICK id \in Nat : id = r.id
    BY <1>4
  <2>3. SupervisorTo(step, id, Undefined, supervisor.set, supervisor.api, supervisor.errors,
                     supervisor.started)
    BY <1>3, <2>1, <2>2
  <2> QED
    BY <1>4, <1>5, <2>1, <2>2, <2>3 DEF AwaitsRun
<1> QED
  BY <1>2, <1>6, <1>7

LEMMA ReplaceBoundaryDoes ==
  ASSUME LabShape, ReplaceBoundary
  PROVE  /\ supervisor.at = "boundary" /\ made' = made + 1
         /\ \E p \in OwnProcesses :
              /\ p.pid = made + 1 /\ running' = (running \ {file.vendor, file.tunnel}) \cup {p}
              /\ Continues("vendor", p)
         /\ UNCHANGED <<file, secret, cloud, runs, stripe, spent>>
<1> USE LabShapeTypes, LabConstants, UndefinedIsNothingMade DEF ReplaceBoundary
<1>1. /\ supervisor.at = "boundary" /\ made' = made + 1
  BY DEF At, Start, Fresh
<1>2. /\ "vendor" \in OwnKinds /\ "vendor" \in DeploySteps /\ Undefined \in Identifier
  BY DEF OwnKinds, DeploySteps, Identifier
<1>3. /\ \E p \in OwnProcesses :
           /\ p.pid = made + 1 /\ running' = (running \ {file.vendor, file.tunnel}) \cup {p}
           /\ Continues("vendor", p)
  BY <1>1, <1>2, StartingDoes DEF Fresh
<1>4. /\ UNCHANGED <<file, secret, cloud, runs, stripe, spent>>
  OBVIOUS
<1> QED
  BY ONLY <1>1, <1>3, <1>4

LEMMA StartTunnelDoes ==
  ASSUME LabShape, StartTunnel
  PROVE  /\ supervisor.at = "vendor" /\ supervisor.started \in OwnProcesses /\ made' = made + 1
         /\ FileTo(file.phase, supervisor.started, Undefined, file.ui, file.endpoint)
         /\ \E p \in OwnProcesses :
              /\ p.pid = made + 1 /\ p.port = supervisor.started.port
              /\ running' = running \cup {p} /\ Continues("tunnel", p)
         /\ UNCHANGED <<secret, cloud, runs, stripe, spent>>
<1> USE LabShapeTypes, LabConstants, UndefinedIsNothingMade DEF StartTunnel
<1>1. /\ supervisor.at = "vendor" /\ supervisor.started \in OwnProcesses /\ made' = made + 1
  BY DEF At, Start, Fresh, LabShape, AtHand, Supervisors
<1>2. /\ FileTo(file.phase, supervisor.started, Undefined, file.ui, file.endpoint)
  BY <1>1 DEF VendorRecord, NewestProcess, FileTo, Files
<1>3. /\ "tunnel" \in OwnKinds /\ "tunnel" \in DeploySteps /\ Undefined \in Identifier
  BY DEF OwnKinds, DeploySteps, Identifier
<1>4. /\ \E p \in OwnProcesses :
           /\ p.pid = made + 1 /\ p.port = supervisor.started.port
           /\ running' = running \cup {p} /\ Continues("tunnel", p)
  BY <1>1, <1>3, StartingDoes DEF NewestProcess, OwnProcesses
<1>5. /\ UNCHANGED <<secret, cloud, runs, stripe, spent>>
  OBVIOUS
<1> QED
  BY ONLY <1>1, <1>2, <1>4, <1>5

LEMMA RecordTunnelDoes ==
  ASSUME LabShape, RecordTunnel
  PROVE  /\ supervisor.at = "tunnel" /\ supervisor.started \in OwnProcesses
         /\ FileTo("deploying", file.vendor, supervisor.started, file.ui, file.endpoint)
         /\ Continues("stack", Undefined)
         /\ UNCHANGED <<running, secret, cloud, runs, stripe, made, spent>>
<1> USE LabShapeTypes, LabConstants, UndefinedIsNothingMade DEF RecordTunnel
<1>1. /\ supervisor.at = "tunnel" /\ supervisor.started \in OwnProcesses
  BY DEF At, LabShape, AtHand, Supervisors
<1>2. /\ FileTo("deploying", file.vendor, supervisor.started, file.ui, file.endpoint)
  BY <1>1 DEF NewestProcess, Deploying, FileTo, Files, OptionalCommit, Supervisors
<1>3. /\ Continues("stack", Undefined)
  BY DEF At, GoTo, Supervisors, DeploySteps, TeardownSteps, SupervisorTo, Continues, MovesTo,
       Deploying
<1>4. /\ UNCHANGED <<running, secret, cloud, runs, stripe, made, spent>>
  OBVIOUS
<1> QED
  BY ONLY <1>1, <1>2, <1>3, <1>4

LEMMA AdoptPreparedDoes ==
  ASSUME LabShape, AdoptPrepared
  PROVE  /\ supervisor.at = "stack"
         /\ \E s \in cloud.sets :
              /\ s.url = Url
              /\ SupervisorTo("prepared", supervisor.run, supervisor.ended, s, supervisor.api,
                              supervisor.errors, supervisor.started)
         /\ UNCHANGED <<file, running, secret, cloud, runs, stripe, made, spent>>
<1> USE LabShapeTypes, LabConstants, UndefinedIsNothingMade DEF AdoptPrepared
<1>1. /\ \A s \in PreparedSets : s \in ChangeSets /\ s \in cloud.sets /\ s.url = Url
  BY DEF PreparedSets, Clouds
<1>2. /\ supervisor.at = "stack"
      /\ \E s \in cloud.sets :
           /\ s.url = Url
           /\ SupervisorTo("prepared", supervisor.run, supervisor.ended, s, supervisor.api,
                           supervisor.errors, supervisor.started)
  BY <1>1 DEF At, Continues, SupervisorTo, Supervisors, DeploySteps
<1>3. /\ UNCHANGED <<file, running, secret, cloud, runs, stripe, made, spent>>
  OBVIOUS
<1> QED
  BY ONLY <1>2, <1>3

LEMMA ReuseDeployedDoes ==
  ASSUME LabShape, ReuseDeployed
  PROVE  /\ supervisor.at = "stack" /\ StackIs(Stable) /\ cloud.stack.url = Url
         /\ SupervisorTo("deployed", supervisor.run, supervisor.ended, supervisor.set,
                         cloud.stack.api, supervisor.errors, supervisor.started)
         /\ UNCHANGED <<file, running, secret, cloud, runs, stripe, made, spent>>
<1> USE LabShapeTypes, LabConstants, UndefinedIsNothingMade DEF ReuseDeployed
<1>1. /\ supervisor.at = "stack" /\ StackIs(Stable) /\ cloud.stack.url = Url
  BY DEF At, SameDeployment
<1>2. /\ SupervisorTo("deployed", supervisor.run, supervisor.ended, supervisor.set,
                      cloud.stack.api, supervisor.errors, supervisor.started)
  BY DEF At, GoTo, Supervisors, DeploySteps, TeardownSteps, SupervisorTo, Continues, MovesTo,
       StackIs, Clouds, Stacks
<1>3. /\ UNCHANGED <<file, running, secret, cloud, runs, stripe, made, spent>>
  OBVIOUS
<1> QED
  BY ONLY <1>1, <1>2, <1>3

LEMMA DispatchPrepareDoes ==
  ASSUME LabShape, DispatchPrepare
  PROVE  /\ supervisor.at = "stack" /\ AwaitsRun("prepare", Url, Undefined, "preparing")
         /\ UNCHANGED <<file, running, secret, cloud, stripe, spent>>
<1> USE LabShapeTypes, LabConstants, UndefinedIsNothingMade DEF DispatchPrepare
<1>1. /\ supervisor.at = "stack" /\ Dispatch("prepare", Url, Undefined, "preparing")
  BY DEF At
<1>2. /\ Url \in Identifier /\ "preparing" \in DeploySteps
  BY <1>1 DEF LabShape, AtHand, Routed, Files, OwnProcesses, Url, Identifier, DeploySteps
<1>3. /\ supervisor.at = "stack" /\ AwaitsRun("prepare", Url, Undefined, "preparing")
  BY <1>1, <1>2, DispatchDoes
<1>4. /\ UNCHANGED <<file, running, secret, cloud, stripe, spent>>
  OBVIOUS
<1> QED
  BY ONLY <1>3, <1>4

LEMMA PrepareSucceededDoes ==
  ASSUME LabShape, PrepareSucceeded
  PROVE  /\ supervisor.at = "preparing" /\ supervisor.ended = "success"
         /\ \E s \in cloud.sets :
              /\ s.run = supervisor.run
              /\ SupervisorTo("prepared", supervisor.run, supervisor.ended, s, supervisor.api,
                              supervisor.errors, supervisor.started)
         /\ UNCHANGED <<file, running, secret, cloud, runs, stripe, made, spent>>
<1> USE LabShapeTypes, LabConstants, UndefinedIsNothingMade DEF PrepareSucceeded
<1>1. /\ supervisor.at = "preparing" /\ supervisor.ended = "success"
      /\ \E s \in cloud.sets :
           /\ s.run = supervisor.run
           /\ SupervisorTo("prepared", supervisor.run, supervisor.ended, s, supervisor.api,
                           supervisor.errors, supervisor.started)
  BY DEF At, GoTo, Supervisors, DeploySteps, TeardownSteps, SupervisorTo, Continues, MovesTo, Clouds
<1>2. /\ UNCHANGED <<file, running, secret, cloud, runs, stripe, made, spent>>
  OBVIOUS
<1> QED
  BY ONLY <1>1, <1>2

LEMMA DispatchExecuteDoes ==
  ASSUME LabShape, DispatchExecute
  PROVE  /\ supervisor.at = "prepared"
         /\ AwaitsRun("execute", Undefined, supervisor.set, "executing")
         /\ UNCHANGED <<file, running, secret, cloud, stripe, spent>>
<1> USE LabShapeTypes, LabConstants, UndefinedIsNothingMade DEF DispatchExecute
<1>1. /\ supervisor.at = "prepared" /\ Dispatch("execute", Undefined, supervisor.set, "executing")
  BY DEF At
<1>2. /\ Undefined \in Identifier /\ "executing" \in DeploySteps
      /\ supervisor.set \in ChangeSets \cup {Undefined}
  BY <1>1 DEF Identifier, DeploySteps, Supervisors
<1>3. /\ supervisor.at = "prepared"
      /\ AwaitsRun("execute", Undefined, supervisor.set, "executing")
  BY <1>1, <1>2, DispatchDoes
<1>4. /\ UNCHANGED <<file, running, secret, cloud, stripe, spent>>
  OBVIOUS
<1> QED
  BY ONLY <1>3, <1>4

LEMMA ExecuteSucceededDoes ==
  ASSUME LabShape, ExecuteSucceeded
  PROVE  /\ supervisor.at = "executing" /\ supervisor.ended = "success" /\ StackIs(Stable)
         /\ SupervisorTo("deployed", supervisor.run, supervisor.ended, supervisor.set,
                         cloud.stack.api, supervisor.errors, supervisor.started)
         /\ UNCHANGED <<file, running, secret, cloud, runs, stripe, made, spent>>
<1> USE LabShapeTypes, LabConstants, UndefinedIsNothingMade DEF ExecuteSucceeded
<1>1. /\ supervisor.at = "executing" /\ supervisor.ended = "success" /\ StackIs(Stable)
  BY DEF At
<1>2. /\ SupervisorTo("deployed", supervisor.run, supervisor.ended, supervisor.set,
                      cloud.stack.api, supervisor.errors, supervisor.started)
  BY DEF At, GoTo, Supervisors, DeploySteps, TeardownSteps, SupervisorTo, Continues, MovesTo,
       StackIs, Clouds, Stacks
<1>3. /\ UNCHANGED <<file, running, secret, cloud, runs, stripe, made, spent>>
  OBVIOUS
<1> QED
  BY ONLY <1>1, <1>2, <1>3

LEMMA CreateEndpointDoes ==
  ASSUME LabShape, CreateEndpoint
  PROVE  /\ supervisor.at = "deployed" /\ made' = made + 1
         /\ FileTo("activating", file.vendor, file.tunnel, file.ui, file.endpoint)
         /\ StripeTo({made + 1}, stripe.parameter)
         /\ \/ MovesTo("endpoint") /\ SpentAsBefore
            \/ MovesTo("ending") /\ SpentTo(spent.deaths, spent.lost + 1, spent.abandoned)
         /\ UNCHANGED <<running, secret, cloud, runs>>
<1> USE LabShapeTypes, LabConstants, UndefinedIsNothingMade DEF CreateEndpoint
<1>1. /\ supervisor.at = "deployed" /\ made' = made + 1
  BY DEF At, Fresh
<1>2. /\ FileTo("activating", file.vendor, file.tunnel, file.ui, file.endpoint)
  BY DEF FileTo, Files
<1>3. /\ StripeTo({made + 1}, stripe.parameter)
  BY DEF StripeTo, Stripes, Fresh
<1>4. /\ GoTo("endpoint") => MovesTo("endpoint")
  BY DEF At, GoTo, Supervisors, DeploySteps, TeardownSteps, SupervisorTo, Continues, MovesTo
<1>5. /\ supervisor' = [supervisor EXCEPT !.at = "ending", !.shutdown = TRUE] => MovesTo("ending")
  BY DEF At, GoTo, Supervisors, DeploySteps, TeardownSteps, SupervisorTo, Continues, MovesTo
<1>6. /\ \A f, l \in Nat : spent' = [spent EXCEPT !.failures = f, !.lost = l] =>
        SpentTo(spent.deaths, l, spent.abandoned)
  BY DEF SpentTo, Spendings
<1>7. /\ spent.failures + 1 \in Nat /\ spent.lost + 1 \in Nat
  BY DEF Spendings
<1>8. /\ UNCHANGED spent => SpentAsBefore
  BY DEF SpentTo, SpentAsBefore
<1>9. /\ \/ MovesTo("endpoint") /\ SpentAsBefore
         \/ MovesTo("ending") /\ SpentTo(spent.deaths, spent.lost + 1, spent.abandoned)
  BY <1>4, <1>5, <1>6, <1>7, <1>8
<1>10. /\ UNCHANGED <<running, secret, cloud, runs>>
  OBVIOUS
<1> QED
  BY ONLY <1>1, <1>2, <1>3, <1>9, <1>10

LEMMA StoreSecretDoes ==
  ASSUME LabShape, StoreSecret
  PROVE  /\ supervisor.at = "endpoint" /\ MovesTo("stored")
         /\ FileTo(file.phase, file.vendor, file.tunnel, file.ui, made)
         /\ StripeTo(stripe.endpoints, made)
         /\ UNCHANGED <<running, secret, cloud, runs, made, spent>>
<1> USE LabShapeTypes, LabConstants, UndefinedIsNothingMade DEF StoreSecret
<1>1. /\ supervisor.at = "endpoint" /\ MovesTo("stored")
  BY DEF At, GoTo, Supervisors, DeploySteps, TeardownSteps, SupervisorTo, Continues, MovesTo
<1>2. /\ FileTo(file.phase, file.vendor, file.tunnel, file.ui, made)
  BY DEF EndpointRecord, FileTo, Files, Identifier
<1>3. /\ StripeTo(stripe.endpoints, made)
  BY DEF StripeTo, Stripes, Identifier
<1>4. /\ UNCHANGED <<running, secret, cloud, runs, made, spent>>
  OBVIOUS
<1> QED
  BY ONLY <1>1, <1>2, <1>3, <1>4

LEMMA RestartVendorDoes ==
  ASSUME LabShape, RestartVendor
  PROVE  /\ supervisor.at = "stored" /\ made' = made + 1
         /\ \E p \in OwnProcesses :
              /\ p.pid = made + 1 /\ p.port = file.vendor.port /\ p.api = supervisor.api
              /\ running' = (running \ {file.vendor}) \cup {p} /\ Continues("hooked", p)
         /\ UNCHANGED <<file, secret, cloud, runs, stripe, spent>>
<1> USE LabShapeTypes, LabConstants, UndefinedIsNothingMade DEF RestartVendor
<1>1. /\ supervisor.at = "stored" /\ made' = made + 1
  BY DEF At, Start, Fresh
<1>2. /\ file.vendor \in OwnProcesses /\ file.vendor.port \in Nat /\ supervisor.api \in Identifier
  BY <1>1 DEF LabShape, AtHand, Routed, Built, Files, OwnProcesses, Supervisors
<1>3. /\ "vendor" \in OwnKinds /\ "hooked" \in DeploySteps
  BY DEF OwnKinds, DeploySteps
<1>4. /\ \E p \in OwnProcesses :
           /\ p.pid = made + 1 /\ p.port = file.vendor.port /\ p.api = supervisor.api
           /\ running' = (running \ {file.vendor}) \cup {p} /\ Continues("hooked", p)
  BY <1>2, <1>3, StartingDoes DEF VendorPort
<1>5. /\ UNCHANGED <<file, secret, cloud, runs, stripe, spent>>
  OBVIOUS
<1> QED
  BY ONLY <1>1, <1>4, <1>5

LEMMA ReuseUiDoes ==
  ASSUME LabShape, ReuseUi
  PROVE  /\ supervisor.at = "hooked" /\ supervisor.started \in OwnProcesses
         /\ file.ui # Undefined /\ file.ui.api = supervisor.api
         /\ FileTo(file.phase, supervisor.started, file.tunnel, file.ui, file.endpoint)
         /\ Continues("uiRecorded", Undefined)
         /\ UNCHANGED <<running, secret, cloud, runs, stripe, made, spent>>
<1> USE LabShapeTypes, LabConstants, UndefinedIsNothingMade DEF ReuseUi
<1>1. /\ supervisor.at = "hooked" /\ supervisor.started \in OwnProcesses
  BY DEF At, LabShape, AtHand, Supervisors
<1>2. /\ file.ui # Undefined /\ file.ui.api = supervisor.api
  BY DEF UiReusable, Alive
<1>3. /\ FileTo(file.phase, supervisor.started, file.tunnel, file.ui, file.endpoint)
  BY <1>1 DEF NewestProcess, FileTo, Files
<1>4. /\ Continues("uiRecorded", Undefined)
  BY DEF At, GoTo, Supervisors, DeploySteps, TeardownSteps, SupervisorTo, Continues, MovesTo
<1>5. /\ UNCHANGED <<running, secret, cloud, runs, stripe, made, spent>>
  OBVIOUS
<1> QED
  BY ONLY <1>1, <1>2, <1>3, <1>4, <1>5

LEMMA StartUiDoes ==
  ASSUME LabShape, StartUi
  PROVE  /\ supervisor.at = "hooked" /\ supervisor.started \in OwnProcesses /\ made' = made + 1
         /\ FileTo(file.phase, supervisor.started, file.tunnel, Undefined, file.endpoint)
         /\ \E p \in OwnProcesses :
              /\ p.pid = made + 1 /\ p.api = supervisor.api
              /\ running' = (running \ {file.ui}) \cup {p} /\ Continues("ui", p)
         /\ UNCHANGED <<secret, cloud, runs, stripe, spent>>
<1> USE LabShapeTypes, LabConstants, UndefinedIsNothingMade DEF StartUi
<1>1. /\ supervisor.at = "hooked" /\ supervisor.started \in OwnProcesses /\ made' = made + 1
  BY DEF At, LabShape, AtHand, Supervisors, Start, Fresh
<1>2. /\ FileTo(file.phase, supervisor.started, file.tunnel, Undefined, file.endpoint)
  BY <1>1 DEF NewestProcess, FileTo, Files
<1>3. /\ supervisor.api \in Identifier /\ "ui" \in OwnKinds /\ "ui" \in DeploySteps /\ 0 \in Nat
  BY DEF Supervisors, OwnKinds, DeploySteps
<1>4. /\ \E p \in OwnProcesses :
           /\ p.pid = made + 1 /\ p.api = supervisor.api
           /\ running' = (running \ {file.ui}) \cup {p} /\ Continues("ui", p)
  BY <1>3, StartingDoes
<1>5. /\ UNCHANGED <<secret, cloud, runs, stripe, spent>>
  OBVIOUS
<1> QED
  BY ONLY <1>1, <1>2, <1>4, <1>5

LEMMA RecordUiDoes ==
  ASSUME LabShape, RecordUi
  PROVE  /\ supervisor.at = "ui" /\ supervisor.started \in OwnProcesses
         /\ FileTo(file.phase, file.vendor, file.tunnel, supervisor.started, file.endpoint)
         /\ Continues("uiRecorded", Undefined)
         /\ UNCHANGED <<running, secret, cloud, runs, stripe, made, spent>>
<1> USE LabShapeTypes, LabConstants, UndefinedIsNothingMade DEF RecordUi
<1>1. /\ supervisor.at = "ui" /\ supervisor.started \in OwnProcesses
  BY DEF At, LabShape, AtHand, Supervisors
<1>2. /\ FileTo(file.phase, file.vendor, file.tunnel, supervisor.started, file.endpoint)
  BY <1>1 DEF NewestProcess, FileTo, Files
<1>3. /\ Continues("uiRecorded", Undefined)
  BY DEF At, GoTo, Supervisors, DeploySteps, TeardownSteps, SupervisorTo, Continues, MovesTo
<1>4. /\ UNCHANGED <<running, secret, cloud, runs, stripe, made, spent>>
  OBVIOUS
<1> QED
  BY ONLY <1>1, <1>2, <1>3, <1>4

LEMMA ActivateDoes ==
  ASSUME LabShape, Activate
  PROVE  /\ supervisor.at = "uiRecorded" /\ MovesTo("active")
         /\ FileTo("active", file.vendor, file.tunnel, file.ui, file.endpoint)
         /\ UNCHANGED <<running, secret, cloud, runs, stripe, made, spent>>
<1> USE LabShapeTypes, LabConstants, UndefinedIsNothingMade DEF Activate
<1>1. /\ supervisor.at = "uiRecorded" /\ MovesTo("active")
  BY DEF At, GoTo, Supervisors, DeploySteps, TeardownSteps, SupervisorTo, Continues, MovesTo
<1>2. /\ FileTo("active", file.vendor, file.tunnel, file.ui, file.endpoint)
  BY DEF FileTo, Files
<1>3. /\ UNCHANGED <<running, secret, cloud, runs, stripe, made, spent>>
  OBVIOUS
<1> QED
  BY ONLY <1>1, <1>2, <1>3

\* What a failing step stops, and what it takes back.
LEMMA UndoingDoes ==
  ASSUME LabShape, StepUndoes
  PROVE  \/ /\ supervisor.at \in {"vendor", "tunnel", "hooked"}
            /\ running' = running \ {supervisor.started} /\ UNCHANGED <<file, stripe>>
         \/ /\ supervisor.at = "hooked" /\ UNCHANGED <<running, stripe>>
            /\ FileTo(file.phase, supervisor.started, file.tunnel, file.ui, file.endpoint)
         \/ /\ supervisor.at = "endpoint" /\ UNCHANGED <<file, running>>
            /\ StripeTo(stripe.endpoints \ {made}, stripe.parameter)
         \/ /\ supervisor.at = "uiRecorded" /\ UNCHANGED stripe
            /\ running' = running \ {file.ui}
            /\ FileTo(file.phase, file.vendor, file.tunnel, Undefined, file.endpoint)
         \/ /\ supervisor.at \notin {"vendor", "tunnel", "hooked", "endpoint"}
            /\ UNCHANGED <<file, running, stripe>>
<1> USE LabShapeTypes DEF At, Stopped, NewestProcess
<1>1. CASE supervisor.at \in {"vendor", "tunnel"}
  BY <1>1 DEF StepUndoes
<1>2. CASE supervisor.at = "hooked" /\ ~CannotGoOn
  BY <1>2 DEF StepUndoes
<1>3. CASE supervisor.at = "hooked" /\ CannotGoOn
  <2>1. supervisor.started \in OwnProcesses
    BY <1>3 DEF LabShape, AtHand, Supervisors
  <2>2. file' = [file EXCEPT !.vendor = supervisor.started] /\ UNCHANGED <<running, stripe>>
    BY <1>3 DEF StepUndoes
  <2> QED
    BY <1>3, <2>1, <2>2 DEF FileTo, Files
<1>4. CASE supervisor.at = "endpoint"
  <2>1. /\ stripe' = [stripe EXCEPT !.endpoints = stripe.endpoints \ {made}]
        /\ UNCHANGED <<file, running>>
    BY <1>4 DEF StepUndoes
  <2> QED
    BY <1>4, <2>1 DEF StripeTo, Stripes
<1>5. CASE supervisor.at = "uiRecorded" /\ ~Blocked(file.ui)
  <2>1. /\ file' = [file EXCEPT !.ui = Undefined] /\ running' = running \ {file.ui}
        /\ UNCHANGED stripe
    BY <1>5 DEF StepUndoes
  <2> QED
    BY <1>5, <2>1 DEF FileTo, Files
<1>6. CASE /\ supervisor.at \notin {"vendor", "tunnel", "hooked", "endpoint"}
           /\ ~(supervisor.at = "uiRecorded" /\ ~Blocked(file.ui))
  BY <1>6 DEF StepUndoes
<1> QED
  BY <1>1, <1>2, <1>3, <1>4, <1>5, <1>6

\* Runs that nobody will wait for are abandoned.
LEMMA AbandoningDoes ==
  ASSUME NEW used \in Spendings, spent' = Abandoning(used)
  PROVE  SpentTo(used.deaths, used.lost, used.abandoned \/ runs # {})
<1>1. PICK b \in BOOLEAN : b = (used.abandoned \/ runs # {})
  OBVIOUS
<1>2. spent' = [used EXCEPT !.abandoned = b]
  BY <1>1 DEF Abandoning
<1>3. SpentTo(used.deaths, used.lost, b)
  BY <1>2 DEF SpentTo, Spendings
<1> QED
  BY <1>1, <1>3

\* A failure is counted and the runs are abandoned.
LEMMA FailureAbandons ==
  ASSUME LabShape, NEW n \in Nat, spent' = Abandoning([spent EXCEPT !.failures = n])
  PROVE  SpentTo(spent.deaths, spent.lost, spent.abandoned \/ runs # {})
<1> DEFINE used == [spent EXCEPT !.failures = n]
<1>1. /\ used \in Spendings
      /\ used.deaths = spent.deaths /\ used.lost = spent.lost /\ used.abandoned = spent.abandoned
  BY LabShapeTypes DEF Spendings
<1>2. spent' = Abandoning(used)
  OBVIOUS
<1> HIDE DEF used
<1>3. SpentTo(used.deaths, used.lost, used.abandoned \/ runs # {})
  BY ONLY <1>1, <1>2, AbandoningDoes
<1> QED
  BY <1>1, <1>3

\* A command that fails ends.
LEMMA FailureLeaves ==
  ASSUME LabShape, NEW n \in Nat, Leave([spent EXCEPT !.failures = n])
  PROVE  Left(spent.deaths)
BY FailureAbandons DEF Leave, Left

\* A command that is over ends.
LEMMA LeavingDoes ==
  ASSUME LabShape, Leave(spent)
  PROVE  Left(spent.deaths)
BY LabShapeTypes, AbandoningDoes DEF Leave, Left

\* A supervisor that dies ends.
LEMMA DyingDoes ==
  ASSUME LabShape, Leave([spent EXCEPT !.deaths = @ + 1])
  PROVE  Left(spent.deaths + 1)
<1> DEFINE used == [spent EXCEPT !.deaths = spent.deaths + 1]
<1>1. /\ used \in Spendings
      /\ used.deaths = spent.deaths + 1 /\ used.lost = spent.lost
      /\ used.abandoned = spent.abandoned
  BY LabShapeTypes DEF Spendings
<1>2. supervisor' = Off /\ spent' = Abandoning(used)
  BY DEF Leave
<1> HIDE DEF used
<1>3. SpentTo(used.deaths, used.lost, used.abandoned \/ runs # {})
  BY ONLY <1>1, <1>2, AbandoningDoes
<1> QED
  BY <1>1, <1>2, <1>3 DEF Left

LEMMA StepFailsDoes ==
  ASSUME LabShape, StepFails
  PROVE  /\ supervisor.at \in DeploySteps \ {"checking", "ui", "active", "ending"}
         /\ Continues("ending", Undefined)
         /\ SpentTo(spent.deaths, spent.lost, spent.abandoned \/ runs # {})
         /\ \/ supervisor.at \in {"vendor", "tunnel", "hooked"}
              /\ running' = running \ {supervisor.started} /\ UNCHANGED <<file, stripe>>
            \/ /\ supervisor.at = "hooked" /\ UNCHANGED <<running, stripe>>
               /\ FileTo(file.phase, supervisor.started, file.tunnel, file.ui, file.endpoint)
            \/ /\ supervisor.at = "endpoint" /\ UNCHANGED <<file, running>>
               /\ StripeTo(stripe.endpoints \ {made}, stripe.parameter)
            \/ /\ supervisor.at = "uiRecorded" /\ UNCHANGED stripe
               /\ running' = running \ {file.ui}
               /\ FileTo(file.phase, file.vendor, file.tunnel, Undefined, file.endpoint)
            \/ /\ supervisor.at \notin {"vendor", "tunnel", "hooked", "endpoint"}
               /\ UNCHANGED <<file, running, stripe>>
         /\ UNCHANGED <<secret, cloud, runs, made>>
<1> USE LabShapeTypes, LabConstants, UndefinedIsNothingMade DEF StepFails
<1>1. /\ supervisor.at \in DeploySteps \ {"checking", "ui", "active", "ending"}
      /\ Continues("ending", Undefined)
  BY DEF At, GoTo, Supervisors, DeploySteps, TeardownSteps, SupervisorTo, Continues, MovesTo
<1>2. /\ (IF CannotGoOn THEN spent.failures ELSE spent.failures + 1) \in Nat
  BY DEF Spendings
<1>3. /\ SpentTo(spent.deaths, spent.lost, spent.abandoned \/ runs # {})
  BY <1>2, FailureAbandons
<1>4. /\ \/ supervisor.at \in {"vendor", "tunnel", "hooked"}
           /\ running' = running \ {supervisor.started} /\ UNCHANGED <<file, stripe>>
         \/ /\ supervisor.at = "hooked" /\ UNCHANGED <<running, stripe>>
            /\ FileTo(file.phase, supervisor.started, file.tunnel, file.ui, file.endpoint)
         \/ /\ supervisor.at = "endpoint" /\ UNCHANGED <<file, running>>
            /\ StripeTo(stripe.endpoints \ {made}, stripe.parameter)
         \/ /\ supervisor.at = "uiRecorded" /\ UNCHANGED stripe
            /\ running' = running \ {file.ui}
            /\ FileTo(file.phase, file.vendor, file.tunnel, Undefined, file.endpoint)
         \/ /\ supervisor.at \notin {"vendor", "tunnel", "hooked", "endpoint"}
            /\ UNCHANGED <<file, running, stripe>>
  BY UndoingDoes
<1>5. /\ UNCHANGED <<secret, cloud, runs, made>>
  OBVIOUS
<1> QED
  BY ONLY <1>1, <1>3, <1>4, <1>5

LEMMA ChecksFailDoes ==
  ASSUME LabShape, ChecksFail
  PROVE  /\ supervisor.at = "checking" /\ Left(spent.deaths)
         /\ UNCHANGED <<file, running, secret, cloud, runs, stripe, made>>
<1> USE LabShapeTypes, LabConstants, UndefinedIsNothingMade DEF ChecksFail
<1>1. /\ spent.failures + 1 \in Nat
  BY DEF Spendings
<1>2. /\ supervisor.at = "checking" /\ Left(spent.deaths)
  BY <1>1, FailureLeaves DEF At
<1>3. /\ UNCHANGED <<file, running, secret, cloud, runs, stripe, made>>
  OBVIOUS
<1> QED
  BY ONLY <1>2, <1>3

LEMMA InterruptDoes ==
  ASSUME LabShape, Interrupt
  PROVE  /\ MovesTo(supervisor.at)
         /\ UNCHANGED <<file, running, secret, cloud, runs, stripe, made, spent>>
<1> USE LabShapeTypes, LabConstants, UndefinedIsNothingMade DEF Interrupt
<1>1. /\ MovesTo(supervisor.at)
  BY DEF At, GoTo, Supervisors, DeploySteps, TeardownSteps, SupervisorTo, Continues, MovesTo
<1>2. /\ UNCHANGED <<file, running, secret, cloud, runs, stripe, made, spent>>
  OBVIOUS
<1> QED
  BY ONLY <1>1, <1>2

LEMMA StopDeployingDoes ==
  ASSUME LabShape, StopDeploying
  PROVE  /\ supervisor.at \in {"prepared", "deployed", "active"} /\ MovesTo("ending")
         /\ UNCHANGED <<file, running, secret, cloud, runs, stripe, made, spent>>
<1> USE LabShapeTypes, LabConstants, UndefinedIsNothingMade DEF StopDeploying
<1>1. /\ supervisor.at \in {"prepared", "deployed", "active"} /\ MovesTo("ending")
  BY DEF At, GoTo, Supervisors, DeploySteps, TeardownSteps, SupervisorTo, Continues, MovesTo
<1>2. /\ UNCHANGED <<file, running, secret, cloud, runs, stripe, made, spent>>
  OBVIOUS
<1> QED
  BY ONLY <1>1, <1>2

LEMMA SupervisorDiesDoes ==
  ASSUME LabShape, SupervisorDies
  PROVE  /\ Left(spent.deaths + 1)
         /\ UNCHANGED <<file, running, secret, cloud, runs, stripe, made>>
<1> USE LabShapeTypes, LabConstants, UndefinedIsNothingMade DEF SupervisorDies
<1>1. /\ Left(spent.deaths + 1)
  BY DyingDoes
<1>2. /\ UNCHANGED <<file, running, secret, cloud, runs, stripe, made>>
  OBVIOUS
<1> QED
  BY ONLY <1>1, <1>2

LEMMA EndDeployDoes ==
  ASSUME LabShape, EndDeploy
  PROVE  /\ supervisor.at = "ending"
         /\ \/ MovesTo("cleanUi") /\ UNCHANGED spent
            \/ Left(spent.deaths)
         /\ UNCHANGED <<file, running, secret, cloud, runs, stripe, made>>
<1> USE LabShapeTypes, LabConstants, UndefinedIsNothingMade DEF EndDeploy
<1>1. /\ GoTo("cleanUi") => MovesTo("cleanUi")
  BY DEF At, GoTo, Supervisors, DeploySteps, TeardownSteps, SupervisorTo, Continues, MovesTo
<1>2. /\ supervisor.at = "ending"
      /\ \/ MovesTo("cleanUi") /\ UNCHANGED spent
         \/ Left(spent.deaths)
  BY <1>1, LeavingDoes DEF At
<1>3. /\ UNCHANGED <<file, running, secret, cloud, runs, stripe, made>>
  OBVIOUS
<1> QED
  BY ONLY <1>2, <1>3

LEMMA StartDestroyDoes ==
  ASSUME LabShape, StartDestroy
  PROVE  /\ supervisor.at = "off"
         /\ SupervisorTo("cleanUi", Undefined, Undefined, Undefined, Undefined, FALSE, Undefined)
         /\ UNCHANGED <<file, running, secret, cloud, runs, stripe, made, spent>>
<1> USE LabShapeTypes, LabConstants, UndefinedIsNothingMade DEF StartDestroy
<1>1. /\ supervisor.at = "off"
      /\ SupervisorTo("cleanUi", Undefined, Undefined, Undefined, Undefined, FALSE, Undefined)
  BY DEF At, GoTo, Supervisors, DeploySteps, TeardownSteps, SupervisorTo, Continues, MovesTo, Off,
       Identifier, OptionalCommit
<1>2. /\ UNCHANGED <<file, running, secret, cloud, runs, stripe, made, spent>>
  OBVIOUS
<1> QED
  BY ONLY <1>1, <1>2

LEMMA CleanUiDoes ==
  ASSUME LabShape, CleanUi
  PROVE  /\ supervisor.at = "cleanUi"
         /\ \/ /\ SupervisorTo("cleanEndpoint", supervisor.run, supervisor.ended, supervisor.set,
                               supervisor.api, TRUE, supervisor.started)
               /\ UNCHANGED <<file, running>>
            \/ /\ MovesTo("cleanEndpoint") /\ running' = running \ {file.ui}
               /\ FileTo(file.phase, file.vendor, file.tunnel, Undefined, file.endpoint)
         /\ UNCHANGED <<secret, cloud, runs, stripe, made, spent>>
<1> USE LabShapeTypes, LabConstants, UndefinedIsNothingMade DEF CleanUi
<1>1. /\ GoTo("cleanEndpoint") => MovesTo("cleanEndpoint")
  BY DEF At, GoTo, Supervisors, DeploySteps, TeardownSteps, SupervisorTo, Continues, MovesTo
<1>2. /\ supervisor' = [supervisor EXCEPT !.at = "cleanEndpoint", !.errors = TRUE] =>
        SupervisorTo("cleanEndpoint", supervisor.run, supervisor.ended, supervisor.set,
                     supervisor.api, TRUE, supervisor.started)
  BY DEF At, GoTo, Supervisors, DeploySteps, TeardownSteps, SupervisorTo, Continues, MovesTo
<1>3. /\ file' = [file EXCEPT !.ui = Undefined] =>
        FileTo(file.phase, file.vendor, file.tunnel, Undefined, file.endpoint)
  BY DEF FileTo, Files
<1>4. /\ supervisor.at = "cleanUi"
      /\ \/ /\ SupervisorTo("cleanEndpoint", supervisor.run, supervisor.ended, supervisor.set,
                            supervisor.api, TRUE, supervisor.started)
            /\ UNCHANGED <<file, running>>
         \/ /\ MovesTo("cleanEndpoint") /\ running' = running \ {file.ui}
            /\ FileTo(file.phase, file.vendor, file.tunnel, Undefined, file.endpoint)
  BY <1>1, <1>2, <1>3 DEF At, Stopped
<1>5. /\ UNCHANGED <<secret, cloud, runs, stripe, made, spent>>
  OBVIOUS
<1> QED
  BY ONLY <1>4, <1>5

LEMMA CleanEndpointDoes ==
  ASSUME LabShape, CleanEndpoint
  PROVE  /\ supervisor.at = "cleanEndpoint"
         /\ \/ file.endpoint = Undefined /\ MovesTo("cleanCloud")
            \/ file.endpoint # Undefined /\ MovesTo("cleanParameter")
         /\ StripeTo(stripe.endpoints \ {file.endpoint}, stripe.parameter)
         /\ UNCHANGED <<file, running, secret, cloud, runs, made, spent>>
<1> USE LabShapeTypes, LabConstants, UndefinedIsNothingMade DEF CleanEndpoint
<1>1. /\ supervisor.at = "cleanEndpoint"
      /\ \/ file.endpoint = Undefined /\ MovesTo("cleanCloud")
         \/ file.endpoint # Undefined /\ MovesTo("cleanParameter")
  BY DEF At, GoTo, Supervisors, DeploySteps, TeardownSteps, SupervisorTo, Continues, MovesTo
<1>2. /\ StripeTo(stripe.endpoints \ {file.endpoint}, stripe.parameter)
  BY DEF StripeTo, Stripes
<1>3. /\ UNCHANGED <<file, running, secret, cloud, runs, made, spent>>
  OBVIOUS
<1> QED
  BY ONLY <1>1, <1>2, <1>3

LEMMA CleanParameterDoes ==
  ASSUME LabShape, CleanParameter
  PROVE  /\ supervisor.at = "cleanParameter" /\ MovesTo("cleanRecord")
         /\ StripeTo(stripe.endpoints, Undefined)
         /\ UNCHANGED <<file, running, secret, cloud, runs, made, spent>>
<1> USE LabShapeTypes, LabConstants, UndefinedIsNothingMade DEF CleanParameter
<1>1. /\ supervisor.at = "cleanParameter" /\ MovesTo("cleanRecord")
  BY DEF At, GoTo, Supervisors, DeploySteps, TeardownSteps, SupervisorTo, Continues, MovesTo
<1>2. /\ StripeTo(stripe.endpoints, Undefined)
  BY DEF ParameterCleaned, StripeTo, Stripes, Identifier
<1>3. /\ UNCHANGED <<file, running, secret, cloud, runs, made, spent>>
  BY DEF ParameterCleaned
<1> QED
  BY ONLY <1>1, <1>2, <1>3

LEMMA CleanRecordDoes ==
  ASSUME LabShape, CleanRecord
  PROVE  /\ supervisor.at = "cleanRecord" /\ MovesTo("cleanCloud")
         /\ FileTo(file.phase, file.vendor, file.tunnel, file.ui, Undefined)
         /\ UNCHANGED <<running, secret, cloud, runs, stripe, made, spent>>
<1> USE LabShapeTypes, LabConstants, UndefinedIsNothingMade DEF CleanRecord
<1>1. /\ supervisor.at = "cleanRecord" /\ MovesTo("cleanCloud")
  BY DEF At, GoTo, Supervisors, DeploySteps, TeardownSteps, SupervisorTo, Continues, MovesTo
<1>2. /\ FileTo(file.phase, file.vendor, file.tunnel, file.ui, Undefined)
  BY DEF FileTo, Files, Identifier
<1>3. /\ UNCHANGED <<running, secret, cloud, runs, stripe, made, spent>>
  OBVIOUS
<1> QED
  BY ONLY <1>1, <1>2, <1>3

LEMMA StripeCleanupFailsDoes ==
  ASSUME LabShape, StripeCleanupFails
  PROVE  /\ supervisor.at \in {"cleanEndpoint", "cleanParameter"}
         /\ SupervisorTo("cleanCloud", supervisor.run, supervisor.ended, supervisor.set,
                         supervisor.api, TRUE, supervisor.started)
         /\ SpentAsBefore
         /\ UNCHANGED <<file, running, secret, cloud, runs, stripe, made>>
<1> USE LabShapeTypes, LabConstants, UndefinedIsNothingMade DEF StripeCleanupFails
<1>1. /\ supervisor.at \in {"cleanEndpoint", "cleanParameter"}
      /\ SupervisorTo("cleanCloud", supervisor.run, supervisor.ended, supervisor.set,
                      supervisor.api, TRUE, supervisor.started)
  BY DEF At, GoTo, Supervisors, DeploySteps, TeardownSteps, SupervisorTo, Continues, MovesTo
<1>2. /\ SpentAsBefore
  BY DEF SpentAsBefore, SpentTo, Spendings
<1>3. /\ UNCHANGED <<file, running, secret, cloud, runs, stripe, made>>
  OBVIOUS
<1> QED
  BY ONLY <1>1, <1>2, <1>3

LEMMA CleanCloudDoes ==
  ASSUME LabShape, CleanCloud
  PROVE  /\ supervisor.at = "cleanCloud"
         /\ \/ CloudIsGone /\ MovesTo("verifying") /\ UNCHANGED <<runs, made>>
            \/ ~CloudIsGone /\ AwaitsRun("destroy", Undefined, Undefined, "destroying")
         /\ UNCHANGED <<file, running, secret, cloud, stripe, spent>>
<1> USE LabShapeTypes, LabConstants, UndefinedIsNothingMade DEF CleanCloud
<1>1. /\ GoTo("verifying") => MovesTo("verifying")
  BY DEF At, GoTo, Supervisors, DeploySteps, TeardownSteps, SupervisorTo, Continues, MovesTo
<1>2. /\ Undefined \in Identifier /\ "destroying" \in TeardownSteps
  BY DEF Identifier, TeardownSteps
<1>3. /\ supervisor.at = "cleanCloud"
      /\ \/ CloudIsGone /\ MovesTo("verifying") /\ UNCHANGED <<runs, made>>
         \/ ~CloudIsGone /\ AwaitsRun("destroy", Undefined, Undefined, "destroying")
  BY <1>1, <1>2, DispatchDoes DEF At
<1>4. /\ UNCHANGED <<file, running, secret, cloud, stripe, spent>>
  OBVIOUS
<1> QED
  BY ONLY <1>3, <1>4

LEMMA DestroySucceededDoes ==
  ASSUME LabShape, DestroySucceeded
  PROVE  /\ supervisor.at = "destroying" /\ supervisor.ended = "success" /\ MovesTo("verifying")
         /\ UNCHANGED <<file, running, secret, cloud, runs, stripe, made, spent>>
<1> USE LabShapeTypes, LabConstants, UndefinedIsNothingMade DEF DestroySucceeded
<1>1. /\ supervisor.at = "destroying" /\ supervisor.ended = "success" /\ MovesTo("verifying")
  BY DEF At, GoTo, Supervisors, DeploySteps, TeardownSteps, SupervisorTo, Continues, MovesTo
<1>2. /\ UNCHANGED <<file, running, secret, cloud, runs, stripe, made, spent>>
  OBVIOUS
<1> QED
  BY ONLY <1>1, <1>2

LEMMA VerifyDestroyedDoes ==
  ASSUME LabShape, VerifyDestroyed
  PROVE  /\ supervisor.at = "verifying" /\ CloudIsGone /\ MovesTo("cleanLocal")
         /\ UNCHANGED <<file, running, secret, cloud, runs, stripe, made, spent>>
<1> USE LabShapeTypes, LabConstants, UndefinedIsNothingMade DEF VerifyDestroyed
<1>1. /\ supervisor.at = "verifying" /\ CloudIsGone /\ MovesTo("cleanLocal")
  BY DEF At, GoTo, Supervisors, DeploySteps, TeardownSteps, SupervisorTo, Continues, MovesTo
<1>2. /\ UNCHANGED <<file, running, secret, cloud, runs, stripe, made, spent>>
  OBVIOUS
<1> QED
  BY ONLY <1>1, <1>2

LEMMA CleanLocalDoes ==
  ASSUME LabShape, CleanLocal
  PROVE  /\ supervisor.at = "cleanLocal" /\ MovesTo("closing")
         /\ running' = running \ {file.tunnel, file.vendor} /\ secret' = Undefined
         /\ UNCHANGED <<file, cloud, runs, stripe, made, spent>>
<1> USE LabShapeTypes, LabConstants, UndefinedIsNothingMade DEF CleanLocal
<1>1. /\ supervisor.at = "cleanLocal" /\ MovesTo("closing")
      /\ running' = running \ {file.tunnel, file.vendor} /\ secret' = Undefined
  BY DEF At, GoTo, Supervisors, DeploySteps, TeardownSteps, SupervisorTo, Continues, MovesTo,
       Stopped
<1>2. /\ UNCHANGED <<file, cloud, runs, stripe, made, spent>>
  OBVIOUS
<1> QED
  BY ONLY <1>1, <1>2

LEMMA CloseTeardownDoes ==
  ASSUME LabShape, CloseTeardown
  PROVE  /\ supervisor.at = "closing" /\ Left(spent.deaths)
         /\ \/ /\ supervisor.errors
               /\ FileTo("cleanup-required", Undefined, Undefined, file.ui, file.endpoint)
            \/ /\ ~supervisor.errors
               /\ FileTo("destroyed", Undefined, Undefined, Undefined, Undefined)
         /\ UNCHANGED <<running, secret, cloud, runs, stripe, made>>
<1> USE LabShapeTypes, LabConstants, UndefinedIsNothingMade DEF CloseTeardown
<1>1. /\ supervisor.at = "closing" /\ Left(spent.deaths)
  BY LeavingDoes DEF At
<1>2. /\ \/ /\ supervisor.errors
            /\ FileTo("cleanup-required", Undefined, Undefined, file.ui, file.endpoint)
         \/ /\ ~supervisor.errors
            /\ FileTo("destroyed", Undefined, Undefined, Undefined, Undefined)
  BY DEF Empty, FileTo, Files, Identifier, OptionalCommit, Supervisors
<1>3. /\ UNCHANGED <<running, secret, cloud, runs, stripe, made>>
  OBVIOUS
<1> QED
  BY ONLY <1>1, <1>2, <1>3

LEMMA TeardownFailsDoes ==
  ASSUME LabShape, TeardownFails
  PROVE  /\ Left(spent.deaths)
         /\ supervisor.at \in {"cleanCloud", "destroying", "verifying", "cleanLocal"}
         /\ running' \subseteq running
         /\ UNCHANGED <<file, secret, cloud, runs, stripe, made>>
<1> USE LabShapeTypes, LabConstants, UndefinedIsNothingMade DEF TeardownFails
<1>1. /\ (IF TeardownStuck THEN spent.failures ELSE spent.failures + 1) \in Nat
  BY DEF Spendings
<1>2. /\ Left(spent.deaths)
  BY <1>1, FailureLeaves
<1>3. /\ supervisor.at \in {"cleanCloud", "destroying", "verifying", "cleanLocal"}
      /\ running' \subseteq running
  BY DEF Stopped
<1>4. /\ UNCHANGED <<file, secret, cloud, runs, stripe, made>>
  OBVIOUS
<1> QED
  BY ONLY <1>2, <1>3, <1>4

LEMMA ProcessDiesDoes ==
  ASSUME LabShape, NEW p \in running, ProcessDies(p)
  PROVE  /\ SpentAsBefore
         /\ \/ running' = running \ {p}
            \/ \E q \in Processes : /\ q.pid = p.pid /\ q.kind = "other"
                                    /\ running' = (running \ {p}) \cup {q}
         /\ UNCHANGED <<file, supervisor, secret, cloud, runs, stripe, made>>
<1> USE LabShapeTypes DEF ProcessDies
<1>1. SpentAsBefore
  BY DEF SpentAsBefore, SpentTo, Spendings
<1> DEFINE q == [p EXCEPT !.kind = "other"]
<1>2. q \in Processes /\ q.pid = p.pid /\ q.kind = "other"
  BY DEF Processes
<1>3. running' = running \ {p} \/ running' = (running \ {p}) \cup {q}
  OBVIOUS
<1> HIDE DEF q
<1> QED
  BY <1>1, <1>2, <1>3

\* A run ends, and whoever waits for it learns how.
ConcludedAs(r, outcome) ==
  /\ runs' = runs \ {r}
  /\ SupervisorTo(supervisor.at, supervisor.run,
                  IF supervisor.run = r.id THEN outcome ELSE supervisor.ended,
                  supervisor.set, supervisor.api, supervisor.errors, supervisor.started)

\* The supervisor learns the outcome of the run it waits for.
LEMMA ConcludeDoes ==
  ASSUME LabShape, NEW r \in runs, NEW outcome \in {"success", "failure"}, Conclude(r, outcome)
  PROVE  ConcludedAs(r, outcome)
BY LabShapeTypes DEF Conclude, ConcludedAs, SupervisorTo, Supervisors

\* The stack is as before but for its status.
StackTurns(statuses) ==
  \E t \in Stacks : /\ t.status \in statuses /\ t.url = cloud.stack.url
                    /\ t.digest = cloud.stack.digest /\ t.api = cloud.stack.api
                    /\ CloudTo(t, cloud.sets, cloud.artifacts, cloud.secret)

\* Only the status of the stack changes.
LEMMA StackTurnsTo ==
  ASSUME LabShape, cloud.stack # Undefined, NEW status \in {"review", "busy", "complete", "failed"},
         cloud' = [cloud EXCEPT !.stack.status = status]
  PROVE  StackTurns({status})
<1>1. cloud.stack \in Stacks
  BY LabShapeTypes DEF Clouds
<1> DEFINE t == [cloud.stack EXCEPT !.status = status]
<1>2. /\ t \in Stacks
      /\ t.status = status /\ t.url = cloud.stack.url
      /\ t.digest = cloud.stack.digest /\ t.api = cloud.stack.api
  BY <1>1 DEF Stacks
<1>3. cloud' = [cloud EXCEPT !.stack = t]
  OBVIOUS
<1> HIDE DEF t
<1>4. CloudTo(t, cloud.sets, cloud.artifacts, cloud.secret)
  BY <1>2, <1>3, LabShapeTypes DEF CloudTo, Clouds
<1> QED
  BY <1>2, <1>4 DEF StackTurns

\* A run that prepares leaves a change set.
Prepares(r) ==
  \E s \in ChangeSets, t \in Stacks :
    /\ s.run = r.id /\ s.url = r.url /\ s.digest = cloud.secret
    /\ t = IF cloud.stack = Undefined THEN NoStack ELSE cloud.stack
    /\ CloudTo(t, cloud.sets \cup {s}, TRUE, cloud.secret)

\* A run that executes leaves what its change set describes.
Executes(r) ==
  \E t \in Stacks :
    /\ t.status = "complete" /\ t.url = r.set.url /\ t.digest = r.set.digest
    /\ t.api = IF cloud.stack.api = Undefined THEN r.id ELSE cloud.stack.api
    /\ CloudTo(t, {}, cloud.artifacts, cloud.secret)

\* What a run that succeeds leaves.
LEMMA AccomplishedDoes ==
  ASSUME LabShape, NEW r \in runs, r.status = "running", cloud' = Accomplished(r)
  PROVE  /\ r.operation = "prepare" => Prepares(r)
         /\ r.operation = "execute" => Executes(r)
         /\ r.operation = "destroy" => CloudTo(Undefined, {}, FALSE, cloud.secret)
<1> USE LabShapeTypes
<1>1. r \in GitHubRuns
  OBVIOUS
<1>2. ASSUME r.operation = "prepare" PROVE Prepares(r)
  <2>1. PICK s \in ChangeSets : s = [run |-> r.id, commit |-> r.commit, url |-> r.url,
                                     digest |-> cloud.secret]
    BY <1>1 DEF GitHubRuns, ChangeSets, Clouds
  <2>2. NoStack \in Stacks
    BY DEF NoStack, Stacks, OptionalCommit, Identifier
  <2>3. PICK t \in Stacks : t = IF cloud.stack = Undefined THEN NoStack ELSE cloud.stack
    BY <2>2 DEF Clouds
  <2>4. PICK sets \in SUBSET ChangeSets : sets = cloud.sets \cup {s}
    BY <2>1 DEF Clouds
  <2>5. cloud' = [cloud EXCEPT !.artifacts = TRUE, !.stack = t, !.sets = sets]
    BY <1>2, <2>1, <2>3, <2>4 DEF Accomplished
  <2>6. CloudTo(t, sets, TRUE, cloud.secret)
    BY <2>5 DEF CloudTo, Clouds
  <2>7. s.run = r.id /\ s.url = r.url /\ s.digest = cloud.secret
    BY <2>1
  <2> QED
    BY <2>3, <2>4, <2>6, <2>7 DEF Prepares
<1>3. ASSUME r.operation = "execute" PROVE Executes(r)
  <2>1. r.set \in ChangeSets /\ cloud.stack \in Stacks
    BY <1>1, <1>3 DEF LabShape, Serialised, GitHubRuns, Clouds
  <2>2. PICK api \in Identifier :
          api = IF cloud.stack.api = Undefined THEN r.id ELSE cloud.stack.api
    BY <1>1, <2>1 DEF GitHubRuns, Stacks, Identifier
  <2>3. PICK t \in Stacks : t = [status |-> "complete", commit |-> r.set.commit, url |-> r.set.url,
                                 digest |-> r.set.digest, api |-> api]
    BY <2>1 DEF Stacks, ChangeSets
  <2>4. cloud' = [cloud EXCEPT !.sets = {}, !.stack = t]
    BY <1>3, <2>2, <2>3 DEF Accomplished
  <2>5. CloudTo(t, {}, cloud.artifacts, cloud.secret)
    BY <2>4 DEF CloudTo, Clouds
  <2>6. t.status = "complete" /\ t.url = r.set.url /\ t.digest = r.set.digest /\ t.api = api
    BY <2>3
  <2> QED
    BY <2>2, <2>5, <2>6 DEF Executes
<1>4. ASSUME r.operation = "destroy" PROVE CloudTo(Undefined, {}, FALSE, cloud.secret)
  <2>1. cloud' = [cloud EXCEPT !.stack = Undefined, !.sets = {}, !.artifacts = FALSE]
    BY <1>4 DEF Accomplished
  <2> QED
    BY <2>1 DEF CloudTo, Clouds
<1> QED
  BY ONLY <1>2, <1>3, <1>4

LEMMA RunSucceedsDoes ==
  ASSUME LabShape, NEW r \in runs, RunSucceeds(r)
  PROVE  /\ r.status = "running" /\ ConcludedAs(r, "success")
         /\ r.operation = "prepare" => Prepares(r)
         /\ r.operation = "execute" => Executes(r)
         /\ r.operation = "destroy" => CloudTo(Undefined, {}, FALSE, cloud.secret)
         /\ UNCHANGED <<file, running, secret, stripe, made, spent>>
BY ConcludeDoes, AccomplishedDoes DEF RunSucceeds

LEMMA RunFailsDoes ==
  ASSUME LabShape, NEW r \in runs, RunFails(r)
  PROVE  /\ r.status = "running" /\ ConcludedAs(r, "failure")
         /\ r.operation = "prepare" => CloudTo(cloud.stack, cloud.sets, TRUE, cloud.secret)
         /\ r.operation = "execute" =>
              \/ Executes(r)
              \/ StackTurns({IF cloud.stack.api = Undefined THEN "failed" ELSE "complete"})
         /\ r.operation = "destroy" => UNCHANGED cloud
         /\ SpentAsBefore
         /\ UNCHANGED <<file, running, secret, stripe, made>>
<1> USE LabShapeTypes
<1>1. r.status = "running" /\ ConcludedAs(r, "failure")
  BY ConcludeDoes DEF RunFails
<1>2. ASSUME r.operation = "prepare" PROVE CloudTo(cloud.stack, cloud.sets, TRUE, cloud.secret)
  <2>1. cloud' = [cloud EXCEPT !.artifacts = TRUE]
    BY <1>2 DEF RunFails
  <2> QED
    BY <2>1 DEF CloudTo, Clouds
<1>3. ASSUME r.operation = "execute"
      PROVE  \/ Executes(r)
             \/ StackTurns({IF cloud.stack.api = Undefined THEN "failed" ELSE "complete"})
  <2>1. cloud.stack # Undefined
    BY <1>1, <1>3 DEF LabShape, Serialised
  <2>2. PICK status \in {"failed", "complete"} :
          status = IF cloud.stack.api = Undefined THEN "failed" ELSE "complete"
    OBVIOUS
  <2>3. cloud' = Accomplished(r) \/ cloud' = [cloud EXCEPT !.stack.status = status]
    BY <1>3, <2>2 DEF RunFails
  <2>4. cloud' = [cloud EXCEPT !.stack.status = status] => StackTurns({status})
    BY <2>1, StackTurnsTo
  <2> QED
    BY <1>1, <1>3, <2>2, <2>3, <2>4, AccomplishedDoes
<1>4. r.operation = "destroy" => UNCHANGED cloud
  BY DEF RunFails
<1>5. SpentAsBefore
  BY DEF RunFails, SpentAsBefore, SpentTo, Spendings
<1>6. UNCHANGED <<file, running, secret, stripe, made>>
  BY DEF RunFails
<1> QED
  BY ONLY <1>1, <1>2, <1>3, <1>4, <1>5, <1>6

LEMMA RunStartsDoes ==
  ASSUME LabShape, NEW r \in runs, RunStarts(r)
  PROVE  /\ r.status = "queued" /\ \A other \in runs : other.status = "queued"
         /\ \/ /\ \E q \in GitHubRuns :
                    /\ q.id = r.id /\ q.operation = r.operation /\ q.url = r.url
                    /\ q.set = r.set /\ q.status = "running"
                    /\ runs' = (runs \ {r}) \cup {q}
               /\ r.operation = "execute" => /\ cloud.stack # Undefined /\ r.set \in cloud.sets
                                             /\ StackTurns({"busy"})
               /\ r.operation # "execute" => UNCHANGED cloud
               /\ UNCHANGED supervisor
            \/ ConcludedAs(r, "failure") /\ UNCHANGED cloud
         /\ UNCHANGED <<file, running, secret, stripe, made, spent>>
<1>1. r \in GitHubRuns
  BY LabShapeTypes
<1>2. CASE Admitted(r)
  <2>1. /\ runs' = (runs \ {r}) \cup {[r EXCEPT !.status = "running"]}
        /\ cloud' = IF r.operation = "execute" THEN [cloud EXCEPT !.stack.status = "busy"]
                    ELSE cloud
        /\ UNCHANGED supervisor
    BY <1>2 DEF RunStarts
  <2> DEFINE q == [r EXCEPT !.status = "running"]
  <2>2. /\ q \in GitHubRuns /\ q.id = r.id /\ q.operation = r.operation /\ q.url = r.url
        /\ q.set = r.set /\ q.status = "running"
    BY <1>1 DEF GitHubRuns
  <2>3. ASSUME r.operation = "execute"
        PROVE  cloud.stack # Undefined /\ r.set \in cloud.sets /\ StackTurns({"busy"})
    <3>1. cloud.stack # Undefined /\ r.set \in cloud.sets
      BY <1>2, <2>3 DEF Admitted, StackIs
    <3>2. cloud' = [cloud EXCEPT !.stack.status = "busy"]
      BY <2>1, <2>3
    <3> QED
      BY <3>1, <3>2, StackTurnsTo
  <2> QED
    BY <2>1, <2>2, <2>3 DEF RunStarts
<1>3. CASE ~Admitted(r)
  BY <1>3, ConcludeDoes DEF RunStarts
<1> QED
  BY <1>2, <1>3

(***************************************************************************)
(* The shape is kept.                                                      *)
(***************************************************************************)

\* What a step needs is there when it comes.
LEMMA AtHandKept ==
  ASSUME LabShape, [LabNext]_labVars
  PROVE  AtHand'
<1> USE LabShapeTypes, NothingMadeIsUndefined DEF LabShape, AtHand, At, Clouds, Built, Routed,
     AwaitsRun, SupervisorTo, Continues, MovesTo, FileTo, CloudTo, StripeTo, SpentTo,
     SpentAsBefore, Left, ConcludedAs
<1>1. CASE StartDeploy
  BY <1>1, StartDeployDoes
<1>2. CASE ChecksPass
  BY <1>2, ChecksPassDoes
<1>3. CASE ReuseBoundary
  BY <1>3, ReuseBoundaryDoes
<1>4. CASE ReplaceBoundary
  BY <1>4, ReplaceBoundaryDoes
<1>5. CASE StartTunnel
  BY <1>5, StartTunnelDoes
<1>6. CASE RecordTunnel
  BY <1>6, RecordTunnelDoes
<1>7. CASE AdoptPrepared
  BY <1>7, AdoptPreparedDoes
<1>8. CASE ReuseDeployed
  BY <1>8, ReuseDeployedDoes
<1>9. CASE DispatchPrepare
  BY <1>9, DispatchPrepareDoes
<1>10. CASE PrepareSucceeded
  BY <1>10, PrepareSucceededDoes
<1>11. CASE DispatchExecute
  BY <1>11, DispatchExecuteDoes
<1>12. CASE ExecuteSucceeded
  BY <1>12, ExecuteSucceededDoes
<1>13. CASE CreateEndpoint
  BY <1>13, CreateEndpointDoes
<1>14. CASE StoreSecret
  BY <1>14, StoreSecretDoes
<1>15. CASE RestartVendor
  BY <1>15, RestartVendorDoes
<1>16. CASE ReuseUi
  BY <1>16, ReuseUiDoes
<1>17. CASE StartUi
  BY <1>17, StartUiDoes
<1>18. CASE RecordUi
  BY <1>18, RecordUiDoes
<1>19. CASE Activate
  BY <1>19, ActivateDoes
<1>20. CASE StepFails
  BY <1>20, StepFailsDoes
<1>21. CASE ChecksFail
  BY <1>21, ChecksFailDoes DEF Off
<1>22. CASE Interrupt
  BY <1>22, InterruptDoes
<1>23. CASE StopDeploying
  BY <1>23, StopDeployingDoes
<1>24. CASE SupervisorDies
  BY <1>24, SupervisorDiesDoes DEF Off
<1>25. CASE EndDeploy
  BY <1>25, EndDeployDoes DEF Off
<1>26. CASE StartDestroy
  BY <1>26, StartDestroyDoes
<1>27. CASE CleanUi
  BY <1>27, CleanUiDoes
<1>28. CASE CleanEndpoint
  BY <1>28, CleanEndpointDoes
<1>29. CASE CleanParameter
  BY <1>29, CleanParameterDoes
<1>30. CASE CleanRecord
  BY <1>30, CleanRecordDoes
<1>31. CASE StripeCleanupFails
  BY <1>31, StripeCleanupFailsDoes
<1>32. CASE CleanCloud
  BY <1>32, CleanCloudDoes
<1>33. CASE DestroySucceeded
  BY <1>33, DestroySucceededDoes
<1>34. CASE VerifyDestroyed
  BY <1>34, VerifyDestroyedDoes
<1>35. CASE CleanLocal
  BY <1>35, CleanLocalDoes
<1>36. CASE CloseTeardown
  BY <1>36, CloseTeardownDoes DEF Off
<1>37. CASE TeardownFails
  BY <1>37, TeardownFailsDoes DEF Off
<1>38. ASSUME NEW p \in running, ProcessDies(p)
      PROVE  AtHand'
  BY <1>38, ProcessDiesDoes
<1>39. ASSUME NEW r \in runs, RunStarts(r)
      PROVE  AtHand'
  BY <1>39, RunStartsDoes
<1>40. ASSUME NEW r \in runs, RunSucceeds(r)
      PROVE  AtHand'
  BY <1>40, RunSucceedsDoes
<1>41. ASSUME NEW r \in runs, RunFails(r)
      PROVE  AtHand'
  BY <1>41, RunFailsDoes
<1>42. CASE UNCHANGED labVars
  BY <1>42 DEF labVars
<1> QED
  BY ONLY [LabNext]_labVars, <1>1, <1>2, <1>3, <1>4, <1>5, <1>6, <1>7, <1>8, <1>9, <1>10, <1>11,
       <1>12, <1>13, <1>14, <1>15, <1>16, <1>17, <1>18, <1>19, <1>20, <1>21, <1>22, <1>23, <1>24,
       <1>25, <1>26, <1>27, <1>28, <1>29, <1>30, <1>31, <1>32, <1>33, <1>34, <1>35, <1>36, <1>37,
       <1>38, <1>39, <1>40, <1>41, <1>42 DEF LabNext, Deploy, Teardown

\* A supervisor that is off is a supervisor.
LEMMA OffIsOne == Off \in Supervisors
BY DEF Off, Supervisors, OptionalCommit, Identifier, DeploySteps, TeardownSteps

\* What is known of a run.
LEMMA RunsOperate ==
  ASSUME LabShape, NEW r \in runs
  PROVE  /\ r.operation \in {"prepare", "execute", "destroy"} /\ r.status \in {"queued", "running"}
         /\ r.id \in Nat /\ r.id <= made /\ r.id # Undefined
<1>1. /\ r.operation \in {"prepare", "execute", "destroy"} /\ r.status \in {"queued", "running"}
      /\ r.id \in Nat
  BY LabShapeTypes DEF GitHubRuns
<1>2. r.id \in 1..made
  BY DEF LabShape, LabTypeOK
<1> QED
  BY <1>1, <1>2, LabShapeTypes, NothingMadeIsUndefined

\* Each record keeps its shape, and numbers only grow.
LEMMA FieldsKept ==
  ASSUME LabShape, [LabNext]_labVars
  PROVE  /\ file' \in Files /\ supervisor' \in Supervisors /\ secret' \in Identifier
         /\ cloud' \in Clouds /\ stripe' \in Stripes /\ spent' \in Spendings
         /\ made' \in Nat /\ made' >= made
<1> USE LabShapeTypes DEF AwaitsRun, SupervisorTo, Continues, MovesTo, FileTo, CloudTo, StripeTo,
     SpentTo, SpentAsBefore, Left, ConcludedAs
<1>1. CASE StartDeploy
  BY <1>1, StartDeployDoes
<1>2. CASE ChecksPass
  BY <1>2, ChecksPassDoes DEF Identifier
<1>3. CASE ReuseBoundary
  BY <1>3, ReuseBoundaryDoes
<1>4. CASE ReplaceBoundary
  BY <1>4, ReplaceBoundaryDoes
<1>5. CASE StartTunnel
  BY <1>5, StartTunnelDoes
<1>6. CASE RecordTunnel
  BY <1>6, RecordTunnelDoes
<1>7. CASE AdoptPrepared
  BY <1>7, AdoptPreparedDoes
<1>8. CASE ReuseDeployed
  BY <1>8, ReuseDeployedDoes
<1>9. CASE DispatchPrepare
  BY <1>9, DispatchPrepareDoes
<1>10. CASE PrepareSucceeded
  BY <1>10, PrepareSucceededDoes
<1>11. CASE DispatchExecute
  BY <1>11, DispatchExecuteDoes
<1>12. CASE ExecuteSucceeded
  BY <1>12, ExecuteSucceededDoes
<1>13. CASE CreateEndpoint
  BY <1>13, CreateEndpointDoes
<1>14. CASE StoreSecret
  BY <1>14, StoreSecretDoes
<1>15. CASE RestartVendor
  BY <1>15, RestartVendorDoes
<1>16. CASE ReuseUi
  BY <1>16, ReuseUiDoes
<1>17. CASE StartUi
  BY <1>17, StartUiDoes
<1>18. CASE RecordUi
  BY <1>18, RecordUiDoes
<1>19. CASE Activate
  BY <1>19, ActivateDoes
<1>20. CASE StepFails
  BY <1>20, StepFailsDoes
<1>21. CASE ChecksFail
  BY <1>21, ChecksFailDoes, OffIsOne
<1>22. CASE Interrupt
  BY <1>22, InterruptDoes
<1>23. CASE StopDeploying
  BY <1>23, StopDeployingDoes
<1>24. CASE SupervisorDies
  BY <1>24, SupervisorDiesDoes, OffIsOne
<1>25. CASE EndDeploy
  BY <1>25, EndDeployDoes, OffIsOne
<1>26. CASE StartDestroy
  BY <1>26, StartDestroyDoes
<1>27. CASE CleanUi
  <2>1. file' \in Files /\ supervisor' \in Supervisors
    BY <1>27, CleanUiDoes
  <2>2. UNCHANGED <<secret, cloud, runs, stripe, made, spent>>
    BY <1>27, CleanUiDoes
  <2> QED
    BY <2>1, <2>2
<1>28. CASE CleanEndpoint
  BY <1>28, CleanEndpointDoes
<1>29. CASE CleanParameter
  BY <1>29, CleanParameterDoes
<1>30. CASE CleanRecord
  BY <1>30, CleanRecordDoes
<1>31. CASE StripeCleanupFails
  BY <1>31, StripeCleanupFailsDoes
<1>32. CASE CleanCloud
  BY <1>32, CleanCloudDoes
<1>33. CASE DestroySucceeded
  BY <1>33, DestroySucceededDoes
<1>34. CASE VerifyDestroyed
  BY <1>34, VerifyDestroyedDoes
<1>35. CASE CleanLocal
  BY <1>35, CleanLocalDoes DEF Identifier
<1>36. CASE CloseTeardown
  BY <1>36, CloseTeardownDoes, OffIsOne
<1>37. CASE TeardownFails
  BY <1>37, TeardownFailsDoes, OffIsOne
<1>38. ASSUME NEW p \in running, ProcessDies(p)
      PROVE  /\ file' \in Files /\ supervisor' \in Supervisors /\ secret' \in Identifier
             /\ cloud' \in Clouds /\ stripe' \in Stripes /\ spent' \in Spendings
             /\ made' \in Nat /\ made' >= made
  BY <1>38, ProcessDiesDoes, RunsOperate DEF Prepares, Executes, StackTurns
<1>39. ASSUME NEW r \in runs, RunStarts(r)
      PROVE  /\ file' \in Files /\ supervisor' \in Supervisors /\ secret' \in Identifier
             /\ cloud' \in Clouds /\ stripe' \in Stripes /\ spent' \in Spendings
             /\ made' \in Nat /\ made' >= made
  BY <1>39, RunStartsDoes, RunsOperate DEF Prepares, Executes, StackTurns
<1>40. ASSUME NEW r \in runs, RunSucceeds(r)
      PROVE  /\ file' \in Files /\ supervisor' \in Supervisors /\ secret' \in Identifier
             /\ cloud' \in Clouds /\ stripe' \in Stripes /\ spent' \in Spendings
             /\ made' \in Nat /\ made' >= made
  <2>1. supervisor' \in Supervisors /\ (spent' \in Spendings)
    BY <1>40, RunSucceedsDoes
  <2>2. UNCHANGED <<file, running, secret, stripe, made>>
    BY <1>40, RunSucceedsDoes
  <2>3. cloud' \in Clouds
    <3>1. CASE r.operation = "prepare"
      BY <1>40, <3>1, RunSucceedsDoes DEF Prepares
    <3>2. CASE r.operation = "execute"
      BY <1>40, <3>2, RunSucceedsDoes DEF Executes, StackTurns
    <3>3. CASE r.operation = "destroy"
      BY <1>40, <3>3, RunSucceedsDoes
    <3> QED
      BY <3>1, <3>2, <3>3, RunsOperate
  <2> QED
    BY <2>1, <2>2, <2>3
<1>41. ASSUME NEW r \in runs, RunFails(r)
      PROVE  /\ file' \in Files /\ supervisor' \in Supervisors /\ secret' \in Identifier
             /\ cloud' \in Clouds /\ stripe' \in Stripes /\ spent' \in Spendings
             /\ made' \in Nat /\ made' >= made
  <2>1. supervisor' \in Supervisors /\ (spent' \in Spendings)
    BY <1>41, RunFailsDoes
  <2>2. UNCHANGED <<file, running, secret, stripe, made>>
    BY <1>41, RunFailsDoes
  <2>3. cloud' \in Clouds
    <3>1. CASE r.operation = "prepare"
      BY <1>41, <3>1, RunFailsDoes DEF Prepares
    <3>2. CASE r.operation = "execute"
      BY <1>41, <3>2, RunFailsDoes DEF Executes, StackTurns
    <3>3. CASE r.operation = "destroy"
      BY <1>41, <3>3, RunFailsDoes
    <3> QED
      BY <3>1, <3>2, <3>3, RunsOperate
  <2> QED
    BY <2>1, <2>2, <2>3
<1>42. CASE UNCHANGED labVars
  BY <1>42 DEF labVars
<1> QED
  BY ONLY [LabNext]_labVars, <1>1, <1>2, <1>3, <1>4, <1>5, <1>6, <1>7, <1>8, <1>9, <1>10, <1>11,
       <1>12, <1>13, <1>14, <1>15, <1>16, <1>17, <1>18, <1>19, <1>20, <1>21, <1>22, <1>23, <1>24,
       <1>25, <1>26, <1>27, <1>28, <1>29, <1>30, <1>31, <1>32, <1>33, <1>34, <1>35, <1>36, <1>37,
       <1>38, <1>39, <1>40, <1>41, <1>42 DEF LabNext, Deploy, Teardown

\* A tunnel is recorded only beside its vendor.
LEMMA TunnelsHaveVendors ==
  ASSUME LabShape, [LabNext]_labVars
  PROVE  file'.tunnel # Undefined => file'.vendor # Undefined
<1> USE LabShapeTypes, NothingMadeIsUndefined DEF LabShape, LabTypeOK, AtHand, AwaitsRun,
     SupervisorTo, Continues, MovesTo, FileTo, CloudTo, StripeTo, SpentTo, SpentAsBefore, Left,
     ConcludedAs
<1>1. CASE StartDeploy
  BY <1>1, StartDeployDoes
<1>2. CASE ChecksPass
  BY <1>2, ChecksPassDoes
<1>3. CASE ReuseBoundary
  BY <1>3, ReuseBoundaryDoes
<1>4. CASE ReplaceBoundary
  BY <1>4, ReplaceBoundaryDoes
<1>5. CASE StartTunnel
  BY <1>5, StartTunnelDoes
<1>6. CASE RecordTunnel
  BY <1>6, RecordTunnelDoes
<1>7. CASE AdoptPrepared
  BY <1>7, AdoptPreparedDoes
<1>8. CASE ReuseDeployed
  BY <1>8, ReuseDeployedDoes
<1>9. CASE DispatchPrepare
  BY <1>9, DispatchPrepareDoes
<1>10. CASE PrepareSucceeded
  BY <1>10, PrepareSucceededDoes
<1>11. CASE DispatchExecute
  BY <1>11, DispatchExecuteDoes
<1>12. CASE ExecuteSucceeded
  BY <1>12, ExecuteSucceededDoes
<1>13. CASE CreateEndpoint
  BY <1>13, CreateEndpointDoes
<1>14. CASE StoreSecret
  BY <1>14, StoreSecretDoes
<1>15. CASE RestartVendor
  BY <1>15, RestartVendorDoes
<1>16. CASE ReuseUi
  BY <1>16, ReuseUiDoes
<1>17. CASE StartUi
  BY <1>17, StartUiDoes
<1>18. CASE RecordUi
  BY <1>18, RecordUiDoes
<1>19. CASE Activate
  BY <1>19, ActivateDoes
<1>20. CASE StepFails
  BY <1>20, StepFailsDoes
<1>21. CASE ChecksFail
  BY <1>21, ChecksFailDoes
<1>22. CASE Interrupt
  BY <1>22, InterruptDoes
<1>23. CASE StopDeploying
  BY <1>23, StopDeployingDoes
<1>24. CASE SupervisorDies
  BY <1>24, SupervisorDiesDoes
<1>25. CASE EndDeploy
  BY <1>25, EndDeployDoes
<1>26. CASE StartDestroy
  BY <1>26, StartDestroyDoes
<1>27. CASE CleanUi
  BY <1>27, CleanUiDoes
<1>28. CASE CleanEndpoint
  BY <1>28, CleanEndpointDoes
<1>29. CASE CleanParameter
  BY <1>29, CleanParameterDoes
<1>30. CASE CleanRecord
  BY <1>30, CleanRecordDoes
<1>31. CASE StripeCleanupFails
  BY <1>31, StripeCleanupFailsDoes
<1>32. CASE CleanCloud
  BY <1>32, CleanCloudDoes
<1>33. CASE DestroySucceeded
  BY <1>33, DestroySucceededDoes
<1>34. CASE VerifyDestroyed
  BY <1>34, VerifyDestroyedDoes
<1>35. CASE CleanLocal
  BY <1>35, CleanLocalDoes
<1>36. CASE CloseTeardown
  BY <1>36, CloseTeardownDoes
<1>37. CASE TeardownFails
  BY <1>37, TeardownFailsDoes
<1>38. ASSUME NEW p \in running, ProcessDies(p)
      PROVE  file'.tunnel # Undefined => file'.vendor # Undefined
  BY <1>38, ProcessDiesDoes
<1>39. ASSUME NEW r \in runs, RunStarts(r)
      PROVE  file'.tunnel # Undefined => file'.vendor # Undefined
  BY <1>39, RunStartsDoes
<1>40. ASSUME NEW r \in runs, RunSucceeds(r)
      PROVE  file'.tunnel # Undefined => file'.vendor # Undefined
  BY <1>40, RunSucceedsDoes
<1>41. ASSUME NEW r \in runs, RunFails(r)
      PROVE  file'.tunnel # Undefined => file'.vendor # Undefined
  BY <1>41, RunFailsDoes
<1>42. CASE UNCHANGED labVars
  BY <1>42 DEF labVars
<1> QED
  BY ONLY [LabNext]_labVars, <1>1, <1>2, <1>3, <1>4, <1>5, <1>6, <1>7, <1>8, <1>9, <1>10, <1>11,
       <1>12, <1>13, <1>14, <1>15, <1>16, <1>17, <1>18, <1>19, <1>20, <1>21, <1>22, <1>23, <1>24,
       <1>25, <1>26, <1>27, <1>28, <1>29, <1>30, <1>31, <1>32, <1>33, <1>34, <1>35, <1>36, <1>37,
       <1>38, <1>39, <1>40, <1>41, <1>42 DEF LabNext, Deploy, Teardown

\* A process has a number that was handed out.
LEMMA RunningNumbered ==
  ASSUME LabShape, [LabNext]_labVars
  PROVE  running' \subseteq Processes /\ \A q \in running' : q.pid \in 1..made'
<1> USE LabShapeTypes DEF LabShape, LabTypeOK, OwnProcesses, Processes, AwaitsRun, SupervisorTo,
     Continues, MovesTo, FileTo, CloudTo, StripeTo, SpentTo, SpentAsBefore, Left, ConcludedAs
<1>0. made' \in Nat /\ \A n \in 1..made : n \in 1..made' /\ made + 1 \in 1..(made + 1)
  BY FieldsKept
<1> USE <1>0
<1>1. CASE StartDeploy
  BY <1>1, StartDeployDoes
<1>2. CASE ChecksPass
  BY <1>2, ChecksPassDoes
<1>3. CASE ReuseBoundary
  BY <1>3, ReuseBoundaryDoes
<1>4. CASE ReplaceBoundary
  BY <1>4, ReplaceBoundaryDoes
<1>5. CASE StartTunnel
  BY <1>5, StartTunnelDoes
<1>6. CASE RecordTunnel
  BY <1>6, RecordTunnelDoes
<1>7. CASE AdoptPrepared
  BY <1>7, AdoptPreparedDoes
<1>8. CASE ReuseDeployed
  BY <1>8, ReuseDeployedDoes
<1>9. CASE DispatchPrepare
  BY <1>9, DispatchPrepareDoes
<1>10. CASE PrepareSucceeded
  BY <1>10, PrepareSucceededDoes
<1>11. CASE DispatchExecute
  BY <1>11, DispatchExecuteDoes
<1>12. CASE ExecuteSucceeded
  BY <1>12, ExecuteSucceededDoes
<1>13. CASE CreateEndpoint
  BY <1>13, CreateEndpointDoes
<1>14. CASE StoreSecret
  BY <1>14, StoreSecretDoes
<1>15. CASE RestartVendor
  BY <1>15, RestartVendorDoes
<1>16. CASE ReuseUi
  BY <1>16, ReuseUiDoes
<1>17. CASE StartUi
  BY <1>17, StartUiDoes
<1>18. CASE RecordUi
  BY <1>18, RecordUiDoes
<1>19. CASE Activate
  BY <1>19, ActivateDoes
<1>20. CASE StepFails
  BY <1>20, StepFailsDoes
<1>21. CASE ChecksFail
  BY <1>21, ChecksFailDoes
<1>22. CASE Interrupt
  BY <1>22, InterruptDoes
<1>23. CASE StopDeploying
  BY <1>23, StopDeployingDoes
<1>24. CASE SupervisorDies
  BY <1>24, SupervisorDiesDoes
<1>25. CASE EndDeploy
  BY <1>25, EndDeployDoes
<1>26. CASE StartDestroy
  BY <1>26, StartDestroyDoes
<1>27. CASE CleanUi
  BY <1>27, CleanUiDoes
<1>28. CASE CleanEndpoint
  BY <1>28, CleanEndpointDoes
<1>29. CASE CleanParameter
  BY <1>29, CleanParameterDoes
<1>30. CASE CleanRecord
  BY <1>30, CleanRecordDoes
<1>31. CASE StripeCleanupFails
  BY <1>31, StripeCleanupFailsDoes
<1>32. CASE CleanCloud
  BY <1>32, CleanCloudDoes
<1>33. CASE DestroySucceeded
  BY <1>33, DestroySucceededDoes
<1>34. CASE VerifyDestroyed
  BY <1>34, VerifyDestroyedDoes
<1>35. CASE CleanLocal
  BY <1>35, CleanLocalDoes
<1>36. CASE CloseTeardown
  BY <1>36, CloseTeardownDoes
<1>37. CASE TeardownFails
  BY <1>37, TeardownFailsDoes
<1>38. ASSUME NEW p \in running, ProcessDies(p)
      PROVE  running' \subseteq Processes /\ \A q \in running' : q.pid \in 1..made'
  BY <1>38, ProcessDiesDoes
<1>39. ASSUME NEW r \in runs, RunStarts(r)
      PROVE  running' \subseteq Processes /\ \A q \in running' : q.pid \in 1..made'
  BY <1>39, RunStartsDoes
<1>40. ASSUME NEW r \in runs, RunSucceeds(r)
      PROVE  running' \subseteq Processes /\ \A q \in running' : q.pid \in 1..made'
  BY <1>40, RunSucceedsDoes
<1>41. ASSUME NEW r \in runs, RunFails(r)
      PROVE  running' \subseteq Processes /\ \A q \in running' : q.pid \in 1..made'
  BY <1>41, RunFailsDoes
<1>42. CASE UNCHANGED labVars
  BY <1>42 DEF labVars
<1> QED
  BY ONLY [LabNext]_labVars, <1>1, <1>2, <1>3, <1>4, <1>5, <1>6, <1>7, <1>8, <1>9, <1>10, <1>11,
       <1>12, <1>13, <1>14, <1>15, <1>16, <1>17, <1>18, <1>19, <1>20, <1>21, <1>22, <1>23, <1>24,
       <1>25, <1>26, <1>27, <1>28, <1>29, <1>30, <1>31, <1>32, <1>33, <1>34, <1>35, <1>36, <1>37,
       <1>38, <1>39, <1>40, <1>41, <1>42 DEF LabNext, Deploy, Teardown

\* A run has a number that was handed out.
LEMMA RunsNumbered ==
  ASSUME LabShape, [LabNext]_labVars
  PROVE  runs' \subseteq GitHubRuns /\ \A q \in runs' : q.id \in 1..made'
<1> USE LabShapeTypes DEF LabShape, LabTypeOK, AwaitsRun, SupervisorTo, Continues, MovesTo,
     FileTo, CloudTo, StripeTo, SpentTo, SpentAsBefore, Left, ConcludedAs
<1>0. made' \in Nat /\ \A n \in 1..made : n \in 1..made' /\ made + 1 \in 1..(made + 1)
  BY FieldsKept
<1> USE <1>0
<1>1. CASE StartDeploy
  BY <1>1, StartDeployDoes
<1>2. CASE ChecksPass
  BY <1>2, ChecksPassDoes
<1>3. CASE ReuseBoundary
  BY <1>3, ReuseBoundaryDoes
<1>4. CASE ReplaceBoundary
  BY <1>4, ReplaceBoundaryDoes
<1>5. CASE StartTunnel
  BY <1>5, StartTunnelDoes
<1>6. CASE RecordTunnel
  BY <1>6, RecordTunnelDoes
<1>7. CASE AdoptPrepared
  BY <1>7, AdoptPreparedDoes
<1>8. CASE ReuseDeployed
  BY <1>8, ReuseDeployedDoes
<1>9. CASE DispatchPrepare
  BY <1>9, DispatchPrepareDoes
<1>10. CASE PrepareSucceeded
  BY <1>10, PrepareSucceededDoes
<1>11. CASE DispatchExecute
  BY <1>11, DispatchExecuteDoes
<1>12. CASE ExecuteSucceeded
  BY <1>12, ExecuteSucceededDoes
<1>13. CASE CreateEndpoint
  BY <1>13, CreateEndpointDoes
<1>14. CASE StoreSecret
  BY <1>14, StoreSecretDoes
<1>15. CASE RestartVendor
  BY <1>15, RestartVendorDoes
<1>16. CASE ReuseUi
  BY <1>16, ReuseUiDoes
<1>17. CASE StartUi
  BY <1>17, StartUiDoes
<1>18. CASE RecordUi
  BY <1>18, RecordUiDoes
<1>19. CASE Activate
  BY <1>19, ActivateDoes
<1>20. CASE StepFails
  BY <1>20, StepFailsDoes
<1>21. CASE ChecksFail
  BY <1>21, ChecksFailDoes
<1>22. CASE Interrupt
  BY <1>22, InterruptDoes
<1>23. CASE StopDeploying
  BY <1>23, StopDeployingDoes
<1>24. CASE SupervisorDies
  BY <1>24, SupervisorDiesDoes
<1>25. CASE EndDeploy
  BY <1>25, EndDeployDoes
<1>26. CASE StartDestroy
  BY <1>26, StartDestroyDoes
<1>27. CASE CleanUi
  BY <1>27, CleanUiDoes
<1>28. CASE CleanEndpoint
  BY <1>28, CleanEndpointDoes
<1>29. CASE CleanParameter
  BY <1>29, CleanParameterDoes
<1>30. CASE CleanRecord
  BY <1>30, CleanRecordDoes
<1>31. CASE StripeCleanupFails
  BY <1>31, StripeCleanupFailsDoes
<1>32. CASE CleanCloud
  BY <1>32, CleanCloudDoes
<1>33. CASE DestroySucceeded
  BY <1>33, DestroySucceededDoes
<1>34. CASE VerifyDestroyed
  BY <1>34, VerifyDestroyedDoes
<1>35. CASE CleanLocal
  BY <1>35, CleanLocalDoes
<1>36. CASE CloseTeardown
  BY <1>36, CloseTeardownDoes
<1>37. CASE TeardownFails
  BY <1>37, TeardownFailsDoes
<1>38. ASSUME NEW p \in running, ProcessDies(p)
      PROVE  runs' \subseteq GitHubRuns /\ \A q \in runs' : q.id \in 1..made'
  BY <1>38, ProcessDiesDoes
<1>39. ASSUME NEW r \in runs, RunStarts(r)
      PROVE  runs' \subseteq GitHubRuns /\ \A q \in runs' : q.id \in 1..made'
  BY <1>39, RunStartsDoes
<1>40. ASSUME NEW r \in runs, RunSucceeds(r)
      PROVE  runs' \subseteq GitHubRuns /\ \A q \in runs' : q.id \in 1..made'
  BY <1>40, RunSucceedsDoes
<1>41. ASSUME NEW r \in runs, RunFails(r)
      PROVE  runs' \subseteq GitHubRuns /\ \A q \in runs' : q.id \in 1..made'
  BY <1>41, RunFailsDoes
<1>42. CASE UNCHANGED labVars
  BY <1>42 DEF labVars
<1> QED
  BY ONLY [LabNext]_labVars, <1>1, <1>2, <1>3, <1>4, <1>5, <1>6, <1>7, <1>8, <1>9, <1>10, <1>11,
       <1>12, <1>13, <1>14, <1>15, <1>16, <1>17, <1>18, <1>19, <1>20, <1>21, <1>22, <1>23, <1>24,
       <1>25, <1>26, <1>27, <1>28, <1>29, <1>30, <1>31, <1>32, <1>33, <1>34, <1>35, <1>36, <1>37,
       <1>38, <1>39, <1>40, <1>41, <1>42 DEF LabNext, Deploy, Teardown

\* An endpoint has a number that was handed out, and the stored secret is one's.
LEMMA EndpointsNumbered ==
  ASSUME LabShape, [LabNext]_labVars
  PROVE  stripe'.endpoints \subseteq 1..made' /\ stripe'.parameter \in {Undefined} \cup 1..made'
<1> USE LabShapeTypes DEF LabShape, LabTypeOK, AtHand, At, AwaitsRun, SupervisorTo, Continues,
     MovesTo, FileTo, CloudTo, StripeTo, SpentTo, SpentAsBefore, Left, ConcludedAs
<1>0. made' \in Nat /\ \A n \in 1..made : n \in 1..made' /\ made + 1 \in 1..(made + 1)
  BY FieldsKept
<1> USE <1>0
<1>1. CASE StartDeploy
  BY <1>1, StartDeployDoes
<1>2. CASE ChecksPass
  BY <1>2, ChecksPassDoes
<1>3. CASE ReuseBoundary
  BY <1>3, ReuseBoundaryDoes
<1>4. CASE ReplaceBoundary
  BY <1>4, ReplaceBoundaryDoes
<1>5. CASE StartTunnel
  BY <1>5, StartTunnelDoes
<1>6. CASE RecordTunnel
  BY <1>6, RecordTunnelDoes
<1>7. CASE AdoptPrepared
  BY <1>7, AdoptPreparedDoes
<1>8. CASE ReuseDeployed
  BY <1>8, ReuseDeployedDoes
<1>9. CASE DispatchPrepare
  BY <1>9, DispatchPrepareDoes
<1>10. CASE PrepareSucceeded
  BY <1>10, PrepareSucceededDoes
<1>11. CASE DispatchExecute
  BY <1>11, DispatchExecuteDoes
<1>12. CASE ExecuteSucceeded
  BY <1>12, ExecuteSucceededDoes
<1>13. CASE CreateEndpoint
  BY <1>13, CreateEndpointDoes
<1>14. CASE StoreSecret
  BY <1>14, StoreSecretDoes
<1>15. CASE RestartVendor
  BY <1>15, RestartVendorDoes
<1>16. CASE ReuseUi
  BY <1>16, ReuseUiDoes
<1>17. CASE StartUi
  BY <1>17, StartUiDoes
<1>18. CASE RecordUi
  BY <1>18, RecordUiDoes
<1>19. CASE Activate
  BY <1>19, ActivateDoes
<1>20. CASE StepFails
  BY <1>20, StepFailsDoes
<1>21. CASE ChecksFail
  BY <1>21, ChecksFailDoes
<1>22. CASE Interrupt
  BY <1>22, InterruptDoes
<1>23. CASE StopDeploying
  BY <1>23, StopDeployingDoes
<1>24. CASE SupervisorDies
  BY <1>24, SupervisorDiesDoes
<1>25. CASE EndDeploy
  BY <1>25, EndDeployDoes
<1>26. CASE StartDestroy
  BY <1>26, StartDestroyDoes
<1>27. CASE CleanUi
  BY <1>27, CleanUiDoes
<1>28. CASE CleanEndpoint
  BY <1>28, CleanEndpointDoes
<1>29. CASE CleanParameter
  BY <1>29, CleanParameterDoes
<1>30. CASE CleanRecord
  BY <1>30, CleanRecordDoes
<1>31. CASE StripeCleanupFails
  BY <1>31, StripeCleanupFailsDoes
<1>32. CASE CleanCloud
  BY <1>32, CleanCloudDoes
<1>33. CASE DestroySucceeded
  BY <1>33, DestroySucceededDoes
<1>34. CASE VerifyDestroyed
  BY <1>34, VerifyDestroyedDoes
<1>35. CASE CleanLocal
  BY <1>35, CleanLocalDoes
<1>36. CASE CloseTeardown
  BY <1>36, CloseTeardownDoes
<1>37. CASE TeardownFails
  BY <1>37, TeardownFailsDoes
<1>38. ASSUME NEW p \in running, ProcessDies(p)
      PROVE  stripe'.endpoints \subseteq 1..made' /\ stripe'.parameter \in {Undefined} \cup 1..made'
  BY <1>38, ProcessDiesDoes
<1>39. ASSUME NEW r \in runs, RunStarts(r)
      PROVE  stripe'.endpoints \subseteq 1..made' /\ stripe'.parameter \in {Undefined} \cup 1..made'
  BY <1>39, RunStartsDoes
<1>40. ASSUME NEW r \in runs, RunSucceeds(r)
      PROVE  stripe'.endpoints \subseteq 1..made' /\ stripe'.parameter \in {Undefined} \cup 1..made'
  BY <1>40, RunSucceedsDoes
<1>41. ASSUME NEW r \in runs, RunFails(r)
      PROVE  stripe'.endpoints \subseteq 1..made' /\ stripe'.parameter \in {Undefined} \cup 1..made'
  BY <1>41, RunFailsDoes
<1>42. CASE UNCHANGED labVars
  BY <1>42 DEF labVars
<1> QED
  BY ONLY [LabNext]_labVars, <1>1, <1>2, <1>3, <1>4, <1>5, <1>6, <1>7, <1>8, <1>9, <1>10, <1>11,
       <1>12, <1>13, <1>14, <1>15, <1>16, <1>17, <1>18, <1>19, <1>20, <1>21, <1>22, <1>23, <1>24,
       <1>25, <1>26, <1>27, <1>28, <1>29, <1>30, <1>31, <1>32, <1>33, <1>34, <1>35, <1>36, <1>37,
       <1>38, <1>39, <1>40, <1>41, <1>42 DEF LabNext, Deploy, Teardown

\* At most one run is at work, and one that executes has what it executes.
LEMMA RunsSerialised ==
  ASSUME LabShape, [LabNext]_labVars
  PROVE  /\ \A x, y \in runs' : x.status = "running" /\ y.status = "running" => x = y
         /\ \A x \in runs' : x.operation = "execute" =>
              x.set # Undefined /\ (x.status = "running" => cloud'.stack # Undefined)
<1> USE LabShapeTypes, NothingMadeIsUndefined DEF LabShape, AtHand, Serialised, AwaitsRun,
     SupervisorTo, Continues, MovesTo, FileTo, CloudTo, StripeTo, SpentTo, SpentAsBefore, Left,
     ConcludedAs
<1>1. CASE StartDeploy
  BY <1>1, StartDeployDoes
<1>2. CASE ChecksPass
  BY <1>2, ChecksPassDoes
<1>3. CASE ReuseBoundary
  BY <1>3, ReuseBoundaryDoes
<1>4. CASE ReplaceBoundary
  BY <1>4, ReplaceBoundaryDoes
<1>5. CASE StartTunnel
  BY <1>5, StartTunnelDoes
<1>6. CASE RecordTunnel
  BY <1>6, RecordTunnelDoes
<1>7. CASE AdoptPrepared
  BY <1>7, AdoptPreparedDoes
<1>8. CASE ReuseDeployed
  BY <1>8, ReuseDeployedDoes
<1>9. CASE DispatchPrepare
  BY <1>9, DispatchPrepareDoes
<1>10. CASE PrepareSucceeded
  BY <1>10, PrepareSucceededDoes
<1>11. CASE DispatchExecute
  BY <1>11, DispatchExecuteDoes
<1>12. CASE ExecuteSucceeded
  BY <1>12, ExecuteSucceededDoes
<1>13. CASE CreateEndpoint
  BY <1>13, CreateEndpointDoes
<1>14. CASE StoreSecret
  BY <1>14, StoreSecretDoes
<1>15. CASE RestartVendor
  BY <1>15, RestartVendorDoes
<1>16. CASE ReuseUi
  BY <1>16, ReuseUiDoes
<1>17. CASE StartUi
  BY <1>17, StartUiDoes
<1>18. CASE RecordUi
  BY <1>18, RecordUiDoes
<1>19. CASE Activate
  BY <1>19, ActivateDoes
<1>20. CASE StepFails
  BY <1>20, StepFailsDoes
<1>21. CASE ChecksFail
  BY <1>21, ChecksFailDoes
<1>22. CASE Interrupt
  BY <1>22, InterruptDoes
<1>23. CASE StopDeploying
  BY <1>23, StopDeployingDoes
<1>24. CASE SupervisorDies
  BY <1>24, SupervisorDiesDoes
<1>25. CASE EndDeploy
  BY <1>25, EndDeployDoes
<1>26. CASE StartDestroy
  BY <1>26, StartDestroyDoes
<1>27. CASE CleanUi
  BY <1>27, CleanUiDoes
<1>28. CASE CleanEndpoint
  BY <1>28, CleanEndpointDoes
<1>29. CASE CleanParameter
  BY <1>29, CleanParameterDoes
<1>30. CASE CleanRecord
  BY <1>30, CleanRecordDoes
<1>31. CASE StripeCleanupFails
  BY <1>31, StripeCleanupFailsDoes
<1>32. CASE CleanCloud
  BY <1>32, CleanCloudDoes
<1>33. CASE DestroySucceeded
  BY <1>33, DestroySucceededDoes
<1>34. CASE VerifyDestroyed
  BY <1>34, VerifyDestroyedDoes
<1>35. CASE CleanLocal
  BY <1>35, CleanLocalDoes
<1>36. CASE CloseTeardown
  BY <1>36, CloseTeardownDoes
<1>37. CASE TeardownFails
  BY <1>37, TeardownFailsDoes
<1>38. ASSUME NEW p \in running, ProcessDies(p)
      PROVE  /\ \A x, y \in runs' : x.status = "running" /\ y.status = "running" => x = y
             /\ \A x \in runs' : x.operation = "execute" =>
                  x.set # Undefined /\ (x.status = "running" => cloud'.stack # Undefined)
  BY <1>38, ProcessDiesDoes, RunsOperate DEF Prepares, Executes, StackTurns
<1>39. ASSUME NEW r \in runs, RunStarts(r)
      PROVE  /\ \A x, y \in runs' : x.status = "running" /\ y.status = "running" => x = y
             /\ \A x \in runs' : x.operation = "execute" =>
                  x.set # Undefined /\ (x.status = "running" => cloud'.stack # Undefined)
  BY <1>39, RunStartsDoes, RunsOperate DEF Prepares, Executes, StackTurns
<1>40. ASSUME NEW r \in runs, RunSucceeds(r)
      PROVE  /\ \A x, y \in runs' : x.status = "running" /\ y.status = "running" => x = y
             /\ \A x \in runs' : x.operation = "execute" =>
                  x.set # Undefined /\ (x.status = "running" => cloud'.stack # Undefined)
  <2>1. runs' = runs \ {r} /\ r.status = "running"
    BY <1>40, RunSucceedsDoes
  <2>2. \A s \in runs' : s.status # "running"
    BY <2>1
  <2> QED
    BY <2>1, <2>2
<1>41. ASSUME NEW r \in runs, RunFails(r)
      PROVE  /\ \A x, y \in runs' : x.status = "running" /\ y.status = "running" => x = y
             /\ \A x \in runs' : x.operation = "execute" =>
                  x.set # Undefined /\ (x.status = "running" => cloud'.stack # Undefined)
  BY <1>41, RunFailsDoes, RunsOperate DEF Prepares, Executes, StackTurns
<1>42. CASE UNCHANGED labVars
  BY <1>42 DEF labVars
<1> QED
  BY ONLY [LabNext]_labVars, <1>1, <1>2, <1>3, <1>4, <1>5, <1>6, <1>7, <1>8, <1>9, <1>10, <1>11,
       <1>12, <1>13, <1>14, <1>15, <1>16, <1>17, <1>18, <1>19, <1>20, <1>21, <1>22, <1>23, <1>24,
       <1>25, <1>26, <1>27, <1>28, <1>29, <1>30, <1>31, <1>32, <1>33, <1>34, <1>35, <1>36, <1>37,
       <1>38, <1>39, <1>40, <1>41, <1>42 DEF LabNext, Deploy, Teardown

\* Change sets are of a stack, and a stack that is complete has an address.
LEMMA CloudInOrder ==
  ASSUME LabShape, [LabNext]_labVars
  PROVE  /\ cloud'.sets # {} => cloud'.stack # Undefined
         /\ \A s \in cloud'.sets : s.run <= made'
         /\ cloud'.stack # Undefined =>
              (cloud'.stack.status = "complete" => cloud'.stack.api # Undefined)
<1> USE LabShapeTypes, NothingMadeIsUndefined DEF LabShape, Serialised, AwaitsRun, SupervisorTo,
     Continues, MovesTo, FileTo, CloudTo, StripeTo, SpentTo, SpentAsBefore, Left, ConcludedAs
<1>0. made' \in Nat /\ \A s \in cloud.sets : s.run <= made'
  BY FieldsKept DEF LabShape, Serialised, Clouds, ChangeSets
<1> USE <1>0
<1>1. CASE StartDeploy
  BY <1>1, StartDeployDoes
<1>2. CASE ChecksPass
  BY <1>2, ChecksPassDoes
<1>3. CASE ReuseBoundary
  BY <1>3, ReuseBoundaryDoes
<1>4. CASE ReplaceBoundary
  BY <1>4, ReplaceBoundaryDoes
<1>5. CASE StartTunnel
  BY <1>5, StartTunnelDoes
<1>6. CASE RecordTunnel
  BY <1>6, RecordTunnelDoes
<1>7. CASE AdoptPrepared
  BY <1>7, AdoptPreparedDoes
<1>8. CASE ReuseDeployed
  BY <1>8, ReuseDeployedDoes
<1>9. CASE DispatchPrepare
  BY <1>9, DispatchPrepareDoes
<1>10. CASE PrepareSucceeded
  BY <1>10, PrepareSucceededDoes
<1>11. CASE DispatchExecute
  BY <1>11, DispatchExecuteDoes
<1>12. CASE ExecuteSucceeded
  BY <1>12, ExecuteSucceededDoes
<1>13. CASE CreateEndpoint
  BY <1>13, CreateEndpointDoes
<1>14. CASE StoreSecret
  BY <1>14, StoreSecretDoes
<1>15. CASE RestartVendor
  BY <1>15, RestartVendorDoes
<1>16. CASE ReuseUi
  BY <1>16, ReuseUiDoes
<1>17. CASE StartUi
  BY <1>17, StartUiDoes
<1>18. CASE RecordUi
  BY <1>18, RecordUiDoes
<1>19. CASE Activate
  BY <1>19, ActivateDoes
<1>20. CASE StepFails
  BY <1>20, StepFailsDoes
<1>21. CASE ChecksFail
  BY <1>21, ChecksFailDoes
<1>22. CASE Interrupt
  BY <1>22, InterruptDoes
<1>23. CASE StopDeploying
  BY <1>23, StopDeployingDoes
<1>24. CASE SupervisorDies
  BY <1>24, SupervisorDiesDoes
<1>25. CASE EndDeploy
  BY <1>25, EndDeployDoes
<1>26. CASE StartDestroy
  BY <1>26, StartDestroyDoes
<1>27. CASE CleanUi
  BY <1>27, CleanUiDoes
<1>28. CASE CleanEndpoint
  BY <1>28, CleanEndpointDoes
<1>29. CASE CleanParameter
  BY <1>29, CleanParameterDoes
<1>30. CASE CleanRecord
  BY <1>30, CleanRecordDoes
<1>31. CASE StripeCleanupFails
  BY <1>31, StripeCleanupFailsDoes
<1>32. CASE CleanCloud
  BY <1>32, CleanCloudDoes
<1>33. CASE DestroySucceeded
  BY <1>33, DestroySucceededDoes
<1>34. CASE VerifyDestroyed
  BY <1>34, VerifyDestroyedDoes
<1>35. CASE CleanLocal
  BY <1>35, CleanLocalDoes
<1>36. CASE CloseTeardown
  BY <1>36, CloseTeardownDoes
<1>37. CASE TeardownFails
  BY <1>37, TeardownFailsDoes
<1>38. ASSUME NEW p \in running, ProcessDies(p)
      PROVE  /\ cloud'.sets # {} => cloud'.stack # Undefined
             /\ \A s \in cloud'.sets : s.run <= made'
             /\ cloud'.stack # Undefined =>
                  (cloud'.stack.status = "complete" => cloud'.stack.api # Undefined)
  BY <1>38, ProcessDiesDoes, RunsOperate DEF Prepares, Executes, StackTurns, NoStack, LabTypeOK
<1>39. ASSUME NEW r \in runs, RunStarts(r)
      PROVE  /\ cloud'.sets # {} => cloud'.stack # Undefined
             /\ \A s \in cloud'.sets : s.run <= made'
             /\ cloud'.stack # Undefined =>
                  (cloud'.stack.status = "complete" => cloud'.stack.api # Undefined)
  BY <1>39, RunStartsDoes, RunsOperate DEF Prepares, Executes, StackTurns, NoStack, LabTypeOK
<1>40. ASSUME NEW r \in runs, RunSucceeds(r)
      PROVE  /\ cloud'.sets # {} => cloud'.stack # Undefined
             /\ \A s \in cloud'.sets : s.run <= made'
             /\ cloud'.stack # Undefined =>
                  (cloud'.stack.status = "complete" => cloud'.stack.api # Undefined)
  <2>1. r.id \in Nat /\ r.id <= made' /\ r.id # Undefined
    BY <1>40, RunSucceedsDoes, RunsOperate
  <2>2. CASE r.operation = "prepare"
    <3>1. PICK s \in ChangeSets, t \in Stacks :
            /\ s.run = r.id
            /\ t = IF cloud.stack = Undefined THEN NoStack ELSE cloud.stack
            /\ CloudTo(t, cloud.sets \cup {s}, TRUE, cloud.secret)
      BY <1>40, <2>2, RunSucceedsDoes DEF Prepares
    <3>2. t.status = "complete" => t.api # Undefined
      BY <3>1 DEF NoStack
    <3> QED
      BY <2>1, <3>1, <3>2
  <2>3. CASE r.operation = "execute"
    <3>1. CASE Executes(r)
      BY <2>1, <3>1 DEF Executes
    <3>2. CASE StackTurns({IF cloud.stack.api = Undefined THEN "failed" ELSE "complete"})
      BY <3>2 DEF StackTurns
    <3> QED
      BY <1>40, <2>3, <3>1, <3>2, RunSucceedsDoes
  <2>4. CASE r.operation = "destroy"
    BY <1>40, <2>4, RunSucceedsDoes
  <2> QED
    BY <2>2, <2>3, <2>4, RunsOperate
<1>41. ASSUME NEW r \in runs, RunFails(r)
      PROVE  /\ cloud'.sets # {} => cloud'.stack # Undefined
             /\ \A s \in cloud'.sets : s.run <= made'
             /\ cloud'.stack # Undefined =>
                  (cloud'.stack.status = "complete" => cloud'.stack.api # Undefined)
  <2>1. r.id \in Nat /\ r.id <= made' /\ r.id # Undefined
    BY <1>41, RunFailsDoes, RunsOperate
  <2>2. CASE r.operation = "prepare"
    BY <1>41, <2>2, RunFailsDoes
  <2>3. CASE r.operation = "execute"
    <3>1. CASE Executes(r)
      BY <2>1, <3>1 DEF Executes
    <3>2. CASE StackTurns({IF cloud.stack.api = Undefined THEN "failed" ELSE "complete"})
      BY <3>2 DEF StackTurns
    <3> QED
      BY <1>41, <2>3, <3>1, <3>2, RunFailsDoes
  <2>4. CASE r.operation = "destroy"
    BY <1>41, <2>4, RunFailsDoes
  <2> QED
    BY <2>2, <2>3, <2>4, RunsOperate
<1>42. CASE UNCHANGED labVars
  BY <1>42 DEF labVars
<1> QED
  BY ONLY [LabNext]_labVars, <1>1, <1>2, <1>3, <1>4, <1>5, <1>6, <1>7, <1>8, <1>9, <1>10, <1>11,
       <1>12, <1>13, <1>14, <1>15, <1>16, <1>17, <1>18, <1>19, <1>20, <1>21, <1>22, <1>23, <1>24,
       <1>25, <1>26, <1>27, <1>28, <1>29, <1>30, <1>31, <1>32, <1>33, <1>34, <1>35, <1>36, <1>37,
       <1>38, <1>39, <1>40, <1>41, <1>42 DEF LabNext, Deploy, Teardown

\* What the lab's own command does not see of a run's step.
LEMMA RunStepDoes ==
  ASSUME LabShape, NEW r \in runs, RunStarts(r) \/ RunSucceeds(r) \/ RunFails(r)
  PROVE  /\ supervisor' \in Supervisors
         /\ supervisor'.at = supervisor.at /\ supervisor'.run = supervisor.run
         /\ supervisor'.set = supervisor.set /\ supervisor'.api = supervisor.api
         /\ supervisor'.errors = supervisor.errors /\ supervisor'.started = supervisor.started
         /\ UNCHANGED <<file, running, secret, stripe, made>>
         /\ SpentAsBefore
<1>1. CASE RunStarts(r)
  BY <1>1, RunStartsDoes, LabShapeTypes DEF ConcludedAs, SupervisorTo, SpentAsBefore, SpentTo
<1>2. CASE RunSucceeds(r)
  BY <1>2, RunSucceedsDoes, LabShapeTypes DEF ConcludedAs, SupervisorTo, SpentAsBefore, SpentTo
<1>3. CASE RunFails(r)
  BY <1>3, RunFailsDoes DEF ConcludedAs, SupervisorTo
<1> QED
  BY <1>1, <1>2, <1>3

\* Every step keeps the shape.
LEMMA LabShapeKept ==
  ASSUME LabShape, [LabNext]_labVars
  PROVE  LabShape'
<1>1. LabTypeOK'
  BY FieldsKept, TunnelsHaveVendors, RunningNumbered, RunsNumbered, EndpointsNumbered DEF LabTypeOK
<1>2. Serialised'
  BY RunsSerialised, CloudInOrder DEF Serialised
<1> QED
  BY ONLY <1>1, <1>2, AtHandKept, LabShape, [LabNext]_labVars DEF LabShape

\* The lab begins in shape.
LEMMA LabShapeInit ==
  ASSUME LabInit
  PROVE  LabShape
<1> USE LabConstants DEF LabInit
<1>1. file \in Files /\ file.phase = "absent" /\ file.tunnel = Undefined /\ file.vendor = Undefined
  BY DEF Empty, Files, Identifier, OptionalCommit
<1>2. /\ supervisor \in Supervisors /\ supervisor.at = "off" /\ supervisor.started = Undefined
  BY DEF Off, Supervisors, Identifier, OptionalCommit
<1>3. cloud \in Clouds /\ stripe \in Stripes /\ spent \in Spendings /\ secret \in Identifier
  BY DEF Clouds, Stripes, Spendings, Identifier
<1>4. LabTypeOK
  BY <1>1, <1>2, <1>3 DEF LabTypeOK
<1>5. AtHand
  BY <1>1, <1>2 DEF AtHand, Routed, Built, At
<1>6. Serialised
  BY DEF Serialised
<1> QED
  BY <1>4, <1>5, <1>6 DEF LabShape

\* Every variable of the lab keeps the shape the commands give it, and every
\* identifier in use was handed out.
THEOREM LabTypesKept == LabSpec => []LabTypeOK
<1>1. LabSpec => []LabShape
  BY LabShapeInit, LabShapeKept, PTL DEF LabSpec
<1>2. LabShape => LabTypeOK
  BY DEF LabShape
<1> QED
  BY <1>1, <1>2, PTL

(***************************************************************************)
(* The webhook secret at Stripe.                                           *)
(***************************************************************************)

\* A stored secret is covered by the record of its endpoint; where the teardown
\* has passed them, both are gone.
SecretCovered ==
  /\ SecretIsRecoverable
  /\ At("cleanRecord") => stripe.parameter = Undefined
  /\ supervisor.at \in {"cleanCloud", "destroying", "verifying", "cleanLocal", "closing"}
       /\ ~supervisor.errors => file.endpoint = Undefined

\* No step uncovers the secret.
LEMMA SecretCoveredKept ==
  ASSUME LabShape, SecretCovered, [LabNext]_labVars
  PROVE  SecretCovered'
<1> USE LabShapeTypes, NothingMadeIsUndefined DEF LabShape, SecretCovered, SecretIsRecoverable,
     At, AwaitsRun, SupervisorTo, Continues, MovesTo, FileTo, CloudTo, StripeTo, SpentTo,
     SpentAsBefore, Left, ConcludedAs
<1>1. CASE StartDeploy
  BY <1>1, StartDeployDoes
<1>2. CASE ChecksPass
  BY <1>2, ChecksPassDoes
<1>3. CASE ReuseBoundary
  BY <1>3, ReuseBoundaryDoes
<1>4. CASE ReplaceBoundary
  BY <1>4, ReplaceBoundaryDoes
<1>5. CASE StartTunnel
  BY <1>5, StartTunnelDoes
<1>6. CASE RecordTunnel
  BY <1>6, RecordTunnelDoes
<1>7. CASE AdoptPrepared
  BY <1>7, AdoptPreparedDoes
<1>8. CASE ReuseDeployed
  BY <1>8, ReuseDeployedDoes
<1>9. CASE DispatchPrepare
  BY <1>9, DispatchPrepareDoes
<1>10. CASE PrepareSucceeded
  BY <1>10, PrepareSucceededDoes
<1>11. CASE DispatchExecute
  BY <1>11, DispatchExecuteDoes
<1>12. CASE ExecuteSucceeded
  BY <1>12, ExecuteSucceededDoes
<1>13. CASE CreateEndpoint
  BY <1>13, CreateEndpointDoes
<1>14. CASE StoreSecret
  BY <1>14, StoreSecretDoes
<1>15. CASE RestartVendor
  BY <1>15, RestartVendorDoes
<1>16. CASE ReuseUi
  BY <1>16, ReuseUiDoes
<1>17. CASE StartUi
  BY <1>17, StartUiDoes
<1>18. CASE RecordUi
  BY <1>18, RecordUiDoes
<1>19. CASE Activate
  BY <1>19, ActivateDoes
<1>20. CASE StepFails
  BY <1>20, StepFailsDoes
<1>21. CASE ChecksFail
  BY <1>21, ChecksFailDoes DEF Off
<1>22. CASE Interrupt
  BY <1>22, InterruptDoes
<1>23. CASE StopDeploying
  BY <1>23, StopDeployingDoes
<1>24. CASE SupervisorDies
  BY <1>24, SupervisorDiesDoes DEF Off
<1>25. CASE EndDeploy
  BY <1>25, EndDeployDoes DEF Off
<1>26. CASE StartDestroy
  BY <1>26, StartDestroyDoes
<1>27. CASE CleanUi
  BY <1>27, CleanUiDoes
<1>28. CASE CleanEndpoint
  BY <1>28, CleanEndpointDoes
<1>29. CASE CleanParameter
  BY <1>29, CleanParameterDoes
<1>30. CASE CleanRecord
  BY <1>30, CleanRecordDoes
<1>31. CASE StripeCleanupFails
  BY <1>31, StripeCleanupFailsDoes
<1>32. CASE CleanCloud
  BY <1>32, CleanCloudDoes
<1>33. CASE DestroySucceeded
  BY <1>33, DestroySucceededDoes
<1>34. CASE VerifyDestroyed
  BY <1>34, VerifyDestroyedDoes
<1>35. CASE CleanLocal
  BY <1>35, CleanLocalDoes
<1>36. CASE CloseTeardown
  BY <1>36, CloseTeardownDoes DEF Off
<1>37. CASE TeardownFails
  BY <1>37, TeardownFailsDoes DEF Off
<1>38. ASSUME NEW p \in running, ProcessDies(p)
      PROVE  SecretCovered'
  BY <1>38, ProcessDiesDoes
<1>39. ASSUME NEW r \in runs, RunStarts(r)
      PROVE  SecretCovered'
  BY <1>39, RunStepDoes
<1>40. ASSUME NEW r \in runs, RunSucceeds(r)
      PROVE  SecretCovered'
  BY <1>40, RunStepDoes
<1>41. ASSUME NEW r \in runs, RunFails(r)
      PROVE  SecretCovered'
  BY <1>41, RunStepDoes
<1>42. CASE UNCHANGED labVars
  BY <1>42 DEF labVars
<1> QED
  BY ONLY [LabNext]_labVars, <1>1, <1>2, <1>3, <1>4, <1>5, <1>6, <1>7, <1>8, <1>9, <1>10, <1>11,
       <1>12, <1>13, <1>14, <1>15, <1>16, <1>17, <1>18, <1>19, <1>20, <1>21, <1>22, <1>23, <1>24,
       <1>25, <1>26, <1>27, <1>28, <1>29, <1>30, <1>31, <1>32, <1>33, <1>34, <1>35, <1>36, <1>37,
       <1>38, <1>39, <1>40, <1>41, <1>42 DEF LabNext, Deploy, Teardown

\* Wherever the supervisor dies or a step fails, the stored webhook secret is
\* covered by the record that makes a later teardown delete it.
THEOREM SecretStaysRecoverable == LabSpec => []SecretIsRecoverable
<1>1. LabInit => SecretCovered
  BY DEF LabInit, Off, SecretCovered, SecretIsRecoverable, At
<1>2. LabSpec => [](LabShape /\ SecretCovered)
  BY <1>1, LabShapeInit, LabShapeKept, SecretCoveredKept, PTL DEF LabSpec
<1>3. SecretCovered => SecretIsRecoverable
  BY DEF SecretCovered
<1> QED
  BY <1>2, <1>3, PTL

(***************************************************************************)
(* The runs that are awaited, and what is gone after a teardown.           *)
(***************************************************************************)

\* Unless a run was abandoned, the runs that go on are the one run the
\* supervisor waits for.
AwaitedOperation == [preparing |-> "prepare", executing |-> "execute", destroying |-> "destroy"]
Awaiting         == {"preparing", "executing", "destroying"}

OnlyAwaitedRuns ==
  \A r \in runs :
    /\ supervisor.at \in Awaiting /\ r.operation = AwaitedOperation[supervisor.at]
    /\ r.id = supervisor.run /\ supervisor.ended = Undefined
    /\ \A s \in runs : s = r
    /\ At("preparing") => r.url = Url
    /\ At("executing") => r.set = supervisor.set

RunsAwaited == ~spent.abandoned => OnlyAwaitedRuns

\* A run is awaited until it ends, or else abandoned.
LEMMA RunsAwaitedKept ==
  ASSUME LabShape, RunsAwaited, [LabNext]_labVars
  PROVE  RunsAwaited'
<1> USE LabShapeTypes, NothingMadeIsUndefined DEF LabShape, RunsAwaited, OnlyAwaitedRuns,
     Awaiting, AwaitedOperation, At, Url, AwaitsRun, SupervisorTo, Continues, MovesTo, FileTo,
     CloudTo, StripeTo, SpentTo, SpentAsBefore, Left, ConcludedAs
<1>1. CASE StartDeploy
  BY <1>1, StartDeployDoes
<1>2. CASE ChecksPass
  BY <1>2, ChecksPassDoes
<1>3. CASE ReuseBoundary
  BY <1>3, ReuseBoundaryDoes
<1>4. CASE ReplaceBoundary
  BY <1>4, ReplaceBoundaryDoes
<1>5. CASE StartTunnel
  BY <1>5, StartTunnelDoes
<1>6. CASE RecordTunnel
  BY <1>6, RecordTunnelDoes
<1>7. CASE AdoptPrepared
  BY <1>7, AdoptPreparedDoes
<1>8. CASE ReuseDeployed
  BY <1>8, ReuseDeployedDoes
<1>9. CASE DispatchPrepare
  <2>1. CASE spent.abandoned
    BY <1>9, <2>1, DispatchPrepareDoes
  <2>2. CASE ~spent.abandoned
    <3>1. runs = {} /\ UNCHANGED spent /\ UNCHANGED file
      BY <1>9, <2>2, DispatchPrepareDoes
    <3>2. AwaitsRun("prepare", Url, Undefined, "preparing")
      BY <1>9, DispatchPrepareDoes
    <3> QED
      BY <3>1, <3>2
  <2> QED
    BY <2>1, <2>2
<1>10. CASE PrepareSucceeded
  BY <1>10, PrepareSucceededDoes, LabConstants
<1>11. CASE DispatchExecute
  <2>1. CASE spent.abandoned
    BY <1>11, <2>1, DispatchExecuteDoes
  <2>2. CASE ~spent.abandoned
    <3>1. runs = {} /\ UNCHANGED spent /\ UNCHANGED file
      BY <1>11, <2>2, DispatchExecuteDoes
    <3>2. AwaitsRun("execute", Undefined, supervisor.set, "executing")
      BY <1>11, DispatchExecuteDoes
    <3> QED
      BY <3>1, <3>2
  <2> QED
    BY <2>1, <2>2
<1>12. CASE ExecuteSucceeded
  BY <1>12, ExecuteSucceededDoes, LabConstants
<1>13. CASE CreateEndpoint
  BY <1>13, CreateEndpointDoes
<1>14. CASE StoreSecret
  BY <1>14, StoreSecretDoes
<1>15. CASE RestartVendor
  BY <1>15, RestartVendorDoes
<1>16. CASE ReuseUi
  BY <1>16, ReuseUiDoes
<1>17. CASE StartUi
  BY <1>17, StartUiDoes
<1>18. CASE RecordUi
  BY <1>18, RecordUiDoes
<1>19. CASE Activate
  BY <1>19, ActivateDoes
<1>20. CASE StepFails
  BY <1>20, StepFailsDoes
<1>21. CASE ChecksFail
  BY <1>21, ChecksFailDoes DEF Off
<1>22. CASE Interrupt
  BY <1>22, InterruptDoes
<1>23. CASE StopDeploying
  BY <1>23, StopDeployingDoes
<1>24. CASE SupervisorDies
  BY <1>24, SupervisorDiesDoes DEF Off
<1>25. CASE EndDeploy
  BY <1>25, EndDeployDoes DEF Off
<1>26. CASE StartDestroy
  BY <1>26, StartDestroyDoes
<1>27. CASE CleanUi
  BY <1>27, CleanUiDoes
<1>28. CASE CleanEndpoint
  BY <1>28, CleanEndpointDoes
<1>29. CASE CleanParameter
  BY <1>29, CleanParameterDoes
<1>30. CASE CleanRecord
  BY <1>30, CleanRecordDoes
<1>31. CASE StripeCleanupFails
  BY <1>31, StripeCleanupFailsDoes
<1>32. CASE CleanCloud
  <2>1. CASE spent.abandoned
    BY <1>32, <2>1, CleanCloudDoes
  <2>2. CASE ~spent.abandoned
    <3>1. runs = {} /\ UNCHANGED spent /\ UNCHANGED file
      BY <1>32, <2>2, CleanCloudDoes
    <3>2. CASE UNCHANGED <<runs, made>>
      BY <3>1, <3>2
    <3>3. CASE AwaitsRun("destroy", Undefined, Undefined, "destroying")
      BY <3>1, <3>3
    <3> QED
      BY <1>32, <3>2, <3>3, CleanCloudDoes
  <2> QED
    BY <2>1, <2>2
<1>33. CASE DestroySucceeded
  BY <1>33, DestroySucceededDoes, LabConstants
<1>34. CASE VerifyDestroyed
  BY <1>34, VerifyDestroyedDoes
<1>35. CASE CleanLocal
  BY <1>35, CleanLocalDoes
<1>36. CASE CloseTeardown
  BY <1>36, CloseTeardownDoes DEF Off
<1>37. CASE TeardownFails
  BY <1>37, TeardownFailsDoes DEF Off
<1>38. ASSUME NEW p \in running, ProcessDies(p)
      PROVE  RunsAwaited'
  BY <1>38, ProcessDiesDoes
<1>39. ASSUME NEW r \in runs, RunStarts(r)
      PROVE  RunsAwaited'
  <2>1. UNCHANGED <<file, spent>>
    BY <1>39, RunStartsDoes
  <2>2. CASE spent.abandoned
    BY <2>1, <2>2
  <2>3. CASE runs' = runs \ {r} /\ ~spent.abandoned
    BY <2>1, <2>3
  <2>4. CASE /\ ~spent.abandoned /\ UNCHANGED supervisor
             /\ \E q \in GitHubRuns :
                  /\ q.id = r.id /\ q.operation = r.operation /\ q.url = r.url
                  /\ q.set = r.set /\ q.status = "running"
                  /\ runs' = (runs \ {r}) \cup {q}
    BY <2>1, <2>4
  <2> QED
    BY <1>39, <2>2, <2>3, <2>4, RunStartsDoes
<1>40. ASSUME NEW r \in runs, RunSucceeds(r)
      PROVE  RunsAwaited'
  <2>1. /\ UNCHANGED <<file, running, secret, stripe, made>>
        /\ spent'.abandoned = spent.abandoned /\ runs' = runs \ {r}
    BY <1>40, RunStepDoes, RunSucceedsDoes
  <2>2. CASE spent.abandoned
    BY <2>1, <2>2
  <2>3. CASE ~spent.abandoned
    BY <2>1, <2>3
  <2> QED
    BY <2>2, <2>3
<1>41. ASSUME NEW r \in runs, RunFails(r)
      PROVE  RunsAwaited'
  <2>1. /\ UNCHANGED <<file, running, secret, stripe, made>>
        /\ spent'.abandoned = spent.abandoned /\ runs' = runs \ {r}
    BY <1>41, RunStepDoes, RunFailsDoes
  <2>2. CASE spent.abandoned
    BY <2>1, <2>2
  <2>3. CASE ~spent.abandoned
    BY <2>1, <2>3
  <2> QED
    BY <2>2, <2>3
<1>42. CASE UNCHANGED labVars
  BY <1>42 DEF labVars
<1> QED
  BY ONLY [LabNext]_labVars, <1>1, <1>2, <1>3, <1>4, <1>5, <1>6, <1>7, <1>8, <1>9, <1>10, <1>11,
       <1>12, <1>13, <1>14, <1>15, <1>16, <1>17, <1>18, <1>19, <1>20, <1>21, <1>22, <1>23, <1>24,
       <1>25, <1>26, <1>27, <1>28, <1>29, <1>30, <1>31, <1>32, <1>33, <1>34, <1>35, <1>36, <1>37,
       <1>38, <1>39, <1>40, <1>41, <1>42 DEF LabNext, Deploy, Teardown

\* Unless a run was abandoned, the file says destroyed only of a cloud that is
\* gone, and no run is dispatched before the next deployment.
GoneForGood ==
  ~spent.abandoned =>
    /\ supervisor.at \in {"cleanLocal", "closing"} => CloudIsGone
    /\ file.phase = "destroyed" =>
         /\ CloudIsGone
         /\ supervisor.at \in {"off", "checking", "boundary", "vendor", "tunnel", "ending"}
                               \cup (TeardownSteps \ {"destroying"})

\* What is gone stays gone until the next deployment.
LEMMA GoneForGoodKept ==
  ASSUME LabShape, RunsAwaited, GoneForGood, [LabNext]_labVars
  PROVE  GoneForGood'
<1> USE LabShapeTypes DEF GoneForGood, CloudIsGone, TeardownSteps, AwaitsRun, SupervisorTo,
     Continues, MovesTo, FileTo, CloudTo, StripeTo, SpentTo, SpentAsBefore, Left, ConcludedAs
<1>1. CASE StartDeploy
  BY <1>1, StartDeployDoes
<1>2. CASE ChecksPass
  BY <1>2, ChecksPassDoes
<1>3. CASE ReuseBoundary
  BY <1>3, ReuseBoundaryDoes
<1>4. CASE ReplaceBoundary
  BY <1>4, ReplaceBoundaryDoes
<1>5. CASE StartTunnel
  BY <1>5, StartTunnelDoes
<1>6. CASE RecordTunnel
  BY <1>6, RecordTunnelDoes
<1>7. CASE AdoptPrepared
  BY <1>7, AdoptPreparedDoes
<1>8. CASE ReuseDeployed
  BY <1>8, ReuseDeployedDoes
<1>9. CASE DispatchPrepare
  BY <1>9, DispatchPrepareDoes
<1>10. CASE PrepareSucceeded
  BY <1>10, PrepareSucceededDoes
<1>11. CASE DispatchExecute
  BY <1>11, DispatchExecuteDoes
<1>12. CASE ExecuteSucceeded
  BY <1>12, ExecuteSucceededDoes
<1>13. CASE CreateEndpoint
  BY <1>13, CreateEndpointDoes
<1>14. CASE StoreSecret
  BY <1>14, StoreSecretDoes
<1>15. CASE RestartVendor
  BY <1>15, RestartVendorDoes
<1>16. CASE ReuseUi
  BY <1>16, ReuseUiDoes
<1>17. CASE StartUi
  BY <1>17, StartUiDoes
<1>18. CASE RecordUi
  BY <1>18, RecordUiDoes
<1>19. CASE Activate
  BY <1>19, ActivateDoes
<1>20. CASE StepFails
  BY <1>20, StepFailsDoes
<1>21. CASE ChecksFail
  <2>1. supervisor'.at = "off" /\ UNCHANGED <<file, cloud>>
    BY <1>21, ChecksFailDoes DEF Off
  <2>2. spent.abandoned => spent'.abandoned
    BY <1>21, ChecksFailDoes
  <2> QED
    BY <2>1, <2>2
<1>22. CASE Interrupt
  BY <1>22, InterruptDoes
<1>23. CASE StopDeploying
  BY <1>23, StopDeployingDoes
<1>24. CASE SupervisorDies
  <2>1. supervisor'.at = "off" /\ UNCHANGED <<file, cloud>>
    BY <1>24, SupervisorDiesDoes DEF Off
  <2>2. spent.abandoned => spent'.abandoned
    BY <1>24, SupervisorDiesDoes
  <2> QED
    BY <2>1, <2>2
<1>25. CASE EndDeploy
  <2>1. \/ MovesTo("cleanUi") /\ UNCHANGED spent
        \/ supervisor'.at = "off" /\ (spent.abandoned => spent'.abandoned)
    <3>1. \/ MovesTo("cleanUi") /\ UNCHANGED spent
          \/ Left(spent.deaths)
      BY ONLY <1>25, EndDeployDoes, LabShape
    <3>2. CASE Left(spent.deaths)
      <4>1. supervisor'.at = "off"
        BY <3>2 DEF Off
      <4>2. spent.abandoned => spent'.abandoned
        BY <3>2
      <4> QED
        BY <4>1, <4>2
    <3> QED
      BY ONLY <3>1, <3>2
  <2>2. UNCHANGED <<file, cloud>> /\ supervisor.at = "ending"
    BY <1>25, EndDeployDoes
  <2> QED
    BY <2>1, <2>2
<1>26. CASE StartDestroy
  BY <1>26, StartDestroyDoes
<1>27. CASE CleanUi
  BY <1>27, CleanUiDoes
<1>28. CASE CleanEndpoint
  BY <1>28, CleanEndpointDoes
<1>29. CASE CleanParameter
  BY <1>29, CleanParameterDoes
<1>30. CASE CleanRecord
  BY <1>30, CleanRecordDoes
<1>31. CASE StripeCleanupFails
  BY <1>31, StripeCleanupFailsDoes
<1>32. CASE CleanCloud
  BY <1>32, CleanCloudDoes
<1>33. CASE DestroySucceeded
  BY <1>33, DestroySucceededDoes
<1>34. CASE VerifyDestroyed
  BY <1>34, VerifyDestroyedDoes
<1>35. CASE CleanLocal
  BY <1>35, CleanLocalDoes
<1>36. CASE CloseTeardown
  <2>1. supervisor'.at = "off" /\ UNCHANGED cloud /\ supervisor.at = "closing"
    BY <1>36, CloseTeardownDoes DEF Off
  <2>2. spent.abandoned => spent'.abandoned
    BY <1>36, CloseTeardownDoes
  <2> QED
    BY <2>1, <2>2
<1>37. CASE TeardownFails
  <2>1. supervisor'.at = "off" /\ UNCHANGED <<file, cloud>>
    BY <1>37, TeardownFailsDoes DEF Off
  <2>2. spent.abandoned => spent'.abandoned
    BY <1>37, TeardownFailsDoes
  <2> QED
    BY <2>1, <2>2
<1>38. ASSUME NEW p \in running, ProcessDies(p)
      PROVE  GoneForGood'
  BY <1>38, ProcessDiesDoes
<1>39. ASSUME NEW r \in runs, RunStarts(r)
      PROVE  GoneForGood'
  <2>1. spent'.abandoned = spent.abandoned
    BY <1>39, RunStepDoes
  <2>2. CASE ~spent.abandoned
    <3>1. supervisor.at \in {"preparing", "executing", "destroying"}
      BY <2>2 DEF RunsAwaited, OnlyAwaitedRuns, Awaiting
    <3>2. UNCHANGED file /\ supervisor'.at = supervisor.at
      BY <1>39, RunStepDoes
    <3> QED
      BY <2>2, <3>1, <3>2
  <2> QED
    BY <2>1, <2>2
<1>40. ASSUME NEW r \in runs, RunSucceeds(r)
      PROVE  GoneForGood'
  <2>1. spent'.abandoned = spent.abandoned
    BY <1>40, RunStepDoes
  <2>2. CASE ~spent.abandoned
    <3>1. supervisor.at \in {"preparing", "executing", "destroying"}
      BY <2>2 DEF RunsAwaited, OnlyAwaitedRuns, Awaiting
    <3>2. UNCHANGED file /\ supervisor'.at = supervisor.at
      BY <1>40, RunStepDoes
    <3> QED
      BY <2>2, <3>1, <3>2
  <2> QED
    BY <2>1, <2>2
<1>41. ASSUME NEW r \in runs, RunFails(r)
      PROVE  GoneForGood'
  <2>1. spent'.abandoned = spent.abandoned
    BY <1>41, RunStepDoes
  <2>2. CASE ~spent.abandoned
    <3>1. supervisor.at \in {"preparing", "executing", "destroying"}
      BY <2>2 DEF RunsAwaited, OnlyAwaitedRuns, Awaiting
    <3>2. UNCHANGED file /\ supervisor'.at = supervisor.at
      BY <1>41, RunStepDoes
    <3> QED
      BY <2>2, <3>1, <3>2
  <2> QED
    BY <2>1, <2>2
<1>42. CASE UNCHANGED labVars
  BY <1>42 DEF labVars
<1> QED
  BY ONLY [LabNext]_labVars, <1>1, <1>2, <1>3, <1>4, <1>5, <1>6, <1>7, <1>8, <1>9, <1>10, <1>11,
       <1>12, <1>13, <1>14, <1>15, <1>16, <1>17, <1>18, <1>19, <1>20, <1>21, <1>22, <1>23, <1>24,
       <1>25, <1>26, <1>27, <1>28, <1>29, <1>30, <1>31, <1>32, <1>33, <1>34, <1>35, <1>36, <1>37,
       <1>38, <1>39, <1>40, <1>41, <1>42 DEF LabNext, Deploy, Teardown

\* A lab that is recorded as destroyed has no stack, no change set and no
\* artifact left, unless a command ended before a run it had started.
THEOREM DestroyedIsGone == LabSpec => []DestroyedMeansGone
<1>1. LabInit => RunsAwaited /\ GoneForGood
  BY DEF LabInit, Off, Empty, RunsAwaited, OnlyAwaitedRuns, GoneForGood, CloudIsGone
<1>2. LabSpec => [](LabShape /\ RunsAwaited /\ GoneForGood)
  BY <1>1, LabShapeInit, LabShapeKept, RunsAwaitedKept, GoneForGoodKept, PTL DEF LabSpec
<1>3. LabShape /\ GoneForGood => DestroyedMeansGone
  BY DEF LabShape, Serialised, GoneForGood, CloudIsGone, DestroyedMeansGone
<1> QED
  BY <1>2, <1>3, PTL

(***************************************************************************)
(* The parts of an active lab.                                             *)
(***************************************************************************)

\* Everything that was prepared or deployed was signed with the lab's secret.
Signed ==
  /\ \A s \in cloud.sets : s.digest = secret /\ secret # Undefined
  /\ cloud.stack # Undefined /\ cloud.stack.api # Undefined =>
       cloud.stack.digest = secret /\ secret # Undefined

SecretKnown ==
  supervisor.at \in {"boundary", "vendor", "tunnel"} \cup Routed =>
    secret # Undefined /\ cloud.secret = secret

SameSecret == SecretKnown /\ (~spent.abandoned => Signed)

\* What is prepared, executed and then found deployed is for this tunnel and
\* this secret.
Prepared ==
  /\ At("preparing") => \A s \in cloud.sets : s.run = supervisor.run => s.url = Url
  /\ supervisor.at \in {"prepared", "executing"} =>
       supervisor.set.url = Url /\ supervisor.set.digest = secret
  /\ At("executing") /\ supervisor.ended = "success" =>
       cloud.stack # Undefined /\ cloud.stack.url = Url
  /\ supervisor.at \in Built =>
       StackIs(Stable) /\ cloud.stack.url = Url /\ supervisor.api = cloud.stack.api

WellPrepared == ~spent.abandoned => Prepared

\* GitHub's copy is the lab's secret.
LEMMA SecretKnownKept ==
  ASSUME LabShape, SecretKnown, [LabNext]_labVars
  PROVE  SecretKnown'
<1> USE LabShapeTypes, NothingMadeIsUndefined DEF SecretKnown, Routed, Built, AwaitsRun,
     SupervisorTo, Continues, MovesTo, FileTo, CloudTo, StripeTo, SpentTo, SpentAsBefore, Left,
     ConcludedAs
<1>1. CASE StartDeploy
  BY <1>1, StartDeployDoes
<1>2. CASE ChecksPass
  BY <1>2, ChecksPassDoes
<1>3. CASE ReuseBoundary
  BY <1>3, ReuseBoundaryDoes
<1>4. CASE ReplaceBoundary
  BY <1>4, ReplaceBoundaryDoes
<1>5. CASE StartTunnel
  BY <1>5, StartTunnelDoes
<1>6. CASE RecordTunnel
  BY <1>6, RecordTunnelDoes
<1>7. CASE AdoptPrepared
  BY <1>7, AdoptPreparedDoes
<1>8. CASE ReuseDeployed
  BY <1>8, ReuseDeployedDoes
<1>9. CASE DispatchPrepare
  BY <1>9, DispatchPrepareDoes
<1>10. CASE PrepareSucceeded
  BY <1>10, PrepareSucceededDoes
<1>11. CASE DispatchExecute
  BY <1>11, DispatchExecuteDoes
<1>12. CASE ExecuteSucceeded
  BY <1>12, ExecuteSucceededDoes
<1>13. CASE CreateEndpoint
  BY <1>13, CreateEndpointDoes
<1>14. CASE StoreSecret
  BY <1>14, StoreSecretDoes
<1>15. CASE RestartVendor
  BY <1>15, RestartVendorDoes
<1>16. CASE ReuseUi
  BY <1>16, ReuseUiDoes
<1>17. CASE StartUi
  BY <1>17, StartUiDoes
<1>18. CASE RecordUi
  BY <1>18, RecordUiDoes
<1>19. CASE Activate
  BY <1>19, ActivateDoes
<1>20. CASE StepFails
  BY <1>20, StepFailsDoes
<1>21. CASE ChecksFail
  BY <1>21, ChecksFailDoes DEF Off
<1>22. CASE Interrupt
  BY <1>22, InterruptDoes
<1>23. CASE StopDeploying
  BY <1>23, StopDeployingDoes
<1>24. CASE SupervisorDies
  BY <1>24, SupervisorDiesDoes DEF Off
<1>25. CASE EndDeploy
  BY <1>25, EndDeployDoes DEF Off
<1>26. CASE StartDestroy
  BY <1>26, StartDestroyDoes
<1>27. CASE CleanUi
  BY <1>27, CleanUiDoes
<1>28. CASE CleanEndpoint
  BY <1>28, CleanEndpointDoes
<1>29. CASE CleanParameter
  BY <1>29, CleanParameterDoes
<1>30. CASE CleanRecord
  BY <1>30, CleanRecordDoes
<1>31. CASE StripeCleanupFails
  BY <1>31, StripeCleanupFailsDoes
<1>32. CASE CleanCloud
  BY <1>32, CleanCloudDoes
<1>33. CASE DestroySucceeded
  BY <1>33, DestroySucceededDoes
<1>34. CASE VerifyDestroyed
  BY <1>34, VerifyDestroyedDoes
<1>35. CASE CleanLocal
  BY <1>35, CleanLocalDoes
<1>36. CASE CloseTeardown
  BY <1>36, CloseTeardownDoes DEF Off
<1>37. CASE TeardownFails
  BY <1>37, TeardownFailsDoes DEF Off
<1>38. ASSUME NEW p \in running, ProcessDies(p)
      PROVE  SecretKnown'
  BY <1>38, ProcessDiesDoes, RunsOperate DEF Prepares, Executes, StackTurns
<1>39. ASSUME NEW r \in runs, RunStarts(r)
      PROVE  SecretKnown'
  BY <1>39, RunStartsDoes, RunsOperate DEF Prepares, Executes, StackTurns
<1>40. ASSUME NEW r \in runs, RunSucceeds(r)
      PROVE  SecretKnown'
  BY <1>40, RunSucceedsDoes, RunsOperate DEF Prepares, Executes, StackTurns
<1>41. ASSUME NEW r \in runs, RunFails(r)
      PROVE  SecretKnown'
  BY <1>41, RunFailsDoes, RunsOperate DEF Prepares, Executes, StackTurns
<1>42. CASE UNCHANGED labVars
  BY <1>42 DEF labVars
<1> QED
  BY ONLY [LabNext]_labVars, <1>1, <1>2, <1>3, <1>4, <1>5, <1>6, <1>7, <1>8, <1>9, <1>10, <1>11,
       <1>12, <1>13, <1>14, <1>15, <1>16, <1>17, <1>18, <1>19, <1>20, <1>21, <1>22, <1>23, <1>24,
       <1>25, <1>26, <1>27, <1>28, <1>29, <1>30, <1>31, <1>32, <1>33, <1>34, <1>35, <1>36, <1>37,
       <1>38, <1>39, <1>40, <1>41, <1>42 DEF LabNext, Deploy, Teardown

\* The secret outlives what was signed with it.
LEMMA SignedKept ==
  ASSUME LabShape, RunsAwaited, GoneForGood, SecretKnown, WellPrepared,
         ~spent.abandoned => Signed, [LabNext]_labVars
  PROVE  (~spent.abandoned => Signed)'
<1> USE LabShapeTypes, NothingMadeIsUndefined DEF Signed, AwaitsRun, SupervisorTo, Continues,
     MovesTo, FileTo, CloudTo, StripeTo, SpentTo, SpentAsBefore, Left, ConcludedAs
<1>1. CASE StartDeploy
  BY <1>1, StartDeployDoes
<1>2. CASE ChecksPass
  BY <1>2, ChecksPassDoes
<1>3. CASE ReuseBoundary
  BY <1>3, ReuseBoundaryDoes
<1>4. CASE ReplaceBoundary
  BY <1>4, ReplaceBoundaryDoes
<1>5. CASE StartTunnel
  BY <1>5, StartTunnelDoes
<1>6. CASE RecordTunnel
  BY <1>6, RecordTunnelDoes
<1>7. CASE AdoptPrepared
  BY <1>7, AdoptPreparedDoes
<1>8. CASE ReuseDeployed
  BY <1>8, ReuseDeployedDoes
<1>9. CASE DispatchPrepare
  BY <1>9, DispatchPrepareDoes
<1>10. CASE PrepareSucceeded
  BY <1>10, PrepareSucceededDoes
<1>11. CASE DispatchExecute
  BY <1>11, DispatchExecuteDoes
<1>12. CASE ExecuteSucceeded
  BY <1>12, ExecuteSucceededDoes
<1>13. CASE CreateEndpoint
  BY <1>13, CreateEndpointDoes
<1>14. CASE StoreSecret
  BY <1>14, StoreSecretDoes
<1>15. CASE RestartVendor
  BY <1>15, RestartVendorDoes
<1>16. CASE ReuseUi
  BY <1>16, ReuseUiDoes
<1>17. CASE StartUi
  BY <1>17, StartUiDoes
<1>18. CASE RecordUi
  BY <1>18, RecordUiDoes
<1>19. CASE Activate
  BY <1>19, ActivateDoes
<1>20. CASE StepFails
  BY <1>20, StepFailsDoes
<1>21. CASE ChecksFail
  BY <1>21, ChecksFailDoes DEF Off
<1>22. CASE Interrupt
  BY <1>22, InterruptDoes
<1>23. CASE StopDeploying
  BY <1>23, StopDeployingDoes
<1>24. CASE SupervisorDies
  BY <1>24, SupervisorDiesDoes DEF Off
<1>25. CASE EndDeploy
  BY <1>25, EndDeployDoes DEF Off
<1>26. CASE StartDestroy
  BY <1>26, StartDestroyDoes
<1>27. CASE CleanUi
  BY <1>27, CleanUiDoes
<1>28. CASE CleanEndpoint
  BY <1>28, CleanEndpointDoes
<1>29. CASE CleanParameter
  BY <1>29, CleanParameterDoes
<1>30. CASE CleanRecord
  BY <1>30, CleanRecordDoes
<1>31. CASE StripeCleanupFails
  BY <1>31, StripeCleanupFailsDoes
<1>32. CASE CleanCloud
  BY <1>32, CleanCloudDoes
<1>33. CASE DestroySucceeded
  BY <1>33, DestroySucceededDoes
<1>34. CASE VerifyDestroyed
  BY <1>34, VerifyDestroyedDoes
<1>35. CASE CleanLocal
  BY <1>35, CleanLocalDoes DEF GoneForGood, CloudIsGone, LabShape, Serialised
<1>36. CASE CloseTeardown
  BY <1>36, CloseTeardownDoes DEF Off
<1>37. CASE TeardownFails
  BY <1>37, TeardownFailsDoes DEF Off
<1>38. ASSUME NEW p \in running, ProcessDies(p)
      PROVE  (~spent.abandoned => Signed)'
  BY <1>38, ProcessDiesDoes, RunsOperate DEF Prepares, Executes, StackTurns
<1>39. ASSUME NEW r \in runs, RunStarts(r)
      PROVE  (~spent.abandoned => Signed)'
  BY <1>39, RunStartsDoes, RunsOperate DEF Prepares, Executes, StackTurns
<1>40. ASSUME NEW r \in runs, RunSucceeds(r)
      PROVE  (~spent.abandoned => Signed)'
  <2>1. UNCHANGED secret /\ spent'.abandoned = spent.abandoned
    BY <1>40, RunStepDoes
  <2>2. CASE spent.abandoned
    BY <2>1, <2>2
  <2>3. CASE ~spent.abandoned
    <3>1. r.operation = "prepare" => cloud.secret = secret /\ secret # Undefined
      BY <2>3 DEF RunsAwaited, OnlyAwaitedRuns, Awaiting, AwaitedOperation, SecretKnown, Routed
    <3>2. r.operation = "execute" => r.set.digest = secret /\ secret # Undefined
      BY <2>3 DEF RunsAwaited, OnlyAwaitedRuns, Awaiting, AwaitedOperation, At, WellPrepared,
           Prepared, SecretKnown, Routed
    <3>3. CASE r.operation = "prepare"
      <4>1. PICK s \in ChangeSets, t \in Stacks :
              /\ s.digest = cloud.secret
              /\ t = IF cloud.stack = Undefined THEN NoStack ELSE cloud.stack
              /\ CloudTo(t, cloud.sets \cup {s}, TRUE, cloud.secret)
        BY <1>40, <3>3, RunSucceedsDoes DEF Prepares
      <4>2. cloud.stack = Undefined => t.api = Undefined
        BY <4>1 DEF NoStack
      <4> QED
        BY <2>1, <2>3, <3>1, <3>3, <4>1, <4>2
    <3>4. CASE r.operation = "execute"
      <4>1. CASE Executes(r)
        BY <2>1, <2>3, <3>2, <3>4, <4>1 DEF Executes
      <4>2. CASE StackTurns({IF cloud.stack.api = Undefined THEN "failed" ELSE "complete"})
        <5>1. cloud.stack # Undefined
          BY <1>40, <3>4, RunSucceedsDoes DEF LabShape, Serialised
        <5> QED
          BY <2>1, <2>3, <4>2, <5>1 DEF StackTurns
      <4> QED
        BY <1>40, <3>4, <4>1, <4>2, RunSucceedsDoes
    <3>5. CASE r.operation = "destroy"
      BY <1>40, <2>1, <2>3, <3>5, RunSucceedsDoes
    <3> QED
      BY <3>3, <3>4, <3>5, RunsOperate
  <2> QED
    BY <2>2, <2>3
<1>41. ASSUME NEW r \in runs, RunFails(r)
      PROVE  (~spent.abandoned => Signed)'
  <2>1. UNCHANGED secret /\ spent'.abandoned = spent.abandoned
    BY <1>41, RunStepDoes
  <2>2. CASE spent.abandoned
    BY <2>1, <2>2
  <2>3. CASE ~spent.abandoned
    <3>1. r.operation = "prepare" => cloud.secret = secret /\ secret # Undefined
      BY <2>3 DEF RunsAwaited, OnlyAwaitedRuns, Awaiting, AwaitedOperation, SecretKnown, Routed
    <3>2. r.operation = "execute" => r.set.digest = secret /\ secret # Undefined
      BY <2>3 DEF RunsAwaited, OnlyAwaitedRuns, Awaiting, AwaitedOperation, At, WellPrepared,
           Prepared, SecretKnown, Routed
    <3>3. CASE r.operation = "prepare"
      BY <1>41, <2>1, <2>3, <3>3, RunFailsDoes
    <3>4. CASE r.operation = "execute"
      <4>1. CASE Executes(r)
        BY <2>1, <2>3, <3>2, <3>4, <4>1 DEF Executes
      <4>2. CASE StackTurns({IF cloud.stack.api = Undefined THEN "failed" ELSE "complete"})
        <5>1. cloud.stack # Undefined
          BY <1>41, <3>4, RunFailsDoes DEF LabShape, Serialised
        <5> QED
          BY <2>1, <2>3, <4>2, <5>1 DEF StackTurns
      <4> QED
        BY <1>41, <3>4, <4>1, <4>2, RunFailsDoes
    <3>5. CASE r.operation = "destroy"
      BY <1>41, <2>1, <2>3, <3>5, RunFailsDoes
    <3> QED
      BY <3>3, <3>4, <3>5, RunsOperate
  <2> QED
    BY <2>2, <2>3
<1>42. CASE UNCHANGED labVars
  BY <1>42 DEF labVars
<1> QED
  BY ONLY [LabNext]_labVars, <1>1, <1>2, <1>3, <1>4, <1>5, <1>6, <1>7, <1>8, <1>9, <1>10, <1>11,
       <1>12, <1>13, <1>14, <1>15, <1>16, <1>17, <1>18, <1>19, <1>20, <1>21, <1>22, <1>23, <1>24,
       <1>25, <1>26, <1>27, <1>28, <1>29, <1>30, <1>31, <1>32, <1>33, <1>34, <1>35, <1>36, <1>37,
       <1>38, <1>39, <1>40, <1>41, <1>42 DEF LabNext, Deploy, Teardown

\* What is found deployed was made for this tunnel.
LEMMA WellPreparedKept ==
  ASSUME LabShape, RunsAwaited, SameSecret, WellPrepared, [LabNext]_labVars
  PROVE  WellPrepared'
<1> USE LabShapeTypes, LabConstants, NothingMadeIsUndefined DEF WellPrepared, Prepared, Url, At,
     Built, StackIs, Stable, AwaitsRun, SupervisorTo, Continues, MovesTo, FileTo, CloudTo,
     StripeTo, SpentTo, SpentAsBefore, Left, ConcludedAs
<1>1. CASE StartDeploy
  BY <1>1, StartDeployDoes
<1>2. CASE ChecksPass
  BY <1>2, ChecksPassDoes
<1>3. CASE ReuseBoundary
  BY <1>3, ReuseBoundaryDoes
<1>4. CASE ReplaceBoundary
  BY <1>4, ReplaceBoundaryDoes
<1>5. CASE StartTunnel
  BY <1>5, StartTunnelDoes
<1>6. CASE RecordTunnel
  BY <1>6, RecordTunnelDoes
<1>7. CASE AdoptPrepared
  BY <1>7, AdoptPreparedDoes DEF SameSecret, Signed
<1>8. CASE ReuseDeployed
  BY <1>8, ReuseDeployedDoes
<1>9. CASE DispatchPrepare
  <2>1. CASE spent.abandoned
    BY <1>9, <2>1, DispatchPrepareDoes
  <2>2. CASE ~spent.abandoned
    <3>1. runs = {} /\ UNCHANGED <<file, spent, cloud, secret>> /\ supervisor.at = "stack"
      BY <1>9, <2>2, DispatchPrepareDoes DEF RunsAwaited, OnlyAwaitedRuns, Awaiting
    <3>2. AwaitsRun("prepare", Url, Undefined, "preparing")
      BY <1>9, DispatchPrepareDoes
    <3>3. \A s \in cloud.sets : s.run # made + 1
      BY LabShapeTypes DEF LabShape, Serialised, Clouds, ChangeSets
    <3> QED
      BY <2>2, <3>1, <3>2, <3>3
  <2> QED
    BY <2>1, <2>2
<1>10. CASE PrepareSucceeded
  BY <1>10, PrepareSucceededDoes DEF SameSecret, Signed
<1>11. CASE DispatchExecute
  <2>1. CASE spent.abandoned
    BY <1>11, <2>1, DispatchExecuteDoes
  <2>2. CASE ~spent.abandoned
    <3>1. runs = {} /\ UNCHANGED <<file, spent, cloud, secret>> /\ supervisor.at = "prepared"
      BY <1>11, <2>2, DispatchExecuteDoes DEF RunsAwaited, OnlyAwaitedRuns, Awaiting
    <3>2. AwaitsRun("execute", Undefined, supervisor.set, "executing")
      BY <1>11, DispatchExecuteDoes
    <3>3. \A s \in cloud.sets : s.run # made + 1
      BY LabShapeTypes DEF LabShape, Serialised, Clouds, ChangeSets
    <3> QED
      BY <2>2, <3>1, <3>2, <3>3
  <2> QED
    BY <2>1, <2>2
<1>12. CASE ExecuteSucceeded
  BY <1>12, ExecuteSucceededDoes DEF SameSecret, Signed
<1>13. CASE CreateEndpoint
  BY <1>13, CreateEndpointDoes
<1>14. CASE StoreSecret
  BY <1>14, StoreSecretDoes
<1>15. CASE RestartVendor
  BY <1>15, RestartVendorDoes
<1>16. CASE ReuseUi
  BY <1>16, ReuseUiDoes
<1>17. CASE StartUi
  BY <1>17, StartUiDoes
<1>18. CASE RecordUi
  BY <1>18, RecordUiDoes
<1>19. CASE Activate
  BY <1>19, ActivateDoes
<1>20. CASE StepFails
  BY <1>20, StepFailsDoes
<1>21. CASE ChecksFail
  <2>1. supervisor'.at = "off"
    BY <1>21, ChecksFailDoes DEF Off
  <2> QED
    BY <2>1
<1>22. CASE Interrupt
  BY <1>22, InterruptDoes
<1>23. CASE StopDeploying
  BY <1>23, StopDeployingDoes
<1>24. CASE SupervisorDies
  <2>1. supervisor'.at = "off"
    BY <1>24, SupervisorDiesDoes DEF Off
  <2> QED
    BY <2>1
<1>25. CASE EndDeploy
  <2>1. supervisor'.at = "off" \/ (supervisor'.at = "cleanUi" /\ UNCHANGED spent)
    BY <1>25, EndDeployDoes DEF Off
  <2> QED
    BY <2>1
<1>26. CASE StartDestroy
  BY <1>26, StartDestroyDoes
<1>27. CASE CleanUi
  BY <1>27, CleanUiDoes
<1>28. CASE CleanEndpoint
  BY <1>28, CleanEndpointDoes
<1>29. CASE CleanParameter
  BY <1>29, CleanParameterDoes
<1>30. CASE CleanRecord
  BY <1>30, CleanRecordDoes
<1>31. CASE StripeCleanupFails
  BY <1>31, StripeCleanupFailsDoes
<1>32. CASE CleanCloud
  <2>1. UNCHANGED spent /\ (supervisor'.at = "verifying" \/ supervisor'.at = "destroying")
    BY <1>32, CleanCloudDoes
  <2> QED
    BY <2>1
<1>33. CASE DestroySucceeded
  BY <1>33, DestroySucceededDoes
<1>34. CASE VerifyDestroyed
  BY <1>34, VerifyDestroyedDoes
<1>35. CASE CleanLocal
  BY <1>35, CleanLocalDoes
<1>36. CASE CloseTeardown
  <2>1. supervisor'.at = "off"
    BY <1>36, CloseTeardownDoes DEF Off
  <2> QED
    BY <2>1
<1>37. CASE TeardownFails
  <2>1. supervisor'.at = "off"
    BY <1>37, TeardownFailsDoes DEF Off
  <2> QED
    BY <2>1
<1>38. ASSUME NEW p \in running, ProcessDies(p)
      PROVE  WellPrepared'
  BY <1>38, ProcessDiesDoes
<1>39. ASSUME NEW r \in runs, RunStarts(r)
      PROVE  WellPrepared'
  <2>1. /\ UNCHANGED <<file, secret>> /\ spent'.abandoned = spent.abandoned
        /\ supervisor'.at = supervisor.at /\ supervisor'.set = supervisor.set
        /\ supervisor'.run = supervisor.run
    BY <1>39, RunStepDoes
  <2>2. CASE spent.abandoned
    BY <2>1, <2>2
  <2>3. CASE ~spent.abandoned
    <3>1. /\ supervisor.at \in {"preparing", "executing", "destroying"}
          /\ r.operation = AwaitedOperation[supervisor.at]
          /\ r.id = supervisor.run /\ supervisor.ended = Undefined
          /\ supervisor.at = "preparing" => r.url = Url
          /\ supervisor.at = "executing" => r.set = supervisor.set
      BY <2>3 DEF RunsAwaited, OnlyAwaitedRuns, Awaiting
    <3>2. CASE supervisor.at = "preparing"
      <4>1. r.operation = "prepare"
        BY <3>1, <3>2 DEF AwaitedOperation
      <4>2. \A s \in cloud'.sets : s \in cloud.sets \/ s.url = r.url
        BY <1>39, <4>1, RunStartsDoes
      <4> QED
        BY <2>1, <2>3, <3>1, <3>2, <4>2
    <3>3. CASE supervisor.at = "executing"
      <4>1. r.operation = "execute"
        BY <3>1, <3>3 DEF AwaitedOperation
      <4>2. supervisor'.ended = "success" =>
              cloud'.stack # Undefined /\ cloud'.stack.url = r.set.url
        BY <1>39, <3>1, <4>1, RunStartsDoes
      <4> QED
        BY <2>1, <2>3, <3>1, <3>3, <4>2
    <3>4. CASE supervisor.at = "destroying"
      BY <2>1, <2>3, <3>4
    <3> QED
      BY <3>1, <3>2, <3>3, <3>4
  <2> QED
    BY <2>2, <2>3
<1>40. ASSUME NEW r \in runs, RunSucceeds(r)
      PROVE  WellPrepared'
  <2>1. /\ UNCHANGED <<file, secret>> /\ spent'.abandoned = spent.abandoned
        /\ supervisor'.at = supervisor.at /\ supervisor'.set = supervisor.set
        /\ supervisor'.run = supervisor.run
    BY <1>40, RunStepDoes
  <2>2. CASE spent.abandoned
    BY <2>1, <2>2
  <2>3. CASE ~spent.abandoned
    <3>1. /\ supervisor.at \in {"preparing", "executing", "destroying"}
          /\ r.operation = AwaitedOperation[supervisor.at]
          /\ r.id = supervisor.run /\ supervisor.ended = Undefined
          /\ supervisor.at = "preparing" => r.url = Url
          /\ supervisor.at = "executing" => r.set = supervisor.set
      BY <2>3 DEF RunsAwaited, OnlyAwaitedRuns, Awaiting
    <3>2. CASE supervisor.at = "preparing"
      <4>1. r.operation = "prepare"
        BY <3>1, <3>2 DEF AwaitedOperation
      <4>2. \A s \in cloud'.sets : s \in cloud.sets \/ s.url = r.url
        <5>1. Prepares(r)
          BY <1>40, <4>1, RunSucceedsDoes
        <5> QED
          BY <5>1 DEF Prepares
      <4> QED
        BY <2>1, <2>3, <3>1, <3>2, <4>2
    <3>3. CASE supervisor.at = "executing"
      <4>1. r.operation = "execute"
        BY <3>1, <3>3 DEF AwaitedOperation
      <4>2. supervisor'.ended = "success" =>
              cloud'.stack # Undefined /\ cloud'.stack.url = r.set.url
        <5>1. Executes(r)
          BY <1>40, <4>1, RunSucceedsDoes
        <5> QED
          BY <5>1 DEF Executes
      <4> QED
        BY <2>1, <2>3, <3>1, <3>3, <4>2
    <3>4. CASE supervisor.at = "destroying"
      BY <2>1, <2>3, <3>4
    <3> QED
      BY <3>1, <3>2, <3>3, <3>4
  <2> QED
    BY <2>2, <2>3
<1>41. ASSUME NEW r \in runs, RunFails(r)
      PROVE  WellPrepared'
  <2>1. /\ UNCHANGED <<file, secret>> /\ spent'.abandoned = spent.abandoned
        /\ supervisor'.at = supervisor.at /\ supervisor'.set = supervisor.set
        /\ supervisor'.run = supervisor.run
    BY <1>41, RunStepDoes
  <2>2. CASE spent.abandoned
    BY <2>1, <2>2
  <2>3. CASE ~spent.abandoned
    <3>1. /\ supervisor.at \in {"preparing", "executing", "destroying"}
          /\ r.operation = AwaitedOperation[supervisor.at]
          /\ r.id = supervisor.run /\ supervisor.ended = Undefined
          /\ supervisor.at = "preparing" => r.url = Url
          /\ supervisor.at = "executing" => r.set = supervisor.set
      BY <2>3 DEF RunsAwaited, OnlyAwaitedRuns, Awaiting
    <3>2. CASE supervisor.at = "preparing"
      <4>1. r.operation = "prepare"
        BY <3>1, <3>2 DEF AwaitedOperation
      <4>2. \A s \in cloud'.sets : s \in cloud.sets \/ s.url = r.url
        BY <1>41, <4>1, RunFailsDoes
      <4> QED
        BY <2>1, <2>3, <3>1, <3>2, <4>2
    <3>3. CASE supervisor.at = "executing"
      <4>1. r.operation = "execute"
        BY <3>1, <3>3 DEF AwaitedOperation
      <4>2. supervisor'.ended = "success" =>
              cloud'.stack # Undefined /\ cloud'.stack.url = r.set.url
        BY <1>41, <3>1, <4>1, RunFailsDoes
      <4> QED
        BY <2>1, <2>3, <3>1, <3>3, <4>2
    <3>4. CASE supervisor.at = "destroying"
      BY <2>1, <2>3, <3>4
    <3> QED
      BY <3>1, <3>2, <3>3, <3>4
  <2> QED
    BY <2>2, <2>3
<1>42. CASE UNCHANGED labVars
  BY <1>42 DEF labVars
<1> QED
  BY ONLY [LabNext]_labVars, <1>1, <1>2, <1>3, <1>4, <1>5, <1>6, <1>7, <1>8, <1>9, <1>10, <1>11,
       <1>12, <1>13, <1>14, <1>15, <1>16, <1>17, <1>18, <1>19, <1>20, <1>21, <1>22, <1>23, <1>24,
       <1>25, <1>26, <1>27, <1>28, <1>29, <1>30, <1>31, <1>32, <1>33, <1>34, <1>35, <1>36, <1>37,
       <1>38, <1>39, <1>40, <1>41, <1>42 DEF LabNext, Deploy, Teardown

\* The parts the supervisor has put together belong together.
Hooked ==
  /\ At("tunnel") => supervisor.started.port = file.vendor.port
  /\ supervisor.at \in Routed => file.tunnel.port = file.vendor.port
  /\ supervisor.at \in {"stored", "hooked", "ui", "uiRecorded", "active"} =>
       stripe.endpoints = {file.endpoint} /\ stripe.parameter = file.endpoint
  /\ At("hooked") => /\ supervisor.started.port = file.vendor.port
                     /\ supervisor.started.api = supervisor.api
  /\ supervisor.at \in {"ui", "uiRecorded", "active"} => file.vendor.api = supervisor.api
  /\ At("ui") => supervisor.started.api = supervisor.api
  /\ supervisor.at \in {"uiRecorded", "active"} => file.ui.api = supervisor.api

\* No step takes apart what belongs together.
LEMMA HookedKept ==
  ASSUME LabShape, Hooked, [LabNext]_labVars
  PROVE  Hooked'
<1> USE LabShapeTypes DEF LabShape, AtHand, Hooked, At, Routed, Built, DeploySteps, AwaitsRun,
     SupervisorTo, Continues, MovesTo, FileTo, CloudTo, StripeTo, SpentTo, SpentAsBefore, Left,
     ConcludedAs
<1>1. CASE StartDeploy
  BY <1>1, StartDeployDoes
<1>2. CASE ChecksPass
  BY <1>2, ChecksPassDoes
<1>3. CASE ReuseBoundary
  BY <1>3, ReuseBoundaryDoes
<1>4. CASE ReplaceBoundary
  BY <1>4, ReplaceBoundaryDoes
<1>5. CASE StartTunnel
  BY <1>5, StartTunnelDoes
<1>6. CASE RecordTunnel
  BY <1>6, RecordTunnelDoes
<1>7. CASE AdoptPrepared
  BY <1>7, AdoptPreparedDoes
<1>8. CASE ReuseDeployed
  BY <1>8, ReuseDeployedDoes
<1>9. CASE DispatchPrepare
  BY <1>9, DispatchPrepareDoes
<1>10. CASE PrepareSucceeded
  BY <1>10, PrepareSucceededDoes
<1>11. CASE DispatchExecute
  BY <1>11, DispatchExecuteDoes
<1>12. CASE ExecuteSucceeded
  BY <1>12, ExecuteSucceededDoes
<1>13. CASE CreateEndpoint
  BY <1>13, CreateEndpointDoes
<1>14. CASE StoreSecret
  BY <1>14, StoreSecretDoes
<1>15. CASE RestartVendor
  BY <1>15, RestartVendorDoes
<1>16. CASE ReuseUi
  BY <1>16, ReuseUiDoes
<1>17. CASE StartUi
  BY <1>17, StartUiDoes
<1>18. CASE RecordUi
  BY <1>18, RecordUiDoes
<1>19. CASE Activate
  BY <1>19, ActivateDoes
<1>20. CASE StepFails
  BY <1>20, StepFailsDoes
<1>21. CASE ChecksFail
  BY <1>21, ChecksFailDoes DEF Off
<1>22. CASE Interrupt
  BY <1>22, InterruptDoes
<1>23. CASE StopDeploying
  BY <1>23, StopDeployingDoes
<1>24. CASE SupervisorDies
  BY <1>24, SupervisorDiesDoes DEF Off
<1>25. CASE EndDeploy
  BY <1>25, EndDeployDoes DEF Off
<1>26. CASE StartDestroy
  BY <1>26, StartDestroyDoes
<1>27. CASE CleanUi
  BY <1>27, CleanUiDoes
<1>28. CASE CleanEndpoint
  BY <1>28, CleanEndpointDoes
<1>29. CASE CleanParameter
  BY <1>29, CleanParameterDoes
<1>30. CASE CleanRecord
  BY <1>30, CleanRecordDoes
<1>31. CASE StripeCleanupFails
  BY <1>31, StripeCleanupFailsDoes
<1>32. CASE CleanCloud
  BY <1>32, CleanCloudDoes
<1>33. CASE DestroySucceeded
  BY <1>33, DestroySucceededDoes
<1>34. CASE VerifyDestroyed
  BY <1>34, VerifyDestroyedDoes
<1>35. CASE CleanLocal
  BY <1>35, CleanLocalDoes
<1>36. CASE CloseTeardown
  BY <1>36, CloseTeardownDoes DEF Off
<1>37. CASE TeardownFails
  BY <1>37, TeardownFailsDoes DEF Off
<1>38. ASSUME NEW p \in running, ProcessDies(p)
      PROVE  Hooked'
  BY <1>38, ProcessDiesDoes
<1>39. ASSUME NEW r \in runs, RunStarts(r)
      PROVE  Hooked'
  BY <1>39, RunStepDoes
<1>40. ASSUME NEW r \in runs, RunSucceeds(r)
      PROVE  Hooked'
  BY <1>40, RunStepDoes
<1>41. ASSUME NEW r \in runs, RunFails(r)
      PROVE  Hooked'
  BY <1>41, RunStepDoes
<1>42. CASE UNCHANGED labVars
  BY <1>42 DEF labVars
<1> QED
  BY ONLY [LabNext]_labVars, <1>1, <1>2, <1>3, <1>4, <1>5, <1>6, <1>7, <1>8, <1>9, <1>10, <1>11,
       <1>12, <1>13, <1>14, <1>15, <1>16, <1>17, <1>18, <1>19, <1>20, <1>21, <1>22, <1>23, <1>24,
       <1>25, <1>26, <1>27, <1>28, <1>29, <1>30, <1>31, <1>32, <1>33, <1>34, <1>35, <1>36, <1>37,
       <1>38, <1>39, <1>40, <1>41, <1>42 DEF LabNext, Deploy, Teardown

\* A lab that is announced as ready has the one endpoint whose secret is stored,
\* and a stack that calls its tunnel, verifies with its secret and serves its
\* user interface, whatever was resumed or reused on the way.
THEOREM ActiveIsWhole == LabSpec => []ActiveLabIsWhole
<1>1. LabInit => RunsAwaited /\ GoneForGood /\ SameSecret /\ WellPrepared /\ Hooked
  <2>1. ASSUME LabInit
        PROVE  /\ supervisor.at = "off" /\ runs = {} /\ cloud.sets = {} /\ cloud.stack = Undefined
               /\ file.phase = "absent"
    BY <2>1 DEF LabInit, Off, Empty
  <2> QED
    BY <2>1 DEF RunsAwaited, OnlyAwaitedRuns, GoneForGood, SameSecret, SecretKnown, Signed,
                WellPrepared, Prepared, Hooked, At, Routed, Built
<1>2. ASSUME LabShape, RunsAwaited, GoneForGood, SameSecret, WellPrepared, Hooked,
             [LabNext]_labVars
      PROVE  /\ LabShape' /\ RunsAwaited' /\ GoneForGood' /\ SameSecret' /\ WellPrepared' /\ Hooked'
  <2>1. SameSecret'
    BY <1>2, SecretKnownKept, SignedKept DEF SameSecret
  <2> QED
    BY <1>2, <2>1, LabShapeKept, RunsAwaitedKept, GoneForGoodKept, WellPreparedKept, HookedKept
<1>3. LabSpec => [](LabShape /\ WellPrepared /\ Hooked /\ SameSecret)
  BY <1>1, <1>2, LabShapeInit, PTL DEF LabSpec
<1>4. LabShape /\ WellPrepared /\ Hooked /\ SameSecret => ActiveLabIsWhole
  <2> SUFFICES ASSUME LabShape, WellPrepared, Hooked, SameSecret, At("active"), ~spent.abandoned
               PROVE  ActiveLabIsWhole
    BY DEF ActiveLabIsWhole
  <2>1. StackIs(Stable) /\ cloud.stack.url = file.tunnel.pid /\ supervisor.api = cloud.stack.api
    BY DEF WellPrepared, Prepared, At, Built, Url
  <2>2. cloud.stack.api # Undefined
    BY <2>1 DEF LabShape, Serialised, StackIs, Stable
  <2>3. cloud.stack.digest = secret
    BY <2>1, <2>2 DEF SameSecret, Signed, StackIs
  <2>4. /\ stripe.endpoints = {file.endpoint} /\ stripe.parameter = file.endpoint
        /\ file.tunnel.port = file.vendor.port
        /\ file.vendor.api = supervisor.api /\ file.ui.api = supervisor.api
    BY DEF Hooked, At, Routed, Built
  <2> QED
    BY <2>1, <2>3, <2>4 DEF ActiveLabIsWhole
<1> QED
  BY <1>3, <1>4, PTL

(***************************************************************************)
(* Nothing is lost: what is out of hand grows only by deaths of the        *)
(* supervisor and by answers of Stripe that do not come.                   *)
(***************************************************************************)

\* The processes the lab speaks of have numbers that were handed out.
AllNumbered ==
  \A x \in {file.vendor, file.tunnel, file.ui, supervisor.started} :
    x # Undefined => x.pid \in 1..made

Remembered == AllNumbered /\ IsFiniteSet(running) /\ IsFiniteSet(stripe.endpoints)

\* Whatever process is recorded was started.
LEMMA NumbersRemembered ==
  ASSUME LabShape, Remembered, [LabNext]_labVars
  PROVE  AllNumbered'
<1> USE LabShapeTypes, NothingMadeIsUndefined DEF LabShape, AtHand, Remembered, AllNumbered,
     AwaitsRun, SupervisorTo, Continues, MovesTo, FileTo, CloudTo, StripeTo, SpentTo,
     SpentAsBefore, Left, ConcludedAs
<1>0. made' \in Nat /\ \A n \in 1..made : n \in 1..made' /\ made + 1 \in 1..(made + 1)
  BY FieldsKept
<1> USE <1>0
<1>1. CASE StartDeploy
  BY <1>1, StartDeployDoes
<1>2. CASE ChecksPass
  BY <1>2, ChecksPassDoes
<1>3. CASE ReuseBoundary
  BY <1>3, ReuseBoundaryDoes
<1>4. CASE ReplaceBoundary
  <2>1. PICK p \in OwnProcesses : p.pid = made + 1 /\ Continues("vendor", p)
    BY <1>4, ReplaceBoundaryDoes
  <2>2. made' = made + 1 /\ UNCHANGED file
    BY <1>4, ReplaceBoundaryDoes
  <2>3. p.pid \in 1..made'
    BY <2>1, <2>2
  <2> QED
    BY <2>1, <2>2, <2>3
<1>5. CASE StartTunnel
  BY <1>5, StartTunnelDoes
<1>6. CASE RecordTunnel
  BY <1>6, RecordTunnelDoes
<1>7. CASE AdoptPrepared
  BY <1>7, AdoptPreparedDoes
<1>8. CASE ReuseDeployed
  BY <1>8, ReuseDeployedDoes
<1>9. CASE DispatchPrepare
  BY <1>9, DispatchPrepareDoes
<1>10. CASE PrepareSucceeded
  BY <1>10, PrepareSucceededDoes
<1>11. CASE DispatchExecute
  BY <1>11, DispatchExecuteDoes
<1>12. CASE ExecuteSucceeded
  BY <1>12, ExecuteSucceededDoes
<1>13. CASE CreateEndpoint
  BY <1>13, CreateEndpointDoes
<1>14. CASE StoreSecret
  BY <1>14, StoreSecretDoes
<1>15. CASE RestartVendor
  BY <1>15, RestartVendorDoes
<1>16. CASE ReuseUi
  BY <1>16, ReuseUiDoes
<1>17. CASE StartUi
  BY <1>17, StartUiDoes
<1>18. CASE RecordUi
  BY <1>18, RecordUiDoes
<1>19. CASE Activate
  BY <1>19, ActivateDoes
<1>20. CASE StepFails
  BY <1>20, StepFailsDoes
<1>21. CASE ChecksFail
  BY <1>21, ChecksFailDoes DEF Off
<1>22. CASE Interrupt
  BY <1>22, InterruptDoes
<1>23. CASE StopDeploying
  BY <1>23, StopDeployingDoes
<1>24. CASE SupervisorDies
  BY <1>24, SupervisorDiesDoes DEF Off
<1>25. CASE EndDeploy
  BY <1>25, EndDeployDoes DEF Off
<1>26. CASE StartDestroy
  BY <1>26, StartDestroyDoes
<1>27. CASE CleanUi
  BY <1>27, CleanUiDoes
<1>28. CASE CleanEndpoint
  BY <1>28, CleanEndpointDoes
<1>29. CASE CleanParameter
  BY <1>29, CleanParameterDoes
<1>30. CASE CleanRecord
  BY <1>30, CleanRecordDoes
<1>31. CASE StripeCleanupFails
  BY <1>31, StripeCleanupFailsDoes
<1>32. CASE CleanCloud
  BY <1>32, CleanCloudDoes
<1>33. CASE DestroySucceeded
  BY <1>33, DestroySucceededDoes
<1>34. CASE VerifyDestroyed
  BY <1>34, VerifyDestroyedDoes
<1>35. CASE CleanLocal
  BY <1>35, CleanLocalDoes
<1>36. CASE CloseTeardown
  BY <1>36, CloseTeardownDoes DEF Off
<1>37. CASE TeardownFails
  BY <1>37, TeardownFailsDoes DEF Off
<1>38. ASSUME NEW p \in running, ProcessDies(p)
      PROVE  AllNumbered'
  BY <1>38, ProcessDiesDoes
<1>39. ASSUME NEW r \in runs, RunStarts(r)
      PROVE  AllNumbered'
  BY <1>39, RunStepDoes
<1>40. ASSUME NEW r \in runs, RunSucceeds(r)
      PROVE  AllNumbered'
  BY <1>40, RunStepDoes
<1>41. ASSUME NEW r \in runs, RunFails(r)
      PROVE  AllNumbered'
  BY <1>41, RunStepDoes
<1>42. CASE UNCHANGED labVars
  BY <1>42 DEF labVars
<1> QED
  BY ONLY [LabNext]_labVars, <1>1, <1>2, <1>3, <1>4, <1>5, <1>6, <1>7, <1>8, <1>9, <1>10, <1>11,
       <1>12, <1>13, <1>14, <1>15, <1>16, <1>17, <1>18, <1>19, <1>20, <1>21, <1>22, <1>23, <1>24,
       <1>25, <1>26, <1>27, <1>28, <1>29, <1>30, <1>31, <1>32, <1>33, <1>34, <1>35, <1>36, <1>37,
       <1>38, <1>39, <1>40, <1>41, <1>42 DEF LabNext, Deploy, Teardown

\* Only finitely many things are made.
LEMMA StayFinite ==
  ASSUME LabShape, Remembered, [LabNext]_labVars
  PROVE  IsFiniteSet(running') /\ IsFiniteSet(stripe'.endpoints)
<1> USE FS_EmptySet, FS_AddElement, FS_Subset DEF Remembered, StripeTo
<1>1. CASE StartDeploy
  BY <1>1, StartDeployDoes
<1>2. CASE ChecksPass
  BY <1>2, ChecksPassDoes
<1>3. CASE ReuseBoundary
  BY <1>3, ReuseBoundaryDoes
<1>4. CASE ReplaceBoundary
  <2>1. IsFiniteSet(running \ {file.vendor, file.tunnel})
    BY FS_Subset DEF Remembered
  <2>2. \E p \in OwnProcesses : running' = (running \ {file.vendor, file.tunnel}) \cup {p}
    BY <1>4, ReplaceBoundaryDoes
  <2>3. IsFiniteSet(running')
    BY ONLY <2>1, <2>2, FS_AddElement
  <2> QED
    BY <1>4, <2>3, ReplaceBoundaryDoes
<1>5. CASE StartTunnel
  BY <1>5, StartTunnelDoes
<1>6. CASE RecordTunnel
  BY <1>6, RecordTunnelDoes
<1>7. CASE AdoptPrepared
  BY <1>7, AdoptPreparedDoes
<1>8. CASE ReuseDeployed
  BY <1>8, ReuseDeployedDoes
<1>9. CASE DispatchPrepare
  BY <1>9, DispatchPrepareDoes
<1>10. CASE PrepareSucceeded
  BY <1>10, PrepareSucceededDoes
<1>11. CASE DispatchExecute
  BY <1>11, DispatchExecuteDoes
<1>12. CASE ExecuteSucceeded
  BY <1>12, ExecuteSucceededDoes
<1>13. CASE CreateEndpoint
  BY <1>13, CreateEndpointDoes
<1>14. CASE StoreSecret
  BY <1>14, StoreSecretDoes
<1>15. CASE RestartVendor
  BY <1>15, RestartVendorDoes
<1>16. CASE ReuseUi
  BY <1>16, ReuseUiDoes
<1>17. CASE StartUi
  BY <1>17, StartUiDoes
<1>18. CASE RecordUi
  BY <1>18, RecordUiDoes
<1>19. CASE Activate
  BY <1>19, ActivateDoes
<1>20. CASE StepFails
  BY <1>20, StepFailsDoes
<1>21. CASE ChecksFail
  BY <1>21, ChecksFailDoes DEF Off
<1>22. CASE Interrupt
  BY <1>22, InterruptDoes
<1>23. CASE StopDeploying
  BY <1>23, StopDeployingDoes
<1>24. CASE SupervisorDies
  BY <1>24, SupervisorDiesDoes DEF Off
<1>25. CASE EndDeploy
  BY <1>25, EndDeployDoes DEF Off
<1>26. CASE StartDestroy
  BY <1>26, StartDestroyDoes
<1>27. CASE CleanUi
  BY <1>27, CleanUiDoes
<1>28. CASE CleanEndpoint
  BY <1>28, CleanEndpointDoes
<1>29. CASE CleanParameter
  BY <1>29, CleanParameterDoes
<1>30. CASE CleanRecord
  BY <1>30, CleanRecordDoes
<1>31. CASE StripeCleanupFails
  BY <1>31, StripeCleanupFailsDoes
<1>32. CASE CleanCloud
  BY <1>32, CleanCloudDoes
<1>33. CASE DestroySucceeded
  BY <1>33, DestroySucceededDoes
<1>34. CASE VerifyDestroyed
  BY <1>34, VerifyDestroyedDoes
<1>35. CASE CleanLocal
  BY <1>35, CleanLocalDoes
<1>36. CASE CloseTeardown
  BY <1>36, CloseTeardownDoes DEF Off
<1>37. CASE TeardownFails
  BY <1>37, TeardownFailsDoes DEF Off
<1>38. ASSUME NEW p \in running, ProcessDies(p)
      PROVE  IsFiniteSet(running') /\ IsFiniteSet(stripe'.endpoints)
  <2>1. IsFiniteSet(running \ {p})
    BY FS_Subset DEF Remembered
  <2>2. running' = running \ {p} \/ \E q \in Processes : running' = (running \ {p}) \cup {q}
    BY <1>38, ProcessDiesDoes
  <2>3. IsFiniteSet(running')
    BY ONLY <2>1, <2>2, FS_AddElement
  <2> QED
    BY <1>38, <2>3, ProcessDiesDoes
<1>39. ASSUME NEW r \in runs, RunStarts(r)
      PROVE  IsFiniteSet(running') /\ IsFiniteSet(stripe'.endpoints)
  BY <1>39, RunStepDoes
<1>40. ASSUME NEW r \in runs, RunSucceeds(r)
      PROVE  IsFiniteSet(running') /\ IsFiniteSet(stripe'.endpoints)
  BY <1>40, RunStepDoes
<1>41. ASSUME NEW r \in runs, RunFails(r)
      PROVE  IsFiniteSet(running') /\ IsFiniteSet(stripe'.endpoints)
  BY <1>41, RunStepDoes
<1>42. CASE UNCHANGED labVars
  BY <1>42 DEF labVars
<1> QED
  BY ONLY [LabNext]_labVars, <1>1, <1>2, <1>3, <1>4, <1>5, <1>6, <1>7, <1>8, <1>9, <1>10, <1>11,
       <1>12, <1>13, <1>14, <1>15, <1>16, <1>17, <1>18, <1>19, <1>20, <1>21, <1>22, <1>23, <1>24,
       <1>25, <1>26, <1>27, <1>28, <1>29, <1>30, <1>31, <1>32, <1>33, <1>34, <1>35, <1>36, <1>37,
       <1>38, <1>39, <1>40, <1>41, <1>42 DEF LabNext, Deploy, Teardown

\* What a step has taken out of the lab's hands, or is about to.
HandsOff ==
  /\ At("vendor") => file.vendor \notin running /\ file.tunnel \notin running
  /\ At("tunnel") => file.tunnel = Undefined
  /\ At("hooked") => file.vendor \notin running
  /\ At("ui") => file.ui = Undefined
  /\ supervisor.at \in {"cleanParameter", "cleanRecord"} => file.endpoint \notin stripe.endpoints
  /\ supervisor.at \in TeardownSteps \ {"cleanUi"} /\ ~supervisor.errors => file.ui = Undefined
  /\ At("closing") => file.vendor \notin running /\ file.tunnel \notin running

\* What was taken out of hand stays so.
LEMMA HandsOffKept ==
  ASSUME LabShape, Remembered, HandsOff, [LabNext]_labVars
  PROVE  HandsOff'
<1> USE LabShapeTypes, NothingMadeIsUndefined DEF LabShape, AtHand, HandsOff, At, TeardownSteps,
     AwaitsRun, SupervisorTo, Continues, MovesTo, FileTo, CloudTo, StripeTo, SpentTo,
     SpentAsBefore, Left, ConcludedAs
<1>1. CASE StartDeploy
  BY <1>1, StartDeployDoes
<1>2. CASE ChecksPass
  BY <1>2, ChecksPassDoes
<1>3. CASE ReuseBoundary
  BY <1>3, ReuseBoundaryDoes
<1>4. CASE ReplaceBoundary
  BY <1>4, ReplaceBoundaryDoes DEF Remembered, AllNumbered
<1>5. CASE StartTunnel
  BY <1>5, StartTunnelDoes
<1>6. CASE RecordTunnel
  BY <1>6, RecordTunnelDoes
<1>7. CASE AdoptPrepared
  BY <1>7, AdoptPreparedDoes
<1>8. CASE ReuseDeployed
  BY <1>8, ReuseDeployedDoes
<1>9. CASE DispatchPrepare
  BY <1>9, DispatchPrepareDoes
<1>10. CASE PrepareSucceeded
  BY <1>10, PrepareSucceededDoes
<1>11. CASE DispatchExecute
  BY <1>11, DispatchExecuteDoes
<1>12. CASE ExecuteSucceeded
  BY <1>12, ExecuteSucceededDoes
<1>13. CASE CreateEndpoint
  BY <1>13, CreateEndpointDoes
<1>14. CASE StoreSecret
  BY <1>14, StoreSecretDoes
<1>15. CASE RestartVendor
  BY <1>15, RestartVendorDoes DEF Remembered, AllNumbered
<1>16. CASE ReuseUi
  BY <1>16, ReuseUiDoes
<1>17. CASE StartUi
  BY <1>17, StartUiDoes
<1>18. CASE RecordUi
  BY <1>18, RecordUiDoes
<1>19. CASE Activate
  BY <1>19, ActivateDoes
<1>20. CASE StepFails
  BY <1>20, StepFailsDoes
<1>21. CASE ChecksFail
  BY <1>21, ChecksFailDoes DEF Off
<1>22. CASE Interrupt
  BY <1>22, InterruptDoes
<1>23. CASE StopDeploying
  BY <1>23, StopDeployingDoes
<1>24. CASE SupervisorDies
  BY <1>24, SupervisorDiesDoes DEF Off
<1>25. CASE EndDeploy
  BY <1>25, EndDeployDoes DEF Off
<1>26. CASE StartDestroy
  BY <1>26, StartDestroyDoes
<1>27. CASE CleanUi
  BY <1>27, CleanUiDoes
<1>28. CASE CleanEndpoint
  BY <1>28, CleanEndpointDoes
<1>29. CASE CleanParameter
  BY <1>29, CleanParameterDoes
<1>30. CASE CleanRecord
  BY <1>30, CleanRecordDoes
<1>31. CASE StripeCleanupFails
  BY <1>31, StripeCleanupFailsDoes
<1>32. CASE CleanCloud
  BY <1>32, CleanCloudDoes
<1>33. CASE DestroySucceeded
  BY <1>33, DestroySucceededDoes
<1>34. CASE VerifyDestroyed
  BY <1>34, VerifyDestroyedDoes
<1>35. CASE CleanLocal
  BY <1>35, CleanLocalDoes
<1>36. CASE CloseTeardown
  BY <1>36, CloseTeardownDoes DEF Off
<1>37. CASE TeardownFails
  BY <1>37, TeardownFailsDoes DEF Off
<1>38. ASSUME NEW p \in running, ProcessDies(p)
      PROVE  HandsOff'
  <2>1. /\ UNCHANGED <<file, supervisor, stripe>>
        /\ \A q \in running' : q \in running \/ q.kind = "other"
    BY <1>38, ProcessDiesDoes
  <2>2. \A x \in {file.vendor, file.tunnel} : x # Undefined => x.kind # "other"
    BY DEF Files, OwnProcesses, OwnKinds
  <2>3. Undefined \notin running'
    BY <1>38, ProcessDiesDoes, UndefinedIsNothingMade
  <2> QED
    BY <2>1, <2>2, <2>3
<1>39. ASSUME NEW r \in runs, RunStarts(r)
      PROVE  HandsOff'
  BY <1>39, RunStepDoes
<1>40. ASSUME NEW r \in runs, RunSucceeds(r)
      PROVE  HandsOff'
  BY <1>40, RunStepDoes
<1>41. ASSUME NEW r \in runs, RunFails(r)
      PROVE  HandsOff'
  BY <1>41, RunStepDoes
<1>42. CASE UNCHANGED labVars
  BY <1>42 DEF labVars
<1> QED
  BY ONLY [LabNext]_labVars, <1>1, <1>2, <1>3, <1>4, <1>5, <1>6, <1>7, <1>8, <1>9, <1>10, <1>11,
       <1>12, <1>13, <1>14, <1>15, <1>16, <1>17, <1>18, <1>19, <1>20, <1>21, <1>22, <1>23, <1>24,
       <1>25, <1>26, <1>27, <1>28, <1>29, <1>30, <1>31, <1>32, <1>33, <1>34, <1>35, <1>36, <1>37,
       <1>38, <1>39, <1>40, <1>41, <1>42 DEF LabNext, Deploy, Teardown

\* What the lab made and nothing in hand leads to any more.
OutOfHand ==
  { p \in running :
      Own(p) /\ p \notin {file.vendor, file.tunnel, file.ui, supervisor.started} }
EndpointsOutOfHand ==
  { e \in stripe.endpoints : e # file.endpoint /\ (At("endpoint") => e # made) }

\* A step keeps everything in hand, or loses one thing to a death or to an
\* answer that does not come.
LosesAtMost(processes, endpoints) ==
  /\ OutOfHand' \subseteq OutOfHand \cup processes
  /\ EndpointsOutOfHand' \subseteq EndpointsOutOfHand \cup endpoints

KeepsHold ==
  LosesAtMost({}, {}) /\ spent'.deaths = spent.deaths /\ spent'.lost = spent.lost

LosesHold ==
  /\ spent'.deaths + spent'.lost = spent.deaths + spent.lost + 1
  /\ \E x : LosesAtMost({x}, {}) \/ LosesAtMost({}, {x})

\* Only a death and an answer that is lost strand anything, and one thing each.
LEMMA HoldIsKept ==
  ASSUME LabShape, Remembered, HandsOff, SecretCovered, [LabNext]_labVars
  PROVE  KeepsHold \/ LosesHold
<1> USE LabShapeTypes, NothingMadeIsUndefined DEF KeepsHold, LosesAtMost, OutOfHand,
     EndpointsOutOfHand, Own, LabShape, AtHand, HandsOff, At, TeardownSteps, AwaitsRun,
     SupervisorTo, Continues, MovesTo, FileTo, CloudTo, StripeTo, SpentTo, SpentAsBefore, Left,
     ConcludedAs
<1>1. CASE StartDeploy
  BY <1>1, StartDeployDoes
<1>2. CASE ChecksPass
  BY <1>2, ChecksPassDoes
<1>3. CASE ReuseBoundary
  BY <1>3, ReuseBoundaryDoes
<1>4. CASE ReplaceBoundary
  <2>1. PICK p \in OwnProcesses :
          running' = (running \ {file.vendor, file.tunnel}) \cup {p} /\ Continues("vendor", p)
    BY <1>4, ReplaceBoundaryDoes
  <2>2. UNCHANGED <<file, stripe, spent>> /\ supervisor.at = "boundary"
    BY <1>4, ReplaceBoundaryDoes
  <2>3. Undefined \notin running /\ supervisor.started = Undefined /\ supervisor'.at = "vendor"
        /\ supervisor'.started = p
    BY <2>1, <2>2, UndefinedIsNothingMade
  <2>4. OutOfHand' \subseteq OutOfHand
    BY <2>1, <2>2, <2>3
  <2>5. EndpointsOutOfHand' \subseteq EndpointsOutOfHand
    BY <2>2, <2>3
  <2> QED
    BY <2>2, <2>4, <2>5
<1>5. CASE StartTunnel
  BY <1>5, StartTunnelDoes
<1>6. CASE RecordTunnel
  BY <1>6, RecordTunnelDoes
<1>7. CASE AdoptPrepared
  BY <1>7, AdoptPreparedDoes
<1>8. CASE ReuseDeployed
  BY <1>8, ReuseDeployedDoes
<1>9. CASE DispatchPrepare
  BY <1>9, DispatchPrepareDoes
<1>10. CASE PrepareSucceeded
  BY <1>10, PrepareSucceededDoes
<1>11. CASE DispatchExecute
  BY <1>11, DispatchExecuteDoes
<1>12. CASE ExecuteSucceeded
  BY <1>12, ExecuteSucceededDoes
<1>13. CASE CreateEndpoint
  <2>1. /\ UNCHANGED running /\ supervisor'.started = supervisor.started
        /\ file'.vendor = file.vendor /\ file'.tunnel = file.tunnel /\ file'.ui = file.ui
        /\ file'.endpoint = file.endpoint
        /\ stripe'.endpoints = {made + 1} /\ made' = made + 1
    BY <1>13, CreateEndpointDoes
  <2>2. OutOfHand' \subseteq OutOfHand
    BY <2>1
  <2>3. CASE supervisor'.at = "endpoint" /\ SpentAsBefore
    BY <2>1, <2>2, <2>3
  <2>4. CASE SpentTo(spent.deaths, spent.lost + 1, spent.abandoned)
    <3>1. LosesAtMost({}, {made + 1})
      BY <2>1, <2>2
    <3>2. spent'.deaths + spent'.lost = spent.deaths + spent.lost + 1
      BY <2>4 DEF Spendings
    <3> QED
      BY <3>1, <3>2 DEF LosesHold
  <2> QED
    BY <1>13, <2>3, <2>4, CreateEndpointDoes
<1>14. CASE StoreSecret
  BY <1>14, StoreSecretDoes
<1>15. CASE RestartVendor
  <2>1. PICK p \in OwnProcesses :
          running' = (running \ {file.vendor}) \cup {p} /\ Continues("hooked", p)
    BY <1>15, RestartVendorDoes
  <2>2. UNCHANGED <<file, stripe, spent>> /\ supervisor.at = "stored"
    BY <1>15, RestartVendorDoes
  <2>3. Undefined \notin running /\ supervisor.started = Undefined /\ supervisor'.at = "hooked"
        /\ supervisor'.started = p
    BY <2>1, <2>2, UndefinedIsNothingMade
  <2>4. OutOfHand' \subseteq OutOfHand
    BY <2>1, <2>2, <2>3
  <2>5. EndpointsOutOfHand' \subseteq EndpointsOutOfHand
    BY <2>2, <2>3
  <2> QED
    BY <2>2, <2>4, <2>5
<1>16. CASE ReuseUi
  BY <1>16, ReuseUiDoes
<1>17. CASE StartUi
  BY <1>17, StartUiDoes
<1>18. CASE RecordUi
  BY <1>18, RecordUiDoes
<1>19. CASE Activate
  BY <1>19, ActivateDoes
<1>20. CASE StepFails
  BY <1>20, StepFailsDoes
<1>21. CASE ChecksFail
  BY <1>21, ChecksFailDoes DEF Off
<1>22. CASE Interrupt
  BY <1>22, InterruptDoes
<1>23. CASE StopDeploying
  BY <1>23, StopDeployingDoes
<1>24. CASE SupervisorDies
  <2>1. /\ UNCHANGED <<file, running, stripe, made>> /\ supervisor'.at = "off"
        /\ supervisor'.started = Undefined
    BY <1>24, SupervisorDiesDoes DEF Off
  <2>2. spent'.deaths + spent'.lost = spent.deaths + spent.lost + 1
    BY <1>24, SupervisorDiesDoes DEF Spendings
  <2>3. CASE supervisor.at = "endpoint"
    <3>1. LosesAtMost({}, {made})
      BY <2>1, <2>3
    <3> QED
      BY <2>2, <3>1 DEF LosesHold
  <2>4. CASE supervisor.at # "endpoint"
    <3>1. LosesAtMost({supervisor.started}, {})
      BY <2>1, <2>4
    <3> QED
      BY <2>2, <3>1 DEF LosesHold
  <2> QED
    BY <2>3, <2>4
<1>25. CASE EndDeploy
  BY <1>25, EndDeployDoes DEF Off
<1>26. CASE StartDestroy
  BY <1>26, StartDestroyDoes
<1>27. CASE CleanUi
  BY <1>27, CleanUiDoes
<1>28. CASE CleanEndpoint
  BY <1>28, CleanEndpointDoes
<1>29. CASE CleanParameter
  BY <1>29, CleanParameterDoes
<1>30. CASE CleanRecord
  BY <1>30, CleanRecordDoes
<1>31. CASE StripeCleanupFails
  BY <1>31, StripeCleanupFailsDoes
<1>32. CASE CleanCloud
  BY <1>32, CleanCloudDoes
<1>33. CASE DestroySucceeded
  BY <1>33, DestroySucceededDoes
<1>34. CASE VerifyDestroyed
  BY <1>34, VerifyDestroyedDoes
<1>35. CASE CleanLocal
  BY <1>35, CleanLocalDoes
<1>36. CASE CloseTeardown
  <2>1. /\ UNCHANGED <<running, stripe>> /\ supervisor'.at = "off" /\ supervisor.at = "closing"
        /\ supervisor'.started = Undefined
        /\ spent'.deaths = spent.deaths /\ spent'.lost = spent.lost
    BY <1>36, CloseTeardownDoes DEF Off
  <2>2. file'.ui = file.ui /\ file'.endpoint = file.endpoint
    BY <1>36, <2>1, CloseTeardownDoes DEF SecretCovered
  <2>3. supervisor.started = Undefined /\ Undefined \notin running
        /\ file.vendor \notin running /\ file.tunnel \notin running
    BY <2>1, UndefinedIsNothingMade
  <2>4. LosesAtMost({}, {})
    BY <2>1, <2>2, <2>3
  <2> QED
    BY <2>1, <2>4
<1>37. CASE TeardownFails
  BY <1>37, TeardownFailsDoes DEF Off
<1>38. ASSUME NEW p \in running, ProcessDies(p)
      PROVE  KeepsHold \/ LosesHold
  BY <1>38, ProcessDiesDoes
<1>39. ASSUME NEW r \in runs, RunStarts(r)
      PROVE  KeepsHold \/ LosesHold
  BY <1>39, RunStepDoes
<1>40. ASSUME NEW r \in runs, RunSucceeds(r)
      PROVE  KeepsHold \/ LosesHold
  BY <1>40, RunStepDoes
<1>41. ASSUME NEW r \in runs, RunFails(r)
      PROVE  KeepsHold \/ LosesHold
  BY <1>41, RunStepDoes
<1>42. CASE UNCHANGED labVars
  BY <1>42 DEF labVars
<1> QED
  BY ONLY [LabNext]_labVars, <1>1, <1>2, <1>3, <1>4, <1>5, <1>6, <1>7, <1>8, <1>9, <1>10, <1>11,
       <1>12, <1>13, <1>14, <1>15, <1>16, <1>17, <1>18, <1>19, <1>20, <1>21, <1>22, <1>23, <1>24,
       <1>25, <1>26, <1>27, <1>28, <1>29, <1>30, <1>31, <1>32, <1>33, <1>34, <1>35, <1>36, <1>37,
       <1>38, <1>39, <1>40, <1>41, <1>42 DEF LabNext, Deploy, Teardown

\* A part is not larger than the whole.
LEMMA NoMore ==
  ASSUME NEW S, IsFiniteSet(S), NEW T, T \subseteq S
  PROVE  Cardinality(T) \in Nat /\ Cardinality(S) \in Nat /\ Cardinality(T) <= Cardinality(S)
BY FS_Subset, FS_CardinalityType

\* One element adds at most one.
LEMMA OneMore ==
  ASSUME NEW S, IsFiniteSet(S), NEW x, NEW T, T \subseteq S \cup {x}
  PROVE  /\ Cardinality(T) \in Nat /\ Cardinality(S) \in Nat
         /\ Cardinality(T) <= Cardinality(S) + 1
<1>0. Cardinality(S) \in Nat
  BY FS_CardinalityType
<1>1. IsFiniteSet(S \cup {x}) /\ Cardinality(S \cup {x}) <= Cardinality(S) + 1
  <2>1. /\ IsFiniteSet(S \cup {x})
        /\ Cardinality(S \cup {x}) = IF x \in S THEN Cardinality(S) ELSE Cardinality(S) + 1
    BY FS_AddElement
  <2> QED
    BY <1>0, <2>1
<1>2. /\ Cardinality(T) \in Nat /\ Cardinality(S \cup {x}) \in Nat
      /\ Cardinality(T) <= Cardinality(S \cup {x})
  BY <1>1, NoMore
<1> QED
  BY <1>0, <1>1, <1>2

\* As many things are out of hand as there were deaths and lost answers.
FewOutOfHand ==
  Cardinality(OutOfHand) + Cardinality(EndpointsOutOfHand) <= spent.deaths + spent.lost

\* A death or a lost answer pays for what it strands.
LEMMA FewOutOfHandKept ==
  ASSUME LabShape, Remembered, HandsOff, SecretCovered, FewOutOfHand, [LabNext]_labVars
  PROVE  FewOutOfHand'
<1>1. IsFiniteSet(OutOfHand) /\ IsFiniteSet(EndpointsOutOfHand)
  BY FS_Subset DEF Remembered, OutOfHand, EndpointsOutOfHand
<1>2. PICK P, E : P = OutOfHand' /\ E = EndpointsOutOfHand'
  OBVIOUS
<1>3. spent.deaths \in Nat /\ spent.lost \in Nat /\ spent'.deaths \in Nat /\ spent'.lost \in Nat
  BY LabShapeTypes, FieldsKept DEF Spendings
<1>4. Cardinality(P) + Cardinality(E) <= spent'.deaths + spent'.lost
  <2>1. CASE KeepsHold
    <3>1. P \subseteq OutOfHand /\ E \subseteq EndpointsOutOfHand
      BY <1>2, <2>1 DEF KeepsHold, LosesAtMost
    <3>2. spent'.deaths = spent.deaths /\ spent'.lost = spent.lost
      BY <2>1 DEF KeepsHold
    <3> QED
      BY <1>1, <1>3, <3>1, <3>2, NoMore DEF FewOutOfHand
  <2>2. CASE LosesHold
    <3>1. PICK x : LosesAtMost({x}, {}) \/ LosesAtMost({}, {x})
      BY <2>2 DEF LosesHold
    <3>2. spent'.deaths + spent'.lost = spent.deaths + spent.lost + 1
      BY <2>2 DEF LosesHold
    <3>3. CASE LosesAtMost({x}, {})
      <4>1. P \subseteq OutOfHand \cup {x} /\ E \subseteq EndpointsOutOfHand
        BY <1>2, <3>3 DEF LosesAtMost
      <4>2. /\ Cardinality(P) \in Nat /\ Cardinality(OutOfHand) \in Nat
            /\ Cardinality(P) <= Cardinality(OutOfHand) + 1
        BY ONLY <1>1, <4>1, OneMore
      <4>3. /\ Cardinality(E) \in Nat /\ Cardinality(EndpointsOutOfHand) \in Nat
            /\ Cardinality(E) <= Cardinality(EndpointsOutOfHand)
        BY ONLY <1>1, <4>1, NoMore
      <4> QED
        BY <1>3, <3>2, <4>2, <4>3 DEF FewOutOfHand
    <3>4. CASE LosesAtMost({}, {x})
      <4>1. P \subseteq OutOfHand /\ E \subseteq EndpointsOutOfHand \cup {x}
        BY <1>2, <3>4 DEF LosesAtMost
      <4>2. /\ Cardinality(E) \in Nat /\ Cardinality(EndpointsOutOfHand) \in Nat
            /\ Cardinality(E) <= Cardinality(EndpointsOutOfHand) + 1
        BY ONLY <1>1, <4>1, OneMore
      <4>3. /\ Cardinality(P) \in Nat /\ Cardinality(OutOfHand) \in Nat
            /\ Cardinality(P) <= Cardinality(OutOfHand)
        BY ONLY <1>1, <4>1, NoMore
      <4> QED
        BY <1>3, <3>2, <4>2, <4>3 DEF FewOutOfHand
    <3> QED
      BY ONLY <3>1, <3>3, <3>4
  <2> QED
    BY ONLY <2>1, <2>2, HoldIsKept, LabShape, Remembered, HandsOff, SecretCovered, [LabNext]_labVars
<1>5. FewOutOfHand' <=> Cardinality(OutOfHand') + Cardinality(EndpointsOutOfHand')
                          <= spent'.deaths + spent'.lost
  BY DEF FewOutOfHand
<1> QED
  BY <1>2, <1>4, <1>5

\* Between commands, processes and endpoints that the file does not name are at
\* most as many as the supervisor's deaths and Stripe's lost answers.
THEOREM NothingIsStranded == LabSpec => []NothingStranded
<1>1. LabInit => SecretCovered /\ Remembered /\ HandsOff /\ FewOutOfHand
  <2>1. ASSUME LabInit
        PROVE  /\ supervisor.at = "off" /\ running = {} /\ stripe.endpoints = {}
               /\ stripe.parameter = Undefined /\ supervisor.started = Undefined
               /\ file.vendor = Undefined /\ file.tunnel = Undefined /\ file.ui = Undefined
               /\ spent.deaths = 0 /\ spent.lost = 0
    BY <2>1 DEF LabInit, Off, Empty
  <2>2. ASSUME LabInit PROVE FewOutOfHand
    <3>1. OutOfHand = {} /\ EndpointsOutOfHand = {}
      BY <2>1, <2>2 DEF OutOfHand, EndpointsOutOfHand
    <3> QED
      BY <2>1, <2>2, <3>1, FS_EmptySet DEF FewOutOfHand
  <2>3. ASSUME LabInit PROVE SecretCovered /\ HandsOff
    BY <2>1, <2>3 DEF SecretCovered, SecretIsRecoverable, HandsOff, At, TeardownSteps
  <2>4. ASSUME LabInit PROVE Remembered
    BY <2>1, <2>4, FS_EmptySet DEF Remembered, AllNumbered
  <2> QED
    BY <2>2, <2>3, <2>4
<1>2. ASSUME LabShape, SecretCovered, Remembered, HandsOff, FewOutOfHand, [LabNext]_labVars
      PROVE  LabShape' /\ SecretCovered' /\ Remembered' /\ HandsOff' /\ FewOutOfHand'
  <2>1. Remembered'
    BY <1>2, NumbersRemembered, StayFinite DEF Remembered
  <2> QED
    BY <1>2, <2>1, LabShapeKept, SecretCoveredKept, HandsOffKept, FewOutOfHandKept
<1>3. LabSpec => [](LabShape /\ SecretCovered /\ Remembered /\ HandsOff /\ FewOutOfHand)
  BY <1>1, <1>2, LabShapeInit, PTL DEF LabSpec
<1>4. LabShape /\ Remembered /\ FewOutOfHand => NothingStranded
  <2> SUFFICES ASSUME LabShape, Remembered, FewOutOfHand, At("off") PROVE NothingStranded
    BY DEF NothingStranded
  <2>1. StrandedProcesses = OutOfHand
    BY LabShapeTypes, UndefinedIsNothingMade
       DEF At, LabShape, AtHand, StrandedProcesses, OutOfHand
  <2>2. StrandedEndpoints = EndpointsOutOfHand
    BY DEF At, StrandedEndpoints, EndpointsOutOfHand
  <2> QED
    BY <2>1, <2>2 DEF FewOutOfHand, NothingStranded
<1> QED
  BY <1>3, <1>4, PTL
(***************************************************************************)
(* OrderListing.                                                           *)
(***************************************************************************)

\* The index is behind the table, yet knows no other creation time.
CopyAgrees(o) ==
  indexed[o] # Undefined =>
    stored[o] # Undefined /\ stored[o].createdAt = indexed[o].createdAt

\* The walk lists indexed orders, none of them twice.
ListsIndexed ==
  /\ IsInjective(walk.listed)
  /\ \A n \in DOMAIN walk.listed : indexed[walk.listed[n]] # Undefined

IsListed(o) == \E n \in DOMAIN walk.listed : walk.listed[n] = o

\* While it is under way its cursor parts what it has listed from what it
\* will: nothing listed is behind the cursor, and what lasts under its filter
\* is listed or behind the cursor.
CursorParts ==
  walk.under =>
    /\ walk.cursor # Undefined
    /\ walk.cursor.filter = walk.filter
    /\ \A n \in DOMAIN walk.listed :
         ~Before(walk.cursor.position, PositionOf(walk.listed[n]))
    /\ \A o \in lasting[walk.filter] :
         IsListed(o) \/ Before(walk.cursor.position, PositionOf(o))

ListingInv ==
  /\ ListingTypeOK
  /\ \A o \in OrderNumbers : CopyAgrees(o)
  /\ \A f \in Filters : lasting[f] \subseteq Selected(indexed, f)
  /\ ListsIndexed
  /\ CursorParts
  /\ WalkEnded => \A o \in lasting[walk.filter] : IsListed(o)

LEMMA BeforeIsStrict ==
  ASSUME NEW p \in ListPosition, NEW q \in ListPosition
  PROVE  /\ ~Before(p, p)
         /\ p.order # q.order => Before(p, q) \/ Before(q, p)
         /\ \A r \in ListPosition : Before(p, q) /\ Before(q, r) => Before(p, r)
<1>1. \A r \in ListPosition : r.createdAt \in Nat /\ r.order \in Nat
  BY ListingConstants DEF ListPosition
<1>2. /\ p.createdAt \in Nat /\ p.order \in Nat
      /\ q.createdAt \in Nat /\ q.order \in Nat
  BY <1>1
<1>3. ASSUME NEW r \in ListPosition, Before(p, q), Before(q, r)
      PROVE  Before(p, r)
  <2>1. r.createdAt \in Nat /\ r.order \in Nat
    BY <1>1
  <2> QED
    BY ONLY <2>1, <1>2, <1>3 DEF Before
<1>4. ~Before(p, p) /\ (p.order # q.order => Before(p, q) \/ Before(q, p))
  BY ONLY <1>2 DEF Before
<1> QED
  BY <1>3, <1>4

LEMMA PositionOfIndexed ==
  ASSUME ListingTypeOK, NEW o \in OrderNumbers, indexed[o] # Undefined
  PROVE  PositionOf(o) \in ListPosition /\ PositionOf(o).order = o
BY DEF ListingTypeOK, ListedOrder, ListPosition, PositionOf

LEMMA ListingStarts == ListingInit => ListingInv
<1> SUFFICES ASSUME ListingInit PROVE ListingInv
  OBVIOUS
<1> USE ListingConstants DEF ListingInit, NoWalk
<1>1. walk.listed = <<>> /\ DOMAIN walk.listed = {} /\ ~walk.under
  OBVIOUS
<1>2. ListingTypeOK
  BY DEF ListingTypeOK, Walks, Filters
<1>3. ListsIndexed
  BY <1>1 DEF ListsIndexed, IsInjective
<1>4. ~WalkEnded
  BY DEF WalkEnded
<1> QED
  BY <1>1, <1>2, <1>3, <1>4 DEF ListingInv, CopyAgrees, CursorParts

\* What the walk knows stays known as long as the index only moves indexed
\* orders within their creation times and lasting orders only become fewer.
LEMMA WalkStays ==
  ASSUME ListingInv, walk' = walk, ListingTypeOK',
         \A o \in OrderNumbers : indexed[o] # Undefined =>
           indexed'[o] # Undefined /\ indexed'[o].createdAt = indexed[o].createdAt,
         \A f \in Filters : lasting'[f] \subseteq lasting[f]
  PROVE  /\ ListsIndexed' /\ CursorParts'
         /\ (WalkEnded => \A o \in lasting[walk.filter] : IsListed(o))'
<1> USE DEF ListingInv
<1>1. walk.filter \in Filters /\ walk.listed \in Seq(OrderNumbers)
  BY DEF ListingTypeOK, Walks
<1>2. \A n \in DOMAIN walk.listed : walk.listed[n] \in OrderNumbers
  BY <1>1
<1>3. ListsIndexed'
  BY <1>2 DEF ListsIndexed
<1>4. \A o \in OrderNumbers : indexed[o] # Undefined => PositionOf(o)' = PositionOf(o)
  BY DEF PositionOf
<1>5. \A o \in lasting[walk.filter] : o \in OrderNumbers /\ indexed[o] # Undefined
  BY <1>1 DEF Selected
<1>6. CursorParts'
  <2> SUFFICES ASSUME walk.under PROVE CursorParts'
    BY DEF CursorParts
  <2>1. ASSUME NEW n \in DOMAIN walk.listed
        PROVE  ~Before(walk.cursor.position, PositionOf(walk.listed[n])')
    <3>1. indexed[walk.listed[n]] # Undefined
      BY DEF ListsIndexed
    <3> QED
      BY <3>1, <1>2, <1>4 DEF CursorParts
  <2>2. ASSUME NEW o \in lasting'[walk.filter]
        PROVE  IsListed(o) \/ Before(walk.cursor.position, PositionOf(o)')
    <3>1. o \in lasting[walk.filter]
      BY <1>1
    <3> QED
      BY <3>1, <1>4, <1>5 DEF CursorParts
  <2> QED
    BY <2>1, <2>2 DEF CursorParts, IsListed, PositionOf
<1>7. ASSUME WalkEnded', NEW o \in lasting'[walk'.filter]
      PROVE  IsListed(o)'
  <2>1. o \in lasting[walk.filter]
    BY <1>1
  <2> QED
    BY <1>7, <2>1 DEF WalkEnded, IsListed, NoWalk
<1> QED
  BY <1>3, <1>6, <1>7

LEMMA CreateListedKeeps ==
  ASSUME ListingInv, NEW o \in OrderNumbers, NEW t \in Times, CreateListed(o, t)
  PROVE  ListingInv'
<1> USE ListingConstants, UndefinedIsNothingListed DEF CreateListed
<1>1. ListingTypeOK'
  <2>1. 1 \in 1..MaxChanges
    OBVIOUS
  <2> QED
    BY <2>1 DEF ListingInv, ListingTypeOK, ListedOrder
<1>2. \A p \in OrderNumbers : CopyAgrees(p)'
  BY DEF ListingInv, ListingTypeOK, CopyAgrees
<1>3. \A f \in Filters : (lasting[f] \subseteq Selected(indexed, f))'
  BY DEF ListingInv, Selected
<1> QED
  BY <1>1, <1>2, <1>3, WalkStays DEF ListingInv

LEMMA ChangeStatusKeeps ==
  ASSUME ListingInv, NEW o \in OrderNumbers, ChangeStatus(o)
  PROVE  ListingInv'
<1> USE ListingConstants, UndefinedIsNothingListed
<1>1. PICK s \in Statuses :
        stored' = [stored EXCEPT ![o] =
          [createdAt |-> stored[o].createdAt, status |-> s, version |-> stored[o].version + 1]]
  BY DEF ChangeStatus, PositionTime
<1>2. /\ stored[o] # Undefined /\ stored[o].version < MaxChanges
      /\ UNCHANGED <<indexed, walk, lasting>>
  BY DEF ChangeStatus
<1>3. stored[o] \in ListedOrder
  BY <1>2 DEF ListingInv, ListingTypeOK
<1>4. [createdAt |-> stored[o].createdAt, status |-> s, version |-> stored[o].version + 1]
        \in ListedOrder
  BY <1>2, <1>3 DEF ListedOrder
<1>5. ListingTypeOK'
  BY <1>1, <1>2, <1>4 DEF ListingInv, ListingTypeOK
<1>6. \A p \in OrderNumbers : CopyAgrees(p)'
  BY <1>1, <1>2, <1>4 DEF ListingInv, ListingTypeOK, CopyAgrees
<1>7. \A f \in Filters : (lasting[f] \subseteq Selected(indexed, f))'
  BY <1>2 DEF ListingInv, Selected
<1> QED
  BY <1>2, <1>5, <1>6, <1>7, WalkStays DEF ListingInv

LEMMA IndexCatchesUpKeeps ==
  ASSUME ListingInv, NEW o \in OrderNumbers, IndexCatchesUp(o)
  PROVE  ListingInv'
<1> USE DEF IndexCatchesUp
<1>1. \A f \in Filters : lasting'[f] = lasting[f] \cap Selected(indexed', f)
  OBVIOUS
<1>2. ListingTypeOK'
  BY DEF ListingInv, ListingTypeOK
<1>3. \A p \in OrderNumbers : CopyAgrees(p)'
  BY DEF ListingInv, ListingTypeOK, CopyAgrees
<1>4. \A f \in Filters : (lasting[f] \subseteq Selected(indexed, f))'
  BY <1>1 DEF Selected
<1>5. \A p \in OrderNumbers : indexed[p] # Undefined =>
        indexed'[p] # Undefined /\ indexed'[p].createdAt = indexed[p].createdAt
  BY DEF ListingInv, ListingTypeOK, CopyAgrees
<1> QED
  BY <1>1, <1>2, <1>3, <1>4, <1>5, WalkStays DEF ListingInv

\* A page under the filter of the walk, or the first one: it adds orders that
\* were left to list, and those it leaves out are behind its last.
LEMMA PageKeeps ==
  ASSUME ListingInv, NEW f \in Filters, NEW l \in Limits, ListPage(f, l),
         UNCHANGED <<stored, indexed>>,
         \/ walk = NoWalk /\ lasting' = [g \in Filters |-> Selected(indexed, g)]
         \/ walk.under /\ CursorAccepted(walk.cursor, f) /\ lasting' = lasting
  PROVE  ListingInv'
<1> DEFINE after == IF walk.cursor = Undefined THEN Undefined ELSE walk.cursor.position
           rest == Remaining(f, after)
<1>1. PICK n \in 0..l : \E page \in [1..n -> rest], more \in BOOLEAN :
       /\ ReadInOrder(page, rest)
       /\ n = 0 => rest = {}
       /\ Range(page) # rest => more
       /\ more => n > 0
       /\ walk' =
            [ under |-> more, filter |-> f,
              listed |-> walk.listed \o page,
              cursor |-> IF ~more THEN Undefined
                         ELSE [filter |-> f, position |-> PositionOf(page[n])] ]
  BY DEF ListPage
<1>2. PICK page \in [1..n -> rest], more \in BOOLEAN :
       /\ ReadInOrder(page, rest)
       /\ Range(page) # rest => more
       /\ more => n > 0
       /\ walk' =
            [ under |-> more, filter |-> f,
              listed |-> walk.listed \o page,
              cursor |-> IF ~more THEN Undefined
                         ELSE [filter |-> f, position |-> PositionOf(page[n])] ]
  BY <1>1
<1>n. n \in Nat
  BY ListingConstants
<1>t. /\ ListingTypeOK /\ walk \in Walks /\ walk.listed \in Seq(OrderNumbers)
      /\ Len(walk.listed) \in Nat /\ DOMAIN walk.listed = 1..Len(walk.listed)
  BY DEF ListingInv, ListingTypeOK, Walks
<1>r. /\ \A o \in rest : o \in OrderNumbers /\ indexed[o] # Undefined
      /\ \A o \in rest : after # Undefined => Before(after, PositionOf(o))
      /\ \A o \in Selected(indexed, f) :
           (after # Undefined => Before(after, PositionOf(o))) => o \in rest
  BY DEF Remaining, Selected
<1>u. Undefined \notin Cursor
  BY UndefinedIsNothingListed
<1>3. /\ \A k \in DOMAIN walk.listed : walk.listed[k] \in OrderNumbers
      /\ \A k \in DOMAIN walk.listed : indexed[walk.listed[k]] # Undefined
      /\ \A j, k \in DOMAIN walk.listed : walk.listed[j] = walk.listed[k] => j = k
  BY <1>t DEF ListingInv, ListsIndexed, IsInjective
\* What stood in the walk before the page is not behind the cursor ...
<1>4. /\ after # Undefined => after \in ListPosition
      /\ \A k \in DOMAIN walk.listed :
           after # Undefined /\ ~Before(after, PositionOf(walk.listed[k]))
  <2>1. CASE walk = NoWalk
    BY <2>1 DEF NoWalk
  <2>2. CASE walk.under
    <3>1. walk.cursor \in Cursor /\ walk.cursor # Undefined
      BY <2>2, <1>t DEF ListingInv, CursorParts, Walks
    <3>2. after = walk.cursor.position /\ after \in ListPosition
      BY <3>1 DEF Cursor
    <3>3. \A k \in DOMAIN walk.listed : ~Before(after, PositionOf(walk.listed[k]))
      BY <2>2, <3>2 DEF ListingInv, CursorParts
    <3> QED
      BY <3>2, <3>3, UndefinedIsNothingListed
  <2> QED
    BY <2>1, <2>2
\* ... and what lasts is in it or left to list.
<1>5. /\ lasting' \in [Filters -> SUBSET OrderNumbers]
      /\ \A g \in Filters : lasting'[g] \subseteq Selected(indexed, g)
      /\ \A o \in lasting'[f] : IsListed(o) \/ o \in rest
  <2>1. CASE walk = NoWalk /\ lasting' = [g \in Filters |-> Selected(indexed, g)]
    BY <2>1, <1>r DEF NoWalk, Selected
  <2>2. CASE walk.under /\ CursorAccepted(walk.cursor, f) /\ lasting' = lasting
    <3>1. walk.cursor # Undefined /\ walk.cursor.filter = walk.filter /\ walk.filter = f
      BY <2>2 DEF ListingInv, CursorParts, CursorAccepted
    <3>2. \A g \in Filters : lasting'[g] \subseteq Selected(indexed, g)
      BY <2>2 DEF ListingInv
    <3>3. \A o \in lasting[f] : IsListed(o) \/ Before(after, PositionOf(o))
      BY <2>2, <3>1 DEF ListingInv, CursorParts
    <3> QED
      BY <2>2, <3>2, <3>3, <1>r, <1>t DEF ListingTypeOK
  <2> QED
    BY <2>1, <2>2
<1>6. /\ DOMAIN page = 1..n
      /\ \A k \in 1..n : page[k] \in rest
      /\ \A j, k \in 1..n : page[j] = page[k] => j = k
      /\ \A j, k \in 1..n : j < k => ~Before(PositionOf(page[k]), PositionOf(page[j]))
      /\ \A o \in rest \ Range(page), k \in 1..n : ~Before(PositionOf(o), PositionOf(page[k]))
  BY <1>2 DEF ReadInOrder, IsInjective
<1> HIDE DEF after, rest
<1> DEFINE listed == walk.listed \o page
           L == Len(walk.listed)
<1>7. /\ page \in Seq(OrderNumbers) /\ Len(page) = n
      /\ listed \in Seq(OrderNumbers) /\ Len(listed) = L + n /\ DOMAIN listed = 1..(L + n)
      /\ \A k \in 1..L : listed[k] = walk.listed[k]
      /\ \A k \in (L + 1)..(L + n) : k - L \in 1..n /\ listed[k] = page[k - L]
      /\ \A k \in 1..n : L + k \in 1..(L + n) /\ listed[L + k] = page[k]
  <2>1. page \in Seq(OrderNumbers) /\ Len(page) = n
    BY <1>6, <1>n, <1>r
  <2> QED
    BY <2>1, <1>t, <1>n, <1>6
<1>8. \A k \in 1..(L + n) : k \in 1..L \/ k \in (L + 1)..(L + n)
  BY <1>t, <1>n
<1> HIDE DEF listed, L
<1>9. \A k \in 1..L : walk.listed[k] \notin rest
  BY <1>r, <1>4, <1>t DEF L
<1>10. \A k \in 1..(L + n) : listed[k] \in OrderNumbers /\ indexed[listed[k]] # Undefined
  BY <1>3, <1>6, <1>7, <1>8, <1>r, <1>t DEF L
<1>11. IsInjective(listed)
  <2> SUFFICES ASSUME NEW j \in 1..(L + n), NEW k \in 1..(L + n), listed[j] = listed[k]
               PROVE  j = k
    BY <1>7 DEF IsInjective
  <2>1. CASE j \in 1..L /\ k \in 1..L
    BY <2>1, <1>7, <1>3, <1>t DEF L
  <2>2. CASE j \in (L + 1)..(L + n) /\ k \in (L + 1)..(L + n)
    <3>1. j - L = k - L
      BY <2>2, <1>7, <1>6
    <3> QED
      BY <3>1, <1>t DEF L
  <2>3. CASE j \in 1..L /\ k \in (L + 1)..(L + n)
    BY <2>3, <1>7, <1>9, <1>6
  <2>4. CASE j \in (L + 1)..(L + n) /\ k \in 1..L
    BY <2>4, <1>7, <1>9, <1>6
  <2> QED
    BY <2>1, <2>2, <2>3, <2>4, <1>8
<1>w. /\ walk'.under = more /\ walk'.filter = f /\ walk'.listed = listed
      /\ walk'.cursor = IF ~more THEN Undefined
                        ELSE [filter |-> f, position |-> PositionOf(page[n])]
  BY <1>2 DEF listed
<1>p. more => /\ n \in 1..n /\ page[n] \in rest /\ PositionOf(page[n]) \in ListPosition
              /\ [filter |-> f, position |-> PositionOf(page[n])] \in Cursor
  <2> SUFFICES ASSUME more PROVE n \in 1..n /\ page[n] \in rest
    BY <1>r, <1>t, PositionOfIndexed DEF Cursor
  <2> QED
    BY <1>2, <1>n, <1>6
<1>12. ListingTypeOK'
  <2>1. walk' \in Walks
    <3>1. (IF ~more THEN Undefined ELSE [filter |-> f, position |-> PositionOf(page[n])])
            \in Cursor \cup {Undefined}
      BY <1>p
    <3> QED
      BY <3>1, <1>2, <1>7 DEF Walks, listed
  <2> QED
    BY <2>1, <1>5, <1>t DEF ListingTypeOK
<1>13. ListsIndexed'
  BY <1>w, <1>7, <1>10, <1>11 DEF ListsIndexed
<1>14. \A o \in lasting'[f] : (\E k \in 1..(L + n) : listed[k] = o) \/ o \in rest \ Range(page)
  <2> TAKE o \in lasting'[f]
  <2>1. CASE IsListed(o)
    <3>1. PICK k \in 1..L : walk.listed[k] = o
      BY <2>1, <1>t DEF IsListed, L
    <3>2. k \in 1..(L + n) /\ listed[k] = o
      BY <3>1, <1>7, <1>n, <1>t DEF L
    <3> QED
      BY <3>2
  <2>2. CASE o \in rest /\ o \in Range(page)
    <3>1. PICK k \in 1..n : page[k] = o
      BY <2>2, <1>6 DEF Range
    <3> QED
      BY <3>1, <1>7
  <2> QED
    BY <2>1, <2>2, <1>5
<1>15. CursorParts'
  <2> SUFFICES ASSUME more PROVE CursorParts'
    BY <1>w DEF CursorParts
  <2> DEFINE last == PositionOf(page[n])
  <2>1. last \in ListPosition /\ n \in 1..n /\ page[n] \in rest /\ last.order = page[n]
    BY <1>p, <1>r, <1>t, PositionOfIndexed
  <2>2. /\ walk'.cursor = [filter |-> f, position |-> last]
        /\ walk'.cursor \in Cursor /\ walk'.cursor # Undefined
    BY <1>w, <1>p, <1>u
  <2> HIDE DEF last
  <2>3. ASSUME NEW k \in 1..(L + n)
        PROVE  ~Before(last, PositionOf(listed[k]))
    <3>1. PositionOf(listed[k]) \in ListPosition
      BY <1>10, <1>t, PositionOfIndexed
    <3>2. CASE k \in 1..L
      <4>1. after \in ListPosition /\ ~Before(after, PositionOf(listed[k]))
        BY <3>2, <1>4, <1>7, <1>t DEF L
      <4>2. Before(after, last)
        BY <4>1, <2>1, <1>r, <1>4, <3>2, <1>t DEF last, L
      <4> QED
        BY <4>1, <4>2, <3>1, <2>1, BeforeIsStrict
    <3>3. CASE k \in (L + 1)..(L + n)
      <4>1. k - L \in 1..n /\ listed[k] = page[k - L]
        BY <3>3, <1>7
      <4>2. CASE k - L = n
        <5>1. PositionOf(listed[k]) = last
          BY <4>1, <4>2 DEF last
        <5> QED
          BY <5>1, <2>1, BeforeIsStrict
      <4>3. CASE k - L < n
        BY <4>1, <4>3, <1>6, <2>1 DEF last
      <4> QED
        BY <4>1, <4>2, <4>3
    <3> QED
      BY <3>2, <3>3, <1>8
  <2>4. ASSUME NEW o \in lasting'[f]
        PROVE  (\E k \in 1..(L + n) : listed[k] = o) \/ Before(last, PositionOf(o))
    <3>1. CASE o \in rest \ Range(page)
      <4>1. /\ o \in OrderNumbers /\ indexed[o] # Undefined
            /\ PositionOf(o) \in ListPosition /\ PositionOf(o).order = o
        BY <3>1, <1>r, <1>t, PositionOfIndexed
      <4>2. o # page[n]
        BY <3>1, <2>1, <1>6 DEF Range
      <4>3. ~Before(PositionOf(o), last)
        BY <3>1, <2>1, <1>6 DEF last
      <4> QED
        BY <4>1, <4>2, <4>3, <2>1, BeforeIsStrict
    <3> QED
      BY <3>1, <1>14
  <2>5. \A o : PositionOf(o)' = PositionOf(o)
    BY DEF PositionOf
  <2>6. \A k \in 1..(L + n) :
          ~Before(walk'.cursor.position, PositionOf(walk.listed[k])')
    BY <2>2, <2>3, <1>w DEF PositionOf
  <2>7. \A o \in lasting'[walk'.filter] :
          IsListed(o)' \/ Before(walk'.cursor.position, PositionOf(o)')
    BY <2>2, <2>4, <2>5, <1>w, <1>7 DEF IsListed
  <2> QED
    BY <2>2, <2>6, <2>7, <1>w, <1>7 DEF CursorParts
<1>16. ASSUME WalkEnded', NEW o \in lasting'[walk'.filter]
       PROVE  IsListed(o)'
  <2>1. ~more
    BY <1>16, <1>w DEF WalkEnded
  <2>2. Range(page) = rest
    BY <2>1, <1>2
  <2>3. PICK k \in 1..(L + n) : listed[k] = o
    BY <1>14, <1>16, <1>w, <2>2
  <2> QED
    BY <2>3, <1>w, <1>7 DEF IsListed
<1>17. \A o \in OrderNumbers : CopyAgrees(o)'
  BY DEF ListingInv, CopyAgrees
<1>18. \A g \in Filters : (lasting[g] \subseteq Selected(indexed, g))'
  BY <1>5 DEF Selected
<1> QED
  BY <1>12, <1>13, <1>15, <1>16, <1>17, <1>18 DEF ListingInv

LEMMA ListingStays == ListingInv /\ [ListingNext]_listingVars => ListingInv'
<1> SUFFICES ASSUME ListingInv, [ListingNext]_listingVars PROVE ListingInv'
  OBVIOUS
<1>1. CASE \E o \in OrderNumbers, t \in Times : CreateListed(o, t)
  BY <1>1, CreateListedKeeps
<1>2. CASE \E o \in OrderNumbers : ChangeStatus(o)
  BY <1>2, ChangeStatusKeeps
<1>3. CASE \E o \in OrderNumbers : IndexCatchesUp(o)
  BY <1>3, IndexCatchesUpKeeps
<1>4. CASE BeginWalk
  BY <1>4, PageKeeps DEF BeginWalk
<1>5. CASE ContinueWalk
  BY <1>5, PageKeeps DEF ContinueWalk
<1>6. CASE UNCHANGED listingVars
  BY <1>6 DEF listingVars, ListingInv, ListingTypeOK, CopyAgrees, ListsIndexed, CursorParts,
     WalkEnded, IsListed, PositionOf, Selected
<1> QED
  BY <1>1, <1>2, <1>3, <1>4, <1>5, <1>6 DEF ListingNext

\* The table, the index and the walk hold values of their types.
THEOREM ListingTypesKept == ListingSpec => []ListingTypeOK
<1>1. ListingInv => ListingTypeOK
  BY DEF ListingInv
<1> QED
  BY <1>1, ListingStarts, ListingStays, PTL DEF ListingSpec

\* A walk through the pages that came to its end listed every order that its
\* filter selected all along, and none twice, whatever happened meanwhile.
THEOREM WalkListsThemOnce == ListingSpec => []WalkListsLastingOrdersOnce
<1>1. ListingInv => WalkListsLastingOrdersOnce
  BY DEF ListingInv, ListsIndexed, WalkListsLastingOrdersOnce, IsListed
<1> QED
  BY <1>1, ListingStarts, ListingStays, PTL DEF ListingSpec

(***************************************************************************)
(* StreamPublisher.                                                        *)
(*                                                                         *)
(* The invariant has a half about the commits (what the records of a       *)
(* commit say) and a half about the loop over a batch (what lies behind    *)
(* the position it has reached).                                           *)
(***************************************************************************)

MutationKinds == {"ORDER_CREATED", "ORDER_PAYMENT_CHANGED", "ORDER_STATUS_CHANGED"}

StreamRecords ==
  [ orderId : OrderIds, order : Order, kind : MutationKinds, from : Optional(OrderStatus) ]

\* The only records the publisher throws on are those of orders cancelled
\* before they were paid.
CanBeTold(r) ==
  EventOf(r) = Throws => r.from = "AWAITING_PAYMENT" /\ r.order.status = "CANCELLED"

\* The record of a commit that makes an order wait asks for its submission.
AsksIfPending(r) ==
  r.order.status = "PENDING_SUBMISSION" => EventOf(r) \in Requesting

OrdersTyped == orderItems \in [OrderIds -> Order \cup {Undefined}]
ShardTyped  == shard \in Seq(StreamRecords)

\* An order that waits for submission is as the commit of its request left it.
PendingRecorded ==
  \A o \in OrderIds :
    ( orderItems[o] # Undefined /\ orderItems[o].status = "PENDING_SUBMISSION" ) =>
      \E k \in 1..Len(shard) :
        /\ shard[k].orderId = o
        /\ shard[k].order = orderItems[o]
        /\ EventOf(shard[k]) \in Requesting

PositionsTyped ==
  /\ checkpoint \in 0..Len(shard)
  /\ upTo \in 0..Len(shard)
  /\ ~Idle => at \in checkpoint + 1 .. upTo + 1
  /\ retries \in Nat
  /\ published \subseteq 1..Len(shard)
  /\ retained \subseteq 1..Len(shard)

\* A record is done with: nobody has to come back to it.
Settled(k) == k \in published \cup retained \/ EventOf(shard[k]) = NoEvent

BehindCheckpoint == \A k \in 1..checkpoint : Settled(k)

\* The part of the batch the loop has left behind.
BehindLoop == ~Idle => \A k \in checkpoint + 1 .. at - 1 : Settled(k)

CommitInv == OrdersTyped /\ ShardTyped /\ PendingRecorded /\ RecordsCanBeTold
LoopInv   == PositionsTyped /\ BehindCheckpoint /\ BehindLoop

OutboxInv == CommitInv /\ LoopInv

(***************************************************************************)
(* What the records of the commits say.                                    *)
(***************************************************************************)

\* The record of a creation announces it.
LEMMA CreationIsTold ==
  ASSUME NEW o \in OrderIds
  PROVE  LET r == StreamRecord(o, NewOrder(0), "ORDER_CREATED", Undefined) IN
         r \in StreamRecords /\ CanBeTold(r) /\ AsksIfPending(r)
<1> DEFINE r == StreamRecord(o, NewOrder(0), "ORDER_CREATED", Undefined)
<1>1. NewOrder(0) \in Order
  BY NewOrderIsOrder
<1>2. r \in StreamRecords
  BY <1>1 DEF StreamRecord, StreamRecords, MutationKinds, Optional
<1>3. /\ r.kind = "ORDER_CREATED"
      /\ r.order.status = "AWAITING_PAYMENT"
      /\ r.order.payment.status = "NOT_STARTED"
  BY DEF StreamRecord, NewOrder
<1>4. EventOf(r) = "order.created"
  BY <1>3 DEF EventOf
<1> QED
  BY <1>2, <1>3, <1>4 DEF CanBeTold, AsksIfPending, Throws

\* Whatever change applyOrderStatusChange accepts, the publisher knows what
\* to say of it, but for a cancellation before payment.
LEMMA StatusChangeIsTold ==
  ASSUME NEW o \in OrderIds, NEW before \in Order, NEW change \in OrderStatusChange,
         StatusChangeApplies(before, change, 0)
  PROVE  LET r == StreamRecord(o, StatusChanged(before, change, 0),
                               "ORDER_STATUS_CHANGED", before.status) IN
         r \in StreamRecords /\ CanBeTold(r) /\ AsksIfPending(r)
<1> DEFINE after == StatusChanged(before, change, 0)
           r == StreamRecord(o, after, "ORDER_STATUS_CHANGED", before.status)
<1>1. /\ after \in Order
      /\ after.status = change.targetStatus
      /\ after.payment = before.payment
      /\ after.failure = change.failure
      /\ after.deliveryProviderOrderId =
           IF change.targetStatus = "SUBMITTED"
           THEN FirstDefined(before.deliveryProviderOrderId, change.deliveryProviderOrderId)
           ELSE before.deliveryProviderOrderId
      /\ after.acceptedAt =
           IF change.targetStatus = "SUBMITTED"
           THEN FirstDefined(FirstDefined(before.acceptedAt, change.acceptedAt), 0)
           ELSE before.acceptedAt
  BY StatusChangedIsNext
<1> SUFFICES r \in StreamRecords /\ CanBeTold(r) /\ AsksIfPending(r)
  OBVIOUS
<1> HIDE DEF after
<1>2. before.status \in OrderStatus
  BY DEF Order
<1>3. r \in StreamRecords
  BY <1>1, <1>2 DEF StreamRecord, StreamRecords, MutationKinds, Optional
<1>4. r.kind = "ORDER_STATUS_CHANGED" /\ r.order = after /\ r.from = before.status
  BY DEF StreamRecord
<1> HIDE DEF r
<1>5. EventOf(r) = EventOfStatusChange(r)
  BY <1>4 DEF EventOf
<1>6. /\ change.targetStatus \in AllowedTransitions[before.status]
      /\ FailureMatches(change)
      /\ PaymentGateOpen(before, change)
      /\ ProviderMatches(before, change)
  BY DEF StatusChangeApplies, TransitionAllowed, DetailsAccepted
<1>7. CASE change.targetStatus = "PENDING_SUBMISSION"
  <2>1. before.status \in {"AWAITING_PAYMENT", "SUBMISSION_FAILED"}
    BY <1>2, <1>6, <1>7 DEF AllowedTransitions, OrderStatus
  <2>2. before.status = "AWAITING_PAYMENT" => before.payment.status = "SUCCEEDED"
    BY <1>6, <1>7 DEF PaymentGateOpen
  <2>3. EventOfStatusChange(r) \in Requesting
    BY <1>1, <1>4, <1>7, <2>1, <2>2 DEF EventOfStatusChange, Requesting
  <2> QED
    BY <1>3, <1>5, <2>3 DEF CanBeTold, AsksIfPending, Requesting, Throws
<1>8. CASE change.targetStatus = "SUBMITTED"
  <2>1. before.status = "PENDING_SUBMISSION"
    BY <1>2, <1>6, <1>8 DEF AllowedTransitions, OrderStatus
  <2>2. after.deliveryProviderOrderId # Undefined
    BY <1>1, <1>6, <1>8 DEF ProviderMatches, FirstDefined
  <2>3. after.acceptedAt # Undefined
    BY <1>1, <1>8, UndefinedIsNoValue DEF FirstDefined
  <2>4. EventOfStatusChange(r) = "order.submitted"
    BY <1>1, <1>4, <1>8, <2>1, <2>2, <2>3 DEF EventOfStatusChange
  <2> QED
    BY <1>1, <1>3, <1>4, <1>5, <1>8, <2>4 DEF CanBeTold, AsksIfPending, Throws
<1>9. CASE change.targetStatus = "SUBMISSION_FAILED"
  <2>1. before.status = "PENDING_SUBMISSION"
    BY <1>2, <1>6, <1>9 DEF AllowedTransitions, OrderStatus
  <2>2. change.failure # Undefined
    BY <1>6, <1>9 DEF FailureMatches
  <2>3. EventOfStatusChange(r) = "order.submission_failed"
    BY <1>1, <1>4, <1>9, <2>1, <2>2 DEF EventOfStatusChange
  <2> QED
    BY <1>1, <1>3, <1>4, <1>5, <1>9, <2>3 DEF CanBeTold, AsksIfPending, Throws
<1>10. CASE change.targetStatus = "CANCELLED"
  <2>1. before.status \in {"AWAITING_PAYMENT", "PENDING_SUBMISSION", "SUBMISSION_FAILED", "SUBMITTED"}
    BY <1>2, <1>6, <1>10 DEF AllowedTransitions, OrderStatus
  <2>2. before.status # "AWAITING_PAYMENT" => EventOfStatusChange(r) = "order.cancelled"
    BY <1>1, <1>4, <1>10, <2>1 DEF EventOfStatusChange
  <2> QED
    BY <1>1, <1>3, <1>4, <1>5, <1>10, <2>2 DEF CanBeTold, AsksIfPending, Throws
<1>11. CASE change.targetStatus \in {"PICKED_UP", "DELIVERED", "DELIVERY_FAILED"}
  <2>1. /\ before.status \in {"SUBMITTED", "PICKED_UP"}
        /\ change.targetStatus = "PICKED_UP" => before.status = "SUBMITTED"
    BY <1>2, <1>6, <1>11 DEF AllowedTransitions, OrderStatus
  <2>2. after.deliveryProviderOrderId # Undefined
    BY <1>1, <1>6, <1>11 DEF ProviderMatches
  <2>3. change.targetStatus = "DELIVERY_FAILED" => change.failure # Undefined
    BY <1>6 DEF FailureMatches
  <2>4. EventOfStatusChange(r) \in {"order.picked_up", "order.delivered", "order.delivery_failed"}
    BY <1>1, <1>4, <1>11, <2>1, <2>2, <2>3 DEF EventOfStatusChange
  <2> QED
    BY <1>1, <1>3, <1>4, <1>5, <1>11, <2>4 DEF CanBeTold, AsksIfPending, Throws
<1>12. change.targetStatus \in { "PENDING_SUBMISSION", "SUBMISSION_FAILED", "SUBMITTED",
                                "PICKED_UP", "DELIVERED", "DELIVERY_FAILED", "CANCELLED" }
  BY <1>2, <1>6 DEF AllowedTransitions, OrderStatus
<1> QED
  BY <1>7, <1>8, <1>9, <1>10, <1>11, <1>12

(***************************************************************************)
(* Commits keep the invariant.                                             *)
(***************************************************************************)

\* A commit whose record can be told and asks for a submission when it has
\* to keeps the half about the commits.
LEMMA CommitKeepsCommits ==
  ASSUME CommitInv, NEW o \in OrderIds, NEW after, NEW kind, NEW from,
         Commit(o, after, kind, from),
         StreamRecord(o, after, kind, from) \in StreamRecords,
         CanBeTold(StreamRecord(o, after, kind, from)),
         AsksIfPending(StreamRecord(o, after, kind, from))
  PROVE  CommitInv'
<1> DEFINE r == StreamRecord(o, after, kind, from)
<1>1. orderItems' = [orderItems EXCEPT ![o] = after] /\ shard' = Append(shard, r)
  BY DEF Commit
<1>2. r.orderId = o /\ r.order = after
  BY DEF StreamRecord
<1>3. r \in StreamRecords /\ CanBeTold(r) /\ AsksIfPending(r)
  OBVIOUS
<1> HIDE DEF r
<1>4. after \in Order
  BY <1>2, <1>3 DEF StreamRecords
<1>5. orderItems \in [OrderIds -> Order \cup {Undefined}] /\ shard \in Seq(StreamRecords)
  BY DEF CommitInv, OrdersTyped, ShardTyped
<1>6. OrdersTyped' /\ ShardTyped'
  BY <1>1, <1>3, <1>4, <1>5 DEF OrdersTyped, ShardTyped
<1>7. /\ Len(shard') = Len(shard) + 1
      /\ Len(shard) \in Nat
      /\ shard'[Len(shard) + 1] = r
      /\ \A k \in 1..Len(shard) : shard'[k] = shard[k]
  BY <1>1, <1>5
<1>8. RecordsCanBeTold'
  BY <1>3, <1>7 DEF CommitInv, RecordsCanBeTold, CanBeTold
<1>9. PendingRecorded'
  <2> SUFFICES ASSUME NEW p \in OrderIds, orderItems'[p] # Undefined,
                      orderItems'[p].status = "PENDING_SUBMISSION"
               PROVE  \E k \in 1..Len(shard') :
                        /\ shard'[k].orderId = p
                        /\ shard'[k].order = orderItems'[p]
                        /\ EventOf(shard'[k]) \in Requesting
    BY DEF PendingRecorded
  <2>1. CASE p = o
    <3>1. orderItems'[p] = after
      BY <1>1, <1>5, <2>1
    <3>2. EventOf(r) \in Requesting
      BY <1>2, <1>3, <3>1 DEF AsksIfPending
    <3>3. Len(shard) + 1 \in 1..Len(shard')
      BY <1>7
    <3> QED
      BY <1>2, <1>7, <2>1, <3>1, <3>2, <3>3
  <2>2. CASE p # o
    <3>1. orderItems'[p] = orderItems[p]
      BY <1>1, <1>5, <2>2
    <3>2. PICK k \in 1..Len(shard) :
            /\ shard[k].orderId = p
            /\ shard[k].order = orderItems[p]
            /\ EventOf(shard[k]) \in Requesting
      BY <3>1 DEF CommitInv, PendingRecorded
    <3>3. k \in 1..Len(shard') /\ shard'[k] = shard[k]
      BY <1>7
    <3> QED
      BY <3>1, <3>2, <3>3
  <2> QED
    BY <2>1, <2>2
<1> QED
  BY <1>6, <1>8, <1>9 DEF CommitInv

\* No commit disturbs what the loop has left behind.
LEMMA CommitKeepsLoop ==
  ASSUME CommitInv, LoopInv, NEW o \in OrderIds, NEW after, NEW kind, NEW from,
         Commit(o, after, kind, from)
  PROVE  LoopInv'
<1> DEFINE r == StreamRecord(o, after, kind, from)
<1>1. shard' = Append(shard, r) /\ UNCHANGED publisherVars
  BY DEF Commit
<1>2. shard \in Seq(StreamRecords)
  BY DEF CommitInv, ShardTyped
<1> HIDE DEF r
<1>3. /\ Len(shard') = Len(shard) + 1
      /\ Len(shard) \in Nat
      /\ \A k \in 1..Len(shard) : shard'[k] = shard[k]
  <2>1. shard \in Seq(StreamRecords \cup {r}) /\ r \in StreamRecords \cup {r}
    BY <1>2
  <2> QED
    BY <1>1, <2>1
<1>4. PositionsTyped'
  BY <1>1, <1>3 DEF LoopInv, PositionsTyped, publisherVars, Idle
<1>5. \A k \in 1..Len(shard) : Settled(k) => Settled(k)'
  BY <1>1, <1>3 DEF Settled, publisherVars
<1>6. BehindCheckpoint'
  BY <1>1, <1>3, <1>5 DEF LoopInv, BehindCheckpoint, PositionsTyped, publisherVars
<1>7. BehindLoop'
  BY <1>1, <1>3, <1>5 DEF LoopInv, BehindLoop, PositionsTyped, publisherVars, Idle
<1> QED
  BY <1>4, <1>6, <1>7 DEF LoopInv

\* What applyPaymentStatusChange makes of an order that awaits its payment:
\* a change nobody needs to hear of, or a status change the publisher knows.
LEMMA PaymentIsTold ==
  ASSUME NEW o \in OrderIds, NEW before \in Order, NEW change \in PaymentChanges,
         before.status = "AWAITING_PAYMENT"
  PROVE  LET payment == PaymentChanged(before.payment, change, 0)
             paid    == [before EXCEPT !.payment = payment]
             target  == IF change.targetStatus = "SUCCEEDED" THEN "PENDING_SUBMISSION" ELSE "CANCELLED"
             after   == IF change.targetStatus \in TerminalPaymentStatus
                        THEN StatusChanged(paid, ChangeTo(target), 0)
                        ELSE WithPayment(before, payment, 0)
             r       == StreamRecord(o, after, MutationKind(before, after), before.status)
         IN  r \in StreamRecords /\ CanBeTold(r) /\ AsksIfPending(r)
<1> DEFINE payment == PaymentChanged(before.payment, change, 0)
           paid    == [before EXCEPT !.payment = payment]
           target  == IF change.targetStatus = "SUCCEEDED" THEN "PENDING_SUBMISSION" ELSE "CANCELLED"
           after   == IF change.targetStatus \in TerminalPaymentStatus
                      THEN StatusChanged(paid, ChangeTo(target), 0)
                      ELSE WithPayment(before, payment, 0)
           r       == StreamRecord(o, after, MutationKind(before, after), before.status)
<1> SUFFICES r \in StreamRecords /\ CanBeTold(r) /\ AsksIfPending(r)
  OBVIOUS
<1>1. change \in PaymentStatusChange
  BY PublisherConstants DEF PaymentChanges, PaymentStatusChange
<1>2. before.payment \in OrderPayment
  BY DEF Order
<1>3. payment \in OrderPayment /\ payment.status = change.targetStatus
  BY <1>1, <1>2, PaymentChangedIsPayment, PaymentChangedShowsChange
<1> HIDE DEF payment
<1>4. paid \in Order /\ paid.payment = payment /\ paid.status = "AWAITING_PAYMENT"
  BY <1>3 DEF Order
<1> HIDE DEF paid
<1>5. ChangeTo(target) \in OrderStatusChange /\ ChangeTo(target).targetStatus = target
  BY DEF ChangeTo, OrderStatusChange, OrderStatus, Optional
<1>6. StatusChanged(paid, ChangeTo(target), 0) \in Order
      /\ StatusChanged(paid, ChangeTo(target), 0).status = target
      /\ StatusChanged(paid, ChangeTo(target), 0).payment = payment
  BY <1>4, <1>5, StatusChangedIsNext
<1>7. /\ WithPayment(before, payment, 0) \in Order
      /\ WithPayment(before, payment, 0).status = "AWAITING_PAYMENT"
  BY <1>3, WithPaymentIsNext
<1>8. CASE change.targetStatus \in TerminalPaymentStatus
  <2>1. after \in Order /\ after.status = target /\ after.payment = payment
    BY <1>6, <1>8
  <2>2. target \in {"PENDING_SUBMISSION", "CANCELLED"}
    OBVIOUS
  <2>3. target = "PENDING_SUBMISSION" => payment.status = "SUCCEEDED"
    BY <1>3
  <2> HIDE DEF after, target
  <2>4. MutationKind(before, after) = "ORDER_STATUS_CHANGED"
    BY <2>1, <2>2 DEF MutationKind
  <2>5. /\ r.kind = "ORDER_STATUS_CHANGED"
        /\ r.order = after
        /\ r.from = "AWAITING_PAYMENT"
    BY <2>4 DEF StreamRecord
  <2>6. r \in StreamRecords
    BY <2>1, <2>4 DEF StreamRecord, StreamRecords, MutationKinds, Optional, OrderStatus
  <2> HIDE DEF r
  <2>7. EventOf(r) = EventOfStatusChange(r)
    BY <2>5 DEF EventOf
  <2>8. target = "PENDING_SUBMISSION" => EventOfStatusChange(r) = "order.ready_for_submission"
    BY <2>1, <2>3, <2>5 DEF EventOfStatusChange
  <2> QED
    BY <2>1, <2>2, <2>5, <2>6, <2>7, <2>8 DEF CanBeTold, AsksIfPending, Requesting, Throws
<1>9. CASE change.targetStatus \notin TerminalPaymentStatus
  <2>1. after \in Order /\ after.status = "AWAITING_PAYMENT"
    BY <1>7, <1>9
  <2> HIDE DEF after
  <2>2. MutationKind(before, after) = "ORDER_PAYMENT_CHANGED"
    BY <2>1 DEF MutationKind
  <2>3. r.kind = "ORDER_PAYMENT_CHANGED" /\ r.order = after
    BY <2>2 DEF StreamRecord
  <2>4. r \in StreamRecords
    BY <2>1, <2>2 DEF StreamRecord, StreamRecords, MutationKinds, Optional, OrderStatus
  <2> HIDE DEF r
  <2>5. EventOf(r) = NoEvent
    BY <2>3 DEF EventOf
  <2> QED
    BY <2>1, <2>3, <2>4, <2>5 DEF CanBeTold, AsksIfPending, NoEvent, Throws
<1> QED
  BY <1>8, <1>9

\* Every commit keeps the invariant.
LEMMA CommittingKeepsInv ==
  ASSUME OutboxInv, Committing
  PROVE  OutboxInv'
<1>1. CommitInv /\ LoopInv
  BY DEF OutboxInv
<1>2. orderItems \in [OrderIds -> Order \cup {Undefined}]
  BY <1>1 DEF CommitInv, OrdersTyped
<1>3. PICK o \in OrderIds :
        \/ CommitCreation(o)
        \/ \E change \in PaymentChanges : CommitPayment(o, change)
        \/ \E change \in StatusChanges : CommitStatus(o, change)
  BY DEF Committing
<1>4. CASE CommitCreation(o)
  <2>1. Commit(o, NewOrder(0), "ORDER_CREATED", Undefined)
    BY <1>4 DEF CommitCreation
  <2>2. CommitInv' /\ LoopInv'
    BY <1>1, <2>1, CreationIsTold, CommitKeepsCommits, CommitKeepsLoop
  <2> QED
    BY <2>2 DEF OutboxInv
<1>5. ASSUME NEW change \in PaymentChanges, CommitPayment(o, change)
      PROVE  OutboxInv'
  <2> DEFINE before  == orderItems[o]
             payment == PaymentChanged(before.payment, change, 0)
             paid    == [before EXCEPT !.payment = payment]
             target  == IF change.targetStatus = "SUCCEEDED" THEN "PENDING_SUBMISSION" ELSE "CANCELLED"
             after   == IF change.targetStatus \in TerminalPaymentStatus
                        THEN StatusChanged(paid, ChangeTo(target), 0)
                        ELSE WithPayment(before, payment, 0)
             kind    == MutationKind(before, after)
             r       == StreamRecord(o, after, kind, before.status)
  <2>1. /\ before # Undefined
        /\ before.status = "AWAITING_PAYMENT"
        /\ Commit(o, after, kind, before.status)
    BY <1>5 DEF CommitPayment
  <2>2. before \in Order
    BY <1>2, <2>1
  <2>3. r \in StreamRecords /\ CanBeTold(r) /\ AsksIfPending(r)
    BY <2>1, <2>2, PaymentIsTold
  <2> HIDE DEF after, kind
  <2>4. CommitInv' /\ LoopInv'
    BY <1>1, <2>1, <2>3, CommitKeepsCommits, CommitKeepsLoop
  <2> QED
    BY <2>4 DEF OutboxInv
<1>6. ASSUME NEW change \in StatusChanges, CommitStatus(o, change)
      PROVE  OutboxInv'
  <2>1. /\ orderItems[o] # Undefined
        /\ StatusChangeApplies(orderItems[o], change, 0)
        /\ Commit(o, StatusChanged(orderItems[o], change, 0), "ORDER_STATUS_CHANGED", orderItems[o].status)
    BY <1>6 DEF CommitStatus
  <2>2. orderItems[o] \in Order
    BY <1>2, <2>1
  <2>3. change \in OrderStatusChange
    BY DEF StatusChanges, OrderStatusChange, Optional
  <2> DEFINE r == StreamRecord(o, StatusChanged(orderItems[o], change, 0),
                               "ORDER_STATUS_CHANGED", orderItems[o].status)
  <2>4. r \in StreamRecords /\ CanBeTold(r) /\ AsksIfPending(r)
    BY <2>1, <2>2, <2>3, StatusChangeIsTold
  <2>5. CommitInv' /\ LoopInv'
    BY <1>1, <2>1, <2>4, CommitKeepsCommits, CommitKeepsLoop
  <2> QED
    BY <2>5 DEF OutboxInv
<1> QED
  BY <1>3, <1>4, <1>5, <1>6

(***************************************************************************)
(* The loop and the event source mapping keep the invariant.               *)
(***************************************************************************)

\* The publisher leaves the commits alone.
LEMMA PublishingKeepsCommits ==
  ASSUME CommitInv, UNCHANGED orderVars
  PROVE  CommitInv'
  BY DEF CommitInv, OrdersTyped, ShardTyped, PendingRecorded, RecordsCanBeTold, orderVars

\* What is settled stays settled.
LEMMA SettledStaysSettled ==
  ASSUME UNCHANGED orderVars, published \subseteq published', retained \subseteq retained'
  PROVE  \A k : Settled(k) => Settled(k)'
  BY DEF Settled, orderVars

\* A record the loop goes past is settled.
LEMMA PublishingKeepsLoop ==
  ASSUME CommitInv, LoopInv, Publishing
  PROVE  LoopInv'
<1>1. Len(shard) \in Nat
  BY DEF CommitInv, ShardTyped
<1>2. PositionsTyped /\ BehindCheckpoint /\ BehindLoop
  BY DEF LoopInv
<1>3. ASSUME NEW n \in 1..Len(shard), TakeBatch(n)
      PROVE  LoopInv'
  <2>1. UNCHANGED orderVars /\ published' = published /\ retained' = retained
    BY <1>3 DEF TakeBatch
  <2>2. \A k : Settled(k) => Settled(k)'
    BY <2>1, SettledStaysSettled
  <2> QED
    BY <1>1, <1>2, <1>3, <2>1, <2>2
    DEF TakeBatch, Batches, LoopInv, PositionsTyped, BehindCheckpoint, BehindLoop, Idle, orderVars
<1>4. ASSUME NEW n \in 1..Len(shard), Discard(n)
      PROVE  LoopInv'
  <2>1. /\ UNCHANGED orderVars
        /\ published' = published
        /\ retained' = retained \cup (checkpoint + 1 .. n)
    BY <1>4 DEF Discard
  <2>2. \A k : Settled(k) => Settled(k)'
    BY <2>1, SettledStaysSettled
  <2>3. PositionsTyped'
    BY <1>1, <1>2, <1>4, <2>1 DEF Discard, Batches, PositionsTyped, Idle, orderVars
  <2>4. BehindCheckpoint'
    <3> SUFFICES ASSUME NEW k \in 1..n  PROVE Settled(k)'
      BY <1>4 DEF Discard, BehindCheckpoint
    <3>1. CASE k <= checkpoint
      BY <1>2, <2>2, <3>1 DEF BehindCheckpoint, PositionsTyped
    <3>2. CASE k > checkpoint
      BY <1>1, <1>2, <2>1, <3>2 DEF Settled, PositionsTyped
    <3> QED
      BY <1>1, <1>2, <3>1, <3>2 DEF PositionsTyped
  <2>5. BehindLoop'
    BY <1>4 DEF Discard, BehindLoop, Idle
  <2> QED
    BY <2>3, <2>4, <2>5 DEF LoopInv
<1>5. CASE PublishNext \/ SkipNext
  <2>1. /\ InBatch
        /\ at' = at + 1
        /\ UNCHANGED orderVars
        /\ checkpoint' = checkpoint /\ upTo' = upTo /\ retries' = retries /\ retained' = retained
        /\ \/ published' = published \cup {at}
           \/ published' = published /\ EventOf(shard[at]) = NoEvent
    BY <1>5 DEF PublishNext, SkipNext
  <2>2. \A k : Settled(k) => Settled(k)'
    BY <2>1, SettledStaysSettled
  <2> PICK p : p = at
    OBVIOUS
  <2>3. Settled(p)'
    BY <2>1 DEF Settled, orderVars
  <2>4. at \in checkpoint + 1 .. upTo /\ at \in 1..Len(shard)
    BY <1>1, <1>2, <2>1 DEF InBatch, PositionsTyped
  <2>5. PositionsTyped'
    <3>1. shard' = shard
      BY <2>1 DEF orderVars
    <3>2. published' \subseteq 1..Len(shard)
      BY <1>2, <2>1, <2>4 DEF PositionsTyped
    <3>3. at' \in checkpoint + 1 .. upTo + 1
      BY <1>1, <1>2, <2>1, <2>4 DEF PositionsTyped
    <3> QED
      BY <1>2, <2>1, <3>1, <3>2, <3>3 DEF PositionsTyped, Idle
  <2>6. BehindCheckpoint'
    BY <1>2, <2>1, <2>2 DEF BehindCheckpoint
  <2>7. BehindLoop'
    <3> SUFFICES ASSUME NEW k \in checkpoint + 1 .. at  PROVE Settled(k)'
      BY <1>1, <1>2, <2>1, <2>4 DEF BehindLoop, PositionsTyped
    <3>1. CASE k = p
      BY <2>3, <3>1
    <3>2. CASE k # p
      BY <1>1, <1>2, <2>1, <2>2, <2>4, <3>2 DEF BehindLoop, PositionsTyped, InBatch
    <3> QED
      BY <3>1, <3>2
  <2> QED
    BY <2>5, <2>6, <2>7 DEF LoopInv
<1>6. CASE FailNext
  <2>1. /\ InBatch
        /\ UNCHANGED orderVars
        /\ retained' = retained
        /\ published' = published \/ published' = published \cup {at}
        /\ checkpoint' = at - 1
        /\ upTo' = 0
    BY <1>6 DEF FailNext
  <2>2. \A k : Settled(k) => Settled(k)'
    BY <2>1, SettledStaysSettled
  <2>3. at \in checkpoint + 1 .. upTo /\ at \in 1..Len(shard)
    BY <1>1, <1>2, <2>1 DEF InBatch, PositionsTyped
  <2>4. retries' \in Nat
    BY <1>2, <1>6 DEF FailNext, PositionsTyped
  <2>5. PositionsTyped'
    <3>1. shard' = shard
      BY <2>1 DEF orderVars
    <3>2. published' \subseteq 1..Len(shard)
      BY <1>2, <2>1, <2>3 DEF PositionsTyped
    <3>3. checkpoint' \in 0..Len(shard) /\ upTo' \in 0..Len(shard)
      BY <1>1, <1>2, <2>1, <2>3 DEF PositionsTyped
    <3> QED
      BY <1>2, <2>1, <2>4, <3>1, <3>2, <3>3 DEF PositionsTyped, Idle
  <2>6. BehindCheckpoint'
    <3> SUFFICES ASSUME NEW k \in 1 .. at - 1  PROVE Settled(k)'
      BY <2>1 DEF BehindCheckpoint
    <3>1. CASE k <= checkpoint
      BY <1>1, <1>2, <2>2, <3>1 DEF BehindCheckpoint, PositionsTyped
    <3>2. CASE k > checkpoint
      BY <1>1, <1>2, <2>1, <2>2, <2>3, <3>2 DEF BehindLoop, PositionsTyped, InBatch
    <3> QED
      BY <1>1, <1>2, <2>3, <3>1, <3>2 DEF PositionsTyped
  <2>7. BehindLoop'
    BY <2>1 DEF BehindLoop, Idle
  <2> QED
    BY <2>5, <2>6, <2>7 DEF LoopInv
<1>7. CASE EndBatch
  <2>1. /\ ~Idle
        /\ at > upTo
        /\ checkpoint' = upTo
        /\ retries' = 0
        /\ upTo' = 0
        /\ UNCHANGED <<orderVars, published, retained>>
    BY <1>7 DEF EndBatch
  <2>2. \A k : Settled(k) => Settled(k)'
    BY <2>1, SettledStaysSettled
  <2>3. at = upTo + 1
    BY <1>1, <1>2, <2>1 DEF PositionsTyped
  <2>4. PositionsTyped'
    BY <1>1, <1>2, <2>1 DEF PositionsTyped, Idle, orderVars
  <2>5. BehindCheckpoint'
    <3> SUFFICES ASSUME NEW k \in 1 .. upTo  PROVE Settled(k)'
      BY <2>1 DEF BehindCheckpoint
    <3>1. CASE k <= checkpoint
      BY <1>1, <1>2, <2>2, <3>1 DEF BehindCheckpoint, PositionsTyped
    <3>2. CASE k > checkpoint
      BY <1>1, <1>2, <2>1, <2>2, <2>3, <3>2 DEF BehindLoop, PositionsTyped
    <3> QED
      BY <1>1, <1>2, <3>1, <3>2 DEF PositionsTyped
  <2>6. BehindLoop'
    BY <2>1 DEF BehindLoop, Idle
  <2> QED
    BY <2>4, <2>5, <2>6 DEF LoopInv
<1>8. CASE Die
  <2>1. /\ retries' = retries + 1
        /\ upTo' = 0
        /\ UNCHANGED <<orderVars, checkpoint, published, retained>>
    BY <1>8 DEF Die
  <2>2. \A k : Settled(k) => Settled(k)'
    BY <2>1, SettledStaysSettled
  <2>3. PositionsTyped'
    BY <1>1, <1>2, <2>1 DEF PositionsTyped, Idle, orderVars
  <2>4. BehindCheckpoint' /\ BehindLoop'
    BY <1>2, <2>1, <2>2 DEF BehindCheckpoint, BehindLoop, Idle
  <2> QED
    BY <2>3, <2>4 DEF LoopInv
<1> QED
  BY <1>3, <1>4, <1>5, <1>6, <1>7, <1>8 DEF Publishing

(***************************************************************************)
(* The theorems.                                                           *)
(***************************************************************************)

\* Every state the publisher and the handlers that commit reach satisfies
\* the invariant.
THEOREM OutboxInvariant == PublisherSpec => []OutboxInv
<1>1. PublisherInit => OutboxInv
  <2> SUFFICES ASSUME PublisherInit  PROVE OutboxInv
    OBVIOUS
  <2>1. OrdersTyped /\ ShardTyped /\ Len(shard) = 0
    BY DEF PublisherInit, OrdersTyped, ShardTyped
  <2>2. PendingRecorded /\ RecordsCanBeTold
    BY <2>1 DEF PublisherInit, PendingRecorded, RecordsCanBeTold
  <2>3. PositionsTyped /\ BehindCheckpoint /\ BehindLoop
    BY <2>1 DEF PublisherInit, PositionsTyped, BehindCheckpoint, BehindLoop, Idle
  <2> QED
    BY <2>1, <2>2, <2>3 DEF OutboxInv, CommitInv, LoopInv
<1>2. OutboxInv /\ [PublisherNext]_allPublisherVars => OutboxInv'
  <2> SUFFICES ASSUME OutboxInv, [PublisherNext]_allPublisherVars  PROVE OutboxInv'
    OBVIOUS
  <2>1. CASE Committing
    BY <2>1, CommittingKeepsInv
  <2>2. CASE Publishing
    <3>1. UNCHANGED orderVars
      BY <2>2 DEF Publishing, TakeBatch, Discard, PublishNext, SkipNext, FailNext, EndBatch, Die
    <3> QED
      BY <2>2, <3>1, PublishingKeepsCommits, PublishingKeepsLoop DEF OutboxInv
  <2>3. CASE UNCHANGED allPublisherVars
    <3>1. UNCHANGED orderVars /\ UNCHANGED publisherVars
      BY <2>3 DEF allPublisherVars
    <3>2. CommitInv'
      BY <3>1, PublishingKeepsCommits DEF OutboxInv
    <3>3. LoopInv'
      BY <3>1 DEF OutboxInv, LoopInv, PositionsTyped, BehindCheckpoint, BehindLoop,
                  Settled, Idle, orderVars, publisherVars
    <3> QED
      BY <3>2, <3>3 DEF OutboxInv
  <2> QED
    BY <2>1, <2>2, <2>3 DEF PublisherNext
<1> QED
  BY <1>1, <1>2, PTL DEF PublisherSpec

\* Positions, counters and records keep their types.
THEOREM PublisherTypes == PublisherSpec => []PublisherTypeOK
<1>1. OutboxInv => PublisherTypeOK
  <2> SUFFICES ASSUME OutboxInv  PROVE PublisherTypeOK
    OBVIOUS
  <2>1. shard \in Seq(StreamRecords) /\ PositionsTyped /\ OrdersTyped
    BY DEF OutboxInv, CommitInv, LoopInv, ShardTyped
  <2>2. ASSUME NEW k \in 1..Len(shard)
        PROVE  shard[k].orderId \in OrderIds /\ shard[k].order \in Order
    <3>1. shard[k] \in StreamRecords
      BY <2>1
    <3> QED
      BY <3>1 DEF StreamRecords
  <2> QED
    BY <2>1, <2>2 DEF PublisherTypeOK, PositionsTyped, OrdersTyped
<1> QED
  BY <1>1, OutboxInvariant, PTL

\* At least once: whatever batches are cut, repeated or discarded, nothing
\* the event source mapping is done with was neither published nor retained.
THEOREM NothingIsSkipped == PublisherSpec => []NothingSkipped
<1>1. OutboxInv => NothingSkipped
  BY DEF OutboxInv, LoopInv, BehindCheckpoint, Settled, NothingSkipped
<1> QED
  BY <1>1, OutboxInvariant, PTL

\* The delivery request of an order that waits for submission is still in
\* the stream, on the topic or in the failure queue.
THEOREM PendingOrdersAreRequested == PublisherSpec => []PendingIsRequested
<1>1. OutboxInv => PendingIsRequested
  <2> SUFFICES ASSUME OutboxInv, NEW o \in OrderIds,
                      orderItems[o] # Undefined, orderItems[o].status = "PENDING_SUBMISSION"
               PROVE  \E k \in 1..Len(shard) :
                        /\ shard[k].orderId = o
                        /\ shard[k].order = orderItems[o]
                        /\ EventOf(shard[k]) \in Requesting
                        /\ k > checkpoint \/ k \in published \cup retained
    BY DEF PendingIsRequested
  <2>1. PICK k \in 1..Len(shard) :
          /\ shard[k].orderId = o
          /\ shard[k].order = orderItems[o]
          /\ EventOf(shard[k]) \in Requesting
    BY DEF OutboxInv, CommitInv, PendingRecorded
  <2>2. EventOf(shard[k]) # NoEvent
    BY <2>1 DEF Requesting, NoEvent
  <2>3. Len(shard) \in Nat /\ checkpoint \in 0..Len(shard)
    BY DEF OutboxInv, CommitInv, LoopInv, ShardTyped, PositionsTyped
  <2>4. k > checkpoint \/ k \in published \cup retained
    BY <2>2, <2>3 DEF OutboxInv, LoopInv, BehindCheckpoint, Settled
  <2> QED
    BY <2>1, <2>4
<1> QED
  BY <1>1, OutboxInvariant, PTL

\* No commit of a handler makes a record the publisher throws on, but the
\* cancellation of an order that was never paid.
THEOREM RecordsAreTold == PublisherSpec => []RecordsCanBeTold
<1>1. OutboxInv => RecordsCanBeTold
  BY DEF OutboxInv, CommitInv
<1> QED
  BY <1>1, OutboxInvariant, PTL

\* The events of an order first reach the topic in the order of its versions.
THEOREM PublishesInOrder == PublisherSpec => PublishedInOrder
<1> DEFINE InOrder ==
      \A k \in published' \ published, j \in 1..Len(shard) :
        ( j < k /\ shard[j].orderId = shard[k].orderId ) =>
          j \in published \cup retained \/ EventOf(shard[j]) = NoEvent
<1>1. OutboxInv /\ [PublisherNext]_allPublisherVars => [InOrder]_published
  <2> SUFFICES ASSUME OutboxInv, [PublisherNext]_allPublisherVars,
                      NEW k \in published' \ published, NEW j \in 1..Len(shard), j < k
               PROVE  Settled(j)
    BY DEF Settled
  <2>1. InBatch /\ k = at
    <3>1. PublishNext \/ FailNext
      BY DEF PublisherNext, Committing, CommitCreation, CommitPayment, CommitStatus, Commit,
             Publishing, TakeBatch, Discard, SkipNext, EndBatch, Die, publisherVars, allPublisherVars
    <3> QED
      BY <3>1 DEF PublishNext, FailNext
  <2>2. /\ Len(shard) \in Nat
        /\ checkpoint \in 0..Len(shard)
        /\ at \in checkpoint + 1 .. upTo + 1
        /\ upTo \in 0..Len(shard)
    BY <2>1 DEF OutboxInv, CommitInv, LoopInv, ShardTyped, PositionsTyped, InBatch
  <2>3. CASE j <= checkpoint
    BY <2>2, <2>3 DEF OutboxInv, LoopInv, BehindCheckpoint
  <2>4. CASE j > checkpoint
    BY <2>1, <2>2, <2>4 DEF OutboxInv, LoopInv, BehindLoop, InBatch
  <2> QED
    BY <2>2, <2>3, <2>4
<1> QED
  BY <1>1, OutboxInvariant, PTL DEF PublisherSpec, PublishedInOrder

==============================================================================
