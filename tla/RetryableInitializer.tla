-------------------------- MODULE RetryableInitializer --------------------------
(***************************************************************************)
(* createRetryableInitializer, through which a Lambda container builds its *)
(* dependencies once: callers share the attempt that is kept, and an       *)
(* attempt that fails is forgotten so that the next call starts another.   *)
(*                                                                         *)
(* A promise that settles runs its reactions one by one, in the order they *)
(* were registered; other callers may call between any two of them.  What  *)
(* forgets a failed attempt is a reaction like those of the callers.       *)
(***************************************************************************)
EXTENDS Identifiers, Naturals, Sequences, SequencesExt

CONSTANTS
  Callers,      \* calls of the initialiser, each made once
  MaxAttempts   \* bound on the attempts

ASSUME InitializerConstants ==
  Undefined \notin Callers /\ Undefined \notin Nat /\ MaxAttempts \in Nat

VARIABLES
  attempts,       \* attempts so far: what each has come to
  reactions,      \* an attempt's registered reactions
  currentAttempt, \* the attempt that is kept
  caller          \* what each caller has in hand

initializerVars == <<attempts, reactions, currentAttempt, caller>>

\* Reaction of the initialiser itself.
Forget == Undefined

Waiting(a) == [attempt |-> a, told |-> "waiting"]
NotCalled == [attempt |-> Undefined, told |-> "no"]

InitializerInit ==
  /\ attempts = <<>>
  /\ reactions = <<>>
  /\ currentAttempt = Undefined
  /\ caller = [c \in Callers |-> NotCalled]

\* Faulty variant: the callers' own reactions come first.
RegisteredFirstLate(c) == <<c, Forget>>

\* The reactions of a new attempt, in the order of their registration.
RegisteredFirst(c) == <<Forget, c>>

Call(c) ==
  /\ caller[c] = NotCalled
  /\ IF currentAttempt # Undefined
     THEN /\ reactions' = [reactions EXCEPT ![currentAttempt] = Append(@, c)]
          /\ caller' = [caller EXCEPT ![c] = Waiting(currentAttempt)]
          /\ UNCHANGED <<attempts, currentAttempt>>
     ELSE /\ Len(attempts) < MaxAttempts
          /\ attempts' = Append(attempts, "pending")
          /\ reactions' = Append(reactions, RegisteredFirst(c))
          /\ currentAttempt' = Len(attempts) + 1
          /\ caller' = [caller EXCEPT ![c] = Waiting(Len(attempts) + 1)]

\* initialize() itself comes to an end.
Settles(a) ==
  /\ attempts[a] = "pending"
  /\ \E outcome \in {"fulfilled", "rejected"} : attempts' = [attempts EXCEPT ![a] = outcome]
  /\ UNCHANGED <<reactions, currentAttempt, caller>>

\* The next reaction of a settled attempt runs.
Reacts(a) ==
  /\ attempts[a] # "pending"
  /\ reactions[a] # <<>>
  /\ reactions' = [reactions EXCEPT ![a] = Tail(@)]
  /\ LET r == Head(reactions[a])
     IN IF r = Forget
        THEN /\ currentAttempt' = IF attempts[a] = "rejected" /\ currentAttempt = a
                                  THEN Undefined ELSE currentAttempt
             /\ UNCHANGED caller
        ELSE /\ caller' = [caller EXCEPT ![r].told = attempts[a]]
             /\ UNCHANGED currentAttempt
  /\ UNCHANGED attempts

InitializerNext ==
  \/ \E c \in Callers : Call(c)
  \/ \E a \in DOMAIN attempts : Settles(a) \/ Reacts(a)

InitializerSpec == InitializerInit /\ [][InitializerNext]_initializerVars

(***************************************************************************)
(* Properties.                                                             *)
(***************************************************************************)

\* Attempts, reactions and callers hold values of their types.
InitializerTypeOK ==
  /\ attempts \in Seq({"pending", "fulfilled", "rejected"})
  /\ Len(reactions) = Len(attempts)
  /\ \A a \in DOMAIN reactions : reactions[a] \in Seq(Callers \cup {Forget})
  /\ currentAttempt \in (DOMAIN attempts) \cup {Undefined}
  /\ caller \in [Callers -> [attempt : (DOMAIN attempts) \cup {Undefined},
                             told : {"no", "waiting", "fulfilled", "rejected"}]]

\* Once anybody has been told that an attempt failed, nobody is handed that
\* attempt again; and initialisation never runs twice at a time, nor again
\* after it succeeded.
FailureIsForgottenInTime ==
  /\ \A c \in Callers : caller[c].told = "rejected" => currentAttempt # caller[c].attempt
  /\ \A a \in DOMAIN attempts :
       attempts[a] # "rejected" => a = Len(attempts) /\ currentAttempt = a
================================================================================
