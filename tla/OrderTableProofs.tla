--------------------------- MODULE OrderTableProofs ---------------------------
(***************************************************************************)
(* What the flows over the order table have in common when their           *)
(* invariants are proved: how a commit moves the stored orders, and how a  *)
(* step moves the memory of an invocation.                                 *)
(***************************************************************************)
EXTENDS OrderTable, OrderDomainProofs

\* Stored orders stay, appear, or move to a later version.
Advances ==
  \A o \in OrderIds :
    \/ orders'[o] = orders[o]
    \/ orders[o] = Undefined
    \/ /\ orders[o] \in Order
       /\ orders'[o] \in Order
       /\ orders'[o].version > orders[o].version

\* A snapshot is dropped, kept with its subject, or taken of the table.
ReadsFairly ==
  \A h \in Invocations :
    \/ read'[h] = Undefined
    \/ read'[h] = read[h] /\ subject'[h] = subject[h]
    \/ /\ subject'[h] \in OrderIds
       /\ read'[h] = orders'[subject'[h]]

\* Optimistic concurrency, once for all steps of all flows.
LEMMA SnapshotsStayCurrentOrOlder ==
  ASSUME TableTypeOK, TableTypeOK', SnapshotsCurrentOrOlder, Advances, ReadsFairly
  PROVE  SnapshotsCurrentOrOlder'
<1> SUFFICES ASSUME NEW h \in Invocations, read'[h] # Undefined
             PROVE  /\ subject'[h] \in OrderIds
                    /\ orders'[subject'[h]] # Undefined
                    /\ read'[h].version <= orders'[subject'[h]].version
                    /\ read'[h].version = orders'[subject'[h]].version =>
                         read'[h] = orders'[subject'[h]]
  BY DEF SnapshotsCurrentOrOlder
<1>1. CASE read'[h] = read[h] /\ subject'[h] = subject[h]
  <2> DEFINE o == subject[h]
  <2>1. /\ o \in OrderIds
        /\ orders[o] # Undefined
        /\ read[h].version <= orders[o].version
        /\ read[h].version = orders[o].version => read[h] = orders[o]
    BY <1>1 DEF SnapshotsCurrentOrOlder
  <2>2. /\ read[h] \in Order
        /\ orders[o] \in Order
        /\ orders'[o] \in Order \cup {Undefined}
    BY <1>1, <2>1 DEF TableTypeOK, ItemsTypeOK, FramesTypeOK
  <2>3. read[h].version \in Nat /\ orders[o].version \in Nat
    BY <2>2 DEF Order
  <2>4. CASE orders'[o] = orders[o]
    BY <1>1, <2>1, <2>4
  <2>5. CASE orders'[o] \in Order /\ orders'[o].version > orders[o].version
    <3>1. orders'[o] # Undefined
      BY <2>5, UndefinedIsNoRecord
    <3>2. orders'[o].version \in Nat
      BY <2>5 DEF Order
    <3> QED  BY <1>1, <2>1, <2>3, <2>5, <3>1, <3>2
  <2> QED  BY <2>1, <2>4, <2>5 DEF Advances
<1>2. CASE subject'[h] \in OrderIds /\ read'[h] = orders'[subject'[h]]
  <2>1. orders'[subject'[h]] \in Order
    BY <1>2 DEF TableTypeOK, ItemsTypeOK
  <2>2. orders'[subject'[h]].version \in Nat
    BY <2>1 DEF Order
  <2> QED  BY <1>2, <2>2
<1> QED  BY <1>1, <1>2 DEF ReadsFairly

\* An invocation that ends leaves the memory of the others alone.
LEMMA ReturnIsFair ==
  ASSUME FramesTypeOK, NEW h \in Invocations, Return(h)
  PROVE  /\ FramesTypeOK'
         /\ pc' = [pc EXCEPT ![h] = "idle"]
         /\ read'[h] = Undefined
         /\ \A g \in Invocations \ {h} :
              /\ read'[g] = read[g]
              /\ subject'[g] = subject[g]
              /\ input'[g] = input[g]
              /\ stamp'[g] = stamp[g]
              /\ proposed'[g] = proposed[g]
              /\ pc'[g] = pc[g]
         /\ pc'[h] = "idle"
<1> USE DEF FramesTypeOK, Return
<1>1. pc' \in [Invocations -> Steps] /\ DOMAIN input' = Invocations
  BY DEF Steps
<1>2. /\ subject' \in [Invocations -> Optional(OrderIds)]
      /\ stamp' \in [Invocations -> Optional(Nat)]
  BY DEF Optional
<1>3. /\ read' \in [Invocations -> Order \cup {Undefined}]
      /\ proposed' \in [Invocations -> Order \cup {Undefined}]
  OBVIOUS
<1>4. attempt' \in [Invocations -> 0..MaxConcurrentWriteAttempts]
  BY DEF MaxConcurrentWriteAttempts
<1> QED  BY <1>1, <1>2, <1>3, <1>4

\* A step leaves what an invocation holds in memory as it is.
KeepsMemory(g) ==
  /\ pc'[g] = pc[g]
  /\ subject'[g] = subject[g]
  /\ input'[g] = input[g]
  /\ stamp'[g] = stamp[g]
  /\ read'[g] = read[g]
  /\ proposed'[g] = proposed[g]

LEMMA ReturnTouchesOne ==
  ASSUME FramesTypeOK, NEW h \in Invocations, Return(h)
  PROVE  /\ \A g \in Invocations \ {h} : KeepsMemory(g)
         /\ pc'[h] = "idle" /\ read'[h] = Undefined
  BY ReturnIsFair DEF KeepsMemory
==============================================================================
