------------------------------ MODULE OrderListing ------------------------------
(***************************************************************************)
(* GET /orders: a client walks the pages of a merchant's orders, newest    *)
(* first, all of them or those in one status, while orders are created and *)
(* change status.                                                          *)
(*                                                                         *)
(* A page is one query of a secondary index: one lists all orders of the   *)
(* merchant, the other those in a status.  DynamoDB copies an item to each *)
(* some time after it is written; a walk reads one of the two, so one copy *)
(* stands for either.  Order ids are numbers here: where two orders were   *)
(* created in the same instant, their ids decide.  A cursor is the scope   *)
(* and the position that its token, which nobody else can sign, carries.   *)
(***************************************************************************)
EXTENDS Identifiers, Naturals, Sequences, Functions

CONSTANTS
  OrderNumbers,  \* orders, by the rank of their ids
  Statuses,      \* order statuses
  InitialStatus, \* the status orders are created in
  Times,         \* creation times
  Limits,        \* page limits a client asks for
  MaxChanges     \* bound on an order's version

ASSUME ListingConstants ==
  /\ OrderNumbers \subseteq Nat /\ Times \subseteq Nat
  /\ Limits \subseteq 1..100 /\ MaxChanges \in Nat \ {0}
  /\ InitialStatus \in Statuses
  /\ Undefined \notin OrderNumbers \cup Statuses \cup Times

VARIABLES
  stored,    \* the table
  indexed,   \* what the index knows of each order
  walk,      \* the client's walk: filter, cursor, orders listed so far
  lasting    \* orders each filter would have listed all along the walk

listingVars == <<stored, indexed, walk, lasting>>

Filters == Statuses \cup {Undefined}

ListedOrder == [createdAt : Times, status : Statuses, version : 1..MaxChanges]
ListPosition == [createdAt : Times, order : OrderNumbers]
Cursor == [filter : Filters, position : ListPosition]

Walks ==
  [ under : BOOLEAN, filter : Filters, cursor : Cursor \cup {Undefined},
    listed : Seq(OrderNumbers) ]

ASSUME UndefinedIsNothingListed == Undefined \notin ListedOrder \cup ListPosition \cup Cursor

NoWalk == [under |-> FALSE, filter |-> Undefined, cursor |-> Undefined, listed |-> <<>>]

ListingInit ==
  /\ stored = [o \in OrderNumbers |-> Undefined]
  /\ indexed = [o \in OrderNumbers |-> Undefined]
  /\ walk = NoWalk
  /\ lasting = [f \in Filters |-> {}]

(***************************************************************************)
(* The table and its index.                                                *)
(***************************************************************************)

\* Orders a query under a filter ranges over.
Selected(index, filter) ==
  { o \in OrderNumbers :
      index[o] # Undefined /\ (filter # Undefined => index[o].status = filter) }

CreateListed(o, t) ==
  /\ stored[o] = Undefined
  /\ stored' = [stored EXCEPT ![o] =
       [createdAt |-> t, status |-> InitialStatus, version |-> 1]]
  /\ UNCHANGED <<indexed, walk, lasting>>

\* The time an order is listed under after a change made at time t.
PositionTime(o, t) == stored[o].createdAt

ChangeStatus(o) ==
  /\ stored[o] # Undefined
  /\ stored[o].version < MaxChanges
  /\ \E s \in Statuses \ {stored[o].status}, t \in Times :
       stored' = [stored EXCEPT ![o] =
         [createdAt |-> PositionTime(o, t), status |-> s, version |-> stored[o].version + 1]]
  /\ UNCHANGED <<indexed, walk, lasting>>

\* The index learns of an order's state; an order that leaves what a filter
\* selects does not last under it.
IndexCatchesUp(o) ==
  /\ indexed[o] # stored[o]
  /\ indexed' = [indexed EXCEPT ![o] = stored[o]]
  /\ lasting' = [f \in Filters |-> lasting[f] \cap Selected(indexed', f)]
  /\ UNCHANGED <<stored, walk>>

(***************************************************************************)
(* One page: DynamoDbOrderRepository.list under handleListOrders.          *)
(***************************************************************************)

\* Faulty variant: orders created in the same instant are not told apart.
BeforeByTimeOnly(p, q) == p.createdAt > q.createdAt

\* Newest first; position p is listed before position q.
Before(p, q) ==
  \/ p.createdAt > q.createdAt
  \/ p.createdAt = q.createdAt /\ p.order > q.order

PositionOf(o) == [createdAt |-> indexed[o].createdAt, order |-> o]

\* What is left to list behind a position.
Remaining(filter, after) ==
  { o \in Selected(indexed, filter) : after # Undefined => Before(after, PositionOf(o)) }

\* A query reads the index in its order from where it starts: no order it
\* leaves out comes before one it returns.
ReadInOrder(page, rest) ==
  /\ IsInjective(page)
  /\ \A j, k \in DOMAIN page : j < k => ~Before(PositionOf(page[k]), PositionOf(page[j]))
  /\ \A o \in rest \ Range(page), k \in DOMAIN page : ~Before(PositionOf(o), PositionOf(page[k]))

\* decode: a cursor serves the query it was issued for.
CursorAccepted(cursor, filter) == cursor # Undefined => cursor.filter = filter

\* The query stops at the limit, or sooner where the answer grows too big,
\* and says so by a last key; it may do so behind the very last order too.
ListPage(filter, limit) ==
  LET rest == Remaining(filter, IF walk.cursor = Undefined THEN Undefined
                                ELSE walk.cursor.position)
  IN \E n \in 0..limit : \E page \in [1..n -> rest], more \in BOOLEAN :
       /\ ReadInOrder(page, rest)
       /\ n = 0 => rest = {}
       /\ Range(page) # rest => more
       /\ more => n > 0
       /\ n < limit /\ Range(page) = rest => ~more
       /\ walk' =
            [ under |-> more, filter |-> filter,
              listed |-> walk.listed \o page,
              cursor |-> IF ~more THEN Undefined
                         ELSE [filter |-> filter, position |-> PositionOf(page[n])] ]

\* The client's first page ...
BeginWalk ==
  /\ walk = NoWalk
  /\ \E f \in Filters, l \in Limits : ListPage(f, l)
  /\ lasting' = [f \in Filters |-> Selected(indexed, f)]
  /\ UNCHANGED <<stored, indexed>>

\* ... and the next, with the cursor it was given and a filter that should
\* be the one it gave; a cursor of another query is refused.
ContinueWalk ==
  /\ walk.under
  /\ \E f \in Filters, l \in Limits : CursorAccepted(walk.cursor, f) /\ ListPage(f, l)
  /\ UNCHANGED <<stored, indexed, lasting>>

ListingNext ==
  \/ \E o \in OrderNumbers, t \in Times : CreateListed(o, t)
  \/ \E o \in OrderNumbers : ChangeStatus(o) \/ IndexCatchesUp(o)
  \/ BeginWalk \/ ContinueWalk

ListingSpec == ListingInit /\ [][ListingNext]_listingVars

(***************************************************************************)
(* Properties.                                                             *)
(***************************************************************************)

\* The table, the index and the walk hold values of their types.
ListingTypeOK ==
  /\ stored \in [OrderNumbers -> ListedOrder \cup {Undefined}]
  /\ indexed \in [OrderNumbers -> ListedOrder \cup {Undefined}]
  /\ walk \in Walks
  /\ lasting \in [Filters -> SUBSET OrderNumbers]

WalkEnded == ~walk.under /\ walk # NoWalk

\* A walk that came to its end listed every order that could be listed from
\* its first page to its last, and no order twice, whatever orders appeared,
\* changed status or shared an instant meanwhile.
WalkListsLastingOrdersOnce ==
  /\ IsInjective(walk.listed)
  /\ WalkEnded => \A o \in lasting[walk.filter] : \E n \in DOMAIN walk.listed : walk.listed[n] = o
================================================================================
