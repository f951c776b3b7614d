--------------------------- MODULE OrderLifecycle ---------------------------
(***************************************************************************)
(* The life of cash-on-delivery orders from checkout to their end: the     *)
(* shop's decisions, rider assignment and delivery, customer and admin     *)
(* cancellation, admin repair, the acceptance timeout, revisions awaiting  *)
(* the customer, and the roll-up of a multi-shop (parent) order.           *)
(*                                                                         *)
(* Every write happens in one SERIALIZABLE transaction (transaction.ts),   *)
(* so a write is one step.  Handlers that first look at the database       *)
(* OUTSIDE that transaction take two steps: a Read... action checks what   *)
(* the handler checks there and puts the call in `inFlight'; the write     *)
(* runs later, against whatever the database holds by then.                *)
(***************************************************************************)
EXTENDS OrderStatuses, Naturals, FiniteSets

CONSTANTS
  Orders,       \* shop orders: standalone ones and children
  Parents,      \* combined orders of a multi-shop checkout
  ParentOf,     \* [Orders -> Parents \cup {NoParent}]
  Riders,
  ShopOf,       \* the shop of an order or of a rider
  NoParent, NoRider, NoOrder,
  MaxRevisions, \* bound: proposals ever made
  MaxInFlight   \* bound: handler calls between their read and their write

Children(p) == {o \in Orders : ParentOf[o] = p}
Standalone  == {o \in Orders : ParentOf[o] = NoParent}
Anchors     == Parents \cup Standalone     \* rows that own a Payment

ASSUME OrdersAssumption ==
  /\ ParentOf \in [Orders -> Parents \cup {NoParent}]
  /\ NoParent \notin Parents
  /\ Orders \cap Parents = {}
  /\ \A p \in Parents : Children(p) # {}

ASSUME AbsentAssumption == NoRider \notin Riders /\ NoOrder \notin Orders

ASSUME BoundsAssumption == MaxRevisions \in Nat /\ MaxInFlight \in Nat

VARIABLES
  status,        \* [Orders \cup Parents -> OrderStatus]
  paymentStatus, \* [Orders \cup Parents -> CashStatus], Order.paymentStatus
  payment,       \* [Anchors -> CashStatus], Payment.status
  riderId,       \* [Orders -> Riders \cup {NoRider}]
  pickedUp,      \* orders whose pickedUpAt is set
  stockReturned, \* [Orders -> Nat], times the order's goods went back on sale
  revision,      \* [Orders -> RevisionStatus], the latest proposal
  proposals,     \* how many were made
  rider,         \* [Riders -> RiderRow]
  inFlight       \* calls that have read and not yet written

orderVars == <<status, paymentStatus, payment>>
vars == <<status, paymentStatus, payment, riderId, pickedUp, stockReturned,
          revision, proposals, rider, inFlight>>

RiderRow ==
  [approval : {"NONE", "PENDING", "APPROVED", "SUSPENDED"},
   active   : BOOLEAN,
   state    : {"IDLE", "ASSIGNED", "PICKING_UP", "DELIVERING"},
   order    : Orders \cup {NoOrder}]

NoProfile == [approval |-> "NONE", active |-> FALSE, state |-> "IDLE",
              order |-> NoOrder]

ShopSteps  == {"accept", "reject", "expire", "markPreparing", "markReady"}
RiderSteps == {"arrivedAtShop", "pickedUp", "arrivedAtCustomer", "delivered"}

\* The statuses a handler requires, at its read and again in its transaction.
Expected(op) ==
  CASE op \in {"accept", "reject", "expire"} -> {"SENT_TO_MERCHANT"}
    [] op = "markPreparing"     -> {"MERCHANT_ACCEPTED"}
    [] op = "markReady"         -> {"MERCHANT_ACCEPTED", "PREPARING"}
    [] op = "assignRider"       -> AssignableStatus
    [] op = "arrivedAtShop"     -> {"RIDER_ASSIGNED"}
    [] op = "pickedUp"          -> {"RIDER_ASSIGNED", "RIDER_ARRIVED_AT_SHOP"}
    [] op = "arrivedAtCustomer" -> {"ON_THE_WAY"}
    [] op = "delivered"         -> {"ON_THE_WAY", "RIDER_ARRIVED_AT_CUSTOMER"}

Call(op, o, r) == [op |-> op, order |-> o, rider |-> r]

Request == [op : ShopSteps \cup RiderSteps \cup {"assignRider"},
            order : Orders, rider : Riders \cup {NoRider}]

-----------------------------------------------------------------------------
(* Checkout (placeOrder) has just committed; some riders were hired by     *)
(* their shop, the others have no rider profile yet.                       *)

Init ==
  /\ status = [x \in Orders \cup Parents |-> "SENT_TO_MERCHANT"]
  /\ paymentStatus = [x \in Orders \cup Parents |-> "CASH_PENDING"]
  /\ payment = [a \in Anchors |-> "CASH_PENDING"]
  /\ riderId = [o \in Orders |-> NoRider]
  /\ pickedUp = {}
  /\ stockReturned = [o \in Orders |-> 0]
  /\ revision = [o \in Orders |-> "NONE"]
  /\ proposals = 0
  /\ rider \in [Riders -> {NoProfile,
                           [NoProfile EXCEPT !.approval = "APPROVED",
                                             !.active = TRUE]}]
  /\ inFlight = {}

-----------------------------------------------------------------------------
(* OrderStatusService                                                      *)

\* Two ways to get the next definition wrong: forget the revision gate, or
\* trust the status the handler read before the transaction.
MayApplyUngated(o, s, expected) == status[o] \in expected \ TerminalStatus
MayApplyTrustingRead(o, s, expected) ==
  /\ s \in BlockedByRevision => revision[o] # "PENDING"
  /\ status[o] \notin TerminalStatus

\* The refusals of applyInTransaction for writing s on order o.
MayApply(o, s, expected) ==
  /\ s \in BlockedByRevision => revision[o] # "PENDING"
  /\ status[o] \in expected \ TerminalStatus

\* The statuses of p's children once those of `changed' became s.
Ends(p, changed, s) ==
  {IF c \in changed THEN s ELSE status[c] : c \in Children(p)}

\* Wrong: ends the combined order with its first child.
RolledUpAtFirstEnd(changed, s) ==
  {p \in Parents : /\ s \in TerminalStatus
                   /\ \E o \in changed : ParentOf[o] = p
                   /\ status[p] \notin TerminalStatus}

\* The parents rollUpParent finishes when the orders of `changed' become s.
RolledUp(changed, s) ==
  {p \in Parents : /\ s \in TerminalStatus
                   /\ \E o \in changed : ParentOf[o] = p
                   /\ Ends(p, changed, s) \subseteq TerminalStatus
                   /\ status[p] \notin TerminalStatus}

\* applyInTransaction on every order of `changed', roll-up included.
ApplyStatus(changed, s) ==
  status' = [x \in Orders \cup Parents |->
               IF x \in changed THEN s
               ELSE IF x \in RolledUp(changed, s)
               THEN RolledUpStatus(Ends(x, changed, s)) ELSE status[x]]

\* The cash columns after that roll-up.
RolledUpCashOf(x, cash, changed, s) ==
  IF x \in RolledUp(changed, s) THEN RolledUpCash(Ends(x, changed, s)) ELSE cash

ParentCash(changed, s) ==
  /\ paymentStatus' = [x \in Orders \cup Parents |->
                         RolledUpCashOf(x, paymentStatus[x], changed, s)]
  /\ payment' = [a \in Anchors |->
                   IF payment[a] = "CASH_PENDING"
                   THEN RolledUpCashOf(a, payment[a], changed, s)
                   ELSE payment[a]]

Apply(changed, s) == ApplyStatus(changed, s) /\ ParentCash(changed, s)

ReturnStock(S) ==
  stockReturned' = [o \in Orders |->
                      stockReturned[o] + (IF o \in S THEN 1 ELSE 0)]

-----------------------------------------------------------------------------
(* Reads outside the transaction                                           *)

Works(r) == rider[r].approval = "APPROVED" /\ rider[r].active

Enter(call) ==
  /\ Cardinality(inFlight) < MaxInFlight
  /\ call \notin inFlight
  /\ status[call.order] \in Expected(call.op)
  /\ inFlight' = inFlight \cup {call}
  /\ UNCHANGED <<orderVars, riderId, pickedUp, stockReturned, revision,
                 proposals, rider>>

\* ownedOrder + requireStatus; for "expire", the sweep's findMany.
ReadShopStep(op, o) == op \in ShopSteps /\ Enter(Call(op, o, NoRider))

ReadAssignRider(o, r) ==
  /\ ShopOf[o] = ShopOf[r]
  /\ Works(r)
  /\ Enter(Call("assignRider", o, r))

\* ownedActiveOrder
ReadRiderStep(op, o, r) ==
  op \in RiderSteps /\ riderId[o] = r /\ Enter(Call(op, o, r))

\* The transaction threw, ran out of retries, or the process died before it.
Abort(call) ==
  /\ call \in inFlight
  /\ inFlight' = inFlight \ {call}
  /\ UNCHANGED <<orderVars, riderId, pickedUp, stockReturned, revision,
                 proposals, rider>>

Finish(call) == call \in inFlight /\ inFlight' = inFlight \ {call}

-----------------------------------------------------------------------------
(* MerchantOrdersService and the acceptance timeout                        *)

\* MERCHANT_ACCEPTED, then PREPARING, in one transaction.
Accept(o) ==
  /\ Finish(Call("accept", o, NoRider))
  /\ MayApply(o, "MERCHANT_ACCEPTED", Expected("accept"))
  /\ Apply({o}, "PREPARING")
  /\ UNCHANGED <<riderId, pickedUp, stockReturned, revision, proposals, rider>>

\* The shop's reject and the sweep's automatic one write the same.
Reject(op, o) ==
  /\ op \in {"reject", "expire"}
  /\ Finish(Call(op, o, NoRider))
  /\ MayApply(o, "MERCHANT_REJECTED", Expected(op))
  /\ Apply({o}, "MERCHANT_REJECTED")
  /\ ReturnStock({o})
  /\ UNCHANGED <<riderId, pickedUp, revision, proposals, rider>>

MarkPreparing(o) ==
  /\ Finish(Call("markPreparing", o, NoRider))
  /\ MayApply(o, "PREPARING", Expected("markPreparing"))
  /\ Apply({o}, "PREPARING")
  /\ UNCHANGED <<riderId, pickedUp, stockReturned, revision, proposals, rider>>

\* Wrong: forgets the early assignment.
ReadyStatusIgnoringRider(o) == "READY_FOR_PICKUP"

\* A rider assigned early is handed the order in the same transaction.
ReadyStatus(o) ==
  IF riderId[o] = NoRider THEN "READY_FOR_PICKUP" ELSE "RIDER_ASSIGNED"

MarkReady(o) ==
  /\ Finish(Call("markReady", o, NoRider))
  /\ MayApply(o, "READY_FOR_PICKUP", Expected("markReady"))
  /\ Apply({o}, ReadyStatus(o))
  /\ UNCHANGED <<riderId, pickedUp, stockReturned, revision, proposals, rider>>

\* Wrong: no null-rider claim on the order; no look at the revision.
MayAssignTwice(o, r) ==
  /\ revision[o] # "PENDING"
  /\ status[o] \in Expected("assignRider")
  /\ Works(r) /\ rider[r].state = "IDLE" /\ rider[r].order = NoOrder
\* What the transaction claims: an order without a rider, a rider without one.
MayAssign(o, r) ==
  /\ revision[o] # "PENDING"
  /\ riderId[o] = NoRider
  /\ status[o] \in Expected("assignRider")
  /\ Works(r)
  /\ rider[r].state = "IDLE" /\ rider[r].order = NoOrder

AssignRider(o, r) ==
  /\ Finish(Call("assignRider", o, r))
  /\ MayAssign(o, r)
  /\ rider' = [rider EXCEPT ![r].state = "ASSIGNED", ![r].order = o]
  /\ riderId' = [riderId EXCEPT ![o] = r]
  /\ Apply({o}, IF status[o] = "READY_FOR_PICKUP" THEN "RIDER_ASSIGNED"
                                                  ELSE status[o])
  /\ UNCHANGED <<pickedUp, stockReturned, revision, proposals>>

-----------------------------------------------------------------------------
(* RiderService                                                            *)

\* Wrong: takes the rider's approval as it was at the read.
ClaimUnchecked(r, o) == rider[r].order = o

\* Each step first claims the rider row for exactly this order.
Claim(r, o) == Works(r) /\ rider[r].order = o

ArrivedAtShop(o, r) ==
  /\ Finish(Call("arrivedAtShop", o, r))
  /\ Claim(r, o)
  /\ MayApply(o, "RIDER_ARRIVED_AT_SHOP", Expected("arrivedAtShop"))
  /\ rider' = [rider EXCEPT ![r].state = "PICKING_UP"]
  /\ Apply({o}, "RIDER_ARRIVED_AT_SHOP")
  /\ UNCHANGED <<riderId, pickedUp, stockReturned, revision, proposals>>

PickedUp(o, r) ==
  /\ Finish(Call("pickedUp", o, r))
  /\ Claim(r, o)
  /\ MayApply(o, "ON_THE_WAY", Expected("pickedUp"))
  /\ rider' = [rider EXCEPT ![r].state = "DELIVERING"]
  /\ Apply({o}, "ON_THE_WAY")
  /\ pickedUp' = pickedUp \cup {o}
  /\ UNCHANGED <<riderId, stockReturned, revision, proposals>>

ArrivedAtCustomer(o, r) ==
  /\ Finish(Call("arrivedAtCustomer", o, r))
  /\ Claim(r, o)
  /\ MayApply(o, "RIDER_ARRIVED_AT_CUSTOMER", Expected("arrivedAtCustomer"))
  /\ Apply({o}, "RIDER_ARRIVED_AT_CUSTOMER")
  /\ UNCHANGED <<riderId, pickedUp, stockReturned, revision, proposals, rider>>

\* The customer's code was right: the rider is free, the order is done, its
\* cash is collected; a standalone order's Payment must still be pending.
Delivered(o, r) ==
  /\ Finish(Call("delivered", o, r))
  /\ Claim(r, o)
  /\ MayApply(o, "DELIVERED", Expected("delivered"))
  /\ o \in Standalone => payment[o] = "CASH_PENDING"
  /\ rider' = [rider EXCEPT ![r].state = "IDLE", ![r].order = NoOrder]
  /\ ApplyStatus({o}, "DELIVERED")
  /\ paymentStatus' =
       [x \in Orders \cup Parents |->
          IF x = o /\ paymentStatus[o] = "CASH_PENDING" THEN "CASH_COLLECTED"
          ELSE RolledUpCashOf(x, paymentStatus[x], {o}, "DELIVERED")]
  /\ payment' =
       [a \in Anchors |->
          IF payment[a] # "CASH_PENDING" THEN payment[a]
          ELSE IF a = o THEN "CASH_COLLECTED"
          ELSE RolledUpCashOf(a, payment[a], {o}, "DELIVERED")]
  /\ UNCHANGED <<riderId, pickedUp, stockReturned, revision, proposals>>

-----------------------------------------------------------------------------
(* Cancellation and repair: one transaction each, nothing read before it.  *)

\* The rows a cancellation of x is about.
ShopOrdersOf(x) == IF x \in Parents THEN Children(x) ELSE {x}

CancelByCustomer(x) ==
  LET targets == ShopOrdersOf(x)
  IN /\ \A o \in targets : status[o] \in CustomerCancellable
     /\ Apply(targets, "CANCELLED_BY_CUSTOMER")
     /\ ReturnStock(targets)
     /\ UNCHANGED <<riderId, pickedUp, revision, proposals, rider, inFlight>>

\* Wrong: forgets one of the statuses in which the goods are gone.
InShopUntilArrival(o) == status[o] # "RIDER_ARRIVED_AT_CUSTOMER"

\* Goods that left the shop go to a return review instead of back on sale.
InShop(o) == o \notin pickedUp /\ status[o] \notin WithCustomerOrRider

FreeRiders(targets) ==
  rider' = [r \in Riders |->
              IF \E o \in targets : riderId[o] = r /\ rider[r].order = o
              THEN [rider[r] EXCEPT !.state = "IDLE", !.order = NoOrder]
              ELSE rider[r]]

CancelByAdmin(x) ==
  LET targets == {o \in ShopOrdersOf(x) : status[o] \notin TerminalStatus}
  IN /\ targets # {}
     /\ Apply(targets, "CANCELLED_BY_ADMIN")
     /\ ReturnStock({o \in targets : InShop(o)})
     /\ FreeRiders(targets)
     /\ UNCHANGED <<riderId, pickedUp, revision, proposals, inFlight>>

\* overrideOrderStatus: the admin's forward-only whitelist.
Override(o, s) ==
  /\ \/ status[o] = "SENT_TO_MERCHANT" /\ s = "MERCHANT_ACCEPTED"
     \/ status[o] = "MERCHANT_ACCEPTED" /\ s \in {"PREPARING", "READY_FOR_PICKUP"}
     \/ status[o] = "PREPARING" /\ s = "READY_FOR_PICKUP"
  /\ riderId[o] = NoRider /\ o \notin pickedUp
  /\ \A r \in Riders : rider[r].order # o
  /\ paymentStatus[o] = "CASH_PENDING"
  /\ MayApply(o, s, {status[o]})
  /\ Apply({o}, s)
  /\ UNCHANGED <<riderId, pickedUp, stockReturned, revision, proposals, rider,
                 inFlight>>

-----------------------------------------------------------------------------
(* Revisions                                                               *)

\* createRevision
ProposeRevision(o) ==
  /\ proposals < MaxRevisions
  /\ status[o] \in RevisableStatus
  /\ riderId[o] = NoRider
  /\ revision[o] # "PENDING"
  /\ revision' = [revision EXCEPT ![o] = "PENDING"]
  /\ proposals' = proposals + 1
  /\ UNCHANGED <<orderVars, riderId, pickedUp, stockReturned, rider, inFlight>>

CanResolve(o) == riderId[o] = NoRider /\ status[o] \in RevisableStatus

\* respondToRevision before the deadline (an order that moved on turns even a
\* yes into REJECTED), or the deadline passing, seen by the answer or the sweep.
ResolveRevision(o, verdict) ==
  /\ revision[o] = "PENDING"
  /\ verdict \in {"APPROVED", "REJECTED", "EXPIRED"}
  /\ verdict = "APPROVED" => CanResolve(o)
  /\ revision' = [revision EXCEPT ![o] = verdict]
  /\ UNCHANGED <<orderVars, riderId, pickedUp, stockReturned, proposals, rider,
                 inFlight>>

-----------------------------------------------------------------------------
(* Rider profiles                                                          *)

\* SetProfile(r, row): one guarded update of a rider's row, nothing else.
SetProfile(r, row) ==
  /\ rider' = [rider EXCEPT ![r] = row]
  /\ UNCHANGED <<orderVars, riderId, pickedUp, stockReturned, revision,
                 proposals, inFlight>>

ApplyAsRider(r) ==
  /\ rider[r].approval = "NONE"
  /\ SetProfile(r, [NoProfile EXCEPT !.approval = "PENDING"])

ApproveRider(r) ==
  /\ rider[r].approval = "PENDING" /\ rider[r].order = NoOrder
  /\ SetProfile(r, [rider[r] EXCEPT !.approval = "APPROVED", !.active = TRUE])

\* Deletes the profile; refused once any order names the rider.
RejectRider(r) ==
  /\ rider[r].approval = "PENDING" /\ rider[r].order = NoOrder
  /\ \A o \in Orders : riderId[o] # r
  /\ SetProfile(r, NoProfile)

\* The shop's switch: never off during a delivery.
SetRiderActive(r, active) ==
  /\ rider[r].approval = "APPROVED"
  /\ active \/ rider[r].order = NoOrder
  /\ SetProfile(r, [rider[r] EXCEPT !.active = active])

\* The admin's switch: unconditional, a running delivery included.
SetRiderSuspended(r, suspended) ==
  /\ rider[r].approval # "NONE"
  /\ SetProfile(r, [rider[r] EXCEPT
                      !.approval = IF suspended THEN "SUSPENDED" ELSE "APPROVED",
                      !.active = ~suspended])

-----------------------------------------------------------------------------
ShopNext ==
  \E o \in Orders :
    \/ \E op \in ShopSteps : ReadShopStep(op, o)
    \/ Accept(o)
    \/ \E op \in {"reject", "expire"} : Reject(op, o)
    \/ MarkPreparing(o)
    \/ MarkReady(o)
    \/ \E r \in Riders : ReadAssignRider(o, r) \/ AssignRider(o, r)
    \/ ProposeRevision(o)

DeliveryNext ==
  \E o \in Orders, r \in Riders :
    \/ \E op \in RiderSteps : ReadRiderStep(op, o, r)
    \/ ArrivedAtShop(o, r)
    \/ PickedUp(o, r)
    \/ ArrivedAtCustomer(o, r)
    \/ Delivered(o, r)

CustomerNext ==
  \/ \E x \in Orders \cup Parents : CancelByCustomer(x)
  \/ \E o \in Orders, verdict \in {"APPROVED", "REJECTED", "EXPIRED"} :
       ResolveRevision(o, verdict)

AdminNext ==
  \/ \E x \in Orders \cup Parents : CancelByAdmin(x)
  \/ \E o \in Orders, s \in OrderStatus : Override(o, s)

ProfileNext ==
  \E r \in Riders :
    \/ ApplyAsRider(r)
    \/ ApproveRider(r)
    \/ RejectRider(r)
    \/ \E b \in BOOLEAN : SetRiderActive(r, b) \/ SetRiderSuspended(r, b)

Next ==
  \/ ShopNext
  \/ DeliveryNext
  \/ CustomerNext
  \/ AdminNext
  \/ ProfileNext
  \/ \E call \in inFlight : Abort(call)

Spec == Init /\ [][Next]_vars

-----------------------------------------------------------------------------
(* Properties                                                              *)

\* Every row keeps a value its column can hold (schema.prisma).
TypeOK ==
  /\ status \in [Orders \cup Parents -> OrderStatus]
  /\ paymentStatus \in [Orders \cup Parents -> CashStatus]
  /\ payment \in [Anchors -> CashStatus]
  /\ riderId \in [Orders -> Riders \cup {NoRider}]
  /\ pickedUp \subseteq Orders
  /\ stockReturned \in [Orders -> Nat]
  /\ revision \in [Orders -> RevisionStatus]
  /\ proposals \in Nat
  /\ rider \in [Riders -> RiderRow]
  /\ inFlight \subseteq Request

Live(o) == status[o] \notin TerminalStatus

\* Order.riderId and Rider.currentOrderId name each other for as long as the
\* order lives: no rider is tied to an order that is over or someone else's,
\* and no live order names a rider who could meanwhile take another one.
RiderBinding ==
  /\ \A r \in Riders : rider[r].order # NoOrder =>
       riderId[rider[r].order] = r /\ Live(rider[r].order)
  /\ \A o \in Orders : riderId[o] # NoRider /\ Live(o) =>
       rider[riderId[o]].order = o

\* What the shop's rider list shows (Rider.currentStatus) is where the order is.
RiderStage ==
  \A r \in Riders :
    /\ rider[r].state = "IDLE" <=> rider[r].order = NoOrder
    /\ rider[r].state = "ASSIGNED" => status[rider[r].order] \in
         {"MERCHANT_ACCEPTED", "PREPARING", "RIDER_ASSIGNED"}
    /\ rider[r].state = "PICKING_UP" =>
         status[rider[r].order] = "RIDER_ARRIVED_AT_SHOP"
    /\ rider[r].state = "DELIVERING" =>
         status[rider[r].order] \in WithCustomerOrRider

\* Readiness racing an early assignment never leaves a packed order that has
\* its rider and yet waits for one (markReady, assignRider), and no order is
\* in a rider's hands without a rider.
NoStrandedOrder ==
  \A o \in Orders :
    /\ status[o] = "READY_FOR_PICKUP" => riderId[o] = NoRider
    /\ status[o] \in FulfilmentStatus \ (AssignableStatus \cup {"SENT_TO_MERCHANT"})
         => riderId[o] # NoRider

\* A combined order is over exactly when all of its shop orders are: delivered if
\* one of them was, and called the customer's or the admin's cancellation only if
\* every part was, whatever the order and the actors they ended by.
ParentFollowsChildren ==
  \A p \in Parents :
    LET S == {status[o] : o \in Children(p)}
    IN /\ status[p] \in TerminalStatus \cup {"SENT_TO_MERCHANT"}
       /\ status[p] \in TerminalStatus <=> S \subseteq TerminalStatus
       /\ S \subseteq TerminalStatus => (status[p] = "DELIVERED" <=> "DELIVERED" \in S)
       /\ status[p] \in {"CANCELLED_BY_CUSTOMER", "CANCELLED_BY_ADMIN"} => S = {status[p]}

\* Cash is on the books of an order, and of the Payment that anchors it, if
\* and only if the goods were handed over; a cancelled combined order owes none.
CashFollowsGoods ==
  /\ \A o \in Orders :
       paymentStatus[o] = IF status[o] = "DELIVERED" THEN "CASH_COLLECTED"
                                                     ELSE "CASH_PENDING"
  /\ \A o \in Standalone : payment[o] = paymentStatus[o]
  /\ \A p \in Parents :
       /\ payment[p] = paymentStatus[p]
       /\ payment[p] = IF status[p] \notin TerminalStatus THEN "CASH_PENDING"
                       ELSE IF \E o \in Children(p) : status[o] = "DELIVERED"
                       THEN "CASH_COLLECTED" ELSE "FAILED"

\* The goods of an order go back on sale once if it dies in the shop, and never
\* if they left it: no unit is sold twice, none is lost (restoreStock).
StockReturnedOnce ==
  \A o \in Orders :
    stockReturned[o] =
      IF status[o] \in CancelledStatus /\ o \notin pickedUp THEN 1 ELSE 0

\* ... and it does not move otherwise, whatever was in flight when it began.
RevisionFreezesOrder ==
  [][\A o \in Orders :
       revision[o] = "PENDING" /\ status'[o] # status[o] =>
         status'[o] \in {"CANCELLED_BY_CUSTOMER", "CANCELLED_BY_ADMIN"}]_vars

\* How far an order has come; only the pairs the code may skip share a step.
Progress(s) ==
  CASE s = "SENT_TO_MERCHANT"          -> 0
    [] s = "MERCHANT_ACCEPTED"         -> 1
    [] s = "PREPARING"                 -> 2
    [] s = "READY_FOR_PICKUP"          -> 3
    [] s = "RIDER_ASSIGNED"            -> 4
    [] s = "RIDER_ARRIVED_AT_SHOP"     -> 5
    [] s = "ON_THE_WAY"                -> 6
    [] s = "RIDER_ARRIVED_AT_CUSTOMER" -> 7
    [] s \in TerminalStatus            -> 8

\* A status is overwritten only by a later one, and an end by nothing, although
\* every handler decided on a status it read before its transaction began.
StatusMovesForward ==
  [][\A x \in Orders \cup Parents :
       status'[x] # status[x] => Progress(status'[x]) > Progress(status[x])]_vars

\* From pick-up on an order moves only by its own, approved and active rider, or
\* by an admin's cancellation: a suspension holds against calls already in flight.
OnlyItsRiderDelivers ==
  [][\A o \in Orders :
       /\ status'[o] # status[o]
       /\ status'[o] \in WithCustomerOrRider \cup {"RIDER_ARRIVED_AT_SHOP", "DELIVERED"}
       => /\ riderId[o] # NoRider
          /\ Works(riderId[o])
          /\ rider[riderId[o]].order = o]_vars

\* The promise of a multi-shop checkout, seen through these rows.
Outcome(s) == CASE s = "DELIVERED"           -> "delivered"
                [] s \in CancelledStatus     -> "cancelled"
                [] s \in FulfilmentStatus    -> "open"

Due(c) == CASE c = "CASH_PENDING"   -> "due"
            [] c = "CASH_COLLECTED" -> "collected"
            [] c = "FAILED"         -> "none"

Promise == INSTANCE CombinedOrder WITH
  outcome  <- [o \in Orders |-> Outcome(status[o])],
  combined <- [p \in Parents |-> Outcome(status[p])],
  cash     <- [p \in Parents |-> Due(payment[p])]

\* Every step of the API's handlers keeps that promise.
KeepsPromise == Promise!Spec
==============================================================================
