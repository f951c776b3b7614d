------------------------ MODULE OrderLifecycleProofs ------------------------
(***************************************************************************)
(* Proofs about OrderLifecycle, for any number of orders, combined orders, *)
(* riders and calls in flight.  The first part is about riders: who has    *)
(* which order, and that no desk or checkout takes it from him.  The       *)
(* second is about how an order moves and ends: statuses only move         *)
(* forward, a pending revision holds, goods and cash follow the outcome,   *)
(* and a combined order keeps the promise of CombinedOrder.  There every   *)
(* step of the API is first reduced to one of two shapes: it writes one    *)
(* status on a set of orders (Moves), or it leaves statuses, cash, pick-   *)
(* ups and stock alone (Still).  The third is about AcceptanceTimer: a     *)
(* shop is rejected for its own silence only, for any number of orders and *)
(* of sweeps that overlap, lag and break off, and any windows.             *)
(***************************************************************************)
EXTENDS OrderLifecycle, TLAPS

-----------------------------------------------------------------------------
(* What writing a status does to the rows it touches                       *)

\* The combined order's outcome is one of the statuses of the enum.
LEMMA RolledUpStatusType ==
  ASSUME NEW S
  PROVE  RolledUpStatus(S) \in TerminalStatus
BY DEF RolledUpStatus, TerminalStatus, CancelledStatus

\* ... and the cash outcome beside it one of the three COD payment statuses.
LEMMA RolledUpCashType ==
  ASSUME NEW S
  PROVE  RolledUpCash(S) \in CashStatus
BY DEF RolledUpCash, CashStatus

\* applyInTransaction changes a shop order exactly as it is told to.
LEMMA ApplyStatusFacts ==
  ASSUME TypeOK, NEW changed \in SUBSET Orders, NEW s \in OrderStatus,
         ApplyStatus(changed, s)
  PROVE  /\ status' \in [Orders \cup Parents -> OrderStatus]
         /\ \A o \in Orders : status'[o] = IF o \in changed THEN s ELSE status[o]
<1> USE DEF TypeOK
<1>1. \A x : x \in RolledUp(changed, s) => x \in Parents
  BY DEF RolledUp
<1>2. \A x \in Orders \cup Parents : RolledUpStatus(Ends(x, changed, s)) \in OrderStatus
  BY RolledUpStatusType DEF OrderStatus
<1>3. \A x \in Orders \cup Parents :
        status'[x] = IF x \in changed THEN s
                     ELSE IF x \in RolledUp(changed, s)
                     THEN RolledUpStatus(Ends(x, changed, s)) ELSE status[x]
  BY DEF ApplyStatus
<1>4. \A x \in Orders \cup Parents : status'[x] \in OrderStatus
  BY <1>2, <1>3
<1>5. status' \in [Orders \cup Parents -> OrderStatus]
  BY <1>4 DEF ApplyStatus
<1>6. ASSUME NEW o \in Orders
      PROVE  status'[o] = IF o \in changed THEN s ELSE status[o]
  BY <1>1, <1>3, OrdersAssumption
<1>7. QED
  BY <1>5, <1>6

\* The cash columns keep their type through a roll-up.
LEMMA ParentCashType ==
  ASSUME TypeOK, NEW changed \in SUBSET Orders, NEW s \in OrderStatus,
         ParentCash(changed, s)
  PROVE  /\ paymentStatus' \in [Orders \cup Parents -> CashStatus]
         /\ payment' \in [Anchors -> CashStatus]
<1>1. ASSUME NEW x, NEW c \in CashStatus
      PROVE  RolledUpCashOf(x, c, changed, s) \in CashStatus
  BY RolledUpCashType DEF RolledUpCashOf
<1>2. QED
  BY <1>1 DEF ParentCash, TypeOK

\* Both at once, for the handlers that write a status and nothing of a payment.
LEMMA ApplyFacts ==
  ASSUME TypeOK, NEW changed \in SUBSET Orders, NEW s \in OrderStatus,
         Apply(changed, s)
  PROVE  /\ status' \in [Orders \cup Parents -> OrderStatus]
         /\ paymentStatus' \in [Orders \cup Parents -> CashStatus]
         /\ payment' \in [Anchors -> CashStatus]
         /\ \A o \in Orders : status'[o] = IF o \in changed THEN s ELSE status[o]
BY ApplyStatusFacts, ParentCashType DEF Apply

\* Goods are returned a natural number of times.
LEMMA ReturnStockType ==
  ASSUME TypeOK, NEW S, ReturnStock(S)
  PROVE  stockReturned' \in [Orders -> Nat]
BY DEF ReturnStock, TypeOK

\* A freed rider's row is a row.
LEMMA FreedRowType ==
  ASSUME NEW row \in RiderRow
  PROVE  [row EXCEPT !.state = "IDLE", !.order = NoOrder] \in RiderRow
BY DEF RiderRow

\* A read puts a well-formed call in flight and writes nothing.
LEMMA EnterType ==
  ASSUME TypeOK, NEW call \in Request, Enter(call)
  PROVE  TypeOK'
BY DEF Enter, TypeOK, orderVars

-----------------------------------------------------------------------------
(* Type correctness                                                        *)

\* The statuses handlers write belong to the enum.
LEMMA WrittenStatuses ==
  /\ "PREPARING" \in OrderStatus          /\ "READY_FOR_PICKUP" \in OrderStatus
  /\ "RIDER_ASSIGNED" \in OrderStatus     /\ "RIDER_ARRIVED_AT_SHOP" \in OrderStatus
  /\ "ON_THE_WAY" \in OrderStatus         /\ "RIDER_ARRIVED_AT_CUSTOMER" \in OrderStatus
  /\ "DELIVERED" \in OrderStatus          /\ "MERCHANT_REJECTED" \in OrderStatus
  /\ "MERCHANT_ACCEPTED" \in OrderStatus  /\ "CANCELLED_BY_CUSTOMER" \in OrderStatus
  /\ "CANCELLED_BY_ADMIN" \in OrderStatus
BY DEF OrderStatus, FulfilmentStatus, TerminalStatus, CancelledStatus

\* Steps of the shop and of the sweep keep the types.
LEMMA ShopTypeStep == TypeOK /\ ShopNext => TypeOK'
<1> SUFFICES ASSUME TypeOK, NEW o \in Orders,
                    \/ \E op \in ShopSteps : ReadShopStep(op, o)
                    \/ Accept(o)
                    \/ \E op \in {"reject", "expire"} : Reject(op, o)
                    \/ MarkPreparing(o)
                    \/ MarkReady(o)
                    \/ \E r \in Riders : ReadAssignRider(o, r) \/ AssignRider(o, r)
                    \/ ProposeRevision(o)
             PROVE  TypeOK'
  BY DEF ShopNext
<1> {o} \in SUBSET Orders
  OBVIOUS
<1>1. ASSUME NEW op \in ShopSteps, ReadShopStep(op, o) PROVE TypeOK'
  <2>1. Call(op, o, NoRider) \in Request
    BY DEF Call, Request
  <2>2. QED
    BY <1>1, <2>1, EnterType DEF ReadShopStep
<1>2. CASE Accept(o)
  BY <1>2, ApplyFacts, WrittenStatuses DEF Accept, Finish, TypeOK
<1>3. ASSUME NEW op \in {"reject", "expire"}, Reject(op, o) PROVE TypeOK'
  BY <1>3, ApplyFacts, ReturnStockType, WrittenStatuses DEF Reject, Finish, TypeOK
<1>4. CASE MarkPreparing(o)
  BY <1>4, ApplyFacts, WrittenStatuses DEF MarkPreparing, Finish, TypeOK
<1>5. CASE MarkReady(o)
  <2>1. ReadyStatus(o) \in OrderStatus
    BY WrittenStatuses DEF ReadyStatus
  <2>2. QED
    BY <1>5, <2>1, ApplyFacts DEF MarkReady, Finish, TypeOK
<1>6. ASSUME NEW r \in Riders, ReadAssignRider(o, r) PROVE TypeOK'
  <2>1. Call("assignRider", o, r) \in Request
    BY DEF Call, Request
  <2>2. QED
    BY <1>6, <2>1, EnterType DEF ReadAssignRider
<1>7. ASSUME NEW r \in Riders, AssignRider(o, r) PROVE TypeOK'
  <2>1. (IF status[o] = "READY_FOR_PICKUP" THEN "RIDER_ASSIGNED" ELSE status[o])
          \in OrderStatus
    BY WrittenStatuses DEF TypeOK
  <2>2. rider' \in [Riders -> RiderRow]
    BY <1>7 DEF AssignRider, TypeOK, RiderRow
  <2>3. QED
    BY <1>7, <2>1, <2>2, ApplyFacts DEF AssignRider, Finish, TypeOK
<1>8. CASE ProposeRevision(o)
  BY <1>8 DEF ProposeRevision, TypeOK, orderVars, RevisionStatus
<1>9. QED
  BY <1>1, <1>2, <1>3, <1>4, <1>5, <1>6, <1>7, <1>8

\* Steps of a rider keep the types.
LEMMA DeliveryTypeStep == TypeOK /\ DeliveryNext => TypeOK'
<1> SUFFICES ASSUME TypeOK, NEW o \in Orders, NEW r \in Riders,
                    \/ \E op \in RiderSteps : ReadRiderStep(op, o, r)
                    \/ ArrivedAtShop(o, r)
                    \/ PickedUp(o, r)
                    \/ ArrivedAtCustomer(o, r)
                    \/ Delivered(o, r)
             PROVE  TypeOK'
  BY DEF DeliveryNext
<1> {o} \in SUBSET Orders
  OBVIOUS
<1>1. ASSUME NEW op \in RiderSteps, ReadRiderStep(op, o, r) PROVE TypeOK'
  <2>1. Call(op, o, r) \in Request
    BY DEF Call, Request
  <2>2. QED
    BY <1>1, <2>1, EnterType DEF ReadRiderStep
<1>2. CASE ArrivedAtShop(o, r)
  <2>1. rider' \in [Riders -> RiderRow]
    BY <1>2 DEF ArrivedAtShop, TypeOK, RiderRow
  <2>2. QED
    BY <1>2, <2>1, ApplyFacts, WrittenStatuses DEF ArrivedAtShop, Finish, TypeOK
<1>3. CASE PickedUp(o, r)
  <2>1. rider' \in [Riders -> RiderRow]
    BY <1>3 DEF PickedUp, TypeOK, RiderRow
  <2>2. QED
    BY <1>3, <2>1, ApplyFacts, WrittenStatuses DEF PickedUp, Finish, TypeOK
<1>4. CASE ArrivedAtCustomer(o, r)
  BY <1>4, ApplyFacts, WrittenStatuses DEF ArrivedAtCustomer, Finish, TypeOK
<1>5. CASE Delivered(o, r)
  <2>1. rider' \in [Riders -> RiderRow]
    <3>1. rider \in [Riders -> RiderRow]
      BY DEF TypeOK
    <3>2. [rider[r] EXCEPT !.state = "IDLE", !.order = NoOrder] \in RiderRow
      BY <3>1, FreedRowType
    <3>3. rider' = [rider EXCEPT ![r] =
                      [rider[r] EXCEPT !.state = "IDLE", !.order = NoOrder]]
      BY <1>5, <3>1 DEF Delivered
    <3>4. QED
      BY <3>1, <3>2, <3>3
  <2>2. status' \in [Orders \cup Parents -> OrderStatus]
    BY <1>5, ApplyStatusFacts, WrittenStatuses DEF Delivered
  <2>3. ASSUME NEW x, NEW c \in CashStatus
        PROVE  RolledUpCashOf(x, c, {o}, "DELIVERED") \in CashStatus
    BY RolledUpCashType DEF RolledUpCashOf
  <2>4. paymentStatus' \in [Orders \cup Parents -> CashStatus]
    BY <1>5, <2>3 DEF Delivered, TypeOK, CashStatus
  <2>5. payment' \in [Anchors -> CashStatus]
    BY <1>5, <2>3 DEF Delivered, TypeOK, CashStatus
  <2>6. QED
    BY <1>5, <2>1, <2>2, <2>4, <2>5 DEF Delivered, Finish, TypeOK
<1>6. QED
  BY <1>1, <1>2, <1>3, <1>4, <1>5

\* Steps of the customer keep the types.
LEMMA CustomerTypeStep == TypeOK /\ CustomerNext => TypeOK'
<1> SUFFICES ASSUME TypeOK, CustomerNext
             PROVE  TypeOK'
  OBVIOUS
<1>1. ASSUME NEW x \in Orders \cup Parents, CancelByCustomer(x) PROVE TypeOK'
  <2>1. ShopOrdersOf(x) \in SUBSET Orders
    BY DEF ShopOrdersOf, Children
  <2>2. QED
    BY <1>1, <2>1, ApplyFacts, ReturnStockType, WrittenStatuses
       DEF CancelByCustomer, TypeOK
<1>2. ASSUME NEW o \in Orders, NEW verdict \in {"APPROVED", "REJECTED", "EXPIRED"},
             ResolveRevision(o, verdict)
      PROVE  TypeOK'
  BY <1>2 DEF ResolveRevision, TypeOK, orderVars, RevisionStatus
<1>3. QED
  BY <1>1, <1>2 DEF CustomerNext

\* Steps of an admin keep the types.
LEMMA AdminTypeStep == TypeOK /\ AdminNext => TypeOK'
<1> SUFFICES ASSUME TypeOK, AdminNext
             PROVE  TypeOK'
  OBVIOUS
<1>1. ASSUME NEW x \in Orders \cup Parents, CancelByAdmin(x) PROVE TypeOK'
  <2> DEFINE targets == {o \in ShopOrdersOf(x) : status[o] \notin TerminalStatus}
  <2>1. targets \in SUBSET Orders
    BY DEF ShopOrdersOf, Children
  <2>2. /\ Apply(targets, "CANCELLED_BY_ADMIN")
        /\ ReturnStock({o \in targets : InShop(o)})
        /\ FreeRiders(targets)
        /\ UNCHANGED <<riderId, pickedUp, revision, proposals, inFlight>>
    BY <1>1 DEF CancelByAdmin
  <2> HIDE DEF targets
  <2>3. rider' \in [Riders -> RiderRow]
    BY <2>2, FreedRowType DEF FreeRiders, TypeOK
  <2>4. stockReturned' \in [Orders -> Nat]
    BY <2>2, ReturnStockType
  <2>5. QED
    BY <2>1, <2>2, <2>3, <2>4, ApplyFacts, WrittenStatuses DEF TypeOK
<1>2. ASSUME NEW o \in Orders, NEW s \in OrderStatus, Override(o, s)
      PROVE  TypeOK'
  BY <1>2, ApplyFacts DEF Override, TypeOK
<1>3. QED
  BY <1>1, <1>2 DEF AdminNext

\* Changes of a rider's profile keep the types.
LEMMA ProfileTypeStep == TypeOK /\ ProfileNext => TypeOK'
<1> SUFFICES ASSUME TypeOK, NEW r \in Riders,
                    \/ ApplyAsRider(r) \/ ApproveRider(r) \/ RejectRider(r)
                    \/ \E b \in BOOLEAN : SetRiderActive(r, b) \/ SetRiderSuspended(r, b)
             PROVE  TypeOK'
  BY DEF ProfileNext
<1>1. ASSUME NEW row \in RiderRow, SetProfile(r, row) PROVE TypeOK'
  BY <1>1 DEF SetProfile, TypeOK, orderVars
<1>2. rider[r] \in RiderRow
  BY DEF TypeOK
<1>3. CASE ApplyAsRider(r)
  <2>1. [NoProfile EXCEPT !.approval = "PENDING"] \in RiderRow
    BY DEF NoProfile, RiderRow
  <2>2. QED
    BY <1>1, <1>3, <2>1 DEF ApplyAsRider
<1>4. CASE ApproveRider(r)
  <2>1. [rider[r] EXCEPT !.approval = "APPROVED", !.active = TRUE] \in RiderRow
    BY <1>2 DEF RiderRow
  <2>2. QED
    BY <1>1, <1>4, <2>1 DEF ApproveRider
<1>5. CASE RejectRider(r)
  <2>1. NoProfile \in RiderRow
    BY DEF NoProfile, RiderRow
  <2>2. QED
    BY <1>1, <1>5, <2>1 DEF RejectRider
<1>6. ASSUME NEW b \in BOOLEAN, SetRiderActive(r, b) PROVE TypeOK'
  <2>1. [rider[r] EXCEPT !.active = b] \in RiderRow
    BY <1>2 DEF RiderRow
  <2>2. QED
    BY <1>1, <1>6, <2>1 DEF SetRiderActive
<1>7. ASSUME NEW b \in BOOLEAN, SetRiderSuspended(r, b) PROVE TypeOK'
  <2>1. [rider[r] EXCEPT !.approval = IF b THEN "SUSPENDED" ELSE "APPROVED",
                         !.active = ~b] \in RiderRow
    BY <1>2 DEF RiderRow
  <2>2. QED
    BY <1>1, <1>7, <2>1 DEF SetRiderSuspended
<1>8. QED
  BY <1>3, <1>4, <1>5, <1>6, <1>7

\* The rows of a fresh checkout are well-formed.
LEMMA InitType == Init => TypeOK
<1>1. /\ "SENT_TO_MERCHANT" \in OrderStatus
      /\ "CASH_PENDING" \in CashStatus
      /\ "NONE" \in RevisionStatus
  BY DEF OrderStatus, FulfilmentStatus, CashStatus, RevisionStatus
<1>2. {NoProfile, [NoProfile EXCEPT !.approval = "APPROVED", !.active = TRUE]}
        \subseteq RiderRow
  <2>1. NoProfile \in RiderRow
    BY DEF NoProfile, RiderRow
  <2>2. [NoProfile EXCEPT !.approval = "APPROVED", !.active = TRUE] \in RiderRow
    BY <2>1 DEF RiderRow
  <2>3. QED
    BY <2>1, <2>2
<1>3. QED
  BY <1>1, <1>2 DEF Init, TypeOK

\* Every column of every row keeps its type, in every reachable state.
THEOREM TypeCorrect == Spec => []TypeOK
<1>1. TypeOK /\ [Next]_vars => TypeOK'
  <2> SUFFICES ASSUME TypeOK, [Next]_vars
               PROVE  TypeOK'
    OBVIOUS
  <2>1. ASSUME NEW call \in inFlight, Abort(call) PROVE TypeOK'
    BY <2>1 DEF Abort, TypeOK, orderVars
  <2>2. CASE UNCHANGED vars
    BY <2>2 DEF vars, TypeOK
  <2>3. QED
    BY <2>1, <2>2, ShopTypeStep, DeliveryTypeStep, CustomerTypeStep,
       AdminTypeStep, ProfileTypeStep DEF Next
<1>2. QED
  BY <1>1, InitType, PTL DEF Spec

-----------------------------------------------------------------------------
(* Riders and orders                                                       *)

\* A rider row without a profile holds no order: the part of the invariant
\* that keeps a new application (applyAsRider) from hiding a running delivery.
NoProfileNoOrder ==
  \A r \in Riders : rider[r].approval = "NONE" => rider[r].order = NoOrder

\* The invariant: assignment on both rows, the rider's stage, the order's stage.
\* None of the three is inductive alone: a rejection is safe only because no
\* SENT_TO_MERCHANT order has a rider, which follows from the first two.
DeliveryInv ==
  TypeOK /\ RiderBinding /\ RiderStage /\ NoStrandedOrder /\ NoProfileNoOrder

\* The statuses each handler requires, one by one.
LEMMA ExpectedFacts ==
  /\ Expected("accept") = {"SENT_TO_MERCHANT"}
  /\ Expected("reject") = {"SENT_TO_MERCHANT"}
  /\ Expected("expire") = {"SENT_TO_MERCHANT"}
  /\ Expected("markPreparing") = {"MERCHANT_ACCEPTED"}
  /\ Expected("markReady") = {"MERCHANT_ACCEPTED", "PREPARING"}
  /\ Expected("assignRider") = AssignableStatus
  /\ Expected("arrivedAtShop") = {"RIDER_ASSIGNED"}
  /\ Expected("pickedUp") = {"RIDER_ASSIGNED", "RIDER_ARRIVED_AT_SHOP"}
  /\ Expected("arrivedAtCustomer") = {"ON_THE_WAY"}
  /\ Expected("delivered") = {"ON_THE_WAY", "RIDER_ARRIVED_AT_CUSTOMER"}
BY DEF Expected

\* A live order with a rider is in the shop after acceptance or on its way:
\* in particular an order nobody accepted, or packed and waiting, has none.
LEMMA AssignedStages ==
  ASSUME DeliveryInv, NEW o \in Orders, riderId[o] # NoRider, Live(o)
  PROVE  /\ riderId[o] \in Riders
         /\ rider[riderId[o]].order = o
         /\ status[o] \in {"MERCHANT_ACCEPTED", "PREPARING", "RIDER_ASSIGNED",
                           "RIDER_ARRIVED_AT_SHOP", "ON_THE_WAY",
                           "RIDER_ARRIVED_AT_CUSTOMER"}
<1>1. riderId[o] \in Riders /\ rider[riderId[o]] \in RiderRow
  BY DEF DeliveryInv, TypeOK
<1>2. rider[riderId[o]].order = o /\ o # NoOrder
  BY AbsentAssumption DEF DeliveryInv, RiderBinding
<1>3. rider[riderId[o]].state \in {"ASSIGNED", "PICKING_UP", "DELIVERING"}
  BY <1>1, <1>2 DEF DeliveryInv, RiderStage, RiderRow
<1>4. QED
  BY <1>1, <1>2, <1>3 DEF DeliveryInv, RiderStage, WithCustomerOrRider

\* Orders without a rider may enter any status that needs none.
LEMMA UnassignedMove ==
  ASSUME DeliveryInv, NEW changed \in SUBSET Orders,
         NEW s \in TerminalStatus \cup AssignableStatus,
         \A o \in changed : riderId[o] = NoRider,
         \A o \in Orders : status'[o] = IF o \in changed THEN s ELSE status[o],
         UNCHANGED <<riderId, rider>>
  PROVE  RiderBinding' /\ RiderStage' /\ NoStrandedOrder' /\ NoProfileNoOrder'
<1> USE DEF DeliveryInv
<1>1. ASSUME NEW r \in Riders, rider[r].order # NoOrder
      PROVE  rider[r].order \in Orders /\ rider[r].order \notin changed
  BY <1>1, AbsentAssumption DEF RiderBinding, TypeOK, RiderRow
<1>2. RiderBinding'
  BY <1>1 DEF RiderBinding, Live
<1>3. RiderStage'
  <2> SUFFICES ASSUME NEW r \in Riders
               PROVE  /\ rider[r].state = "IDLE" <=> rider[r].order = NoOrder
                      /\ rider[r].state = "ASSIGNED" => status'[rider[r].order] \in
                           {"MERCHANT_ACCEPTED", "PREPARING", "RIDER_ASSIGNED"}
                      /\ rider[r].state = "PICKING_UP" =>
                           status'[rider[r].order] = "RIDER_ARRIVED_AT_SHOP"
                      /\ rider[r].state = "DELIVERING" =>
                           status'[rider[r].order] \in WithCustomerOrRider
    BY DEF RiderStage
  <2>1. rider[r].order # NoOrder => status'[rider[r].order] = status[rider[r].order]
    BY <1>1
  <2>2. QED
    BY <2>1 DEF RiderStage
<1>4. NoStrandedOrder'
  BY DEF NoStrandedOrder, TerminalStatus, CancelledStatus, FulfilmentStatus
<1>5. QED
  BY <1>2, <1>3, <1>4 DEF NoProfileNoOrder

\* The rider's status column and the order's status fit together.
Fits(state, s) ==
  \/ state = "ASSIGNED" /\ s \in {"MERCHANT_ACCEPTED", "PREPARING", "RIDER_ASSIGNED"}
  \/ state = "PICKING_UP" /\ s = "RIDER_ARRIVED_AT_SHOP"
  \/ state = "DELIVERING" /\ s \in WithCustomerOrRider

\* An order may move together with its own rider.
LEMMA RiderMove ==
  ASSUME DeliveryInv, NEW o \in Orders, NEW r \in Riders, NEW state, NEW s,
         Fits(state, s), rider[r].order = o,
         \A q \in Orders : status'[q] = IF q \in {o} THEN s ELSE status[q],
         riderId' = riderId,
         \A q \in Riders : /\ rider'[q].order = rider[q].order
                           /\ rider'[q].approval = rider[q].approval
                           /\ rider'[q].state = IF q = r THEN state ELSE rider[q].state
  PROVE  RiderBinding' /\ RiderStage' /\ NoStrandedOrder' /\ NoProfileNoOrder'
<1> USE DEF DeliveryInv
<1>1. o # NoOrder /\ riderId[o] = r /\ Live(o) /\ r # NoRider
  BY AbsentAssumption DEF RiderBinding
<1>2. ASSUME NEW q \in Riders, rider[q].order # NoOrder
      PROVE  rider[q].order \in Orders /\ (rider[q].order = o => q = r)
  BY <1>1, <1>2 DEF RiderBinding, TypeOK, RiderRow
<1>3. s \in FulfilmentStatus /\ s \notin TerminalStatus /\ s # "READY_FOR_PICKUP"
  BY DEF Fits, WithCustomerOrRider, FulfilmentStatus, TerminalStatus, CancelledStatus
<1>4. RiderBinding'
  <2>1. ASSUME NEW q \in Riders, rider'[q].order # NoOrder
        PROVE  /\ riderId'[rider'[q].order] = q
               /\ status'[rider'[q].order] \notin TerminalStatus
    <3>1. rider[q].order \in Orders /\ riderId[rider[q].order] = q /\ Live(rider[q].order)
      BY <1>2, <2>1 DEF RiderBinding
    <3>2. QED
      BY <1>3, <3>1 DEF Live
  <2>2. ASSUME NEW p \in Orders, riderId'[p] # NoRider, status'[p] \notin TerminalStatus
        PROVE  rider'[riderId'[p]].order = p
    <3>1. Live(p) /\ riderId[p] \in Riders
      BY <1>1, <2>2 DEF Live, TypeOK
    <3>2. QED
      BY <2>2, <3>1 DEF RiderBinding
  <2>3. QED
    BY <2>1, <2>2 DEF RiderBinding, Live
<1>5. RiderStage'
  <2>1. ASSUME NEW q \in Riders, q # r, rider[q].order # NoOrder
        PROVE  status'[rider[q].order] = status[rider[q].order]
    BY <1>2, <2>1
  <2>2. QED
    BY <1>1, <2>1 DEF RiderStage, Fits
<1>6. NoStrandedOrder'
  BY <1>1, <1>3 DEF NoStrandedOrder
<1>7. QED
  BY <1>4, <1>5, <1>6 DEF NoProfileNoOrder

\* Orders may end together with the release of the riders that hold them.
LEMMA Release ==
  ASSUME DeliveryInv, NEW changed \in SUBSET Orders, NEW s \in TerminalStatus,
         \A o \in Orders : status'[o] = IF o \in changed THEN s ELSE status[o],
         riderId' = riderId,
         \A q \in Riders :
           /\ rider'[q].approval = rider[q].approval
           /\ IF rider[q].order \in changed
              THEN rider'[q].order = NoOrder /\ rider'[q].state = "IDLE"
              ELSE rider'[q].order = rider[q].order /\ rider'[q].state = rider[q].state
  PROVE  RiderBinding' /\ RiderStage' /\ NoStrandedOrder' /\ NoProfileNoOrder'
<1> USE DEF DeliveryInv
<1>1. \A q \in Riders : rider[q].order \in Orders \cup {NoOrder}
  BY DEF TypeOK, RiderRow
<1>2. s \notin FulfilmentStatus
  BY DEF FulfilmentStatus, TerminalStatus, CancelledStatus
<1>3. RiderBinding'
  <2>1. ASSUME NEW q \in Riders, rider'[q].order # NoOrder
        PROVE  /\ riderId'[rider'[q].order] = q
               /\ status'[rider'[q].order] \notin TerminalStatus
    <3>1. rider[q].order \in Orders \ changed /\ rider'[q].order = rider[q].order
      BY <1>1, <2>1
    <3>2. riderId[rider[q].order] = q /\ Live(rider[q].order)
      BY <3>1, AbsentAssumption DEF RiderBinding
    <3>3. QED
      BY <3>1, <3>2 DEF Live
  <2>2. ASSUME NEW o \in Orders, riderId'[o] # NoRider,
               status'[o] \notin TerminalStatus
        PROVE  rider'[riderId'[o]].order = o
    <3>1. o \notin changed /\ Live(o) /\ riderId[o] \in Riders
      BY <2>2 DEF Live, TypeOK
    <3>2. rider[riderId[o]].order = o
      BY <2>2, <3>1 DEF RiderBinding
    <3>3. QED
      BY <3>1, <3>2
  <2>3. QED
    BY <2>1, <2>2 DEF RiderBinding, Live
<1>4. RiderStage'
  <2>1. ASSUME NEW q \in Riders, rider[q].order \in Orders \ changed
        PROVE  /\ rider'[q].order = rider[q].order /\ rider'[q].state = rider[q].state
               /\ status'[rider[q].order] = status[rider[q].order]
    BY <2>1
  <2>2. NoOrder \notin changed
    BY AbsentAssumption
  <2>3. QED
    BY <1>1, <2>1, <2>2 DEF RiderStage
<1>5. NoStrandedOrder'
  BY <1>2 DEF NoStrandedOrder, TerminalStatus, CancelledStatus, FulfilmentStatus
<1>6. QED
  BY <1>3, <1>4, <1>5 DEF NoProfileNoOrder

\* A rider without an order may be handed one that has no rider.
LEMMA Assignment ==
  ASSUME DeliveryInv, NEW o \in Orders, NEW r \in Riders, AssignRider(o, r)
  PROVE  RiderBinding' /\ RiderStage' /\ NoStrandedOrder' /\ NoProfileNoOrder'
<1> USE DEF DeliveryInv
<1> DEFINE s == IF status[o] = "READY_FOR_PICKUP" THEN "RIDER_ASSIGNED" ELSE status[o]
<1>1. /\ riderId[o] = NoRider /\ status[o] \in AssignableStatus
      /\ Works(r) /\ rider[r].state = "IDLE" /\ rider[r].order = NoOrder
      /\ rider' = [rider EXCEPT ![r].state = "ASSIGNED", ![r].order = o]
      /\ riderId' = [riderId EXCEPT ![o] = r]
      /\ Apply({o}, s)
  BY ExpectedFacts DEF AssignRider, MayAssign
<1>2. s \in {"MERCHANT_ACCEPTED", "PREPARING", "RIDER_ASSIGNED"}
  BY <1>1 DEF AssignableStatus
<1>3. s \in OrderStatus \ TerminalStatus /\ s # "READY_FOR_PICKUP"
  BY <1>2 DEF OrderStatus, FulfilmentStatus, TerminalStatus, CancelledStatus
<1> HIDE DEF s
<1>4. \A q \in Orders : status'[q] = IF q = o THEN s ELSE status[q]
  <2>1. {o} \in SUBSET Orders
    OBVIOUS
  <2>2. \A q \in Orders : status'[q] = IF q \in {o} THEN s ELSE status[q]
    BY <1>1, <1>3, <2>1, ApplyFacts
  <2>3. QED
    BY <2>2
<1>5. \A q \in Orders : riderId'[q] = IF q = o THEN r ELSE riderId[q]
  BY <1>1 DEF TypeOK
<1>6. \A q \in Riders :
        /\ rider'[q].approval = rider[q].approval
        /\ rider'[q].state = IF q = r THEN "ASSIGNED" ELSE rider[q].state
        /\ rider'[q].order = IF q = r THEN o ELSE rider[q].order
  BY <1>1 DEF TypeOK, RiderRow
<1>7. ASSUME NEW q \in Riders, q # r, rider[q].order # NoOrder
      PROVE  /\ rider[q].order \in Orders /\ rider[q].order # o
             /\ riderId[rider[q].order] = q /\ Live(rider[q].order)
  BY <1>1, <1>7, AbsentAssumption DEF RiderBinding, TypeOK, RiderRow
<1>8. r # NoRider /\ o # NoOrder
  BY AbsentAssumption
<1>9. RiderBinding'
  <2>1. ASSUME NEW q \in Riders, rider'[q].order # NoOrder
        PROVE  /\ riderId'[rider'[q].order] = q
               /\ status'[rider'[q].order] \notin TerminalStatus
    <3>1. CASE q = r
      BY <1>3, <1>4, <1>5, <1>6, <3>1
    <3>2. CASE q # r
      <4>1. rider'[q].order = rider[q].order
        BY <1>6, <3>2
      <4>2. QED
        BY <1>4, <1>5, <1>7, <2>1, <3>2, <4>1 DEF Live
    <3>3. QED
      BY <3>1, <3>2
  <2>2. ASSUME NEW p \in Orders, riderId'[p] # NoRider, status'[p] \notin TerminalStatus
        PROVE  rider'[riderId'[p]].order = p
    <3>1. CASE p = o
      BY <1>5, <1>6, <3>1
    <3>2. CASE p # o
      <4>1. riderId[p] \in Riders /\ rider[riderId[p]].order = p
        BY <1>4, <1>5, <2>2, <3>2 DEF RiderBinding, Live, TypeOK
      <4>2. riderId[p] # r
        BY <1>1, <4>1, AbsentAssumption
      <4>3. QED
        BY <1>5, <1>6, <3>2, <4>1, <4>2
    <3>3. QED
      BY <3>1, <3>2
  <2>3. QED
    BY <2>1, <2>2 DEF RiderBinding, Live
<1>10. RiderStage'
  <2>1. ASSUME NEW q \in Riders, q # r, rider[q].order # NoOrder
        PROVE  status'[rider[q].order] = status[rider[q].order]
    BY <1>4, <1>7, <2>1
  <2>2. QED
    BY <1>2, <1>4, <1>6, <1>8, <2>1 DEF RiderStage
<1>11. NoStrandedOrder'
  BY <1>3, <1>4, <1>5, <1>8 DEF NoStrandedOrder
<1>12. NoProfileNoOrder'
  BY <1>1, <1>6 DEF NoProfileNoOrder, Works
<1>13. QED
  BY <1>9, <1>10, <1>11, <1>12

\* Steps that touch neither an order's status nor who delivers it.
LEMMA SameAssignments ==
  ASSUME DeliveryInv, status' = status, riderId' = riderId,
         \A q \in Riders : /\ rider'[q].order = rider[q].order
                           /\ rider'[q].state = rider[q].state
                           /\ rider'[q].approval = "NONE" => rider[q].order = NoOrder
  PROVE  RiderBinding' /\ RiderStage' /\ NoStrandedOrder' /\ NoProfileNoOrder'
<1> USE DEF DeliveryInv
<1>1. RiderBinding'
  <2>1. ASSUME NEW o \in Orders, riderId[o] # NoRider
        PROVE  riderId[o] \in Riders
    BY <2>1 DEF TypeOK
  <2>2. QED
    BY <2>1 DEF RiderBinding, Live
<1>2. RiderStage'
  BY DEF RiderStage
<1>3. QED
  BY <1>1, <1>2 DEF NoStrandedOrder, NoProfileNoOrder

\* Calls that only read.
LEMMA EnterStep ==
  ASSUME DeliveryInv, NEW call, Enter(call)
  PROVE  RiderBinding' /\ RiderStage' /\ NoStrandedOrder' /\ NoProfileNoOrder'
BY SameAssignments DEF Enter, orderVars, DeliveryInv, NoProfileNoOrder

\* Steps of the shop and of the sweep keep the invariant.
LEMMA ShopDeliveryStep == DeliveryInv /\ ShopNext => DeliveryInv'
<1> SUFFICES ASSUME DeliveryInv, NEW o \in Orders,
                    \/ \E op \in ShopSteps : ReadShopStep(op, o)
                    \/ Accept(o)
                    \/ \E op \in {"reject", "expire"} : Reject(op, o)
                    \/ MarkPreparing(o)
                    \/ MarkReady(o)
                    \/ \E r \in Riders : ReadAssignRider(o, r) \/ AssignRider(o, r)
                    \/ ProposeRevision(o)
             PROVE  RiderBinding' /\ RiderStage' /\ NoStrandedOrder' /\ NoProfileNoOrder'
  BY ShopTypeStep DEF ShopNext, DeliveryInv
<1> {o} \in SUBSET Orders
  OBVIOUS
<1> USE DEF DeliveryInv
<1>1. ASSUME status[o] = "SENT_TO_MERCHANT" PROVE riderId[o] = NoRider
  BY <1>1, AssignedStages DEF Live, TerminalStatus, CancelledStatus
<1>2. ASSUME NEW op \in ShopSteps, ReadShopStep(op, o)
      PROVE  RiderBinding' /\ RiderStage' /\ NoStrandedOrder' /\ NoProfileNoOrder'
  BY <1>2, EnterStep DEF ReadShopStep
<1>3. ASSUME NEW r \in Riders, ReadAssignRider(o, r)
      PROVE  RiderBinding' /\ RiderStage' /\ NoStrandedOrder' /\ NoProfileNoOrder'
  BY <1>3, EnterStep DEF ReadAssignRider
<1>4. ASSUME NEW s \in OrderStatus, s \in TerminalStatus \cup AssignableStatus,
             riderId[o] = NoRider, Apply({o}, s), UNCHANGED <<riderId, rider>>
      PROVE  RiderBinding' /\ RiderStage' /\ NoStrandedOrder' /\ NoProfileNoOrder'
  <2>1. \A q \in Orders : status'[q] = IF q \in {o} THEN s ELSE status[q]
    BY <1>4, ApplyFacts
  <2>2. QED
    BY <1>4, <2>1, UnassignedMove
<1>5. CASE Accept(o)
  <2>1. /\ status[o] = "SENT_TO_MERCHANT" /\ Apply({o}, "PREPARING")
        /\ UNCHANGED <<riderId, rider>>
    BY <1>5, ExpectedFacts DEF Accept, MayApply
  <2>2. QED
    BY <1>1, <1>4, <2>1, WrittenStatuses DEF AssignableStatus
<1>6. ASSUME NEW op \in {"reject", "expire"}, Reject(op, o)
      PROVE  RiderBinding' /\ RiderStage' /\ NoStrandedOrder' /\ NoProfileNoOrder'
  <2>1. /\ status[o] = "SENT_TO_MERCHANT" /\ Apply({o}, "MERCHANT_REJECTED")
        /\ UNCHANGED <<riderId, rider>>
    BY <1>6, ExpectedFacts DEF Reject, MayApply
  <2>2. "MERCHANT_REJECTED" \in TerminalStatus
    BY DEF TerminalStatus, CancelledStatus
  <2>3. QED
    BY <1>1, <1>4, <2>1, <2>2, WrittenStatuses
<1>7. ASSUME NEW s \in {"PREPARING", "READY_FOR_PICKUP", "RIDER_ASSIGNED"},
             status[o] \in {"MERCHANT_ACCEPTED", "PREPARING"},
             s = "READY_FOR_PICKUP" => riderId[o] = NoRider,
             s = "RIDER_ASSIGNED" => riderId[o] # NoRider,
             Apply({o}, s), UNCHANGED <<riderId, rider>>
      PROVE  RiderBinding' /\ RiderStage' /\ NoStrandedOrder' /\ NoProfileNoOrder'
  <2>1. s \in OrderStatus
    BY WrittenStatuses
  <2>2. \A q \in Orders : status'[q] = IF q \in {o} THEN s ELSE status[q]
    BY <1>7, <2>1, ApplyFacts
  <2>3. CASE riderId[o] = NoRider
    <3>1. s \in TerminalStatus \cup AssignableStatus
      BY <1>7, <2>3 DEF AssignableStatus
    <3>2. QED
      BY <1>7, <2>2, <2>3, <3>1, UnassignedMove
  <2>4. CASE riderId[o] # NoRider
    <3>1. /\ riderId[o] \in Riders /\ rider[riderId[o]].order = o
          /\ rider[riderId[o]] \in RiderRow
      BY <1>7, <2>4, AssignedStages DEF Live, TerminalStatus, CancelledStatus, TypeOK
    <3>2. rider[riderId[o]].state = "ASSIGNED"
      BY <1>7, <3>1, AbsentAssumption DEF RiderStage, RiderRow, WithCustomerOrRider
    <3>3. Fits("ASSIGNED", s)
      BY <1>7, <2>4 DEF Fits
    <3>4. QED
      BY <1>7, <2>2, <3>1, <3>2, <3>3, RiderMove
  <2>5. QED
    BY <2>3, <2>4
<1>8. CASE MarkPreparing(o)
  BY <1>7, <1>8, ExpectedFacts DEF MarkPreparing, MayApply
<1>9. CASE MarkReady(o)
  BY <1>7, <1>9, ExpectedFacts DEF MarkReady, MayApply, ReadyStatus
<1>10. ASSUME NEW r \in Riders, AssignRider(o, r)
      PROVE  RiderBinding' /\ RiderStage' /\ NoStrandedOrder' /\ NoProfileNoOrder'
  BY <1>10, Assignment
<1>11. CASE ProposeRevision(o)
  BY <1>11, SameAssignments DEF ProposeRevision, orderVars, NoProfileNoOrder
<1>12. QED
  BY <1>2, <1>3, <1>5, <1>6, <1>8, <1>9, <1>10, <1>11

\* Steps of a rider keep the invariant.
LEMMA RiderDeliveryStep == DeliveryInv /\ DeliveryNext => DeliveryInv'
<1> SUFFICES ASSUME DeliveryInv, NEW o \in Orders, NEW r \in Riders,
                    \/ \E op \in RiderSteps : ReadRiderStep(op, o, r)
                    \/ ArrivedAtShop(o, r)
                    \/ PickedUp(o, r)
                    \/ ArrivedAtCustomer(o, r)
                    \/ Delivered(o, r)
             PROVE  RiderBinding' /\ RiderStage' /\ NoStrandedOrder' /\ NoProfileNoOrder'
  BY DeliveryTypeStep DEF DeliveryNext, DeliveryInv
<1> {o} \in SUBSET Orders
  OBVIOUS
<1> USE DEF DeliveryInv
<1>1. ASSUME NEW op \in RiderSteps, ReadRiderStep(op, o, r)
      PROVE  RiderBinding' /\ RiderStage' /\ NoStrandedOrder' /\ NoProfileNoOrder'
  BY <1>1, EnterStep DEF ReadRiderStep
<1>2. ASSUME NEW state, NEW s \in OrderStatus, Fits(state, s),
             rider[r].order = o, Apply({o}, s), riderId' = riderId,
             \A q \in Riders :
               /\ rider'[q].order = rider[q].order
               /\ rider'[q].approval = rider[q].approval
               /\ rider'[q].state = IF q = r THEN state ELSE rider[q].state
      PROVE  RiderBinding' /\ RiderStage' /\ NoStrandedOrder' /\ NoProfileNoOrder'
  <2>1. \A q \in Orders : status'[q] = IF q \in {o} THEN s ELSE status[q]
    BY <1>2, ApplyFacts
  <2>2. QED
    BY <1>2, <2>1, RiderMove
<1>3. CASE ArrivedAtShop(o, r)
  <2>1. /\ rider[r].order = o /\ Apply({o}, "RIDER_ARRIVED_AT_SHOP") /\ riderId' = riderId
        /\ rider' = [rider EXCEPT ![r].state = "PICKING_UP"]
    BY <1>3 DEF ArrivedAtShop, Claim
  <2>2. Fits("PICKING_UP", "RIDER_ARRIVED_AT_SHOP")
    BY DEF Fits
  <2>3. \A q \in Riders :
          /\ rider'[q].order = rider[q].order
          /\ rider'[q].approval = rider[q].approval
          /\ rider'[q].state = IF q = r THEN "PICKING_UP" ELSE rider[q].state
    BY <2>1 DEF TypeOK, RiderRow
  <2>4. QED
    BY <1>2, <2>1, <2>2, <2>3, WrittenStatuses
<1>4. CASE PickedUp(o, r)
  <2>1. /\ rider[r].order = o /\ Apply({o}, "ON_THE_WAY") /\ riderId' = riderId
        /\ rider' = [rider EXCEPT ![r].state = "DELIVERING"]
    BY <1>4 DEF PickedUp, Claim
  <2>2. Fits("DELIVERING", "ON_THE_WAY")
    BY DEF Fits, WithCustomerOrRider
  <2>3. \A q \in Riders :
          /\ rider'[q].order = rider[q].order
          /\ rider'[q].approval = rider[q].approval
          /\ rider'[q].state = IF q = r THEN "DELIVERING" ELSE rider[q].state
    BY <2>1 DEF TypeOK, RiderRow
  <2>4. QED
    BY <1>2, <2>1, <2>2, <2>3, WrittenStatuses
<1>5. CASE ArrivedAtCustomer(o, r)
  <2>1. /\ rider[r].order = o /\ status[o] = "ON_THE_WAY" /\ riderId' = riderId
        /\ Apply({o}, "RIDER_ARRIVED_AT_CUSTOMER") /\ rider' = rider
    BY <1>5, ExpectedFacts DEF ArrivedAtCustomer, Claim, MayApply
  <2>2. rider[r].state = "DELIVERING"
    BY <2>1, AbsentAssumption DEF RiderStage, TypeOK, RiderRow
  <2>3. Fits("DELIVERING", "RIDER_ARRIVED_AT_CUSTOMER")
    BY DEF Fits, WithCustomerOrRider
  <2>4. QED
    BY <1>2, <2>1, <2>2, <2>3, WrittenStatuses
<1>6. CASE Delivered(o, r)
  <2>1. /\ rider[r].order = o /\ ApplyStatus({o}, "DELIVERED") /\ riderId' = riderId
        /\ rider' = [rider EXCEPT ![r].state = "IDLE", ![r].order = NoOrder]
    BY <1>6 DEF Delivered, Claim
  <2>2. \A q \in Orders : status'[q] = IF q \in {o} THEN "DELIVERED" ELSE status[q]
    BY <2>1, ApplyStatusFacts, WrittenStatuses
  <2>3. \A q \in Riders : rider[q].order = o => q = r
    BY <2>1, AbsentAssumption DEF RiderBinding
  <2>4. \A q \in Riders :
          /\ rider'[q].approval = rider[q].approval
          /\ IF rider[q].order \in {o}
             THEN rider'[q].order = NoOrder /\ rider'[q].state = "IDLE"
             ELSE rider'[q].order = rider[q].order /\ rider'[q].state = rider[q].state
    BY <2>1, <2>3 DEF TypeOK, RiderRow
  <2>5. "DELIVERED" \in TerminalStatus
    BY DEF TerminalStatus
  <2>6. QED
    BY <2>1, <2>2, <2>4, <2>5, Release
<1>7. QED
  BY <1>1, <1>3, <1>4, <1>5, <1>6

\* Steps of the customer keep the invariant.
LEMMA CustomerDeliveryStep == DeliveryInv /\ CustomerNext => DeliveryInv'
<1> SUFFICES ASSUME DeliveryInv, CustomerNext
             PROVE  RiderBinding' /\ RiderStage' /\ NoStrandedOrder' /\ NoProfileNoOrder'
  BY CustomerTypeStep DEF DeliveryInv
<1> USE DEF DeliveryInv
<1>1. ASSUME NEW x \in Orders \cup Parents, CancelByCustomer(x)
      PROVE  RiderBinding' /\ RiderStage' /\ NoStrandedOrder' /\ NoProfileNoOrder'
  <2> DEFINE targets == ShopOrdersOf(x)
  <2>1. targets \in SUBSET Orders
    BY DEF ShopOrdersOf, Children
  <2>2. /\ \A o \in targets : status[o] \in CustomerCancellable
        /\ Apply(targets, "CANCELLED_BY_CUSTOMER")
        /\ UNCHANGED <<riderId, rider>>
    BY <1>1 DEF CancelByCustomer
  <2> HIDE DEF targets
  <2>3. ASSUME NEW o \in targets PROVE riderId[o] = NoRider
    <3>1. o \in Orders /\ status[o] \in OrderStatus /\ status[o] \in CustomerCancellable
      BY <2>1, <2>2 DEF TypeOK
    <3>2. status[o] = "SENT_TO_MERCHANT"
      BY <3>1 DEF CustomerCancellable, OrderStatus, FulfilmentStatus,
                  TerminalStatus, CancelledStatus
    <3>3. QED
      BY <3>1, <3>2, AssignedStages DEF Live, TerminalStatus, CancelledStatus
  <2>4. \A o \in Orders :
          status'[o] = IF o \in targets THEN "CANCELLED_BY_CUSTOMER" ELSE status[o]
    BY <2>1, <2>2, ApplyFacts, WrittenStatuses
  <2>5. "CANCELLED_BY_CUSTOMER" \in TerminalStatus
    BY DEF TerminalStatus, CancelledStatus
  <2>6. QED
    BY <2>1, <2>2, <2>3, <2>4, <2>5, UnassignedMove
<1>2. ASSUME NEW o \in Orders, NEW verdict \in {"APPROVED", "REJECTED", "EXPIRED"},
             ResolveRevision(o, verdict)
      PROVE  RiderBinding' /\ RiderStage' /\ NoStrandedOrder' /\ NoProfileNoOrder'
  BY <1>2, SameAssignments DEF ResolveRevision, orderVars, NoProfileNoOrder
<1>3. QED
  BY <1>1, <1>2 DEF CustomerNext

\* Steps of an admin keep the invariant: a cancellation frees exactly the
\* riders that hold the orders it ends.
LEMMA AdminDeliveryStep == DeliveryInv /\ AdminNext => DeliveryInv'
<1> SUFFICES ASSUME DeliveryInv, AdminNext
             PROVE  RiderBinding' /\ RiderStage' /\ NoStrandedOrder' /\ NoProfileNoOrder'
  BY AdminTypeStep DEF DeliveryInv
<1> USE DEF DeliveryInv
<1>1. ASSUME NEW x \in Orders \cup Parents, CancelByAdmin(x)
      PROVE  RiderBinding' /\ RiderStage' /\ NoStrandedOrder' /\ NoProfileNoOrder'
  <2> DEFINE targets == {o \in ShopOrdersOf(x) : status[o] \notin TerminalStatus}
  <2>1. targets \in SUBSET Orders
    BY DEF ShopOrdersOf, Children
  <2>2. /\ Apply(targets, "CANCELLED_BY_ADMIN")
        /\ FreeRiders(targets)
        /\ riderId' = riderId
    BY <1>1 DEF CancelByAdmin
  <2> HIDE DEF targets
  <2>3. \A o \in Orders :
          status'[o] = IF o \in targets THEN "CANCELLED_BY_ADMIN" ELSE status[o]
    BY <2>1, <2>2, ApplyFacts, WrittenStatuses
  <2>4. ASSUME NEW q \in Riders
        PROVE  /\ rider'[q].approval = rider[q].approval
               /\ IF rider[q].order \in targets
                  THEN rider'[q].order = NoOrder /\ rider'[q].state = "IDLE"
                  ELSE rider'[q].order = rider[q].order /\ rider'[q].state = rider[q].state
    <3>1. rider[q].order \in targets <=>
            \E o \in targets : riderId[o] = q /\ rider[q].order = o
      BY <2>1, AbsentAssumption DEF RiderBinding
    <3>2. rider[q] \in RiderRow
      BY DEF TypeOK
    <3>3. rider'[q] = IF rider[q].order \in targets
                      THEN [rider[q] EXCEPT !.state = "IDLE", !.order = NoOrder]
                      ELSE rider[q]
      BY <2>2, <3>1 DEF FreeRiders
    <3>4. QED
      BY <3>2, <3>3 DEF RiderRow
  <2>5. "CANCELLED_BY_ADMIN" \in TerminalStatus
    BY DEF TerminalStatus, CancelledStatus
  <2>6. QED
    BY <2>1, <2>2, <2>3, <2>4, <2>5, Release
<1>2. ASSUME NEW o \in Orders, NEW s \in OrderStatus, Override(o, s)
      PROVE  RiderBinding' /\ RiderStage' /\ NoStrandedOrder' /\ NoProfileNoOrder'
  <2>1. /\ s \in AssignableStatus /\ riderId[o] = NoRider
        /\ Apply({o}, s) /\ UNCHANGED <<riderId, rider>>
    BY <1>2 DEF Override, AssignableStatus
  <2>2. {o} \in SUBSET Orders
    OBVIOUS
  <2>3. \A q \in Orders : status'[q] = IF q \in {o} THEN s ELSE status[q]
    BY <2>1, <2>2, ApplyFacts
  <2>4. QED
    BY <2>1, <2>2, <2>3, UnassignedMove
<1>3. QED
  BY <1>1, <1>2 DEF AdminNext

\* Changes of a rider's profile keep the invariant: a suspended rider still
\* holds the order, and only a row without one can be reset.
LEMMA ProfileDeliveryStep == DeliveryInv /\ ProfileNext => DeliveryInv'
<1> SUFFICES ASSUME DeliveryInv, NEW r \in Riders,
                    \/ ApplyAsRider(r) \/ ApproveRider(r) \/ RejectRider(r)
                    \/ \E b \in BOOLEAN : SetRiderActive(r, b) \/ SetRiderSuspended(r, b)
             PROVE  RiderBinding' /\ RiderStage' /\ NoStrandedOrder' /\ NoProfileNoOrder'
  BY ProfileTypeStep DEF ProfileNext, DeliveryInv
<1> USE DEF DeliveryInv
<1>1. ASSUME NEW row, SetProfile(r, row), row.order = rider[r].order,
             row.state = rider[r].state,
             row.approval = "NONE" => rider[r].order = NoOrder
      PROVE  RiderBinding' /\ RiderStage' /\ NoStrandedOrder' /\ NoProfileNoOrder'
  <2>1. \A q \in Riders : rider'[q] = IF q = r THEN row ELSE rider[q]
    BY <1>1 DEF SetProfile, TypeOK
  <2>2. QED
    BY <1>1, <2>1, SameAssignments DEF SetProfile, orderVars, NoProfileNoOrder
<1>2. rider[r] \in RiderRow
  BY DEF TypeOK
<1>3. rider[r].order = NoOrder => rider[r].state = "IDLE"
  BY DEF RiderStage
<1>4. CASE ApplyAsRider(r)
  BY <1>1, <1>3, <1>4 DEF ApplyAsRider, NoProfile, NoProfileNoOrder
<1>5. CASE ApproveRider(r)
  BY <1>1, <1>2, <1>5 DEF ApproveRider, RiderRow
<1>6. CASE RejectRider(r)
  BY <1>1, <1>3, <1>6 DEF RejectRider, NoProfile
<1>7. ASSUME NEW b \in BOOLEAN, SetRiderActive(r, b)
      PROVE  RiderBinding' /\ RiderStage' /\ NoStrandedOrder' /\ NoProfileNoOrder'
  <2> DEFINE row == [rider[r] EXCEPT !.active = b]
  <2>1. row.order = rider[r].order /\ row.state = rider[r].state
        /\ row.approval = "APPROVED"
    BY <1>2, <1>7 DEF SetRiderActive, RiderRow
  <2>2. SetProfile(r, row)
    BY <1>7 DEF SetRiderActive
  <2> HIDE DEF row
  <2>3. QED
    BY <1>1, <2>1, <2>2
<1>8. ASSUME NEW b \in BOOLEAN, SetRiderSuspended(r, b)
      PROVE  RiderBinding' /\ RiderStage' /\ NoStrandedOrder' /\ NoProfileNoOrder'
  <2> DEFINE row == [rider[r] EXCEPT
                       !.approval = IF b THEN "SUSPENDED" ELSE "APPROVED",
                       !.active = ~b]
  <2>1. row.order = rider[r].order /\ row.state = rider[r].state
        /\ row.approval # "NONE"
    BY <1>2 DEF RiderRow
  <2>2. SetProfile(r, row)
    BY <1>8 DEF SetRiderSuspended
  <2> HIDE DEF row
  <2>3. QED
    BY <1>1, <2>1, <2>2
<1>9. QED
  BY <1>4, <1>5, <1>6, <1>7, <1>8

\* The invariant holds in every reachable state.
THEOREM DeliveryInvariant == Spec => []DeliveryInv
<1>1. Init => DeliveryInv
  <2> SUFFICES ASSUME Init
               PROVE  DeliveryInv
    OBVIOUS
  <2>1. ASSUME NEW r \in Riders
        PROVE  rider[r].order = NoOrder /\ rider[r].state = "IDLE"
    <3>1. NoProfile.order = NoOrder /\ NoProfile.state = "IDLE"
      BY DEF NoProfile
    <3>2. rider[r] = NoProfile
            \/ rider[r] = [NoProfile EXCEPT !.approval = "APPROVED", !.active = TRUE]
      BY DEF Init
    <3>3. CASE rider[r] = NoProfile
      BY <3>1, <3>3
    <3>4. CASE rider[r] = [NoProfile EXCEPT !.approval = "APPROVED", !.active = TRUE]
      BY <3>4 DEF NoProfile
    <3>5. QED
      BY <3>2, <3>3, <3>4
  <2>2. \A o \in Orders : riderId[o] = NoRider /\ status[o] = "SENT_TO_MERCHANT"
    BY DEF Init
  <2>3. QED
    BY <2>1, <2>2, InitType
       DEF DeliveryInv, RiderBinding, RiderStage, NoStrandedOrder, NoProfileNoOrder
<1>2. DeliveryInv /\ [Next]_vars => DeliveryInv'
  <2> SUFFICES ASSUME DeliveryInv, [Next]_vars
               PROVE  DeliveryInv'
    OBVIOUS
  <2>1. CASE UNCHANGED <<status, paymentStatus, payment, riderId, pickedUp,
                         stockReturned, revision, proposals, rider>>
             /\ inFlight' \subseteq inFlight
    <3>1. TypeOK'
      BY <2>1 DEF DeliveryInv, TypeOK
    <3>2. QED
      BY <2>1, <3>1, SameAssignments DEF DeliveryInv, NoProfileNoOrder
  <2>2. ASSUME NEW call \in inFlight, Abort(call) PROVE DeliveryInv'
    BY <2>1, <2>2 DEF Abort, orderVars
  <2>3. CASE UNCHANGED vars
    BY <2>1, <2>3 DEF vars
  <2>4. QED
    BY <2>2, <2>3, ShopDeliveryStep, RiderDeliveryStep, CustomerDeliveryStep,
       AdminDeliveryStep, ProfileDeliveryStep DEF Next
<1>3. QED
  BY <1>1, <1>2, PTL DEF Spec

\* Order and rider rows name each other for as long as the order lives.
THEOREM RiderBindingHolds == Spec => []RiderBinding
BY DeliveryInvariant, PTL DEF DeliveryInv

\* The rider list shows where the order is.
THEOREM RiderStageHolds == Spec => []RiderStage
BY DeliveryInvariant, PTL DEF DeliveryInv

\* No packed order waits for a rider it already has.
THEOREM NoStrandedOrderHolds == Spec => []NoStrandedOrder
BY DeliveryInvariant, PTL DEF DeliveryInv

-----------------------------------------------------------------------------
(* The two shapes of a step                                                *)

\* An order counts as picked up while it is on its way, and ever after.
PickUpStage ==
  \A o \in Orders :
    /\ status[o] \in WithCustomerOrRider => o \in pickedUp
    /\ o \in pickedUp => status[o] \in WithCustomerOrRider \cup TerminalStatus

StepInv == DeliveryInv /\ PickUpStage

Still == UNCHANGED <<orderVars, pickedUp, stockReturned>>

ByItsRider(o) ==
  riderId[o] # NoRider /\ Works(riderId[o]) /\ rider[riderId[o]].order = o

\* What is true of an order the moment some handler writes s on it.
MayMove(o, s) ==
  /\ status[o] \in FulfilmentStatus
  /\ Progress(s) > Progress(status[o])
  /\ revision[o] = "PENDING" => s \in {"CANCELLED_BY_CUSTOMER", "CANCELLED_BY_ADMIN"}
  /\ s \in WithCustomerOrRider \cup {"RIDER_ARRIVED_AT_SHOP", "DELIVERED"} => ByItsRider(o)
  /\ s = "ON_THE_WAY" <=> s \in WithCustomerOrRider /\ status[o] \notin WithCustomerOrRider
  /\ s \in FulfilmentStatus /\ status[o] \in WithCustomerOrRider => s \in WithCustomerOrRider

\* The cash columns after s on the orders of `changed', roll-up included.
CashAfter(changed, s) ==
  /\ paymentStatus' =
       [x \in Orders \cup Parents |->
          IF x \in changed /\ s = "DELIVERED" /\ paymentStatus[x] = "CASH_PENDING"
          THEN "CASH_COLLECTED" ELSE RolledUpCashOf(x, paymentStatus[x], changed, s)]
  /\ payment' =
       [a \in Anchors |->
          IF payment[a] # "CASH_PENDING" THEN payment[a]
          ELSE IF a \in changed /\ s = "DELIVERED" THEN "CASH_COLLECTED"
          ELSE RolledUpCashOf(a, payment[a], changed, s)]

\* The orders of `changed' whose goods go back on sale with s.
Restocked(changed, s) ==
  {o \in changed : s \in CancelledStatus /\ InShop(o)}

Moves(changed, s) ==
  /\ changed # {} /\ \A o \in changed : MayMove(o, s)
  /\ ApplyStatus(changed, s)
  /\ CashAfter(changed, s)
  /\ pickedUp' = IF s = "ON_THE_WAY" THEN pickedUp \cup changed ELSE pickedUp
  /\ ReturnStock(Restocked(changed, s))

MovesOrStill == Still \/ \E changed \in SUBSET Orders, s \in OrderStatus : Moves(changed, s)

\* The order of the statuses, value by value.
LEMMA ProgressFacts ==
  /\ Progress("SENT_TO_MERCHANT") = 0       /\ Progress("MERCHANT_ACCEPTED") = 1
  /\ Progress("PREPARING") = 2              /\ Progress("READY_FOR_PICKUP") = 3
  /\ Progress("RIDER_ASSIGNED") = 4         /\ Progress("RIDER_ARRIVED_AT_SHOP") = 5
  /\ Progress("ON_THE_WAY") = 6             /\ Progress("RIDER_ARRIVED_AT_CUSTOMER") = 7
  /\ \A s \in TerminalStatus : Progress(s) = 8
<1>1. \A s \in FulfilmentStatus : s \notin TerminalStatus
  BY DEF FulfilmentStatus, TerminalStatus, CancelledStatus
<1>2. /\ Progress("SENT_TO_MERCHANT") = 0       /\ Progress("MERCHANT_ACCEPTED") = 1
      /\ Progress("PREPARING") = 2              /\ Progress("READY_FOR_PICKUP") = 3
      /\ Progress("RIDER_ASSIGNED") = 4         /\ Progress("RIDER_ARRIVED_AT_SHOP") = 5
      /\ Progress("ON_THE_WAY") = 6             /\ Progress("RIDER_ARRIVED_AT_CUSTOMER") = 7
  BY <1>1, Zenon DEF Progress, FulfilmentStatus
<1>3. ASSUME NEW s \in TerminalStatus PROVE Progress(s) = 8
  BY <1>1, <1>3, Zenon DEF Progress, FulfilmentStatus
<1>4. QED
  BY <1>2, <1>3

\* Writing the status an order already has, or one that ends nothing, rolls
\* nothing up.
LEMMA NoRollUp ==
  ASSUME NEW changed, NEW s, s \notin TerminalStatus
  PROVE  RolledUp(changed, s) = {} /\ \A x, cash : RolledUpCashOf(x, cash, changed, s) = cash
BY DEF RolledUp, RolledUpCashOf

\* The cash columns of every handler but the delivery are those of a roll-up.
LEMMA PlainCash ==
  ASSUME TypeOK, NEW changed \in SUBSET Orders, NEW s, s # "DELIVERED", ParentCash(changed, s)
  PROVE  CashAfter(changed, s)
<1>1. ASSUME NEW a \in Anchors
      PROVE  payment'[a] =
               IF payment[a] # "CASH_PENDING" THEN payment[a]
               ELSE IF a \in changed /\ s = "DELIVERED" THEN "CASH_COLLECTED"
               ELSE RolledUpCashOf(a, payment[a], changed, s)
  BY DEF ParentCash
<1>2. QED
  BY <1>1 DEF ParentCash, CashAfter

\* A handler that returns no goods leaves the stock as a return of none does.
LEMMA NothingRestocked ==
  ASSUME TypeOK, NEW changed, NEW s, s \notin CancelledStatus,
         stockReturned' = stockReturned
  PROVE  ReturnStock(Restocked(changed, s))
BY DEF Restocked, ReturnStock, TypeOK

\* The goods of an order nobody has accepted are in the shop.
LEMMA WaitsInShop ==
  ASSUME PickUpStage, NEW o \in Orders, status[o] = "SENT_TO_MERCHANT"
  PROVE  InShop(o)
BY DEF PickUpStage, InShop, WithCustomerOrRider, TerminalStatus, CancelledStatus

\* A handler of the shop or of a rider that moves one order forward.
LEMMA OneMoves ==
  ASSUME TypeOK, NEW o \in Orders, NEW s \in FulfilmentStatus, MayMove(o, s),
         Apply({o}, s), stockReturned' = stockReturned,
         pickedUp' = IF s = "ON_THE_WAY" THEN pickedUp \cup {o} ELSE pickedUp
  PROVE  MovesOrStill
<1>1. s # "DELIVERED" /\ s \notin CancelledStatus /\ s \in OrderStatus
  BY DEF FulfilmentStatus, CancelledStatus, OrderStatus
<1>2. CashAfter({o}, s) /\ ReturnStock(Restocked({o}, s))
  BY <1>1, PlainCash, NothingRestocked DEF Apply
<1>3. Moves({o}, s)
  BY <1>2 DEF Moves, Apply
<1>4. QED
  BY <1>1, <1>3 DEF MovesOrStill

\* A handler that writes the status an order has: an early assignment.
LEMMA SameStatusIsStill ==
  ASSUME TypeOK, NEW o \in Orders, status[o] \in FulfilmentStatus, Apply({o}, status[o]),
         UNCHANGED <<pickedUp, stockReturned>>
  PROVE  Still
<1>1. status[o] \notin TerminalStatus
  BY DEF FulfilmentStatus, TerminalStatus, CancelledStatus
<1>2. status' = status
  BY <1>1, NoRollUp DEF Apply, ApplyStatus, TypeOK
<1>3. paymentStatus' = paymentStatus /\ payment' = payment
  BY <1>1, NoRollUp DEF Apply, ParentCash, TypeOK
<1>4. QED
  BY <1>2, <1>3 DEF Still, orderVars

-----------------------------------------------------------------------------
(* Every step has one of the two shapes                                    *)

\* Steps of the shop and of the sweep.
LEMMA ShopShape == StepInv /\ ShopNext => MovesOrStill
<1> SUFFICES ASSUME StepInv, NEW o \in Orders,
                    \/ \E op \in ShopSteps : ReadShopStep(op, o)
                    \/ Accept(o)
                    \/ \E op \in {"reject", "expire"} : Reject(op, o)
                    \/ MarkPreparing(o)
                    \/ MarkReady(o)
                    \/ \E r \in Riders : ReadAssignRider(o, r) \/ AssignRider(o, r)
                    \/ ProposeRevision(o)
             PROVE  MovesOrStill
  BY DEF ShopNext
<1> USE DEF StepInv, DeliveryInv
<1>1. ASSUME NEW call, Enter(call) PROVE MovesOrStill
  BY <1>1 DEF Enter, MovesOrStill, Still, orderVars
<1>2. CASE Accept(o)
  <2>1. status[o] = "SENT_TO_MERCHANT" /\ revision[o] # "PENDING"
    BY <1>2, ExpectedFacts DEF Accept, MayApply, BlockedByRevision, FulfilmentStatus
  <2>2. MayMove(o, "PREPARING")
    BY <2>1, ProgressFacts DEF MayMove, FulfilmentStatus, WithCustomerOrRider
  <2>3. QED
    BY <1>2, <2>2, OneMoves DEF Accept, FulfilmentStatus
<1>3. ASSUME NEW op \in {"reject", "expire"}, Reject(op, o) PROVE MovesOrStill
  <2> DEFINE s == "MERCHANT_REJECTED"
  <2>1. status[o] = "SENT_TO_MERCHANT" /\ revision[o] # "PENDING"
    BY <1>3, ExpectedFacts DEF Reject, MayApply, BlockedByRevision
  <2>2. s \in CancelledStatus /\ s \in TerminalStatus /\ s \in OrderStatus
    BY DEF TerminalStatus, CancelledStatus, OrderStatus
  <2>3. MayMove(o, s)
    BY <2>1, <2>2, ProgressFacts DEF MayMove, FulfilmentStatus, WithCustomerOrRider
  <2>4. CashAfter({o}, s)
    BY <1>3, PlainCash DEF Reject, Apply
  <2>5. Restocked({o}, s) = {o}
    BY <2>1, <2>2, WaitsInShop DEF Restocked
  <2>6. Moves({o}, s)
    BY <1>3, <2>3, <2>4, <2>5 DEF Moves, Reject, Apply
  <2>7. QED
    BY <2>2, <2>6 DEF MovesOrStill
<1>4. CASE MarkPreparing(o)
  <2>1. status[o] = "MERCHANT_ACCEPTED" /\ revision[o] # "PENDING"
    BY <1>4, ExpectedFacts DEF MarkPreparing, MayApply, BlockedByRevision, FulfilmentStatus
  <2>2. MayMove(o, "PREPARING")
    BY <2>1, ProgressFacts DEF MayMove, FulfilmentStatus, WithCustomerOrRider
  <2>3. QED
    BY <1>4, <2>2, OneMoves DEF MarkPreparing, FulfilmentStatus
<1>5. CASE MarkReady(o)
  <2>1. /\ status[o] \in {"MERCHANT_ACCEPTED", "PREPARING"} /\ revision[o] # "PENDING"
        /\ ReadyStatus(o) \in {"READY_FOR_PICKUP", "RIDER_ASSIGNED"}
    BY <1>5, ExpectedFacts
       DEF MarkReady, MayApply, BlockedByRevision, FulfilmentStatus, ReadyStatus
  <2>2. MayMove(o, ReadyStatus(o))
    BY <2>1, ProgressFacts DEF MayMove, FulfilmentStatus, WithCustomerOrRider
  <2>3. QED
    BY <1>5, <2>1, <2>2, OneMoves DEF MarkReady, FulfilmentStatus
<1>6. ASSUME NEW r \in Riders, AssignRider(o, r) PROVE MovesOrStill
  <2>1. status[o] \in AssignableStatus /\ revision[o] # "PENDING"
    BY <1>6, ExpectedFacts DEF AssignRider, MayAssign
  <2>2. CASE status[o] = "READY_FOR_PICKUP"
    <3>1. MayMove(o, "RIDER_ASSIGNED")
      BY <2>1, <2>2, ProgressFacts DEF MayMove, FulfilmentStatus, WithCustomerOrRider
    <3>2. QED
      BY <1>6, <2>2, <3>1, OneMoves DEF AssignRider, FulfilmentStatus
  <2>3. CASE status[o] # "READY_FOR_PICKUP"
    BY <1>6, <2>1, <2>3, SameStatusIsStill
       DEF AssignRider, AssignableStatus, FulfilmentStatus, MovesOrStill
  <2>4. QED
    BY <2>2, <2>3
<1>7. CASE ProposeRevision(o)
  BY <1>7 DEF ProposeRevision, MovesOrStill, Still, orderVars
<1>8. QED
  BY <1>1, <1>2, <1>3, <1>4, <1>5, <1>6, <1>7 DEF ReadShopStep, ReadAssignRider

\* Steps of a rider: only the rider of the order makes them.
LEMMA DeliveryShape == StepInv /\ DeliveryNext => MovesOrStill
<1> SUFFICES ASSUME StepInv, NEW o \in Orders, NEW r \in Riders,
                    \/ \E op \in RiderSteps : ReadRiderStep(op, o, r)
                    \/ ArrivedAtShop(o, r)
                    \/ PickedUp(o, r)
                    \/ ArrivedAtCustomer(o, r)
                    \/ Delivered(o, r)
             PROVE  MovesOrStill
  BY DEF DeliveryNext
<1> USE DEF StepInv, DeliveryInv
<1>1. ASSUME NEW op \in RiderSteps, ReadRiderStep(op, o, r) PROVE MovesOrStill
  BY <1>1 DEF ReadRiderStep, Enter, MovesOrStill, Still, orderVars
<1>2. ASSUME Claim(r, o) PROVE ByItsRider(o)
  BY <1>2, AbsentAssumption DEF Claim, ByItsRider, RiderBinding
<1>3. CASE ArrivedAtShop(o, r)
  <2>1. status[o] = "RIDER_ASSIGNED" /\ revision[o] # "PENDING" /\ ByItsRider(o)
    BY <1>2, <1>3, ExpectedFacts
       DEF ArrivedAtShop, MayApply, BlockedByRevision, FulfilmentStatus
  <2>2. MayMove(o, "RIDER_ARRIVED_AT_SHOP")
    BY <2>1, ProgressFacts DEF MayMove, FulfilmentStatus, WithCustomerOrRider
  <2>3. QED
    BY <1>3, <2>2, OneMoves DEF ArrivedAtShop, FulfilmentStatus
<1>4. CASE PickedUp(o, r)
  <2>1. /\ status[o] \in {"RIDER_ASSIGNED", "RIDER_ARRIVED_AT_SHOP"}
        /\ revision[o] # "PENDING" /\ ByItsRider(o)
    BY <1>2, <1>4, ExpectedFacts
       DEF PickedUp, MayApply, BlockedByRevision, FulfilmentStatus
  <2>2. MayMove(o, "ON_THE_WAY")
    BY <2>1, ProgressFacts DEF MayMove, FulfilmentStatus, WithCustomerOrRider
  <2>3. QED
    BY <1>4, <2>2, OneMoves DEF PickedUp, FulfilmentStatus
<1>5. CASE ArrivedAtCustomer(o, r)
  <2>1. status[o] = "ON_THE_WAY" /\ revision[o] # "PENDING" /\ ByItsRider(o)
    BY <1>2, <1>5, ExpectedFacts
       DEF ArrivedAtCustomer, MayApply, BlockedByRevision, FulfilmentStatus
  <2>2. MayMove(o, "RIDER_ARRIVED_AT_CUSTOMER")
    BY <2>1, ProgressFacts DEF MayMove, FulfilmentStatus, WithCustomerOrRider
  <2>3. QED
    BY <1>5, <2>2, OneMoves DEF ArrivedAtCustomer, FulfilmentStatus
<1>6. CASE Delivered(o, r)
  <2>1. /\ status[o] \in {"ON_THE_WAY", "RIDER_ARRIVED_AT_CUSTOMER"}
        /\ revision[o] # "PENDING" /\ ByItsRider(o)
    BY <1>2, <1>6, ExpectedFacts DEF Delivered, MayApply, BlockedByRevision
  <2>2. "DELIVERED" \in TerminalStatus /\ "DELIVERED" \in OrderStatus
        /\ "DELIVERED" \notin CancelledStatus /\ "DELIVERED" \notin FulfilmentStatus
    BY DEF TerminalStatus, OrderStatus, CancelledStatus, FulfilmentStatus
  <2>3. MayMove(o, "DELIVERED")
    BY <2>1, <2>2, ProgressFacts DEF MayMove, FulfilmentStatus, WithCustomerOrRider
  <2>4. CashAfter({o}, "DELIVERED")
    BY <1>6 DEF Delivered, CashAfter
  <2>5. ReturnStock(Restocked({o}, "DELIVERED"))
    BY <1>6, <2>2, NothingRestocked DEF Delivered
  <2>6. Moves({o}, "DELIVERED")
    BY <1>6, <2>3, <2>4, <2>5 DEF Delivered, Moves
  <2>7. QED
    BY <2>2, <2>6 DEF MovesOrStill
<1>7. QED
  BY <1>1, <1>3, <1>4, <1>5, <1>6

\* Steps of the customer: a cancellation before acceptance, or an answer.
LEMMA CustomerShape == StepInv /\ CustomerNext => MovesOrStill
<1> SUFFICES ASSUME StepInv, CustomerNext
             PROVE  MovesOrStill
  OBVIOUS
<1> USE DEF StepInv, DeliveryInv
<1>1. ASSUME NEW x \in Orders \cup Parents, CancelByCustomer(x) PROVE MovesOrStill
  <2> DEFINE targets == ShopOrdersOf(x)
             s == "CANCELLED_BY_CUSTOMER"
  <2>1. targets \in SUBSET Orders /\ targets # {}
    BY OrdersAssumption DEF ShopOrdersOf, Children
  <2>2. /\ \A o \in targets : status[o] \in CustomerCancellable
        /\ Apply(targets, s) /\ ReturnStock(targets) /\ pickedUp' = pickedUp
    BY <1>1 DEF CancelByCustomer
  <2> HIDE DEF targets
  <2>3. s \in CancelledStatus /\ s \in TerminalStatus /\ s \in OrderStatus
    BY DEF TerminalStatus, CancelledStatus, OrderStatus
  <2>4. ASSUME NEW o \in targets PROVE status[o] = "SENT_TO_MERCHANT" /\ MayMove(o, s)
    <3>1. status[o] \in OrderStatus /\ status[o] \in CustomerCancellable
      BY <2>1, <2>2 DEF TypeOK
    <3>2. status[o] = "SENT_TO_MERCHANT"
      BY <3>1 DEF CustomerCancellable, OrderStatus, FulfilmentStatus,
                  TerminalStatus, CancelledStatus
    <3>3. QED
      BY <2>3, <3>2, ProgressFacts DEF MayMove, FulfilmentStatus, WithCustomerOrRider
  <2>5. Restocked(targets, s) = targets
    BY <2>1, <2>3, <2>4, WaitsInShop DEF Restocked
  <2>6. CashAfter(targets, s)
    BY <2>1, <2>2, PlainCash DEF Apply
  <2>7. Moves(targets, s)
    BY <2>1, <2>2, <2>4, <2>5, <2>6 DEF Moves, Apply
  <2>8. QED
    BY <2>1, <2>3, <2>7 DEF MovesOrStill
<1>2. ASSUME NEW o \in Orders, NEW verdict \in {"APPROVED", "REJECTED", "EXPIRED"},
             ResolveRevision(o, verdict)
      PROVE  MovesOrStill
  BY <1>2 DEF ResolveRevision, MovesOrStill, Still, orderVars
<1>3. QED
  BY <1>1, <1>2 DEF CustomerNext

\* Steps of an admin: a cancellation of whatever is left, or a repair.
LEMMA AdminShape == StepInv /\ AdminNext => MovesOrStill
<1> SUFFICES ASSUME StepInv, AdminNext
             PROVE  MovesOrStill
  OBVIOUS
<1> USE DEF StepInv, DeliveryInv
<1>1. ASSUME NEW x \in Orders \cup Parents, CancelByAdmin(x) PROVE MovesOrStill
  <2> DEFINE targets == {o \in ShopOrdersOf(x) : status[o] \notin TerminalStatus}
             s == "CANCELLED_BY_ADMIN"
  <2>1. targets \in SUBSET Orders
    BY DEF ShopOrdersOf, Children
  <2>2. /\ targets # {} /\ \A o \in targets : status[o] \notin TerminalStatus
        /\ Apply(targets, s) /\ ReturnStock({o \in targets : InShop(o)})
        /\ pickedUp' = pickedUp
    BY <1>1 DEF CancelByAdmin
  <2> HIDE DEF targets
  <2>3. s \in CancelledStatus /\ s \in TerminalStatus /\ s \in OrderStatus
    BY DEF TerminalStatus, CancelledStatus, OrderStatus
  <2>4. ASSUME NEW o \in targets PROVE MayMove(o, s)
    <3>1. status[o] \in FulfilmentStatus
      BY <2>1, <2>2 DEF TypeOK, OrderStatus
    <3>2. Progress(status[o]) < 8
      BY <3>1, ProgressFacts DEF FulfilmentStatus
    <3>3. QED
      BY <2>3, <3>1, <3>2, ProgressFacts DEF MayMove, FulfilmentStatus, WithCustomerOrRider
  <2>5. CashAfter(targets, s)
    BY <2>1, <2>2, PlainCash DEF Apply
  <2>6. Restocked(targets, s) = {o \in targets : InShop(o)}
    BY <2>3 DEF Restocked
  <2>7. QED
    BY <2>1, <2>2, <2>3, <2>4, <2>5, <2>6 DEF MovesOrStill, Moves, Apply
<1>2. ASSUME NEW o \in Orders, NEW s \in OrderStatus, Override(o, s)
      PROVE  MovesOrStill
  <2>1. /\ s \in {"MERCHANT_ACCEPTED", "PREPARING", "READY_FOR_PICKUP"}
        /\ status[o] \in {"SENT_TO_MERCHANT", "MERCHANT_ACCEPTED", "PREPARING"}
        /\ Progress(s) > Progress(status[o])
    BY <1>2, ProgressFacts DEF Override
  <2>2. revision[o] # "PENDING"
    BY <1>2, <2>1 DEF Override, MayApply, BlockedByRevision, FulfilmentStatus
  <2>3. MayMove(o, s)
    BY <2>1, <2>2 DEF MayMove, FulfilmentStatus, WithCustomerOrRider
  <2>4. QED
    BY <1>2, <2>1, <2>3, OneMoves DEF Override, FulfilmentStatus
<1>3. QED
  BY <1>1, <1>2 DEF AdminNext

\* Every step of the API.
LEMMA StepShape == StepInv /\ [Next]_vars => MovesOrStill
<1> SUFFICES ASSUME StepInv, [Next]_vars
             PROVE  MovesOrStill
  OBVIOUS
<1>1. CASE ProfileNext
  <2>1. \E r \in Riders : \E row : SetProfile(r, row)
    BY <1>1 DEF ProfileNext, ApplyAsRider, ApproveRider, RejectRider, SetRiderActive,
                SetRiderSuspended
  <2>2. QED
    BY <2>1 DEF SetProfile, MovesOrStill, Still, orderVars
<1>2. ASSUME NEW call \in inFlight, Abort(call) PROVE MovesOrStill
  BY <1>2 DEF Abort, MovesOrStill, Still, orderVars
<1>3. CASE UNCHANGED vars
  BY <1>3 DEF vars, MovesOrStill, Still, orderVars
<1>4. QED
  BY <1>1, <1>2, <1>3, ShopShape, DeliveryShape, CustomerShape, AdminShape DEF Next

-----------------------------------------------------------------------------
(* What a move does, row by row                                            *)

\* Where a combined order stands and how it ends, relative to its children.
HistoryInv ==
  /\ StepInv
  /\ ParentFollowsChildren
  /\ CashFollowsGoods
  /\ StockReturnedOnce

\* A move writes s on its orders, an end on the combined orders it completes,
\* and leaves every other row as it was.
LEMMA MoveFacts ==
  ASSUME TypeOK, NEW changed \in SUBSET Orders, NEW s \in OrderStatus, Moves(changed, s)
  PROVE  /\ \A o \in Orders : status'[o] = IF o \in changed THEN s ELSE status[o]
         /\ \A p \in Parents :
              /\ status'[p] = IF p \in RolledUp(changed, s)
                             THEN RolledUpStatus(Ends(p, changed, s)) ELSE status[p]
              /\ paymentStatus'[p] = RolledUpCashOf(p, paymentStatus[p], changed, s)
              /\ payment'[p] = IF payment[p] # "CASH_PENDING" THEN payment[p]
                              ELSE RolledUpCashOf(p, payment[p], changed, s)
<1>1. \A o \in Orders : status'[o] = IF o \in changed THEN s ELSE status[o]
  BY ApplyStatusFacts DEF Moves
<1>2. \A p \in Parents : p \notin changed /\ p \in Anchors
  BY OrdersAssumption DEF Anchors
<1>3. ASSUME NEW p \in Parents
      PROVE  status'[p] = IF p \in RolledUp(changed, s)
                          THEN RolledUpStatus(Ends(p, changed, s)) ELSE status[p]
  BY <1>2 DEF Moves, ApplyStatus
<1>4. ASSUME NEW p \in Parents
      PROVE  /\ paymentStatus'[p] = RolledUpCashOf(p, paymentStatus[p], changed, s)
             /\ payment'[p] = IF payment[p] # "CASH_PENDING" THEN payment[p]
                             ELSE RolledUpCashOf(p, payment[p], changed, s)
  BY <1>2 DEF Moves, CashAfter
<1>5. QED
  BY <1>1, <1>2, <1>3, <1>4

\* What rollUpParent looks at is what the move leaves.
LEMMA EndsAfter ==
  ASSUME TypeOK, NEW changed \in SUBSET Orders, NEW s \in OrderStatus, Moves(changed, s),
         NEW p \in Parents
  PROVE  Ends(p, changed, s) = {status'[o] : o \in Children(p)}
<1>1. \A o \in Orders : status'[o] = IF o \in changed THEN s ELSE status[o]
  BY MoveFacts
<1>2. QED
  BY <1>1 DEF Ends, Children

\* The orders of a move are open before it; s is not one they have.
LEMMA MoveIsForward ==
  ASSUME NEW changed, NEW s, Moves(changed, s), NEW o \in changed
  PROVE  /\ status[o] \notin TerminalStatus /\ status[o] # s
         /\ Progress(s) > Progress(status[o])
         /\ Progress(status[o]) < 8
<1>1. status[o] \in FulfilmentStatus /\ Progress(s) > Progress(status[o])
  BY DEF Moves, MayMove
<1>2. Progress(status[o]) \in Nat /\ Progress(status[o]) < 8
  BY <1>1, ProgressFacts DEF FulfilmentStatus
<1>3. QED
  BY <1>1, <1>2 DEF FulfilmentStatus, TerminalStatus, CancelledStatus

\* A combined order is completed by exactly the move that leaves none of its
\* shop orders open.
LEMMA RollUpIsLast ==
  ASSUME TypeOK, ParentFollowsChildren, NEW changed \in SUBSET Orders,
         NEW s \in OrderStatus, Moves(changed, s), NEW p \in Parents
  PROVE  /\ p \in RolledUp(changed, s) <=>
              /\ status[p] \notin TerminalStatus
              /\ {status'[o] : o \in Children(p)} \subseteq TerminalStatus
         /\ status[p] \in TerminalStatus =>
              {status'[o] : o \in Children(p)} = {status[o] : o \in Children(p)}
<1> DEFINE S == {status[o] : o \in Children(p)}
           S1 == {status'[o] : o \in Children(p)}
<1>1. Children(p) \subseteq Orders /\ Children(p) # {}
  BY OrdersAssumption DEF Children
<1>2. \A o \in Children(p) : status'[o] = IF o \in changed THEN s ELSE status[o]
  BY <1>1, MoveFacts
<1>3. ASSUME p \in RolledUp(changed, s)
      PROVE  status[p] \notin TerminalStatus /\ S1 \subseteq TerminalStatus
  BY <1>3, EndsAfter DEF RolledUp
<1>4. ASSUME status[p] \notin TerminalStatus, S1 \subseteq TerminalStatus
      PROVE  p \in RolledUp(changed, s)
  <2>1. PICK o \in Children(p) : status[o] \notin TerminalStatus
    BY <1>4 DEF ParentFollowsChildren
  <2>2. o \in changed /\ s \in TerminalStatus
    BY <1>2, <1>4, <2>1
  <2>3. QED
    BY <1>4, <2>1, <2>2, EndsAfter DEF RolledUp, Children
<1>5. ASSUME status[p] \in TerminalStatus PROVE S1 = S
  <2>1. S \subseteq TerminalStatus
    BY <1>5 DEF ParentFollowsChildren
  <2>2. \A o \in Children(p) : o \notin changed
    BY <2>1, MoveIsForward
  <2>3. QED
    BY <1>2, <2>2
<1>6. QED
  BY <1>3, <1>4, <1>5

-----------------------------------------------------------------------------
(* The invariant is kept                                                   *)

\* A combined order goes on being over exactly when its shop orders are.
LEMMA ParentsKept ==
  ASSUME TypeOK, ParentFollowsChildren, NEW changed \in SUBSET Orders,
         NEW s \in OrderStatus, Moves(changed, s)
  PROVE  ParentFollowsChildren'
<1> SUFFICES ASSUME NEW p \in Parents
             PROVE  LET S == {status'[o] : o \in Children(p)}
                    IN /\ status'[p] \in TerminalStatus \cup {"SENT_TO_MERCHANT"}
                       /\ status'[p] \in TerminalStatus <=> S \subseteq TerminalStatus
                       /\ S \subseteq TerminalStatus =>
                            (status'[p] = "DELIVERED" <=> "DELIVERED" \in S)
                       /\ status'[p] \in {"CANCELLED_BY_CUSTOMER", "CANCELLED_BY_ADMIN"} =>
                            S = {status'[p]}
  BY DEF ParentFollowsChildren
<1> DEFINE S == {status[o] : o \in Children(p)}
           S1 == {status'[o] : o \in Children(p)}
<1>1. /\ status[p] \in TerminalStatus \cup {"SENT_TO_MERCHANT"}
      /\ status[p] \in TerminalStatus <=> S \subseteq TerminalStatus
      /\ S \subseteq TerminalStatus => (status[p] = "DELIVERED" <=> "DELIVERED" \in S)
      /\ status[p] \in {"CANCELLED_BY_CUSTOMER", "CANCELLED_BY_ADMIN"} => S = {status[p]}
  BY DEF ParentFollowsChildren
<1>2. status'[p] = IF p \in RolledUp(changed, s) THEN RolledUpStatus(S1) ELSE status[p]
  <2>1. Ends(p, changed, s) = S1
    BY EndsAfter
  <2>2. status'[p] = IF p \in RolledUp(changed, s)
                     THEN RolledUpStatus(Ends(p, changed, s)) ELSE status[p]
    BY MoveFacts
  <2> HIDE DEF S1
  <2>3. QED
    BY <2>1, <2>2
<1>3. /\ p \in RolledUp(changed, s) <=>
             status[p] \notin TerminalStatus /\ S1 \subseteq TerminalStatus
      /\ status[p] \in TerminalStatus => S1 = S
  BY RollUpIsLast
<1> HIDE DEF S, S1
<1>4. CASE p \in RolledUp(changed, s)
  <2>1. status'[p] = RolledUpStatus(S1) /\ S1 \subseteq TerminalStatus
    BY <1>2, <1>3, <1>4
  <2>2. /\ RolledUpStatus(S1) \in TerminalStatus
        /\ RolledUpStatus(S1) = "DELIVERED" <=> "DELIVERED" \in S1
        /\ RolledUpStatus(S1) \in {"CANCELLED_BY_CUSTOMER", "CANCELLED_BY_ADMIN"} =>
             S1 = {RolledUpStatus(S1)}
    BY DEF RolledUpStatus, TerminalStatus, CancelledStatus
  <2>3. QED
    BY <2>1, <2>2 DEF S1
<1>5. CASE p \notin RolledUp(changed, s)
  <2>1. "SENT_TO_MERCHANT" \notin TerminalStatus
    BY DEF TerminalStatus, CancelledStatus
  <2>2. QED
    BY <1>1, <1>2, <1>3, <1>5, <2>1 DEF S1
<1>6. QED
  BY <1>4, <1>5

\* Goods are counted back exactly when an order dies in the shop.
LEMMA StockKept ==
  ASSUME StepInv, StockReturnedOnce, NEW changed \in SUBSET Orders,
         NEW s \in OrderStatus, Moves(changed, s)
  PROVE  StockReturnedOnce' /\ PickUpStage'
<1> USE DEF StepInv, DeliveryInv
<1>1. \A o \in Orders : status'[o] = IF o \in changed THEN s ELSE status[o]
  BY MoveFacts
<1>2. pickedUp' = IF s = "ON_THE_WAY" THEN pickedUp \cup changed ELSE pickedUp
  BY DEF Moves
<1>3. \A o \in Orders : stockReturned'[o] =
        stockReturned[o] + (IF o \in Restocked(changed, s) THEN 1 ELSE 0)
  BY DEF Moves, ReturnStock
<1>4. ASSUME NEW o \in Orders
      PROVE  /\ stockReturned'[o] = IF status'[o] \in CancelledStatus /\ o \notin pickedUp'
                                   THEN 1 ELSE 0
             /\ status'[o] \in WithCustomerOrRider => o \in pickedUp'
             /\ o \in pickedUp' => status'[o] \in WithCustomerOrRider \cup TerminalStatus
  <2>1. /\ stockReturned[o] = IF status[o] \in CancelledStatus /\ o \notin pickedUp
                             THEN 1 ELSE 0
        /\ status[o] \in WithCustomerOrRider => o \in pickedUp
        /\ o \in pickedUp => status[o] \in WithCustomerOrRider \cup TerminalStatus
    BY DEF StockReturnedOnce, PickUpStage
  <2>2. CASE o \notin changed
    BY <1>1, <1>2, <1>3, <2>1, <2>2 DEF Restocked
  <2>3. CASE o \in changed
    <3>1. MayMove(o, s) /\ status[o] \notin TerminalStatus
      BY <2>3, MoveIsForward DEF Moves
    <3>2. status'[o] = s /\ s \in FulfilmentStatus \cup TerminalStatus
      BY <1>1, <2>3 DEF OrderStatus
    <3>3. o \in Restocked(changed, s) <=> s \in CancelledStatus /\ o \notin pickedUp
      BY <2>1, <2>3 DEF Restocked, InShop
    <3>4. "ON_THE_WAY" \notin CancelledStatus /\ WithCustomerOrRider \cap CancelledStatus = {}
          /\ CancelledStatus \subseteq TerminalStatus /\ "ON_THE_WAY" \in WithCustomerOrRider
      BY DEF WithCustomerOrRider, CancelledStatus, TerminalStatus
    <3>5. stockReturned'[o] = IF s \in CancelledStatus /\ o \notin pickedUp' THEN 1 ELSE 0
      BY <1>2, <1>3, <2>1, <3>1, <3>3, <3>4
    <3>6. s \in WithCustomerOrRider => o \in pickedUp'
      BY <1>2, <2>1, <2>3, <3>1 DEF MayMove
    <3>7. o \in pickedUp' => s \in WithCustomerOrRider \cup TerminalStatus
      BY <1>2, <2>1, <3>1, <3>2, <3>4 DEF MayMove
    <3>8. QED
      BY <3>2, <3>5, <3>6, <3>7
  <2>4. QED
    BY <2>2, <2>3
<1>5. QED
  BY <1>4 DEF StockReturnedOnce, PickUpStage

\* Cash goes on the books with the goods, and with the roll-up that counts them.
LEMMA CashKept ==
  ASSUME TypeOK, ParentFollowsChildren, CashFollowsGoods, NEW changed \in SUBSET Orders,
         NEW s \in OrderStatus, Moves(changed, s)
  PROVE  CashFollowsGoods'
<1>1. ASSUME NEW o \in Orders
      PROVE  /\ paymentStatus'[o] = IF status'[o] = "DELIVERED" THEN "CASH_COLLECTED"
                                                                ELSE "CASH_PENDING"
             /\ o \in Standalone => payment'[o] = paymentStatus'[o]
  <2>1. /\ status'[o] = IF o \in changed THEN s ELSE status[o]
        /\ o \in changed => status[o] # "DELIVERED"
    BY MoveFacts, MoveIsForward DEF TerminalStatus
  <2>2. \A cash : RolledUpCashOf(o, cash, changed, s) = cash
    BY OrdersAssumption DEF RolledUpCashOf, RolledUp
  <2>3. paymentStatus'[o] =
          IF o \in changed /\ s = "DELIVERED" /\ paymentStatus[o] = "CASH_PENDING"
          THEN "CASH_COLLECTED" ELSE paymentStatus[o]
    BY <2>2 DEF Moves, CashAfter
  <2>4. o \in Standalone =>
          payment'[o] = IF payment[o] # "CASH_PENDING" THEN payment[o]
                        ELSE IF o \in changed /\ s = "DELIVERED" THEN "CASH_COLLECTED"
                        ELSE payment[o]
    BY <2>2 DEF Moves, CashAfter, Anchors
  <2>5. /\ paymentStatus[o] = IF status[o] = "DELIVERED" THEN "CASH_COLLECTED"
                                                         ELSE "CASH_PENDING"
        /\ o \in Standalone => payment[o] = paymentStatus[o]
    BY DEF CashFollowsGoods
  <2>6. QED
    BY <2>1, <2>3, <2>4, <2>5
<1>2. ASSUME NEW p \in Parents
      PROVE  /\ payment'[p] = paymentStatus'[p]
             /\ payment'[p] = IF status'[p] \notin TerminalStatus THEN "CASH_PENDING"
                             ELSE IF \E o \in Children(p) : status'[o] = "DELIVERED"
                             THEN "CASH_COLLECTED" ELSE "FAILED"
  <2> DEFINE Delivered1 == \E o \in Children(p) : status'[o] = "DELIVERED"
  <2>1. /\ payment[p] = paymentStatus[p]
        /\ payment[p] = IF status[p] \notin TerminalStatus THEN "CASH_PENDING"
                        ELSE IF \E o \in Children(p) : status[o] = "DELIVERED"
                        THEN "CASH_COLLECTED" ELSE "FAILED"
    BY DEF CashFollowsGoods
  <2>2. CASE p \in RolledUp(changed, s)
    <3>1. status[p] \notin TerminalStatus /\ status'[p] \in TerminalStatus
      BY <2>2, MoveFacts, RolledUpStatusType DEF RolledUp
    <3>2. RolledUpCash(Ends(p, changed, s)) =
            IF Delivered1 THEN "CASH_COLLECTED" ELSE "FAILED"
      BY EndsAfter DEF RolledUpCash
    <3>3. \A cash : RolledUpCashOf(p, cash, changed, s) = RolledUpCash(Ends(p, changed, s))
      BY <2>2 DEF RolledUpCashOf
    <3>4. QED
      BY <2>1, <3>1, <3>2, <3>3, MoveFacts
  <2>3. CASE p \notin RolledUp(changed, s)
    <3>1. status'[p] = status[p] /\ payment'[p] = payment[p]
          /\ paymentStatus'[p] = paymentStatus[p]
      BY <2>3, MoveFacts DEF RolledUpCashOf
    <3>2. status[p] \in TerminalStatus =>
            (Delivered1 <=> \E o \in Children(p) : status[o] = "DELIVERED")
      <4>1. status[p] \in TerminalStatus =>
              {status'[o] : o \in Children(p)} = {status[o] : o \in Children(p)}
        BY RollUpIsLast
      <4>2. /\ Delivered1 <=> "DELIVERED" \in {status'[o] : o \in Children(p)}
            /\ (\E o \in Children(p) : status[o] = "DELIVERED")
                 <=> "DELIVERED" \in {status[o] : o \in Children(p)}
        OBVIOUS
      <4>3. QED
        BY <4>1, <4>2
    <3>3. QED
      BY <2>1, <3>1, <3>2
  <2>4. QED
    BY <2>2, <2>3
<1>3. \A o \in Standalone : o \in Orders /\ payment'[o] = paymentStatus'[o]
  BY <1>1 DEF Standalone
<1>4. QED
  BY <1>1, <1>2, <1>3, Zenon DEF CashFollowsGoods

\* A step that moves nothing keeps what is said of outcomes.
LEMMA StillKept ==
  HistoryInv /\ Still =>
    PickUpStage' /\ ParentFollowsChildren' /\ CashFollowsGoods' /\ StockReturnedOnce'
<1> SUFFICES ASSUME HistoryInv, Still
             PROVE  PickUpStage' /\ ParentFollowsChildren' /\ CashFollowsGoods'
                      /\ StockReturnedOnce'
  OBVIOUS
<1> USE DEF Still, orderVars, HistoryInv, StepInv
<1>1. PickUpStage'
  BY DEF PickUpStage
<1>2. ParentFollowsChildren'
  <2>1. ASSUME NEW p \in Parents
        PROVE  {status'[o] : o \in Children(p)} = {status[o] : o \in Children(p)}
    OBVIOUS
  <2>2. QED
    BY <2>1, Zenon DEF ParentFollowsChildren
<1>3. CashFollowsGoods'
  BY DEF CashFollowsGoods
<1>4. StockReturnedOnce'
  BY DEF StockReturnedOnce
<1>5. QED
  BY <1>1, <1>2, <1>3, <1>4

\* A checkout starts with every order open, unpaid, unpicked.
LEMMA InitHistory == Init => PickUpStage /\ ParentFollowsChildren /\ CashFollowsGoods /\ StockReturnedOnce
<1> SUFFICES ASSUME Init
             PROVE  PickUpStage /\ ParentFollowsChildren /\ CashFollowsGoods /\ StockReturnedOnce
  OBVIOUS
<1>1. /\ "SENT_TO_MERCHANT" \notin TerminalStatus
      /\ "SENT_TO_MERCHANT" \notin CancelledStatus
      /\ "SENT_TO_MERCHANT" \notin WithCustomerOrRider
  BY DEF TerminalStatus, CancelledStatus, WithCustomerOrRider
<1>2. /\ \A x \in Orders \cup Parents :
           status[x] = "SENT_TO_MERCHANT" /\ paymentStatus[x] = "CASH_PENDING"
      /\ \A a \in Anchors : payment[a] = "CASH_PENDING"
      /\ pickedUp = {} /\ \A o \in Orders : stockReturned[o] = 0
  BY DEF Init
<1>3. PickUpStage /\ StockReturnedOnce
  BY <1>1, <1>2 DEF PickUpStage, StockReturnedOnce
<1>4. ParentFollowsChildren
  <2> SUFFICES ASSUME NEW p \in Parents
               PROVE  LET S == {status[o] : o \in Children(p)}
                      IN S = {"SENT_TO_MERCHANT"} /\ status[p] = "SENT_TO_MERCHANT"
    BY <1>1 DEF ParentFollowsChildren
  <2>1. Children(p) \subseteq Orders /\ Children(p) # {}
    BY OrdersAssumption DEF Children
  <2>2. QED
    BY <1>2, <2>1
<1>5. CashFollowsGoods
  BY <1>1, <1>2 DEF CashFollowsGoods, Anchors, Standalone
<1>6. QED
  BY <1>3, <1>4, <1>5

\* Outcomes, cash and goods agree in every reachable state.
THEOREM OutcomesAgree == Spec => []HistoryInv
<1>1. Init /\ DeliveryInv => HistoryInv
  BY InitHistory DEF HistoryInv, StepInv
<1>2. HistoryInv /\ DeliveryInv' /\ [Next]_vars => HistoryInv'
  <2> SUFFICES ASSUME HistoryInv, DeliveryInv', [Next]_vars
               PROVE  HistoryInv'
    OBVIOUS
  <2>1. MovesOrStill /\ TypeOK
    BY StepShape DEF HistoryInv, StepInv, DeliveryInv
  <2>2. CASE Still
    BY <2>2, StillKept DEF HistoryInv, StepInv
  <2>3. ASSUME NEW changed \in SUBSET Orders, NEW s \in OrderStatus, Moves(changed, s)
        PROVE  HistoryInv'
    BY <2>1, <2>3, ParentsKept, CashKept, StockKept DEF HistoryInv, StepInv
  <2>4. QED
    BY <2>1, <2>2, <2>3 DEF MovesOrStill
<1>3. QED
  BY <1>1, <1>2, DeliveryInvariant, PTL DEF Spec

\* A combined order is over exactly when all of its shop orders are.
THEOREM ParentFollowsChildrenHolds == Spec => []ParentFollowsChildren
BY OutcomesAgree, PTL DEF HistoryInv

\* Cash is on the books if and only if the goods were handed over.
THEOREM CashFollowsGoodsHolds == Spec => []CashFollowsGoods
BY OutcomesAgree, PTL DEF HistoryInv

\* No unit is sold twice and none is lost when an order dies.
THEOREM StockReturnedOnceHolds == Spec => []StockReturnedOnce
BY OutcomesAgree, PTL DEF HistoryInv

-----------------------------------------------------------------------------
(* What a step may never do                                                *)

\* The three action properties, as predicates on one step.
ForwardStep ==
  \A x \in Orders \cup Parents :
    status'[x] # status[x] => Progress(status'[x]) > Progress(status[x])

FrozenStep ==
  \A o \in Orders :
    revision[o] = "PENDING" /\ status'[o] # status[o] =>
      status'[o] \in {"CANCELLED_BY_CUSTOMER", "CANCELLED_BY_ADMIN"}

RiderStep ==
  \A o \in Orders :
    /\ status'[o] # status[o]
    /\ status'[o] \in WithCustomerOrRider \cup {"RIDER_ARRIVED_AT_SHOP", "DELIVERED"}
    => /\ riderId[o] # NoRider
       /\ Works(riderId[o])
       /\ rider[riderId[o]].order = o

\* A move is a step forward for its orders and for the combined orders it ends.
LEMMA StepsAllowed == HistoryInv /\ [Next]_vars => ForwardStep /\ FrozenStep /\ RiderStep
<1> SUFFICES ASSUME HistoryInv, [Next]_vars
             PROVE  ForwardStep /\ FrozenStep /\ RiderStep
  OBVIOUS
<1>1. MovesOrStill /\ TypeOK /\ ParentFollowsChildren
  BY StepShape DEF HistoryInv, StepInv, DeliveryInv
<1>2. CASE Still
  BY <1>2 DEF Still, orderVars, ForwardStep, FrozenStep, RiderStep
<1>3. ASSUME NEW changed \in SUBSET Orders, NEW s \in OrderStatus, Moves(changed, s)
      PROVE  ForwardStep /\ FrozenStep /\ RiderStep
  <2>1. ASSUME NEW o \in Orders, status'[o] # status[o]
        PROVE  status'[o] = s /\ MayMove(o, s)
    BY <1>1, <1>3, <2>1, MoveFacts DEF Moves
  <2>2. ASSUME NEW p \in Parents, status'[p] # status[p]
        PROVE  Progress(status'[p]) > Progress(status[p])
    <3>1. status[p] \notin TerminalStatus /\ status'[p] \in TerminalStatus
      <4>1. p \in RolledUp(changed, s) /\ status'[p] = RolledUpStatus(Ends(p, changed, s))
        BY <1>1, <1>3, <2>2, MoveFacts
      <4>2. QED
        BY <4>1, RolledUpStatusType DEF RolledUp
    <3>2. status[p] = "SENT_TO_MERCHANT"
      BY <1>1, <3>1 DEF ParentFollowsChildren
    <3>3. QED
      BY <3>1, <3>2, ProgressFacts
  <2>3. ForwardStep
    BY <2>1, <2>2 DEF ForwardStep, MayMove
  <2>4. FrozenStep /\ RiderStep
    BY <2>1 DEF FrozenStep, RiderStep, MayMove, ByItsRider
  <2>5. QED
    BY <2>3, <2>4
<1>4. QED
  BY <1>1, <1>2, <1>3 DEF MovesOrStill

\* A status is overwritten only by a later one, and an end by nothing.
THEOREM StatusMovesForwardHolds == Spec => StatusMovesForward
<1>1. HistoryInv /\ [Next]_vars => [ForwardStep]_vars
  BY StepsAllowed
<1>2. QED
  BY <1>1, OutcomesAgree, PTL DEF Spec, StatusMovesForward, ForwardStep

\* While the customer considers a proposal the order can only be cancelled.
THEOREM RevisionFreezesOrderHolds == Spec => RevisionFreezesOrder
<1>1. HistoryInv /\ [Next]_vars => [FrozenStep]_vars
  BY StepsAllowed
<1>2. QED
  BY <1>1, OutcomesAgree, PTL DEF Spec, RevisionFreezesOrder, FrozenStep

\* From pick-up on an order moves only by its own, approved and active rider.
THEOREM OnlyItsRiderDeliversHolds == Spec => OnlyItsRiderDelivers
<1>1. HistoryInv /\ [Next]_vars => [RiderStep]_vars
  BY StepsAllowed
<1>2. QED
  BY <1>1, OutcomesAgree, PTL DEF Spec, OnlyItsRiderDelivers, RiderStep

-----------------------------------------------------------------------------
(* The promise of CombinedOrder                                            *)

\* Which outcome a status is, case by case.
LEMMA OutcomeFacts ==
  /\ Outcome("DELIVERED") = "delivered"
  /\ \A s \in CancelledStatus : Outcome(s) = "cancelled"
  /\ \A s \in FulfilmentStatus : Outcome(s) = "open"
<1>1. /\ "DELIVERED" \notin CancelledStatus /\ "DELIVERED" \notin FulfilmentStatus
      /\ \A s \in CancelledStatus : s \notin FulfilmentStatus
  BY DEF CancelledStatus, FulfilmentStatus
<1>2. Outcome("DELIVERED") = "delivered"
  BY <1>1, Zenon DEF Outcome
<1>3. ASSUME NEW s \in CancelledStatus PROVE Outcome(s) = "cancelled"
  BY <1>1, <1>3, Zenon DEF Outcome
<1>4. ASSUME NEW s \in FulfilmentStatus PROVE Outcome(s) = "open"
  BY <1>1, <1>4, Zenon DEF Outcome
<1>5. QED
  BY <1>2, <1>3, <1>4

\* ... and what each payment status is to the promise.
LEMMA DueFacts ==
  Due("CASH_PENDING") = "due" /\ Due("CASH_COLLECTED") = "collected" /\ Due("FAILED") = "none"
BY Zenon DEF Due

\* A fresh checkout is a fresh promise.
LEMMA PromiseInit == Init => Promise!Init
<1> SUFFICES ASSUME Init
             PROVE  Promise!Init
  OBVIOUS
<1>1. /\ \A x \in Orders \cup Parents : status[x] = "SENT_TO_MERCHANT"
      /\ \A p \in Parents : payment[p] = "CASH_PENDING"
  BY DEF Init, Anchors
<1>2. Outcome("SENT_TO_MERCHANT") = "open"
  BY OutcomeFacts DEF FulfilmentStatus
<1>3. QED
  BY <1>1, <1>2, DueFacts DEF Promise!Init

\* A status that ends nothing is a stutter of the promise.
LEMMA PromiseStutter ==
  ASSUME TypeOK, NEW changed \in SUBSET Orders, NEW s \in FulfilmentStatus,
         Moves(changed, s)
  PROVE  UNCHANGED Promise!vars
<1>1. s \in OrderStatus /\ s \notin TerminalStatus
  BY DEF OrderStatus, FulfilmentStatus, TerminalStatus, CancelledStatus
<1>2. ASSUME NEW o \in Orders PROVE Outcome(status'[o]) = Outcome(status[o])
  <2>1. status'[o] = IF o \in changed THEN s ELSE status[o]
    BY <1>1, MoveFacts
  <2>2. o \in changed => status[o] \in FulfilmentStatus
    BY DEF Moves, MayMove
  <2>3. QED
    BY <2>1, <2>2, OutcomeFacts
<1>3. ASSUME NEW p \in Parents
      PROVE  Outcome(status'[p]) = Outcome(status[p]) /\ Due(payment'[p]) = Due(payment[p])
  BY <1>1, MoveFacts, NoRollUp
<1>4. QED
  BY <1>2, <1>3 DEF Promise!vars

\* A status that ends orders ends their promise, and that of the combined
\* orders they complete.
LEMMA PromiseEnd ==
  ASSUME HistoryInv, NEW changed \in SUBSET Orders, NEW s \in TerminalStatus,
         Moves(changed, s)
  PROVE  Promise!End(changed, Outcome(s))
<1>1. TypeOK /\ ParentFollowsChildren /\ s \in OrderStatus
  BY DEF HistoryInv, StepInv, DeliveryInv, OrderStatus
<1> DEFINE before == [o \in Orders |-> Outcome(status[o])]
           after  == [o \in Orders |-> Outcome(status'[o])]
           S1(p)  == {status'[o] : o \in Children(p)}
<1>2. changed # {} /\ \A o \in changed : before[o] = "open"
  BY OutcomeFacts DEF Moves, MayMove
<1>3. after = [o \in Orders |-> IF o \in changed THEN Outcome(s) ELSE before[o]]
  BY <1>1, MoveFacts
<1>4. ASSUME NEW p \in Parents
      PROVE  /\ Promise!Parts(p, after) = {Outcome(x) : x \in S1(p)}
             /\ S1(p) \subseteq OrderStatus
  <2>1. Children(p) = {c \in Orders : ParentOf[c] = p}
    BY DEF Children
  <2>2. Promise!Parts(p, after) = {Outcome(x) : x \in S1(p)}
    BY <2>1 DEF Promise!Parts
  <2>3. \A o \in Orders : status'[o] \in OrderStatus
    BY <1>1, ApplyStatusFacts DEF Moves
  <2>4. QED
    BY <2>1, <2>2, <2>3
<1>5. ASSUME NEW x \in OrderStatus
      PROVE  /\ Outcome(x) = "open" <=> x \notin TerminalStatus
             /\ Outcome(x) = "delivered" <=> x = "DELIVERED"
             /\ x \in TerminalStatus \ {"DELIVERED"} => Outcome(x) = "cancelled"
  BY OutcomeFacts DEF OrderStatus, TerminalStatus, CancelledStatus, FulfilmentStatus
<1>6. ASSUME NEW p \in Parents
      PROVE  /\ status[p] \in OrderStatus /\ status'[p] \in OrderStatus
             /\ "open" \in Promise!Parts(p, after) <=> ~(S1(p) \subseteq TerminalStatus)
             /\ "delivered" \in Promise!Parts(p, after) <=> "DELIVERED" \in S1(p)
  <2>1. status[p] \in OrderStatus /\ status'[p] \in OrderStatus
    BY <1>1, ApplyStatusFacts DEF TypeOK, Moves
  <2>2. /\ Promise!Parts(p, after) = {Outcome(x) : x \in S1(p)}
        /\ S1(p) \subseteq OrderStatus
    BY <1>4
  <2> HIDE DEF S1, after
  <2>3. QED
    BY <1>5, <2>1, <2>2
<1>7. ASSUME NEW p \in Parents
      PROVE  /\ Promise!Complete(p, after) <=> p \in RolledUp(changed, s)
             /\ p \in RolledUp(changed, s) =>
                  /\ Outcome(status'[p]) = Promise!Whole(Promise!Parts(p, after))
                  /\ Due(payment'[p]) = Promise!Collected(Promise!Parts(p, after))
             /\ p \notin RolledUp(changed, s) =>
                  Outcome(status'[p]) = Outcome(status[p]) /\ Due(payment'[p]) = Due(payment[p])
  <2>1. p \in RolledUp(changed, s) <=>
          status[p] \notin TerminalStatus /\ S1(p) \subseteq TerminalStatus
    BY <1>1, RollUpIsLast
  <2>2. Promise!Complete(p, after) <=>
          Outcome(status[p]) = "open" /\ "open" \notin Promise!Parts(p, after)
    BY DEF Promise!Complete
  <2>3. Promise!Complete(p, after) <=> p \in RolledUp(changed, s)
    BY <1>5, <1>6, <2>1, <2>2
  <2>4. ASSUME p \in RolledUp(changed, s)
        PROVE  /\ Outcome(status'[p]) = Promise!Whole(Promise!Parts(p, after))
               /\ Due(payment'[p]) = Promise!Collected(Promise!Parts(p, after))
    <3>1. ParentFollowsChildren' /\ CashFollowsGoods'
      BY <1>1, ParentsKept, CashKept DEF HistoryInv
    <3>2. status'[p] \in TerminalStatus /\ (status'[p] = "DELIVERED" <=> "DELIVERED" \in S1(p))
      BY <2>1, <2>4, <3>1 DEF ParentFollowsChildren
    <3>3. payment'[p] = IF "DELIVERED" \in S1(p) THEN "CASH_COLLECTED" ELSE "FAILED"
      <4>1. payment'[p] = IF \E o \in Children(p) : status'[o] = "DELIVERED"
                          THEN "CASH_COLLECTED" ELSE "FAILED"
        BY <3>1, <3>2, Zenon DEF CashFollowsGoods
      <4>2. QED
        BY <4>1
    <3> HIDE DEF S1, after
    <3>4. QED
      BY <1>5, <1>6, <3>2, <3>3, DueFacts DEF Promise!Whole, Promise!Collected
  <2>5. ASSUME p \notin RolledUp(changed, s)
        PROVE  Outcome(status'[p]) = Outcome(status[p]) /\ Due(payment'[p]) = Due(payment[p])
    <3>1. status'[p] = status[p] /\ payment'[p] = payment[p]
      <4> HIDE DEF S1, after, before
      <4>1. QED
        BY <1>1, <2>5, MoveFacts DEF RolledUpCashOf
    <3>2. QED
      BY <3>1
  <2>6. QED
    BY <2>3, <2>4, <2>5
<1>8. QED
  BY <1>2, <1>3, <1>7 DEF Promise!End

\* Every step of the API is a step of the promise or a stutter.
LEMMA PromiseStep == HistoryInv /\ [Next]_vars => [Promise!Next]_Promise!vars
<1> SUFFICES ASSUME HistoryInv, [Next]_vars
             PROVE  Promise!Next \/ UNCHANGED Promise!vars
  OBVIOUS
<1>1. MovesOrStill /\ TypeOK
  BY StepShape DEF HistoryInv, StepInv, DeliveryInv
<1>2. CASE Still
  BY <1>2 DEF Still, orderVars, Promise!vars
<1>3. ASSUME NEW changed \in SUBSET Orders, NEW s \in FulfilmentStatus, Moves(changed, s)
      PROVE  UNCHANGED Promise!vars
  BY <1>1, <1>3, PromiseStutter
<1>4. ASSUME NEW changed \in SUBSET Orders, NEW s \in TerminalStatus, Moves(changed, s)
      PROVE  Promise!Next
  <2>1. Outcome(s) \in {"delivered", "cancelled"}
    BY OutcomeFacts DEF TerminalStatus
  <2>2. Promise!End(changed, Outcome(s))
    BY <1>4, PromiseEnd
  <2>3. QED
    BY <2>1, <2>2 DEF Promise!Next
<1>5. QED
  BY <1>1, <1>2, <1>3, <1>4 DEF MovesOrStill, OrderStatus

\* The API implements the promise of a multi-shop checkout, for any number of
\* shops in it, whatever is in flight.
THEOREM PromiseKept == Spec => KeepsPromise
BY PromiseInit, PromiseStep, OutcomesAgree, PTL DEF Spec, KeepsPromise, Promise!Spec

-----------------------------------------------------------------------------
(* The timers.  The invariant relates the two clocks of an order: the one  *)
(* the sweep reads (createdAt, or the latest resolvedAt) and the time the  *)
(* order was really the shop's to decide.                                  *)

CONSTANTS Sweepers, Timeout, Configured, MaxApproval, Batch, MaxLag, MaxProposals
VARIABLES decision, age, proposal, proposed, left, since, open, sweep, expiry

\* An order, its proposals and the sweeps, as the timers see them.
Timer == INSTANCE AcceptanceTimer
           WITH status <- decision, revision <- proposal, proposals <- proposed

\* The clocks of an order that waits for its shop: without a proposal it was the
\* shop's from the start; after one, resolvedAt is early by a sweep's lag at most.
ClocksAgree ==
  \A o \in Orders :
    /\ decision[o] \in {"none", "sent"} /\ proposal[o] = "NONE" => open[o] = age[o]
    /\ decision[o] = "sent" /\ proposal[o] = "RESOLVED" => since[o] <= open[o] + MaxLag
    /\ decision[o] = "none" => proposal[o] = "NONE" /\ age[o] = 0

\* A proposal that is open has its number.
Numbered == \A o \in Orders : proposal[o] = "PENDING" => proposed[o] > 0

\* What a sweep took had waited long enough when it took it.
TakenIsOld == \A w \in Sweepers : \A o \in sweep[w].todo : decision[o] # "none" /\ age[o] > Timeout

TimerInv == Timer!TypeOK /\ ClocksAgree /\ Numbered /\ TakenIsOld

-----------------------------------------------------------------------------
\* At least a tick and at most a day to answer a proposal.
LEMMA ApprovalTyped == Timer!TimerAssumption => Timer!Approval \in 1..MaxApproval
BY DEF Timer!TimerAssumption, Timer!Approval

\* A stamp gets one tick older, up to where it no longer matters.
LEMMA OlderTyped ==
  ASSUME NEW bound \in Nat, NEW t \in 0..bound
  PROVE  /\ Timer!Older(t, bound) \in 0..bound
         /\ Timer!Older(t, bound) = IF t < bound THEN t + 1 ELSE bound
         /\ t <= Timer!Older(t, bound)
BY DEF Timer!Older

\* The bounds of the stamps are numbers.
LEMMA LongAgoTyped ==
  Timer!TimerAssumption =>
    Timer!LongAgo \in Nat /\ Timeout + 1 \in Nat /\ MaxLag \in Nat /\ Timeout \in Nat
BY DEF Timer!TimerAssumption, Timer!LongAgo

\* A sweep that is behind by one more tick is at most MaxLag behind.
LEMMA BehindTyped ==
  ASSUME Timer!TimerAssumption, NEW T, NEW s \in [lag : 0..MaxLag, todo : T], {} \in T,
         s.todo # {} => s.lag < MaxLag
  PROVE  Timer!Behind(s) \in [lag : 0..MaxLag, todo : T] /\ Timer!Behind(s).todo = s.todo
<1>1. CASE s.todo = {}
  BY <1>1, LongAgoTyped DEF Timer!Behind, Timer!Idle
<1>2. CASE s.todo # {}
  <2>1. s.lag + 1 \in 0..MaxLag  BY <1>2, LongAgoTyped
  <2> QED  BY <1>2, <2>1 DEF Timer!Behind
<1> QED  BY <1>1, <1>2

-----------------------------------------------------------------------------
\* Nothing has been ordered or proposed yet.
LEMMA TimerInit == Timer!TimerAssumption /\ Timer!Init => TimerInv
<1> SUFFICES ASSUME Timer!TimerAssumption, Timer!Init PROVE TimerInv  OBVIOUS
<1>1. Timer!Idle \in [lag : 0..MaxLag, todo : SUBSET Orders]  BY LongAgoTyped DEF Timer!Idle
<1>2. Timer!Idle \in [lag : 0..MaxLag, todo : SUBSET (Orders \X (1..MaxProposals))]
  BY LongAgoTyped DEF Timer!Idle
<1>3. Timer!TypeOK
  BY <1>1, <1>2, LongAgoTyped, Timer!TimerAssumption DEF Timer!Init, Timer!TypeOK
<1>4. ClocksAgree  BY DEF Timer!Init, ClocksAgree
<1>5. TakenIsOld  BY DEF Timer!Init, Timer!Idle, TakenIsOld
<1>6. Numbered  BY DEF Timer!Init, Numbered
<1> QED  BY <1>3, <1>4, <1>5, <1>6 DEF TimerInv

\* What people do to an order: nothing of it moves a clock.
LEMMA PeopleKeep ==
  ASSUME Timer!TimerAssumption, TimerInv, NEW o \in Orders,
         Timer!Place(o) \/ Timer!Answer(o) \/ Timer!Cancel(o) \/ Timer!Propose(o) \/ Timer!Respond(o)
  PROVE  TimerInv'
<1>1. Timer!TypeOK'
  <2>1. CASE Timer!Place(o) \/ Timer!Answer(o) \/ Timer!Cancel(o)
    BY <2>1 DEF Timer!Place, Timer!Answer, Timer!Cancel, TimerInv, Timer!TypeOK
  <2>2. CASE Timer!Propose(o)
    <3>1. proposed[o] + 1 \in 0..MaxProposals
      BY <2>2, Timer!TimerAssumption DEF Timer!Propose, TimerInv, Timer!TypeOK
    <3>2. Timer!Approval \in 0..MaxApproval  BY ApprovalTyped
    <3> QED  BY <2>2, <3>1, <3>2 DEF Timer!Propose, TimerInv, Timer!TypeOK
  <2>3. CASE Timer!Respond(o)
    BY <2>3, LongAgoTyped, Timer!TimerAssumption
       DEF Timer!Respond, Timer!Close, TimerInv, Timer!TypeOK
  <2> QED  BY <2>1, <2>2, <2>3
<1>2. ClocksAgree'
  <2>2. CASE Timer!Place(o) \/ Timer!Answer(o) \/ Timer!Cancel(o) \/ Timer!Propose(o)
    BY <2>2
       DEF Timer!Place, Timer!Answer, Timer!Cancel, Timer!Propose, ClocksAgree, TimerInv,
           Timer!TypeOK
  <2>3. CASE Timer!Respond(o)
    BY <2>3, LongAgoTyped DEF Timer!Respond, Timer!Close, ClocksAgree, TimerInv, Timer!TypeOK
  <2> QED  BY <2>2, <2>3
<1>3. TakenIsOld'
  BY DEF Timer!Place, Timer!Answer, Timer!Cancel, Timer!Propose, Timer!Respond, Timer!Close,
         TakenIsOld, TimerInv, Timer!TypeOK
<1>4. Numbered'
  BY DEF Timer!Place, Timer!Answer, Timer!Cancel, Timer!Propose, Timer!Respond, Timer!Close,
         Numbered, TimerInv, Timer!TypeOK
<1> QED  BY <1>1, <1>2, <1>3, <1>4 DEF TimerInv

\* The acceptance sweep writes a status and what it has still to do.
LEMMA SweepKeeps ==
  ASSUME Timer!TimerAssumption, TimerInv, NEW w \in Sweepers,
         \/ \E batch \in SUBSET Orders : Timer!StartSweep(w, batch)
         \/ \E o \in Orders : Timer!SweepOrder(w, o)
         \/ Timer!AbandonSweep(w)
  PROVE  TimerInv'
<1>1. CASE \E batch \in SUBSET Orders : Timer!StartSweep(w, batch)
  <2>1. PICK batch \in SUBSET Orders : Timer!StartSweep(w, batch)  BY <1>1
  <2>2. [lag |-> 0, todo |-> batch] \in [lag : 0..MaxLag, todo : SUBSET Orders]
    BY LongAgoTyped
  <2>3. Timer!TypeOK'  BY <2>1, <2>2 DEF Timer!StartSweep, Timer!orderVars, TimerInv, Timer!TypeOK
  <2>4. ClocksAgree'  BY <2>1 DEF Timer!StartSweep, Timer!orderVars, TimerInv, ClocksAgree
  <2>5. TakenIsOld'
    BY <2>1 DEF Timer!StartSweep, Timer!Stale, Timer!orderVars, TimerInv, Timer!TypeOK, TakenIsOld
  <2> QED  BY <2>1, <2>3, <2>4, <2>5 DEF Timer!StartSweep, Timer!orderVars, TimerInv, Numbered
<1>2. CASE \E o \in Orders : Timer!SweepOrder(w, o)
  <2>1. PICK o \in Orders : Timer!SweepOrder(w, o)  BY <1>2
  <2>2. [sweep[w] EXCEPT !.todo = @ \ {o}] \in [lag : 0..MaxLag, todo : SUBSET Orders]
    BY DEF TimerInv, Timer!TypeOK
  <2>3. sweep' \in [Sweepers -> [lag : 0..MaxLag, todo : SUBSET Orders]]
    BY <2>1, <2>2 DEF Timer!SweepOrder, TimerInv, Timer!TypeOK
  <2>4. Timer!TypeOK'  BY <2>1, <2>3 DEF Timer!SweepOrder, TimerInv, Timer!TypeOK
  <2>5. ClocksAgree'  BY <2>1 DEF Timer!SweepOrder, TimerInv, Timer!TypeOK, ClocksAgree
  <2>6. TakenIsOld'  BY <2>1 DEF Timer!SweepOrder, TimerInv, Timer!TypeOK, TakenIsOld
  <2> QED  BY <2>1, <2>4, <2>5, <2>6 DEF Timer!SweepOrder, TimerInv, Numbered
<1>3. CASE Timer!AbandonSweep(w)
  <2>1. Timer!Idle \in [lag : 0..MaxLag, todo : SUBSET Orders]  BY LongAgoTyped DEF Timer!Idle
  <2>2. Timer!TypeOK'
    BY <1>3, <2>1 DEF Timer!AbandonSweep, Timer!orderVars, TimerInv, Timer!TypeOK
  <2>3. ClocksAgree'  BY <1>3 DEF Timer!AbandonSweep, Timer!orderVars, TimerInv, ClocksAgree
  <2>4. TakenIsOld'
    BY <1>3
       DEF Timer!AbandonSweep, Timer!Idle, Timer!orderVars, TimerInv, Timer!TypeOK, TakenIsOld
  <2> QED  BY <1>3, <2>2, <2>3, <2>4 DEF Timer!AbandonSweep, Timer!orderVars, TimerInv, Numbered
<1> QED  BY <1>1, <1>2, <1>3

\* The revision sweep dates a closed proposal back by its lag.
LEMMA ExpiryKeeps ==
  ASSUME Timer!TimerAssumption, TimerInv,
         \/ Timer!StartExpiry
         \/ \E o \in Orders, n \in 1..MaxProposals : Timer!ExpireRevision(o, n)
         \/ Timer!SkipRevisions
  PROVE  TimerInv'
<1> DEFINE Kept == SUBSET (Orders \X (1..MaxProposals))
<1>1. CASE Timer!StartExpiry
  <2>1. \A o \in Orders : Timer!Expired(o) => proposed[o] \in 1..MaxProposals
    BY DEF Timer!Expired, TimerInv, Timer!TypeOK, Numbered
  <2>2. expiry' \in [lag : 0..MaxLag, todo : Kept]
    BY <1>1, <2>1, LongAgoTyped DEF Timer!StartExpiry
  <2>3. Timer!TypeOK'
    BY <1>1, <2>2 DEF Timer!StartExpiry, Timer!orderVars, TimerInv, Timer!TypeOK
  <2> QED
    BY <1>1, <2>3
       DEF Timer!StartExpiry, Timer!orderVars, TimerInv, ClocksAgree, TakenIsOld, Numbered
<1>2. CASE \E o \in Orders, n \in 1..MaxProposals : Timer!ExpireRevision(o, n)
  <2>1. PICK o \in Orders, n \in 1..MaxProposals : Timer!ExpireRevision(o, n)  BY <1>2
  <2>2. expiry' \in [lag : 0..MaxLag, todo : Kept]
    BY <2>1 DEF Timer!ExpireRevision, TimerInv, Timer!TypeOK
  <2>3. expiry.lag \in 0..MaxLag /\ expiry.lag \in 0..Timer!LongAgo
    BY LongAgoTyped DEF Timer!LongAgo, TimerInv, Timer!TypeOK
  <2>4. CASE proposal[o] = "PENDING" /\ proposed[o] = n
    <3>1. Timer!Close(o, expiry.lag) /\ UNCHANGED <<decision, age, proposed, sweep>>
      BY <2>1, <2>4 DEF Timer!ExpireRevision
    <3>2. Timer!TypeOK'
      BY <2>2, <2>3, <3>1, LongAgoTyped, Timer!TimerAssumption
         DEF Timer!Close, TimerInv, Timer!TypeOK
    <3>3. ClocksAgree'
      BY <2>3, <2>4, <3>1, LongAgoTyped DEF Timer!Close, TimerInv, Timer!TypeOK, ClocksAgree
    <3>4. TakenIsOld'  BY <3>1 DEF TimerInv, TakenIsOld
    <3> QED  BY <2>4, <3>1, <3>2, <3>3, <3>4 DEF Timer!Close, TimerInv, Timer!TypeOK, Numbered
  <2>5. CASE ~(proposal[o] = "PENDING" /\ proposed[o] = n)
    BY <2>1, <2>2, <2>5
       DEF Timer!ExpireRevision, TimerInv, Timer!TypeOK, ClocksAgree, TakenIsOld, Numbered
  <2> QED  BY <2>4, <2>5
<1>3. CASE Timer!SkipRevisions
  <2>1. expiry' \in [lag : 0..MaxLag, todo : Kept]
    BY <1>3 DEF Timer!SkipRevisions, TimerInv, Timer!TypeOK
  <2> QED
    BY <1>3, <2>1
       DEF Timer!SkipRevisions, Timer!orderVars, TimerInv, Timer!TypeOK, ClocksAgree, TakenIsOld, Numbered
<1> QED  BY <1>1, <1>2, <1>3

\* A tick makes both clocks of an order older, or leaves them where neither
\* matters any more.
LEMMA TickKeeps == Timer!TimerAssumption /\ TimerInv /\ Timer!Tick => TimerInv'
<1> SUFFICES ASSUME Timer!TimerAssumption, TimerInv, Timer!Tick PROVE TimerInv'  OBVIOUS
<1>1. /\ age' \in [Orders -> 0..(Timeout + 1)]
      /\ since' \in [Orders -> 0..Timer!LongAgo]
      /\ open' \in [Orders -> 0..(Timeout + 1)]
  BY OlderTyped, LongAgoTyped DEF Timer!Tick, TimerInv, Timer!TypeOK
<1>2. left' \in [Orders -> 0..MaxApproval]
  <2>1. MaxApproval \in Nat /\ left \in [Orders -> 0..MaxApproval]
    BY DEF Timer!TimerAssumption, TimerInv, Timer!TypeOK
  <2>2. \A t \in 0..MaxApproval : (IF t = 0 THEN 0 ELSE t - 1) \in 0..MaxApproval  BY <2>1
  <2>3. left' = [o \in Orders |-> IF left[o] = 0 THEN 0 ELSE left[o] - 1]  BY DEF Timer!Tick
  <2> QED  BY <2>1, <2>2, <2>3
<1>3. sweep' \in [Sweepers -> [lag : 0..MaxLag, todo : SUBSET Orders]]
      /\ \A w \in Sweepers : sweep'[w].todo = sweep[w].todo
  <2>1. \A w \in Sweepers : sweep[w] \in [lag : 0..MaxLag, todo : SUBSET Orders]
                              /\ (sweep[w].todo # {} => sweep[w].lag < MaxLag)
    BY DEF Timer!Tick, TimerInv, Timer!TypeOK
  <2>2. \A w \in Sweepers : Timer!Behind(sweep[w]) \in [lag : 0..MaxLag, todo : SUBSET Orders]
                              /\ Timer!Behind(sweep[w]).todo = sweep[w].todo
    <3> TAKE w \in Sweepers
    <3>1. /\ sweep[w] \in [lag : 0..MaxLag, todo : SUBSET Orders]
          /\ sweep[w].todo # {} => sweep[w].lag < MaxLag
      BY <2>1
    <3>2. {} \in SUBSET Orders  OBVIOUS
    <3> QED  BY <3>1, <3>2, BehindTyped
  <2>3. sweep' = [w \in Sweepers |-> Timer!Behind(sweep[w])]  BY DEF Timer!Tick
  <2> QED  BY <2>2, <2>3
<1>4. expiry' \in [lag : 0..MaxLag, todo : SUBSET (Orders \X (1..MaxProposals))]
  <2>1. expiry.todo # {} => expiry.lag < MaxLag  BY DEF Timer!Tick
  <2> QED  BY <2>1, BehindTyped DEF Timer!Tick, TimerInv, Timer!TypeOK
<1>5. Timer!TypeOK'  BY <1>1, <1>2, <1>3, <1>4 DEF Timer!Tick, TimerInv, Timer!TypeOK
<1>6. ClocksAgree'
  <2> SUFFICES ASSUME NEW o \in Orders
               PROVE  /\ decision[o] \in {"none", "sent"} /\ proposal[o] = "NONE" =>
                           open'[o] = age'[o]
                      /\ decision[o] = "sent" /\ proposal[o] = "RESOLVED" =>
                           since'[o] <= open'[o] + MaxLag
                      /\ decision[o] = "none" => proposal[o] = "NONE"
    BY DEF Timer!Tick, ClocksAgree
  <2>1. /\ decision[o] = "none" => age[o] = 0 /\ open[o] = 0
        /\ age[o] \in 0..(Timeout + 1) /\ open[o] \in 0..(Timeout + 1) /\ since[o] \in 0..Timer!LongAgo
    BY DEF TimerInv, Timer!TypeOK, ClocksAgree
  <2>2. /\ age'[o] = IF decision[o] = "none" THEN 0 ELSE Timer!Older(age[o], Timeout + 1)
        /\ since'[o] = Timer!Older(since[o], Timer!LongAgo)
        /\ open'[o] = IF decision[o] = "sent" /\ proposal[o] # "PENDING"
                      THEN Timer!Older(open[o], Timeout + 1) ELSE open[o]
    BY DEF Timer!Tick, TimerInv, Timer!TypeOK
  <2>3. /\ decision[o] \in {"none", "sent"} /\ proposal[o] = "NONE" => open[o] = age[o]
        /\ decision[o] = "sent" /\ proposal[o] = "RESOLVED" => since[o] <= open[o] + MaxLag
        /\ decision[o] = "none" => proposal[o] = "NONE"
    BY DEF TimerInv, ClocksAgree
  <2> QED  BY <2>1, <2>2, <2>3, LongAgoTyped DEF Timer!Older, Timer!LongAgo
<1>7. TakenIsOld'
  <2> SUFFICES ASSUME NEW w \in Sweepers, NEW o \in sweep[w].todo
               PROVE  decision[o] # "none" /\ age'[o] > Timeout
    BY <1>3 DEF Timer!Tick, TakenIsOld
  <2>1. o \in Orders /\ decision[o] # "none" /\ age[o] > Timeout /\ age[o] \in 0..(Timeout + 1)
    BY DEF TimerInv, Timer!TypeOK, TakenIsOld
  <2>2. age'[o] = Timer!Older(age[o], Timeout + 1)  BY <2>1 DEF Timer!Tick, TimerInv, Timer!TypeOK
  <2> QED  BY <2>1, <2>2, LongAgoTyped DEF Timer!Older
<1>8. Numbered'  BY DEF Timer!Tick, TimerInv, Numbered
<1> QED  BY <1>5, <1>6, <1>7, <1>8 DEF TimerInv

-----------------------------------------------------------------------------
\* Whoever acts, and whatever passes, the clocks agree.
LEMMA TimerStep == Timer!TimerAssumption /\ TimerInv /\ [Timer!Next]_Timer!vars => TimerInv'
<1> SUFFICES ASSUME Timer!TimerAssumption, TimerInv, [Timer!Next]_Timer!vars PROVE TimerInv'
  OBVIOUS
<1>1. CASE UNCHANGED Timer!vars
  BY <1>1
     DEF Timer!vars, Timer!orderVars, TimerInv, Timer!TypeOK, ClocksAgree, TakenIsOld, Numbered
<1>2. CASE Timer!Next
  BY <1>2, PeopleKeep, SweepKeeps, ExpiryKeeps, TickKeeps DEF Timer!Next
<1> QED  BY <1>1, <1>2

\* The clocks of an order agree: the inductive invariant of the timers.
THEOREM TimerInvariant ==
  ASSUME Timer!TimerAssumption
  PROVE  Timer!Spec => []TimerInv
BY TimerInit, TimerStep, PTL DEF Timer!Spec

\* Time stamps, proposals and sweeps keep their shapes; no proposal waits for
\* longer than a day, whatever is configured (createRevision).
THEOREM TimerTypes ==
  ASSUME Timer!TimerAssumption
  PROVE  Timer!Spec => []Timer!TypeOK
<1>1. TimerInv => Timer!TypeOK  BY DEF TimerInv
<1> QED  BY <1>1, TimerInvariant, PTL

\* expireUnacceptedOrders rejects no order while a proposal is open for it, and
\* none that was its shop's to decide for less than the window but a sweep's lag.
THEOREM WindowRespectedHolds ==
  ASSUME Timer!TimerAssumption
  PROVE  Timer!Spec => Timer!WindowRespected
<1>1. TimerInv /\ [Timer!Next]_Timer!vars =>
        [\A o \in Orders : Timer!TimesOut(o) => Timer!HadItsWindow(o)]_Timer!vars
  <2> SUFFICES ASSUME TimerInv, Timer!Next, NEW o \in Orders, Timer!TimesOut(o)
               PROVE  proposal[o] # "PENDING" /\ open[o] + MaxLag > Timeout
    BY DEF Timer!vars, Timer!HadItsWindow
  <2>1. PICK w \in Sweepers : Timer!SweepOrder(w, o)
    <3>1. decision # decision'  BY DEF Timer!TimesOut
    <3>2. CASE \E q \in Orders :
                 Timer!Place(q) \/ Timer!Answer(q) \/ Timer!Cancel(q) \/ Timer!Propose(q) \/ Timer!Respond(q)
      BY <3>2
         DEF Timer!Place, Timer!Answer, Timer!Cancel, Timer!Propose, Timer!Respond,
             Timer!TimesOut, TimerInv, Timer!TypeOK
    <3>3. CASE \E w \in Sweepers, q \in Orders : Timer!SweepOrder(w, q)
      <4>1. PICK w \in Sweepers, q \in Orders : Timer!SweepOrder(w, q)  BY <3>3
      <4>2. q = o  BY <4>1 DEF Timer!SweepOrder, Timer!TimesOut, TimerInv, Timer!TypeOK
      <4> QED  BY <4>1, <4>2
    <3> QED
      BY <3>1, <3>2, <3>3
         DEF Timer!Next, Timer!StartSweep, Timer!AbandonSweep, Timer!StartExpiry,
             Timer!ExpireRevision,
                              Timer!SkipRevisions, Timer!Tick, Timer!orderVars
  <2>2. Timer!MayTimeOut(w, o) /\ o \in sweep[w].todo
    BY <2>1 DEF Timer!SweepOrder, Timer!TimesOut, TimerInv, Timer!TypeOK
  <2>3. /\ age[o] > Timeout /\ age[o] \in Nat /\ open[o] \in Nat /\ since[o] \in Nat
        /\ sweep[w].lag \in Nat
    BY <2>2, LongAgoTyped DEF Timer!LongAgo, TimerInv, Timer!TypeOK, TakenIsOld
  <2>4. CASE proposal[o] = "NONE"
    BY <2>2, <2>3, <2>4, LongAgoTyped DEF Timer!MayTimeOut, TimerInv, ClocksAgree
  <2>5. CASE proposal[o] = "RESOLVED"
    BY <2>2, <2>3, <2>5, LongAgoTyped DEF Timer!MayTimeOut, TimerInv, ClocksAgree
  <2> QED  BY <2>2, <2>4, <2>5 DEF Timer!MayTimeOut, TimerInv, Timer!TypeOK
<1> QED  BY <1>1, TimerInvariant, PTL DEF Timer!Spec, Timer!WindowRespected
=============================================================================
