------------------------------- MODULE MCMoney -------------------------------
(***************************************************************************)
(* One checkout's money from its first revision to its last refund: the    *)
(* lines are revised and delivered (OrderMoney), and what was collected at *)
(* the door then opens the books of RefundSettlement, together with those  *)
(* of an earlier checkout, order 3, at the first shop.                     *)
(***************************************************************************)
EXTENDS OrderMoney, RefundSettlement

CONSTANTS
  Earlier,                     \* shop orders of the earlier checkout
  l1, l2, l3, c1, sa, sb       \* model values

ASSUME TwoCheckouts == ShopOrders = Orders \cup Earlier

Item(l, n) == [listing |-> l, quantity |-> n]

TwoShopsSoldBy == l1 :> 1 @@ l2 :> 1 @@ l3 :> 2
TwoShopsBought == 1 :> <<Item(l1, 2)>> @@ 2 :> <<Item(l3, 2)>>
Percent(n)     == [type |-> "PERCENTAGE", value |-> n]
Fixed(n)       == [type |-> "FIXED", value |-> n]
TwoShopsRate   == 1 :> Percent(50) @@ 2 :> Fixed(3)
BothRates      == {Percent(50), Fixed(3)}
CombinedAnchor == 1 :> c1 @@ 2 :> c1 @@ 3 :> 3
TwoShops       == <<1, 2, 1>>

-----------------------------------------------------------------------------
EarlierBooks ==
  [delivered |-> Earlier, total |-> [o \in ShopOrders |-> 2],
   earning |-> [o \in ShopOrders |-> 2],
   collected |-> [a \in Anchors |-> 2]]

MCInit == Init /\ books = EarlierBooks /\ Opened

Open == books = EarlierBooks

\* The checkout is over and its cash collected.  What is on sale, what was
\* proposed and what later orders would cost a shop do not matter any more.
CloseBooks ==
  LET came == {o \in Orders : order[o].stage = "DELIVERED"}
  IN /\ Open /\ payment.status = "CASH_COLLECTED"
     /\ books' =
          [delivered |-> Earlier \cup came,
           total |-> [o \in ShopOrders |->
                        IF o \in Orders THEN order[o].total ELSE books.total[o]],
           earning |-> [o \in ShopOrders |->
                          IF o \in Orders THEN order[o].subtotal - order[o].commission
                          ELSE books.earning[o]],
           collected |-> [books.collected EXCEPT ![c1] = payment.amount]]
     /\ orderPayment' = [o \in ShopOrders |->
                           IF o \in Earlier \cup came THEN "CASH_COLLECTED" ELSE "CASH_PENDING"]
     /\ stock' = [l \in Listings |-> 0]
     /\ goods' = [l \in Listings |-> goods[l] - stock[l]]
     /\ revision' = [r \in Requests |-> NoRevision]
     /\ rate' = RateAtCheckout
     /\ UNCHANGED <<price, lines, order, parent, payment, agreed>>
     /\ UNCHANGED <<refund, paymentStatus, wallet, settlementOf, settlement, call>>

AtCheckout(Step) == Open /\ Step /\ UNCHANGED refundVars
Afterwards(Step) == ~Open /\ Step /\ UNCHANGED vars

MCNext ==
  \/ \E l \in Listings :
       \/ \E p \in Prices : AtCheckout(SetPrice(l, p))
       \/ \E n \in 0..MaxStock : AtCheckout(SetStock(l, n))
  \/ \E o \in Orders :
       \/ \E terms \in Rates : AtCheckout(SetRate(o, terms))
       \/ AtCheckout(PickUp(o)) \/ AtCheckout(Deliver(o)) \/ AtCheckout(Cancel(o))
  \/ \E r \in Requests :
       \/ \E o \in Orders : \E changes \in Proposals(o) : AtCheckout(Propose(r, o, changes))
       \/ AtCheckout(Elapse(r)) \/ AtCheckout(Expire(r))
       \/ AtCheckout(Decline(r)) \/ AtCheckout(Approve(r))
  \/ CloseBooks
  \/ \E r \in Refunds :
       \/ Afterwards(ApproveRefund(r)) \/ Afterwards(Reject(r)) \/ Afterwards(Process(r))
       \/ \E t \in Targets, n \in Amounts : Afterwards(Request(r, t, n))
       \/ \E t \in Targets, n \in Amounts : Afterwards(RefundOrder(r, t, n))
  \/ \E s \in Settlements :
       \/ Afterwards(MarkPaid(s)) \/ Afterwards(Hold(s))
       \/ \E m \in Admins, shop \in Shops : Afterwards(GenerateFor(m, shop, s))
  \/ \E m \in Admins :
       \/ \E asked \in {Shops} \cup {{shop} : shop \in Shops}, period \in Periods :
            Afterwards(StartGenerate(m, asked, period))
       \/ Afterwards(EndGenerate(m))

MCSpec == MCInit /\ [][MCNext]_<<vars, refundVars>>

\* Sound: nothing tells the ids of proposals, refunds and settlements apart.
Ids == Permutations(Requests) \cup Permutations(Refunds) \cup Permutations(Settlements)

=============================================================================
