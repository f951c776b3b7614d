------------------------------- MODULE Checkout -------------------------------
(***************************************************************************)
(* How goods are promised: a customer's basket becomes an order            *)
(* (OrdersService.placeOrder) while other tabs, retries and the shop's     *)
(* counter (PosService.createSale) go for the same basket, the same        *)
(* request id and the same shelf.                                          *)
(*                                                                         *)
(* A call first looks for an order its request already produced, checks    *)
(* its terms outside any transaction, and then commits in one transaction  *)
(* that checks them again.  An attempt below is one such HTTP call; its    *)
(* `call' is what the client sent, and clients send the same again when an *)
(* answer is lost.  The lines of one order form one offer: quantities and  *)
(* the unit prices the client agreed to.                                   *)
(***************************************************************************)
EXTENDS Naturals, Integers, FiniteSets, FiniteSetsExt

CONSTANTS
  Customers, Clerks,
  Baskets, OwnerOf,    \* cart rows and [Baskets -> Customers]
  NoBasket,
  Listings, Prices,
  Requests,            \* ids clients make up; the order's primary key
  Attempts,            \* bound: calls at a time
  NoCall, NoOrder,
  MaxStock,            \* bound: what a shop enters as stock
  MaxQuantity          \* bound: units of a listing in a basket or sale

ASSUME CheckoutAssumption ==
  /\ OwnerOf \in [Baskets -> Customers] /\ NoBasket \notin Baskets
  /\ Customers \cap Clerks = {}
  /\ Prices \subseteq Nat \ {0} /\ MaxStock \in Nat /\ MaxQuantity \in Nat
  /\ IsFiniteSet(Requests)

VARIABLES
  stock,      \* [Listings -> Nat], stockQuantity
  price,      \* [Listings -> Prices]
  goods,      \* history: units the shop has, promised ones included
  salesEnabled, \* the trial of the shop's counter runs (merchantPosTrialView)
  basket,     \* [Baskets -> [status, items]]
  order,      \* [Requests -> row or NoOrder]
  attempt     \* [Attempts -> [step, call, seen]]

shop == <<price, goods, salesEnabled>>
vars == <<stock, shop, basket, order, attempt>>

Empty == [l \in Listings |-> 0]
Quantities == [Listings -> 0..MaxQuantity]
Offer == [items : Quantities, prices : [Listings -> Prices \cup {0}]]
Call == [request : Requests, by : Customers \cup Clerks,
         basket : Baskets \cup {NoBasket}, offer : Offer]
Row == [call : Call, bought : Offer, live : BOOLEAN]

ASSUME AbsentAssumption == NoOrder \notin Row

Priced(items) ==
  [items |-> items, prices |-> [l \in Listings |-> IF items[l] = 0 THEN 0 ELSE price[l]]]
Blank == [items |-> Empty, prices |-> Empty]
Idle == [step |-> "idle", call |-> NoCall, seen |-> Blank]

Init ==
  /\ stock \in [Listings -> 0..MaxStock] /\ goods = stock
  /\ price \in [Listings -> Prices]
  /\ salesEnabled = TRUE
  /\ basket = [b \in Baskets |-> [status |-> "NONE", items |-> Empty]]
  /\ order = [r \in Requests |-> NoOrder]
  /\ attempt = [a \in Attempts |-> Idle]

-----------------------------------------------------------------------------
(* The shop's listings, the customers' baskets                             *)

InStock(items) == \A l \in Listings : items[l] <= stock[l]

\* MerchantProductsService.update
SetPrice(l, p) ==
  /\ price' = [price EXCEPT ![l] = p]
  /\ UNCHANGED <<stock, goods, salesEnabled, basket, order, attempt>>

SetStock(l, n) ==
  /\ stock' = [stock EXCEPT ![l] = n]
  /\ goods' = [goods EXCEPT ![l] = @ + n - stock[l]]
  /\ UNCHANGED <<price, salesEnabled, basket, order, attempt>>

\* The counter's trial month is over; nothing starts another.
EndTrial ==
  /\ salesEnabled
  /\ salesEnabled' = FALSE
  /\ UNCHANGED <<stock, price, goods, basket, order, attempt>>

\* addItem, updateItem, removeItem: on the owner's active basket, made if
\* there is none; more than there is in stock is refused.
SetItem(b, l, n) ==
  /\ \/ basket[b].status = "ACTIVE"
     \/ /\ basket[b].status = "NONE"
        /\ \A c \in Baskets : OwnerOf[c] = OwnerOf[b] => basket[c].status # "ACTIVE"
  /\ n <= stock[l] \/ n = 0
  /\ basket' = [basket EXCEPT ![b].status = "ACTIVE", ![b].items[l] = n]
  /\ UNCHANGED <<stock, shop, order, attempt>>

-----------------------------------------------------------------------------
(* What clients send                                                       *)

Enter(a, call) ==
  /\ attempt[a].step = "idle"
  /\ attempt' = [attempt EXCEPT ![a] = [step |-> "sent", call |-> call, seen |-> Blank]]
  /\ UNCHANGED <<stock, shop, basket, order>>

\* Wrong: a basket can be bought whatever became of it.
OpenAnyhow(b) == basket[b].items # Empty

Open(b) == basket[b].status = "ACTIVE" /\ basket[b].items # Empty

\* buildQuote
Quotable(b) == Open(b) /\ InStock(basket[b].items)
Quote(b) == Priced(basket[b].items)

\* quoteOrder, and the customer says yes.
Approve(a, b, r) ==
  /\ Quotable(b)
  /\ Enter(a, [request |-> r, by |-> OwnerOf[b], basket |-> b, offer |-> Quote(b)])

\* The clerk's screen shows the prices of the moment; they need not be sent
\* along (expectedUnitPricePaisa).
RingUp(a, k, r, items) ==
  /\ items # Empty
  /\ \E offer \in {Priced(items), [Priced(items) EXCEPT !.prices = Empty]} :
       Enter(a, [request |-> r, by |-> k, basket |-> NoBasket, offer |-> offer])

\* The same request once more: a second tap, or the answer was lost.
Resend(a, call) == call # NoCall /\ Enter(a, call)

-----------------------------------------------------------------------------
(* Looking for an order this request already produced                      *)

Customer(a) == attempt[a].call.by \in Customers
Step(a, s) == attempt' = [attempt EXCEPT ![a].step = s]

\* Wrong: the id alone identifies the request.
MineById(call) == order[call.request] # NoOrder

\* existingCheckout and replay: same owner, same content.
Mine(call) == order[call.request] # NoOrder /\ order[call.request].call = call

\* The look before everything else.
FindOrder(a) ==
  /\ attempt[a].step = "sent"
  /\ Step(a, IF order[attempt[a].call.request] = NoOrder THEN "new"
             ELSE IF Mine(attempt[a].call) THEN "placed" ELSE "refused")
  /\ UNCHANGED <<stock, shop, basket, order>>

\* The look after a failure.
Recover(a) ==
  /\ attempt[a].step = "failed"
  /\ Step(a, IF Mine(attempt[a].call) THEN "placed" ELSE "refused")
  /\ UNCHANGED <<stock, shop, basket, order>>

\* The row of call, as bought, and what it takes from the shelf.
Create(a, bought) ==
  LET call == attempt[a].call
  IN /\ order[call.request] = NoOrder
     /\ order' = [order EXCEPT ![call.request] =
                    [call |-> call, bought |-> bought, live |-> TRUE]]
     /\ stock' = [l \in Listings |-> stock[l] - bought.items[l]]
     /\ Step(a, "placed")
     /\ UNCHANGED shop

\* A refused guard, a lost race, exhausted retries: the transaction rolls back.
Fail(a) ==
  /\ attempt[a].step \in {"listingsRead", "offersRead"}
  /\ Step(a, "failed")
  /\ UNCHANGED <<stock, shop, basket, order>>

\* The answer reaches the client or is lost, or the process dies.
Forget(a) ==
  /\ attempt[a].step # "idle"
  /\ attempt' = [attempt EXCEPT ![a] = Idle]
  /\ UNCHANGED <<stock, shop, basket, order>>

-----------------------------------------------------------------------------
(* placeOrder                                                              *)

\* On to the next step, or an error for the client, which nothing recovers.
Check(a, ok, next) ==
  /\ Step(a, IF ok THEN next ELSE "refused")
  /\ UNCHANGED <<stock, shop, basket, order>>

\* The approved quote against the current one; it may also have expired.
CheckQuote(a) ==
  LET call == attempt[a].call
  IN /\ attempt[a].step = "new" /\ Customer(a)
     /\ \E expired \in BOOLEAN :
          Check(a, ~expired /\ Quotable(call.basket) /\ Quote(call.basket) = call.offer,
                "quoted")

\* What will be written is read outside the transaction: first the basket ...
ReadBasket(a) ==
  LET b == attempt[a].call.basket
  IN /\ attempt[a].step = "quoted"
     /\ IF Open(b)
        THEN attempt' = [attempt EXCEPT ![a].step = "basketRead",
                                        ![a].seen.items = basket[b].items]
        ELSE Step(a, "refused")
     /\ UNCHANGED <<stock, shop, basket, order>>

\* ... then its listings.
ReadListings(a) ==
  LET items == attempt[a].seen.items
  IN /\ attempt[a].step = "basketRead"
     /\ IF InStock(items)
        THEN attempt' = [attempt EXCEPT ![a].step = "listingsRead",
                                        ![a].seen = Priced(items)]
        ELSE Step(a, "refused")
     /\ UNCHANGED <<stock, shop, basket, order>>

\* Wrong: trusts the quote checked before the transaction, or what was read.
MayPlaceAsRead(call, seen) ==
  Open(call.basket) /\ InStock(seen.items) /\ seen = call.offer
MayPlaceAsQuoted(call, seen) ==
  Quotable(call.basket) /\ Quote(call.basket) = call.offer

\* The transaction: the quote still holds and what was read is what it says.
MayPlace(call, seen) ==
  /\ Quotable(call.basket) /\ Quote(call.basket) = call.offer
  /\ seen = call.offer

PlaceOrder(a) ==
  LET call == attempt[a].call
  IN /\ attempt[a].step = "listingsRead"
     /\ MayPlace(call, attempt[a].seen)
     /\ basket' = [basket EXCEPT ![call.basket].status = "CHECKED_OUT"]
     /\ Create(a, attempt[a].seen)

\* Wrong: a cancelled order can be cancelled again.
ReturnableTwice(r) == order[r] # NoOrder /\ order[r].call.by \in Customers

Returnable(r) == order[r] # NoOrder /\ order[r].live /\ order[r].call.by \in Customers

\* A cancellation before the goods left the shop (restoreStockInTransaction).
CancelOrder(r) ==
  /\ Returnable(r)
  /\ order' = [order EXCEPT ![r].live = FALSE]
  /\ stock' = [l \in Listings |-> stock[l] + order[r].bought.items[l]]
  /\ UNCHANGED <<shop, basket, attempt>>

-----------------------------------------------------------------------------
(* createSale                                                              *)

AllowSale(a) ==
  /\ attempt[a].step = "new" /\ ~Customer(a)
  /\ Check(a, salesEnabled, "allowed")

\* The prices sent along are the current ones.
AsExpected(offer) ==
  \A l \in Listings : offer.prices[l] \in {0, price[l]}

\* Wrong: a sale whose terms changed is refused there and then.
OnChangedTermsRefuse == "refused"

\* ... where the code looks for a receipt once more.
OnChangedTerms == "failed"

ReadOffers(a) ==
  LET offer == attempt[a].call.offer
  IN /\ attempt[a].step = "allowed"
     /\ IF InStock(offer.items) /\ AsExpected(offer)
        THEN attempt' = [attempt EXCEPT ![a].step = "offersRead",
                                        ![a].seen = Priced(offer.items)]
        ELSE Step(a, OnChangedTerms)
     /\ UNCHANGED <<stock, shop, basket, order>>

\* The conditional decrements: enough in stock, at the prices that were read.
MayRing(seen) == InStock(seen.items) /\ seen = Priced(seen.items)

CreateSale(a) ==
  /\ attempt[a].step = "offersRead"
  /\ MayRing(attempt[a].seen)
  /\ Create(a, attempt[a].seen)
  /\ UNCHANGED basket

-----------------------------------------------------------------------------
ShopNext ==
  \/ \E l \in Listings, p \in Prices : SetPrice(l, p)
  \/ \E l \in Listings, n \in 0..MaxStock : SetStock(l, n)
  \/ EndTrial
  \/ \E r \in Requests : CancelOrder(r)

ClientNext ==
  \/ \E b \in Baskets, l \in Listings, n \in 0..MaxQuantity : SetItem(b, l, n)
  \/ \E a \in Attempts :
       \/ \E r \in Requests :
            \/ \E b \in Baskets : Approve(a, b, r)
            \/ \E k \in Clerks, items \in Quantities : RingUp(a, k, r, items)
            \/ order[r] # NoOrder /\ Resend(a, order[r].call)
       \/ \E other \in Attempts : Resend(a, attempt[other].call)
       \/ Forget(a)

CallNext ==
  \E a \in Attempts :
    \/ FindOrder(a) \/ CheckQuote(a) \/ ReadBasket(a) \/ ReadListings(a) \/ PlaceOrder(a)
    \/ AllowSale(a) \/ ReadOffers(a) \/ CreateSale(a)
    \/ Fail(a) \/ Recover(a)

Next == ShopNext \/ ClientNext \/ CallNext

Spec == Init /\ [][Next]_vars

-----------------------------------------------------------------------------
(* Properties                                                              *)

Steps == {"idle", "sent", "new", "quoted", "basketRead", "listingsRead", "allowed",
          "offersRead", "failed", "placed", "refused"}

\* Every row keeps a value its column can hold; stock never turns negative,
\* whatever the counter and the customers take at the same time.
TypeOK ==
  /\ stock \in [Listings -> Nat] /\ goods \in [Listings -> Nat]
  /\ price \in [Listings -> Prices] /\ salesEnabled \in BOOLEAN
  /\ basket \in [Baskets -> [status : {"NONE", "ACTIVE", "CHECKED_OUT"}, items : Quantities]]
  /\ order \in [Requests -> Row \cup {NoOrder}]
  /\ attempt \in [Attempts -> [step : Steps, call : Call \cup {NoCall}, seen : Offer]]

Placed == {r \in Requests : order[r] # NoOrder}

\* Every unit the shop has is on sale or promised to one order, never both:
\* what is sold at the counter, ordered and cancelled adds up.
StockAddsUp ==
  \A l \in Listings :
    goods[l] = stock[l] + MapThenSumSet(LAMBDA r : order[r].bought.items[l],
                                        {r \in Placed : order[r].live})

\* A basket is bought once, however many tabs and retries ask for it, with
\* whatever request ids.
OneOrderPerBasket ==
  \A q, r \in Placed :
    order[q].call.basket = order[r].call.basket /\ q # r => order[q].call.basket = NoBasket

\* An order says what its customer approved, although the rows it was written
\* from were read outside the transaction and may have changed there and back.
ApprovedTerms ==
  \A r \in Placed :
    LET call == order[r].call
    IN /\ order[r].bought.items = call.offer.items
       /\ \A l \in Listings : call.offer.prices[l] \in {0, order[r].bought.prices[l]}

\* ... and at the moment it is made these are the shop's terms, too.
CurrentTerms ==
  [][\A r \in Requests : order'[r] # NoOrder /\ order[r] = NoOrder =>
       order'[r].bought = Priced(order'[r].bought.items)]_vars

\* The order this very call asked for exists.
Fulfilled(call) == \E r \in Placed : r = call.request /\ order[r].call = call

\* A client that is told of an order is told of the one it asked for, also when
\* ids are used twice or the counter used the same one.
AnswerIsOwn ==
  \A a \in Attempts : attempt[a].step = "placed" => Fulfilled(attempt[a].call)

Refused(a) == attempt[a].step # "refused" /\ attempt'[a].step = "refused"

\* A clerk told that a sale failed has no receipt for it (createSale's "do not
\* charge again"), as long as its trial did not end in between.
FailedSaleLeftNothing ==
  [][\A a \in Attempts : Refused(a) /\ ~Customer(a) /\ salesEnabled =>
       ~Fulfilled(attempt[a].call)]_vars

\* The same for a checkout, as the test of concurrent calls with one reference
\* has it: both calls answer with the order.
FailedCheckoutLeftNothing ==
  [][\A a \in Attempts : Refused(a) /\ Customer(a) => ~Fulfilled(attempt[a].call)]_vars
==============================================================================
