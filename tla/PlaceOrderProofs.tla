---------------------------- MODULE PlaceOrderProofs ----------------------------
(***************************************************************************)
(* What checkouts keep for any number of customers, clerks, baskets,       *)
(* listings, coupons and calls.  Of the goods: an order is what its        *)
(* customer approved, a basket is bought once, an answer is about the      *)
(* caller's own order, and every unit is on the shelf or promised to one   *)
(* order.  Of the coupons: each is used within its limits, because the     *)
(* transaction of placeOrder counts the uses again, and the limits it      *)
(* counts against were granted at that moment.                             *)
(***************************************************************************)
EXTENDS MCPlaceOrder, SumTheorems, TLAPS

\* A call some client really makes: customers send baskets, clerks send none,
\* and nothing is charged for what is not bought.
Sound(deal) ==
  /\ deal \in Call
  /\ deal.by \in Customers <=> deal.basket \in Baskets
  /\ \A l \in Listings : deal.offer.items[l] = 0 => deal.offer.prices[l] = 0

\* What is bought is what the call agreed to.
Agreed(deal, bought) ==
  /\ bought.items = deal.offer.items
  /\ \A l \in Listings : deal.offer.prices[l] \in {0, bought.prices[l]}

Slot == [step : Steps, call : Call \cup {NoCall}, seen : Offer]

\* What holds of a call on its way: which of the two handlers it is in, and that
\* a sale was read as it was rung up.
CallOK(w) ==
  /\ w \in Slot
  /\ w.step # "idle" \/ w.call # NoCall => Sound(w.call)
  /\ w.step \in {"quoted", "basketRead", "listingsRead"} => w.call.by \in Customers
  /\ w.step \in {"allowed", "offersRead"} => w.call.by \notin Customers
  /\ w.step = "offersRead" => Agreed(w.call, w.seen)

\* What holds of an order: it belongs to its request, says what was agreed, and
\* its basket is closed.
RowOK(r) ==
  /\ order[r].call.request = r
  /\ Sound(order[r].call)
  /\ Agreed(order[r].call, order[r].bought)
  /\ order[r].call.basket \in Baskets =>
       basket[order[r].call.basket].status = "CHECKED_OUT"

RowTypes ==
  /\ price \in [Listings -> Prices]
  /\ basket \in [Baskets -> [status : {"NONE", "ACTIVE", "CHECKED_OUT"}, items : Quantities]]
  /\ order \in [Requests -> Row \cup {NoOrder}]
  /\ attempt \in [Attempts -> Slot]

\* The invariant.  A basket is bought once because an order closes its basket and
\* nothing opens it again; ApprovedTerms needs the history of each call.
CheckoutInv ==
  /\ RowTypes
  /\ \A a \in Attempts : CallOK(attempt[a])
  /\ \A r \in Placed : RowOK(r)
  /\ OneOrderPerBasket
  /\ AnswerIsOwn

-----------------------------------------------------------------------------
(* Offers                                                                  *)

\* The current price list applied to some items.
LEMMA PricedFacts ==
  ASSUME price \in [Listings -> Prices], NEW items \in Quantities
  PROVE  /\ Priced(items) \in Offer
         /\ Priced(items).items = items
         /\ \A l \in Listings :
              Priced(items).prices[l] = IF items[l] = 0 THEN 0 ELSE price[l]
BY DEF Priced, Offer

\* Nothing at no price is an offer.
LEMMA BlankOffer == Empty \in Quantities /\ Blank \in Offer
<1>1. Empty \in Quantities
  BY CheckoutAssumption DEF Empty, Quantities
<1>2. QED
  BY <1>1 DEF Blank, Offer, Empty

-----------------------------------------------------------------------------
(* Steps of one kind                                                       *)

\* One call moves on; orders and baskets stay as they are.
LEMMA CallMoves ==
  ASSUME CheckoutInv, NEW a \in Attempts, NEW w, CallOK(w),
         w.step = "placed" => Fulfilled(w.call),
         attempt' = [attempt EXCEPT ![a] = w],
         UNCHANGED <<price, basket, order>>
  PROVE  CheckoutInv'
<1> USE DEF CheckoutInv
<1>1. RowTypes'
  BY DEF RowTypes, CallOK
<1>2. \A c \in Attempts : attempt'[c] = w \/ attempt'[c] = attempt[c]
  BY DEF RowTypes
<1>3. \A c \in Attempts : CallOK(attempt'[c])
  BY <1>2
<1>4. (\A r \in Placed : RowOK(r))' /\ OneOrderPerBasket'
  BY DEF Placed, RowOK, OneOrderPerBasket
<1>5. AnswerIsOwn'
  BY <1>2 DEF AnswerIsOwn, Fulfilled, Placed
<1>6. QED
  BY <1>1, <1>3, <1>4, <1>5

\* ... which it does at the same call, most of the time.
LEMMA StepMoves ==
  ASSUME CheckoutInv, NEW a \in Attempts, NEW s \in Steps,
         attempt[a].step # "idle",
         s \in {"quoted", "basketRead", "listingsRead"} => Customer(a),
         s \in {"allowed"} => ~Customer(a),
         s = "placed" => Fulfilled(attempt[a].call),
         s # "offersRead", Step(a, s), UNCHANGED <<price, basket, order>>
  PROVE  CheckoutInv'
<1> DEFINE w == [attempt[a] EXCEPT !.step = s]
<1>1. attempt[a] \in Slot /\ CallOK(attempt[a])
  BY DEF CheckoutInv, CallOK
<1>2. /\ w \in Slot /\ w.step = s
      /\ w.call = attempt[a].call /\ w.seen = attempt[a].seen
  BY <1>1 DEF Slot
<1>3. CallOK(w)
  BY <1>1, <1>2 DEF CallOK, Customer
<1>4. attempt' = [attempt EXCEPT ![a] = w]
  BY DEF Step, CheckoutInv, RowTypes
<1> HIDE DEF w
<1>5. QED
  BY <1>2, <1>3, <1>4, CallMoves

\* A client sends a call of its own.
LEMMA CallEnters ==
  ASSUME CheckoutInv, NEW a \in Attempts, NEW deal, Sound(deal), Enter(a, deal)
  PROVE  CheckoutInv'
<1> DEFINE w == [step |-> "sent", call |-> deal, seen |-> Blank]
<1>1. CallOK(w) /\ w.step # "placed"
  BY BlankOffer DEF CallOK, Slot, Sound, Steps
<1> HIDE DEF w
<1>2. QED
  BY <1>1, CallMoves DEF Enter, w, shop

\* Orders keep their calls, closed baskets stay closed, calls are left alone.
LEMMA ShopMoves ==
  ASSUME CheckoutInv, RowTypes', UNCHANGED attempt,
         Placed' = Placed,
         \A r \in Placed : /\ order'[r].call = order[r].call
                           /\ order'[r].bought = order[r].bought,
         \A b \in Baskets : basket[b].status = "CHECKED_OUT" =>
                              basket'[b].status = "CHECKED_OUT"
  PROVE  CheckoutInv'
<1>1. (\A a \in Attempts : CallOK(attempt[a]))'
  BY DEF CheckoutInv
<1>2. (\A r \in Placed : RowOK(r))'
  BY DEF CheckoutInv, RowOK
<1>3. OneOrderPerBasket'
  BY DEF CheckoutInv, OneOrderPerBasket
<1>4. AnswerIsOwn'
  BY DEF CheckoutInv, AnswerIsOwn, Fulfilled
<1>5. QED
  BY <1>1, <1>2, <1>3, <1>4 DEF CheckoutInv

\* A call makes its order, and closes the basket it came from.
LEMMA CallCreates ==
  ASSUME CheckoutInv, NEW a \in Attempts, NEW bought \in Offer,
         NEW deal, deal = attempt[a].call,
         attempt[a].step # "idle", Agreed(deal, bought), Create(a, bought),
         basket' \in [Baskets -> [status : {"NONE", "ACTIVE", "CHECKED_OUT"},
                                 items : Quantities]],
         \A b \in Baskets : basket[b].status = "CHECKED_OUT" =>
                              basket'[b].status = "CHECKED_OUT",
         deal.basket \in Baskets =>
           /\ basket[deal.basket].status # "CHECKED_OUT"
           /\ basket'[deal.basket].status = "CHECKED_OUT"
  PROVE  CheckoutInv'
<1> DEFINE row == [call |-> deal, bought |-> bought, live |-> TRUE]
<1>1. /\ CallOK(attempt[a]) /\ Sound(deal) /\ RowTypes
      /\ attempt[a] \in Slot
  BY DEF CheckoutInv, CallOK
<1>2. /\ deal \in Call /\ deal.request \in Requests
      /\ deal.basket \in Baskets \cup {NoBasket}
  BY <1>1 DEF Sound, Call
<1>3. row \in Row /\ row # NoOrder /\ row.call = deal /\ row.bought = bought
  <2>1. row \in Row
    BY <1>2 DEF Row
  <2>2. QED
    BY <2>1, AbsentAssumption
<1>4. order' = [order EXCEPT ![deal.request] = row] /\ order[deal.request] = NoOrder
  BY DEF Create
<1>5. /\ price' = price
      /\ attempt' = [attempt EXCEPT ![a].step = "placed"]
  BY DEF Create, Step, shop
<1> HIDE DEF row
<1>6. /\ order'[deal.request] = row
      /\ \A r \in Requests : r # deal.request => order'[r] = order[r]
      /\ order' \in [Requests -> Row \cup {NoOrder}]
  BY <1>1, <1>2, <1>3, <1>4 DEF RowTypes
<1>7. Placed' = Placed \cup {deal.request} /\ deal.request \notin Placed
  BY <1>2, <1>3, <1>4, <1>6 DEF Placed
<1>8. /\ attempt' \in [Attempts -> Slot]
      /\ attempt'[a] = [attempt[a] EXCEPT !.step = "placed"]
      /\ attempt'[a].step = "placed" /\ attempt'[a].call = deal
      /\ \A c \in Attempts : c # a => attempt'[c] = attempt[c]
  BY <1>1, <1>5 DEF RowTypes, Slot, Steps
<1>9. RowTypes'
  BY <1>1, <1>5, <1>6, <1>8 DEF RowTypes
<1>10. (\A c \in Attempts : CallOK(attempt[c]))'
  <2>1. attempt'[a] \in Slot
    BY <1>8
  <2>2. CallOK(attempt'[a])
    BY <1>1, <1>8, <2>1 DEF CallOK
  <2>3. \A c \in Attempts : CallOK(attempt'[c])
    BY <1>8, <2>2 DEF CheckoutInv
  <2>4. QED
    BY <2>3
<1>11. (\A r \in Placed : RowOK(r))'
  <2>1. RowOK(deal.request)'
    BY <1>1, <1>3, <1>6 DEF RowOK
  <2>2. ASSUME NEW r \in Placed PROVE RowOK(r)'
    BY <1>6, <1>7, <1>2 DEF CheckoutInv, RowOK, Placed
  <2>3. QED
    BY <1>7, <2>1, <2>2
<1>12. OneOrderPerBasket'
  <2>1. ASSUME NEW r \in Placed, order[r].call.basket = deal.basket
        PROVE  deal.basket = NoBasket
    BY <1>2, <2>1 DEF CheckoutInv, RowOK
  <2>2. \A r \in Placed : order'[r] = order[r]
    BY <1>6, <1>7 DEF Placed
  <2>3. QED
    BY <1>3, <1>6, <1>7, <2>1, <2>2 DEF CheckoutInv, OneOrderPerBasket
<1>13. AnswerIsOwn'
  <2>1. Fulfilled(deal)'
    BY <1>3, <1>6, <1>7 DEF Fulfilled
  <2>2. ASSUME NEW c \in Attempts, attempt'[c].step = "placed", c # a
        PROVE  \E r \in Placed' : r = attempt'[c].call.request /\ order'[r].call = attempt'[c].call
    <3>1. Fulfilled(attempt[c].call)
      BY <1>8, <2>2 DEF CheckoutInv, AnswerIsOwn
    <3>2. PICK r \in Placed : r = attempt[c].call.request /\ order[r].call = attempt[c].call
      BY <3>1 DEF Fulfilled
    <3>3. order'[r] = order[r] /\ r \in Placed' /\ attempt'[c] = attempt[c]
      BY <1>6, <1>7, <1>8, <2>2, <3>2 DEF Placed
    <3>4. QED
      BY <3>2, <3>3
  <2>3. \E r \in Placed' : r = attempt'[a].call.request /\ order'[r].call = attempt'[a].call
    BY <1>3, <1>6, <1>7, <1>8
  <2>4. QED
    BY <2>2, <2>3 DEF AnswerIsOwn, Fulfilled
<1>14. QED
  BY <1>9, <1>10, <1>11, <1>12, <1>13 DEF CheckoutInv

-----------------------------------------------------------------------------
(* The steps of Checkout                                                   *)

\* A call on its way is one some client made, by a customer with a basket or by
\* a clerk without.
LEMMA OnItsWay ==
  ASSUME CheckoutInv, NEW a \in Attempts, attempt[a].step # "idle"
  PROVE  /\ CallOK(attempt[a]) /\ Sound(attempt[a].call)
         /\ attempt[a] \in Slot /\ attempt[a].call \in Call
         /\ attempt[a].call.request \in Requests
         /\ attempt[a].call.offer \in Offer
         /\ attempt[a].seen \in Offer /\ attempt[a].seen.items \in Quantities
         /\ Customer(a) <=> attempt[a].call.basket \in Baskets
BY DEF CheckoutInv, CallOK, Sound, Slot, Call, Offer, Customer

\* What the shop, an admin or the calendar does.
LEMMA ShopStep == CheckoutInv /\ ShopNext => CheckoutInv'
<1> SUFFICES ASSUME CheckoutInv, ShopNext
             PROVE  CheckoutInv'
  OBVIOUS
<1> USE DEF CheckoutInv
<1>1. ASSUME NEW l \in Listings, NEW p \in Prices, SetPrice(l, p) PROVE CheckoutInv'
  BY <1>1, ShopMoves DEF SetPrice, RowTypes, Placed
<1>2. ASSUME NEW l \in Listings, NEW n \in 0..MaxStock, SetStock(l, n) PROVE CheckoutInv'
  BY <1>2, ShopMoves DEF SetStock, RowTypes, Placed
<1>3. CASE EndTrial
  BY <1>3, ShopMoves DEF EndTrial, RowTypes, Placed
<1>4. ASSUME NEW r \in Requests, CancelOrder(r) PROVE CheckoutInv'
  <2> DEFINE row == [order[r] EXCEPT !.live = FALSE]
  <2>1. order[r] \in Row /\ order[r] # NoOrder
    BY <1>4 DEF CancelOrder, Returnable, RowTypes
  <2>2. row \in Row /\ row.call = order[r].call /\ row.bought = order[r].bought
    BY <2>1 DEF Row
  <2>3. row # NoOrder
    BY <2>2, AbsentAssumption
  <2>4. order' = [order EXCEPT ![r] = row] /\ UNCHANGED <<price, basket, attempt>>
    BY <1>4 DEF CancelOrder, shop, RowTypes
  <2> HIDE DEF row
  <2>5. /\ order'[r] = row /\ \A q \in Requests : q # r => order'[q] = order[q]
        /\ order' \in [Requests -> Row \cup {NoOrder}]
    BY <2>2, <2>4 DEF RowTypes
  <2>6. Placed' = Placed
    BY <2>1, <2>3, <2>5 DEF Placed
  <2>7. RowTypes'
    BY <2>4, <2>5 DEF RowTypes
  <2>8. \A q \in Placed : order'[q].call = order[q].call /\ order'[q].bought = order[q].bought
    BY <2>2, <2>5 DEF Placed
  <2>9. QED
    BY <2>4, <2>6, <2>7, <2>8, ShopMoves
<1>5. QED
  BY <1>1, <1>2, <1>3, <1>4 DEF ShopNext

\* What customers and clerks do.
LEMMA ClientStep == CheckoutInv /\ ClientNext => CheckoutInv'
<1> SUFFICES ASSUME CheckoutInv, ClientNext
             PROVE  CheckoutInv'
  OBVIOUS
<1>1. RowTypes
  BY DEF CheckoutInv
<1>2. ASSUME NEW b \in Baskets, NEW l \in Listings, NEW n \in 0..MaxQuantity, SetItem(b, l, n)
      PROVE  CheckoutInv'
  <2>1. basket' \in [Baskets -> [status : {"NONE", "ACTIVE", "CHECKED_OUT"}, items : Quantities]]
    BY <1>1, <1>2 DEF SetItem, RowTypes, Quantities
  <2>2. \A c \in Baskets : basket[c].status = "CHECKED_OUT" => basket'[c].status = "CHECKED_OUT"
    BY <1>1, <1>2 DEF SetItem, RowTypes
  <2>3. RowTypes' /\ Placed' = Placed /\ UNCHANGED <<order, attempt>>
    BY <1>1, <1>2, <2>1 DEF SetItem, shop, RowTypes, Placed
  <2>4. QED
    BY <2>2, <2>3, ShopMoves
<1>3. ASSUME NEW a \in Attempts, NEW r \in Requests, NEW b \in Baskets, Approve(a, b, r)
      PROVE  CheckoutInv'
  <2> DEFINE deal == [request |-> r, by |-> OwnerOf[b], basket |-> b, offer |-> Quote(b)]
  <2>1. basket[b].items \in Quantities
    BY <1>1 DEF RowTypes
  <2>2. /\ Quote(b) \in Offer
        /\ \A l \in Listings : Quote(b).items[l] = 0 => Quote(b).prices[l] = 0
    BY <1>1, <2>1, PricedFacts DEF Quote, RowTypes
  <2>3. OwnerOf[b] \in Customers
    BY CheckoutAssumption
  <2>4. Sound(deal)
    BY <2>2, <2>3 DEF Sound, Call
  <2> HIDE DEF deal
  <2>5. QED
    BY <1>3, <2>4, CallEnters DEF Approve, deal
<1>4. ASSUME NEW a \in Attempts, NEW r \in Requests, NEW k \in Clerks,
             NEW items \in Quantities, RingUp(a, k, r, items)
      PROVE  CheckoutInv'
  <2>1. PICK offer \in {Priced(items), [Priced(items) EXCEPT !.prices = Empty]} :
          Enter(a, [request |-> r, by |-> k, basket |-> NoBasket, offer |-> offer])
    BY <1>4 DEF RingUp
  <2>2. /\ Priced(items) \in Offer
        /\ \A l \in Listings : Priced(items).items[l] = 0 => Priced(items).prices[l] = 0
    BY <1>1, PricedFacts DEF RowTypes
  <2>3. /\ offer \in Offer
        /\ \A l \in Listings : offer.items[l] = 0 => offer.prices[l] = 0
    BY <2>1, <2>2 DEF Offer, Empty
  <2>4. k \notin Customers /\ NoBasket \notin Baskets
    BY CheckoutAssumption
  <2> DEFINE deal == [request |-> r, by |-> k, basket |-> NoBasket, offer |-> offer]
  <2>5. Sound(deal)
    BY <2>3, <2>4 DEF Sound, Call
  <2> HIDE DEF deal
  <2>6. QED
    BY <2>1, <2>5, CallEnters DEF deal
<1>5. ASSUME NEW a \in Attempts, NEW r \in Requests, order[r] # NoOrder, Resend(a, order[r].call)
      PROVE  CheckoutInv'
  BY <1>5, CallEnters DEF Resend, CheckoutInv, RowOK, Placed
<1>6. ASSUME NEW a \in Attempts, NEW other \in Attempts, Resend(a, attempt[other].call)
      PROVE  CheckoutInv'
  BY <1>6, CallEnters DEF Resend, CheckoutInv, CallOK
<1>7. ASSUME NEW a \in Attempts, Forget(a)
      PROVE  CheckoutInv'
  <2>1. CallOK(Idle) /\ Idle.step # "placed"
    BY BlankOffer DEF CallOK, Idle, Slot, Steps
  <2>2. QED
    BY <1>7, <2>1, CallMoves DEF Forget, shop
<1>8. QED
  BY <1>2, <1>3, <1>4, <1>5, <1>6, <1>7 DEF ClientNext

\* What the handlers do that commits nothing.
LEMMA ReadingStep ==
  ASSUME CheckoutInv, NEW a \in Attempts,
         \/ FindOrder(a) \/ CheckQuote(a) \/ ReadBasket(a) \/ ReadListings(a)
         \/ AllowSale(a) \/ ReadOffers(a) \/ Fail(a) \/ Recover(a)
  PROVE  CheckoutInv'
<1>1. RowTypes
  BY DEF CheckoutInv
<1>2. attempt[a].step # "idle"
  BY DEF FindOrder, CheckQuote, ReadBasket, ReadListings, AllowSale, ReadOffers, Fail, Recover
<1>3. /\ CallOK(attempt[a]) /\ Sound(attempt[a].call)
      /\ attempt[a] \in Slot /\ attempt[a].call \in Call
      /\ attempt[a].call.request \in Requests
      /\ attempt[a].call.offer \in Offer
      /\ attempt[a].seen \in Offer /\ attempt[a].seen.items \in Quantities
      /\ Customer(a) <=> attempt[a].call.basket \in Baskets
  BY <1>2, OnItsWay
<1>4. Mine(attempt[a].call) => Fulfilled(attempt[a].call)
  BY <1>3 DEF Mine, Fulfilled, Placed
<1>5. CASE FindOrder(a)
  BY <1>2, <1>4, <1>5, StepMoves DEF FindOrder, Steps, shop
<1>6. CASE CheckQuote(a)
  BY <1>2, <1>6, StepMoves DEF CheckQuote, Check, Steps, shop
<1>7. CASE ReadBasket(a)
  <2>1. CASE Open(attempt[a].call.basket)
    <3> DEFINE seen == [attempt[a].seen EXCEPT !.items = basket[attempt[a].call.basket].items]
               w == [attempt[a] EXCEPT !.step = "basketRead", !.seen = seen]
    <3>1. Customer(a) /\ basket[attempt[a].call.basket].items \in Quantities
      BY <1>1, <1>3, <1>7 DEF ReadBasket, CallOK, Customer, RowTypes
    <3>2. seen \in Offer
      BY <1>3, <3>1 DEF Offer
    <3> HIDE DEF seen
    <3>3. w \in Slot /\ w.step = "basketRead" /\ w.call = attempt[a].call
      BY <1>3, <3>2 DEF Slot, Steps
    <3>4. CallOK(w)
      BY <1>3, <3>1, <3>3 DEF CallOK, Customer
    <3>5. attempt' = [attempt EXCEPT ![a] = w]
      BY <1>1, <1>3, <1>7, <2>1 DEF ReadBasket, RowTypes, Slot, seen
    <3> HIDE DEF w
    <3>6. QED
      BY <1>7, <3>3, <3>4, <3>5, CallMoves DEF ReadBasket, shop
  <2>2. CASE ~Open(attempt[a].call.basket)
    BY <1>2, <1>7, <2>2, StepMoves DEF ReadBasket, Steps, shop
  <2>3. QED
    BY <2>1, <2>2
<1>8. CASE ReadListings(a)
  <2>1. CASE InStock(attempt[a].seen.items)
    <3> DEFINE w == [attempt[a] EXCEPT !.step = "listingsRead",
                                       !.seen = Priced(attempt[a].seen.items)]
    <3>1. Priced(attempt[a].seen.items) \in Offer
      BY <1>1, <1>3, PricedFacts DEF RowTypes
    <3>2. w \in Slot /\ w.step = "listingsRead" /\ w.call = attempt[a].call
      BY <1>3, <3>1 DEF Slot, Steps
    <3>3. CallOK(w)
      BY <1>3, <1>8, <3>2 DEF CallOK, ReadListings
    <3>4. attempt' = [attempt EXCEPT ![a] = w]
      BY <1>1, <1>3, <1>8, <2>1 DEF ReadListings, RowTypes, Slot
    <3> HIDE DEF w
    <3>5. QED
      BY <1>8, <3>2, <3>3, <3>4, CallMoves DEF ReadListings, shop
  <2>2. CASE ~InStock(attempt[a].seen.items)
    BY <1>2, <1>8, <2>2, StepMoves DEF ReadListings, Steps, shop
  <2>3. QED
    BY <2>1, <2>2
<1>9. CASE AllowSale(a)
  BY <1>2, <1>9, StepMoves DEF AllowSale, Check, Steps, shop
<1>10. CASE ReadOffers(a)
  <2> DEFINE offer == attempt[a].call.offer
             w == [attempt[a] EXCEPT !.step = "offersRead", !.seen = Priced(offer.items)]
  <2>1. CASE InStock(offer.items) /\ AsExpected(offer)
    <3>1. /\ Priced(offer.items) \in Offer
          /\ Priced(offer.items).items = offer.items
          /\ \A l \in Listings :
               Priced(offer.items).prices[l] = IF offer.items[l] = 0 THEN 0 ELSE price[l]
      <4>1. offer.items \in Quantities
        BY <1>3 DEF Offer
      <4>2. QED
        BY <1>1, <4>1, PricedFacts DEF RowTypes
    <3>2. Agreed(attempt[a].call, Priced(offer.items))
      BY <1>3, <2>1, <3>1 DEF Agreed, AsExpected, Sound
    <3>3. /\ w \in Slot /\ w.step = "offersRead" /\ w.call = attempt[a].call
          /\ w.seen = Priced(offer.items)
      BY <1>3, <3>1 DEF Slot, Steps
    <3>4. CallOK(w)
      BY <1>3, <1>10, <3>2, <3>3 DEF CallOK, ReadOffers
    <3>5. attempt' = [attempt EXCEPT ![a] = w]
      BY <1>1, <1>3, <1>10, <2>1 DEF ReadOffers, RowTypes, Slot
    <3> HIDE DEF w
    <3>6. QED
      BY <1>10, <3>3, <3>4, <3>5, CallMoves DEF ReadOffers, shop
  <2>2. CASE ~(InStock(offer.items) /\ AsExpected(offer))
    BY <1>2, <1>10, <2>2, StepMoves DEF ReadOffers, OnChangedTerms, Steps, shop
  <2>3. QED
    BY <2>1, <2>2
<1>11. CASE Fail(a)
  BY <1>2, <1>11, StepMoves DEF Fail, Steps, shop
<1>12. CASE Recover(a)
  BY <1>2, <1>4, <1>12, StepMoves DEF Recover, Steps, shop
<1>13. QED
  BY <1>5, <1>6, <1>7, <1>8, <1>9, <1>10, <1>11, <1>12

\* The transaction of a checkout.
LEMMA PlacingStep ==
  ASSUME CheckoutInv, NEW a \in Attempts, PlaceOrder(a)
  PROVE  CheckoutInv'
<1>1. PICK deal : deal = attempt[a].call
  OBVIOUS
<1>2. attempt[a].step = "listingsRead" /\ RowTypes
  BY DEF PlaceOrder, CheckoutInv
<1>3. /\ CallOK(attempt[a]) /\ attempt[a].seen \in Offer /\ deal.basket \in Baskets
  BY <1>1, <1>2, OnItsWay DEF CallOK, Customer
<1>4. /\ basket[deal.basket].status = "ACTIVE"
      /\ attempt[a].seen = deal.offer
      /\ basket' = [basket EXCEPT ![deal.basket].status = "CHECKED_OUT"]
      /\ Create(a, attempt[a].seen)
  BY <1>1 DEF PlaceOrder, MayPlace, Quotable, Open
<1>5. Agreed(deal, attempt[a].seen)
  BY <1>4 DEF Agreed
<1>6. /\ basket' \in [Baskets -> [status : {"NONE", "ACTIVE", "CHECKED_OUT"}, items : Quantities]]
      /\ basket'[deal.basket].status = "CHECKED_OUT"
      /\ \A b \in Baskets : basket[b].status = "CHECKED_OUT" => basket'[b].status = "CHECKED_OUT"
  BY <1>2, <1>3, <1>4 DEF RowTypes
<1>7. QED
  BY <1>1, <1>2, <1>3, <1>4, <1>5, <1>6, CallCreates

\* The transaction of a sale.
LEMMA RingingStep ==
  ASSUME CheckoutInv, NEW a \in Attempts, CreateSale(a)
  PROVE  CheckoutInv'
<1>1. PICK deal : deal = attempt[a].call
  OBVIOUS
<1>2. attempt[a].step = "offersRead" /\ RowTypes
  BY DEF CreateSale, CheckoutInv
<1>3. /\ CallOK(attempt[a]) /\ attempt[a].seen \in Offer /\ deal.basket \notin Baskets
  BY <1>1, <1>2, OnItsWay DEF CallOK, Customer
<1>4. Agreed(deal, attempt[a].seen)
  BY <1>1, <1>2, <1>3 DEF CallOK
<1>5. Create(a, attempt[a].seen) /\ basket' = basket
  BY DEF CreateSale
<1>6. QED
  BY <1>1, <1>2, <1>3, <1>4, <1>5, CallCreates DEF RowTypes

-----------------------------------------------------------------------------
(* The theorems                                                            *)

\* At first there are no orders and no calls.
LEMMA CheckoutStart == Init => CheckoutInv
<1> SUFFICES ASSUME Init
             PROVE  CheckoutInv
  OBVIOUS
<1>1. Placed = {}
  BY DEF Init, Placed
<1>2. CallOK(Idle) /\ Idle \in Slot /\ Idle.step = "idle"
  BY BlankOffer DEF CallOK, Idle, Slot, Steps
<1>3. RowTypes
  BY <1>2, BlankOffer DEF Init, RowTypes
<1>4. \A a \in Attempts : attempt[a] = Idle
  BY DEF Init
<1>5. QED
  BY <1>1, <1>2, <1>3, <1>4 DEF CheckoutInv, OneOrderPerBasket, AnswerIsOwn

\* No step of anyone breaks what the calls and the orders have in common.
LEMMA CheckoutStep == CheckoutInv /\ [Next]_vars => CheckoutInv'
<1> SUFFICES ASSUME CheckoutInv, [Next]_vars
             PROVE  CheckoutInv'
  OBVIOUS
<1>1. CASE CallNext
  BY <1>1, ReadingStep, PlacingStep, RingingStep DEF CallNext
<1>2. CASE UNCHANGED vars
  BY <1>2, ShopMoves DEF vars, shop, CheckoutInv, RowTypes, Placed
<1>3. QED
  BY <1>1, <1>2, ShopStep, ClientStep DEF Next

\* The invariant behind the theorems below: what each call has seen, and that an
\* order closes its basket for good.
THEOREM CheckoutInvariant == Spec => []CheckoutInv
BY CheckoutStart, CheckoutStep, PTL DEF Spec

\* A basket is bought once, whatever tabs, retries and references ask for it.
THEOREM OneOrderPerBasketHolds == Spec => []OneOrderPerBasket
BY CheckoutInvariant, PTL DEF CheckoutInv

\* An order or sale says what its client agreed to, whatever changed in between.
THEOREM ApprovedTermsHolds == Spec => []ApprovedTerms
<1>1. CheckoutInv => ApprovedTerms
  BY DEF CheckoutInv, RowOK, Agreed, ApprovedTerms
<1>2. QED
  BY <1>1, CheckoutInvariant, PTL

\* An answer that names an order names the caller's own.
THEOREM AnswerIsOwnHolds == Spec => []AnswerIsOwn
BY CheckoutInvariant, PTL DEF CheckoutInv

-----------------------------------------------------------------------------
(* What a step may never do                                                *)

\* After the step of one call, every other call is where it was.
LEMMA OneCallSteps ==
  ASSUME CheckoutInv, NEW a \in Attempts, NEW b \in Attempts, NEW s, Step(b, s)
  PROVE  attempt'[a].step = IF a = b THEN s ELSE attempt[a].step
BY DEF CheckoutInv, RowTypes, Slot, Step

\* The call of an order that exists finds it.
LEMMA FulfilledIsMine ==
  ASSUME NEW deal, Fulfilled(deal)
  PROVE  order[deal.request] # NoOrder /\ Mine(deal)
BY DEF Fulfilled, Mine, Placed

\* Only a call's own look for its receipt refuses it, apart from the checks of a
\* checkout and the end of the trial.
LEMMA RefusedSale ==
  ASSUME CheckoutInv, CallNext, NEW a \in Attempts, Refused(a), ~Customer(a), salesEnabled
  PROVE  ~Fulfilled(attempt[a].call)
<1> SUFFICES ASSUME Fulfilled(attempt[a].call)
             PROVE  FALSE
  OBVIOUS
<1>1. Mine(attempt[a].call) /\ order[attempt[a].call.request] # NoOrder
  BY FulfilledIsMine
<1>2. attempt[a].step # "refused" /\ attempt'[a].step = "refused"
  BY DEF Refused
<1>3. PICK b \in Attempts :
        \/ FindOrder(b) \/ CheckQuote(b) \/ ReadBasket(b) \/ ReadListings(b) \/ PlaceOrder(b)
        \/ AllowSale(b) \/ ReadOffers(b) \/ CreateSale(b)
        \/ Fail(b) \/ Recover(b)
  BY DEF CallNext
<1>4. attempt[b].step # "idle"
  BY <1>3 DEF FindOrder, CheckQuote, ReadBasket, ReadListings, PlaceOrder, AllowSale,
              ReadOffers, CreateSale, Fail, Recover
<1>5. /\ attempt[b].step \in {"quoted", "basketRead", "listingsRead"} => Customer(b)
      /\ attempt[b] \in Slot /\ attempt \in [Attempts -> Slot]
  BY <1>4, OnItsWay DEF CallOK, Customer, CheckoutInv, RowTypes
<1>6. CASE FindOrder(b)
  BY <1>1, <1>2, <1>6, OneCallSteps DEF FindOrder
<1>7. CASE CheckQuote(b)
  BY <1>2, <1>7, OneCallSteps DEF CheckQuote, Check
<1>8. CASE ReadBasket(b)
  <2>1. b # a
    BY <1>5, <1>8 DEF ReadBasket
  <2>2. attempt'[a] = attempt[a]
    BY <1>5, <1>8, <2>1 DEF ReadBasket, Step
  <2>3. QED
    BY <1>2, <2>2
<1>9. CASE ReadListings(b)
  <2>1. b # a
    BY <1>5, <1>9 DEF ReadListings
  <2>2. attempt'[a] = attempt[a]
    BY <1>5, <1>9, <2>1 DEF ReadListings, Step
  <2>3. QED
    BY <1>2, <2>2
<1>10. CASE PlaceOrder(b) \/ CreateSale(b)
  BY <1>2, <1>10, OneCallSteps DEF PlaceOrder, CreateSale, Create
<1>11. CASE AllowSale(b)
  BY <1>2, <1>11, OneCallSteps DEF AllowSale, Check
<1>12. CASE ReadOffers(b)
  BY <1>2, <1>5, <1>12 DEF ReadOffers, OnChangedTerms, Step, Slot
<1>13. CASE Fail(b)
  BY <1>2, <1>13, OneCallSteps DEF Fail
<1>14. CASE Recover(b)
  BY <1>1, <1>2, <1>14, OneCallSteps DEF Recover
<1>15. QED
  BY <1>3, <1>6, <1>7, <1>8, <1>9, <1>10, <1>11, <1>12, <1>13, <1>14

SaleStep == \A a \in Attempts : Refused(a) /\ ~Customer(a) /\ salesEnabled =>
                                   ~Fulfilled(attempt[a].call)

\* A clerk told that a sale failed has no receipt for it, unless its trial ended.
THEOREM FailedSaleLeftNothingHolds == Spec => FailedSaleLeftNothing
<1>1. CheckoutInv /\ [Next]_vars => [SaleStep]_vars
  <2> SUFFICES ASSUME CheckoutInv, [Next]_vars, NEW a \in Attempts, Refused(a),
                      ~Customer(a), salesEnabled
               PROVE  ~Fulfilled(attempt[a].call)
    BY DEF SaleStep
  <2>1. attempt \in [Attempts -> Slot]
    BY DEF CheckoutInv, RowTypes
  <2>2. attempt'[a].step = "refused" /\ attempt'[a] # attempt[a]
    BY DEF Refused
  <2>3. ASSUME NEW b \in Attempts, NEW deal, Enter(b, deal) PROVE FALSE
    BY <2>1, <2>2, <2>3 DEF Enter
  <2>4. CASE ShopNext
    BY <2>2, <2>4 DEF ShopNext, SetPrice, SetStock, EndTrial, CancelOrder
  <2>5. CASE ClientNext
    <3>1. CASE \E b \in Baskets, l \in Listings, n \in 0..MaxQuantity : SetItem(b, l, n)
      BY <2>2, <3>1 DEF SetItem
    <3>2. ASSUME NEW b \in Attempts, Forget(b) PROVE FALSE
      BY <2>1, <2>2, <3>2 DEF Forget, Idle
    <3>3. QED
      BY <2>3, <2>5, <3>1, <3>2 DEF ClientNext, Approve, RingUp, Resend
  <2>6. CASE UNCHANGED vars
    BY <2>2, <2>6 DEF vars
  <2>7. QED
    BY <2>4, <2>5, <2>6, RefusedSale DEF Next
<1>2. QED
  BY <1>1, CheckoutInvariant, PTL DEF Spec, FailedSaleLeftNothing, SaleStep

TermsStep == \A r \in Requests : order'[r] # NoOrder /\ order[r] = NoOrder =>
                                    order'[r].bought = Priced(order'[r].bought.items)

\* What a call creates is its own row and nothing else.
LEMMA OneRowCreated ==
  ASSUME CheckoutInv, NEW a \in Attempts, NEW bought, Create(a, bought),
         NEW r \in Requests, order'[r] # order[r]
  PROVE  order'[r].bought = bought
BY DEF Create, CheckoutInv, RowTypes

\* An order is made on the terms of that very moment, although what is written
\* was read before the transaction.
THEOREM CurrentTermsHolds == Spec => CurrentTerms
<1>1. CheckoutInv /\ [Next]_vars => [TermsStep]_vars
  <2> SUFFICES ASSUME CheckoutInv, [Next]_vars, NEW r \in Requests,
                      order'[r] # NoOrder, order[r] = NoOrder
               PROVE  order'[r].bought = Priced(order'[r].bought.items)
    BY DEF TermsStep
  <2>1. CASE ShopNext
    <3>1. ASSUME NEW q \in Requests, CancelOrder(q) PROVE FALSE
      BY <3>1 DEF CancelOrder, Returnable, CheckoutInv, RowTypes
    <3>2. QED
      BY <2>1, <3>1 DEF ShopNext, SetPrice, SetStock, EndTrial
  <2>2. CASE ClientNext
    BY <2>2 DEF ClientNext, SetItem, Approve, RingUp, Resend, Enter, Forget
  <2>3. ASSUME NEW a \in Attempts, PlaceOrder(a)
        PROVE  order'[r].bought = Priced(order'[r].bought.items)
    <3>1. attempt[a].step # "idle"
      BY <2>3 DEF PlaceOrder
    <3>2. /\ Customer(a) /\ attempt[a].call.basket \in Baskets
          /\ basket[attempt[a].call.basket].items \in Quantities
          /\ price \in [Listings -> Prices]
      BY <2>3, <3>1, OnItsWay DEF PlaceOrder, CallOK, Customer, CheckoutInv, RowTypes
    <3>3. attempt[a].seen = Priced(basket[attempt[a].call.basket].items)
      BY <2>3 DEF PlaceOrder, MayPlace, Quote
    <3>4. attempt[a].seen.items = basket[attempt[a].call.basket].items
      BY <3>2, <3>3, PricedFacts
    <3>5. order'[r].bought = attempt[a].seen
      BY <2>3, OneRowCreated DEF PlaceOrder
    <3>6. QED
      BY <3>3, <3>4, <3>5
  <2>4. ASSUME NEW a \in Attempts, CreateSale(a)
        PROVE  order'[r].bought = Priced(order'[r].bought.items)
    BY <2>4, OneRowCreated DEF CreateSale, MayRing
  <2>5. CASE CallNext
    BY <2>3, <2>4, <2>5 DEF CallNext, FindOrder, CheckQuote, Check, ReadBasket, ReadListings,
                            AllowSale, ReadOffers, Fail, Recover
  <2>6. CASE UNCHANGED vars
    BY <2>6 DEF vars
  <2>7. QED
    BY <2>1, <2>2, <2>5, <2>6 DEF Next
<1>2. QED
  BY <1>1, CheckoutInvariant, PTL DEF Spec, CurrentTerms, TermsStep

-----------------------------------------------------------------------------
(* What is on the shelf and what is promised                               *)

\* What the order of a request holds of a listing.
Promised(l) ==
  [r \in Requests |->
     IF order[r] # NoOrder /\ order[r].live THEN order[r].bought.items[l] ELSE 0]

AddsUp(l) == goods[l] = stock[l] + Sigma(Promised(l), Requests)

\* The invariant of the shelf.  It needs that of the calls: what a transaction
\* takes off the shelf was seen to be there.
StockInv ==
  /\ CheckoutInv
  /\ stock \in [Listings -> Nat] /\ goods \in [Listings -> Nat]
  /\ \A l \in Listings : AddsUp(l)

\* An order holds no fewer than no units.
LEMMA PromisedNat ==
  ASSUME RowTypes, NEW l \in Listings
  PROVE  /\ \A r \in Requests : Promised(l)[r] \in Nat
         /\ Sigma(Promised(l), Requests) \in Nat
<1>1. \A r \in Requests : Promised(l)[r] \in Nat
  BY CheckoutAssumption DEF Promised, RowTypes, Row, Offer, Quantities
<1>2. QED
  BY <1>1, CheckoutAssumption, SigmaNat

\* The sum over the orders that stand is the sum over all requests.
LEMMA SumOfOrders ==
  ASSUME RowTypes, NEW l \in Listings
  PROVE  MapThenSumSet(LAMBDA r : order[r].bought.items[l], {r \in Placed : order[r].live})
           = Sigma(Promised(l), Requests)
<1> DEFINE L == {r \in Placed : order[r].live}
           B == [r \in L |-> order[r].bought.items[l]]
           Way(h) == h = [s \in SUBSET L |->
                       IF s = {} THEN 0
                       ELSE order[CHOOSE x \in s : TRUE].bought.items[l]
                              + h[s \ {CHOOSE x \in s : TRUE}]]
           way == CHOOSE h : Way(h)
<1>1. L \in SUBSET Requests /\ IsFiniteSet(L) /\ IsFiniteSet(Requests \ L)
      /\ IsFiniteSet(Requests)
  BY CheckoutAssumption, FS_Subset, FS_Difference DEF Placed
<1>2. MapThenSumSet(LAMBDA r : order[r].bought.items[l], L) = way[L]
  BY Zenon DEF MapThenSumSet, MapThenFoldSet
<1>3. PICK h : Adds(h, B, L) /\ Sigma(B, L) = h[L]
  BY <1>1, SigmaAdds
<1>4. \A s \in SUBSET L : s # {} =>
        B[Pick(s)] = order[CHOOSE x \in s : TRUE].bought.items[l]
  <2>1. \A s \in SUBSET L : s # {} => Pick(s) \in L
    BY Picked
  <2>2. QED
    BY <2>1 DEF Pick
<1> HIDE DEF L
<1>5. \A k : Adds(k, B, L) <=> Way(k)
  <2> HIDE DEF B
  <2>1. QED
    BY <1>4 DEF Adds, Pick
<1> HIDE DEF B, Way
<1>6. Adds(way, B, L)
  <2>1. \E k : Way(k)
    BY <1>3, <1>5
  <2>2. Way(way)
    BY <2>1, Zenon
  <2>3. QED
    BY <1>5, <2>2, Zenon
<1> HIDE DEF way
<1>7. way[L] = Sigma(B, L)
  BY <1>1, <1>3, <1>6, AddsOnce
<1>8. Sigma(B, L) = Sigma(Promised(l), L)
  <2>1. \A r \in L : B[r] = Promised(l)[r]
    BY DEF B, L, Placed, Promised
  <2>2. QED
    BY <1>1, <2>1, SigmaSame
<1>9. Sigma(Promised(l), Requests \ L) = 0
  <2>1. \A r \in Requests \ L : Promised(l)[r] = 0
    BY DEF L, Placed, Promised
  <2>2. QED
    BY <1>1, <2>1, SigmaZero
<1>10. Sigma(Promised(l), Requests)
         = Sigma(Promised(l), L) + Sigma(Promised(l), Requests \ L)
  <2>1. \A r \in Requests : Promised(l)[r] \in Int
    BY PromisedNat
  <2>2. QED
    BY <1>1, <2>1, SigmaParts
<1>11. Sigma(Promised(l), L) \in Nat
  BY <1>1, PromisedNat, SigmaNat
<1>12. QED
  BY <1>2, <1>7, <1>8, <1>9, <1>10, <1>11 DEF L

\* One order changes what it holds, and the shelf with it.
LEMMA ShelfMoves ==
  ASSUME StockInv, CheckoutInv', NEW r \in Requests, NEW n \in [Listings -> Int],
         \A q \in Requests \ {r} : order'[q] = order[q],
         \A l \in Listings : Promised(l)'[r] = Promised(l)[r] + n[l],
         stock' = [l \in Listings |-> stock[l] - n[l]],
         \A l \in Listings : n[l] <= stock[l],
         goods' = goods
  PROVE  StockInv'
<1>1. ASSUME NEW l \in Listings PROVE AddsUp(l)' /\ stock'[l] \in Nat
  <2> DEFINE f == Promised(l)
             g == Promised(l)'
  <2>1. \A q \in Requests \ {r} : f[q] = g[q]
    BY DEF Promised
  <2>2. /\ \A q \in Requests : f[q] \in Nat /\ g[q] \in Nat
        /\ Sigma(f, Requests) \in Nat
    <3>1. \A q \in Requests : f[q] \in Nat
      BY PromisedNat DEF StockInv, CheckoutInv
    <3>2. Sigma(f, Requests) \in Nat
      BY PromisedNat DEF StockInv, CheckoutInv
    <3>3. (\A q \in Requests : Promised(l)[q] \in Nat)'
      BY CheckoutAssumption DEF Promised, CheckoutInv, RowTypes, Row, Offer, Quantities
    <3>4. QED
      BY <3>1, <3>2, <3>3
  <2>3. g[r] = f[r] + n[l]
    OBVIOUS
  <2>4. goods[l] = stock[l] + Sigma(f, Requests) /\ stock[l] \in Nat
    BY DEF StockInv, AddsUp
  <2>5. stock'[l] = stock[l] - n[l] /\ goods'[l] = goods[l] /\ n[l] \in Int /\ n[l] <= stock[l]
    OBVIOUS
  <2>6. AddsUp(l)' <=> goods'[l] = stock'[l] + Sigma(g, Requests)
    BY DEF AddsUp
  <2> HIDE DEF f, g
  <2>7. Sigma(g, Requests) = Sigma(f, Requests) + g[r] - f[r]
    BY <2>1, <2>2, CheckoutAssumption, SigmaChange
  <2>8. f[r] \in Nat
    BY <2>2
  <2>9. goods'[l] = stock'[l] + Sigma(g, Requests)
    BY <2>2, <2>3, <2>4, <2>5, <2>7, <2>8
  <2>10. QED
    BY <2>4, <2>5, <2>6, <2>9
<1>2. stock' \in [Listings -> Nat]
  BY <1>1
<1>3. goods' \in [Listings -> Nat]
  BY DEF StockInv
<1>4. QED
  BY <1>1, <1>2, <1>3 DEF StockInv

\* A call takes what it bought.
LEMMA ShelfCreates ==
  ASSUME StockInv, CheckoutInv', NEW a \in Attempts, NEW bought \in Offer,
         attempt[a].step # "idle", InStock(bought.items), Create(a, bought)
  PROVE  StockInv'
<1> DEFINE r == attempt[a].call.request
<1>1. r \in Requests /\ RowTypes
  BY OnItsWay DEF StockInv, CheckoutInv
<1>2. bought.items \in [Listings -> Int] /\ \A l \in Listings : bought.items[l] <= stock[l]
  BY CheckoutAssumption DEF InStock, Offer, Quantities
<1>3. /\ order[r] = NoOrder
      /\ order'[r] # NoOrder /\ order'[r].live /\ order'[r].bought = bought
      /\ \A q \in Requests \ {r} : order'[q] = order[q]
      /\ stock' = [l \in Listings |-> stock[l] - bought.items[l]] /\ goods' = goods
  <2> DEFINE row == [call |-> attempt[a].call, bought |-> bought, live |-> TRUE]
  <2>1. attempt[a].call \in Call
    BY OnItsWay DEF StockInv
  <2>2. row \in Row /\ row.live = TRUE /\ row.bought = bought
    BY <2>1 DEF Row
  <2> HIDE DEF row
  <2>3. order' = [order EXCEPT ![r] = row]
    BY DEF Create, row
  <2>4. order'[r] = row /\ row # NoOrder
    BY <1>1, <2>2, <2>3, AbsentAssumption DEF RowTypes
  <2>5. QED
    BY <1>1, <2>2, <2>3, <2>4 DEF Create, shop, RowTypes
<1> HIDE DEF r
<1>4. \A l \in Listings : Promised(l)'[r] = Promised(l)[r] + bought.items[l]
  BY <1>1, <1>2, <1>3 DEF Promised
<1>5. QED
  BY <1>1, <1>2, <1>3, <1>4, ShelfMoves

\* Nothing is sold, entered or given back.
LEMMA ShelfStays ==
  ASSUME StockInv, CheckoutInv', UNCHANGED <<stock, goods, order>>
  PROVE  StockInv'
BY DEF StockInv, AddsUp, Promised

\* No step makes goods or loses them.
LEMMA ShelfStep == StockInv /\ [Next]_vars => StockInv'
<1> SUFFICES ASSUME StockInv, [Next]_vars, CheckoutInv' PROVE StockInv'
  BY CheckoutStep DEF StockInv
<1>1. RowTypes /\ CheckoutInv
  BY DEF StockInv, CheckoutInv
<1>2. ASSUME NEW l \in Listings, NEW n \in 0..MaxStock, SetStock(l, n) PROVE StockInv'
  <2>1. n \in Nat
    BY CheckoutAssumption
  <2>2. /\ stock \in [Listings -> Nat] /\ goods \in [Listings -> Nat]
        /\ stock' = [stock EXCEPT ![l] = n]
        /\ goods' = [goods EXCEPT ![l] = goods[l] + n - stock[l]]
        /\ order' = order
    BY <1>2 DEF SetStock, StockInv
  <2>3. ASSUME NEW k \in Listings
        PROVE  AddsUp(k)' /\ stock'[k] \in Nat /\ goods'[k] \in Nat
    <3> DEFINE sum == Sigma(Promised(k), Requests)
    <3>1. sum \in Nat
      BY <1>1, PromisedNat
    <3>2. AddsUp(k)' <=> goods'[k] = stock'[k] + sum
      BY <2>2 DEF AddsUp, Promised
    <3>3. goods[k] = stock[k] + sum
      BY DEF StockInv, AddsUp
    <3> HIDE DEF sum
    <3>4. CASE k = l
      <4>1. goods'[k] = goods[k] + n - stock[k] /\ stock'[k] = n
        BY <2>2, <3>4
      <4>2. goods[k] \in Nat /\ stock[k] \in Nat
        BY <2>2
      <4>3. goods'[k] = n + sum
        BY <2>1, <3>1, <3>3, <4>1, <4>2
      <4>4. QED
        BY <2>1, <3>1, <3>2, <4>1, <4>3
    <3>5. CASE k # l
      BY <2>2, <3>2, <3>3, <3>5
    <3>6. QED
      BY <3>4, <3>5
  <2>4. stock' \in [Listings -> Nat] /\ goods' \in [Listings -> Nat]
    BY <2>2, <2>3
  <2>5. QED
    BY <2>3, <2>4 DEF StockInv
<1>3. ASSUME NEW r \in Requests, CancelOrder(r) PROVE StockInv'
  <2>1. /\ order[r] \in Row /\ order[r] # NoOrder /\ order[r].live
        /\ order' = [order EXCEPT ![r].live = FALSE]
        /\ stock' = [l \in Listings |-> stock[l] + order[r].bought.items[l]]
        /\ goods' = goods
    BY <1>1, <1>3 DEF CancelOrder, Returnable, RowTypes, shop
  <2>2. order'[r].live = FALSE /\ \A q \in Requests \ {r} : order'[q] = order[q]
    BY <1>1, <2>1 DEF RowTypes, Row
  <2> DEFINE n == [l \in Listings |-> 0 - order[r].bought.items[l]]
  <2>3. \A l \in Listings : order[r].bought.items[l] \in Nat /\ stock[l] \in Nat
    BY <2>1, CheckoutAssumption DEF Row, Offer, Quantities, StockInv
  <2>4. \A l \in Listings : n[l] \in Int /\ n[l] <= stock[l]
    BY <2>3
  <2>5. \A l \in Listings : Promised(l)'[r] = Promised(l)[r] + n[l]
    BY <2>1, <2>2, <2>3 DEF Promised
  <2>6. stock' = [l \in Listings |-> stock[l] - n[l]]
    <3>1. \A l \in Listings : stock[l] + order[r].bought.items[l] = stock[l] - n[l]
      BY <2>3
    <3>2. QED
      BY <2>1, <3>1
  <2>7. n \in [Listings -> Int]
    BY <2>4
  <2> HIDE DEF n
  <2>8. QED
    BY <2>1, <2>2, <2>4, <2>5, <2>6, <2>7, ShelfMoves
<1>4. ASSUME NEW a \in Attempts, PlaceOrder(a) PROVE StockInv'
  <2>1. attempt[a].step # "idle"
    BY <1>4 DEF PlaceOrder
  <2>2. /\ attempt[a].seen \in Offer /\ attempt[a].call.basket \in Baskets
        /\ basket[attempt[a].call.basket].items \in Quantities
    BY <1>1, <1>4, <2>1, OnItsWay DEF PlaceOrder, CallOK, Customer, RowTypes
  <2>3. /\ InStock(basket[attempt[a].call.basket].items)
        /\ attempt[a].seen = Priced(basket[attempt[a].call.basket].items)
        /\ Create(a, attempt[a].seen)
    BY <1>4 DEF PlaceOrder, MayPlace, Quotable, Quote
  <2>4. attempt[a].seen.items = basket[attempt[a].call.basket].items
    BY <1>1, <2>2, <2>3, PricedFacts DEF RowTypes
  <2>5. QED
    BY <2>1, <2>2, <2>3, <2>4, ShelfCreates
<1>5. ASSUME NEW a \in Attempts, CreateSale(a) PROVE StockInv'
  <2>1. attempt[a].step # "idle" /\ InStock(attempt[a].seen.items) /\ Create(a, attempt[a].seen)
    BY <1>5 DEF CreateSale, MayRing
  <2>2. attempt[a].seen \in Offer
    BY <1>1, <2>1, OnItsWay
  <2>3. QED
    BY <2>1, <2>2, ShelfCreates
<1>6. CASE UNCHANGED <<stock, goods, order>>
  BY <1>6, ShelfStays
<1>7. CASE ShopNext
  BY <1>2, <1>3, <1>6, <1>7 DEF ShopNext, SetPrice, EndTrial
<1>8. CASE ClientNext
  BY <1>6, <1>8 DEF ClientNext, SetItem, Approve, RingUp, Resend, Enter, Forget, shop
<1>9. CASE CallNext
  BY <1>4, <1>5, <1>6, <1>9 DEF CallNext, FindOrder, CheckQuote, Check, ReadBasket, ReadListings,
                            AllowSale, ReadOffers, Fail, Recover, shop
<1>10. CASE UNCHANGED vars
  BY <1>6, <1>10 DEF vars, shop
<1>11. QED
  BY <1>7, <1>8, <1>9, <1>10 DEF Next

\* The invariant of the shelf holds throughout.
THEOREM StockInvariant == Spec => []StockInv
<1>1. Init => StockInv
  <2> SUFFICES ASSUME Init PROVE StockInv
    OBVIOUS
  <2>1. CheckoutInv
    BY CheckoutStart
  <2>2. stock \in [Listings -> Nat] /\ goods = stock
    BY CheckoutAssumption DEF Init
  <2>3. ASSUME NEW l \in Listings PROVE AddsUp(l)
    <3>1. \A r \in Requests : Promised(l)[r] = 0
      BY DEF Init, Promised
    <3>2. Sigma(Promised(l), Requests) = 0
      BY <3>1, CheckoutAssumption, SigmaZero
    <3>3. QED
      BY <2>2, <3>2 DEF AddsUp
  <2>4. QED
    BY <2>1, <2>2, <2>3 DEF StockInv
<1>2. QED
  BY <1>1, ShelfStep, PTL DEF Spec

\* Every unit the shop has is on sale or promised to one order, never both.
THEOREM StockAddsUpHolds == Spec => []StockAddsUp
<1>1. StockInv => StockAddsUp
  BY SumOfOrders DEF StockInv, CheckoutInv, AddsUp, StockAddsUp
<1>2. QED
  BY <1>1, StockInvariant, PTL

\* The trial runs or is over.
LEMMA TrialStep == salesEnabled \in BOOLEAN /\ [Next]_vars => (salesEnabled \in BOOLEAN)'
<1> SUFFICES ASSUME salesEnabled \in BOOLEAN, [Next]_vars
             PROVE  salesEnabled' = salesEnabled \/ salesEnabled' = FALSE
  OBVIOUS
<1>1. CASE ShopNext
  BY <1>1 DEF ShopNext, SetPrice, SetStock, EndTrial, CancelOrder, shop
<1>2. CASE ClientNext
  BY <1>2 DEF ClientNext, SetItem, Approve, RingUp, Resend, Enter, Forget, shop
<1>3. CASE CallNext
  BY <1>3 DEF CallNext, FindOrder, CheckQuote, Check, ReadBasket, ReadListings, PlaceOrder,
              AllowSale, ReadOffers, CreateSale, Create, Fail, Recover, shop
<1>4. CASE UNCHANGED vars
  BY <1>4 DEF vars, shop
<1>5. QED
  BY <1>1, <1>2, <1>3, <1>4 DEF Next

\* Every row keeps a value its column can hold.  Stock never turns negative,
\* whatever the counter and the customers take at the same time.
THEOREM TypesHold == Spec => []TypeOK
<1>1. Init => salesEnabled \in BOOLEAN
  BY DEF Init
<1>2. Spec => [](salesEnabled \in BOOLEAN)
  BY <1>1, TrialStep, PTL DEF Spec
<1>3. StockInv /\ salesEnabled \in BOOLEAN => TypeOK
  BY DEF StockInv, CheckoutInv, RowTypes, Slot, TypeOK
<1>4. QED
  BY <1>2, <1>3, StockInvariant, PTL

-----------------------------------------------------------------------------
(* Coupons                                                                 *)
\* Somebody's checkout.
Owned == \A n \in Attempts : call[n].step # "idle" => call[n].by \in Buyers

\* What stands was granted.
Granted ==
  \A k \in Codes : coupon[k].total <= granted[k].total /\ coupon[k].each <= granted[k].each

CouponInv == Coupon!TypeOK /\ Owned /\ Granted /\ IsFiniteSet(orders) /\ Coupon!CouponsWithinLimits

-----------------------------------------------------------------------------
\* Numbers of uses are numbers of elements.
LEMMA CouponCounts == \A S : Coupon!Cardinality(S) = Cardinality(S)
BY DEF Coupon!Cardinality, Cardinality

LEMMA UsesFinite ==
  ASSUME IsFiniteSet(orders)
  PROVE  /\ \A k : IsFiniteSet(Coupon!Uses(k)) /\ Coupon!Cardinality(Coupon!Uses(k)) \in Nat
         /\ \A c, k : IsFiniteSet(Coupon!UsesBy(c, k))
                     /\ Coupon!Cardinality(Coupon!UsesBy(c, k)) \in Nat
<1>1. \A k : Coupon!Uses(k) \subseteq orders  BY DEF Coupon!Uses
<1>2. \A c, k : Coupon!UsesBy(c, k) \subseteq orders  BY DEF Coupon!Uses, Coupon!UsesBy
<1> QED  BY <1>1, <1>2, FS_Subset, FS_CardinalityType, CouponCounts

\* A step that leaves the orders alone uses nothing up.
LEMMA UsesKept ==
  ASSUME UNCHANGED orders
  PROVE  /\ \A k : Coupon!Uses(k)' = Coupon!Uses(k)
         /\ \A c, k : Coupon!UsesBy(c, k)' = Coupon!UsesBy(c, k)
BY DEF Coupon!Uses, Coupon!UsesBy

LEMMA IdleTyped == Coupon!Idle \in Coupon!CallState /\ Coupon!NoTerms \in Coupon!TermsOf
BY CouponTermsAssumption
   DEF Coupon!CouponsAssumption, Coupon!Idle, Coupon!CallState, Coupon!NoTerms, Coupon!TermsOf

LEMMA CouponsInit == Coupon!Init => CouponInv
<1> SUFFICES ASSUME Coupon!Init PROVE CouponInv  OBVIOUS
<1>1. Coupon!TypeOK
  <2>1. \A k \in Codes : Coupon!Limits(coupon[k]) \in [total : Nat, each : Nat]
    BY CouponTermsAssumption DEF Coupon!Init, Coupon!Limits, Coupon!CouponsAssumption
  <2>2. granted \in [Codes -> [total : Nat, each : Nat]]  BY <2>1 DEF Coupon!Init
  <2> QED
    BY CouponTermsAssumption, <2>2, IdleTyped
       DEF Coupon!Init, Coupon!TypeOK, Coupon!CouponsAssumption
<1>2. Owned  BY DEF Coupon!Init, Owned, Coupon!Idle
<1>3. Granted
  BY CouponTermsAssumption DEF Coupon!Init, Granted, Coupon!Limits, Coupon!CouponsAssumption
<1>4. IsFiniteSet(orders)  BY FS_EmptySet, CouponCounts DEF Coupon!Init
<1>5. Coupon!CouponsWithinLimits
  <2>1. /\ \A k : Coupon!Uses(k) = {}
        /\ \A c, k : Coupon!UsesBy(c, k) = {}
    BY DEF Coupon!Init, Coupon!Uses, Coupon!UsesBy
  <2>2. \A k \in Codes : 0 <= granted[k].total /\ 0 <= granted[k].each
    BY <1>1 DEF Coupon!TypeOK
  <2> QED  BY <2>1, <2>2, FS_EmptySet, CouponCounts DEF Coupon!Init, Coupon!CouponsWithinLimits
<1> QED  BY <1>1, <1>2, <1>3, <1>4, <1>5 DEF CouponInv

\* Limits only rise in what was granted.
LEMMA EditKeeps ==
  ASSUME CouponInv, NEW k \in Codes, NEW row \in Terms, Coupon!Edit(k, row)
  PROVE  CouponInv'
<1>1. row.total \in Nat /\ row.each \in Nat  BY CouponTermsAssumption DEF Coupon!CouponsAssumption
<1>2. /\ granted[k].total \in Nat /\ granted[k].each \in Nat
      /\ granted' = [granted EXCEPT ![k] = [total |-> Coupon!Higher(granted[k].total, row.total),
                                            each  |-> Coupon!Higher(granted[k].each, row.each)]]
  BY DEF Coupon!Edit, CouponInv, Coupon!TypeOK
<1>3. /\ Coupon!Higher(granted[k].total, row.total) \in Nat
      /\ Coupon!Higher(granted[k].each, row.each) \in Nat
      /\ Coupon!Higher(granted[k].total, row.total) >= row.total
      /\ Coupon!Higher(granted[k].each, row.each) >= row.each
      /\ Coupon!Higher(granted[k].total, row.total) >= granted[k].total
      /\ Coupon!Higher(granted[k].each, row.each) >= granted[k].each
  BY <1>1, <1>2 DEF Coupon!Higher
<1>4. Coupon!TypeOK'  BY <1>2, <1>3 DEF Coupon!Edit, CouponInv, Coupon!TypeOK
<1>5. Granted'
  <2> SUFFICES ASSUME NEW j \in Codes
               PROVE  coupon'[j].total <= granted'[j].total /\ coupon'[j].each <= granted'[j].each
    BY DEF Granted
  <2>1. CASE j = k  BY <1>2, <1>3, <2>1 DEF Coupon!Edit, CouponInv, Coupon!TypeOK
  <2>2. CASE j # k  BY <1>2, <2>2 DEF Coupon!Edit, CouponInv, Coupon!TypeOK, Granted
  <2> QED  BY <2>1, <2>2
<1>6. Coupon!CouponsWithinLimits'
  <2>1. \A j \in Codes : granted'[j].total >= granted[j].total
                         /\ granted'[j].each >= granted[j].each
    BY <1>2, <1>3 DEF CouponInv, Coupon!TypeOK
  <2>2. \A j \in Codes : /\ granted[j].total \in Nat /\ granted'[j].total \in Nat
                         /\ granted[j].each \in Nat /\ granted'[j].each \in Nat
    BY <1>4 DEF CouponInv, Coupon!TypeOK
  <2>3. UNCHANGED orders  BY DEF Coupon!Edit
  <2> QED  BY <2>1, <2>2, <2>3, UsesKept, UsesFinite DEF CouponInv, Coupon!CouponsWithinLimits
<1> QED  BY <1>4, <1>5, <1>6 DEF Coupon!Edit, CouponInv, Owned

\* Baskets and calls: nothing is used up.
LEMMA OthersKeep ==
  ASSUME CouponInv, Coupon!TypeOK', Owned',
         UNCHANGED <<coupon, granted, orders>>
  PROVE  CouponInv'
BY UsesKept DEF CouponInv, Granted, Coupon!CouponsWithinLimits

LEMMA CodeTyped ==
  ASSUME CouponInv, NEW c \in Buyers, NEW given \in Codes \cup {None}
  PROVE  Coupon!CodeOf(c, given) \in Codes \cup {None}
BY DEF CouponInv, Coupon!TypeOK, Coupon!CodeOf

LEMMA TermsTyped ==
  ASSUME CouponInv, NEW k \in Codes \cup {None}
  PROVE  Coupon!Terms(k) \in Coupon!TermsOf /\ Coupon!Terms(k).code = k
BY CouponTermsAssumption
   DEF Coupon!CouponsAssumption, CouponInv, Coupon!TypeOK, Coupon!Terms, Coupon!NoTerms,
       Coupon!TermsOf

\* The one step that uses a coupon up.
LEMMA PlaceKeeps ==
  ASSUME CouponInv, NEW n \in Attempts, Coupon!PlaceOrder(n)
  PROVE  CouponInv'
<1> DEFINE c == call[n].by
           k == Coupon!CodeOf(c, call[n].given)
           new == [by |-> c, number |-> call[n].number,
                   terms |-> call[n].seen, approved |-> call[n].approved]
<1>1. c \in Buyers /\ call[n].given \in Codes \cup {None}
  BY DEF Coupon!PlaceOrder, CouponInv, Owned, Coupon!TypeOK, Coupon!CallState
<1>2. /\ cart[c].number = call[n].number /\ Coupon!Quotable(c, k)
      /\ Coupon!Terms(k) = call[n].approved /\ call[n].seen = call[n].approved
      /\ orders' = orders \cup {new}
      /\ cart' = [cart EXCEPT ![c] = [number |-> @.number + 1, code |-> None]]
      /\ call' = [call EXCEPT ![n] = Coupon!Idle]
      /\ UNCHANGED <<coupon, granted>>
  BY DEF Coupon!PlaceOrder, Coupon!MayPlace, Coupon!Holds
<1>3. k \in Codes \cup {None} /\ new.terms.code = k /\ new.by = c
  BY <1>1, <1>2, CodeTyped, TermsTyped
<1>4. Coupon!TypeOK'
  <2>1. call[n].number \in 1..MaxBaskets
    BY CouponTermsAssumption, <1>1, <1>2
       DEF Coupon!CouponsAssumption, CouponInv, Coupon!TypeOK, Coupon!CallState
  <2>2. new \in [by : Buyers, number : 1..MaxBaskets, terms : Coupon!TermsOf,
                  approved : Coupon!TermsOf]
    BY <1>1, <2>1 DEF CouponInv, Coupon!TypeOK, Coupon!CallState
  <2>3. cart' \in [Buyers -> [number : 1..(MaxBaskets + 1), code : Codes \cup {None}]]
    BY CouponTermsAssumption, <1>1, <1>2, <2>1
       DEF Coupon!CouponsAssumption, CouponInv, Coupon!TypeOK
  <2> HIDE DEF new
  <2> QED  BY <1>2, <2>2, <2>3, IdleTyped DEF CouponInv, Coupon!TypeOK
<1>5. Owned'  BY <1>2 DEF CouponInv, Owned, Coupon!TypeOK, Coupon!Idle
<1>6. IsFiniteSet(orders)'  BY <1>2, FS_AddElement, CouponCounts DEF CouponInv
<1>7. Coupon!CouponsWithinLimits'
  <2>1. ASSUME NEW j \in Codes PROVE Coupon!Cardinality(Coupon!Uses(j)') <= granted[j].total
    <3>1. CASE j = k
      <4>1. Coupon!Uses(j)' = Coupon!Uses(j) \cup {new}  BY <1>2, <1>3, <3>1 DEF Coupon!Uses
      <4>2. IsFiniteSet(Coupon!Uses(j)) /\ Coupon!Cardinality(Coupon!Uses(j)) \in Nat
        BY UsesFinite DEF CouponInv
      <4>3. /\ Coupon!Cardinality(Coupon!Uses(j)') \in Nat
            /\ Coupon!Cardinality(Coupon!Uses(j)') <= Coupon!Cardinality(Coupon!Uses(j)) + 1
        <5> HIDE DEF new
        <5>1. Coupon!Cardinality(Coupon!Uses(j)')
                = IF new \in Coupon!Uses(j) THEN Coupon!Cardinality(Coupon!Uses(j))
                  ELSE Coupon!Cardinality(Coupon!Uses(j)) + 1
          BY <4>1, <4>2, FS_AddElement, CouponCounts
        <5> QED  BY <4>2, <5>1
      <4>4. Coupon!Cardinality(Coupon!Uses(j)) < coupon[j].total
        BY CouponTermsAssumption, <1>2, <3>1
           DEF Coupon!Quotable, Coupon!Valid, Coupon!Offered, Coupon!CouponsAssumption
      <4>5. coupon[j].total \in Nat /\ granted[j].total \in Nat
        BY CouponTermsAssumption DEF CouponInv, Coupon!TypeOK, Coupon!CouponsAssumption
      <4> QED  BY <4>2, <4>3, <4>4, <4>5 DEF CouponInv, Granted
    <3>2. CASE j # k
      <4>1. Coupon!Uses(j)' = Coupon!Uses(j)  BY <1>2, <1>3, <3>2 DEF Coupon!Uses
      <4> QED  BY <4>1 DEF CouponInv, Coupon!CouponsWithinLimits
    <3> QED  BY <3>1, <3>2
  <2>2. ASSUME NEW j \in Codes, NEW d \in Buyers
        PROVE  Coupon!Cardinality(Coupon!UsesBy(d, j)') <= granted[j].each
    <3>1. CASE j = k /\ d = c
      <4>1. Coupon!UsesBy(d, j)' = Coupon!UsesBy(d, j) \cup {new}
        BY <1>2, <1>3, <3>1 DEF Coupon!Uses, Coupon!UsesBy
      <4>2. IsFiniteSet(Coupon!UsesBy(d, j)) /\ Coupon!Cardinality(Coupon!UsesBy(d, j)) \in Nat
        BY UsesFinite DEF CouponInv
      <4>3. /\ Coupon!Cardinality(Coupon!UsesBy(d, j)') \in Nat
            /\ Coupon!Cardinality(Coupon!UsesBy(d, j)')
                 <= Coupon!Cardinality(Coupon!UsesBy(d, j)) + 1
        <5> HIDE DEF new
        <5>1. Coupon!Cardinality(Coupon!UsesBy(d, j)')
                = IF new \in Coupon!UsesBy(d, j) THEN Coupon!Cardinality(Coupon!UsesBy(d, j))
                  ELSE Coupon!Cardinality(Coupon!UsesBy(d, j)) + 1
          BY <4>1, <4>2, FS_AddElement, CouponCounts
        <5> QED  BY <4>2, <5>1
      <4>4. Coupon!Cardinality(Coupon!UsesBy(d, j)) < coupon[j].each
        BY CouponTermsAssumption, <1>2, <3>1
           DEF Coupon!Quotable, Coupon!Valid, Coupon!CouponsAssumption
      <4>5. coupon[j].each \in Nat /\ granted[j].each \in Nat
        BY CouponTermsAssumption DEF CouponInv, Coupon!TypeOK, Coupon!CouponsAssumption
      <4> QED  BY <4>2, <4>3, <4>4, <4>5 DEF CouponInv, Granted
    <3>2. CASE ~(j = k /\ d = c)
      <4>1. Coupon!UsesBy(d, j)' = Coupon!UsesBy(d, j)
        BY <1>2, <1>3, <3>2 DEF Coupon!Uses, Coupon!UsesBy
      <4> QED  BY <4>1 DEF CouponInv, Coupon!CouponsWithinLimits
    <3> QED  BY <3>1, <3>2
  <2>3. \A o \in orders' : o.terms = o.approved
    BY <1>2 DEF CouponInv, Coupon!CouponsWithinLimits
  <2> QED  BY <1>2, <2>1, <2>2, <2>3 DEF Coupon!CouponsWithinLimits
<1> QED  BY <1>2, <1>4, <1>5, <1>6, <1>7 DEF CouponInv, Granted

-----------------------------------------------------------------------------
LEMMA CouponsStep == CouponInv /\ [Coupon!Next]_Coupon!vars => CouponInv'
<1> SUFFICES ASSUME CouponInv, [Coupon!Next]_Coupon!vars PROVE CouponInv'  OBVIOUS
<1>1. CASE UNCHANGED Coupon!vars
  BY <1>1, OthersKeep DEF Coupon!vars, CouponInv, Coupon!TypeOK, Owned
<1>2. ASSUME NEW c \in Buyers, NEW k \in Codes \cup {None}, Coupon!SetCode(c, k) PROVE CouponInv'
  <2>1. Coupon!TypeOK' /\ Owned'  BY <1>2 DEF Coupon!SetCode, CouponInv, Coupon!TypeOK, Owned
  <2> QED  BY <1>2, <2>1, OthersKeep DEF Coupon!SetCode
<1>3. ASSUME NEW n \in Attempts, NEW c \in Buyers, NEW given \in Codes \cup {None},
             Coupon!Approve(n, c, given)
      PROVE  CouponInv'
  <2>1. cart[c].number \in 0..MaxBaskets
    BY CouponTermsAssumption, <1>3
       DEF Coupon!Approve, Coupon!CouponsAssumption, CouponInv, Coupon!TypeOK
  <2>2. Coupon!Terms(Coupon!CodeOf(c, given)) \in Coupon!TermsOf
        /\ Coupon!NoTerms \in Coupon!TermsOf
    BY CodeTyped, TermsTyped DEF Coupon!NoTerms, Coupon!TermsOf
  <2>3. Coupon!TypeOK' /\ Owned'
    BY <1>3, <2>1, <2>2
       DEF Coupon!Approve, Coupon!Idle, Coupon!Rest, CouponInv, Coupon!TypeOK, Coupon!CallState,
           Owned
  <2> QED  BY <1>3, <2>3, OthersKeep DEF Coupon!Approve, Coupon!Rest
<1>4. ASSUME NEW n \in Attempts, Coupon!CheckQuote(n) PROVE CouponInv'
  <2>1. Coupon!TypeOK' /\ Owned'
    BY <1>4
       DEF Coupon!CheckQuote, Coupon!Step, Coupon!Rest, CouponInv, Coupon!TypeOK,
           Coupon!CallState, Owned
  <2> QED  BY <1>4, <2>1, OthersKeep DEF Coupon!CheckQuote, Coupon!Rest
<1>5. ASSUME NEW n \in Attempts, Coupon!ReadCart(n) PROVE CouponInv'
  <2>1. Coupon!CodeOf(call[n].by, call[n].given) \in Codes \cup {None}
    BY <1>5, CodeTyped DEF Coupon!ReadCart, CouponInv, Coupon!TypeOK, Coupon!CallState, Owned
  <2>2. [call[n].seen EXCEPT !.code = Coupon!CodeOf(call[n].by, call[n].given)] \in Coupon!TermsOf
    BY <2>1 DEF CouponInv, Coupon!TypeOK, Coupon!CallState, Coupon!TermsOf
  <2>3. call' = [call EXCEPT ![n] = [call[n] EXCEPT !.step = "cartRead",
                       !.seen = [@ EXCEPT !.code = Coupon!CodeOf(call[n].by, call[n].given)]]]
    BY <1>5 DEF Coupon!ReadCart, CouponInv, Coupon!TypeOK
  <2>4. call' \in [Attempts -> Coupon!CallState]
    BY <2>2, <2>3 DEF CouponInv, Coupon!TypeOK, Coupon!CallState
  <2>5. Coupon!TypeOK'  BY <1>5, <2>4 DEF Coupon!ReadCart, Coupon!Rest, CouponInv, Coupon!TypeOK
  <2>6. Owned'  BY <1>5, <2>3 DEF Coupon!ReadCart, CouponInv, Coupon!TypeOK, Owned
  <2> QED  BY <1>5, <2>5, <2>6, OthersKeep DEF Coupon!ReadCart, Coupon!Rest
<1>6. ASSUME NEW n \in Attempts, Coupon!ReadCoupon(n) PROVE CouponInv'
  <2>1. Coupon!Terms(call[n].seen.code) \in Coupon!TermsOf
    BY TermsTyped DEF CouponInv, Coupon!TypeOK, Coupon!CallState, Coupon!TermsOf
  <2>2. call' = [call EXCEPT ![n] = [call[n] EXCEPT !.step = "couponRead",
                                                    !.seen = Coupon!Terms(call[n].seen.code)]]
    BY <1>6 DEF Coupon!ReadCoupon, CouponInv, Coupon!TypeOK
  <2>3. call' \in [Attempts -> Coupon!CallState]
    BY <2>1, <2>2 DEF CouponInv, Coupon!TypeOK, Coupon!CallState
  <2>4. Coupon!TypeOK'  BY <1>6, <2>3 DEF Coupon!ReadCoupon, Coupon!Rest, CouponInv, Coupon!TypeOK
  <2>5. Owned'  BY <1>6, <2>2 DEF Coupon!ReadCoupon, CouponInv, Coupon!TypeOK, Owned
  <2> QED  BY <1>6, <2>4, <2>5, OthersKeep DEF Coupon!ReadCoupon, Coupon!Rest
<1>7. ASSUME NEW n \in Attempts, Coupon!Fail(n) PROVE CouponInv'
  <2>1. Coupon!TypeOK' /\ Owned'
    BY <1>7, IdleTyped DEF Coupon!Fail, Coupon!Idle, Coupon!Rest, CouponInv, Coupon!TypeOK, Owned
  <2> QED  BY <1>7, <2>1, OthersKeep DEF Coupon!Fail, Coupon!Rest
<1> QED
  BY <1>1, <1>2, <1>3, <1>4, <1>5, <1>6, <1>7, EditKeeps, PlaceKeeps
     DEF Coupon!Next, Coupon!ApplyCoupon, Coupon!RemoveCoupon, Coupon!BringCode

\* What is about goods leaves the coupons alone.
LEMMA MCCouponStep == CouponInv /\ [MCNext]_<<vars, about, couponVars>> => CouponInv'
<1> SUFFICES ASSUME CouponInv, [MCNext]_<<vars, about, couponVars>> PROVE CouponInv'
  OBVIOUS
<1>1. CASE Coupon!Next
  BY <1>1, CouponsStep
<1>2. CASE UNCHANGED couponVars
  <2>1. UNCHANGED Coupon!vars
    BY <1>2 DEF couponVars, Coupon!vars
  <2> QED  BY <2>1, CouponsStep
<1> QED  BY <1>1, <1>2 DEF MCNext, OfGoods, OfCoupons

\* The invariant of the coupons: somebody's checkouts, terms that were granted, and
\* uses within them.
THEOREM CouponsInvariant == MCSpec => []CouponInv
<1>1. MCInit => CouponInv
  BY CouponsInit DEF MCInit
<1> QED  BY <1>1, MCCouponStep, PTL DEF MCSpec

\* Coupons, baskets, orders and calls keep their shapes.
THEOREM CouponTypes == MCSpec => []Coupon!TypeOK
<1>1. CouponInv => Coupon!TypeOK
  BY DEF CouponInv
<1> QED  BY <1>1, CouponsInvariant, PTL

\* validate: no coupon is used more often, in all or by one customer, than it ever
\* was allowed to, and every order has the discount its customer approved.
THEOREM CouponsAreKept == MCSpec => []CouponsWithinLimits
<1>1. CouponInv => CouponsWithinLimits
  BY DEF CouponInv, CouponsWithinLimits
<1> QED  BY <1>1, CouponsInvariant, PTL
=============================================================================
