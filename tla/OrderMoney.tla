----------------------------- MODULE OrderMoney -----------------------------
(***************************************************************************)
(* What an order costs while its lines still change: a shop proposes to    *)
(* remove, reduce or replace lines (createRevision), the customer decides  *)
(* (respondToRevision), and every total that hangs on the lines is worked  *)
(* out again (recomputeOrderTotals), up to the cash at the door.           *)
(*                                                                         *)
(* The module follows the shop orders of one cash checkout without coupon. *)
(* Each has a shop of its own, which goes by the order's name; two or more *)
(* make a combined order, whose row carries the service fee and the small- *)
(* order fee.  Every operation is one SERIALIZABLE transaction; between    *)
(* proposal and decision anything may happen.                              *)
(***************************************************************************)
EXTENDS Naturals, Integers, Sequences, FiniteSets, SequencesExt

CONSTANTS
  Orders,
  Listings, SoldBy,    \* merchant products and [Listings -> Orders]
  Bought,              \* [Orders -> Seq([listing, quantity])], the checkout
  Prices, Rates,       \* unit prices; the commissions agreed with shops
  RateAtCheckout,      \* [Orders -> Rates]
  DeliveryFee, ServiceFee, Threshold, SmallFee,
  MaxStock,            \* bound: what a shop enters as stock
  Requests, NoRevision,\* bound: requestIds of proposals
  MaxChanges           \* bound: lines one proposal changes

ASSUME OrderMoneyAssumption ==
  /\ IsFiniteSet(Orders) /\ Orders # {}
  /\ SoldBy \in [Listings -> Orders]
  /\ \A o \in Orders :
       /\ Bought[o] \in Seq([listing : {l \in Listings : SoldBy[l] = o},
                           quantity : Nat \ {0}])
       /\ Bought[o] # <<>>
  /\ Prices \subseteq Nat \ {0}
  /\ Rates \subseteq [type : {"PERCENTAGE", "FIXED"}, value : Nat]
  /\ RateAtCheckout \in [Orders -> Rates]
  /\ {DeliveryFee, ServiceFee, Threshold, SmallFee, MaxStock, MaxChanges} \subseteq Nat

VARIABLES
  stock, goods,  \* [Listings -> Nat]: on sale; history: all the shop has
  price,         \* [Listings -> Prices]
  rate,          \* [Orders -> Rates], the commission agreed with the shop
  lines,         \* [Orders -> Seq of order items]
  order,         \* [Orders -> row]
  parent,        \* the combined order's row
  payment,       \* [status, amount]
  revision,      \* [Requests -> row or NoRevision]
  agreed         \* history: what the customer last said yes to paying

shops == <<goods, price, rate>>
orderVars == <<lines, order, parent, payment>>
vars == <<stock, shops, orderVars, revision, agreed>>

OrderItem == [listing : Listings, quantity : Nat, unit : Prices,
              status : {"CONFIRMED", "REMOVED", "REPLACED"}]

OrderRow == [stage : {"PREPARING", "ON_THE_WAY", "DELIVERED", "CANCELLED"}, left : BOOLEAN,
             subtotal : Nat, commission : Nat, total : Nat]

ChangeRow == [item : Nat, action : {"REMOVE", "REDUCE", "REPLACE"},
              was : OrderItem, now : OrderItem]

ProposalRow == [order : Orders, changes : Seq(ChangeRow), elapsed : BOOLEAN,
                status : {"PENDING", "EXPIRED", "REJECTED", "APPROVED"},
                total : Nat, whole : Nat]

IsCombined == Cardinality(Orders) > 1

Sum(f, S) == MapThenSumSet(LAMBDA x : f[x], S)

-----------------------------------------------------------------------------
(* PricingService                                                          *)

SmallOrderFee(subtotal) == IF subtotal >= Threshold THEN 0 ELSE SmallFee

\* A FIXED commission is what it is, however little the order costs.
Commission(terms, subtotal) ==
  IF terms.type = "FIXED" THEN terms.value ELSE (subtotal * terms.value) \div 100

-----------------------------------------------------------------------------
(* Totals                                                                  *)

Cost(line) == line.unit * line.quantity

Confirmed(items) == {i \in DOMAIN items : items[i].status = "CONFIRMED"}
CostOf(items) == [i \in DOMAIN items |-> Cost(items[i])]
Subtotal(items) == Sum(CostOf(items), Confirmed(items))

OwnFees(o, subtotal) ==
  IF IsCombined THEN DeliveryFee
  ELSE DeliveryFee + ServiceFee + SmallOrderFee(subtotal)

\* A shop order's row for these lines; the rest of the row stays.
Priced(o, row, items) ==
  LET subtotal == Subtotal(items)
  IN [row EXCEPT !.subtotal = subtotal,
                 !.commission = Commission(rate[o], subtotal),
                 !.total = subtotal + OwnFees(o, subtotal)]

\* The combined order over all its shop orders, cancelled ones included.
Combine(subtotalOf) ==
  LET subtotal == Sum(subtotalOf, Orders)
  IN [subtotal |-> subtotal,
      total |-> subtotal + DeliveryFee * Cardinality(Orders) + ServiceFee
                  + SmallOrderFee(subtotal)]

Subtotals(rows) == [o \in Orders |-> rows[o].subtotal]
Totals(rows) == [o \in Orders |-> rows[o].total]

\* recomputeOrderTotals
Recompute(o, items) ==
  /\ order' = [order EXCEPT ![o] = Priced(o, @, items)]
  /\ parent' = Combine(Subtotals(order'))

\* What the customer owes for everything bought together.
Whole(rows, combined) ==
  IF IsCombined THEN combined.total ELSE rows[CHOOSE o \in Orders : TRUE].total

-----------------------------------------------------------------------------
(* placeOrder has just written these rows                                  *)

Line(l, n, unit) == [listing |-> l, quantity |-> n, unit |-> unit, status |-> "CONFIRMED"]

NewRow(o, items) ==
  LET subtotal == Subtotal(items)
  IN [stage |-> "PREPARING", left |-> FALSE, subtotal |-> subtotal,
      commission |-> Commission(RateAtCheckout[o], subtotal),
      total |-> subtotal + OwnFees(o, subtotal)]

UnitsOf(items) == [i \in DOMAIN items |-> items[i].quantity]

Ordered(l) ==
  LET o == SoldBy[l]
  IN Sum(UnitsOf(Bought[o]), {i \in DOMAIN Bought[o] : Bought[o][i].listing = l})

Init ==
  /\ stock \in [Listings -> 0..MaxStock]
  /\ goods = [l \in Listings |-> stock[l] + Ordered(l)]
  /\ price \in [Listings -> Prices]
  /\ rate = RateAtCheckout
  /\ lines = [o \in Orders |->
                [i \in DOMAIN Bought[o] |->
                   LET b == Bought[o][i] IN Line(b.listing, b.quantity, price[b.listing])]]
  /\ order = [o \in Orders |-> NewRow(o, lines[o])]
  /\ parent = Combine(Subtotals(order))
  /\ payment = [status |-> "CASH_PENDING", amount |-> Whole(order, parent)]
  /\ revision = [r \in Requests |-> NoRevision]
  /\ agreed = Whole(order, parent)

-----------------------------------------------------------------------------
(* The shops' listings and their commission                                *)

\* MerchantProductsService.update
SetPrice(l, p) ==
  /\ price' = [price EXCEPT ![l] = p]
  /\ UNCHANGED <<stock, goods, rate, orderVars, revision, agreed>>

SetStock(l, n) ==
  /\ stock' = [stock EXCEPT ![l] = n]
  /\ goods' = [goods EXCEPT ![l] = @ + n - stock[l]]
  /\ UNCHANGED <<price, rate, orderVars, revision, agreed>>

\* updateMerchant (commissionType, commissionValue) takes any terms; here their
\* values are whole and not negative.
SetRate(o, terms) ==
  /\ rate' = [rate EXCEPT ![o] = terms]
  /\ UNCHANGED <<stock, goods, price, orderVars, revision, agreed>>

-----------------------------------------------------------------------------
(* MerchantOrdersService.createRevision                                    *)

Pending == {r \in Requests : revision[r] # NoRevision /\ revision[r].status = "PENDING"}
PendingFor(o) == {r \in Pending : revision[r].order = o}

\* The part of a change that names what it is made from (itemSnapshot), and
\* what becomes of it.
Change(o, i, action, now) ==
  [item |-> i, action |-> action, was |-> lines[o][i], now |-> now]

\* Every change the checks of the loop over `changes' let through for a line.
ChangesTo(o, i) ==
  LET line == lines[o][i]
  IN {Change(o, i, "REMOVE", [line EXCEPT !.quantity = 0])}
       \cup {Change(o, i, "REDUCE", [line EXCEPT !.quantity = n]) : n \in 1..(line.quantity - 1)}
       \cup {Change(o, i, "REPLACE", Line(l, n, price[l])) :
               l \in {m \in Listings : SoldBy[m] = o /\ m # line.listing},
               n \in 1..line.quantity}

InStock(change) == change.action = "REPLACE" => change.now.quantity <= stock[change.now.listing]

\* Requests the shop may send: distinct lines, in an order of its choosing.
Proposals(o) ==
  {changes \in BoundedSeq(UNION {ChangesTo(o, i) : i \in Confirmed(lines[o])}, MaxChanges) :
     /\ changes # <<>>
     /\ \A j, k \in DOMAIN changes : changes[j].item = changes[k].item => j = k
     /\ \A j \in DOMAIN changes : InStock(changes[j])}

\* The lines once a change is made; a replacement is a row of its own.
Changed(items, change) ==
  LET i == change.item
  IN IF change.action = "REPLACE"
     THEN Append([items EXCEPT ![i].status = "REPLACED"], change.now)
     ELSE IF change.action = "REMOVE" THEN [items EXCEPT ![i].status = "REMOVED"]
     ELSE [items EXCEPT ![i].quantity = change.now.quantity]

\* Units the line no longer needs.
GivenBack(change) ==
  IF change.action = "REPLACE" THEN change.was.quantity
  ELSE change.was.quantity - change.now.quantity

\* The replacement at the price proposed, if there is enough of it.
Claimable(change, left) ==
  /\ change.now.quantity <= left
  /\ change.now.unit = price[change.now.listing]

\* One turn of the loop over the changes: claim the replacement, return what is
\* no longer wanted, change the lines.
Turn(state, change) ==
  LET taken   == change.now.listing
      replace == change.action = "REPLACE"
      claimed == IF replace THEN [state.stock EXCEPT ![taken] = @ - change.now.quantity]
                 ELSE state.stock
  IN [ok    |-> state.ok /\ (replace => Claimable(change, state.stock[taken])),
      stock |-> [claimed EXCEPT ![change.was.listing] = @ + GivenBack(change)],
      items |-> Changed(state.items, change)]

AfterChanges(o, changes) ==
  LET after[k \in 0..Len(changes)] ==
        IF k = 0 THEN [ok |-> TRUE, stock |-> stock, items |-> lines[o]]
        ELSE Turn(after[k - 1], changes[k])
  IN after[Len(changes)]

\* What the customer is shown: the order's total, the combined order's total.
ShownTotal(o, items) == Priced(o, order[o], items).total
ShownWhole(o, items) ==
  IF IsCombined
  THEN Combine([Subtotals(order) EXCEPT ![o] = Subtotal(items)]).total
  ELSE ShownTotal(o, items)

Propose(r, o, changes) ==
  LET items == AfterChanges(o, changes).items
  IN /\ revision[r] = NoRevision
     /\ order[o].stage = "PREPARING"
     /\ PendingFor(o) = {}
     /\ Confirmed(items) # {}
     /\ revision' = [revision EXCEPT ![r] =
                       [order |-> o, changes |-> changes, status |-> "PENDING",
                        elapsed |-> FALSE,
                        total |-> ShownTotal(o, items), whole |-> ShownWhole(o, items)]]
     /\ UNCHANGED <<stock, shops, orderVars, agreed>>

-----------------------------------------------------------------------------
(* OrdersService.respondToRevision and the sweep                           *)

\* expiresAt passes.
Elapse(r) ==
  /\ r \in Pending
  /\ revision' = [revision EXCEPT ![r].elapsed = TRUE]
  /\ UNCHANGED <<stock, shops, orderVars, agreed>>

Close(r, status) == revision' = [revision EXCEPT ![r].status = status]

\* An answer too late, or expirePendingOrderRevisions.
Expire(r) ==
  /\ r \in Pending /\ revision[r].elapsed
  /\ Close(r, "EXPIRED")
  /\ UNCHANGED <<stock, shops, orderVars, agreed>>

\* The customer says no, or yes when the order has moved on.
Decline(r) ==
  /\ r \in Pending /\ ~revision[r].elapsed
  /\ Close(r, "REJECTED")
  /\ UNCHANGED <<stock, shops, orderVars, agreed>>

\* The lines are still those the proposal was made from.
Unchanged(o, changes) ==
  \A j \in DOMAIN changes : lines[o][changes[j].item] = changes[j].was

\* Wrong: only the shop's own total is compared with the proposal.
AsShownToShop(row) == order'[row.order].total = row.total

\* Anything else rolls the approval back.
AsShown(row) ==
  /\ order'[row.order].total = row.total
  /\ IsCombined => parent'.total = row.whole

Approve(r) ==
  LET row   == revision[r]
      o     == row.order
      after == AfterChanges(o, row.changes)
  IN /\ r \in Pending /\ ~row.elapsed
     /\ order[o].stage = "PREPARING"
     /\ Unchanged(o, row.changes)
     /\ after.ok /\ stock' = after.stock
     /\ lines' = [lines EXCEPT ![o] = after.items]
     /\ Recompute(o, after.items)
     /\ AsShown(row)
     /\ Close(r, "APPROVED")
     /\ agreed' = row.whole
     /\ UNCHANGED <<shops, payment>>

-----------------------------------------------------------------------------
(* The way to the door                                                     *)

\* applyInTransaction: a pending proposal holds the order back.
MayMove(o) == PendingFor(o) = {}

\* Any step up to the rider, who has the goods after it.
PickUp(o) ==
  /\ order[o].stage = "PREPARING" /\ MayMove(o)
  /\ order' = [order EXCEPT ![o].stage = "ON_THE_WAY", ![o].left = TRUE]
  /\ UNCHANGED <<stock, shops, lines, parent, payment, revision, agreed>>

Over == {"DELIVERED", "CANCELLED"}

\* Wrong: the combined order's cash is what its customer was quoted.
CollectWhole(rows) == Whole(rows, parent)

\* rollUpParent takes the cancelled shop orders off; a single order's payment
\* takes the order's total at the door.
Collect(rows) ==
  Whole(rows, parent) - Sum(Totals(rows), {o \in Orders : rows[o].stage # "DELIVERED"})

\* The payment row once the last shop order of the checkout is over.
Settle ==
  LET came == {o \in Orders : order'[o].stage = "DELIVERED"}
  IN payment' =
       IF \E o \in Orders : order'[o].stage \notin Over THEN payment
       ELSE IF came # {} THEN [status |-> "CASH_COLLECTED", amount |-> Collect(order')]
       ELSE IF IsCombined THEN [status |-> "FAILED", amount |-> 0]
       ELSE payment

Deliver(o) ==
  /\ order[o].stage = "ON_THE_WAY" /\ MayMove(o)
  /\ order' = [order EXCEPT ![o].stage = "DELIVERED"]
  /\ Settle
  /\ UNCHANGED <<stock, shops, lines, parent, revision, agreed>>

\* Wrong: puts every line back, also what a revision took out of the order.
ReturnedAll(o, l) ==
  Sum(UnitsOf(lines[o]), {i \in DOMAIN lines[o] : lines[o][i].listing = l})

Held(items, l) == Sum(UnitsOf(items), {i \in Confirmed(items) : items[i].listing = l})

\* restoreStockInTransaction: confirmed lines only.
Returned(o, l) == Held(lines[o], l)

\* By the customer, the shop or an admin; goods that left are for an admin to
\* find (returnReview).  A proposal does not stand in the way and stays open.
Cancel(o) ==
  /\ order[o].stage \notin Over
  /\ order' = [order EXCEPT ![o].stage = "CANCELLED"]
  /\ stock' = [l \in Listings |-> stock[l] + IF order[o].left THEN 0 ELSE Returned(o, l)]
  /\ Settle
  /\ UNCHANGED <<shops, lines, parent, revision, agreed>>

-----------------------------------------------------------------------------
Next ==
  \/ \E l \in Listings :
       \/ \E p \in Prices : SetPrice(l, p)
       \/ \E n \in 0..MaxStock : SetStock(l, n)
  \/ \E o \in Orders :
       \/ \E terms \in Rates : SetRate(o, terms)
       \/ PickUp(o) \/ Deliver(o) \/ Cancel(o)
  \/ \E r \in Requests :
       \/ \E o \in Orders : \E changes \in Proposals(o) : Propose(r, o, changes)
       \/ Elapse(r) \/ Expire(r) \/ Decline(r) \/ Approve(r)

Spec == Init /\ [][Next]_vars

-----------------------------------------------------------------------------
(* Properties                                                              *)

TypeOK ==
  /\ stock \in [Listings -> Nat] /\ goods \in [Listings -> Nat]
  /\ price \in [Listings -> Prices] /\ rate \in [Orders -> Rates]
  /\ lines \in [Orders -> Seq(OrderItem)] /\ order \in [Orders -> OrderRow]
  /\ parent \in [subtotal : Nat, total : Nat]
  /\ payment \in [status : {"CASH_PENDING", "CASH_COLLECTED", "FAILED"}, amount : Nat]
  /\ revision \in [Requests -> ProposalRow \cup {NoRevision}]
  /\ agreed \in Nat

\* The customer owes what he was last shown and said yes to: no approval, of
\* one shop's proposal after another's, makes the checkout cost anything else.
OwesWhatWasAgreed == Whole(order, parent) = agreed

\* At the door the customer pays for the goods that came, their delivery and
\* the fees he agreed to, although orders of the same checkout were cancelled
\* and others revised, before or after.
PaysForWhatCame ==
  LET came == {o \in Orders : order[o].stage = "DELIVERED"}
      all  == Sum(Subtotals(order), Orders)
  IN payment.status = "CASH_COLLECTED" =>
       payment.amount = Sum([o \in Orders |-> Subtotal(lines[o]) + DeliveryFee], came)
                          + ServiceFee + SmallOrderFee(all)

\* Units on sale and units promised are all the shop has: a revision moves
\* them between the two and a cancellation returns those that are promised.
ShelfAddsUp ==
  \A l \in Listings :
    goods[l] = stock[l] + Sum([o \in Orders |-> Held(lines[o], l)],
                              {o \in Orders : order[o].left \/ order[o].stage # "CANCELLED"})

\* docs/architecture.md: "Commission is computed per child order at placement
\* and frozen on the order row, so later rate changes never rewrite history".
CommissionFrozen ==
  \A o \in Orders : order[o].commission = Commission(RateAtCheckout[o], order[o].subtotal)
=============================================================================
