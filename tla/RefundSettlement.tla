-------------------------- MODULE RefundSettlement --------------------------
(***************************************************************************)
(* Money after the door: refunds of a collected payment into the           *)
(* customer's wallet (RefundsService) and the payouts to the shops that    *)
(* earned it (SettlementsService).  The two meet in holdSettlements: a     *)
(* refund may change a payout that is not paid yet and is refused once it  *)
(* is.  Every operation is one SERIALIZABLE transaction.                   *)
(*                                                                         *)
(* The orders here are shop orders of payments that were collected; what   *)
(* was collected for a combined order is its own total less the orders     *)
(* that were cancelled, so it may differ from the sum of the delivered     *)
(* ones by the fees and discounts of the combined order.  All of it is in  *)
(* the books, which nothing here changes.                                  *)
(***************************************************************************)
EXTENDS Naturals, Integers, FiniteSets, FiniteSetsExt

CONSTANTS
  ShopOrders,  \* numbers: shop orders in the order of their ids
  Combined,    \* combined orders
  AnchorOf,    \* [ShopOrders -> Combined \cup Orders], the row that owns the payment
  Shops, ShopOf, \* numbers: shops in the order of their ids
  Admins,        \* bound: calls of generate at a time
  Periods,       \* what was delivered in the periods an admin may choose
  Refunds,     \* rows a refund may take
  Amounts,     \* what an admin may type
  Settlements, \* rows a settlement may take
  NoSettlement,
  MaxWallet    \* MAX_PAISA

ASSUME MoneyAssumption ==
  /\ ShopOrders \subseteq Nat /\ Combined \cap ShopOrders = {}
  /\ IsFiniteSet(ShopOrders) /\ IsFiniteSet(Refunds)
  /\ AnchorOf \in [ShopOrders -> Combined \cup ShopOrders]
  /\ \A o \in ShopOrders : AnchorOf[o] \in ShopOrders => AnchorOf[o] = o
  /\ Shops \subseteq Nat /\ ShopOf \in [ShopOrders -> Shops]
  /\ Periods \subseteq SUBSET ShopOrders
  /\ Amounts \subseteq Nat \ {0} /\ MaxWallet \in Nat
  /\ NoSettlement \notin Settlements

VARIABLES
  books,        \* the orders that were delivered, and for each order or payment
                \* [total, earning, collected], as the checkout left them
  refund,       \* [Refunds -> row], status "NONE" where there is none
  paymentStatus, \* [Anchors -> PaymentStatus], Payment.status
  orderPayment, \* [ShopOrders -> PaymentStatus], Order.paymentStatus
  wallet,       \* walletBalancePaisa of the customer
  settlementOf, \* [ShopOrders -> Settlements \cup {NoSettlement}]
  settlement,   \* [Settlements -> [status, amount]]
  call          \* [Admins -> generate call: its answer, shops still to do, orders of its period]

refundVars == <<books, refund, paymentStatus, orderPayment, wallet, settlementOf, settlement, call>>

Anchors == {AnchorOf[o] : o \in ShopOrders}
Targets == ShopOrders \cup Combined
Parts(a) == {o \in ShopOrders : AnchorOf[o] = a}

Delivered    == books.delivered
Total(o)     == books.total[o]
Collected(a) == books.collected[a]
Paying(a)    == Parts(a) \cap Delivered

PaymentStatus == {"FAILED", "CASH_PENDING", "CASH_COLLECTED", "PARTIALLY_REFUNDED", "REFUNDED"}
RefundStatus == {"NONE", "REQUESTED", "APPROVED", "COMPLETED", "REJECTED"}
SettlementStatus == {"NONE", "PENDING", "ON_HOLD", "PAID"}

NoRefund == [status |-> "NONE", target |-> 0, amount |-> 0,
             allocation |-> [o \in ShopOrders |-> 0]]

NoCall == [answer |-> "NONE", todo |-> {}, period |-> {}]

Least(m, n) == IF m < n THEN m ELSE n
SumOf(f, S) == MapThenSumSet(LAMBDA x : f[x], S)
Anchor(t) == IF t \in Combined THEN t ELSE AnchorOf[t]

\* Nothing was given back or paid out yet.
Opened ==
  /\ refund = [r \in Refunds |-> NoRefund]
  /\ paymentStatus = [a \in Anchors |-> "CASH_COLLECTED"]
  /\ orderPayment = [o \in ShopOrders |->
                       IF o \in Delivered THEN "CASH_COLLECTED" ELSE "CASH_PENDING"]
  /\ wallet = 0
  /\ settlementOf = [o \in ShopOrders |-> NoSettlement]
  /\ settlement = [s \in Settlements |-> [status |-> "NONE", amount |-> 0]]
  /\ call = [m \in Admins |-> NoCall]

BooksOf == [delivered : SUBSET ShopOrders, total : [ShopOrders -> Nat \ {0}],
            earning : [ShopOrders -> Int], collected : [Anchors -> Nat]]

RefundInit == books \in BooksOf /\ Opened

-----------------------------------------------------------------------------
(* Sharing an amount among the shop orders of a payment                    *)

\* The loop "portion = min(remaining, available)" over the orders of S by id.
Waterfall(S, n, available) ==
  [o \in ShopOrders |->
     IF o \notin S THEN 0
     ELSE Least(n, SumOf(available, {c \in S : c <= o}))
            - Least(n, SumOf(available, {c \in S : c < o}))]

\* context: what may be given back for each order.  Fees the combined order
\* collected beyond its shop orders belong to the first; a discount is taken
\* off them in turn; a cancelled order collected nothing.
Cap ==
  [o \in ShopOrders |->
     LET a     == AnchorOf[o]
         delta == Collected(a) - SumOf(books.total, Paying(a))
     IN IF o \notin Delivered THEN 0
        ELSE IF a \notin Combined THEN Total(o)
        ELSE IF delta > 0
        THEN Total(o) + (IF \A c \in Paying(a) : o <= c THEN delta ELSE 0)
        ELSE Total(o) - Waterfall(Paying(a), -delta, books.total)[o]]

\* Wrong: an approved refund does not count until it is paid.
ReservedWhenCompleted(a, except) ==
  {r \in Refunds \ except :
     /\ refund[r].status = "COMPLETED"
     /\ Anchor(refund[r].target) = a}

\* The refunds that already have a claim on the payment of a.
Reserved(a, except) ==
  {r \in Refunds \ except :
     /\ refund[r].status \in {"APPROVED", "COMPLETED"}
     /\ Anchor(refund[r].target) = a}

AmountOf(f) == [r \in Refunds |-> f[r].amount]
ShareOf(o, f) == [r \in Refunds |-> f[r].allocation[o]]

AmountsOf(S) == SumOf(AmountOf(refund), S)
TakenFrom(o, S) == SumOf(ShareOf(o, refund), S)

Available(a, except) ==
  [o \in ShopOrders |->
     LET left == Cap[o] - TakenFrom(o, Reserved(a, except))
     IN IF o \notin Parts(a) \/ left < 0 THEN 0 ELSE left]

\* The refusals of context and allocate.
MayAllocate(t, n, except) ==
  LET a == Anchor(t)
  IN /\ Paying(a) # {}
     /\ SumOf(Cap, Parts(a)) = Collected(a)
     /\ AmountsOf(Reserved(a, except)) + n <= Collected(a)
     /\ IF t \in ShopOrders THEN n <= Available(a, except)[t]
        ELSE n <= SumOf(Available(a, except), Parts(a))

Allocation(t, n, except) ==
  IF t \in ShopOrders THEN [o \in ShopOrders |-> IF o = t THEN n ELSE 0]
  ELSE Waterfall(Parts(t), n, Available(t, except))

-----------------------------------------------------------------------------
(* RefundsService                                                          *)

\* Settlements the orders of an allocation were put in.
Touched(allocation) ==
  {settlementOf[o] : o \in {c \in ShopOrders : allocation[c] > 0}} \ {NoSettlement}

\* Wrong: leaves a settlement generated before the refund as it is.
HoldNone(allocation) == settlement' = settlement

\* holdSettlements: refused once one of them is paid.
HoldSettlements(allocation) ==
  /\ \A s \in Touched(allocation) : settlement[s].status # "PAID"
  /\ settlement' = [s \in Settlements |->
                      IF s \in Touched(allocation) /\ settlement[s].status = "PENDING"
                      THEN [settlement[s] EXCEPT !.status = "ON_HOLD"]
                      ELSE settlement[s]]

\* Wrong: REFUNDED only beyond the whole amount.
StatusOfShareStrict(given, of) == IF given > of THEN "REFUNDED" ELSE "PARTIALLY_REFUNDED"

StatusOfShare(given, of) == IF given >= of THEN "REFUNDED" ELSE "PARTIALLY_REFUNDED"

CompletedOf(a, f) ==
  {r \in Refunds : f[r].status = "COMPLETED" /\ Anchor(f[r].target) = a}

FitsWallet(n) == wallet + n <= MaxWallet

\* complete: row becomes the refund r, paid into the wallet.
Pay(r, row) ==
  LET a    == Anchor(row.target)
      paid == SumOf(AmountOf(refund'), CompletedOf(a, refund'))
      paidFor(o) == SumOf(ShareOf(o, refund'), CompletedOf(a, refund'))
  IN /\ FitsWallet(row.amount)
     /\ HoldSettlements(row.allocation)
     /\ refund' = [refund EXCEPT ![r] = [row EXCEPT !.status = "COMPLETED"]]
     /\ wallet' = wallet + row.amount
     /\ paymentStatus' = [paymentStatus EXCEPT ![a] = StatusOfShare(paid, Collected(a))]
     /\ orderPayment' = [o \in ShopOrders |->
                           IF o \in Parts(a) /\ paidFor(o) > 0
                           THEN StatusOfShare(paidFor(o), Cap[o]) ELSE orderPayment[o]]
     /\ UNCHANGED <<books, settlementOf, call>>

\* create without autoApprove
Request(r, t, n) ==
  /\ refund[r].status = "NONE"
  /\ MayAllocate(t, n, {})
  /\ refund' = [refund EXCEPT ![r] =
                  [status |-> "REQUESTED", target |-> t, amount |-> n,
                   allocation |-> Allocation(t, n, {})]]
  /\ UNCHANGED <<books, paymentStatus, orderPayment, wallet, settlementOf, settlement, call>>

\* Wrong: approves the allocation worked out when the refund was requested.
ApproveAsRequested(r) ==
  /\ refund[r].status = "REQUESTED"
  /\ MayAllocate(refund[r].target, refund[r].amount, {})
  /\ refund' = [refund EXCEPT ![r].status = "APPROVED"]
  /\ UNCHANGED <<books, paymentStatus, orderPayment, wallet, settlementOf, settlement, call>>

\* approve works the allocation out again.
ApproveRefund(r) ==
  LET t == refund[r].target
      n == refund[r].amount
  IN /\ refund[r].status = "REQUESTED"
     /\ MayAllocate(t, n, {})
     /\ refund' = [refund EXCEPT ![r].status = "APPROVED",
                                 ![r].allocation = Allocation(t, n, {})]
     /\ UNCHANGED <<books, paymentStatus, orderPayment, wallet, settlementOf, settlement, call>>

\* setRefundStatus(reject): an approved refund can no longer be rejected.
Reject(r) ==
  /\ refund[r].status = "REQUESTED"
  /\ refund' = [refund EXCEPT ![r].status = "REJECTED"]
  /\ UNCHANGED <<books, paymentStatus, orderPayment, wallet, settlementOf, settlement, call>>

\* What complete requires of an approved refund.
StillAllocated(r) ==
  LET t == refund[r].target
      n == refund[r].amount
  IN MayAllocate(t, n, {r}) /\ Allocation(t, n, {r}) = refund[r].allocation

Process(r) ==
  /\ refund[r].status = "APPROVED"
  /\ StillAllocated(r)
  /\ Pay(r, refund[r])

\* The admin's refundOrder: created, approved and paid in one transaction.
RefundOrder(r, t, n) ==
  /\ refund[r].status = "NONE"
  /\ t \in ShopOrders => n <= Total(t)
  /\ MayAllocate(t, n, {})
  /\ Pay(r, [status |-> "APPROVED", target |-> t, amount |-> n,
             allocation |-> Allocation(t, n, {})])

-----------------------------------------------------------------------------
(* SettlementsService                                                      *)

Deductions(S) ==
  SumOf([r \in Refunds |-> SumOf(refund[r].allocation, S)],
        {r \in Refunds : refund[r].status = "COMPLETED"})

Payable(S) == SumOf(books.earning, S) - Deductions(S)

InSettlement(s) == {o \in ShopOrders : settlementOf[o] = s}

\* generate reads its shops and starts on the first; period is what was
\* delivered in it.
StartGenerate(m, asked, period) ==
  /\ call[m].answer # "PENDING"
  /\ call' = [call EXCEPT ![m] = [answer |-> "PENDING", todo |-> asked, period |-> period]]
  /\ UNCHANGED <<books, refund, paymentStatus, orderPayment, wallet, settlementOf, settlement>>

Due(shop, period) ==
  {o \in period \cap Delivered : ShopOf[o] = shop /\ settlementOf[o] = NoSettlement}

\* The transaction throws and takes the call with it; the settlements of
\* earlier shops are committed.
WithNothingPayable(c, shop) == [c EXCEPT !.answer = "CONFLICT"]

\* The loop's turn for one shop, in one transaction; s is the row it creates.
GenerateFor(m, shop, s) ==
  LET S == Due(shop, call[m].period)
  IN /\ call[m].answer = "PENDING" /\ shop \in call[m].todo
     /\ \A other \in call[m].todo : shop <= other
     /\ \/ /\ S = {}
           /\ call' = [call EXCEPT ![m].todo = @ \ {shop}]
           /\ UNCHANGED <<settlement, settlementOf>>
        \/ /\ S # {} /\ Payable(S) <= 0
           /\ call' = [call EXCEPT ![m] = WithNothingPayable(@, shop)]
           /\ UNCHANGED <<settlement, settlementOf>>
        \/ /\ S # {} /\ Payable(S) > 0
           /\ settlement[s].status = "NONE"
           /\ settlement' = [settlement EXCEPT ![s] = [status |-> "PENDING", amount |-> Payable(S)]]
           /\ settlementOf' = [o \in ShopOrders |-> IF o \in S THEN s ELSE settlementOf[o]]
           /\ call' = [call EXCEPT ![m].todo = @ \ {shop}]
     /\ UNCHANGED <<books, refund, paymentStatus, orderPayment, wallet>>

EndGenerate(m) ==
  /\ call[m].answer = "PENDING" /\ call[m].todo = {}
  /\ call' = [call EXCEPT ![m].answer = "LIST"]
  /\ UNCHANGED <<books, refund, paymentStatus, orderPayment, wallet, settlementOf, settlement>>

MarkPaid(s) ==
  /\ settlement[s].status = "PENDING"
  /\ settlement[s].amount > 0
  /\ Payable(InSettlement(s)) = settlement[s].amount
  /\ settlement' = [settlement EXCEPT ![s].status = "PAID"]
  /\ UNCHANGED <<books, refund, paymentStatus, orderPayment, wallet, settlementOf, call>>

Hold(s) ==
  /\ settlement[s].status = "PENDING"
  /\ settlement' = [settlement EXCEPT ![s].status = "ON_HOLD"]
  /\ UNCHANGED <<books, refund, paymentStatus, orderPayment, wallet, settlementOf, call>>

-----------------------------------------------------------------------------
RefundNext ==
  \/ \E r \in Refunds :
       \/ ApproveRefund(r) \/ Reject(r) \/ Process(r)
       \/ \E t \in Targets, n \in Amounts : Request(r, t, n) \/ RefundOrder(r, t, n)
  \/ \E s \in Settlements :
       \/ MarkPaid(s) \/ Hold(s)
       \/ \E m \in Admins, shop \in Shops : GenerateFor(m, shop, s)
  \/ \E m \in Admins :
       \/ \E asked \in {Shops} \cup {{shop} : shop \in Shops}, period \in Periods :
            StartGenerate(m, asked, period)
       \/ EndGenerate(m)

RefundSpec == RefundInit /\ [][RefundNext]_refundVars

-----------------------------------------------------------------------------
(* Properties                                                              *)

\* Every row keeps a value its column can hold; no refund takes the wallet
\* beyond the largest balance the API computes with.
RefundTypeOK ==
  /\ books \in BooksOf
  /\ refund \in [Refunds -> [status : RefundStatus, target : Targets \cup {0},
                             amount : Nat, allocation : [ShopOrders -> Nat]]]
  /\ paymentStatus \in [Anchors -> PaymentStatus]
  /\ orderPayment \in [ShopOrders -> PaymentStatus]
  /\ wallet \in 0..MaxWallet
  /\ settlementOf \in [ShopOrders -> Settlements \cup {NoSettlement}]
  /\ settlement \in [Settlements -> [status : SettlementStatus, amount : Nat]]
  /\ call \in [Admins -> [answer : {"NONE", "PENDING", "CONFLICT", "LIST"},
                         todo : SUBSET Shops, period : Periods \cup {{}}]]

\* What has been promised or paid back of a payment.
Promised(a) ==
  {r \in Refunds : /\ refund[r].status \in {"APPROVED", "COMPLETED"}
                   /\ Anchor(refund[r].target) = a}

\* However refunds of the combined order and of its shop orders are requested,
\* approved and paid, never more is promised than was collected, as a whole and
\* for every single order.
NeverOverRefunded ==
  \A a \in Anchors :
    /\ AmountsOf(Promised(a)) <= Collected(a)
    /\ \A o \in Parts(a) : TakenFrom(o, Promised(a)) <= Cap[o]

\* An approved refund keeps the allocation it was approved with, whatever is
\* approved or paid after it: complete's "allocation changed, reapprove" has no
\* way out (an approved refund is never reviewed again), and is never reached.
ApprovedStaysPayable ==
  \A r \in Refunds : refund[r].status = "APPROVED" => StillAllocated(r)

\* The wallet holds what was refunded, and the payment columns say how much of
\* the payment, and of each order, that is.
BooksAgree ==
  /\ wallet = AmountsOf({r \in Refunds : refund[r].status = "COMPLETED"})
  /\ \A a \in Anchors :
       LET done == CompletedOf(a, refund)
       IN /\ paymentStatus[a] = IF done = {} THEN "CASH_COLLECTED"
                          ELSE IF AmountsOf(done) = Collected(a) THEN "REFUNDED"
                          ELSE "PARTIALLY_REFUNDED"
          /\ \A o \in Paying(a) :
               orderPayment[o] = IF TakenFrom(o, done) = 0 THEN "CASH_COLLECTED"
                                 ELSE IF TakenFrom(o, done) = Cap[o] THEN "REFUNDED"
                                 ELSE "PARTIALLY_REFUNDED"

\* A payout that is due or was made is what the shop earned with its orders less
\* what was refunded of them, also when refunds come after it was worked out.
PayoutExact ==
  \A s \in Settlements :
    settlement[s].status \in {"PENDING", "PAID"} =>
      settlement[s].amount = Payable(InSettlement(s))

\* docs/api-contract.md: "A refund affecting a pending batch recomputes and
\* holds it".
RecomputedWhenHeld ==
  [][\A s \in Settlements :
       settlement[s].status = "PENDING" /\ settlement'[s].status = "ON_HOLD"
         => settlement'[s].amount = Payable(InSettlement(s))']_refundVars
==============================================================================
