------------------------------- MODULE Coupons -------------------------------
(***************************************************************************)
(* A coupon from the basket to the order: CouponsService.validate is asked *)
(* when a code is applied, when a checkout is quoted, twice while          *)
(* placeOrder collects what it will write, and once more in the            *)
(* transaction that writes it.  Between these moments admins change the    *)
(* coupon, other customers use it up and the basket's code changes.        *)
(*                                                                         *)
(* A customer has one active basket at a time; the goods in it, and what   *)
(* else may stop a checkout, are those of module Checkout.                 *)
(***************************************************************************)
EXTENDS Naturals, FiniteSets

CONSTANTS
  None,
  Customers,
  Codes,      \* the coupons
  Rows,       \* bound: what an admin may make of a coupon
  Calls,      \* bound: checkouts at a time
  MaxBaskets  \* bound: baskets per customer

\* Amounts and limits of a coupon; both limits at least let it be created.
CouponsAssumption ==
  /\ None \notin Codes
  /\ Rows \subseteq [open : BOOLEAN, value : Nat, total : Nat, each : Nat, newOnly : BOOLEAN]
  /\ MaxBaskets \in Nat

VARIABLES
  coupon,   \* [Codes -> Rows]; `open': active, in season, fit for these goods
  granted,  \* history: the highest limits each coupon ever had
  cart,     \* [Customers -> [number, code]], the active basket
  orders,   \* set of [by, number, terms, approved]: an order and its CouponUsage
  call      \* [Calls -> [step, by, number, given, approved, seen]]

vars == <<coupon, granted, cart, orders, call>>

NoTerms == [code |-> None, value |-> 0]
Idle == [step |-> "idle", by |-> None, number |-> 0, given |-> None,
         approved |-> NoTerms, seen |-> NoTerms]

Limits(row) == [total |-> row.total, each |-> row.each]

Init ==
  /\ coupon \in [Codes -> Rows]
  /\ granted = [k \in Codes |-> Limits(coupon[k])]
  /\ cart = [c \in Customers |-> [number |-> 1, code |-> None]]
  /\ orders = {}
  /\ call = [n \in Calls |-> Idle]

-----------------------------------------------------------------------------
(* CouponsService.validate                                                 *)

Uses(k) == {o \in orders : o.terms.code = k}
UsesBy(c, k) == {o \in Uses(k) : o.by = c}

\* What a guest is asked for.
Offered(k) == coupon[k].open /\ Cardinality(Uses(k)) < coupon[k].total

Valid(c, k) ==
  /\ Offered(k)
  /\ Cardinality(UsesBy(c, k)) < coupon[k].each
  /\ coupon[k].newOnly => \A o \in orders : o.by # c

Quotable(c, k) == k # None => Valid(c, k)
Terms(k) == IF k = None THEN NoTerms ELSE [code |-> k, value |-> coupon[k].value]

-----------------------------------------------------------------------------
(* Admins and baskets                                                      *)

Higher(m, n) == IF m < n THEN n ELSE m

\* updateCoupon, deactivateCoupon, or its season begins or ends.
Edit(k, row) ==
  /\ coupon' = [coupon EXCEPT ![k] = row]
  /\ granted' = [granted EXCEPT ![k] = [total |-> Higher(@.total, row.total),
                                        each  |-> Higher(@.each, row.each)]]
  /\ UNCHANGED <<cart, orders, call>>

SetCode(c, k) ==
  /\ cart' = [cart EXCEPT ![c].code = k]
  /\ UNCHANGED <<coupon, granted, orders, call>>

ApplyCoupon(c, k) == Valid(c, k) /\ SetCode(c, k)

\* removeCoupon, clear
RemoveCoupon(c) == cart[c].code # None /\ SetCode(c, None)

\* mergeGuestCart: nobody knew whose code it would be.
BringCode(c, k) == Offered(k) /\ SetCode(c, k)

-----------------------------------------------------------------------------
(* quoteOrder and placeOrder                                               *)

\* What the client sends goes before what the basket says.
CodeOf(c, given) == IF given # None THEN given ELSE cart[c].code

Holds(n, terms) ==
  LET c == call[n].by
      k == CodeOf(c, call[n].given)
  IN /\ cart[c].number = call[n].number
     /\ Quotable(c, k) /\ Terms(k) = terms

Step(n, s) == call' = [call EXCEPT ![n].step = s]
Rest == UNCHANGED <<coupon, granted, cart, orders>>

\* The customer is shown the price and says yes.
Approve(n, c, given) ==
  LET k == CodeOf(c, given)
  IN /\ call[n] = Idle
     /\ cart[c].number <= MaxBaskets
     /\ Quotable(c, k)
     /\ call' = [call EXCEPT ![n] = [Idle EXCEPT !.step = "sent", !.by = c, !.given = given,
                                                 !.number = cart[c].number,
                                                 !.approved = Terms(k)]]
     /\ Rest

\* The approved quote against the current one.
CheckQuote(n) ==
  /\ call[n].step = "sent"
  /\ Holds(n, call[n].approved)
  /\ Step(n, "quoted")
  /\ Rest

\* The basket as it will be written, with its code ...
ReadCart(n) ==
  LET c == call[n].by
  IN /\ call[n].step = "quoted"
     /\ cart[c].number = call[n].number
     /\ call' = [call EXCEPT ![n].step = "cartRead",
                             ![n].seen.code = CodeOf(c, call[n].given)]
     /\ Rest

\* ... and the discount.
ReadCoupon(n) ==
  LET k == call[n].seen.code
  IN /\ call[n].step = "cartRead"
     /\ Quotable(call[n].by, k)
     /\ call' = [call EXCEPT ![n].step = "couponRead", ![n].seen = Terms(k)]
     /\ Rest

\* Wrong: what was validated before the transaction is good enough.
MayPlaceAsRead(n) ==
  cart[call[n].by].number = call[n].number /\ call[n].seen = call[n].approved

\* The transaction quotes once more; what was read is what that says.
MayPlace(n) == Holds(n, call[n].approved) /\ call[n].seen = call[n].approved

PlaceOrder(n) ==
  LET c == call[n].by
  IN /\ call[n].step = "couponRead"
     /\ MayPlace(n)
     /\ orders' = orders \cup {[by |-> c, number |-> call[n].number,
                                terms |-> call[n].seen, approved |-> call[n].approved]}
     /\ cart' = [cart EXCEPT ![c] = [number |-> @.number + 1, code |-> None]]
     /\ call' = [call EXCEPT ![n] = Idle]
     /\ UNCHANGED <<coupon, granted>>

\* A check failed, the transaction gave up, or the API restarted.
Fail(n) ==
  /\ call[n].step # "idle"
  /\ call' = [call EXCEPT ![n] = Idle]
  /\ Rest

Next ==
  \/ \E k \in Codes, row \in Rows : Edit(k, row)
  \/ \E c \in Customers :
       \/ \E k \in Codes : ApplyCoupon(c, k) \/ BringCode(c, k)
       \/ RemoveCoupon(c)
       \/ \E n \in Calls, given \in Codes \cup {None} : Approve(n, c, given)
  \/ \E n \in Calls :
       CheckQuote(n) \/ ReadCart(n) \/ ReadCoupon(n) \/ PlaceOrder(n) \/ Fail(n)

Spec == Init /\ [][Next]_vars

-----------------------------------------------------------------------------
(* Properties                                                              *)

TermsOf == [code : Codes \cup {None}, value : Nat]
CallState == [step : {"idle", "sent", "quoted", "cartRead", "couponRead"},
              by : Customers \cup {None}, number : 0..MaxBaskets,
              given : Codes \cup {None}, approved : TermsOf, seen : TermsOf]

\* Coupons, baskets, orders and calls keep their shapes.
TypeOK ==
  /\ coupon \in [Codes -> Rows]
  /\ granted \in [Codes -> [total : Nat, each : Nat]]
  /\ cart \in [Customers -> [number : 1..(MaxBaskets + 1), code : Codes \cup {None}]]
  /\ orders \subseteq [by : Customers, number : 1..MaxBaskets, terms : TermsOf, approved : TermsOf]
  /\ call \in [Calls -> CallState]

\* However many customers and tabs check out at once, and whatever admins do
\* meanwhile, a coupon is used no more often, in all and by one customer, than it
\* ever was allowed to (validate, twice outside placeOrder's transaction), and each
\* order has the discount its customer said yes to.
CouponsWithinLimits ==
  /\ \A k \in Codes :
       /\ Cardinality(Uses(k)) <= granted[k].total
       /\ \A c \in Customers : Cardinality(UsesBy(c, k)) <= granted[k].each
  /\ \A o \in orders : o.terms = o.approved
=============================================================================
