----------------------------- MODULE MCPlaceOrder -----------------------------
(***************************************************************************)
(* The two things a checkout competes for, each in a small world of its    *)
(* own, chosen at the start: the goods (Checkout) and the coupons          *)
(* (Coupons).  Apart from the active basket they share no row.             *)
(***************************************************************************)
EXTENDS MCCheckout

CONSTANTS None, Buyers, Codes, MaxBaskets

VARIABLES about, coupon, granted, cart, orders, call

couponVars == <<coupon, granted, cart, orders, call>>

\* Once for each of two customers; once, for a new one; not now.
Terms == {[open |-> TRUE, value |-> 1, total |-> 2, each |-> 1, newOnly |-> FALSE],
          [open |-> TRUE, value |-> 2, total |-> 1, each |-> 1, newOnly |-> TRUE],
          [open |-> FALSE, value |-> 1, total |-> 1, each |-> 1, newOnly |-> FALSE]}

Coupon == INSTANCE Coupons WITH Customers <- Buyers, Rows <- Terms, Calls <- Attempts

ASSUME CouponTermsAssumption == Coupon!CouponsAssumption

\* What is not looked at stands still in one state of its own.
MCInit ==
  /\ about \in {"goods", "coupons"}
  /\ Init /\ Coupon!Init
  /\ about = "goods" => \A k \in Codes : ~coupon[k].open
  /\ about = "coupons" => goods = Empty /\ \A l \in Listings : \A p \in Prices : price[l] <= p

OfGoods(Action) == about = "goods" /\ Action /\ UNCHANGED <<about, couponVars>>
OfCoupons(Action) == about = "coupons" /\ Action /\ UNCHANGED <<about, vars>>

MCNext ==
  \/ OfGoods(ShopNext) \/ OfGoods(ClientNext) \/ OfGoods(CallNext)
  \/ OfCoupons(Coupon!Next)

MCSpec == MCInit /\ [][MCNext]_<<vars, about, couponVars>>

-----------------------------------------------------------------------------
\* A coupon is used no more often than it was allowed to, at the price shown
\* (validate, placeOrder).
CouponsWithinLimits == Coupon!CouponsWithinLimits
=============================================================================
