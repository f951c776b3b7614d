------------------------------- MODULE Baskets -------------------------------
(***************************************************************************)
(* CartService: the baskets of guests and customers, and the merge of a    *)
(* guest's basket into a customer's after sign-in.  Every operation is a   *)
(* SERIALIZABLE transaction that locks the owners it touches first, so it  *)
(* is one action.  The clients' modules extend this one and say which      *)
(* calls arrive, when, and how often.                                      *)
(*                                                                         *)
(* A listing that is not sellable any more counts as one without stock:    *)
(* every check that refuses the one refuses the other.  The coupon code a  *)
(* basket carries is module Coupons' subject; prices are left out.         *)
(***************************************************************************)
EXTENDS Naturals, Integers, FiniteSets, FiniteSetsExt

CONSTANTS
  Customers, Sessions,   \* bound: guest sessions ever started
  Listings,
  Offers,                \* bound: a subset of [stock : Nat, open : BOOLEAN]
  None

Owners == Customers \cup Sessions

ASSUME BasketsAssumption ==
  /\ IsFiniteSet(Customers) /\ IsFiniteSet(Sessions) /\ Customers \cap Sessions = {}
  /\ None \notin Owners
  /\ Offers \subseteq [stock : Nat, open : BOOLEAN]

VARIABLES
  session,   \* [Sessions -> {"UNUSED", "LIVE", "EXPIRED"}]
  basket,    \* [Owners -> the owner's cart: [status, units]]
  offer,     \* [Listings -> Offers]
  wanted     \* history: units people put in baskets and did not take out

serverVars == <<session, basket, offer, wanted>>

Nothing == [l \in Listings |-> 0]
EmptyCart == [status |-> "ACTIVE", units |-> Nothing]
IsEmpty(o) == basket[o].units = Nothing

InitServer ==
  /\ session = [s \in Sessions |-> "UNUSED"]
  /\ basket = [o \in Owners |-> EmptyCart]
  /\ offer \in [Listings -> Offers]
  /\ wanted = Nothing

-----------------------------------------------------------------------------
(* Sessions and listings                                                   *)

\* POST /guest/session
CreateSession(s) ==
  /\ session[s] = "UNUSED"
  /\ session' = [session EXCEPT ![s] = "LIVE"]
  /\ UNCHANGED <<basket, offer, wanted>>

\* expiresAt passes.
Lapse(s) ==
  /\ session[s] = "LIVE"
  /\ session' = [session EXCEPT ![s] = "EXPIRED"]
  /\ UNCHANGED <<basket, offer, wanted>>

Relist(l, o) ==
  /\ offer' = [offer EXCEPT ![l] = o]
  /\ UNCHANGED <<session, basket, wanted>>

-----------------------------------------------------------------------------
(* One owner's basket                                                      *)

\* ownerFromGuestToken, then getOrCreateActiveCartInTransaction.
Answers(o) == o \in Sessions => session[o] = "LIVE" /\ basket[o].status # "MERGED"

Put(o, l, n) ==
  /\ basket' = [basket EXCEPT ![o].units[l] = n]
  /\ wanted' = [wanted EXCEPT ![l] = @ + n - basket[o].units[l]]
  /\ UNCHANGED <<session, offer>>

\* addItem
AddItem(o, l, n) ==
  LET total == basket[o].units[l] + n
  IN /\ Answers(o)
     /\ offer[l].open /\ total <= offer[l].stock
     /\ Put(o, l, total)

\* updateItem, and removeItem as an update to zero: only taking more needs
\* a shop that is open.
UpdateItem(o, l, n) ==
  /\ Answers(o) /\ basket[o].units[l] > 0
  /\ n > 0 => n <= offer[l].stock
  /\ n > basket[o].units[l] => offer[l].open
  /\ Put(o, l, n)

Emptied(o) ==
  /\ basket' = [basket EXCEPT ![o] = EmptyCart]
  /\ wanted' = [l \in Listings |-> wanted[l] - basket[o].units[l]]
  /\ UNCHANGED <<session, offer>>

\* clear
Clear(o) == Answers(o) /\ Emptied(o)

\* placeOrder fences the cart (CHECKED_OUT); the next call opens a new one.
CheckOut(c) == ~IsEmpty(c) /\ Emptied(c)

-----------------------------------------------------------------------------
(* mergeGuestCart                                                          *)

\* Every line, on top of what the customer has, or none: a refusal rolls all
\* of it back, the claim included.
Fits(s, c) ==
  \A l \in Listings :
    basket[s].units[l] > 0 => basket[c].units[l] + basket[s].units[l] <= offer[l].stock

ToMerge(s) == basket[s].status = "ACTIVE" /\ ~IsEmpty(s)

\* The refusals: the session, or a line that does not fit.
MergeAccepted(s, c) == session[s] = "LIVE" /\ (ToMerge(s) => Fits(s, c))

\* Wrong: copies without claiming the guest's basket.
MovedUnclaimed(s, c) ==
  [basket EXCEPT ![c].units = [l \in Listings |-> @[l] + basket[s].units[l]]]

\* The claim and the copy.
Moved(s, c) ==
  [basket EXCEPT ![s].status = "MERGED",
                 ![c].units = [l \in Listings |-> @[l] + basket[s].units[l]]]

\* An empty basket is not claimed, and one merged before is left alone.
Merge(s, c) ==
  /\ MergeAccepted(s, c)
  /\ basket' = IF ToMerge(s) THEN Moved(s, c) ELSE basket
  /\ UNCHANGED <<session, offer, wanted>>

-----------------------------------------------------------------------------
TypeOKServer ==
  /\ session \in [Sessions -> {"UNUSED", "LIVE", "EXPIRED"}]
  /\ basket \in [Owners -> [status : {"ACTIVE", "MERGED"}, units : [Listings -> Nat]]]
  /\ offer \in [Listings -> Offers]
  /\ wanted \in [Listings -> Nat]

\* What people put into baskets is in one basket, once: a merge that is sent
\* again, arrives late or meets another call neither doubles units nor loses
\* them.
EachUnitOnce ==
  \A l \in Listings :
    wanted[l] = MapThenSumSet(LAMBDA o : basket[o].units[l],
                              {o \in Owners : basket[o].status = "ACTIVE"})
=============================================================================
