------------------------------- MODULE MCBaskets -------------------------------
(***************************************************************************)
(* Small worlds for PhoneBasket and WebBasket over one CartService.  A run *)
(* looks at one client, chosen at the start: no other knows its guest      *)
(* sessions, and what a customer does elsewhere is MemberChange in both.   *)
(***************************************************************************)
EXTENDS Baskets, TLC

CONSTANTS
  Calls, MayLapse, Tabs,
  Narrow      \* bound: whether the bounds below hold

VARIABLES
  device,      \* "phone" or "browser"
  customers,   \* those who sign in on it
  token, user, \* its storage, of either client
  pending, lost, making, signing, merging, mail, brought,    \* the phone's
  hasLocks, op, lock, shown, given               \* the browser's

world == <<device, customers>>
phoneVars == <<pending, lost, making, signing, merging, mail, brought>>
webVars == <<hasLocks, op, lock, shown, given>>

Phone == INSTANCE PhoneBasket
Web == INSTANCE WebBasket

ASSUME Phone!CallsAssumption
ASSUME DeviceAssumption == Customers # {} /\ Narrow \in BOOLEAN

Scarce == {[stock |-> 2, open |-> TRUE], [stock |-> 1, open |-> FALSE]}

\* Two customers use the phone, one after the other; one uses two tabs.
Init ==
  /\ \/ device = "phone" /\ customers = Customers
     \/ device = "browser" /\ customers = {CHOOSE c \in Customers : TRUE}
  /\ Phone!Init /\ Web!Init
  /\ hasLocks => device = "browser"

OnPhone(Step) == device = "phone" /\ Step /\ UNCHANGED <<world, webVars>>
OnWeb(Step) == device = "browser" /\ Step /\ UNCHANGED <<world, phoneVars>>
OnServer(Step) == Step /\ UNCHANGED <<world, token, user, phoneVars, webVars>>

\* Bound: the answer to one customer's orders may stay away, and until it is known
\* no session ends, no listing changes and baskets are not used elsewhere.
MayLose == Narrow => user = CHOOSE c \in Customers : TRUE
Quiet == Narrow => \A c \in Customers : lost[c] = None

\* Bound: a browser finds out that a listing is gone by a call that fails, as
\* any call may.
MayRelist == (Narrow => device = "phone") /\ Quiet

Next ==
  \/ \E s \in Sessions : OnPhone(Phone!StartSession(s))
  \/ OnPhone(Phone!StoreSession) \/ OnPhone(Phone!GuestChange)
  \/ \E c \in customers : OnPhone(Phone!Mark(c))
  \/ OnPhone(Phone!SignIn) \/ OnPhone(Phone!SignOut) \/ OnPhone(Phone!Crash)
  \/ OnPhone(Phone!GiveUp) \/ OnPhone(Phone!Merged)
  \/ OnPhone(Phone!PlaceOrder) \/ (MayLose /\ OnPhone(Phone!LoseOrder))
  \/ OnPhone(Phone!RetryOrder) \/ OnPhone(Phone!OrderSettled)
  \/ \E c \in customers : OnPhone(Phone!OrderArrives(c))
  \/ \E n \in Calls :
       \/ \E l \in Listings : Phone!FreeNumber(n) /\ OnPhone(Phone!SendAdd(n, l))
       \/ OnPhone(Phone!AskMerge(n)) \/ OnPhone(Phone!ServeAdd(n))
       \/ OnPhone(Phone!ServeMerge(n)) \/ OnPhone(Phone!Lose(n))
  \/ \E t \in Tabs :
       \/ OnWeb(Web!Tap(t)) \/ OnWeb(Web!UseTheirs(t)) \/ OnWeb(Web!Adopt(t))
       \/ \E s \in Sessions : OnWeb(Web!Create(t, s))
       \/ OnWeb(Web!ServeAdd(t)) \/ OnWeb(Web!Show(t)) \/ OnWeb(Web!Fail(t))
       \/ \E c \in customers : OnWeb(Web!SignIn(t, c))
       \/ OnWeb(Web!ServeMerge(t)) \/ OnWeb(Web!EndMerge(t))
  \/ OnWeb(Web!SignOut) \/ OnWeb(Web!StartNew)
  \/ \E c \in customers : Quiet /\ OnPhone(Phone!MemberChange(c))
  \/ \E c \in customers : OnWeb(Web!MemberChange(c))
  \/ \E s \in MayLapse : Quiet /\ OnServer(Lapse(s))
  \/ \E l \in Listings, o \in Offers : MayRelist /\ OnServer(Relist(l, o))

Spec == Init /\ [][Next]_<<serverVars, world, token, user, phoneVars, webVars>>

\* Sound: nothing tells two guest sessions, calls or tabs apart.
Interchangeable ==
  Permutations(Sessions) \cup Permutations(Calls) \cup Permutations(Tabs)

-----------------------------------------------------------------------------
\* Nobody orders on the phone while goods that were in its guest basket when they
\* signed in are not in their basket yet (hasPendingBasketMerge).
OrderTakesGuestItems == Phone!OrderTakesGuestItems

\* Goods a tab has shown stay where the visitor finds them (ensureGuestToken,
\* rawRequest).
ShownGoodsStay == Web!ShownGoodsStay
=============================================================================
