----------------------------- MODULE PhoneBasket -----------------------------
(***************************************************************************)
(* The customer app around sign-in (apps/customer-app/lib/api.ts): a       *)
(* guest's session token and a note that its basket still has to be merged *)
(* are kept in the phone's storage, over restarts; the merge is one call   *)
(* at a time, given up after a while although it may still arrive, and     *)
(* tried again until its answer is seen.  A new order waits for that; one  *)
(* whose answer stayed away may be sent again meanwhile.                   *)
(***************************************************************************)
EXTENDS Baskets

CONSTANTS
  Calls,        \* bound: guest calls on their way at a time
  MayLapse      \* sessions whose 30 days may pass

CallsAssumption ==
  /\ MayLapse \subseteq Sessions
  /\ None \notin Calls

VARIABLES
  token, pending, user,  \* storage: guest session, merge note, who is signed in
  lost,      \* storage: [Customers -> the units of an order whose answer stayed away,
             \* Nothing when it has been placed, or None]
  making,    \* memory: the session being started
  signing,   \* memory: the sign-in being finished
  merging,   \* memory: the merge being waited for
  mail,      \* [Calls -> the call on its way, or None]
  brought    \* history: the basket with goods a customer signed in with

storage == <<token, pending, user, lost>>
memory == <<making, signing, merging>>
vars == <<serverVars, storage, memory, mail, brought>>

Init ==
  /\ InitServer
  /\ token = None /\ pending = None /\ user = None /\ lost = [c \in Customers |-> None]
  /\ making = None /\ signing = None /\ merging = None
  /\ mail = [n \in Calls |-> None]
  /\ brought = None

Send(n, call) == mail[n] = None /\ mail' = [mail EXCEPT ![n] = call]

\* authVersion moves on: whatever was started before is not of this session.
Stale == IF merging = None THEN None ELSE [merging EXCEPT !.fresh = FALSE]

-----------------------------------------------------------------------------
(* A guest: until a sign-in moves the version on                           *)

IsGuest == user = None /\ signing = None

\* ensureGuestToken: one session at a time, stored when it comes, whoever has
\* signed in meanwhile.
StartSession(s) ==
  /\ IsGuest /\ token = None /\ making = None
  /\ CreateSession(s)
  /\ making' = s
  /\ UNCHANGED <<storage, signing, merging, mail, brought>>

StoreSession ==
  /\ making # None
  /\ token' = making /\ making' = None
  /\ UNCHANGED <<serverVars, pending, user, lost, signing, merging, mail, brought>>

SendAdd(n, l) ==
  /\ IsGuest /\ token # None
  /\ Send(n, [op |-> "add", session |-> token, listing |-> l])
  /\ UNCHANGED <<serverVars, storage, memory, brought>>

\* The other guest calls, answered.
GuestChange ==
  /\ IsGuest /\ token # None
  /\ \E l \in Listings : \E n \in 0..basket[token].units[l] : UpdateItem(token, l, n)
  /\ UNCHANGED <<storage, memory, mail, brought>>

-----------------------------------------------------------------------------
(* Signing in and out                                                      *)

\* afterLogin: the note first,
Mark(c) ==
  /\ IsGuest
  /\ pending' = IF token = None THEN pending ELSE c
  /\ signing' = c
  /\ UNCHANGED <<serverVars, token, user, lost, making, merging, mail, brought>>

\* then storeAuth.
SignIn ==
  /\ signing # None
  /\ user' = signing /\ signing' = None
  /\ merging' = Stale
  /\ brought' = IF token # None /\ ToMerge(token) THEN token ELSE None
  /\ UNCHANGED <<serverVars, token, pending, lost, making, mail>>

\* clearAuth keeps the guest's token.
SignOut ==
  /\ user # None
  /\ user' = None /\ pending' = None
  /\ merging' = Stale
  /\ brought' = None
  /\ UNCHANGED <<serverVars, token, lost, making, signing, mail>>

\* The app is closed or dies; storage stays.
Crash ==
  /\ making' = None /\ signing' = None /\ merging' = None
  /\ UNCHANGED <<serverVars, storage, mail, brought>>

-----------------------------------------------------------------------------
(* retryBasketMerge                                                        *)

AskMerge(n) ==
  /\ user # None /\ pending = user /\ token # None /\ merging = None
  /\ Send(n, [op |-> "merge", session |-> token, customer |-> user])
  /\ merging' = [call |-> n, session |-> token, user |-> user, fresh |-> TRUE, done |-> FALSE]
  /\ UNCHANGED <<serverVars, storage, making, signing, brought>>

\* Wrong: the note goes with the attempt.
GiveUpForGood ==
  /\ merging # None
  /\ merging' = None /\ pending' = None
  /\ UNCHANGED <<serverVars, token, user, lost, making, signing, mail, brought>>

\* No answer in time, a refusal, or one the app may not use any more.
GiveUp ==
  /\ merging # None
  /\ merging' = None
  /\ UNCHANGED <<serverVars, storage, making, signing, mail, brought>>

\* The answer, in the session it was asked in.
Merged ==
  /\ merging # None /\ merging.done /\ merging.fresh
  /\ user = merging.user /\ token = merging.session
  /\ token' = None /\ pending' = None /\ merging' = None
  /\ UNCHANGED <<serverVars, user, lost, making, signing, mail, brought>>

-----------------------------------------------------------------------------
(* The network and the server                                              *)

Taken(n) == mail' = [mail EXCEPT ![n] = None]

ServeAdd(n) ==
  /\ mail[n] # None /\ mail[n].op = "add"
  /\ AddItem(mail[n].session, mail[n].listing, 1)
  /\ Taken(n)
  /\ UNCHANGED <<storage, memory, brought>>

ServeMerge(n) ==
  /\ mail[n] # None /\ mail[n].op = "merge"
  /\ Merge(mail[n].session, mail[n].customer)
  /\ Taken(n)
  /\ merging' = IF merging # None /\ merging.call = n THEN [merging EXCEPT !.done = TRUE]
                ELSE merging
  /\ UNCHANGED <<storage, making, signing, brought>>

\* Lost on the way, or refused.
Lose(n) ==
  /\ mail[n] # None
  /\ Taken(n)
  /\ UNCHANGED <<serverVars, storage, memory, brought>>

\* A number is free for another call once nobody waits for it.
FreeNumber(n) == ~(merging # None /\ merging.call = n)

\* A customer's basket is in use from every device.
MemberChange(c) ==
  /\ \/ \E l \in Listings : AddItem(c, l, 1)
     \/ \E l \in Listings : \E n \in 0..basket[c].units[l] : UpdateItem(c, l, n)
     \/ Clear(c)
  /\ UNCHANGED <<storage, memory, mail, brought>>

World ==
  /\ \/ \E s \in MayLapse : Lapse(s)
     \/ \E l \in Listings, o \in Offers : Relist(l, o)
  /\ UNCHANGED <<storage, memory, mail, brought>>

-----------------------------------------------------------------------------
(* Orders from this phone (CheckoutScreen.tsx; module PhoneCheckout is the *)
(* detail): the server places them while the basket is as it was approved  *)

\* placeOrder: not beside an earlier order, and not before the merge is confirmed.
MayOrder == user # None /\ lost[user] = None /\ pending # user

PlaceOrder ==
  /\ MayOrder
  /\ CheckOut(user)
  /\ UNCHANGED <<storage, memory, mail, brought>>

\* It is sent, and its answer stays away; it may still arrive.
LoseOrder ==
  /\ MayOrder /\ ~IsEmpty(user)
  /\ lost' = [lost EXCEPT ![user] = basket[user].units]
  /\ UNCHANGED <<serverVars, token, pending, user, memory, mail, brought>>

AsApproved(c) == lost[c] # None /\ lost[c] = basket[c].units

OrderArrives(c) ==
  /\ AsApproved(c) /\ CheckOut(c)
  /\ lost' = [lost EXCEPT ![c] = Nothing]
  /\ UNCHANGED <<token, pending, user, memory, mail, brought>>

\* recoverCheckout: sent again, and answered; no merge is looked for.
RetryOrder ==
  /\ user # None /\ AsApproved(user) /\ CheckOut(user)
  /\ lost' = [lost EXCEPT ![user] = None]
  /\ UNCHANGED <<token, pending, user, memory, mail, brought>>

\* It is found when asked after, or the server answers with it or a refusal
\* when it is sent again.
OrderSettled ==
  /\ user # None /\ lost[user] # None
  /\ lost' = [lost EXCEPT ![user] = None]
  /\ UNCHANGED <<serverVars, token, pending, user, memory, mail, brought>>

-----------------------------------------------------------------------------
Next ==
  \/ \E s \in Sessions : StartSession(s)
  \/ StoreSession \/ GuestChange
  \/ \E c \in Customers : Mark(c) \/ MemberChange(c) \/ OrderArrives(c)
  \/ SignIn \/ SignOut \/ Crash
  \/ GiveUp \/ Merged
  \/ PlaceOrder \/ LoseOrder \/ RetryOrder \/ OrderSettled
  \/ \E n \in Calls :
       \/ \E l \in Listings : FreeNumber(n) /\ SendAdd(n, l)
       \/ AskMerge(n) \/ ServeAdd(n) \/ ServeMerge(n) \/ Lose(n)
  \/ World

Spec == Init /\ [][Next]_vars

-----------------------------------------------------------------------------
(* Properties                                                              *)

CallOn ==
  [op : {"add"}, session : Sessions, listing : Listings]
    \cup [op : {"merge"}, session : Sessions, customer : Customers]

TypeOK ==
  /\ TypeOKServer
  /\ {token, making, brought} \subseteq Sessions \cup {None}
  /\ {pending, user, signing} \subseteq Customers \cup {None}
  /\ lost \in [Customers -> [Listings -> Nat] \cup {None}]
  /\ merging \in [call : Calls, session : Sessions, user : Customers,
                  fresh : BOOLEAN, done : BOOLEAN] \cup {None}
  /\ mail \in [Calls -> CallOn \cup {None}]

GoodsTaken == brought = None \/ basket[brought].status = "MERGED"

\* A new order from the phone never leaves behind the goods its customer signed
\* in with: the app may have been closed in the middle, the merge may have been
\* lost, be late, or be that of whoever was signed in before.  An earlier order
\* that is sent again, or arrives late, may go without them, but then the note
\* that they are still to be merged stays.
OrderTakesGuestItems ==
  [][/\ PlaceOrder \/ LoseOrder => GoodsTaken
     /\ RetryOrder \/ (\E c \in Customers : c = user /\ OrderArrives(c)) =>
          GoodsTaken \/ pending = user]_vars

\* SCREEN_PARITY_MATRIX.md: "Guest cart works without login."
GuestCartWorks == user = None /\ token # None => Answers(token)
=============================================================================
