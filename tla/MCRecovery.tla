------------------------------ MODULE MCRecovery ------------------------------
(***************************************************************************)
(* Small worlds for PhoneCheckout and WebCheckout against one OrderDesk.   *)
(* A run looks at one client, chosen at the start: of the other's calls it *)
(* would see no more than a changed basket, which SetCart allows anyway.   *)
(* The client's variables therefore share their names.                     *)
(***************************************************************************)
EXTENDS OrderDesk, TLC

CONSTANTS
  Views,     \* bound: screens or pages, open or left behind
  Narrow     \* bound: whether the bounds below hold

VARIABLES
  client,    \* "phone" or "web"
  people,    \* the accounts that take part
  views,     \* the views they open
  calls,     \* the calls they make at a time
  user, record, screen, page, fate, crowded

world == <<client, people, views, calls>>
memory == <<user, record, screen, page, fate, crowded>>

Phone == INSTANCE PhoneCheckout WITH Screens <- Views
Web == INSTANCE WebCheckout WITH Pages <- Views

ASSUME RecoveryAssumption ==
  /\ None \notin Phone!JobType \cup Web!TaskType
  /\ Narrow \in BOOLEAN

\* Bound: two views of one person's checkout, or one view that two people share.
\* Two views of a phone have one call at a time: with two they are `crowded', or
\* the screen repeats its own, which the one view that is shared does as well.
Init ==
  /\ \/ people = Accounts /\ \E v \in Views : views = {v}
     \/ (\E a \in Accounts : people = {a}) /\ views = Views
     \/ ~Narrow /\ people = Accounts /\ views = Views
  /\ \/ client = "phone" /\ Phone!Init /\ page = None
        /\ IF people = Accounts \/ ~Narrow THEN calls = Calls ELSE \E n \in Calls : calls = {n}
     \/ client = "web" /\ Web!Init /\ screen = None /\ crowded = {} /\ calls = Calls

OnPhone(Step) == client = "phone" /\ Step /\ UNCHANGED <<world, page>>
OnWeb(Step) == client = "web" /\ Step /\ UNCHANGED <<world, screen, crowded>>
OnServer(Step) == Step /\ UNCHANGED <<world, memory>>

\* Bound: only where a phone compares the basket once more before it sends is it
\* emptied from elsewhere; everywhere else the server just refuses to sell it.
MayBecome(o) == Narrow => o # None \/ (client = "phone" /\ views = Views)

\* Bound: one who has two pages open signs out only while each is sending an
\* order.
MayLeave(a) ==
  Narrow => \/ a # None \/ people = Accounts
            \/ \A t \in views : page[t] = Web!Closed \/ Web!Sending(t)

Next ==
  \/ \E s \in views :
       \/ OnPhone(Phone!Open(s)) \/ OnPhone(Phone!Refresh(s)) \/ OnPhone(Phone!Leave(s))
       \/ OnPhone(Phone!Review(s)) \/ OnPhone(Phone!PlaceOrder(s))
       \/ \E r \in Requests : OnPhone(Phone!Confirm(s, r))
       \/ OnPhone(Phone!Look(s)) \/ OnPhone(Phone!Write(s))
       \/ \E n \in calls : OnPhone(Phone!Send(s, n))
       \/ OnPhone(Phone!Overwritten(s))
       \/ OnPhone(Phone!Placed(s)) \/ OnPhone(Phone!Refused(s)) \/ OnPhone(Phone!Uncertain(s))
       \/ OnPhone(Phone!Check(s)) \/ OnPhone(Phone!Found(s)) \/ OnPhone(Phone!NotFound(s))
       \/ OnPhone(Phone!NoStatus(s)) \/ OnPhone(Phone!RecoverCheckout(s))
  \/ \E a \in people \cup {None} : OnPhone(Phone!SignIn(a))
  \/ OnPhone(Phone!Crash)
  \/ \E t \in views :
       \/ OnWeb(Web!Open(t)) \/ OnWeb(Web!Rerender(t)) \/ OnWeb(Web!Leave(t))
       \/ OnWeb(Web!Close(t)) \/ OnWeb(Web!Review(t))
       \/ \E n \in calls : OnWeb(Web!Retry(t, n))
       \/ \E r \in Requests, n \in calls : OnWeb(Web!PlaceOrder(t, r, n))
       \/ OnWeb(Web!Placed(t)) \/ OnWeb(Web!Refused(t)) \/ OnWeb(Web!Unsure(t))
       \/ OnWeb(Web!Check(t)) \/ OnWeb(Web!Found(t)) \/ OnWeb(Web!NotFound(t))
  \/ \E a \in people \cup {None} : OnWeb(MayLeave(a) /\ Web!SignIn(a))
  \/ \E n \in calls :
       \/ OnServer(LookUp(n)) \/ OnServer(Place(n)) \/ OnServer(Refuse(n))
       \/ OnServer(Recover(n)) \/ OnServer(Falter(n))
  \/ \E a \in people, o \in Offers \cup {None} : MayBecome(o) /\ OnServer(SetCart(a, o))

Spec == Init /\ [][Next]_<<desk, world, memory>>

\* Sound: nothing tells two views, calls, ids or accounts apart.
Interchangeable ==
  Permutations(Views) \cup Permutations(Calls)
    \cup Permutations(Requests) \cup Permutations(Accounts)

-----------------------------------------------------------------------------
\* The client's storage and memory and the calls keep their shapes.
TypeOK == IF client = "phone" THEN Phone!TypeOK ELSE Web!TypeOK

\* An order placed from this phone or browser is one its customer was shown, or
\* is written down there, over crashes, closed tabs, lost answers, repeated
\* sendings and changes of account.  What the code loses track of is excused: an
\* order of which one of two calls at work together was refused; on the web one
\* sent again from a page's copy when its record was gone; on the phone those of
\* an account of which one screen began to send while another was sending or
\* asking after one.
PlacedIsKnown == IF client = "phone" THEN Phone!PlacedIsKnown ELSE Web!PlacedIsKnown

\* Of two checkouts in one browser the second waits until the first is known
\* to be placed or refused, whoever is signed in; the same two kinds of requests
\* of the web are excused.
OneCheckoutAtATime == client = "web" => Web!OneCheckoutAtATime
=============================================================================
