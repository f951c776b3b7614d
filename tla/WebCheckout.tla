----------------------------- MODULE WebCheckout -----------------------------
(***************************************************************************)
(* The web shop's checkout page (app/checkout/page.tsx) in several tabs of *)
(* one browser: they share the session and one record of an order whose    *)
(* answer is awaited (lib/checkout-recovery.ts); each page keeps what it   *)
(* read of it.  A page that is left goes on with the call it began.        *)
(***************************************************************************)
EXTENDS OrderDesk

CONSTANT Pages      \* bound: checkout pages, open or left behind

VARIABLES
  user,     \* local storage: who is signed in, or None
  record,   \* local storage: the pending order's payload (its owner's), or None
  page,     \* memory: [Pages -> state]
  fate      \* history: [Requests -> what became of its order, as Fates tell]

browser == <<user, record>>
vars == <<desk, browser, page, fate>>

\* `owner' is who the page was last rendered for, `saved' its copy of the
\* record, `task' the order it sends or asks after.
Closed == [open |-> FALSE, owner |-> None, reviewed |-> None, saved |-> None, task |-> None]

Init ==
  /\ InitDesk
  /\ user = None /\ record = None
  /\ page = [t \in Pages |-> Closed]
  /\ fate = [r \in Requests |-> "single"]

Set(t, state) == page' = [page EXCEPT ![t] = state]

Busy(t) == page[t].task # None
Doing(t, kinds) == Busy(t) /\ page[t].task.kind \in kinds
Sending(t) == Doing(t, {"place", "retry"})

\* `fresh': its call and the session are of one sign-in.
Task(kind, p, n) == [kind |-> kind, payload |-> p, call |-> n, fresh |-> TRUE]

\* A page left behind is gone when its task ends.
Done(t, state) == Set(t, IF state.open THEN [state EXCEPT !.task = None] ELSE Closed)

\* readCheckoutRecovery: another owner's record is not for this page.
Own == IF record # None /\ record.of = user THEN record ELSE None

-----------------------------------------------------------------------------
(* What became of an order, as far as its client can know                  *)

\* "told": the client was shown the order, or answered with it; "doubled": its
\* request was last sent while another call of it was at work; "astray": it was
\* doubled and refused, or sent again from a copy when the record was gone.
Fates == {"single", "doubled", "astray", "told"}

\* Nothing more is asked of the client's records.
Settled(r) == fate[r] \in {"told", "astray"}

Told(r) == fate' = [fate EXCEPT ![r] = "told"]

Denied(r) == fate' = [fate EXCEPT ![r] = IF @ = "doubled" THEN "astray" ELSE @]

SentAgain(p) ==
  fate' = [fate EXCEPT ![p.request] =
    IF @ = "told" THEN @
    ELSE IF @ = "astray" \/ record # p THEN "astray"
    ELSE IF UnderWay(p.request) THEN "doubled" ELSE "single"]

-----------------------------------------------------------------------------
(* The page                                                                *)

Open(t) ==
  /\ page[t] = Closed
  /\ Set(t, [Closed EXCEPT !.open = TRUE, !.owner = user, !.saved = Own])
  /\ UNCHANGED <<desk, browser, fate>>

\* A page that finds another owner reads the record again.
Rerender(t) ==
  /\ page[t].open /\ page[t].owner # user
  /\ Set(t, [page[t] EXCEPT !.owner = user, !.saved = Own])
  /\ UNCHANGED <<desk, browser, fate>>

Leave(t) ==
  /\ page[t].open
  /\ Set(t, IF Busy(t) THEN [page[t] EXCEPT !.open = FALSE] ELSE Closed)
  /\ UNCHANGED <<desk, browser, fate>>

\* The browser closes the tab with all it was doing.
Close(t) ==
  /\ Busy(t)
  /\ Set(t, Closed)
  /\ IF Sending(t) THEN Abandon(page[t].task.call) ELSE UNCHANGED desk
  /\ UNCHANGED <<browser, fate>>

\* lib/api.ts: an answer to a call that another session began is an error.
SignIn(a) ==
  /\ user # a /\ user' = a
  /\ page' = [t \in Pages |->
                IF Busy(t) THEN [page[t] EXCEPT !.task.fresh = FALSE] ELSE page[t]]
  /\ UNCHANGED <<desk, record, fate>>

-----------------------------------------------------------------------------
(* A new order                                                             *)

Ready(t) == page[t].open /\ ~Busy(t) /\ page[t].owner # None

\* reviewOrder, to the approved quote
Review(t) ==
  /\ Ready(t) /\ page[t].saved = None /\ page[t].owner = user /\ cart[user] # None
  /\ Set(t, [page[t] EXCEPT !.reviewed = [of |-> user, offer |-> cart[user]]])
  /\ UNCHANGED <<desk, browser, fate>>

\* randomUUID
InUse ==
  LET copies == {record} \cup {page[t].saved : t \in Pages}
                         \cup {page[t].task.payload : t \in {t \in Pages : Busy(t)}}
      posts == {mail[n].payload : n \in {n \in Calls : mail[n] # None}}
  IN {r \in Requests : Settled(r)}
     \cup {p.request : p \in (copies \cup posts) \ {None}}
     \cup {r \in Requests : order[r] # None}

\* Wrong: the record is the page's to write.
WrongMaySave(p) == TRUE

\* saveCheckoutRecovery: never over another checkout's record.
MaySave(p) == record \in {None, p}

\* placeOrder: what is not saved is not sent.
PlaceOrder(t, r, n) ==
  LET p == [request |-> r, of |-> page[t].reviewed.of, offer |-> page[t].reviewed.offer]
  IN /\ Ready(t) /\ page[t].saved = None /\ page[t].reviewed # None
     /\ page[t].owner = page[t].reviewed.of
     /\ r \notin InUse /\ MaySave(p)
     /\ record' = p
     /\ Post(n, p, user)
     /\ Set(t, [page[t] EXCEPT !.saved = p, !.task = Task("place", p, n)])
     /\ UNCHANGED <<user, fate>>

-----------------------------------------------------------------------------
(* The saved order                                                         *)

\* clearCheckoutRecovery
Cleared(t) == IF record = page[t].task.payload THEN None ELSE record

\* retrySavedOrder: the same payload; the record is not looked at.
Retry(t, n) ==
  LET p == page[t].saved
  IN /\ Ready(t) /\ p # None /\ p.of = page[t].owner
     /\ Post(n, p, user)
     /\ Set(t, [page[t] EXCEPT !.task = Task("retry", p, n)])
     /\ SentAgain(p)
     /\ UNCHANGED browser

Reads(t, a) ==
  LET task == page[t].task
  IN Sending(t) /\ task.fresh /\ Answered(task.call) /\ mail[task.call].step = a

\* The order came back; its page follows.
Placed(t) ==
  /\ Reads(t, "placed")
  /\ Read(page[t].task.call)
  /\ record' = Cleared(t)
  /\ Told(page[t].task.payload.request)
  /\ Set(t, Closed)
  /\ UNCHANGED user

\* handleNoWrite
Refused(t) ==
  /\ Reads(t, "refused")
  /\ Read(page[t].task.call)
  /\ record' = Cleared(t)
  /\ Done(t, [page[t] EXCEPT !.saved = None, !.reviewed = None])
  /\ Denied(page[t].task.payload.request)
  /\ UNCHANGED user

\* Anything else leaves the record.
Kept(t) == record

\* A server error, an answer lost on its way back, or one that came after the
\* session changed.
Unsure(t) ==
  /\ Sending(t) /\ Answered(page[t].task.call)
  /\ Read(page[t].task.call)
  /\ record' = Kept(t)
  /\ Done(t, IF Doing(t, {"place"}) THEN [page[t] EXCEPT !.saved = page[t].task.payload]
             ELSE page[t])
  /\ UNCHANGED <<user, fate>>

\* checkSavedOrder
Check(t) ==
  /\ Ready(t) /\ page[t].saved # None /\ page[t].saved.of = page[t].owner
  /\ Set(t, [page[t] EXCEPT !.task = Task("check", page[t].saved, None)])
  /\ UNCHANGED <<desk, browser, fate>>

Found(t) ==
  /\ Doing(t, {"check"}) /\ page[t].task.fresh
  /\ Shows(page[t].task.payload.request, user)
  /\ record' = Cleared(t)
  /\ Told(page[t].task.payload.request)
  /\ Set(t, Closed)
  /\ UNCHANGED <<desk, user>>

\* 404, or no answer
NotFound(t) ==
  /\ Doing(t, {"check"})
  /\ Done(t, page[t])
  /\ UNCHANGED <<desk, browser, fate>>

-----------------------------------------------------------------------------
Next ==
  \/ \E t \in Pages :
       \/ Open(t) \/ Rerender(t) \/ Leave(t) \/ Close(t) \/ Review(t)
       \/ \E n \in Calls : Retry(t, n) \/ \E r \in Requests : PlaceOrder(t, r, n)
       \/ Placed(t) \/ Refused(t) \/ Unsure(t)
       \/ Check(t) \/ Found(t) \/ NotFound(t)
  \/ \E a \in Accounts \cup {None} : SignIn(a)
  \/ ServerNext /\ UNCHANGED <<browser, page, fate>>

Spec == Init /\ [][Next]_vars

-----------------------------------------------------------------------------
(* Properties                                                              *)

TaskType == [kind : {"place", "retry", "check"}, payload : Payload, call : Calls \cup {None},
             fresh : BOOLEAN]
PageState == [open : BOOLEAN, owner : Accounts \cup {None},
              reviewed : [of : Accounts, offer : Offers] \cup {None},
              saved : Payload \cup {None}, task : TaskType \cup {None}]

\* Storage, pages and calls keep their shapes; a page that waits for an answer
\* has a call to get it from.
TypeOK ==
  /\ TypeOKDesk
  /\ user \in Accounts \cup {None} /\ record \in Payload \cup {None}
  /\ page \in [Pages -> PageState]
  /\ \A t \in Pages : Sending(t) => mail[page[t].task.call] # None
  /\ fate \in [Requests -> Fates]

\* An order placed from this browser is one a page was shown, or the record
\* names it, over closed tabs, lost answers, repeated sendings and changes of
\* account.  The exceptions are the requests astray, which the code does not
\* rule out: one of two calls of a request at work together was refused (the
\* record goes, and the other call may yet place the order), or a page sent its
\* copy again when the record named it no longer.
PlacedIsKnown ==
  \A r \in Requests :
    \/ order[r] = None \/ Settled(r)
    \/ record # None /\ record.request = r

\* Of two checkouts in one browser the second waits until the first is known
\* to be placed or refused, whoever is signed in: two orders are never both
\* still to come, unless one of them is of a request astray (see PlacedIsKnown).
OneCheckoutAtATime ==
  LET ToCome == {n \in Calls : mail[n] # None /\ ~Answered(n)
                                 /\ order[mail[n].payload.request] = None
                                 /\ ~Settled(mail[n].payload.request)}
  IN \A m, n \in ToCome : mail[m].payload.request = mail[n].payload.request

\* checkout-recovery.ts: "A POST response that guarantees no order was written
\* can release its saved identity."
ReleasedMeansNoOrder ==
  [][\A t \in Pages : Refused(t) => order[page[t].task.payload.request] = None]_vars
=============================================================================
