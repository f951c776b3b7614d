---------------------------- MODULE PhoneCheckout ----------------------------
(***************************************************************************)
(* The customer app's checkout (CheckoutScreen.tsx): an order is written   *)
(* down in the phone's storage before it is sent, and the note goes when   *)
(* its answer comes, or when the customer checks or tries again after an   *)
(* answer that never came.  A screen that is left goes on with the call it *)
(* began; the app may die, and people sign in and out.                     *)
(***************************************************************************)
EXTENDS OrderDesk

CONSTANT Screens      \* bound: the open screen and those left behind

VARIABLES
  user,     \* storage: who is signed in, or None
  record,   \* storage: [Accounts -> the uncertain order's payload, or None]
  screen,   \* memory: [Screens -> state]
  fate,     \* history: [Requests -> what became of its order, as Fates tell]
  crowded   \* history: accounts of which a screen began to send beside a busy one

phone == <<user, record>>
history == <<fate, crowded>>
vars == <<desk, phone, screen, history>>

\* `reviewed' is whose basket the stage review shows; in all other stages it is
\* None, and the way on is a review.
Closed == [open |-> FALSE, uncertain |-> FALSE, canRecover |-> FALSE,
           reviewed |-> None, job |-> None]

Init ==
  /\ InitDesk
  /\ user = None /\ record = [a \in Accounts |-> None]
  /\ screen = [s \in Screens |-> Closed]
  /\ fate = [r \in Requests |-> "single"] /\ crowded = {}

Mine(reviewed) == reviewed # None /\ reviewed.of = user

Unsettled == user # None /\ record[user] # None

Set(s, state) == screen' = [screen EXCEPT ![s] = state]

Doing(s, kind) == screen[s].job # None /\ screen[s].job.kind = kind

\* The task of run() ends; of a screen left behind nothing remains.
Done(s, state) == Set(s, IF state.open THEN [state EXCEPT !.job = None] ELSE Closed)

-----------------------------------------------------------------------------
(* What became of an order, as far as its client can know                  *)

\* "told": the client was shown the order, or answered with it; "doubled": its
\* request was last sent while another call of it was at work; "astray": it was
\* doubled, and refused.
Fates == {"single", "doubled", "astray", "told"}

\* Nothing more is asked of the client's records.
Settled(r) == fate[r] \in {"told", "astray"}

Told(r) == fate' = [fate EXCEPT ![r] = "told"]

Denied(r) == fate' = [fate EXCEPT ![r] = IF @ = "doubled" THEN "astray" ELSE @]

Sent(r) ==
  fate' = [fate EXCEPT ![r] = IF Settled(r) THEN @ ELSE IF UnderWay(r) THEN "doubled" ELSE "single"]

-----------------------------------------------------------------------------
(* The screen                                                              *)

Open(s) ==
  /\ screen[s] = Closed /\ \A t \in Screens : ~screen[t].open
  /\ Set(s, [Closed EXCEPT !.open = TRUE, !.uncertain = Unsettled])
  /\ UNCHANGED <<desk, phone, history>>

\* On focus and on every change of the session.
Refresh(s) ==
  /\ screen[s].open
  /\ Set(s, [screen[s] EXCEPT !.uncertain = Unsettled, !.canRecover = FALSE,
                               !.reviewed = IF Mine(@) THEN @ ELSE None])
  /\ UNCHANGED <<desk, phone, history>>

Leave(s) ==
  /\ screen[s].open
  /\ Set(s, IF screen[s].job = None THEN Closed ELSE [screen[s] EXCEPT !.open = FALSE])
  /\ UNCHANGED <<desk, phone, history>>

\* api.ts, request: an answer to a call that another session began is an error.
SignIn(a) ==
  /\ user # a /\ user' = a
  /\ screen' = [s \in Screens |->
                  IF \E kind \in {"sent", "check"} : Doing(s, kind)
                  THEN [screen[s] EXCEPT !.job.fresh = FALSE] ELSE screen[s]]
  /\ UNCHANGED <<desk, record, history>>

Crash ==
  /\ \E s \in Screens : screen[s] # Closed
  /\ screen' = [s \in Screens |-> Closed]
  /\ mail' = [n \in Calls |->
                IF mail[n] = None \/ Answered(n) THEN None ELSE [mail[n] EXCEPT !.heard = FALSE]]
  /\ UNCHANGED <<cart, order, phone, history>>

-----------------------------------------------------------------------------
(* A task at a time: run()                                                 *)

\* `fresh': its call and the session are of one sign-in.
Job(kind, owner, payload) ==
  [kind |-> kind, owner |-> owner, payload |-> payload, call |-> None, fresh |-> TRUE]

MayBegin(s) == screen[s].open /\ screen[s].job = None /\ user # None

Begin(s, job) == Set(s, [screen[s] EXCEPT !.job = job, !.canRecover = FALSE])

\* assertAccount
Same(s) == user = screen[s].job.owner

\* prepareReview: the signed-in account's basket, with an approved quote for
\* it; a review that fails on the way changes nothing.
Review(s) ==
  /\ MayBegin(s) /\ ~screen[s].uncertain /\ cart[user] # None
  /\ Set(s, [screen[s] EXCEPT !.reviewed = [of |-> user, offer |-> cart[user]]])
  /\ UNCHANGED <<desk, phone, history>>

\* placeOrder: what is not yet known of an earlier order comes first,
PlaceOrder(s) ==
  /\ MayBegin(s) /\ ~screen[s].uncertain /\ screen[s].reviewed # None
  /\ IF Unsettled THEN Set(s, [screen[s] EXCEPT !.uncertain = TRUE])
     ELSE Set(s, [screen[s] EXCEPT !.job = Job("place", user, None)])
  /\ UNCHANGED <<desk, phone, history>>

\* randomUUID
InUse ==
  LET notes == {record[a] : a \in Accounts}
      jobs == {screen[t].job.payload : t \in {t \in Screens : screen[t].job # None}}
      posts == {mail[n].payload : n \in {n \in Calls : mail[n] # None}}
  IN {r \in Requests : Settled(r)}
     \cup {p.request : p \in (notes \cup jobs \cup posts) \ {None}}
     \cup {r \in Requests : order[r] # None}

\* then the basket is read again, and the order gets its id.
Confirm(s, r) ==
  LET now == screen[s]
  IN /\ Doing(s, "place")
     /\ r \notin InUse
     /\ IF Same(s) /\ Mine(now.reviewed) /\ cart[user] = now.reviewed.offer
        THEN Set(s, [now EXCEPT !.job =
               Job("submit", user, [request |-> r, of |-> user, offer |-> cart[user]])])
        ELSE Done(s, [now EXCEPT !.reviewed = None])
     /\ UNCHANGED <<desk, phone, history>>

-----------------------------------------------------------------------------
(* submitCheckout                                                          *)

\* Written before it is sent.
Note(a, p) == [record EXCEPT ![a] = p]

\* The note names this order.
Named(s) ==
  LET job == screen[s].job
  IN record[job.owner] # None /\ record[job.owner].request = job.payload.request

\* Another screen is sending, or asking after, an order of the account.
Busy(s, a) ==
  \E t \in Screens \ {s}, kind \in {"write", "send", "sent", "check"} :
    Doing(t, kind) /\ screen[t].job.owner = a

Look(s) ==
  LET a == screen[s].job.owner
      ahead == Same(s) /\ (record[a] = None \/ Named(s))
  IN /\ Doing(s, "submit")
     /\ IF ahead THEN Set(s, [screen[s] EXCEPT !.job.kind = "write"])
        ELSE IF ~Same(s) THEN Done(s, [screen[s] EXCEPT !.reviewed = None])
        ELSE Done(s, [screen[s] EXCEPT !.uncertain = TRUE])
     /\ crowded' = IF ahead /\ Busy(s, a) THEN crowded \cup {a} ELSE crowded
     /\ UNCHANGED <<desk, phone, fate>>

Write(s) ==
  /\ Doing(s, "write")
  /\ record' = Note(screen[s].job.owner, screen[s].job.payload)
  /\ Set(s, [screen[s] EXCEPT !.job.kind = "send"])
  /\ UNCHANGED <<desk, user, history>>

\* What was written is read again, and sent.
Send(s, n) ==
  LET r == screen[s].job.payload.request
  IN /\ Doing(s, "send") /\ Named(s)
     /\ Sent(r)
     /\ Post(n, screen[s].job.payload, user)
     /\ Set(s, [screen[s] EXCEPT !.job.kind = "sent", !.job.call = n])
     /\ UNCHANGED <<phone, crowded>>

\* "Checkout could not be verified in device storage. No order was sent."
Overwritten(s) ==
  /\ Doing(s, "send") /\ ~Named(s)
  /\ Done(s, screen[s])
  /\ UNCHANGED <<desk, phone, history>>

\* The note of the job's account goes, whatever it names.
Forget(s) == record' = [record EXCEPT ![screen[s].job.owner] = None]

Reads(s, a) ==
  LET job == screen[s].job
  IN Doing(s, "sent") /\ job.fresh /\ Answered(job.call) /\ mail[job.call].step = a

\* The order came back, to whom it was asked for; the order's screen follows.
Placed(s) ==
  /\ Reads(s, "placed") /\ Same(s)
  /\ Read(screen[s].job.call)
  /\ Forget(s)
  /\ Told(screen[s].job.payload.request)
  /\ Set(s, Closed)
  /\ UNCHANGED <<user, crowded>>

\* A refusal is taken to say that nothing was written; after QUOTE_CHANGED the
\* changes are to be reviewed.
Refused(s) ==
  LET r == screen[s].job.payload.request
  IN /\ Reads(s, "refused")
     /\ Read(screen[s].job.call)
     /\ Forget(s)
     /\ \E reviewed \in {screen[s].reviewed, None} :
          Done(s, [screen[s] EXCEPT !.reviewed = reviewed, !.uncertain = FALSE,
                                    !.canRecover = FALSE])
     /\ Denied(r)
     /\ UNCHANGED <<user, crowded>>

\* Wrong: an answer that stays away counts as a refusal.
WrongKeep(s) == [record EXCEPT ![screen[s].job.owner] = None]

\* Whatever the answer was, it does not say enough: the note stays.
Keep(s) == record

\* No answer in 15 seconds (timedFetch), one lost on its way back, a server
\* error, or one that came after the session changed.
Uncertain(s) ==
  LET n == screen[s].job.call
  IN /\ Doing(s, "sent")
     /\ (Answered(n) /\ Read(n)) \/ Abandon(n)
     /\ record' = Keep(s)
     /\ Done(s, [screen[s] EXCEPT !.uncertain = TRUE, !.canRecover = FALSE,
                                  !.reviewed = IF Same(s) THEN @ ELSE None])
     /\ UNCHANGED <<user, history>>

-----------------------------------------------------------------------------
(* An uncertain order                                                      *)

MayCheck(s) == MayBegin(s) /\ screen[s].uncertain /\ record[user] # None

\* checkOrderStatus
Check(s) ==
  /\ MayCheck(s)
  /\ Begin(s, Job("check", user, record[user]))
  /\ UNCHANGED <<desk, phone, history>>

Found(s) ==
  /\ Doing(s, "check") /\ screen[s].job.fresh /\ Same(s)
  /\ Shows(screen[s].job.payload.request, user)
  /\ Forget(s)
  /\ Told(screen[s].job.payload.request)
  /\ Set(s, Closed)
  /\ UNCHANGED <<desk, user, crowded>>

\* 404
NotFound(s) ==
  /\ Doing(s, "check") /\ screen[s].job.fresh
  /\ ~Shows(screen[s].job.payload.request, user)
  /\ Done(s, [screen[s] EXCEPT !.canRecover = TRUE])
  /\ UNCHANGED <<desk, phone, history>>

\* No answer, or the session changed meanwhile.
NoStatus(s) ==
  /\ Doing(s, "check")
  /\ Done(s, screen[s])
  /\ UNCHANGED <<desk, phone, history>>

\* recoverCheckout: the same payload once more
RecoverCheckout(s) ==
  /\ MayCheck(s) /\ screen[s].canRecover
  /\ Begin(s, Job("submit", user, record[user]))
  /\ UNCHANGED <<desk, phone, history>>

-----------------------------------------------------------------------------
Next ==
  \/ \E s \in Screens :
       \/ Open(s) \/ Refresh(s) \/ Leave(s)
       \/ Review(s) \/ PlaceOrder(s)
       \/ \E r \in Requests : Confirm(s, r)
       \/ Look(s) \/ Write(s) \/ (\E n \in Calls : Send(s, n)) \/ Overwritten(s)
       \/ Placed(s) \/ Refused(s) \/ Uncertain(s)
       \/ Check(s) \/ Found(s) \/ NotFound(s) \/ NoStatus(s) \/ RecoverCheckout(s)
  \/ \E a \in Accounts \cup {None} : SignIn(a)
  \/ Crash
  \/ ServerNext /\ UNCHANGED <<phone, screen, history>>

Spec == Init /\ [][Next]_vars

-----------------------------------------------------------------------------
(* Properties                                                              *)

JobType == [kind : {"place", "submit", "write", "send", "sent", "check"}, owner : Accounts,
            payload : Payload \cup {None}, call : Calls \cup {None}, fresh : BOOLEAN]
ScreenState == [open : BOOLEAN, uncertain : BOOLEAN, canRecover : BOOLEAN,
                reviewed : [of : Accounts, offer : Offers] \cup {None},
                job : JobType \cup {None}]

\* Storage, the screens' memory and the calls keep their shapes; a screen's
\* task belongs to an account, and one that sends has an order to send.
TypeOK ==
  /\ TypeOKDesk
  /\ user \in Accounts \cup {None}
  /\ record \in [Accounts -> Payload \cup {None}]
  /\ screen \in [Screens -> ScreenState]
  /\ \A s \in Screens :
       /\ Doing(s, "sent") => screen[s].job.call # None
       /\ screen[s].job # None /\ ~Doing(s, "place") => screen[s].job.payload # None
  /\ fate \in [Requests -> Fates] /\ crowded \subseteq Accounts

\* An order placed from this phone is one the app has seen or has a note of,
\* over crashes, lost answers, repeated sendings and changes of account.  There
\* are two exceptions, which the code does not rule out: an order whose request
\* was sent again while an earlier call of it was still at work, and was refused
\* (the note goes, and the earlier call may yet place it); and the orders of an
\* account of which a screen began to send while another screen was sending or
\* asking after one.
PlacedIsKnown ==
  \A r \in Requests :
    \/ order[r] = None \/ Settled(r)
    \/ record[order[r].of] # None /\ record[order[r].of].request = r
    \/ order[r].of \in crowded

\* CheckoutScreen.tsx: "Only an explicit final-review action can POST an
\* order": a submission begins on the screen that shows the final review.
OnlyReviewPosts ==
  [][\A s \in Screens :
       ~Doing(s, "submit") /\ Doing(s, "submit")' => screen[s].reviewed # None]_vars

\* CheckoutScreen.tsx: "Write before the request: process death must not unlock
\* a new checkout": an answer takes away the note of its own order, not the one
\* written for another since.
NoteGoesWithItsOrder ==
  [][\A s \in Screens : Placed(s) \/ Refused(s) \/ Found(s) =>
       LET job == screen[s].job
           note == record[job.owner]
       IN note = None \/ note.request = job.payload.request]_vars
=============================================================================
