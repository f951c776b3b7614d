---------------------------- MODULE RecoveryProofs ----------------------------
(***************************************************************************)
(* What is proved of the checkouts of the phone and of the browser.        *)
(***************************************************************************)
EXTENDS MCRecovery, TLAPS

-----------------------------------------------------------------------------
(* Orders and calls                                                        *)

Mail == {n \in Calls : mail[n] # None}

\* Copies of one request are copies of one order.
Alike(S) == \A p, q \in S \ {None} : p.request = q.request => p = q

DeskInv ==
  /\ \A r \in Requests : order[r] # None => order[r].request = r
  /\ \A r \in Requests : fate[r] = "told" => order[r] # None
  /\ \A n \in Mail : mail[n].step = "placed" => order[mail[n].payload.request] # None

\* While a call may still place its order, or says that it did not, there is none,
\* and it is the only call of its request: unless the request was doubled.
Repeats ==
  /\ \A n \in Mail : mail[n].step \in {"new", "refused"} =>
       order[mail[n].payload.request] = None \/ fate[mail[n].payload.request] # "single"
  /\ \A m, n \in Mail : mail[m].payload.request = mail[n].payload.request =>
       m = n \/ fate[mail[n].payload.request] # "single"

\* A call on its way, and what is known of it.
LEMMA MailFacts ==
  ASSUME TypeOKDesk, NEW n \in Mail
  PROVE  /\ n \in Calls /\ mail[n] \in CallRow /\ mail[n].payload \in Payload
         /\ mail[n].payload.request \in Requests /\ mail[n].payload.of \in Accounts
         /\ mail[n].payload # None /\ mail[n].by \in Accounts \cup {None}
         /\ mail[n].step \in {"sent", "new", "placed", "refused", "unsure"}
         /\ mail[n].heard \in BOOLEAN
BY DeskAssumption DEF Mail, TypeOKDesk, CallRow, Payload, Answers

\* A step of the server for a call.
Handled(n) == LookUp(n) \/ Place(n) \/ Refuse(n) \/ Recover(n) \/ Falter(n)

\* What an answer does to its call.
LEMMA AnswerFacts ==
  ASSUME TypeOKDesk, NEW n \in Mail, NEW a \in Answers, Answer(n, a)
  PROVE  /\ mail' \in [Calls -> CallRow \cup {None}]
         /\ \A m \in Calls \ {n} : mail'[m] = mail[m]
         /\ mail[n].heard => mail'[n] # None /\ mail'[n].step = a
         /\ ~mail[n].heard => mail'[n] = None
         /\ mail'[n] # None => /\ mail'[n].payload = mail[n].payload
                               /\ mail'[n].heard = mail[n].heard
<1> DEFINE x == [mail[n] EXCEPT !.step = a]
<1>1. mail[n] \in CallRow /\ n \in Calls /\ mail \in [Calls -> CallRow \cup {None}]
  BY MailFacts DEF TypeOKDesk
<1>2. /\ x \in CallRow /\ x # None /\ x.step = a
      /\ x.payload = mail[n].payload /\ x.heard = mail[n].heard
  <2>1. x \in CallRow /\ x.step = a /\ x.payload = mail[n].payload /\ x.heard = mail[n].heard
    BY <1>1 DEF CallRow, Answers
  <2> QED  BY <2>1, DeskAssumption
<1>3. mail' = [mail EXCEPT ![n] = IF mail[n].heard THEN x ELSE None]
  BY <1>1 DEF Answer
<1>4. mail[n].heard \in BOOLEAN
  BY <1>1 DEF CallRow
<1> HIDE DEF x
<1> QED  BY <1>1, <1>2, <1>3, <1>4

\* What the server does for a call.
LEMMA HandledFacts ==
  ASSUME TypeOKDesk, DeskInv, NEW n \in Calls, Handled(n), UNCHANGED fate
  PROVE  /\ TypeOKDesk' /\ DeskInv'
         /\ n \in Mail /\ mail[n].step \in {"sent", "new"}
         /\ \A m \in Calls \ {n} : mail'[m] = mail[m]
         /\ mail[n].heard => mail'[n] # None
         /\ mail'[n] # None => /\ mail'[n].payload = mail[n].payload
                               /\ mail'[n].heard = mail[n].heard
                               /\ mail'[n].step \in {"new", "refused"} =>
                                    /\ order' = order
                                    /\ \/ order[mail[n].payload.request] = None
                                       \/ mail[n].step = "new"
         /\ \/ order' = order
            \/ /\ mail[n].step = "new" /\ order[mail[n].payload.request] = None
               /\ order' = [order EXCEPT ![mail[n].payload.request] = mail[n].payload]
<1> DEFINE p == mail[n].payload
           r == p.request
<1>1. n \in Mail /\ mail[n].step \in {"sent", "new"}
  BY DEF Handled, LookUp, Place, Refuse, Recover, Falter, Mail
<1>2. /\ mail[n] \in CallRow /\ p \in Payload /\ r \in Requests /\ p # None
      /\ mail[n].by \in Accounts \cup {None} /\ mail[n].heard \in BOOLEAN
      /\ mail \in [Calls -> CallRow \cup {None}]
      /\ order \in [Requests -> Payload \cup {None}] /\ cart \in [Accounts -> Offers \cup {None}]
  BY <1>1, MailFacts DEF TypeOKDesk
<1> DEFINE Kept == /\ mail' \in [Calls -> CallRow \cup {None}]
                   /\ \A m \in Calls \ {n} : mail'[m] = mail[m]
                   /\ mail[n].heard => mail'[n] # None
                   /\ mail'[n] # None => /\ mail'[n].payload = mail[n].payload
                                         /\ mail'[n].heard = mail[n].heard
<1>3. ASSUME NEW a \in Answers, Answer(n, a)
      PROVE  Kept /\ (mail'[n] # None => mail'[n].step = a)
  BY <1>1, <1>2, <1>3, AnswerFacts
<1>4. CASE LookUp(n) /\ Replay(n) = "new"
  <2> DEFINE x == [mail[n] EXCEPT !.step = "new"]
  <2>1. mail' = [mail EXCEPT ![n] = x] /\ UNCHANGED <<cart, order>> /\ order[r] = None
    BY <1>4 DEF LookUp, Replay
  <2>2. /\ x \in CallRow /\ x.step = "new"
        /\ x.payload = mail[n].payload /\ x.heard = mail[n].heard
    BY <1>2 DEF CallRow
  <2>3. x # None
    BY <2>2, DeskAssumption
  <2> HIDE DEF x
  <2>4. Kept /\ mail'[n].step = "new"
    BY <1>2, <2>1, <2>2, <2>3
  <2>5. \A m \in Mail' : mail'[m].step = "placed" => m # n /\ m \in Mail /\ mail'[m] = mail[m]
    BY <2>4 DEF Mail
  <2>6. TypeOKDesk' /\ DeskInv'
    BY <1>2, <2>1, <2>4, <2>5 DEF TypeOKDesk, DeskInv
  <2> QED  BY <1>1, <2>1, <2>4, <2>6
<1>5. ASSUME NEW a \in Answers, Answer(n, a), UNCHANGED <<cart, order>>,
             a = "placed" => order[r] # None, a = "refused" => mail[n].step = "new"
      PROVE  /\ TypeOKDesk' /\ DeskInv' /\ Kept /\ order' = order
             /\ mail'[n] # None /\ mail'[n].step \in {"new", "refused"} => mail[n].step = "new"
  <2>1. Kept /\ (mail'[n] # None => mail'[n].step = a)
    BY <1>3, <1>5
  <2>2. \A m \in Mail' : mail'[m].step = "placed" => order[mail'[m].payload.request] # None
    <3> TAKE m \in Mail'
    <3>1. CASE m = n
      BY <1>5, <2>1, <3>1 DEF Mail
    <3>2. CASE m # n
      BY <2>1, <3>2 DEF Mail, DeskInv
    <3> QED  BY <3>1, <3>2
  <2>3. TypeOKDesk' /\ DeskInv'
    BY <1>2, <1>5, <2>1, <2>2 DEF TypeOKDesk, DeskInv
  <2> QED  BY <1>5, <2>1, <2>3 DEF Answers
<1>6. CASE LookUp(n) /\ Replay(n) # "new"
  <2>1. Replay(n) \in {"unsure", "placed"} /\ (Replay(n) = "placed" => order[r] # None)
    BY <1>6 DEF Replay, Shows
  <2>2. Answer(n, Replay(n)) /\ UNCHANGED <<cart, order>>
    BY <1>6 DEF LookUp
  <2> QED  BY <1>1, <1>5, <2>1, <2>2 DEF Answers
<1>7. CASE Refuse(n)
  BY <1>1, <1>5, <1>7 DEF Refuse, Answers
<1>8. CASE Recover(n)
  BY <1>1, <1>5, <1>8 DEF Recover, Shows, Answers
<1>9. CASE Falter(n)
  BY <1>1, <1>5, <1>9 DEF Falter, Answers
<1>10. CASE Place(n)
  <2>1. /\ Answer(n, "placed") /\ mail[n].step = "new" /\ order[r] = None
        /\ order' = [order EXCEPT ![r] = p] /\ cart' = [cart EXCEPT ![p.of] = None]
    BY <1>10 DEF Place
  <2>2. Kept /\ (mail'[n] # None => mail'[n].step = "placed")
    BY <1>3, <2>1 DEF Answers
  <2>3. /\ order'[r] = p /\ p.request = r /\ p # None
        /\ \A q \in Requests \ {r} : order'[q] = order[q]
        /\ \A q \in Requests : order[q] # None => order'[q] = order[q]
        /\ order' \in [Requests -> Payload \cup {None}] /\ cart' \in [Accounts -> Offers \cup {None}]
    BY <1>2, <2>1
  <2>4. \A m \in Mail' : mail'[m].step = "placed" => order'[mail'[m].payload.request] # None
    <3> TAKE m \in Mail'
    <3>1. CASE m = n
      BY <2>2, <2>3, <3>1 DEF Mail
    <3>2. CASE m # n
      <4>1. m \in Mail /\ mail'[m] = mail[m]
        BY <2>2, <3>2 DEF Mail
      <4> QED  BY <2>3, <4>1, MailFacts DEF DeskInv
    <3> QED  BY <3>1, <3>2
  <2>5. TypeOKDesk' /\ DeskInv'
    BY <2>2, <2>3, <2>4 DEF TypeOKDesk, DeskInv
  <2> QED  BY <1>1, <2>1, <2>2, <2>5
<1> QED  BY <1>4, <1>6, <1>7, <1>8, <1>9, <1>10 DEF Handled

\* What the server does for a call keeps what is known of repeated requests.
LEMMA HandledRepeats ==
  ASSUME TypeOKDesk, DeskInv, Repeats, NEW n \in Calls, Handled(n), UNCHANGED fate
  PROVE  Repeats'
<1> DEFINE p == mail[n].payload
<1>1. /\ n \in Mail /\ mail[n].step \in {"sent", "new"}
      /\ \A m \in Calls \ {n} : mail'[m] = mail[m]
      /\ mail'[n] # None => /\ mail'[n].payload = mail[n].payload
                            /\ mail'[n].step \in {"new", "refused"} =>
                                 order' = order /\ (order[p.request] = None \/ mail[n].step = "new")
      /\ \/ order' = order
         \/ /\ mail[n].step = "new" /\ order[p.request] = None
            /\ order' = [order EXCEPT ![p.request] = p]
  BY HandledFacts
<1>2. \A m \in Mail : mail[m].payload.request \in Requests
  BY MailFacts
<1>3. \A m \in Mail' : m \in Mail /\ mail'[m].payload = mail[m].payload
  BY <1>1 DEF Mail
<1>4. \A r \in Requests \ {p.request} : order'[r] = order[r]
  BY <1>1, <1>2 DEF TypeOKDesk
<1>5. ASSUME NEW m \in Mail', mail'[m].step \in {"new", "refused"},
             order'[mail'[m].payload.request] # None
      PROVE  fate[mail'[m].payload.request] # "single"
  <2>1. CASE m = n
    BY <1>1, <1>3, <1>5, <2>1 DEF Repeats, Mail
  <2>2. CASE m # n /\ mail[m].payload.request = p.request
    BY <1>1, <1>3, <2>2 DEF Repeats
  <2>3. CASE m # n /\ mail[m].payload.request # p.request
    <3>1. m \in Mail /\ mail'[m] = mail[m] /\ order[mail[m].payload.request] # None
      BY <1>1, <1>2, <1>3, <1>4, <1>5, <2>3 DEF Mail
    <3> QED  BY <1>5, <3>1 DEF Repeats
  <2> QED  BY <2>1, <2>2, <2>3
<1>6. ASSUME NEW l \in Mail', NEW m \in Mail', l # m,
             mail'[l].payload.request = mail'[m].payload.request
      PROVE  fate[mail'[m].payload.request] # "single"
  BY <1>3, <1>6 DEF Repeats
<1> QED  BY <1>5, <1>6 DEF Repeats

\* What becomes of the requests when one of them is sent: a second call at work
\* with another leaves it doubled or astray, and what is told or astray stays so.
Again(r) ==
  /\ \A q \in Requests \ {r} : fate'[q] = fate[q]
  /\ fate'[r] = "told" <=> fate[r] = "told"
  /\ fate[r] \in {"told", "astray"} => fate'[r] \in {"told", "astray"}
  /\ (\E m \in Mail : mail[m].payload.request = r) => fate'[r] # "single"

\* A call that is sent keeps what is known of orders and of repeated requests.
LEMMA PostRepeats ==
  ASSUME TypeOKDesk, DeskInv, Repeats, NEW n \in Calls, NEW r \in Requests, Again(r),
         order' = order, n \notin Mail, n \in Mail',
         mail'[n].payload.request = r, mail'[n].step = "sent",
         \A m \in Calls \ {n} : mail'[m] = mail[m]
  PROVE  DeskInv' /\ Repeats'
<1>1. /\ \A m \in Mail : m \in Mail' /\ mail'[m] = mail[m] /\ m # n
      /\ \A m \in Mail' : m = n \/ m \in Mail
      /\ \A m \in Mail : mail[m].payload.request \in Requests
  BY MailFacts DEF Mail
<1>2. DeskInv'
  BY <1>1 DEF DeskInv, Again
<1>3. ASSUME NEW m \in Mail', mail'[m].step \in {"new", "refused"},
             order'[mail'[m].payload.request] # None
      PROVE  fate'[mail'[m].payload.request] # "single"
  <2>1. m \in Mail /\ mail'[m] = mail[m] /\ fate[mail[m].payload.request] # "single"
    BY <1>1, <1>3 DEF Repeats
  <2> QED  BY <1>1, <2>1 DEF Again
<1>4. ASSUME NEW l \in Mail', NEW m \in Mail', l # m,
             mail'[l].payload.request = mail'[m].payload.request
      PROVE  fate'[mail'[m].payload.request] # "single"
  <2>1. CASE l = n \/ m = n
    <3>1. \E k \in Mail : mail[k].payload.request = r
      BY <1>1, <1>4, <2>1
    <3>2. mail'[m].payload.request = r
      BY <1>4, <2>1
    <3> QED  BY <3>1, <3>2 DEF Again
  <2>2. CASE l # n /\ m # n
    <3>1. m \in Mail /\ mail'[m] = mail[m] /\ fate[mail[m].payload.request] # "single"
      BY <1>1, <1>4, <2>2 DEF Repeats
    <3> QED  BY <1>1, <3>1 DEF Again
  <2> QED  BY <2>1, <2>2
<1> QED  BY <1>2, <1>3, <1>4 DEF Repeats

-----------------------------------------------------------------------------
(* The phone                                                               *)

Kind(s) == IF screen[s].job = None THEN "none" ELSE screen[s].job.kind
Owner(s) == screen[s].job.owner
Works(s) == Kind(s) \in {"write", "send", "sent"}
Engaged(s) == Works(s) \/ Kind(s) = "check"

PhoneCopies ==
  {record[a] : a \in Accounts}
    \cup {screen[s].job.payload : s \in {s \in Views : Kind(s) # "none"}}
    \cup {mail[n].payload : n \in Mail} \cup {order[r] : r \in Requests}

\* Written down, or nothing more is asked of it.
NotedIn(notes, fates, p) == notes[p.of] = p \/ fates[p.request] \in {"told", "astray"}
Noted(p) == NotedIn(record, fate, p)

\* Notes and tasks are about orders of the account that has them.
OwnOrders ==
  /\ \A a \in Accounts : record[a] # None => record[a].of = a
  /\ \A s \in Views : Kind(s) = "submit" \/ Engaged(s) => screen[s].job.payload.of = Owner(s)

\* Who waits for an answer has a call of his own that will bring it.
HasCall ==
  /\ \A s \in Views : Kind(s) = "sent" =>
       LET n == screen[s].job.call
       IN n \in Mail /\ mail[n].heard /\ mail[n].payload = screen[s].job.payload
  /\ \A s, t \in Views :
       Kind(s) = "sent" /\ Kind(t) = "sent" /\ screen[s].job.call = screen[t].job.call => s = t

\* An account that is not crowded has one screen that sends; it, and those that
\* ask after an order, are about the one that is written down.
OneAtATime ==
  /\ \A s, t \in Views : Works(s) /\ Works(t) /\ Owner(s) = Owner(t) =>
       s = t \/ Owner(s) \in crowded
  /\ \A s \in Views : Engaged(s) =>
       record[Owner(s)] \in {screen[s].job.payload, None} \/ Owner(s) \in crowded
  /\ \A s, t \in Views : Works(s) /\ Kind(t) = "check" /\ Owner(s) = Owner(t) =>
       screen[s].job.payload = screen[t].job.payload \/ Owner(s) \in crowded

\* Of an account that is not crowded, what is on its way and what is placed is
\* written down until it is known.
Kept ==
  /\ \A n \in Mail : Noted(mail[n].payload) \/ mail[n].payload.of \in crowded
  /\ \A r \in Requests : order[r] # None => Noted(order[r]) \/ order[r].of \in crowded

PhoneInv ==
  /\ Phone!TypeOK /\ DeskInv /\ Repeats
  /\ Alike(PhoneCopies) /\ OwnOrders /\ HasCall /\ OneAtATime /\ Kept

\* The phone's types, with the module's own names.
PhoneShapes ==
  /\ TypeOKDesk
  /\ user \in Accounts \cup {None}
  /\ record \in [Accounts -> Payload \cup {None}]
  /\ screen \in [Views -> Phone!ScreenState]
  /\ \A s \in Views :
       /\ Kind(s) = "sent" => screen[s].job.call # None
       /\ Kind(s) \notin {"none", "place"} => screen[s].job.payload # None
  /\ fate \in [Requests -> Phone!Fates] /\ crowded \in SUBSET Accounts

\* The phone's type invariant is its shapes, under this module's names.
LEMMA PhoneTypes == Phone!TypeOK <=> PhoneShapes
<1>1. Phone!TypeOKDesk <=> TypeOKDesk
  BY DEF Phone!TypeOKDesk, TypeOKDesk, Phone!Payload, Phone!CallRow, Payload, CallRow,
         Phone!Answers, Answers
<1>2. \A s \in Views : Phone!Doing(s, "sent") <=> Kind(s) = "sent"
  BY DEF Phone!Doing, Kind
<1>3. ASSUME screen \in [Views -> Phone!ScreenState], NEW s \in Views
      PROVE  screen[s].job # None /\ ~Phone!Doing(s, "place") <=> Kind(s) \notin {"none", "place"}
  <2>1. screen[s].job # None => screen[s].job \in Phone!JobType
    BY <1>3 DEF Phone!ScreenState
  <2>2. screen[s].job # None => screen[s].job.kind # "none"
    BY <2>1 DEF Phone!JobType
  <2> QED  BY <2>2 DEF Kind, Phone!Doing
<1>4. Phone!Payload = Payload
  BY DEF Phone!Payload, Payload
<1> QED  BY <1>1, <1>2, <1>3, <1>4 DEF Phone!TypeOK, PhoneShapes

\* A screen with a task.
LEMMA JobFacts ==
  ASSUME Phone!TypeOK, NEW s \in Views, Kind(s) # "none"
  PROVE  /\ screen[s].job # None /\ screen[s].job.kind = Kind(s)
         /\ screen[s].job \in Phone!JobType /\ Owner(s) \in Accounts
         /\ screen[s].job.payload \in Payload \cup {None}
         /\ screen[s].job.call \in Calls \cup {None}
         /\ Kind(s) \in {"place", "submit", "write", "send", "sent", "check"}
         /\ Kind(s) # "place" => screen[s].job.payload \in Payload
         /\ Kind(s) = "sent" => screen[s].job.call \in Calls
<1>1. screen[s] \in Phone!ScreenState
  BY PhoneTypes DEF PhoneShapes
<1>2. screen[s].job # None /\ screen[s].job.kind = Kind(s)
  BY DEF Kind
<1>3. screen[s].job \in Phone!JobType
  BY <1>1, <1>2 DEF Phone!ScreenState
<1>4. /\ Owner(s) \in Accounts /\ screen[s].job.payload \in Payload \cup {None}
      /\ screen[s].job.call \in Calls \cup {None}
      /\ Kind(s) \in {"place", "submit", "write", "send", "sent", "check"}
  BY <1>2, <1>3 DEF Phone!JobType, Phone!Payload, Payload, Owner
<1> QED  BY <1>2, <1>3, <1>4, PhoneTypes DEF PhoneShapes

\* What every step of the phone keeps of its desk and its history.
LEMMA PhoneParts ==
  ASSUME PhoneInv
  PROVE  /\ TypeOKDesk /\ record \in [Accounts -> Payload \cup {None}]
         /\ fate \in [Requests -> Phone!Fates] /\ crowded \in SUBSET Accounts
         /\ \A n \in Mail : mail[n].payload \in PhoneCopies
         /\ \A r \in Requests : order[r] \in PhoneCopies
         /\ \A a \in Accounts : record[a] \in PhoneCopies
         /\ \A s \in Views : Kind(s) # "none" => screen[s].job.payload \in PhoneCopies
BY PhoneTypes DEF PhoneShapes, PhoneInv, PhoneCopies

\* A screen goes on with its task: nothing of it changes but its freshness.
GoesOn(t) ==
  /\ Kind(t)' = Kind(t)
  /\ Kind(t) # "none" => /\ Owner(t)' = Owner(t)
                         /\ screen'[t].job.payload = screen[t].job.payload
                         /\ screen'[t].job.call = screen[t].job.call

\* Tasks end, calls are read or given up, and nothing begins to send or to ask.
Ends ==
  /\ UNCHANGED <<order, record, fate>> /\ (\A a \in crowded : a \in crowded')
  /\ Mail' \subseteq Mail
  /\ \A n \in Mail' : mail'[n].payload = mail[n].payload /\ mail'[n].step = mail[n].step
  /\ \A t \in Views : \/ Kind(t)' = "none"
                      \/ Kind(t)' = "place" /\ screen'[t].job.payload = None
                      \/ GoesOn(t)
  /\ \A t \in Views : Kind(t)' = "sent" /\ Kind(t) = "sent" =>
       LET n == screen[t].job.call IN n \in Mail' /\ mail'[n].heard

\* When calls are read or given up and tasks end, with nothing written, what is
\* known of the phone stays.
LEMMA EndsStep ==
  ASSUME PhoneInv, Phone!TypeOK', Ends
  PROVE  PhoneInv'
<1>1. \A t \in Views : Kind(t)' \notin {"none", "place"} =>
        /\ Kind(t)' = Kind(t) /\ Owner(t)' = Owner(t)
        /\ screen'[t].job.payload = screen[t].job.payload
        /\ screen'[t].job.call = screen[t].job.call
  BY DEF Ends, GoesOn
<1>2. \A t \in Views : (Works(t)' => Works(t)) /\ (Engaged(t)' => Engaged(t))
  BY <1>1 DEF Works, Engaged
<1>3. DeskInv' /\ Repeats'
  BY DEF Ends, DeskInv, Repeats, PhoneInv
<1>4. Alike(PhoneCopies)'
  <2>1. \A t \in Views : Kind(t)' # "none" =>
          \/ screen'[t].job.payload = None
          \/ Kind(t) # "none" /\ screen'[t].job.payload = screen[t].job.payload
    BY DEF Ends, GoesOn
  <2>2. PhoneCopies' \subseteq PhoneCopies \cup {None}
    BY <2>1 DEF Ends, PhoneCopies
  <2> QED  BY <2>2 DEF Alike, PhoneInv
<1>5. OwnOrders'
  BY <1>1 DEF Ends, OwnOrders, PhoneInv, Engaged, Works
<1>6. HasCall'
  BY <1>1 DEF Ends, HasCall, PhoneInv
<1>7. OneAtATime'
  BY <1>1, <1>2 DEF Ends, OneAtATime, PhoneInv, Engaged, Works
<1>8. Kept'
  BY DEF Ends, Kept, PhoneInv, Noted, NotedIn
<1> QED  BY <1>3, <1>4, <1>5, <1>6, <1>7, <1>8 DEF PhoneInv

\* What the other screens keep while one changes its task.
LEMMA OthersFacts ==
  ASSUME NEW s \in Views, \A t \in Views \ {s} : screen'[t].job = screen[t].job
  PROVE  \A t \in Views \ {s} :
           /\ Kind(t)' = Kind(t) /\ Owner(t)' = Owner(t)
           /\ (Works(t)' <=> Works(t)) /\ (Engaged(t)' <=> Engaged(t))
           /\ screen'[t].job.payload = screen[t].job.payload
           /\ screen'[t].job.call = screen[t].job.call
BY DEF Kind, Owner, Works, Engaged

\* A task to submit, to write down or to ask after an order begins on screen s.
LEMMA NewTaskStep ==
  ASSUME PhoneInv, Phone!TypeOK', NEW s \in Views, NEW p \in Payload,
         UNCHANGED <<order, mail, record, fate>>, \A a \in crowded : a \in crowded',
         \A t \in Views \ {s} : screen'[t].job = screen[t].job,
         screen'[s].job.payload = p, Owner(s)' = p.of,
         \/ Kind(s)' = "submit"
         \/ Kind(s)' = "check" /\ record[p.of] = p
         \/ /\ Kind(s)' = "write"
            /\ record[p.of] \in {p, None}
            /\ p.of \in crowded' \/ \A t \in Views \ {s} : Engaged(t) => Owner(t) # p.of,
         \/ p \in PhoneCopies
         \/ \A q \in PhoneCopies \ {None} : q.request # p.request
  PROVE  PhoneInv'
<1>1. \A t \in Views \ {s} :
        /\ Kind(t)' = Kind(t) /\ Owner(t)' = Owner(t)
        /\ (Works(t)' <=> Works(t)) /\ (Engaged(t)' <=> Engaged(t))
        /\ screen'[t].job.payload = screen[t].job.payload
        /\ screen'[t].job.call = screen[t].job.call
  BY OthersFacts
<1>2. Mail' = Mail /\ DeskInv' /\ Repeats' /\ Kind(s)' # "sent" /\ p # None
  BY DeskAssumption DEF Mail, DeskInv, Repeats, PhoneInv
<1>3. Alike(PhoneCopies)'
  <2>1. PhoneCopies' \subseteq PhoneCopies \cup {p}
    BY <1>1, <1>2 DEF PhoneCopies
  <2> QED  BY <2>1 DEF Alike, PhoneInv
<1>4. OwnOrders'
  BY <1>1 DEF OwnOrders, PhoneInv
<1>5. HasCall'
  BY <1>1, <1>2 DEF HasCall, PhoneInv
<1>6. OneAtATime'
  <2>1. OneAtATime
    BY DEF PhoneInv
  <2>2. (\A t \in Views : Engaged(t) =>
           record[Owner(t)] \in {screen[t].job.payload, None} \/ Owner(t) \in crowded)'
    BY <1>1, <2>1 DEF OneAtATime, Engaged, Works
  <2>3. (\A u, t \in Views : Works(u) /\ Works(t) /\ Owner(u) = Owner(t) =>
           u = t \/ Owner(u) \in crowded)'
    BY <1>1, <2>1 DEF OneAtATime, Engaged, Works
  <2>4. ASSUME NEW u \in Views, NEW t \in Views, Works(u)', Kind(t)' = "check",
               Owner(u)' = Owner(t)', Owner(u)' \notin crowded'
        PROVE  screen'[u].job.payload = screen'[t].job.payload
    <3>1. CASE u # s /\ t # s
      BY <1>1, <2>1, <2>4, <3>1 DEF OneAtATime
    <3>2. CASE u = s
      BY <1>1, <2>4, <3>2 DEF Works, Engaged
    <3>3. CASE u # s /\ t = s
      <4>1. Engaged(u) /\ Owner(u) = p.of /\ record[p.of] = p
        BY <1>1, <2>4, <3>3 DEF Engaged, Works
      <4> QED  BY <1>1, <1>2, <2>1, <2>4, <3>3, <4>1 DEF OneAtATime
    <3> QED  BY <3>1, <3>2, <3>3
  <2> QED  BY <2>2, <2>3, <2>4 DEF OneAtATime
<1>7. Kept'
  BY <1>2 DEF Kept, PhoneInv, Noted, NotedIn
<1> QED  BY <1>2, <1>3, <1>4, <1>5, <1>6, <1>7 DEF PhoneInv

\* The order of screen s is written down to be sent.
LEMMA NoteStep ==
  ASSUME PhoneInv, Phone!TypeOK', NEW s \in Views, NEW p \in Payload,
         Kind(s) = "write", screen[s].job.payload = p, Owner(s) = p.of,
         UNCHANGED <<order, mail, fate, crowded>>,
         \A t \in Views \ {s} : screen'[t].job = screen[t].job,
         Kind(s)' = "send", screen'[s].job.payload = p, Owner(s)' = p.of,
         record'[p.of] = p, \A b \in Accounts \ {p.of} : record'[b] = record[b]
  PROVE  PhoneInv'
<1>0. p.of \in Accounts /\ p # None
  BY DeskAssumption DEF Payload
<1>1. \A t \in Views \ {s} :
        /\ Kind(t)' = Kind(t) /\ Owner(t)' = Owner(t)
        /\ (Works(t)' <=> Works(t)) /\ (Engaged(t)' <=> Engaged(t))
        /\ screen'[t].job.payload = screen[t].job.payload
        /\ screen'[t].job.call = screen[t].job.call
  BY OthersFacts
<1>2. Mail' = Mail /\ DeskInv' /\ Repeats' /\ Works(s) /\ Works(s)' /\ Engaged(s) /\ Engaged(s)'
  BY DEF Mail, DeskInv, Repeats, PhoneInv, Works, Engaged
<1>3. Alike(PhoneCopies)'
  <2>1. p \in PhoneCopies
    BY PhoneParts
  <2>2. PhoneCopies' \subseteq PhoneCopies
    BY <1>0, <1>1, <1>2, <2>1 DEF PhoneCopies
  <2> QED  BY <2>2 DEF Alike, PhoneInv
<1>4. OwnOrders'
  BY <1>0, <1>1 DEF OwnOrders, PhoneInv
<1>5. HasCall'
  BY <1>1, <1>2 DEF HasCall, PhoneInv
<1>6. OneAtATime'
  <2>1. OneAtATime
    BY DEF PhoneInv
  <2>2. ASSUME NEW t \in Views, Engaged(t)', Owner(t)' \notin crowded
        PROVE  record'[Owner(t)'] \in {screen'[t].job.payload, None}
    <3>1. CASE t = s
      BY <3>1
    <3>2. CASE t # s
      <4>1. /\ Engaged(t) /\ Owner(t)' = Owner(t) /\ Owner(t) \in Accounts
            /\ screen'[t].job.payload = screen[t].job.payload
        BY <1>1, <2>2, <3>2, JobFacts DEF PhoneInv, Engaged, Works
      <4>2. CASE Owner(t) # p.of
        BY <2>1, <2>2, <4>1, <4>2 DEF OneAtATime
      <4>3. CASE Owner(t) = p.of
        <5>1. ~Works(t)
          BY <1>2, <2>1, <2>2, <3>2, <4>1, <4>3 DEF OneAtATime
        <5>2. screen[t].job.payload = p
          BY <1>2, <2>1, <2>2, <4>1, <4>3, <5>1 DEF OneAtATime, Engaged
        <5> QED  BY <4>1, <4>3, <5>2
      <4> QED  BY <4>2, <4>3
    <3> QED  BY <3>1, <3>2
  <2>3. /\ (\A u, t \in Views : Works(u) /\ Works(t) /\ Owner(u) = Owner(t) =>
              u = t \/ Owner(u) \in crowded)'
        /\ (\A u, t \in Views : Works(u) /\ Kind(t) = "check" /\ Owner(u) = Owner(t) =>
              screen[u].job.payload = screen[t].job.payload \/ Owner(u) \in crowded)'
    BY <1>1, <1>2, <2>1 DEF OneAtATime
  <2> QED  BY <2>2, <2>3 DEF OneAtATime
<1>7. Kept'
  <2>1. \A q : q.of \in Accounts /\ q # None /\ Noted(q) => Noted(q)' \/ q.of \in crowded
    BY <1>0, <1>2 DEF PhoneInv, OneAtATime, Noted, NotedIn
  <2>2. /\ \A m \in Mail : mail[m].payload.of \in Accounts /\ mail[m].payload # None
        /\ \A r \in Requests : order[r] # None => order[r].of \in Accounts
    BY PhoneParts, MailFacts DEF TypeOKDesk, Payload
  <2> QED  BY <1>2, <2>1, <2>2 DEF Kept, PhoneInv
<1> QED  BY <1>2, <1>3, <1>4, <1>5, <1>6, <1>7 DEF PhoneInv

\* The order of screen s is on its way.
LEMMA SendStep ==
  ASSUME PhoneInv, Phone!TypeOK', NEW s \in Views, NEW n \in Calls, NEW p \in Payload,
         Kind(s) = "send", n \notin Mail, screen[s].job.payload = p, record[p.of] = p,
         UNCHANGED <<order, record, crowded>>, Again(p.request),
         \A t \in Views \ {s} : screen'[t].job = screen[t].job,
         Kind(s)' = "sent", screen'[s].job.payload = p,
         screen'[s].job.call = n, Owner(s)' = Owner(s),
         n \in Mail', mail'[n].payload = p, mail'[n].heard, mail'[n].step = "sent",
         \A m \in Calls \ {n} : mail'[m] = mail[m]
  PROVE  PhoneInv'
<1>1. \A t \in Views \ {s} :
        /\ Kind(t)' = Kind(t) /\ Owner(t)' = Owner(t)
        /\ (Works(t)' <=> Works(t)) /\ (Engaged(t)' <=> Engaged(t))
        /\ screen'[t].job.payload = screen[t].job.payload
        /\ screen'[t].job.call = screen[t].job.call
  BY OthersFacts
<1>2. /\ \A m \in Mail : m \in Mail' /\ mail'[m] = mail[m] /\ m # n
      /\ \A m \in Mail' : m = n \/ m \in Mail
      /\ \A m \in Mail : mail[m].payload.request \in Requests
  BY PhoneParts, MailFacts DEF Mail
<1>3. Works(s) /\ Works(s)' /\ Engaged(s) /\ Engaged(s)' /\ p \in PhoneCopies
  BY PhoneParts DEF Works, Engaged
<1>4. p.request \in Requests /\ fate \in [Requests -> Phone!Fates]
  BY PhoneParts DEF Payload
<1>5. \A r \in Requests :
        fate[r] \in {"told", "astray"} => fate'[r] \in {"told", "astray"}
  BY <1>4 DEF Again
<1>6. DeskInv' /\ Repeats'
  BY <1>4, PhoneParts, PostRepeats DEF PhoneInv
<1>8. Alike(PhoneCopies)'
  <2>1. PhoneCopies' \subseteq PhoneCopies
    BY <1>1, <1>2, <1>3 DEF PhoneCopies
  <2> QED  BY <2>1 DEF Alike, PhoneInv
<1>9. OwnOrders'
  BY <1>1, <1>3 DEF OwnOrders, PhoneInv
<1>10. HasCall'
  BY <1>1, <1>2 DEF HasCall, PhoneInv
<1>11. OneAtATime'
  BY <1>1, <1>3 DEF OneAtATime, PhoneInv
<1>12. Kept'
  <2>1. Noted(p)'
    BY DEF Noted, NotedIn
  <2>2. \A q : q.request \in Requests /\ Noted(q) => Noted(q)'
    BY <1>5 DEF Noted, NotedIn
  <2>3. \A r \in Requests : order[r] # None => order[r].request \in Requests
    BY DEF PhoneInv, DeskInv
  <2> QED  BY <1>2, <2>1, <2>2, <2>3 DEF Kept, PhoneInv
<1> QED  BY <1>6, <1>8, <1>9, <1>10, <1>11, <1>12 DEF PhoneInv

\* The note of an account goes: what it names is known, or is not to come.
LEMMA ForgetStep ==
  ASSUME PhoneInv, Phone!TypeOK', NEW s \in Views, NEW p \in Payload,
         Engaged(s), screen[s].job.payload = p, Owner(s) = p.of,
         UNCHANGED <<order, crowded>>,
         record'[p.of] = None, \A b \in Accounts \ {p.of} : record'[b] = record[b],
         \A r \in Requests \ {p.request} : fate'[r] = fate[r],
         fate[p.request] # "single" => fate'[p.request] # "single",
         fate'[p.request] = "told" => order[p.request] # None,
         fate[p.request] \in {"told", "astray"} => fate'[p.request] \in {"told", "astray"},
         screen'[s].job = None, \A t \in Views \ {s} : screen'[t].job = screen[t].job,
         \A m \in Mail' : m \in Mail /\ mail'[m] = mail[m],
         \A t \in Views \ {s} : Kind(t) = "sent" => screen[t].job.call \in Mail',
         \/ fate'[p.request] \in {"told", "astray"}
         \/ order[p.request] = None /\ \A m \in Mail' : mail[m].payload.request # p.request
  PROVE  PhoneInv'
<1>0. p.of \in Accounts /\ p.request \in Requests /\ p # None
  BY DeskAssumption DEF Payload
<1>1. \A t \in Views \ {s} :
        /\ Kind(t)' = Kind(t) /\ Owner(t)' = Owner(t)
        /\ (Works(t)' <=> Works(t)) /\ (Engaged(t)' <=> Engaged(t))
        /\ screen'[t].job.payload = screen[t].job.payload
        /\ screen'[t].job.call = screen[t].job.call
  BY OthersFacts
<1>2. Kind(s)' = "none" /\ ~Works(s)' /\ ~Engaged(s)'
  BY DEF Kind, Works, Engaged
<1>3. \A m \in Mail : mail[m].payload.request \in Requests /\ mail[m].payload \in Payload
  BY PhoneParts, MailFacts
<1>4. DeskInv'
  BY <1>0 DEF DeskInv, PhoneInv
<1>5. Repeats'
  BY <1>0, <1>3 DEF Repeats, PhoneInv
<1>6. Alike(PhoneCopies)'
  <2>1. PhoneCopies' \subseteq PhoneCopies \cup {None}
    BY <1>0, <1>1, <1>2 DEF PhoneCopies
  <2> QED  BY <2>1 DEF Alike, PhoneInv
<1>7. OwnOrders'
  BY <1>0, <1>1, <1>2 DEF OwnOrders, PhoneInv
<1>8. HasCall'
  BY <1>1, <1>2 DEF HasCall, PhoneInv
<1>9. OneAtATime'
  <2>1. \A t \in Views : Engaged(t)' => t # s /\ Owner(t) \in Accounts
    BY <1>1, <1>2, JobFacts DEF PhoneInv, Engaged, Works
  <2>2. \A a \in Accounts : record'[a] = None \/ record'[a] = record[a]
    OBVIOUS
  <2>3. (\A t \in Views : Engaged(t) =>
           record[Owner(t)] \in {screen[t].job.payload, None} \/ Owner(t) \in crowded)'
    BY <1>1, <2>1, <2>2 DEF OneAtATime, PhoneInv
  <2> QED  BY <1>1, <1>2, <2>3 DEF OneAtATime, PhoneInv
<1>10. Kept'
  <2>1. p.of \in crowded \/ record[p.of] \in {p, None}
    BY DEF PhoneInv, OneAtATime
  <2>2. ASSUME NEW q \in Payload, Noted(q), q.of \notin crowded,
               q = p => fate'[p.request] \in {"told", "astray"}
        PROVE  NotedIn(record', fate', q)
    <3>1. q.of \in Accounts /\ q.request \in Requests /\ q # None
      BY DeskAssumption DEF Payload
    <3>2. CASE fate[q.request] \in {"told", "astray"}
      BY <3>1, <3>2 DEF Noted, NotedIn
    <3>3. CASE record[q.of] = q /\ q.of # p.of
      BY <3>1, <3>3 DEF Noted, NotedIn
    <3>4. CASE record[q.of] = q /\ q.of = p.of
      BY <2>1, <2>2, <3>1, <3>4 DEF Noted, NotedIn
    <3> QED  BY <2>2, <3>2, <3>3, <3>4 DEF Noted, NotedIn
  <2>3. ASSUME NEW m \in Mail', mail'[m].payload.of \notin crowded
        PROVE  NotedIn(record', fate', mail'[m].payload)
    <3>1. /\ m \in Mail /\ mail'[m] = mail[m] /\ Noted(mail[m].payload)
          /\ mail[m].payload \in Payload
      BY <1>3, <2>3 DEF Kept, PhoneInv
    <3> QED  BY <2>2, <2>3, <3>1
  <2>4. ASSUME NEW r \in Requests, order[r] # None, order[r].of \notin crowded
        PROVE  NotedIn(record', fate', order[r])
    <3>1. order[r] \in Payload /\ order[r].request = r /\ Noted(order[r])
      BY <2>4, PhoneParts DEF TypeOKDesk, Kept, DeskInv, PhoneInv
    <3> QED  BY <2>2, <2>4, <3>1
  <2> QED  BY <2>3, <2>4 DEF Kept, Noted
<1> QED  BY <1>4, <1>5, <1>6, <1>7, <1>8, <1>9, <1>10 DEF PhoneInv

\* The server answers, or places an order, or does neither.
LEMMA PhoneHandled ==
  ASSUME PhoneInv, NEW n \in Calls, Handled(n), UNCHANGED <<user, record, screen, fate, crowded>>
  PROVE  PhoneInv'
<1> DEFINE p == mail[n].payload
<1>1. /\ TypeOKDesk' /\ DeskInv'
      /\ n \in Mail /\ mail[n].step \in {"sent", "new"}
      /\ \A m \in Calls \ {n} : mail'[m] = mail[m]
      /\ mail[n].heard => mail'[n] # None
      /\ mail'[n] # None => /\ mail'[n].payload = mail[n].payload
                            /\ mail'[n].heard = mail[n].heard
                            /\ mail'[n].step \in {"new", "refused"} =>
                                 order' = order /\ (order[p.request] = None \/ mail[n].step = "new")
      /\ \/ order' = order
         \/ /\ mail[n].step = "new" /\ order[p.request] = None
            /\ order' = [order EXCEPT ![p.request] = p]
  BY HandledFacts, PhoneParts DEF PhoneInv
<1>2. p \in Payload /\ p.request \in Requests /\ p.of \in Accounts /\ p # None /\ p \in PhoneCopies
  BY <1>1, PhoneParts, MailFacts
<1>3. Phone!TypeOK'
  <2>1. PhoneShapes'
    BY <1>1, PhoneTypes DEF PhoneInv, PhoneShapes, Kind
  <2> QED  BY <2>1, PhoneTypes, PTL
<1>4. \A m \in Mail' : /\ m \in Mail /\ mail'[m].payload = mail[m].payload
                       /\ mail'[m].heard = mail[m].heard
  BY <1>1 DEF Mail
<1>5. \A r \in Requests : order'[r] = order[r] \/ (r = p.request /\ order'[r] = p /\ order[r] = None)
  BY <1>1, <1>2, PhoneParts DEF TypeOKDesk
<1>6. Repeats'
  BY <1>1, <1>2, <1>5, PhoneParts, HandledRepeats DEF PhoneInv
<1> HIDE DEF p
<1>7. Alike(PhoneCopies)'
  <2>1. \A r \in Requests : order'[r] \in PhoneCopies
    BY <1>2, <1>5, PhoneParts
  <2>2. \A t \in Views : Kind(t)' = Kind(t)
    BY DEF Kind
  <2>3. PhoneCopies' \subseteq PhoneCopies
    BY <1>4, <2>1, <2>2 DEF PhoneCopies
  <2> QED  BY <2>3 DEF Alike, PhoneInv
<1>8. \A t \in Views : /\ Kind(t)' = Kind(t) /\ Owner(t)' = Owner(t)
                       /\ (Works(t)' <=> Works(t)) /\ (Engaged(t)' <=> Engaged(t))
  BY DEF Kind, Owner, Works, Engaged
<1>9. OwnOrders' /\ OneAtATime'
  BY <1>8 DEF OwnOrders, OneAtATime, PhoneInv
<1>10. HasCall'
  BY <1>1, <1>4, <1>8 DEF HasCall, PhoneInv, Mail
<1>11. Kept'
  <2>1. \A q : Noted(q)' <=> Noted(q)
    BY DEF Noted, NotedIn
  <2>2. Noted(p) \/ p.of \in crowded
    BY <1>1 DEF Kept, PhoneInv, p
  <2> QED  BY <1>4, <1>5, <2>1, <2>2 DEF Kept, PhoneInv
<1> QED  BY <1>1, <1>3, <1>6, <1>7, <1>9, <1>10, <1>11 DEF PhoneInv

-----------------------------------------------------------------------------
(* The client's side of a call                                             *)

\* A call is sent: it is new, it is listened to, and the others stay.
LEMMA PostFacts ==
  ASSUME TypeOKDesk, NEW n \in Calls, NEW p \in Payload, NEW by \in Accounts \cup {None},
         Post(n, p, by)
  PROVE  /\ TypeOKDesk' /\ order' = order
         /\ n \notin Mail /\ n \in Mail' /\ \A m \in Calls \ {n} : mail'[m] = mail[m]
         /\ mail'[n].payload = p /\ mail'[n].heard /\ mail'[n].step = "sent"
<1> DEFINE x == [payload |-> p, by |-> by, step |-> "sent", heard |-> TRUE]
<1>1. mail \in [Calls -> CallRow \cup {None}] /\ x \in CallRow
  BY DEF TypeOKDesk, CallRow
<1>2. x # None /\ x.payload = p /\ x.heard /\ x.step = "sent"
  BY <1>1, DeskAssumption
<1>3. mail[n] = None /\ mail' = [mail EXCEPT ![n] = x] /\ UNCHANGED <<cart, order>>
  BY DEF Post
<1> HIDE DEF x
<1> QED  BY <1>1, <1>2, <1>3 DEF TypeOKDesk, Mail

\* The answer of a call is read, and the call is gone.
LEMMA ReadFacts ==
  ASSUME TypeOKDesk, NEW n \in Calls, Read(n)
  PROVE  /\ TypeOKDesk' /\ order' = order
         /\ \A m \in Mail' : m \in Mail /\ mail'[m] = mail[m] /\ m # n
         /\ \A m \in Mail \ {n} : m \in Mail' /\ mail'[m] = mail[m]
BY DEF Read, TypeOKDesk, Mail

\* Nobody listens to a call any more; the server may still handle it.
LEMMA AbandonFacts ==
  ASSUME TypeOKDesk, NEW n \in Mail, Abandon(n)
  PROVE  /\ TypeOKDesk' /\ order' = order
         /\ \A m \in Mail' : /\ m \in Mail /\ mail'[m].payload = mail[m].payload
                             /\ mail'[m].step = mail[m].step
         /\ \A m \in Mail \ {n} : m \in Mail' /\ mail'[m] = mail[m]
<1> DEFINE x == [mail[n] EXCEPT !.heard = FALSE]
<1>1. mail \in [Calls -> CallRow \cup {None}] /\ mail[n] \in CallRow /\ n \in Calls
  BY MailFacts DEF TypeOKDesk
<1>2. x \in CallRow /\ x.payload = mail[n].payload /\ x.step = mail[n].step
  BY <1>1 DEF CallRow
<1>3. mail' = [mail EXCEPT ![n] = IF Answered(n) THEN None ELSE x] /\ UNCHANGED <<cart, order>>
  BY <1>1 DEF Abandon
<1> HIDE DEF x
<1> QED  BY <1>1, <1>2, <1>3 DEF TypeOKDesk, Mail

-----------------------------------------------------------------------------
(* The phone's steps                                                       *)

\* The new state of one screen.
LEMMA ShapesStep ==
  ASSUME Phone!TypeOK, NEW s \in Views, NEW st \in Phone!ScreenState, Phone!Set(s, st),
         st.job # None => /\ st.job.kind = "sent" => st.job.call # None
                          /\ st.job.kind # "place" => st.job.payload # None,
         TypeOKDesk', user' \in Accounts \cup {None},
         record' \in [Accounts -> Payload \cup {None}],
         fate' \in [Requests -> Phone!Fates], crowded' \in SUBSET Accounts
  PROVE  /\ Phone!TypeOK' /\ screen'[s] = st
         /\ \A t \in Views \ {s} : screen'[t] = screen[t]
<1>1. screen \in [Views -> Phone!ScreenState] /\ screen' = [screen EXCEPT ![s] = st]
  BY PhoneTypes DEF PhoneShapes, Phone!Set
<1>2. /\ screen' \in [Views -> Phone!ScreenState] /\ screen'[s] = st
      /\ \A t \in Views \ {s} : screen'[t] = screen[t]
  BY <1>1
<1>3. \A t \in Views \ {s} : Kind(t)' = Kind(t) /\ screen'[t].job = screen[t].job
  BY <1>2 DEF Kind
<1>4. /\ Kind(s)' = "sent" => screen'[s].job.call # None
      /\ Kind(s)' \notin {"none", "place"} => screen'[s].job.payload # None
  BY <1>2 DEF Kind
<1>5. PhoneShapes'
  BY <1>2, <1>3, <1>4, PhoneTypes DEF PhoneShapes
<1>6. Phone!TypeOK'
  BY <1>5, PhoneTypes, PTL
<1> QED  BY <1>2, <1>6

\* The types of a screen, and of its task.
LEMMA ScreenFacts ==
  ASSUME Phone!TypeOK, NEW s \in Views
  PROVE  /\ screen[s] \in Phone!ScreenState
         /\ screen[s].job # None =>
              /\ screen[s].job.kind = "sent" => screen[s].job.call # None
              /\ screen[s].job.kind # "place" => screen[s].job.payload # None
<1>1. screen[s] \in Phone!ScreenState
  BY PhoneTypes DEF PhoneShapes
<1>2. screen[s].job # None => screen[s].job.kind \in {"place", "submit", "write", "send", "sent", "check"}
  BY <1>1 DEF Phone!ScreenState, Phone!JobType
<1> QED  BY <1>1, <1>2, PhoneTypes DEF PhoneShapes, Kind

\* What a screen is when its task has ended.
Ended(state) == IF state.open THEN [state EXCEPT !.job = None] ELSE Phone!Closed

\* A screen whose task has ended has none.
LEMMA EndedFacts ==
  ASSUME NEW state \in Phone!ScreenState
  PROVE  Ended(state) \in Phone!ScreenState /\ Ended(state).job = None
BY DEF Ended, Phone!ScreenState, Phone!Closed

\* A screen changes, and has its task still, or none, or means to place an order.
LEMMA ScreenStep ==
  ASSUME PhoneInv, NEW s \in Views, NEW st \in Phone!ScreenState, Phone!Set(s, st),
         UNCHANGED <<cart, order, mail, record, fate>>,
         user' \in Accounts \cup {None}, crowded' \in SUBSET Accounts,
         \A a \in crowded : a \in crowded',
         \/ st.job = screen[s].job
         \/ st.job = None
         \/ st.job # None /\ st.job.kind = "place" /\ st.job.payload = None
  PROVE  PhoneInv'
<1>1. Mail' = Mail /\ TypeOKDesk'
  BY PhoneParts DEF Mail, TypeOKDesk
<1>2. Phone!TypeOK' /\ screen'[s] = st /\ \A t \in Views \ {s} : screen'[t] = screen[t]
  <2>1. st.job # None => /\ st.job.kind = "sent" => st.job.call # None
                         /\ st.job.kind # "place" => st.job.payload # None
    BY ScreenFacts DEF PhoneInv
  <2>2. record' \in [Accounts -> Payload \cup {None}] /\ fate' \in [Requests -> Phone!Fates] /\ Phone!TypeOK
    BY PhoneParts DEF PhoneInv
  <2> QED  BY <1>1, <2>1, <2>2, ShapesStep
<1>3. \A t \in Views : \/ Kind(t)' = "none"
                       \/ Kind(t)' = "place" /\ screen'[t].job.payload = None
                       \/ GoesOn(t)
  BY <1>2 DEF Kind, Owner, GoesOn
<1>4. Ends
  BY <1>1, <1>3 DEF Ends, PhoneInv, HasCall
<1> QED  BY <1>2, <1>4, EndsStep

\* A screen's task ends, with nothing written.
LEMMA DoneStep ==
  ASSUME PhoneInv, NEW s \in Views, NEW state \in Phone!ScreenState, Phone!Done(s, state),
         UNCHANGED <<cart, order, mail, record, fate>>,
         user' \in Accounts \cup {None}, crowded' \in SUBSET Accounts,
         \A a \in crowded : a \in crowded'
  PROVE  PhoneInv'
<1>1. Phone!Set(s, Ended(state))
  BY DEF Phone!Done, Ended
<1> QED  BY <1>1, EndedFacts, ScreenStep

\* Screens open, close and show another stage.
LEMMA LooksStep ==
  ASSUME PhoneInv, NEW s \in Views,
         \/ Phone!Open(s) \/ Phone!Refresh(s) \/ Phone!Leave(s) \/ Phone!Review(s)
         \/ Phone!PlaceOrder(s) \/ Phone!NotFound(s) \/ Phone!NoStatus(s) \/ Phone!Overwritten(s)
  PROVE  PhoneInv'
<1>1. /\ Phone!TypeOK /\ TypeOKDesk /\ user \in Accounts \cup {None} /\ crowded \in SUBSET Accounts
      /\ cart \in [Accounts -> Offers \cup {None}] /\ screen[s] \in Phone!ScreenState
  BY PhoneTypes, ScreenFacts DEF PhoneShapes, PhoneInv, TypeOKDesk
<1>2. UNCHANGED <<cart, order, mail, user, record, fate, crowded>>
  BY DEF Phone!Open, Phone!Refresh, Phone!Leave, Phone!Review, Phone!PlaceOrder, Phone!NotFound,
         Phone!NoStatus, Phone!Overwritten, Phone!desk, Phone!phone, Phone!history
<1>3. ASSUME NEW st \in Phone!ScreenState, Phone!Set(s, st),
             \/ st.job = screen[s].job
             \/ st.job = None
             \/ st.job # None /\ st.job.kind = "place" /\ st.job.payload = None
      PROVE  PhoneInv'
  BY <1>1, <1>2, <1>3, ScreenStep
<1>4. ASSUME NEW state \in Phone!ScreenState, Phone!Done(s, state)
      PROVE  PhoneInv'
  BY <1>1, <1>2, <1>4, DoneStep
<1>5. CASE Phone!Open(s)
  <2> DEFINE st == [Phone!Closed EXCEPT !.open = TRUE, !.uncertain = Phone!Unsettled]
  <2>1. st \in Phone!ScreenState /\ st.job = None
    BY DEF Phone!Closed, Phone!Unsettled, Phone!ScreenState
  <2>2. Phone!Set(s, st)
    BY <1>5 DEF Phone!Open
  <2> HIDE DEF st
  <2> QED  BY <1>3, <2>1, <2>2
<1>6. CASE Phone!Refresh(s)
  <2> DEFINE st == [screen[s] EXCEPT !.uncertain = Phone!Unsettled, !.canRecover = FALSE,
                      !.reviewed = IF Phone!Mine(@) THEN @ ELSE None]
  <2>1. st \in Phone!ScreenState /\ st.job = screen[s].job
    BY <1>1 DEF Phone!Unsettled, Phone!ScreenState
  <2>2. Phone!Set(s, st)
    BY <1>6 DEF Phone!Refresh
  <2> HIDE DEF st
  <2> QED  BY <1>3, <2>1, <2>2
<1>7. CASE Phone!Leave(s)
  <2> DEFINE st == IF screen[s].job = None THEN Phone!Closed ELSE [screen[s] EXCEPT !.open = FALSE]
  <2>1. st \in Phone!ScreenState /\ (st.job = screen[s].job \/ st.job = None)
    BY <1>1 DEF Phone!Closed, Phone!ScreenState
  <2>2. Phone!Set(s, st)
    BY <1>7 DEF Phone!Leave
  <2> HIDE DEF st
  <2> QED  BY <1>3, <2>1, <2>2
<1>8. CASE Phone!Review(s)
  <2> DEFINE st == [screen[s] EXCEPT !.reviewed = [of |-> user, offer |-> cart[user]]]
  <2>1. user \in Accounts /\ cart[user] \in Offers
    BY <1>1, <1>8 DEF Phone!Review, Phone!MayBegin
  <2>2. st \in Phone!ScreenState /\ st.job = screen[s].job
    BY <1>1, <2>1 DEF Phone!ScreenState
  <2>3. Phone!Set(s, st)
    BY <1>8 DEF Phone!Review
  <2> HIDE DEF st
  <2> QED  BY <1>3, <2>2, <2>3
<1>9. CASE Phone!PlaceOrder(s) /\ Phone!Unsettled
  <2> DEFINE st == [screen[s] EXCEPT !.uncertain = TRUE]
  <2>1. st \in Phone!ScreenState /\ st.job = screen[s].job
    BY <1>1 DEF Phone!ScreenState
  <2>2. Phone!Set(s, st)
    BY <1>9 DEF Phone!PlaceOrder
  <2> HIDE DEF st
  <2> QED  BY <1>3, <2>1, <2>2
<1>10. CASE Phone!PlaceOrder(s) /\ ~Phone!Unsettled
  <2> DEFINE j == Phone!Job("place", user, None)
             st == [screen[s] EXCEPT !.job = j]
  <2>1. user \in Accounts
    BY <1>1, <1>10 DEF Phone!PlaceOrder, Phone!MayBegin
  <2>2. j \in Phone!JobType /\ j.kind = "place" /\ j.payload = None
    BY <2>1 DEF Phone!Job, Phone!JobType
  <2>3. Phone!Set(s, st)
    BY <1>10 DEF Phone!PlaceOrder
  <2> HIDE DEF j
  <2>4. st \in Phone!ScreenState /\ st.job = j
    BY <1>1, <2>2 DEF Phone!ScreenState
  <2> HIDE DEF st
  <2> QED  BY <1>3, <2>2, <2>3, <2>4
<1>11. CASE Phone!NotFound(s)
  <2> DEFINE st == [screen[s] EXCEPT !.canRecover = TRUE]
  <2>1. st \in Phone!ScreenState
    BY <1>1 DEF Phone!ScreenState
  <2>2. Phone!Done(s, st)
    BY <1>11 DEF Phone!NotFound
  <2> HIDE DEF st
  <2> QED  BY <1>4, <2>1, <2>2
<1>12. CASE Phone!NoStatus(s) \/ Phone!Overwritten(s)
  BY <1>1, <1>4, <1>12 DEF Phone!NoStatus, Phone!Overwritten
<1> QED  BY <1>5, <1>6, <1>7, <1>8, <1>9, <1>10, <1>11, <1>12

\* The app dies, somebody signs in, or the basket changes.
LEMMA AroundStep ==
  ASSUME PhoneInv,
         \/ Phone!Crash
         \/ \E a \in Accounts \cup {None} : Phone!SignIn(a)
         \/ /\ \E a \in Accounts, o \in Offers \cup {None} : SetCart(a, o)
            /\ UNCHANGED <<user, record, screen, fate, crowded>>
  PROVE  PhoneInv'
<1>1. PhoneShapes
  BY PhoneTypes DEF PhoneInv
<1>2. CASE Phone!Crash
  <2>1. /\ screen' = [s \in Views |-> Phone!Closed]
        /\ mail' = [n \in Calls |-> IF mail[n] = None \/ Phone!Answered(n) THEN None
                                    ELSE [mail[n] EXCEPT !.heard = FALSE]]
        /\ UNCHANGED <<cart, order, user, record, fate, crowded>>
    BY <1>2 DEF Phone!Crash, Phone!phone, Phone!history
  <2>2. \A n \in Calls : /\ mail'[n] \in CallRow \cup {None}
                         /\ mail'[n] # None => /\ mail[n] # None
                                               /\ mail'[n].payload = mail[n].payload
                                               /\ mail'[n].step = mail[n].step
    <3> SUFFICES ASSUME NEW n \in Calls, mail'[n] # None
                 PROVE  /\ mail'[n] \in CallRow /\ mail[n] # None
                        /\ mail'[n].payload = mail[n].payload /\ mail'[n].step = mail[n].step
      OBVIOUS
    <3>1. mail[n] # None /\ mail'[n] = [mail[n] EXCEPT !.heard = FALSE]
      BY <2>1
    <3>2. mail[n] \in CallRow
      BY <1>1, <3>1 DEF PhoneShapes, TypeOKDesk
    <3> QED  BY <3>1, <3>2 DEF CallRow
  <2>3. mail' \in [Calls -> CallRow \cup {None}]
    BY <2>1, <2>2
  <2>4. TypeOKDesk'
    BY <1>1, <2>1, <2>3 DEF PhoneShapes, TypeOKDesk
  <2>5. \A s \in Views : screen'[s].job = None /\ Kind(s)' = "none"
    BY <2>1 DEF Phone!Closed, Kind
  <2>6. screen' \in [Views -> Phone!ScreenState]
    BY <2>1 DEF Phone!Closed, Phone!ScreenState
  <2>7. PhoneShapes'
    BY <1>1, <2>1, <2>4, <2>5, <2>6 DEF PhoneShapes
  <2>8. Phone!TypeOK'
    BY <2>7, PhoneTypes, PTL
  <2>9. Ends
    BY <2>1, <2>2, <2>5 DEF Ends, Mail
  <2> QED  BY <2>8, <2>9, EndsStep
<1>3. ASSUME UNCHANGED <<order, mail, user, record, screen, fate, crowded>>,
             cart' \in [Accounts -> Offers \cup {None}]
      PROVE  PhoneInv'
  <2>1. PhoneShapes' /\ Mail' = Mail
    BY <1>1, <1>3 DEF PhoneShapes, TypeOKDesk, Kind, Mail
  <2>2. Phone!TypeOK'
    BY <2>1, PhoneTypes, PTL
  <2>3. Ends
    BY <1>3, <2>1 DEF Ends, GoesOn, Kind, Owner, PhoneInv, HasCall
  <2> QED  BY <2>2, <2>3, EndsStep
<1>4. CASE \E a \in Accounts \cup {None} : Phone!SignIn(a)
  <2> DEFINE Waiting(t) == \E kind \in {"sent", "check"} : Phone!Doing(t, kind)
             stale == [t \in Views |-> IF Waiting(t) THEN [screen[t] EXCEPT !.job.fresh = FALSE]
                                       ELSE screen[t]]
  <2>1. /\ UNCHANGED <<cart, order, mail, record, fate, crowded>> /\ screen' = stale
        /\ user' \in Accounts \cup {None} /\ Mail' = Mail
    BY <1>4 DEF Phone!SignIn, Phone!desk, Phone!history, Mail
  <2>2. ASSUME NEW t \in Views
        PROVE  screen'[t] \in Phone!ScreenState /\ GoesOn(t)
    <3>1. screen[t] \in Phone!ScreenState
      BY <1>1 DEF PhoneShapes
    <3>2. CASE ~Waiting(t)
      BY <2>1, <3>1, <3>2 DEF GoesOn, Kind, Owner
    <3>3. CASE Waiting(t)
      <4> DEFINE j == [screen[t].job EXCEPT !.fresh = FALSE]
      <4>1. screen[t].job # None /\ screen[t].job \in Phone!JobType
        BY <3>1, <3>3 DEF Phone!Doing, Phone!ScreenState
      <4>2. screen'[t] = [screen[t] EXCEPT !.job = j]
        BY <2>1, <3>1, <3>3, <4>1 DEF Phone!ScreenState
      <4>3. /\ j \in Phone!JobType /\ j.kind = screen[t].job.kind /\ j.owner = screen[t].job.owner
            /\ j.payload = screen[t].job.payload /\ j.call = screen[t].job.call
        BY <4>1 DEF Phone!JobType
      <4>4. j # None
        BY <4>3, RecoveryAssumption
      <4> HIDE DEF j
      <4>5. screen'[t] \in Phone!ScreenState /\ screen'[t].job = j
        BY <3>1, <4>2, <4>3 DEF Phone!ScreenState
      <4> QED  BY <4>1, <4>3, <4>4, <4>5 DEF GoesOn, Kind, Owner
    <3> QED  BY <3>2, <3>3
  <2>3. screen' \in [Views -> Phone!ScreenState]
    BY <2>1, <2>2
  <2>4. PhoneShapes'
    BY <1>1, <2>1, <2>2, <2>3 DEF PhoneShapes, TypeOKDesk, GoesOn
  <2>5. Phone!TypeOK'
    BY <2>4, PhoneTypes, PTL
  <2>6. Ends
    BY <2>1, <2>2 DEF Ends, PhoneInv, HasCall
  <2> QED  BY <2>5, <2>6, EndsStep
<1>5. CASE /\ \E a \in Accounts, o \in Offers \cup {None} : SetCart(a, o)
           /\ UNCHANGED <<user, record, screen, fate, crowded>>
  BY <1>1, <1>3, <1>5 DEF SetCart, PhoneShapes, TypeOKDesk
<1> QED  BY <1>2, <1>4, <1>5

\* What a step on a screen with a task may take from its state.
LEMMA TaskFacts ==
  ASSUME PhoneInv, NEW s \in Views, NEW kind, Phone!Doing(s, kind)
  PROVE  /\ Kind(s) = kind /\ Phone!TypeOK /\ screen[s] \in Phone!ScreenState
         /\ screen[s].job # None /\ screen[s].job \in Phone!JobType
         /\ Owner(s) = screen[s].job.owner /\ Owner(s) \in Accounts
         /\ kind # "place" => /\ screen[s].job.payload \in Payload
                              /\ screen[s].job.payload \in PhoneCopies
                              /\ screen[s].job.payload.of = Owner(s)
         /\ user \in Accounts \cup {None} /\ crowded \in SUBSET Accounts
<1>1. Kind(s) = kind /\ Phone!TypeOK /\ screen[s].job # None /\ Owner(s) = screen[s].job.owner
  BY DEF Phone!Doing, Kind, Owner, PhoneInv
<1>2. screen[s] \in Phone!ScreenState
  BY <1>1, ScreenFacts
<1>3. screen[s].job \in Phone!JobType
  BY <1>1, <1>2 DEF Phone!ScreenState
<1>4. Kind(s) # "none"
  BY <1>1, <1>3 DEF Phone!JobType, Phone!Doing, Kind
<1> QED  BY <1>1, <1>2, <1>3, <1>4, JobFacts, PhoneParts, PhoneTypes
      DEF OwnOrders, PhoneInv, PhoneShapes, Engaged, Works

\* The customer confirms: the payload of the order is made, under a new request id.
LEMMA ConfirmStep ==
  ASSUME PhoneInv, NEW s \in Views, NEW r \in Requests, Phone!Confirm(s, r)
  PROVE  PhoneInv'
<1> DEFINE now == screen[s]
           p == [request |-> r, of |-> user, offer |-> cart[user]]
           j == Phone!Job("submit", user, p)
           st == [now EXCEPT !.job = j]
           back == [now EXCEPT !.reviewed = None]
<1>1. Phone!Doing(s, "place")
  BY DEF Phone!Confirm
<1>2. /\ Phone!TypeOK /\ TypeOKDesk /\ now \in Phone!ScreenState /\ now.job # None
      /\ Owner(s) = now.job.owner /\ Owner(s) \in Accounts
      /\ user \in Accounts \cup {None} /\ crowded \in SUBSET Accounts
  BY <1>1, TaskFacts, PhoneParts
<1>3. UNCHANGED <<cart, order, mail, user, record, fate, crowded>>
  BY DEF Phone!Confirm, Phone!desk, Phone!phone, Phone!history
<1>4. \/ Phone!Done(s, back)
      \/ Phone!Set(s, st) /\ user = Owner(s) /\ now.reviewed # None /\ cart[user] = now.reviewed.offer
  BY <1>2 DEF Phone!Confirm, Phone!Same, Phone!Mine
<1>5. CASE Phone!Done(s, back)
  <2>1. back \in Phone!ScreenState
    BY <1>2 DEF Phone!ScreenState
  <2> HIDE DEF back
  <2> QED  BY <1>2, <1>3, <1>5, <2>1, DoneStep
<1>6. CASE Phone!Set(s, st) /\ user = Owner(s) /\ now.reviewed # None /\ cart[user] = now.reviewed.offer
  <2>1. p \in Payload /\ p.of = user /\ p.request = r
    BY <1>2, <1>6 DEF Payload, Phone!ScreenState
  <2>2. p # None
    BY <2>1, DeskAssumption
  <2>3. \A q \in PhoneCopies \ {None} : q.request # p.request
    <3>1. \A q \in PhoneCopies \ {None} : q.request \in Phone!InUse
      <4> SUFFICES ASSUME NEW q \in PhoneCopies, q # None PROVE q.request \in Phone!InUse
        OBVIOUS
      <4>1. CASE q \in {order[x] : x \in Requests}
        BY <4>1 DEF Phone!InUse, DeskInv, PhoneInv
      <4>2. CASE q \in {record[a] : a \in Accounts}
        BY <4>2 DEF Phone!InUse
      <4>3. CASE q \in {screen[t].job.payload : t \in {t \in Views : Kind(t) # "none"}}
        BY <4>3 DEF Phone!InUse, Kind
      <4>4. CASE q \in {mail[n].payload : n \in Mail}
        BY <4>4 DEF Phone!InUse, Mail
      <4> QED  BY <4>1, <4>2, <4>3, <4>4 DEF PhoneCopies
    <3> QED  BY <2>1, <3>1 DEF Phone!Confirm
  <2> HIDE DEF p
  <2>4. j \in Phone!JobType /\ j.kind = "submit" /\ j.payload = p /\ j.owner = user
    BY <1>2, <1>6, <2>1 DEF Phone!Job, Phone!JobType, Phone!Payload, Payload
  <2>5. j # None
    BY <2>4, RecoveryAssumption
  <2> HIDE DEF j
  <2>6. st \in Phone!ScreenState /\ st.job = j
    BY <1>2, <2>4 DEF Phone!ScreenState
  <2> HIDE DEF st
  <2>7. Phone!TypeOK' /\ screen'[s] = st /\ \A t \in Views \ {s} : screen'[t] = screen[t]
    <3>1. TypeOKDesk' /\ record' \in [Accounts -> Payload \cup {None}] /\ fate' \in [Requests -> Phone!Fates]
      BY <1>3, PhoneParts DEF TypeOKDesk
    <3> QED  BY <1>2, <1>3, <1>6, <2>2, <2>4, <2>6, <3>1, ShapesStep
  <2>8. /\ screen'[s].job.payload = p /\ Owner(s)' = p.of /\ Kind(s)' = "submit"
        /\ \A t \in Views \ {s} : screen'[t].job = screen[t].job
    BY <2>1, <2>4, <2>5, <2>6, <2>7 DEF Owner, Kind
  <2> QED  BY <1>3, <2>1, <2>3, <2>7, <2>8, NewTaskStep
<1> QED  BY <1>4, <1>5, <1>6

\* A screen begins to check, or to send again, the order its account has a note of.
LEMMA AgainStep ==
  ASSUME PhoneInv, NEW s \in Views, Phone!Check(s) \/ Phone!RecoverCheckout(s)
  PROVE  PhoneInv'
<1> DEFINE kind == IF Phone!Check(s) THEN "check" ELSE "submit"
           p == record[user]
           j == Phone!Job(kind, user, p)
           st == [screen[s] EXCEPT !.job = j, !.canRecover = FALSE]
<1>1. /\ Phone!TypeOK /\ TypeOKDesk /\ screen[s] \in Phone!ScreenState /\ crowded \in SUBSET Accounts
      /\ user \in Accounts \cup {None} /\ record \in [Accounts -> Payload \cup {None}]
      /\ fate \in [Requests -> Phone!Fates]
  BY PhoneTypes, ScreenFacts DEF PhoneInv, PhoneShapes
<1>2. /\ user \in Accounts /\ p \in Payload /\ p # None
      /\ UNCHANGED <<cart, order, mail, user, record, fate, crowded>>
  BY <1>1 DEF Phone!Check, Phone!RecoverCheckout, Phone!MayCheck, Phone!MayBegin,
              Phone!desk, Phone!phone, Phone!history
<1>3. p.of = user /\ p \in PhoneCopies
  BY <1>2, PhoneParts DEF PhoneInv, OwnOrders
<1>4. Phone!Set(s, st)
  BY DEF Phone!Check, Phone!RecoverCheckout, Phone!Begin
<1>5. kind \in {"check", "submit"}
  OBVIOUS
<1> HIDE DEF kind
<1>6. record[p.of] = p
  BY <1>3
<1> HIDE DEF p
<1>7. j \in Phone!JobType /\ j.kind = kind /\ j.payload = p /\ j.owner = user
  BY <1>2, <1>5 DEF Phone!Job, Phone!JobType, Phone!Payload, Payload
<1> HIDE DEF j
<1>8. st \in Phone!ScreenState /\ st.job = j
  BY <1>1, <1>7 DEF Phone!ScreenState
<1> HIDE DEF st
<1>9. Phone!TypeOK' /\ screen'[s] = st /\ \A t \in Views \ {s} : screen'[t] = screen[t]
  <2>1. TypeOKDesk'
    BY <1>1, <1>2 DEF TypeOKDesk
  <2> QED  BY <1>1, <1>2, <1>4, <1>5, <1>7, <1>8, <2>1, ShapesStep
<1>10. j # None
  BY <1>7, RecoveryAssumption
<1>11. /\ screen'[s].job.payload = p /\ Owner(s)' = p.of /\ Kind(s)' = kind
       /\ \A t \in Views \ {s} : screen'[t].job = screen[t].job
  BY <1>3, <1>7, <1>8, <1>9, <1>10 DEF Owner, Kind
<1> QED  BY <1>2, <1>3, <1>5, <1>6, <1>9, <1>11, NewTaskStep

\* The note of the screen's account, when it names the order of its task, is that order.
LEMMA NamedFacts ==
  ASSUME PhoneInv, NEW s \in Views, Kind(s) = "submit" \/ Works(s), Phone!Named(s)
  PROVE  record[Owner(s)] = screen[s].job.payload
<1>1. /\ Kind(s) # "none" /\ Kind(s) # "place" /\ Owner(s) \in Accounts
      /\ screen[s].job.payload \in Payload
  BY JobFacts DEF PhoneInv, Works
<1>2. /\ screen[s].job.payload # None /\ screen[s].job.payload \in PhoneCopies
      /\ record[Owner(s)] \in PhoneCopies
  BY <1>1, PhoneParts, DeskAssumption
<1> QED  BY <1>2 DEF Phone!Named, Owner, PhoneInv, Alike

\* The attempt goes on, unless the account has a note of another order.
LEMMA LookStep ==
  ASSUME PhoneInv, NEW s \in Views, Phone!Look(s)
  PROVE  PhoneInv'
<1> DEFINE now == screen[s]
           p == now.job.payload
           a == Owner(s)
           ahead == Phone!Same(s) /\ (record[a] = None \/ Phone!Named(s))
           back == [now EXCEPT !.reviewed = None]
           unsure == [now EXCEPT !.uncertain = TRUE]
           st == [now EXCEPT !.job.kind = "write"]
<1>1. Phone!Doing(s, "submit")
  BY DEF Phone!Look
<1>2. /\ Phone!TypeOK /\ TypeOKDesk /\ now \in Phone!ScreenState /\ now.job # None
      /\ Kind(s) = "submit" /\ now.job \in Phone!JobType
      /\ a = now.job.owner /\ a \in Accounts /\ p \in Payload /\ p \in PhoneCopies /\ p.of = a
      /\ user \in Accounts \cup {None} /\ crowded \in SUBSET Accounts
  BY <1>1, TaskFacts, PhoneParts
<1>3. /\ UNCHANGED <<cart, order, mail, user, record, fate>>
      /\ crowded' = IF ahead /\ Phone!Busy(s, a) THEN crowded \cup {a} ELSE crowded
  BY <1>2 DEF Phone!Look, Phone!desk, Phone!phone
<1>4. crowded' \in SUBSET Accounts /\ \A b \in crowded : b \in crowded'
  BY <1>2, <1>3
<1>5. \/ Phone!Done(s, back) \/ Phone!Done(s, unsure)
      \/ ahead /\ Phone!Set(s, st)
  BY <1>2 DEF Phone!Look
<1>6. CASE Phone!Done(s, back) \/ Phone!Done(s, unsure)
  <2>1. back \in Phone!ScreenState /\ unsure \in Phone!ScreenState
    BY <1>2 DEF Phone!ScreenState
  <2> HIDE DEF back, unsure
  <2> QED  BY <1>2, <1>3, <1>4, <1>6, <2>1, DoneStep
<1>7. CASE ahead /\ Phone!Set(s, st)
  <2>1. p # None /\ record[a] \in {p, None}
    BY <1>2, <1>7, NamedFacts, DeskAssumption
  <2> DEFINE j == [now.job EXCEPT !.kind = "write"]
  <2>2. st = [now EXCEPT !.job = j]
    BY <1>2 DEF Phone!ScreenState
  <2>3. j \in Phone!JobType /\ j.kind = "write" /\ j.payload = p /\ j.owner = a
    BY <1>2 DEF Phone!JobType
  <2>4. j # None
    BY <2>3, RecoveryAssumption
  <2> HIDE DEF j
  <2>5. st \in Phone!ScreenState /\ st.job = j
    BY <1>2, <2>2, <2>3 DEF Phone!ScreenState
  <2>6. a \in crowded' \/ \A t \in Views \ {s} : Engaged(t) => Owner(t) # a
    <3> SUFFICES ASSUME NEW t \in Views \ {s}, Engaged(t), Owner(t) = a PROVE Phone!Busy(s, a)
      BY <1>3, <1>7
    <3>1. screen[t].job # None /\ screen[t].job.kind = Kind(t)
      BY <1>2, JobFacts DEF Engaged, Works
    <3>2. \E kind \in {"write", "send", "sent", "check"} : Phone!Doing(t, kind)
      BY <3>1 DEF Phone!Doing, Engaged, Works
    <3> QED  BY <3>2 DEF Phone!Busy, Owner
  <2>7. Phone!Set(s, st)
    BY <1>7
  <2> HIDE DEF st, p, a
  <2>8. Phone!TypeOK' /\ screen'[s] = st /\ \A t \in Views \ {s} : screen'[t] = screen[t]
    <3>1. /\ TypeOKDesk' /\ fate' \in [Requests -> Phone!Fates]
          /\ record' \in [Accounts -> Payload \cup {None}]
      BY <1>3, PhoneParts DEF TypeOKDesk
    <3> QED  BY <1>2, <1>3, <1>4, <2>1, <2>3, <2>5, <2>7, <3>1, ShapesStep
  <2>9. /\ screen'[s].job.payload = p /\ Owner(s)' = p.of /\ Kind(s)' = "write"
        /\ \A t \in Views \ {s} : screen'[t].job = screen[t].job
    BY <1>2, <2>3, <2>4, <2>5, <2>8 DEF Owner, Kind
  <2> QED  BY <1>2, <1>3, <1>4, <2>1, <2>6, <2>8, <2>9, NewTaskStep
<1> QED  BY <1>5, <1>6, <1>7

\* The order is written down.
LEMMA WriteStep ==
  ASSUME PhoneInv, NEW s \in Views, Phone!Write(s)
  PROVE  PhoneInv'
<1> DEFINE now == screen[s]
           p == now.job.payload
           a == Owner(s)
           st == [now EXCEPT !.job.kind = "send"]
           j == [now.job EXCEPT !.kind = "send"]
<1>1. Phone!Doing(s, "write")
  BY DEF Phone!Write
<1>2. /\ Phone!TypeOK /\ TypeOKDesk /\ now \in Phone!ScreenState /\ now.job # None
      /\ Kind(s) = "write" /\ now.job \in Phone!JobType
      /\ a = now.job.owner /\ a \in Accounts /\ p \in Payload /\ p.of = a
      /\ user \in Accounts \cup {None} /\ crowded \in SUBSET Accounts
  BY <1>1, TaskFacts, PhoneParts
<1>3. /\ UNCHANGED <<cart, order, mail, user, fate, crowded>>
      /\ record' = [record EXCEPT ![a] = p] /\ Phone!Set(s, st)
  BY <1>2 DEF Phone!Write, Phone!Note, Phone!desk, Phone!history
<1>4. st = [now EXCEPT !.job = j]
  BY <1>2 DEF Phone!ScreenState
<1>5. j \in Phone!JobType /\ j.kind = "send" /\ j.payload = p /\ j.owner = a
  BY <1>2 DEF Phone!JobType
<1>6. p # None /\ j # None
  BY <1>2, <1>5, RecoveryAssumption, DeskAssumption
<1> HIDE DEF j
<1>7. st \in Phone!ScreenState /\ st.job = j
  BY <1>2, <1>4, <1>5 DEF Phone!ScreenState
<1>8. p = screen[s].job.payload /\ Owner(s) = p.of
  BY <1>2
<1> HIDE DEF st, p, a
<1>9. /\ record' \in [Accounts -> Payload \cup {None}] /\ record'[a] = p
      /\ \A b \in Accounts \ {a} : record'[b] = record[b]
  BY <1>2, <1>3, PhoneParts
<1>10. Phone!TypeOK' /\ screen'[s] = st /\ \A t \in Views \ {s} : screen'[t] = screen[t]
  <2>1. TypeOKDesk' /\ fate' \in [Requests -> Phone!Fates]
    BY <1>3, PhoneParts DEF TypeOKDesk
  <2> QED  BY <1>2, <1>3, <1>5, <1>6, <1>7, <1>9, <2>1, ShapesStep
<1>11. /\ screen'[s].job.payload = p /\ Owner(s)' = p.of /\ Kind(s)' = "send"
       /\ \A t \in Views \ {s} : screen'[t].job = screen[t].job
  BY <1>2, <1>5, <1>6, <1>7, <1>10 DEF Owner, Kind
<1> QED  BY <1>2, <1>3, <1>8, <1>9, <1>10, <1>11, NoteStep

\* The order that was written down is sent.
LEMMA SendingStep ==
  ASSUME PhoneInv, NEW s \in Views, NEW n \in Calls, Phone!Send(s, n)
  PROVE  PhoneInv'
<1> DEFINE now == screen[s]
           p == now.job.payload
           st == [now EXCEPT !.job.kind = "sent", !.job.call = n]
<1>1. Phone!Doing(s, "send")
  BY DEF Phone!Send
<1>2. /\ Phone!TypeOK /\ TypeOKDesk /\ now \in Phone!ScreenState /\ now.job # None
      /\ Kind(s) = "send" /\ now.job \in Phone!JobType
      /\ Owner(s) = now.job.owner /\ Owner(s) \in Accounts /\ p \in Payload /\ p.of = Owner(s)
      /\ user \in Accounts \cup {None} /\ crowded \in SUBSET Accounts
  BY <1>1, TaskFacts, PhoneParts
<1>3. Post(n, p, user) /\ Phone!Set(s, st) /\ UNCHANGED <<user, record, crowded>>
  BY DEF Phone!Send, Phone!Post, Post, Phone!phone
<1>4. record[p.of] = p
  BY <1>2, NamedFacts DEF Phone!Send, Works
<1>5. /\ p.request \in Requests /\ fate' \in [Requests -> Phone!Fates]
      /\ Again(p.request)
  <2>1. p.request \in Requests /\ fate \in [Requests -> Phone!Fates]
    BY <1>2, PhoneParts DEF Payload
  <2>2. Phone!UnderWay(p.request) <=> \E m \in Mail : mail[m].payload.request = p.request
    BY DEF Phone!UnderWay, Mail
  <2>3. fate' = [fate EXCEPT ![p.request] =
           IF fate[p.request] \in {"told", "astray"} THEN fate[p.request]
           ELSE IF Phone!UnderWay(p.request) THEN "doubled" ELSE "single"]
    BY DEF Phone!Send, Phone!Sent, Phone!Settled
  <2> QED  BY <2>1, <2>2, <2>3 DEF Again, Phone!Fates
<1> DEFINE j == [now.job EXCEPT !.kind = "sent", !.call = n]
<1>6. st = [now EXCEPT !.job = j]
  BY <1>2 DEF Phone!ScreenState
<1>7. j \in Phone!JobType /\ j.kind = "sent" /\ j.payload = p /\ j.owner = Owner(s) /\ j.call = n
  BY <1>2 DEF Phone!JobType
<1>8. p # None /\ n # None /\ j # None
  BY <1>2, <1>7, DeskAssumption, RecoveryAssumption
<1> HIDE DEF j
<1>9. st \in Phone!ScreenState /\ st.job = j
  BY <1>2, <1>6, <1>7 DEF Phone!ScreenState
<1>10. p = screen[s].job.payload
  OBVIOUS
<1> HIDE DEF st, p
<1>11. /\ TypeOKDesk' /\ order' = order
       /\ n \notin Mail /\ n \in Mail' /\ \A m \in Calls \ {n} : mail'[m] = mail[m]
       /\ mail'[n].payload = p /\ mail'[n].heard /\ mail'[n].step = "sent"
  BY <1>2, <1>3, PostFacts
<1>12. Phone!TypeOK' /\ screen'[s] = st /\ \A t \in Views \ {s} : screen'[t] = screen[t]
  <2>1. record' \in [Accounts -> Payload \cup {None}]
    BY <1>3, PhoneParts
  <2> QED  BY <1>2, <1>3, <1>5, <1>7, <1>8, <1>9, <1>11, <2>1, ShapesStep
<1>13. /\ screen'[s].job.payload = p /\ Owner(s)' = Owner(s) /\ Kind(s)' = "sent"
       /\ screen'[s].job.call = n
       /\ \A t \in Views \ {s} : screen'[t].job = screen[t].job
  BY <1>7, <1>8, <1>9, <1>12 DEF Owner, Kind
<1> QED  BY <1>2, <1>3, <1>4, <1>5, <1>10, <1>11, <1>12, <1>13, SendStep

\* A screen's call is on its way, and nobody else's.
LEMMA CallFacts ==
  ASSUME PhoneInv, NEW s \in Views, Kind(s) = "sent"
  PROVE  LET n == screen[s].job.call
         IN /\ n \in Mail /\ n \in Calls /\ mail[n].payload = screen[s].job.payload
            /\ \A t \in Views \ {s} : Kind(t) = "sent" =>
                 /\ screen[t].job.call \in Mail \ {n} /\ mail[screen[t].job.call].heard
BY DEF PhoneInv, HasCall, Mail

\* An answer says that the order is there, or that it never will be.
LEMMA AnsweredStep ==
  ASSUME PhoneInv, NEW s \in Views, Phone!Placed(s) \/ Phone!Refused(s)
  PROVE  PhoneInv'
<1> DEFINE n == screen[s].job.call
           p == screen[s].job.payload
           a == Owner(s)
<1>1. Phone!Doing(s, "sent")
  BY DEF Phone!Placed, Phone!Refused, Phone!Reads
<1>2. /\ Phone!TypeOK /\ TypeOKDesk /\ screen[s] \in Phone!ScreenState /\ Kind(s) = "sent"
      /\ a = screen[s].job.owner /\ a \in Accounts /\ p \in Payload /\ p.of = a /\ p \in PhoneCopies
      /\ user \in Accounts \cup {None} /\ crowded \in SUBSET Accounts
  BY <1>1, TaskFacts, PhoneParts
<1>3. /\ n \in Mail /\ n \in Calls /\ mail[n].payload = p
      /\ \A t \in Views \ {s} : Kind(t) = "sent" => screen[t].job.call \in Mail \ {n}
  BY <1>2, CallFacts
<1>4. /\ Read(n) /\ record' = [record EXCEPT ![a] = None] /\ UNCHANGED <<user, crowded>>
  BY <1>2 DEF Phone!Placed, Phone!Refused, Phone!Read, Read, Phone!Forget
<1>5. \E st \in Phone!ScreenState : Phone!Set(s, st) /\ st.job = None
  <2>1. CASE Phone!Placed(s)
    <3>1. Phone!Closed \in Phone!ScreenState /\ Phone!Closed.job = None
      BY DEF Phone!Closed, Phone!ScreenState
    <3> QED  BY <2>1, <3>1 DEF Phone!Placed
  <2>2. CASE Phone!Refused(s)
    <3>1. PICK reviewed \in {screen[s].reviewed, None} :
            Phone!Done(s, [screen[s] EXCEPT !.reviewed = reviewed, !.uncertain = FALSE,
                                            !.canRecover = FALSE])
      BY <2>2 DEF Phone!Refused
    <3> DEFINE st == [screen[s] EXCEPT !.reviewed = reviewed, !.uncertain = FALSE, !.canRecover = FALSE]
    <3>2. st \in Phone!ScreenState
      BY <1>2 DEF Phone!ScreenState
    <3>3. Phone!Set(s, Ended(st))
      BY <3>1 DEF Phone!Done, Ended
    <3> HIDE DEF st
    <3> QED  BY <3>2, <3>3, EndedFacts
  <2> QED  BY <2>1, <2>2
<1>6. PICK st \in Phone!ScreenState : Phone!Set(s, st) /\ st.job = None
  BY <1>5
<1>7. \/ mail[n].step = "placed" /\ fate' = [fate EXCEPT ![p.request] = "told"]
      \/ /\ mail[n].step = "refused"
         /\ fate' = [fate EXCEPT ![p.request] =
                       IF fate[p.request] = "doubled" THEN "astray" ELSE fate[p.request]]
  <2>1. p.request \in Requests /\ fate \in [Requests -> Phone!Fates]
    BY <1>2, PhoneParts DEF Payload
  <2> QED  BY <2>1 DEF Phone!Placed, Phone!Refused, Phone!Reads, Phone!Told, Phone!Denied
<1> HIDE DEF n, p, a
<1>8. /\ TypeOKDesk' /\ order' = order
      /\ \A m \in Mail' : m \in Mail /\ mail'[m] = mail[m] /\ m # n
      /\ \A m \in Mail \ {n} : m \in Mail' /\ mail'[m] = mail[m]
  BY <1>2, <1>3, <1>4, ReadFacts
<1>9. p.request \in Requests /\ p # None
  BY <1>2, DeskAssumption DEF Payload
<1>10. /\ record' \in [Accounts -> Payload \cup {None}] /\ record'[a] = None
       /\ \A b \in Accounts \ {a} : record'[b] = record[b]
  BY <1>2, <1>4, PhoneParts
<1>11. Phone!TypeOK' /\ screen'[s] = st /\ \A t \in Views \ {s} : screen'[t] = screen[t]
  <2>1. fate' \in [Requests -> Phone!Fates]
    BY <1>7, <1>9, PhoneParts DEF Phone!Fates
  <2> QED  BY <1>2, <1>4, <1>6, <1>8, <1>10, <2>1, ShapesStep
<1>12. mail[n].step = "placed" => order[p.request] # None
  BY <1>3 DEF PhoneInv, DeskInv
<1>13. /\ \A r \in Requests \ {p.request} : fate'[r] = fate[r]
       /\ fate[p.request] # "single" => fate'[p.request] # "single"
       /\ fate'[p.request] = "told" => order[p.request] # None
       /\ fate[p.request] \in {"told", "astray"} => fate'[p.request] \in {"told", "astray"}
  BY <1>7, <1>9, <1>12, PhoneParts DEF PhoneInv, DeskInv
<1>14. \/ fate'[p.request] \in {"told", "astray"}
       \/ order[p.request] = None /\ \A m \in Mail' : mail[m].payload.request # p.request
  <2>1. CASE mail[n].step = "placed" \/ fate[p.request] # "single"
    BY <1>7, <1>9, <2>1, PhoneParts DEF Phone!Fates
  <2>2. CASE mail[n].step = "refused" /\ fate[p.request] = "single"
    BY <1>3, <1>8, <2>2 DEF PhoneInv, Repeats
  <2> QED  BY <1>7, <2>1, <2>2
<1>15. screen[s].job.payload = p /\ Owner(s) = p.of /\ Engaged(s)
  BY <1>2 DEF p, a, Engaged, Works
<1>16. screen'[s].job = None /\ \A t \in Views \ {s} : screen'[t].job = screen[t].job
  BY <1>6, <1>11
<1>17. \A t \in Views \ {s} : Kind(t) = "sent" => screen[t].job.call \in Mail'
  BY <1>3, <1>8
<1> QED  BY <1>2, <1>4, <1>8, <1>10, <1>11, <1>13, <1>14, <1>15, <1>16, <1>17, ForgetStep

\* An answer that does not say enough, or none in time.
LEMMA UncertainStep ==
  ASSUME PhoneInv, NEW s \in Views, Phone!Uncertain(s)
  PROVE  PhoneInv'
<1> DEFINE n == screen[s].job.call
           st == [screen[s] EXCEPT !.uncertain = TRUE, !.canRecover = FALSE,
                    !.reviewed = IF Phone!Same(s) THEN @ ELSE None]
<1>1. Phone!Doing(s, "sent")
  BY DEF Phone!Uncertain
<1>2. /\ Phone!TypeOK /\ TypeOKDesk /\ screen[s] \in Phone!ScreenState /\ Kind(s) = "sent"
      /\ user \in Accounts \cup {None} /\ crowded \in SUBSET Accounts
  BY <1>1, TaskFacts, PhoneParts
<1>3. /\ n \in Mail /\ n \in Calls
      /\ \A t \in Views \ {s} : Kind(t) = "sent" =>
           screen[t].job.call \in Mail \ {n} /\ mail[screen[t].job.call].heard
  BY <1>2, CallFacts
<1>4. /\ Read(n) \/ Abandon(n)
      /\ Phone!Done(s, st) /\ UNCHANGED <<user, record, fate, crowded>>
  BY DEF Phone!Uncertain, Phone!Read, Read, Phone!Abandon, Abandon, Phone!Answered, Answered,
         Phone!Answers, Answers, Phone!Keep, Phone!history
<1>5. st \in Phone!ScreenState
  BY <1>2 DEF Phone!ScreenState
<1> HIDE DEF n, st
<1>6. /\ TypeOKDesk' /\ order' = order
      /\ \A m \in Mail' : /\ m \in Mail /\ mail'[m].payload = mail[m].payload
                          /\ mail'[m].step = mail[m].step
      /\ \A m \in Mail \ {n} : m \in Mail' /\ mail'[m] = mail[m]
  BY <1>2, <1>3, <1>4, ReadFacts, AbandonFacts
<1>7. Phone!Set(s, Ended(st))
  BY <1>4 DEF Phone!Done, Ended
<1>8. Phone!TypeOK' /\ screen'[s] = Ended(st) /\ \A t \in Views \ {s} : screen'[t] = screen[t]
  <2>1. record' \in [Accounts -> Payload \cup {None}] /\ fate' \in [Requests -> Phone!Fates]
    BY <1>4, PhoneParts
  <2>2. Ended(st) \in Phone!ScreenState /\ Ended(st).job = None
    BY <1>5, EndedFacts
  <2> QED  BY <1>2, <1>4, <1>6, <1>7, <2>1, <2>2, ShapesStep
<1>9. Ended(st).job = None
  BY <1>5, EndedFacts
<1>10. Ends
  <2>1. \A t \in Views : screen'[t].job = None \/ (t # s /\ screen'[t].job = screen[t].job)
    BY <1>8, <1>9
  <2>2. \A t \in Views : Kind(t)' = "sent" => t # s
    BY <1>8, <1>9 DEF Kind
  <2>3. \A t \in Views : Kind(t)' = "none" \/ GoesOn(t)
    BY <2>1 DEF Kind, Owner, GoesOn
  <2> QED  BY <1>3, <1>4, <1>6, <2>2, <2>3 DEF Ends
<1> QED  BY <1>8, <1>10, EndsStep

\* The server says that the order is there, and the note goes.
LEMMA FoundStep ==
  ASSUME PhoneInv, NEW s \in Views, Phone!Found(s)
  PROVE  PhoneInv'
<1> DEFINE p == screen[s].job.payload
           a == Owner(s)
<1>1. Phone!Doing(s, "check")
  BY DEF Phone!Found
<1>2. /\ Phone!TypeOK /\ TypeOKDesk /\ Kind(s) = "check"
      /\ a = screen[s].job.owner /\ a \in Accounts /\ p \in Payload /\ p.of = a
      /\ user \in Accounts \cup {None} /\ crowded \in SUBSET Accounts
  BY <1>1, TaskFacts, PhoneParts
<1>3. /\ order[p.request] # None /\ record' = [record EXCEPT ![a] = None]
      /\ fate' = [fate EXCEPT ![p.request] = "told"] /\ Phone!Set(s, Phone!Closed)
      /\ UNCHANGED <<cart, order, mail, user, crowded>>
  BY <1>2 DEF Phone!Found, Phone!Shows, Phone!Forget, Phone!Told, Phone!desk
<1> HIDE DEF p, a
<1>4. Phone!Closed \in Phone!ScreenState /\ Phone!Closed.job = None
  BY DEF Phone!Closed, Phone!ScreenState
<1>5. p.request \in Requests /\ Mail' = Mail
  BY <1>2, <1>3 DEF Payload, Mail
<1>6. /\ record' \in [Accounts -> Payload \cup {None}] /\ record'[a] = None
      /\ \A b \in Accounts \ {a} : record'[b] = record[b]
  BY <1>2, <1>3, PhoneParts
<1>7. Phone!TypeOK' /\ screen'[s] = Phone!Closed /\ \A t \in Views \ {s} : screen'[t] = screen[t]
  <2>1. fate' \in [Requests -> Phone!Fates] /\ TypeOKDesk'
    BY <1>2, <1>3, <1>5, PhoneParts DEF TypeOKDesk, Phone!Fates
  <2> QED  BY <1>2, <1>3, <1>4, <1>6, <2>1, ShapesStep
<1>8. screen[s].job.payload = p /\ Owner(s) = p.of /\ Engaged(s)
  BY <1>2 DEF p, a, Engaged
<1>9. \A t \in Views \ {s} : Kind(t) = "sent" => screen[t].job.call \in Mail'
  BY <1>5 DEF PhoneInv, HasCall
<1>10. /\ \A r \in Requests \ {p.request} : fate'[r] = fate[r]
       /\ fate'[p.request] = "told"
  BY <1>3, <1>5, PhoneParts
<1>11. screen'[s].job = None /\ \A t \in Views \ {s} : screen'[t].job = screen[t].job
  BY <1>4, <1>7
<1>12. \A m \in Mail' : m \in Mail /\ mail'[m] = mail[m]
  BY <1>3, <1>5
<1> QED  BY <1>2, <1>3, <1>5, <1>6, <1>7, <1>8, <1>9, <1>10, <1>11, <1>12, ForgetStep

-----------------------------------------------------------------------------
(* The web shop                                                            *)

Waits(t) == page[t].task # None /\ page[t].task.kind \in {"place", "retry"}

WebShapes ==
  /\ TypeOKDesk
  /\ user \in Accounts \cup {None} /\ record \in Payload \cup {None}
  /\ page \in [Views -> Web!PageState]
  /\ fate \in [Requests -> Web!Fates]

\* A page that waits for an answer has a call of its own that will bring it.
WebHasCall ==
  /\ \A t \in Views : Waits(t) =>
       LET n == page[t].task.call
       IN n \in Mail /\ mail[n].heard /\ mail[n].payload = page[t].task.payload
  /\ \A s, t \in Views : Waits(s) /\ Waits(t) /\ page[s].task.call = page[t].task.call => s = t

\* Written down, or nothing more is asked of it.
WebNotedIn(note, fates, p) == note = p \/ fates[p.request] \in {"told", "astray"}

\* What is on its way and what is placed is written down until it is known.
WebKept ==
  /\ \A n \in Mail : WebNotedIn(record, fate, mail[n].payload)
  /\ \A r \in Requests : order[r] # None => WebNotedIn(record, fate, order[r])

WebInv == WebShapes /\ DeskInv /\ Repeats /\ WebHasCall /\ WebKept

\* What is known of the browser implies its type invariant.
LEMMA WebTypes == WebInv => Web!TypeOK
<1> SUFFICES ASSUME WebInv PROVE Web!TypeOK
  OBVIOUS
<1>1. Web!TypeOKDesk
  BY DEF WebInv, WebShapes, Web!TypeOKDesk, TypeOKDesk, Web!Payload, Web!CallRow, Payload, CallRow,
         Web!Answers, Answers
<1>2. \A t \in Views : Web!Sending(t) => mail[page[t].task.call] # None
  BY DEF WebInv, WebHasCall, Waits, Mail, Web!Sending, Web!Doing, Web!Busy
<1> QED  BY <1>1, <1>2 DEF WebInv, WebShapes, Web!TypeOK, Web!Payload, Payload

\* A page and its task.
LEMMA PageFacts ==
  ASSUME WebInv, NEW t \in Views
  PROVE  /\ page[t] \in Web!PageState
         /\ page[t].task # None => /\ page[t].task \in Web!TaskType
                                   /\ page[t].task.payload \in Payload
         /\ page[t].saved \in Payload \cup {None} /\ page[t].owner \in Accounts \cup {None}
         /\ Waits(t) <=> Web!Sending(t)
         /\ TypeOKDesk /\ user \in Accounts \cup {None} /\ record \in Payload \cup {None}
         /\ fate \in [Requests -> Web!Fates]
<1>1. page[t] \in Web!PageState
  BY DEF WebInv, WebShapes
<1> QED  BY <1>1 DEF WebInv, WebShapes, Web!PageState, Web!TaskType, Web!Payload, Payload,
                     Waits, Web!Sending, Web!Doing, Web!Busy

\* Calls are read or given up, and nothing is written or sent.
LEMMA WebEndsStep ==
  ASSUME WebInv, WebShapes', UNCHANGED <<order, record, fate>>,
         \A m \in Mail' : /\ m \in Mail /\ mail'[m].payload = mail[m].payload
                          /\ mail'[m].step = mail[m].step,
         \A t \in Views : Waits(t)' =>
           /\ Waits(t) /\ page'[t].task.call = page[t].task.call
           /\ page'[t].task.payload = page[t].task.payload
           /\ page[t].task.call \in Mail' /\ mail'[page[t].task.call].heard
  PROVE  WebInv'
<1>1. DeskInv' /\ Repeats'
  BY DEF DeskInv, Repeats, WebInv
<1>2. WebHasCall'
  BY DEF WebHasCall, WebInv
<1>3. WebKept'
  BY DEF WebKept, WebNotedIn, WebInv
<1> QED  BY <1>1, <1>2, <1>3 DEF WebInv

\* A page sends an order.
LEMMA WebCallStep ==
  ASSUME WebInv, WebShapes', NEW t \in Views, NEW n \in Calls, NEW p \in Payload,
         order' = order, Again(p.request),
         record' = record \/ (record = None /\ record' = p),
         WebNotedIn(record', fate', p),
         n \notin Mail, n \in Mail', mail'[n].payload = p, mail'[n].heard, mail'[n].step = "sent",
         \A m \in Calls \ {n} : mail'[m] = mail[m],
         page'[t].task.call = n, page'[t].task.payload = p,
         \A u \in Views \ {t} : page'[u].task = page[u].task
  PROVE  WebInv'
<1>1. /\ \A m \in Mail : m \in Mail' /\ mail'[m] = mail[m] /\ m # n
      /\ \A m \in Mail' : m = n \/ m \in Mail
      /\ \A m \in Mail : mail[m].payload # None /\ mail[m].payload.request \in Requests
  BY MailFacts DEF Mail, WebInv, WebShapes
<1>2. \A u \in Views \ {t} : Waits(u)' <=> Waits(u)
  BY DEF Waits
<1>3. p.request \in Requests
  BY DEF Payload
<1>4. DeskInv' /\ Repeats'
  BY <1>3, PostRepeats DEF WebInv, WebShapes
<1>5. WebHasCall'
  BY <1>1, <1>2 DEF WebHasCall, WebInv
<1>6. WebKept'
  <2>1. \A q : q # None /\ q.request \in Requests /\ WebNotedIn(record, fate, q)
                => WebNotedIn(record', fate', q)
    BY DEF WebNotedIn, Again
  <2>2. \A r \in Requests : order[r] # None => order[r].request \in Requests
    BY DEF WebInv, DeskInv
  <2> QED  BY <1>1, <2>1, <2>2 DEF WebKept, WebInv
<1> QED  BY <1>4, <1>5, <1>6 DEF WebInv

\* An order's note goes: it is known, or not to come.
LEMMA WebClearStep ==
  ASSUME WebInv, WebShapes', NEW p \in Payload,
         order' = order,
         record' = IF record = p THEN None ELSE record,
         \A r \in Requests \ {p.request} : fate'[r] = fate[r],
         fate[p.request] # "single" => fate'[p.request] # "single",
         fate'[p.request] = "told" => order[p.request] # None,
         fate[p.request] \in {"told", "astray"} => fate'[p.request] \in {"told", "astray"},
         \A m \in Mail' : m \in Mail /\ mail'[m] = mail[m],
         \A t \in Views : Waits(t)' => /\ Waits(t) /\ page'[t].task = page[t].task
                                       /\ page[t].task.call \in Mail',
         \/ fate'[p.request] \in {"told", "astray"}
         \/ order[p.request] = None /\ \A m \in Mail' : mail[m].payload.request # p.request
  PROVE  WebInv'
<1>0. p.request \in Requests /\ \A m \in Mail : mail[m].payload.request \in Requests
  BY MailFacts DEF Payload, WebInv, WebShapes
<1>1. DeskInv' /\ Repeats'
  BY <1>0 DEF DeskInv, Repeats, WebInv
<1>2. WebHasCall'
  BY DEF WebHasCall, WebInv
<1>3. WebKept'
  <2>1. ASSUME NEW q, q.request \in Requests, WebNotedIn(record, fate, q),
               q = p => fate'[p.request] \in {"told", "astray"}
        PROVE  WebNotedIn(record', fate', q)
    BY <2>1 DEF WebNotedIn
  <2>2. \A r \in Requests : order[r] # None => order[r].request = r
    BY DEF WebInv, DeskInv
  <2>3. \A m \in Mail' : WebNotedIn(record', fate', mail'[m].payload)
    BY <1>0, <2>1 DEF WebKept, WebInv
  <2>4. \A r \in Requests : order[r] # None => WebNotedIn(record', fate', order[r])
    BY <2>1, <2>2 DEF WebKept, WebInv
  <2> QED  BY <2>3, <2>4 DEF WebKept
<1> QED  BY <1>1, <1>2, <1>3 DEF WebInv

\* The server answers a browser's call, or places its order, or does neither.
LEMMA WebHandled ==
  ASSUME WebInv, NEW n \in Calls, Handled(n), UNCHANGED <<user, record, page, fate>>
  PROVE  WebInv'
<1> DEFINE p == mail[n].payload
<1>1. /\ TypeOKDesk' /\ DeskInv'
      /\ n \in Mail /\ mail[n].step \in {"sent", "new"}
      /\ \A m \in Calls \ {n} : mail'[m] = mail[m]
      /\ mail[n].heard => mail'[n] # None
      /\ mail'[n] # None => /\ mail'[n].payload = mail[n].payload
                            /\ mail'[n].heard = mail[n].heard
                            /\ mail'[n].step \in {"new", "refused"} =>
                                 order' = order /\ (order[p.request] = None \/ mail[n].step = "new")
      /\ \/ order' = order
         \/ /\ mail[n].step = "new" /\ order[p.request] = None
            /\ order' = [order EXCEPT ![p.request] = p]
  BY HandledFacts DEF WebInv, WebShapes
<1>2. p \in Payload /\ p.request \in Requests /\ p # None /\ TypeOKDesk
  BY <1>1, MailFacts DEF WebInv, WebShapes
<1>3. WebShapes'
  BY <1>1 DEF WebInv, WebShapes
<1>4. \A m \in Mail' : /\ m \in Mail /\ mail'[m].payload = mail[m].payload
                       /\ mail'[m].heard = mail[m].heard
  BY <1>1 DEF Mail
<1>5. \A r \in Requests : order'[r] = order[r] \/ (r = p.request /\ order'[r] = p /\ order[r] = None)
  BY <1>1, <1>2 DEF TypeOKDesk
<1>6. \A t \in Views : Waits(t)' <=> Waits(t)
  BY DEF Waits
<1>7. WebHasCall'
  BY <1>1, <1>4, <1>6 DEF WebHasCall, WebInv, Mail
<1>8. Repeats'
  BY <1>2, HandledRepeats DEF WebInv
<1>9. WebKept'
  BY <1>1, <1>4, <1>5 DEF WebKept, WebInv
<1> QED  BY <1>1, <1>3, <1>7, <1>8, <1>9 DEF WebInv

\* The new state of one page.
LEMMA PageStep ==
  ASSUME WebInv, NEW t \in Views, NEW st \in Web!PageState, Web!Set(t, st), TypeOKDesk',
         user' \in Accounts \cup {None}, record' \in Payload \cup {None},
         fate' \in [Requests -> Web!Fates]
  PROVE  /\ WebShapes' /\ page'[t] = st /\ \A u \in Views \ {t} : page'[u] = page[u]
         /\ \A u \in Views \ {t} : Waits(u)' <=> Waits(u)
<1>1. page \in [Views -> Web!PageState] /\ page' = [page EXCEPT ![t] = st]
  BY DEF WebInv, WebShapes, Web!Set
<1> QED  BY <1>1 DEF WebShapes, Waits

\* A page changes, with its task or none, or begins to ask after an order.
LEMMA PageEnds ==
  ASSUME WebInv, NEW t \in Views, NEW st \in Web!PageState, Web!Set(t, st),
         UNCHANGED <<cart, order, mail, user, record, fate>>,
         st.task = None \/ st.task = page[t].task \/ st.task.kind = "check"
  PROVE  WebInv'
<1>1. /\ TypeOKDesk' /\ record' \in Payload \cup {None} /\ fate' \in [Requests -> Web!Fates]
      /\ user' \in Accounts \cup {None} /\ Mail' = Mail
  BY DEF WebInv, WebShapes, TypeOKDesk, Mail
<1>2. /\ WebShapes' /\ page'[t] = st /\ \A u \in Views \ {t} : page'[u] = page[u]
      /\ \A u \in Views \ {t} : Waits(u)' <=> Waits(u)
  BY <1>1, PageStep
<1>3. \A u \in Views : Waits(u)' => /\ Waits(u) /\ page'[u].task = page[u].task
                                    /\ page[u].task.call \in Mail' /\ mail'[page[u].task.call].heard
  BY <1>1, <1>2 DEF Waits, WebInv, WebHasCall
<1> QED  BY <1>1, <1>2, <1>3, WebEndsStep

\* What a page is when its task has ended.
PageEnded(state) == IF state.open THEN [state EXCEPT !.task = None] ELSE Web!Closed

\* A page whose task has ended has none.
LEMMA PageEndedFacts ==
  ASSUME NEW state \in Web!PageState
  PROVE  /\ PageEnded(state) \in Web!PageState /\ PageEnded(state).task = None
         /\ Web!Closed \in Web!PageState /\ Web!Closed.task = None
BY DEF PageEnded, Web!PageState, Web!Closed

\* Pages open, close, are drawn again, ask after an order or hear that there is none.
LEMMA PagesStep ==
  ASSUME WebInv, NEW t \in Views,
         \/ Web!Open(t) \/ Web!Rerender(t) \/ Web!Leave(t) \/ Web!Review(t) \/ Web!Check(t)
         \/ Web!NotFound(t)
  PROVE  WebInv'
<1>1. /\ page[t] \in Web!PageState /\ page[t].saved \in Payload \cup {None}
      /\ TypeOKDesk /\ user \in Accounts \cup {None} /\ record \in Payload \cup {None}
      /\ Web!Own \in Web!Payload \cup {None}
  BY PageFacts DEF Web!Own, Web!Payload, Payload
<1>2. UNCHANGED <<cart, order, mail, user, record, fate>>
  BY DEF Web!Open, Web!Rerender, Web!Leave, Web!Review, Web!Check, Web!NotFound,
         Web!desk, Web!browser
<1>3. ASSUME NEW st \in Web!PageState, Web!Set(t, st),
             st.task = None \/ st.task = page[t].task \/ st.task.kind = "check"
      PROVE  WebInv'
  BY <1>2, <1>3, PageEnds
<1>4. CASE Web!Open(t)
  <2> DEFINE st == [Web!Closed EXCEPT !.open = TRUE, !.owner = user, !.saved = Web!Own]
  <2>1. st \in Web!PageState /\ st.task = None
    BY <1>1 DEF Web!Closed, Web!PageState
  <2>2. Web!Set(t, st)
    BY <1>4 DEF Web!Open
  <2> HIDE DEF st
  <2> QED  BY <1>3, <2>1, <2>2
<1>5. CASE Web!Rerender(t)
  <2> DEFINE st == [page[t] EXCEPT !.owner = user, !.saved = Web!Own]
  <2>1. st \in Web!PageState /\ st.task = page[t].task
    BY <1>1 DEF Web!PageState
  <2>2. Web!Set(t, st)
    BY <1>5 DEF Web!Rerender
  <2> HIDE DEF st
  <2> QED  BY <1>3, <2>1, <2>2
<1>6. CASE Web!Leave(t)
  <2> DEFINE st == IF Web!Busy(t) THEN [page[t] EXCEPT !.open = FALSE] ELSE Web!Closed
  <2>1. st \in Web!PageState /\ (st.task = None \/ st.task = page[t].task)
    BY <1>1 DEF Web!PageState, Web!Closed
  <2>2. Web!Set(t, st)
    BY <1>6 DEF Web!Leave
  <2> HIDE DEF st
  <2> QED  BY <1>3, <2>1, <2>2
<1>7. CASE Web!Review(t)
  <2> DEFINE st == [page[t] EXCEPT !.reviewed = [of |-> user, offer |-> cart[user]]]
  <2>1. user \in Accounts /\ cart[user] \in Offers
    <3>1. page[t].owner # None /\ page[t].owner = user /\ cart[user] # None
      BY <1>7 DEF Web!Review, Web!Ready
    <3> QED  BY <1>1, <3>1 DEF TypeOKDesk
  <2>2. st \in Web!PageState /\ st.task = page[t].task
    BY <1>1, <2>1 DEF Web!PageState
  <2>3. Web!Set(t, st)
    BY <1>7 DEF Web!Review
  <2> HIDE DEF st
  <2> QED  BY <1>3, <2>2, <2>3
<1>8. CASE Web!Check(t)
  <2> DEFINE j == Web!Task("check", page[t].saved, None)
             st == [page[t] EXCEPT !.task = j]
  <2>1. page[t].saved \in Payload /\ Web!Set(t, st)
    BY <1>1, <1>8 DEF Web!Check
  <2>2. j \in Web!TaskType /\ j.kind = "check"
    BY <2>1 DEF Web!Task, Web!TaskType, Web!Payload, Payload
  <2> HIDE DEF j
  <2>3. st \in Web!PageState /\ st.task = j
    BY <1>1, <2>2 DEF Web!PageState
  <2> HIDE DEF st
  <2> QED  BY <1>3, <2>1, <2>2, <2>3
<1>9. CASE Web!NotFound(t)
  <2>1. Web!Set(t, PageEnded(page[t]))
    BY <1>9 DEF Web!NotFound, Web!Done, PageEnded
  <2> QED  BY <1>1, <1>3, <2>1, PageEndedFacts
<1> QED  BY <1>4, <1>5, <1>6, <1>7, <1>8, <1>9

\* Somebody signs in, or the basket changes.
LEMMA WebAroundStep ==
  ASSUME WebInv,
         \/ \E a \in Accounts \cup {None} : Web!SignIn(a)
         \/ /\ \E a \in Accounts, o \in Offers \cup {None} : SetCart(a, o)
            /\ UNCHANGED <<user, record, page, fate>>
  PROVE  WebInv'
<1>1. /\ TypeOKDesk /\ user \in Accounts \cup {None} /\ record \in Payload \cup {None}
      /\ page \in [Views -> Web!PageState] /\ fate \in [Requests -> Web!Fates]
  BY DEF WebInv, WebShapes
<1>2. CASE \E a \in Accounts \cup {None} : Web!SignIn(a)
  <2> DEFINE stale == [t \in Views |-> IF Web!Busy(t) THEN [page[t] EXCEPT !.task.fresh = FALSE]
                                       ELSE page[t]]
  <2>1. /\ UNCHANGED <<cart, order, mail, record, fate>> /\ page' = stale
        /\ user' \in Accounts \cup {None} /\ Mail' = Mail
    BY <1>2 DEF Web!SignIn, Web!desk, Mail
  <2>2. ASSUME NEW t \in Views
        PROVE  /\ page'[t] \in Web!PageState
               /\ Waits(t)' => /\ Waits(t) /\ page'[t].task.call = page[t].task.call
                               /\ page'[t].task.payload = page[t].task.payload
    <3>1. page[t] \in Web!PageState
      BY <1>1
    <3>2. CASE ~Web!Busy(t)
      BY <2>1, <3>1, <3>2 DEF Waits
    <3>3. CASE Web!Busy(t)
      <4> DEFINE j == [page[t].task EXCEPT !.fresh = FALSE]
      <4>1. page[t].task # None /\ page[t].task \in Web!TaskType
        BY <3>1, <3>3 DEF Web!Busy, Web!PageState
      <4>2. page'[t] = [page[t] EXCEPT !.task = j]
        BY <2>1, <3>1, <3>3, <4>1 DEF Web!PageState
      <4>3. /\ j \in Web!TaskType /\ j.kind = page[t].task.kind
            /\ j.payload = page[t].task.payload /\ j.call = page[t].task.call
        BY <4>1 DEF Web!TaskType
      <4> HIDE DEF j
      <4>4. page'[t] \in Web!PageState /\ page'[t].task = j
        BY <3>1, <4>2, <4>3 DEF Web!PageState
      <4> QED  BY <4>1, <4>3, <4>4 DEF Waits
    <3> QED  BY <3>2, <3>3
  <2>3. page' \in [Views -> Web!PageState]
    BY <2>1, <2>2
  <2>4. WebShapes'
    BY <1>1, <2>1, <2>3 DEF WebShapes, TypeOKDesk
  <2> QED  BY <2>1, <2>2, <2>4, WebEndsStep DEF WebInv, WebHasCall
<1>3. CASE /\ \E a \in Accounts, o \in Offers \cup {None} : SetCart(a, o)
           /\ UNCHANGED <<user, record, page, fate>>
  <2>1. WebShapes' /\ UNCHANGED <<order, mail>>
    BY <1>1, <1>3 DEF SetCart, WebShapes, TypeOKDesk
  <2>2. Mail' = Mail /\ \A t \in Views : Waits(t)' <=> Waits(t)
    BY <1>3, <2>1 DEF Mail, Waits
  <2> QED  BY <1>3, <2>1, <2>2, WebEndsStep DEF WebInv, WebHasCall
<1> QED  BY <1>2, <1>3

\* A page that waits, and its call.
LEMMA WaitFacts ==
  ASSUME WebInv, NEW t \in Views, Waits(t)
  PROVE  LET n == page[t].task.call
         IN /\ n \in Mail /\ n \in Calls /\ mail[n].payload = page[t].task.payload
            /\ page[t].task.payload \in Payload /\ page[t].task.payload.request \in Requests
            /\ \A u \in Views \ {t} : Waits(u) =>
                 page[u].task.call \in Mail \ {n} /\ mail[page[u].task.call].heard
BY PageFacts DEF WebInv, WebHasCall, Waits, Mail, Payload

\* A tab is closed, or an answer does not say enough: the note stays.
LEMMA UnsureStep ==
  ASSUME WebInv, NEW t \in Views, Web!Close(t) \/ Web!Unsure(t)
  PROVE  WebInv'
<1> DEFINE n == page[t].task.call
<1>1. /\ page[t] \in Web!PageState /\ page[t].task # None
      /\ TypeOKDesk /\ user \in Accounts \cup {None} /\ record \in Payload \cup {None}
      /\ fate \in [Requests -> Web!Fates] /\ (Waits(t) <=> Web!Sending(t))
      /\ page[t].task.payload \in Payload
  BY PageFacts DEF Web!Close, Web!Unsure, Web!Reads, Web!Sending, Web!Doing, Web!Busy
<1>2. \E st \in Web!PageState : Web!Set(t, st) /\ st.task = None
  <2>1. CASE Web!Close(t)
    BY <1>1, <2>1, PageEndedFacts DEF Web!Close
  <2>2. CASE Web!Unsure(t)
    <3> DEFINE st == IF Web!Doing(t, {"place"})
                     THEN [page[t] EXCEPT !.saved = page[t].task.payload] ELSE page[t]
    <3>1. st \in Web!PageState
      BY <1>1 DEF Web!PageState, Web!Payload, Payload
    <3>2. Web!Set(t, PageEnded(st))
      BY <2>2 DEF Web!Unsure, Web!Done, PageEnded
    <3> HIDE DEF st
    <3> QED  BY <3>1, <3>2, PageEndedFacts
  <2> QED  BY <2>1, <2>2
<1>3. PICK st \in Web!PageState : Web!Set(t, st) /\ st.task = None
  BY <1>2
<1>4. UNCHANGED <<user, record, fate>>
  BY DEF Web!Close, Web!Unsure, Web!Kept, Web!browser
<1>5. \/ Waits(t) /\ (Read(n) \/ Abandon(n))
      \/ ~Waits(t) /\ UNCHANGED <<cart, order, mail>>
  BY <1>1 DEF Web!Close, Web!Unsure, Web!Reads, Web!Read, Read, Web!Abandon, Abandon, Web!desk,
              Web!Answered, Answered, Web!Answers, Answers
<1> HIDE DEF n
<1>6. /\ TypeOKDesk' /\ order' = order
      /\ \A m \in Mail' : /\ m \in Mail /\ mail'[m].payload = mail[m].payload
                          /\ mail'[m].step = mail[m].step
      /\ \A u \in Views \ {t} : Waits(u) => /\ page[u].task.call \in Mail'
                                            /\ mail'[page[u].task.call].heard
  <2>1. CASE Waits(t) /\ (Read(n) \/ Abandon(n))
    <3>1. n \in Mail /\ n \in Calls /\ \A u \in Views \ {t} : Waits(u) =>
             page[u].task.call \in Mail \ {n} /\ mail[page[u].task.call].heard
      BY <2>1, WaitFacts DEF n
    <3> QED  BY <1>1, <2>1, <3>1, ReadFacts, AbandonFacts
  <2>2. CASE ~Waits(t) /\ UNCHANGED <<cart, order, mail>>
    BY <1>1, <2>2 DEF TypeOKDesk, Mail, WebInv, WebHasCall
  <2> QED  BY <1>5, <2>1, <2>2
<1>7. /\ WebShapes' /\ page'[t] = st /\ \A u \in Views \ {t} : page'[u] = page[u]
      /\ \A u \in Views \ {t} : Waits(u)' <=> Waits(u)
  BY <1>1, <1>3, <1>4, <1>6, PageStep
<1>8. ~Waits(t)'
  BY <1>3, <1>7 DEF Waits
<1> QED  BY <1>4, <1>6, <1>7, <1>8, WebEndsStep

\* An order is sent, or sent again.
LEMMA WebSendStep ==
  ASSUME WebInv, NEW t \in Views, NEW r \in Requests, NEW n \in Calls,
         Web!PlaceOrder(t, r, n) \/ Web!Retry(t, n)
  PROVE  WebInv'
<1>1. /\ page[t] \in Web!PageState /\ page[t].saved \in Payload \cup {None}
      /\ TypeOKDesk /\ user \in Accounts \cup {None} /\ record \in Payload \cup {None}
      /\ fate \in [Requests -> Web!Fates]
  BY PageFacts
<1>2. ASSUME NEW p \in Payload, NEW kind \in {"place", "retry"}, NEW saved \in Payload \cup {None},
             Post(n, p, user), UNCHANGED user,
             Web!Set(t, [page[t] EXCEPT !.saved = saved, !.task = Web!Task(kind, p, n)]),
             fate' \in [Requests -> Web!Fates], Again(p.request),
             record' = record \/ (record = None /\ record' = p),
             WebNotedIn(record', fate', p)
      PROVE  WebInv'
  <2> DEFINE j == Web!Task(kind, p, n)
             st == [page[t] EXCEPT !.saved = saved, !.task = j]
  <2>1. j \in Web!TaskType /\ j.call = n /\ j.payload = p
    BY DEF Web!Task, Web!TaskType, Web!Payload, Payload
  <2>2. Web!Set(t, st)
    BY <1>2
  <2> HIDE DEF j
  <2>3. st \in Web!PageState /\ st.task = j
    BY <1>1, <2>1 DEF Web!PageState, Web!Payload, Payload
  <2> HIDE DEF st
  <2>4. /\ TypeOKDesk' /\ order' = order
        /\ n \notin Mail /\ n \in Mail' /\ \A m \in Calls \ {n} : mail'[m] = mail[m]
        /\ mail'[n].payload = p /\ mail'[n].heard /\ mail'[n].step = "sent"
    BY <1>1, <1>2, PostFacts
  <2>5. record' \in Payload \cup {None} /\ user' \in Accounts \cup {None}
    BY <1>1, <1>2
  <2>6. WebShapes' /\ page'[t] = st /\ \A u \in Views \ {t} : page'[u] = page[u]
    BY <1>2, <2>2, <2>3, <2>4, <2>5, PageStep
  <2>7. /\ page'[t].task.call = n /\ page'[t].task.payload = p
        /\ \A u \in Views \ {t} : page'[u].task = page[u].task
    BY <2>1, <2>3, <2>6
  <2> QED  BY <1>2, <2>4, <2>6, <2>7, WebCallStep
<1>3. CASE Web!PlaceOrder(t, r, n)
  <2> DEFINE p == [request |-> r, of |-> page[t].reviewed.of, offer |-> page[t].reviewed.offer]
  <2>1. /\ page[t].reviewed # None /\ r \notin Web!InUse /\ record \in {None, p} /\ record' = p
        /\ Post(n, p, user) /\ UNCHANGED <<user, fate>>
        /\ Web!Set(t, [page[t] EXCEPT !.saved = p, !.task = Web!Task("place", p, n)])
    BY <1>3 DEF Web!PlaceOrder, Web!MaySave, Web!Post, Post
  <2>2. p \in Payload /\ p.request = r
    BY <1>1, <2>1 DEF Web!PageState, Payload
  <2> HIDE DEF p
  <2>3. p # None
    BY <2>2, DeskAssumption
  <2>4. record = None
    <3>1. record # None => record.request \in Web!InUse
      BY DEF Web!InUse
    <3> QED  BY <2>1, <2>2, <2>3, <3>1
  <2>5. \A m \in Mail : mail[m].payload.request # p.request
    <3>1. ASSUME NEW m \in Mail PROVE mail[m].payload.request \in Web!InUse
      BY <1>1, MailFacts DEF Web!InUse, Mail
    <3> QED  BY <2>1, <2>2, <3>1
  <2>6. Again(p.request) /\ WebNotedIn(record', fate', p)
    BY <2>1, <2>5 DEF Again, WebNotedIn
  <2> QED  BY <1>1, <1>2, <2>1, <2>2, <2>4, <2>6
<1>4. CASE Web!Retry(t, n)
  <2> DEFINE p == page[t].saved
  <2>1. /\ p # None /\ Post(n, p, user) /\ UNCHANGED <<user, record>>
        /\ Web!Set(t, [page[t] EXCEPT !.task = Web!Task("retry", p, n)])
        /\ Web!SentAgain(p)
    BY <1>4 DEF Web!Retry, Web!Post, Post, Web!browser
  <2>2. [page[t] EXCEPT !.task = Web!Task("retry", p, n)]
          = [page[t] EXCEPT !.saved = p, !.task = Web!Task("retry", p, n)]
    BY <1>1 DEF Web!PageState
  <2>3. p \in Payload
    BY <1>1, <2>1
  <2>4. Web!UnderWay(p.request) <=> \E m \in Mail : mail[m].payload.request = p.request
    BY DEF Web!UnderWay, Mail
  <2>5. Web!Set(t, [page[t] EXCEPT !.saved = p, !.task = Web!Task("retry", p, n)])
    BY <2>1, <2>2
  <2> HIDE DEF p
  <2>6. /\ p.request \in Requests
        /\ fate' = [fate EXCEPT ![p.request] =
             IF fate[p.request] = "told" THEN fate[p.request]
             ELSE IF fate[p.request] = "astray" \/ record # p THEN "astray"
             ELSE IF Web!UnderWay(p.request) THEN "doubled" ELSE "single"]
    BY <1>1, <2>1, <2>3 DEF Web!SentAgain, Payload
  <2>7. /\ fate' \in [Requests -> Web!Fates] /\ Again(p.request)
        /\ WebNotedIn(record', fate', p)
    BY <1>1, <2>1, <2>4, <2>6 DEF Again, WebNotedIn, Web!Fates
  <2> QED  BY <1>2, <2>1, <2>3, <2>5, <2>7
<1> QED  BY <1>3, <1>4

\* A page learns of its order, or that there is none.
LEMMA LearnsStep ==
  ASSUME WebInv, NEW t \in Views, Web!Placed(t) \/ Web!Refused(t) \/ Web!Found(t)
  PROVE  WebInv'
<1> DEFINE n == page[t].task.call
           p == page[t].task.payload
<1>1. /\ page[t] \in Web!PageState /\ p \in Payload /\ p.request \in Requests
      /\ TypeOKDesk /\ user \in Accounts \cup {None} /\ record \in Payload \cup {None}
      /\ fate \in [Requests -> Web!Fates] /\ (Waits(t) <=> Web!Sending(t))
  BY PageFacts DEF Web!Placed, Web!Refused, Web!Found, Web!Reads, Web!Sending, Web!Doing, Web!Busy,
                   Payload
<1>2. \E st \in Web!PageState : Web!Set(t, st) /\ st.task = None
  <2>1. CASE Web!Placed(t) \/ Web!Found(t)
    BY <1>1, <2>1, PageEndedFacts DEF Web!Placed, Web!Found
  <2>2. CASE Web!Refused(t)
    <3> DEFINE st == [page[t] EXCEPT !.saved = None, !.reviewed = None]
    <3>1. st \in Web!PageState
      BY <1>1 DEF Web!PageState
    <3>2. Web!Set(t, PageEnded(st))
      BY <2>2 DEF Web!Refused, Web!Done, PageEnded
    <3> HIDE DEF st
    <3> QED  BY <3>1, <3>2, PageEndedFacts
  <2> QED  BY <2>1, <2>2
<1>3. PICK st \in Web!PageState : Web!Set(t, st) /\ st.task = None
  BY <1>2
<1>4. record' = (IF record = p THEN None ELSE record) /\ UNCHANGED user
  BY DEF Web!Placed, Web!Refused, Web!Found, Web!Cleared
<1> DEFINE Told == fate' = [fate EXCEPT ![p.request] = "told"]
           Denied == fate' = [fate EXCEPT ![p.request] =
                        IF fate[p.request] = "doubled" THEN "astray" ELSE fate[p.request]]
<1>5. \/ Waits(t) /\ Read(n) /\ mail[n].step = "placed" /\ Told
      \/ Waits(t) /\ Read(n) /\ mail[n].step = "refused" /\ Denied
      \/ UNCHANGED <<cart, order, mail>> /\ order[p.request] # None /\ Told
  BY <1>1 DEF Web!Placed, Web!Refused, Web!Found, Web!Reads, Web!Read, Read, Web!desk, Web!Shows,
              Web!Told, Web!Denied
<1>6. Waits(t) => /\ n \in Mail /\ n \in Calls /\ mail[n].payload = p
                  /\ \A u \in Views \ {t} : Waits(u) => page[u].task.call \in Mail \ {n}
  BY WaitFacts
<1> HIDE DEF n, p
<1> DEFINE Cleared ==
             /\ \A r \in Requests \ {p.request} : fate'[r] = fate[r]
             /\ fate[p.request] # "single" => fate'[p.request] # "single"
             /\ fate'[p.request] = "told" => order[p.request] # None
             /\ fate[p.request] \in {"told", "astray"} => fate'[p.request] \in {"told", "astray"}
             /\ fate' \in [Requests -> Web!Fates]
             /\ \/ fate'[p.request] \in {"told", "astray"}
                \/ order[p.request] = None /\ \A m \in Mail' : mail[m].payload.request # p.request
<1>7. /\ TypeOKDesk' /\ order' = order
      /\ \A m \in Mail' : m \in Mail /\ mail'[m] = mail[m]
      /\ \A u \in Views \ {t} : Waits(u) => page[u].task.call \in Mail'
      /\ Cleared
  <2>1. CASE Waits(t) /\ Read(n) /\ mail[n].step \in {"placed", "refused"} /\ (Told \/ Denied)
    <3>1. /\ TypeOKDesk' /\ order' = order
          /\ \A m \in Mail' : m \in Mail /\ mail'[m] = mail[m] /\ m # n
          /\ \A m \in Mail \ {n} : m \in Mail' /\ mail'[m] = mail[m]
      BY <1>1, <1>6, <2>1, ReadFacts
    <3>2. \A u \in Views \ {t} : Waits(u) => page[u].task.call \in Mail'
      BY <1>6, <2>1, <3>1
    <3>3. CASE mail[n].step = "placed" /\ Told
      <4>1. order[p.request] # None
        BY <1>6, <2>1, <3>3 DEF WebInv, DeskInv
      <4> QED  BY <1>1, <3>1, <3>2, <3>3, <4>1 DEF Web!Fates
    <3>4. CASE mail[n].step = "refused" /\ Denied
      <4>1. \/ fate[p.request] # "single"
            \/ order[p.request] = None /\ \A m \in Mail' : mail[m].payload.request # p.request
        BY <1>6, <2>1, <3>1, <3>4 DEF WebInv, Repeats
      <4>2. fate[p.request] = "told" => order[p.request] # None
        BY <1>1 DEF WebInv, DeskInv
      <4> QED  BY <1>1, <3>1, <3>2, <3>4, <4>1, <4>2 DEF Web!Fates
    <3>5. CASE UNCHANGED <<cart, order, mail>> /\ order[p.request] # None /\ Told
      BY <1>1, <3>1, <3>2, <3>5 DEF Web!Fates
    <3> QED  BY <1>5, <3>3, <3>4, <3>5
  <2>2. CASE UNCHANGED <<cart, order, mail>> /\ order[p.request] # None /\ Told
    BY <1>1, <2>2 DEF TypeOKDesk, Mail, WebInv, WebHasCall, Web!Fates
  <2> QED  BY <1>5, <2>1, <2>2
<1>8. record' \in Payload \cup {None}
  BY <1>1, <1>4
<1>9. /\ WebShapes' /\ page'[t] = st /\ \A u \in Views \ {t} : page'[u] = page[u]
      /\ \A u \in Views \ {t} : Waits(u)' <=> Waits(u)
  BY <1>1, <1>3, <1>4, <1>7, <1>8, PageStep
<1>10. \A u \in Views : Waits(u)' => /\ Waits(u) /\ page'[u].task = page[u].task
                                     /\ page[u].task.call \in Mail'
  <2>1. ~Waits(t)'
    BY <1>3, <1>9 DEF Waits
  <2> QED  BY <1>7, <1>9, <2>1
<1> QED  BY <1>1, <1>4, <1>7, <1>9, <1>10, WebClearStep

-----------------------------------------------------------------------------
(* Both clients                                                            *)

WorldOK ==
  /\ client \in {"phone", "web"}
  /\ \A a \in people : a \in Accounts
  /\ \A v \in views : v \in Views
  /\ \A n \in calls : n \in Calls

RecoveryInv == WorldOK /\ (client = "phone" => PhoneInv) /\ (client = "web" => WebInv)

\* Nothing is placed, sent or written down at the start.
LEMMA RecoveryStarts == Init => RecoveryInv
<1> SUFFICES ASSUME Init PROVE RecoveryInv
  OBVIOUS
<1>1. WorldOK
  BY DEF Init, WorldOK
<1>2. ASSUME client = "phone" PROVE PhoneInv
  <2>1. Phone!Init
    BY <1>2 DEF Init
  <2>2. /\ cart \in [Accounts -> Offers] /\ order = [r \in Requests |-> None]
        /\ mail = [n \in Calls |-> None] /\ user = None /\ record = [a \in Accounts |-> None]
        /\ screen = [s \in Views |-> Phone!Closed]
        /\ fate = [r \in Requests |-> "single"] /\ crowded = {}
    BY <2>1 DEF Phone!Init, Phone!InitDesk
  <2>3. \A s \in Views : /\ screen[s].job = None /\ Kind(s) = "none"
                         /\ ~Works(s) /\ ~Engaged(s)
    BY <2>2 DEF Phone!Closed, Kind, Works, Engaged
  <2>4. Phone!Closed \in Phone!ScreenState
    BY DEF Phone!Closed, Phone!ScreenState
  <2>5. Mail = {} /\ \A r \in Requests : order[r] = None
    BY <2>2 DEF Mail
  <2>6. PhoneShapes
    BY <2>2, <2>3, <2>4 DEF PhoneShapes, TypeOKDesk, Phone!Fates
  <2>7. DeskInv /\ Repeats /\ OwnOrders /\ HasCall
    BY <2>2, <2>3, <2>5 DEF DeskInv, Repeats, OwnOrders, HasCall
  <2>8. PhoneCopies \subseteq {None}
    BY <2>2, <2>3, <2>5 DEF PhoneCopies
  <2>9. OneAtATime /\ Kept
    BY <2>3, <2>5 DEF OneAtATime, Kept
  <2> QED  BY <2>6, <2>7, <2>8, <2>9, PhoneTypes DEF PhoneInv, Alike
<1>3. ASSUME client = "web" PROVE WebInv
  <2>1. Web!Init
    BY <1>3 DEF Init
  <2>2. /\ cart \in [Accounts -> Offers] /\ order = [r \in Requests |-> None]
        /\ mail = [n \in Calls |-> None] /\ user = None /\ record = None
        /\ page = [t \in Views |-> Web!Closed] /\ fate = [r \in Requests |-> "single"]
    BY <2>1 DEF Web!Init, Web!InitDesk
  <2>3. \A t \in Views : ~Waits(t)
    BY <2>2 DEF Web!Closed, Waits
  <2>4. Web!Closed \in Web!PageState
    BY DEF Web!Closed, Web!PageState
  <2>5. Mail = {} /\ \A r \in Requests : order[r] = None
    BY <2>2 DEF Mail
  <2>6. WebShapes
    BY <2>2, <2>4 DEF WebShapes, TypeOKDesk, Web!Fates
  <2> QED  BY <2>2, <2>3, <2>5, <2>6 DEF WebInv, DeskInv, Repeats, WebHasCall, WebKept
<1> QED  BY <1>1, <1>2, <1>3 DEF RecoveryInv

\* Every step of either client and of the server keeps what is known.
LEMMA RecoveryStep == RecoveryInv /\ [Next]_<<desk, world, memory>> => RecoveryInv'
<1> SUFFICES ASSUME RecoveryInv, [Next]_<<desk, world, memory>> PROVE RecoveryInv'
  OBVIOUS
<1>1. WorldOK
  BY DEF RecoveryInv
<1>2. ASSUME UNCHANGED world, client = "phone" => PhoneInv', client = "web" => WebInv'
      PROVE  RecoveryInv'
  BY <1>1, <1>2 DEF RecoveryInv, WorldOK, world
<1>6. CASE UNCHANGED <<desk, world, memory>>
  <2>1. UNCHANGED <<cart, order, mail, user, record, screen, page, fate, crowded>> /\ UNCHANGED world
    BY <1>6 DEF desk, memory
  <2>2. PhoneInv => PhoneInv'
    <3>1. Mail' = Mail
      BY <2>1 DEF Mail
    <3>2. PhoneShapes => PhoneShapes'
      BY <2>1 DEF PhoneShapes, TypeOKDesk, Kind
    <3>3. Phone!TypeOK => Phone!TypeOK'
      BY <3>2, PhoneTypes, PTL
    <3>4. Phone!TypeOK /\ HasCall => Ends
      BY <2>1, <3>1 DEF Ends, HasCall, GoesOn, Kind, Owner
    <3> QED  BY <3>3, <3>4, EndsStep DEF PhoneInv
  <2>3. WebInv => WebInv'
    <3>1. Mail' = Mail /\ \A t \in Views : Waits(t)' <=> Waits(t)
      BY <2>1 DEF Mail, Waits
    <3>2. WebInv => WebShapes'
      BY <2>1 DEF WebInv, WebShapes, TypeOKDesk
    <3> QED  BY <2>1, <3>1, <3>2, WebEndsStep DEF WebInv, WebHasCall
  <2> QED  BY <1>2, <2>1, <2>2, <2>3 DEF RecoveryInv
<1>7. CASE Next
  <2>1. ASSUME NEW s \in views, 
               \/ OnPhone(Phone!Open(s)) \/ OnPhone(Phone!Refresh(s)) \/ OnPhone(Phone!Leave(s))
               \/ OnPhone(Phone!Review(s)) \/ OnPhone(Phone!PlaceOrder(s))
               \/ OnPhone(Phone!NotFound(s)) \/ OnPhone(Phone!NoStatus(s))
               \/ OnPhone(Phone!Overwritten(s))
        PROVE  RecoveryInv'
    BY <1>1, <1>2, <2>1, LooksStep DEF OnPhone, RecoveryInv, WorldOK
  <2>2. ASSUME NEW s \in views,
               \/ \E r \in Requests : OnPhone(Phone!Confirm(s, r))
               \/ OnPhone(Phone!Look(s)) \/ OnPhone(Phone!Write(s))
               \/ \E n \in calls : OnPhone(Phone!Send(s, n))
        PROVE  RecoveryInv'
    BY <1>1, <1>2, <2>2, ConfirmStep, LookStep, WriteStep, SendingStep
       DEF OnPhone, RecoveryInv, WorldOK
  <2>3. ASSUME NEW s \in views,
               \/ OnPhone(Phone!Placed(s)) \/ OnPhone(Phone!Refused(s)) \/ OnPhone(Phone!Uncertain(s))
               \/ OnPhone(Phone!Check(s)) \/ OnPhone(Phone!Found(s)) \/ OnPhone(Phone!RecoverCheckout(s))
        PROVE  RecoveryInv'
    BY <1>1, <1>2, <2>3, AnsweredStep, UncertainStep, AgainStep, FoundStep
       DEF OnPhone, RecoveryInv, WorldOK
  <2>4. ASSUME (\E a \in people \cup {None} : OnPhone(Phone!SignIn(a))) \/ OnPhone(Phone!Crash)
        PROVE  RecoveryInv'
    BY <1>1, <1>2, <2>4, AroundStep DEF OnPhone, RecoveryInv, WorldOK
  <2>5. ASSUME NEW t \in views,
               \/ OnWeb(Web!Open(t)) \/ OnWeb(Web!Rerender(t)) \/ OnWeb(Web!Leave(t))
               \/ OnWeb(Web!Review(t)) \/ OnWeb(Web!Check(t)) \/ OnWeb(Web!NotFound(t))
        PROVE  RecoveryInv'
    BY <1>1, <1>2, <2>5, PagesStep DEF OnWeb, RecoveryInv, WorldOK
  <2>6. ASSUME NEW t \in views,
               \/ OnWeb(Web!Close(t)) \/ OnWeb(Web!Unsure(t))
               \/ \E r \in Requests, n \in calls : OnWeb(Web!PlaceOrder(t, r, n))
               \/ OnWeb(Web!Placed(t)) \/ OnWeb(Web!Refused(t)) \/ OnWeb(Web!Found(t))
        PROVE  RecoveryInv'
    BY <1>1, <1>2, <2>6, UnsureStep, WebSendStep, LearnsStep DEF OnWeb, RecoveryInv, WorldOK
  <2>7. ASSUME NEW t \in views, NEW n \in calls, OnWeb(Web!Retry(t, n))
        PROVE  RecoveryInv'
    <3>1. WebInv => page[t].saved \in Payload
      BY <1>1, <2>7, PageFacts DEF OnWeb, WorldOK, Web!Retry
    <3>2. WebInv => Requests # {}
      BY <3>1 DEF Payload
    <3> QED  BY <1>1, <1>2, <2>7, <3>2, WebSendStep DEF OnWeb, RecoveryInv, WorldOK
  <2>8. ASSUME \E a \in people \cup {None} : OnWeb(MayLeave(a) /\ Web!SignIn(a))
        PROVE  RecoveryInv'
    BY <1>1, <1>2, <2>8, WebAroundStep DEF OnWeb, RecoveryInv, WorldOK
  <2>9. ASSUME NEW n \in calls,
               \/ OnServer(LookUp(n)) \/ OnServer(Place(n)) \/ OnServer(Refuse(n))
               \/ OnServer(Recover(n)) \/ OnServer(Falter(n))
        PROVE  RecoveryInv'
    <3>1. n \in Calls /\ Handled(n) /\ UNCHANGED world
          /\ UNCHANGED <<user, record, screen, page, fate, crowded>>
      BY <1>1, <2>9 DEF OnServer, Handled, WorldOK, memory
    <3> QED  BY <1>2, <3>1, PhoneHandled, WebHandled DEF RecoveryInv
  <2>10. ASSUME NEW a \in people, NEW o \in Offers \cup {None}, OnServer(SetCart(a, o))
         PROVE  RecoveryInv'
    <3>1. a \in Accounts /\ SetCart(a, o) /\ UNCHANGED world
          /\ UNCHANGED <<user, record, screen, page, fate, crowded>>
      BY <1>1, <2>10 DEF OnServer, WorldOK, memory
    <3> QED  BY <1>2, <3>1, AroundStep, WebAroundStep DEF RecoveryInv
  <2> QED  BY <1>7, <2>1, <2>2, <2>3, <2>4, <2>5, <2>6, <2>7, <2>8, <2>9, <2>10 DEF Next
<1> QED  BY <1>6, <1>7

\* What is known of the clients, their notes, their calls and the orders always holds:
\* the inductive invariant of the checkouts that recover an order whose answer was lost.
THEOREM RecoverySafety == Spec => []RecoveryInv
<1> QED  BY RecoveryStarts, RecoveryStep, PTL DEF Spec

\* Orders, calls, notes, screens and pages always have their types.
THEOREM RecoveryTypes == Spec => []TypeOK
<1>1. RecoveryInv => TypeOK
  BY WebTypes DEF RecoveryInv, WorldOK, TypeOK, PhoneInv
<1> QED  BY <1>1, RecoverySafety, PTL

\* However answers are lost, apps die, tabs close, requests are sent again and accounts
\* change, an order that was placed is known to its customer or still written down to
\* be asked after: for every number of views, requests and calls.  What is excused are
\* the orders of a request that was sent again while a call of it was at work and then
\* refused; on the web those of a page's copy sent again when its record was gone; and
\* on the phone those of an account with two screens at it (module PhoneCheckout tells
\* exactly which).
THEOREM PlacedOrdersAreKnown == Spec => []PlacedIsKnown
<1>1. RecoveryInv => PlacedIsKnown
  <2> SUFFICES ASSUME RecoveryInv PROVE PlacedIsKnown
    OBVIOUS
  <2>1. ASSUME client = "phone" PROVE Phone!PlacedIsKnown
    <3> SUFFICES ASSUME NEW r \in Requests, order[r] # None, ~Phone!Settled(r),
                        order[r].of \notin crowded
                 PROVE  record[order[r].of] # None /\ record[order[r].of].request = r
      BY DEF Phone!PlacedIsKnown
    <3>1. order[r].request = r /\ record[order[r].of] = order[r]
      BY <2>1 DEF RecoveryInv, PhoneInv, DeskInv, Kept, Noted, NotedIn, Phone!Settled
    <3> QED  BY <3>1
  <2>2. ASSUME client = "web" PROVE Web!PlacedIsKnown
    <3> SUFFICES ASSUME NEW r \in Requests, order[r] # None, ~Web!Settled(r)
                 PROVE  record # None /\ record.request = r
      BY DEF Web!PlacedIsKnown
    <3>1. order[r].request = r /\ record = order[r]
      BY <2>2 DEF RecoveryInv, WebInv, DeskInv, WebKept, WebNotedIn, Web!Settled
    <3> QED  BY <3>1
  <2> QED  BY <2>1, <2>2 DEF PlacedIsKnown, RecoveryInv, WorldOK
<1> QED  BY <1>1, RecoverySafety, PTL

\* Of the orders a browser sent, two are never both still to come, for any number of
\* tabs and of people: the tabs share one note, and a checkout waits while the note is
\* of another order.  Excused are the two kinds of requests PlacedOrdersAreKnown names
\* for the web: refused while another call of it was at work, or sent again from a
\* copy when its record was gone.
THEOREM CheckoutsWait == Spec => []OneCheckoutAtATime
<1>1. RecoveryInv => OneCheckoutAtATime
  <2> SUFFICES ASSUME RecoveryInv, client = "web" PROVE Web!OneCheckoutAtATime
    BY DEF OneCheckoutAtATime
  <2>1. \A n \in Mail : ~Web!Settled(mail[n].payload.request) => record = mail[n].payload
    BY DEF RecoveryInv, WebInv, WebKept, WebNotedIn, Web!Settled
  <2> QED  BY <2>1 DEF Web!OneCheckoutAtATime, Mail
<1> QED  BY <1>1, RecoverySafety, PTL
=============================================================================
