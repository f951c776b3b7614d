------------------------------ MODULE OrderDesk ------------------------------
(***************************************************************************)
(* POST /orders and GET /orders/:id as the clients see them: a call is on  *)
(* its way, is looked up by its request id, and then places the order or   *)
(* is refused; its client may have stopped listening.  Module Checkout is  *)
(* the detail of what happens in between.                                  *)
(***************************************************************************)
EXTENDS Naturals

CONSTANTS
  Accounts,
  Requests,     \* ids the clients make up
  Offers,       \* what a basket may hold, at its prices
  Calls,        \* bound: orders on their way at a time
  None

Payload == [request : Requests, of : Accounts, offer : Offers]
Answers == {"placed", "refused", "unsure"}
CallRow == [payload : Payload, by : Accounts \cup {None},
            step : {"sent", "new"} \cup Answers, heard : BOOLEAN]

ASSUME DeskAssumption ==
  None \notin Accounts \cup Requests \cup Offers \cup Calls \cup Payload \cup CallRow

VARIABLES
  cart,     \* [Accounts -> the offer of the active basket, or None]
  order,    \* [Requests -> the payload it was placed with, or None]
  mail      \* [Calls -> the call on its way, or None]

desk == <<cart, order, mail>>

InitDesk ==
  /\ cart \in [Accounts -> Offers]
  /\ order = [r \in Requests |-> None]
  /\ mail = [n \in Calls |-> None]

-----------------------------------------------------------------------------
(* The client's side of a call                                             *)

Post(n, payload, by) ==
  /\ mail[n] = None
  /\ mail' = [mail EXCEPT ![n] = [payload |-> payload, by |-> by, step |-> "sent", heard |-> TRUE]]
  /\ UNCHANGED <<cart, order>>

Answered(n) == mail[n] # None /\ mail[n].step \in Answers

\* The answer is read.
Read(n) == mail' = [mail EXCEPT ![n] = None] /\ UNCHANGED <<cart, order>>

\* Nobody listens any more; the server goes on.
Abandon(n) ==
  /\ mail' = [mail EXCEPT ![n] = IF Answered(n) THEN None ELSE [@ EXCEPT !.heard = FALSE]]
  /\ UNCHANGED <<cart, order>>

\* GET /orders/:id shows an order to the customer who placed it.
Shows(r, by) == order[r] # None /\ order[r].of = by

UnderWay(r) == \E n \in Calls : mail[n] # None /\ mail[n].payload.request = r

-----------------------------------------------------------------------------
(* The server's side                                                       *)

Answer(n, a) ==
  mail' = [mail EXCEPT ![n] = IF @.heard THEN [@ EXCEPT !.step = a] ELSE None]

\* existingCheckout, before anything is checked.
Replay(n) ==
  LET p == mail[n].payload
  IN IF mail[n].by = None THEN "unsure"
     ELSE IF order[p.request] = None THEN "new"
     ELSE IF Shows(p.request, mail[n].by) THEN "placed" ELSE "unsure"

LookUp(n) ==
  /\ mail[n] # None /\ mail[n].step = "sent"
  /\ IF Replay(n) = "new" THEN mail' = [mail EXCEPT ![n].step = "new"] ELSE Answer(n, Replay(n))
  /\ UNCHANGED <<cart, order>>

\* The transaction: the approved offer is still what the basket holds.
Place(n) ==
  LET p == mail[n].payload
  IN /\ mail[n] # None /\ mail[n].step = "new"
     /\ mail[n].by = p.of /\ cart[p.of] = p.offer /\ order[p.request] = None
     /\ order' = [order EXCEPT ![p.request] = p]
     /\ cart' = [cart EXCEPT ![p.of] = None]
     /\ Answer(n, "placed")

\* Terms changed or the quote expired (QUOTE_CHANGED), found before the
\* transaction; no order is looked for.
Refuse(n) ==
  /\ mail[n] # None /\ mail[n].step = "new"
  /\ Answer(n, "refused")
  /\ UNCHANGED <<cart, order>>

\* A transaction that fails looks once more for the order of its request.
Recover(n) ==
  /\ mail[n] # None /\ mail[n].step = "new"
  /\ Shows(mail[n].payload.request, mail[n].by)
  /\ Answer(n, "placed")
  /\ UNCHANGED <<cart, order>>

\* Lost on the way, a server error, a conflict without a code.
Falter(n) ==
  /\ mail[n] # None /\ mail[n].step \in {"sent", "new"}
  /\ Answer(n, "unsure")
  /\ UNCHANGED <<cart, order>>

\* The customer's basket, from any device.
SetCart(a, o) ==
  /\ cart[a] # o
  /\ cart' = [cart EXCEPT ![a] = o]
  /\ UNCHANGED <<order, mail>>

ServerNext ==
  \/ \E n \in Calls : LookUp(n) \/ Place(n) \/ Refuse(n) \/ Recover(n) \/ Falter(n)
  \/ \E a \in Accounts, o \in Offers \cup {None} : SetCart(a, o)

TypeOKDesk ==
  /\ cart \in [Accounts -> Offers \cup {None}]
  /\ order \in [Requests -> Payload \cup {None}]
  /\ mail \in [Calls -> CallRow \cup {None}]
=============================================================================
