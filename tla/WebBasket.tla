------------------------------ MODULE WebBasket ------------------------------
(***************************************************************************)
(* The customer website's guest basket over browser tabs (apps/web/lib/    *)
(* api.ts).  The tabs share localStorage: the guest's session token, who   *)
(* is signed in, and two epochs that any tab may move on between the steps *)
(* of another tab's call.  A call of an earlier epoch is not fresh.        *)
(***************************************************************************)
EXTENDS Baskets

CONSTANT Tabs

VARIABLES
  hasLocks,     \* the browser knows navigator.locks (it never changes)
  token, user,  \* localStorage
  op,           \* [Tabs -> the tab's call, or None]
  lock,         \* the tab that holds sb.guest-create
  shown,        \* history: sessions a tab has shown goods in
  given         \* history: sessions the visitor gave up

client == <<token, user, op, lock>>
history == <<shown, given>>
vars == <<serverVars, hasLocks, client, history>>

Init ==
  /\ InitServer
  /\ hasLocks \in BOOLEAN
  /\ token = None /\ user = None
  /\ op = [t \in Tabs |-> None]
  /\ lock = None
  /\ shown = {} /\ given = {}

At(t, step) == op[t] # None /\ op[t].step = step
Creating == [step |-> "creating", fresh |-> TRUE]
Adding(s) == [step |-> "adding", session |-> s, fresh |-> TRUE]

\* What every call of before is, once an epoch has moved on.
Outdated(ops) == [t \in Tabs |-> IF ops[t] = None THEN None ELSE [ops[t] EXCEPT !.fresh = FALSE]]

-----------------------------------------------------------------------------
(* A guest adds an item: ensureGuestToken and rawRequest                   *)

Tap(t) ==
  /\ user = None /\ op[t] = None
  /\ op' = [op EXCEPT ![t] = IF token = None THEN Creating ELSE Adding(token)]
  /\ UNCHANGED <<serverVars, hasLocks, token, user, lock, history>>

\* Inside the lock, where there is one: another tab may have a session now.
MayCreate(t) == At(t, "creating") /\ (hasLocks => lock = None)

UseTheirs(t) ==
  /\ MayCreate(t) /\ token # None
  /\ op' = [op EXCEPT ![t] = IF op[t].fresh THEN Adding(token) ELSE None]
  /\ UNCHANGED <<serverVars, hasLocks, token, user, lock, history>>

Create(t, s) ==
  /\ MayCreate(t) /\ token = None
  /\ CreateSession(s)
  /\ op' = [op EXCEPT ![t] = [step |-> "created", session |-> s, fresh |-> op[t].fresh]]
  /\ lock' = IF hasLocks THEN t ELSE None
  /\ UNCHANGED <<hasLocks, token, user, history>>

\* The session is stored unless an epoch moved on, or another was meanwhile.
Adopt(t) ==
  LET winner == IF token = None THEN op[t].session ELSE token
  IN /\ At(t, "created")
     /\ lock' = None
     /\ IF op[t].fresh THEN token' = winner /\ op' = [op EXCEPT ![t] = Adding(winner)]
        ELSE op' = [op EXCEPT ![t] = None] /\ UNCHANGED token
     /\ UNCHANGED <<serverVars, hasLocks, user, history>>

ServeAdd(t) ==
  /\ At(t, "adding")
  /\ \E l \in Listings : AddItem(op[t].session, l, 1)
  /\ op' = [op EXCEPT ![t].step = "added"]
  /\ UNCHANGED <<hasLocks, token, user, lock, history>>

\* Wrong: the answer is shown whatever happened in the meantime.
ShowAny(t) ==
  /\ At(t, "added")
  /\ shown' = shown \cup {op[t].session}
  /\ op' = [op EXCEPT ![t] = None]
  /\ UNCHANGED <<serverVars, hasLocks, token, user, lock, given>>

\* The new basket is shown if the answer is still this session's.
Show(t) ==
  /\ At(t, "added")
  /\ shown' = IF op[t].fresh THEN shown \cup {op[t].session} ELSE shown
  /\ op' = [op EXCEPT ![t] = None]
  /\ UNCHANGED <<serverVars, hasLocks, token, user, lock, given>>

\* Refused, or no answer; the call is not repeated.
Fail(t) ==
  /\ op[t] # None /\ (At(t, "creating") => MayCreate(t))
  /\ op' = [op EXCEPT ![t] = None]
  /\ lock' = IF lock = t THEN None ELSE lock
  /\ UNCHANGED <<serverVars, hasLocks, token, user, history>>

-----------------------------------------------------------------------------
(* Signing in and out, the merge (once), and giving a basket up            *)

\* storeAuth, then the merge if there is a guest's session.
SignIn(t, c) ==
  /\ user = None /\ op[t] = None
  /\ user' = c
  /\ op' = [Outdated(op) EXCEPT ![t] =
              IF token = None THEN None
              ELSE [step |-> "merging", session |-> token, customer |-> c, fresh |-> TRUE]]
  /\ UNCHANGED <<serverVars, hasLocks, token, lock, history>>

ServeMerge(t) ==
  /\ At(t, "merging")
  /\ Merge(op[t].session, op[t].customer)
  /\ op' = [op EXCEPT ![t].step = "merged"]
  /\ UNCHANGED <<hasLocks, token, user, lock, history>>

\* The token goes if it is still the one merged.
EndMerge(t) ==
  /\ At(t, "merged")
  /\ token' = IF op[t].fresh /\ token = op[t].session THEN None ELSE token
  /\ op' = [op EXCEPT ![t] = None]
  /\ UNCHANGED <<serverVars, hasLocks, user, lock, history>>

\* logoutLocal
SignOut ==
  /\ user # None
  /\ user' = None /\ op' = Outdated(op)
  /\ UNCHANGED <<serverVars, hasLocks, token, lock, history>>

\* startNewGuestBasket asks only that nobody is signed in.
StartNew ==
  /\ user = None /\ token # None
  /\ given' = given \cup {token}
  /\ token' = None /\ op' = Outdated(op)
  /\ UNCHANGED <<serverVars, hasLocks, user, lock, shown>>

-----------------------------------------------------------------------------
(* A customer's basket is in use from every device.                        *)
MemberChange(c) ==
  /\ \/ \E l \in Listings :
          AddItem(c, l, 1) \/ \E n \in 0..basket[c].units[l] : UpdateItem(c, l, n)
     \/ Clear(c) \/ CheckOut(c)
  /\ UNCHANGED <<hasLocks, client, history>>

World ==
  /\ \/ \E s \in Sessions : Lapse(s)
     \/ \E l \in Listings, o \in Offers : Relist(l, o)
  /\ UNCHANGED <<hasLocks, client, history>>

Next ==
  \/ \E t \in Tabs :
       \/ Tap(t) \/ UseTheirs(t) \/ Adopt(t) \/ ServeAdd(t) \/ Show(t) \/ Fail(t)
       \/ \E s \in Sessions : Create(t, s)
       \/ \E c \in Customers : SignIn(t, c)
       \/ ServeMerge(t) \/ EndMerge(t)
  \/ SignOut \/ StartNew
  \/ \E c \in Customers : MemberChange(c)
  \/ World

Spec == Init /\ [][Next]_vars

-----------------------------------------------------------------------------
(* Properties                                                              *)

Step == {"creating", "created", "adding", "added", "merging", "merged"}

TypeOK ==
  /\ TypeOKServer
  /\ token \in Sessions \cup {None} /\ user \in Customers \cup {None}
  /\ \A t \in Tabs : op[t] # None => op[t].step \in Step /\ op[t].fresh \in BOOLEAN
  /\ lock \in Tabs \cup {None} /\ (lock # None => hasLocks)
  /\ shown \cup given \subseteq Sessions

\* Goods a tab has shown in the basket stay where the visitor finds them: in
\* the browser's session, in a customer's basket, or given up on purpose.
\* Tabs that start together share one session, and nothing revives an old one.
ShownGoodsStay ==
  \A s \in shown : basket[s].status = "MERGED" \/ s = token \/ s \in given
=============================================================================
