----------------------------- MODULE TabSessions -----------------------------
(***************************************************************************)
(* A signed-in browser: lib/browserSession.ts (the same file in the shop,  *)
(* the admin, the till and the customer's web app), the shop's sign-in,    *)
(* sign-out and browser alerts (lib/api.ts, lib/webPush.ts), over the      *)
(* server of module Sessions.                                              *)
(*                                                                         *)
(* All tabs share one record in localStorage, replaced as a whole: the     *)
(* session whose tokens it holds, 0 when signed out.  The record's epoch   *)
(* and identity are those of its sign-in, which a renewal keeps, so two    *)
(* records have the same epoch exactly when their sessions have the same   *)
(* `login`.  A renewal re-reads the record after every wait, works on what *)
(* it captured, and runs under one Web Lock, granted in turn.  A tab       *)
(* stands for one renewal at a time; a second one of the same tab, for     *)
(* another captured record, is a tab of its own.                           *)
(***************************************************************************)
EXTENDS Sessions, FiniteSets, SequencesExt

CONSTANTS
  Tabs,
  Browser,      \* the browser's push endpoint
  MaxRequests   \* bound: requests nobody waits for, on their way

BrowserAssumption == None \notin Tabs /\ Browser \in Devices

VARIABLES
  store,      \* the record in localStorage
  tab,        \* [Tabs -> [phase, captured, answer, next]]
  line,       \* the tabs that hold or wait for the lock, in turn
  requests,   \* requests on their way: [kind, session, by]
  lost        \* history: some tab went away without its renewal's answer

vars == <<serverVars, store, tab, line, requests, lost>>

Idle == [phase |-> "idle", captured |-> 0, answer |-> "none", next |-> 0]

Init ==
  /\ InitServer
  /\ store = 0
  /\ tab = [t \in Tabs |-> Idle]
  /\ line = <<>>
  /\ requests = {}
  /\ lost = FALSE

SameEpoch(s) == store # 0 /\ sessions[store].login = sessions[s].login
Unchanged(t) == store = tab[t].captured

Background(k) == {[kind |-> k, session |-> store, by |-> None]}
Spare == Cardinality({r \in requests : r.by = None}) < MaxRequests

-----------------------------------------------------------------------------
(* Signing in and out, and browser alerts, from any tab                    *)

\* storeAuth, after the server issued the session
Login(u) ==
  /\ Issue(u)
  /\ store' = Len(sessions) + 1
  /\ UNCHANGED <<tab, line, requests, lost>>

\* logout: the record is cleared first, the captured token is then revoked.
SignOut ==
  /\ store # 0 /\ Spare
  /\ store' = 0
  /\ requests' = requests \cup Background("logout")
  /\ UNCHANGED <<serverVars, tab, line, lost>>

\* enableWebPush and disableWebPush reach the server with the record's token.
Alerts(k) ==
  /\ store # 0 /\ Spare
  /\ requests' = requests \cup Background(k)
  /\ UNCHANGED <<serverVars, store, tab, line, lost>>

-----------------------------------------------------------------------------
(* One renewal                                                             *)

\* A request came back 401: renew(captured) joins the line for the lock.
Ask(t) ==
  /\ tab[t].phase = "idle" /\ store # 0
  /\ tab' = [tab EXCEPT ![t] = [Idle EXCEPT !.phase = "queued", !.captured = store]]
  /\ line' = Append(line, t)
  /\ UNCHANGED <<serverVars, store, requests, lost>>

Ends(t) ==
  /\ tab' = [tab EXCEPT ![t] = Idle]
  /\ \E i \in 1..Len(line) : line[i] = t /\ line' = RemoveAt(line, i)

\* A bug: no lock.
WrongGranted(t) == tab[t].phase = "queued"

\* The lock is granted: unless the record has changed, the captured token is sent.
Granted(t) == tab[t].phase = "queued" /\ Head(line) = t

Skip(t) ==
  /\ Granted(t) /\ ~Unchanged(t)
  /\ Ends(t)
  /\ UNCHANGED <<serverVars, store, requests, lost>>

Ready(t) == Granted(t) /\ Unchanged(t)

Request(t) ==
  /\ Ready(t)
  /\ tab' = [tab EXCEPT ![t].phase = "sent"]
  /\ requests' = requests \cup {[kind |-> "renew", session |-> tab[t].captured, by |-> t]}
  /\ UNCHANGED <<serverVars, store, line, lost>>

Answered(t) == tab[t].phase = "answered"

\* The record was changed meanwhile: the answer is dropped.
Ignore(t) ==
  /\ Answered(t) /\ ~Unchanged(t)
  /\ Ends(t)
  /\ UNCHANGED <<serverVars, store, requests, lost>>

\* A bug: the record is not read again after the answer.
WrongRenewed(t) ==
  /\ Answered(t) /\ tab[t].answer = "ok"
  /\ store' = tab[t].next
  /\ Ends(t)
  /\ UNCHANGED <<serverVars, requests, lost>>

Renewed(t) ==
  /\ Answered(t) /\ Unchanged(t) /\ tab[t].answer = "ok"
  /\ store' = tab[t].next
  /\ Ends(t)
  /\ UNCHANGED <<serverVars, requests, lost>>

\* Refused: wait 50 ms for another tab's record to show.
Pause(t) ==
  /\ Answered(t) /\ Unchanged(t) /\ tab[t].answer = "unauthorized"
  /\ tab' = [tab EXCEPT ![t].phase = "pause"]
  /\ UNCHANGED <<serverVars, store, line, requests, lost>>

\* clear(captured): only the record that was refused is cleared.
Cleared(t) == IF Unchanged(t) THEN 0 ELSE store

Clear(t) ==
  /\ tab[t].phase = "pause"
  /\ store' = Cleared(t)
  /\ Ends(t)
  /\ UNCHANGED <<serverVars, requests, lost>>

\* The 15 s timer, a network error or a 5xx answer: the request may still arrive.
GiveUp(t) ==
  /\ tab[t].phase \in {"sent", "answered"}
  /\ Ends(t)
  /\ requests' = {IF r.by = t THEN [r EXCEPT !.by = None] ELSE r : r \in requests}
  /\ lost' = TRUE
  /\ UNCHANGED <<serverVars, store>>

\* The tab is closed: the browser takes it out of the line.
Close(t) ==
  /\ tab[t].phase \in {"queued", "pause"}
  /\ Ends(t)
  /\ UNCHANGED <<serverVars, store, requests, lost>>

-----------------------------------------------------------------------------
(* The server                                                              *)

Reply(r, a, next) ==
  /\ requests' = requests \ {r}
  /\ tab' = [t \in Tabs |-> IF r.by = t
                            THEN [tab[t] EXCEPT !.phase = "answered", !.answer = a, !.next = next]
                            ELSE tab[t]]
  /\ UNCHANGED <<store, line, lost>>

HandleRenew(r) ==
  /\ r.kind = "renew"
  /\ Rotate(r.session)
  /\ Reply(r, "ok", Len(sessions) + 1)

Unauthorized(r) ==
  /\ r.kind # "logout" /\ ~Live(r.session)
  /\ Reply(r, "unauthorized", 0)
  /\ UNCHANGED serverVars

HandleLogout(r) ==
  /\ r.kind = "logout"
  /\ EndSession(r.session)
  /\ Reply(r, "ok", 0)

HandleSubscribe(r) ==
  /\ r.kind = "subscribe" /\ Live(r.session) /\ MayRegister(Browser, r.session)
  /\ Register(Browser, r.session)
  /\ Reply(r, "ok", 0)

RefuseSubscribe(r) ==
  /\ r.kind = "subscribe" /\ Live(r.session) /\ ~MayRegister(Browser, r.session)
  /\ Reply(r, "refused", 0)
  /\ UNCHANGED serverVars

HandleUnsubscribe(r) ==
  /\ r.kind = "unsubscribe" /\ Live(r.session)
  /\ Unregister(Browser, r.session)
  /\ Reply(r, "ok", 0)

Lose(r) ==
  /\ r.by = None
  /\ requests' = requests \ {r}
  /\ UNCHANGED <<serverVars, store, tab, line, lost>>

Handle(r) ==
  \/ HandleRenew(r) \/ Unauthorized(r) \/ HandleLogout(r)
  \/ HandleSubscribe(r) \/ RefuseSubscribe(r) \/ HandleUnsubscribe(r) \/ Lose(r)

Outside ==
  /\ (\E s \in Issued : Lapse(s)) \/ (\E u \in Users : SignOutEverywhere(u))
  /\ UNCHANGED <<store, tab, line, requests, lost>>

-----------------------------------------------------------------------------
TabStep(t) ==
  \/ Ask(t) \/ Skip(t) \/ Request(t) \/ Ignore(t) \/ Renewed(t) \/ Pause(t) \/ Clear(t)
  \/ GiveUp(t) \/ Close(t)

Next ==
  \/ \E u \in Users : Login(u)
  \/ SignOut
  \/ \E k \in {"subscribe", "unsubscribe"} : Alerts(k)
  \/ \E t \in Tabs : TabStep(t)
  \/ \E r \in requests : Handle(r)
  \/ Outside

Spec == Init /\ [][Next]_vars

-----------------------------------------------------------------------------
TypeOK ==
  /\ ServerTypeOK
  /\ store \in 0..MaxSession
  /\ tab \in [Tabs -> [phase : {"idle", "queued", "sent", "answered", "pause"},
                       captured : 0..MaxSession,
                       answer : {"none", "ok", "refused", "unauthorized"},
                       next : 0..MaxSession]]
  /\ line \in Seq(Tabs) /\ IsInjective(line)
  /\ \A t \in Tabs : tab[t].phase # "idle" <=> t \in Range(line)
  /\ requests \subseteq [kind : {"renew", "logout", "subscribe", "unsubscribe"},
                         session : 1..MaxSession, by : Tabs \cup {None}]
  /\ lost \in BOOLEAN

\* A renewal never signs the browser out of a sign-in that is still good: when a
\* refused tab clears the record, no session of that sign-in is live, unless an
\* answer was lost on the way.  Two tabs that renew at once do not lose the login.
SignedOutOnlyWhenOver ==
  [][\A t \in Tabs : Clear(t) /\ store' # store /\ ~lost =>
       \A s \in Issued : Live(s) => sessions[s].login # sessions[store].login]_vars

\* Outside of a sign-in, the record only moves on to a later session of the same
\* sign-in: a late answer neither brings back an account that was signed out nor
\* replaces the one that signed in meanwhile.
NoOldOwnerReturns ==
  [][store' \notin {0, store} /\ sessions' = sessions =>
       store' > store /\ SameEpoch(store')]_vars
=============================================================================
