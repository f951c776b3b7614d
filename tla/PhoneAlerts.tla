----------------------------- MODULE PhoneAlerts -----------------------------
(***************************************************************************)
(* Order alerts on the phones: customer-app/lib/api.ts (sign-in, renewal,  *)
(* sign-out), customer-app/lib/push.ts (registering the device) and        *)
(* ExpoPushService.sendToUser, over the server of module Sessions.         *)
(*                                                                         *)
(* A call is a request on its way and the code that waits for its answer.  *)
(* The app numbers its generations (authVersion) and ignores the answer of *)
(* a call made in an older one: such a call no longer `waits`.  Any        *)
(* request may find its access token expired and renew the session, so a   *)
(* renewal can start at any moment.                                        *)
(***************************************************************************)
EXTENDS Sessions, FiniteSets

CONSTANTS
  MaxCalls,   \* bound: requests of one phone that may be on their way
  MaxSends,   \* bound: push messages on their way
  MayFail     \* TRUE: requests and answers get lost, apps restart and are removed

VARIABLES
  phone,   \* [Devices -> [installed, user, session, noted]]
  calls,   \* requests sent and not yet answered or given up
  sends    \* push messages the provider has not answered, or said are gone

vars == <<serverVars, phone, calls, sends>>

Call == [kind : {"register", "renew", "remove", "logout"}, device : Devices,
         session : 1..MaxSession, waits : BOOLEAN,
         answer : {"none", "ok", "refused", "unauthorized"}, next : 0..MaxSession]

NewCall(k, d, s) ==
  [kind |-> k, device |-> d, session |-> s, waits |-> TRUE, answer |-> "none", next |-> 0]
SignedIn(d) == phone[d].session # 0
Waiting(k, d) == \E c \in calls : c.kind = k /\ c.device = d /\ c.waits

\* registeredToken belongs to the current generation.
Noted(d) == phone[d].noted
Line(d) == Cardinality({c \in calls : c.device = d}) < MaxCalls
SignedOut == [installed |-> TRUE, user |-> None, session |-> 0, noted |-> FALSE]

Init ==
  /\ InitServer
  /\ phone = [d \in Devices |-> SignedOut]
  /\ calls = {}
  /\ sends = {}

-----------------------------------------------------------------------------
(* The app                                                                 *)

\* A new generation: answers to register and renew are ignored from now on.
Deaf(c) == IF c.answer = "none" THEN {[c EXCEPT !.waits = FALSE]} ELSE {}
Outdated(d, kinds) ==
  UNION {IF c.device = d /\ c.kind \in kinds /\ c.waits THEN Deaf(c) ELSE {c} : c \in calls}

\* storeAuth: persists the tokens and registers the device.
Login(d, u) ==
  /\ phone[d].installed /\ ~SignedIn(d) /\ Line(d)
  /\ Issue(u)
  /\ phone' = [phone EXCEPT ![d] = [@ EXCEPT !.user = u, !.session = Len(sessions) + 1]]
  /\ calls' = Outdated(d, {"register", "renew"})
                \cup {NewCall("register", d, Len(sessions) + 1)}
  /\ UNCHANGED sends

\* registerForPush, from the app's start or repeated after a renewal.
StartRegister(d) ==
  /\ SignedIn(d) /\ ~Noted(d) /\ ~Waiting("register", d) /\ Line(d)
  /\ calls' = calls \cup {NewCall("register", d, phone[d].session)}
  /\ UNCHANGED <<serverVars, phone, sends>>

\* renewSession: one renewal per generation.
StartRenewal(d) ==
  /\ SignedIn(d) /\ ~Waiting("renew", d) /\ Line(d)
  /\ calls' = calls \cup {NewCall("renew", d, phone[d].session)}
  /\ UNCHANGED <<serverVars, phone, sends>>

\* clearAuth: the local session goes first; the captured tokens are then used to
\* drop the device, unless a removal is under way, and to end the session.
Leaving(d, before) ==
  /\ phone' = [phone EXCEPT ![d] = SignedOut]
  /\ calls' = before \cup
       {NewCall(IF Waiting("remove", d) THEN "logout" ELSE "remove", d, phone[d].session)}

SignOut(d) ==
  /\ SignedIn(d) /\ Line(d)
  /\ Leaving(d, Outdated(d, {"register", "renew"}))
  /\ UNCHANGED <<serverVars, sends>>

\* What the code that waited for c does with its answer.
Answered(c) ==
  LET d == c.device
      rest == calls \ {c} IN
  \/ /\ c.kind = "register"
     /\ phone' = [phone EXCEPT ![d].noted = @ \/ c.answer = "ok"]
     /\ calls' = rest
  \/ /\ c.kind = "renew" /\ c.answer = "unauthorized"
     /\ Leaving(d, Outdated(d, {"register", "renew"}) \ {c})
  \/ /\ c.kind = "renew" /\ c.answer # "unauthorized"
     /\ phone' = [phone EXCEPT ![d].session = c.next]
     /\ calls' = rest
  \/ /\ c.kind = "remove"
     /\ calls' = rest \cup {NewCall("logout", d, c.session)}
     /\ UNCHANGED phone
  \/ /\ c.kind = "logout"
     /\ calls' = rest
     /\ UNCHANGED phone

Receive(c) ==
  /\ c \in calls /\ c.waits /\ c.answer # "none"
  /\ Answered(c)
  /\ UNCHANGED <<serverVars, sends>>

\* timedFetch gives up: the request may still arrive, and sign-out goes on.
GiveUp(c) ==
  /\ MayFail
  /\ c \in calls /\ c.waits
  /\ calls' = (calls \ {c}) \cup Deaf(c)
              \cup (IF c.kind = "remove" THEN {NewCall("logout", c.device, c.session)} ELSE {})
  /\ UNCHANGED <<serverVars, phone, sends>>

\* A request nobody waits for any more is lost.
Lose(c) ==
  /\ MayFail
  /\ c \in calls /\ ~c.waits
  /\ calls' = calls \ {c}
  /\ UNCHANGED <<serverVars, phone, sends>>

\* The app's process ends: nothing waits any more, the stored session stays.
Restart(d) ==
  /\ MayFail
  /\ phone[d].installed
  /\ Noted(d) \/ \E c \in calls : c.device = d /\ c.waits
  /\ phone' = [phone EXCEPT ![d].noted = FALSE]
  /\ calls' = Outdated(d, {"register", "renew", "remove", "logout"})
  /\ UNCHANGED <<serverVars, sends>>

\* The app is removed from the phone, and installed again later.
Uninstall(d) ==
  /\ MayFail
  /\ phone[d].installed
  /\ phone' = [phone EXCEPT ![d] = [SignedOut EXCEPT !.installed = FALSE]]
  /\ calls' = Outdated(d, {"register", "renew", "remove", "logout"})
  /\ UNCHANGED <<serverVars, sends>>

Install(d) ==
  /\ ~phone[d].installed
  /\ phone' = [phone EXCEPT ![d] = SignedOut]
  /\ UNCHANGED <<serverVars, calls, sends>>

-----------------------------------------------------------------------------
(* The server answers a call                                               *)

ReplyWith(c, a, next) ==
  /\ calls' = (calls \ {c}) \cup
       (IF c.waits THEN {[c EXCEPT !.answer = a, !.next = next]} ELSE {})
  /\ UNCHANGED <<phone, sends>>

Reply(c, a) == ReplyWith(c, a, 0)
Arrived(c, k) == c \in calls /\ c.kind = k /\ c.answer = "none"

HandleRegister(c) ==
  /\ Arrived(c, "register") /\ Live(c.session)
  /\ StampAllows(c.device, c.session) /\ MayRegister(c.device, c.session)
  /\ Register(c.device, c.session)
  /\ Reply(c, "ok")

RefuseRegister(c) ==
  /\ Arrived(c, "register") /\ Live(c.session)
  /\ ~(StampAllows(c.device, c.session) /\ MayRegister(c.device, c.session))
  /\ Reply(c, "refused")
  /\ UNCHANGED serverVars

HandleRenew(c) ==
  /\ Arrived(c, "renew")
  /\ Rotate(c.session)
  /\ ReplyWith(c, "ok", Len(sessions) + 1)

HandleRemove(c) ==
  /\ Arrived(c, "remove") /\ Live(c.session)
  /\ Unregister(c.device, c.session)
  /\ Reply(c, "ok")

HandleLogout(c) ==
  /\ Arrived(c, "logout")
  /\ EndSession(c.session)
  /\ Reply(c, "ok")

\* JwtAuthGuard, and refreshTokens' own check.
Unauthorized(c) ==
  /\ c \in calls /\ c.kind # "logout" /\ c.answer = "none" /\ ~Live(c.session)
  /\ Reply(c, "unauthorized")
  /\ UNCHANGED serverVars

-----------------------------------------------------------------------------
(* sendToUser                                                              *)

\* The registration is read again, and checked, just before the message goes.
Send(d, u) ==
  /\ CanReceive(d, u) /\ Cardinality(sends) < MaxSends
  /\ sends' = sends \cup {[device |-> d, sent |-> latest[d], gone |-> FALSE]}
  /\ UNCHANGED <<serverVars, phone, calls>>

\* The provider delivers the message, or knows that the app was removed.
ProviderAnswers(m) ==
  /\ m \in sends /\ ~m.gone
  /\ sends' = (sends \ {m}) \cup
       (IF phone[m.device].installed THEN {} ELSE {[m EXCEPT !.gone = TRUE]})
  /\ UNCHANGED <<serverVars, phone, calls>>

PruneGone(m) ==
  /\ m \in sends /\ m.gone
  /\ Prune(m.device, m.sent)
  /\ sends' = sends \ {m}
  /\ UNCHANGED <<phone, calls>>

-----------------------------------------------------------------------------
ServerSteps ==
  \/ \E c \in calls : \/ HandleRegister(c) \/ RefuseRegister(c) \/ HandleRenew(c)
                      \/ HandleRemove(c) \/ HandleLogout(c) \/ Unauthorized(c)
  \/ \E u \in Users, d \in Devices : Send(d, u)
  \/ \E m \in sends : ProviderAnswers(m) \/ PruneGone(m)
  \/ MayFail /\ (\E s \in Issued : Lapse(s)) /\ UNCHANGED <<phone, calls, sends>>
  \/ MayFail /\ (\E u \in Users : SignOutEverywhere(u)) /\ UNCHANGED <<phone, calls, sends>>

Next ==
  \/ \E d \in Devices :
       \/ \E u \in Users : Login(d, u)
       \/ StartRegister(d) \/ StartRenewal(d) \/ SignOut(d)
       \/ Restart(d) \/ Uninstall(d) \/ Install(d)
  \/ \E c \in calls : Receive(c) \/ GiveUp(c) \/ Lose(c)
  \/ ServerSteps

Spec == Init /\ [][Next]_vars

-----------------------------------------------------------------------------
TypeOK ==
  /\ ServerTypeOK
  /\ phone \in [Devices -> [installed : BOOLEAN, user : Users \cup {None},
                            session : 0..MaxSession, noted : BOOLEAN]]
  /\ calls \subseteq Call
  /\ \A m \in sends : m.device \in Devices /\ m.gone \in BOOLEAN

\* A phone that was told its registration succeeded is the device its user's
\* alerts go to, until it signs out: no late call of an earlier sign-in on the
\* same phone and no late answer of the push provider takes that away.
AcknowledgedKeepsAlerts ==
  \A d \in Devices : Noted(d) =>
    /\ Registered(d)
    /\ sessions[latest[d].session].login = sessions[phone[d].session].login

\* "called on logout so the device stops getting alerts" (expo-push.service.ts):
\* once every call of a signed-out phone has been answered, nothing is sent to it.
LogoutStopsAlerts ==
  \A d \in Devices :
    ~SignedIn(d) /\ (\A c \in calls : c.device # d) => \A u \in Users : ~CanReceive(d, u)
=============================================================================
