------------------------------ MODULE MCSessions ------------------------------
(***************************************************************************)
(* Small worlds for PhoneAlerts and TabSessions over one server.  A run    *)
(* looks at one device, chosen at the start: a phone or a browser.  What   *)
(* its user does elsewhere reaches it through SignOutEverywhere only,      *)
(* since every sign-in has sessions and a push credential of its own.      *)
(***************************************************************************)
EXTENDS Sessions, TLC

CONSTANTS
  Browser, Tabs,
  MaxCalls, MaxSends, MayFail, MaxRequests

VARIABLES
  device,                              \* "phone" or "browser"
  phone, calls, sends,                 \* the phone's
  store, tab, line, requests, lost     \* the browser's

phoneVars == <<phone, calls, sends>>
browserVars == <<store, tab, line, requests, lost>>
vars == <<serverVars, device, phoneVars, browserVars>>

Phone == INSTANCE PhoneAlerts
Web == INSTANCE TabSessions

ASSUME Web!BrowserAssumption

Init ==
  /\ device \in {"phone", "browser"}
  /\ Phone!Init
  /\ Web!Init

OnPhone(Step) == device = "phone" /\ Step /\ UNCHANGED <<device, browserVars>>
OnWeb(Step) == device = "browser" /\ Step /\ UNCHANGED <<device, phoneVars>>

OnServer(Step) == MayFail /\ Step /\ UNCHANGED <<device, phoneVars, browserVars>>

\* Bound: one session is left until it expires.
NoneLapsed == \A s \in Issued : sessions[s].state # "LAPSED"

Next ==
  \/ \E d \in Devices :
       \/ \E u \in Users : OnPhone(Phone!Login(d, u))
       \/ OnPhone(Phone!StartRegister(d)) \/ OnPhone(Phone!StartRenewal(d))
       \/ OnPhone(Phone!SignOut(d)) \/ OnPhone(Phone!Restart(d))
       \/ OnPhone(Phone!Uninstall(d)) \/ OnPhone(Phone!Install(d))
       \/ \E u \in Users : OnPhone(Phone!Send(d, u))
  \/ \E c \in calls :
       \/ OnPhone(Phone!Receive(c)) \/ OnPhone(Phone!GiveUp(c)) \/ OnPhone(Phone!Lose(c))
       \/ OnPhone(Phone!HandleRegister(c)) \/ OnPhone(Phone!RefuseRegister(c))
       \/ OnPhone(Phone!HandleRenew(c)) \/ OnPhone(Phone!HandleRemove(c))
       \/ OnPhone(Phone!HandleLogout(c)) \/ OnPhone(Phone!Unauthorized(c))
  \/ \E m \in sends : OnPhone(Phone!ProviderAnswers(m)) \/ OnPhone(Phone!PruneGone(m))
  \/ \E u \in Users : OnWeb(Web!Login(u))
  \/ OnWeb(Web!SignOut)
  \/ \E k \in {"subscribe", "unsubscribe"} : OnWeb(Web!Alerts(k))
  \/ \E t \in Tabs :
       \/ OnWeb(Web!Ask(t)) \/ OnWeb(Web!Skip(t)) \/ OnWeb(Web!Request(t))
       \/ OnWeb(Web!Ignore(t)) \/ OnWeb(Web!Renewed(t)) \/ OnWeb(Web!Pause(t))
       \/ OnWeb(Web!Clear(t)) \/ OnWeb(Web!GiveUp(t)) \/ OnWeb(Web!Close(t))
  \/ \E r \in requests :
       \/ OnWeb(Web!HandleRenew(r)) \/ OnWeb(Web!Unauthorized(r)) \/ OnWeb(Web!HandleLogout(r))
       \/ OnWeb(Web!HandleSubscribe(r)) \/ OnWeb(Web!RefuseSubscribe(r))
       \/ OnWeb(Web!HandleUnsubscribe(r)) \/ OnWeb(Web!Lose(r))
  \/ \E s \in Issued : NoneLapsed /\ OnServer(Lapse(s))
  \/ \E u \in Users : OnServer(SignOutEverywhere(u))

Spec == Init /\ [][Next]_vars

\* Sound: nothing tells two users or two tabs apart.
Symmetry == Permutations(Users) \cup Permutations(Tabs)

-----------------------------------------------------------------------------
\* A phone whose app believes it is registered is, and gets the alerts of who is
\* signed in on it (registerForPush, pruneFailedRegistration).
AcknowledgedKeepsAlerts == Phone!AcknowledgedKeepsAlerts

\* No tab signs the browser out of a sign-in that is still good (renew).
SignedOutOnlyWhenOver == Web!SignedOutOnlyWhenOver

\* A late answer brings no earlier account or token back (renew, write).
NoOldOwnerReturns == Web!NoOldOwnerReturns
=============================================================================
