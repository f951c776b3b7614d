------------------------------- MODULE AuthProofs ------------------------------
(***************************************************************************)
(* First, what sign-ins and alerts keep for any number of users, devices,  *)
(* tabs, calls, messages and sessions: a phone that knows of its           *)
(* registration has it, an older session never takes a device over, and no *)
(* renewal of the browser signs it out of a good sign-in or brings an old  *)
(* one back.  Then, what one-time codes keep (OtpCodes).                   *)
(*                                                                         *)
(* The order of the sessions carries all of it.  A session's `login' is    *)
(* not younger than itself, calls and messages that are left over are of   *)
(* sessions before the sign-in there is, and of one sign-in one session    *)
(* lives.                                                                  *)
(***************************************************************************)
EXTENDS MCSessions, OtpCodes, SequenceTheorems, FiniteSetTheorems, TLAPS

Row == [user : Users, login : 1..MaxSession, state : {"LIVE", "REVOKED", "LAPSED"}]
TokenRow == [user : Users \cup {None}, stamp : 0..MaxSession]
Event == [owner : Users \cup {None}, session : 0..MaxSession,
          action : {"REGISTER", "TRANSFER", "REVOKE"}]

\* Every session descends from a sign-in that is not younger, and of the sessions of one
\* sign-in one is live.
SessionsInv ==
  /\ ServerTypeOK
  /\ \A s \in Issued : sessions[s].login \in 1..s
  /\ \A s, t \in Issued : Live(s) /\ Live(t) /\ sessions[s].login = sessions[t].login => s = t
  /\ \A d \in Devices : latest[d].session \in 0..Len(sessions)

\* The rows of the server, one by one.
LEMMA Rows ==
  ASSUME ServerTypeOK
  PROVE  /\ Len(sessions) \in 0..MaxSession /\ MaxSession \in Nat
         /\ sessions \in Seq(Row) /\ DOMAIN sessions = Issued
         /\ \A s \in Issued : sessions[s] \in Row /\ s \in 1..MaxSession
         /\ token \in [Devices -> TokenRow] /\ latest \in [Devices -> Event]
<1>1. /\ sessions \in Seq(Row) /\ Len(sessions) <= MaxSession
      /\ token \in [Devices -> TokenRow] /\ latest \in [Devices -> Event]
  BY DEF ServerTypeOK, Row, TokenRow, Event
<1>2. Len(sessions) \in Nat /\ DOMAIN sessions = Issued
  BY <1>1, LenProperties DEF Issued
<1>3. \A s \in Issued : sessions[s] \in Row
  BY <1>1, <1>2, ElementOfSeq DEF Issued
<1> QED  BY <1>1, <1>2, <1>3, SessionsAssumption DEF Issued

\* Sessions stay in their place, and no dead one comes back.
Stays(old, new) ==
  /\ Len(new) >= Len(old)
  /\ \A s \in 1..Len(old) : /\ new[s].login = old[s].login /\ new[s].user = old[s].user
                            /\ new[s].state = "LIVE" => old[s].state = "LIVE"

\* A session issued is the last.
LEMMA Appended ==
  ASSUME SessionsInv, Room, NEW row \in Row, NEW base \in Seq(Row),
         Len(base) = Len(sessions), Stays(sessions, base),
         sessions' = Append(base, row),
         UNCHANGED token, latest' \in [Devices -> Event],
         \A d \in Devices : latest'[d].session \in 0..Len(sessions) + 1,
         row.state = "LIVE", row.login \in 1..Len(sessions) + 1,
         \A s \in Issued : base[s].state = "LIVE" => base[s].login # row.login
  PROVE  /\ SessionsInv' /\ Stays(sessions, sessions')
         /\ Len(sessions') = Len(sessions) + 1 /\ sessions'[Len(sessions) + 1] = row
         /\ \A s \in Issued : sessions'[s] = base[s]
<1> DEFINE n == Len(sessions) + 1
<1>1. /\ n \in 1..MaxSession /\ Len(sessions) \in Nat /\ Issued = 1..Len(sessions) /\ MaxSession \in Nat
      /\ \A s \in Issued : sessions[s] \in Row /\ s < n
  BY Rows DEF SessionsInv, Room, Issued
<1>2. /\ sessions' \in Seq(Row) /\ Len(sessions') = n
      /\ sessions'[n] = row /\ \A s \in Issued : sessions'[s] = base[s]
  BY <1>1, AppendProperties
<1>3. Issued' = Issued \cup {n} /\ n \notin Issued
  BY <1>1, <1>2 DEF Issued
<1>4. ServerTypeOK'
  BY <1>1, <1>2 DEF SessionsInv, ServerTypeOK, Row, Event
<1>5. \A s \in Issued' : sessions'[s].login \in 1..s
  BY <1>1, <1>2, <1>3 DEF SessionsInv, Stays
<1>6. ASSUME NEW s \in Issued, NEW t \in Issued, Live(s)', Live(t)', sessions'[s].login = sessions'[t].login
      PROVE  s = t
  BY <1>1, <1>2, <1>6 DEF SessionsInv, Stays, Live
<1>7. ASSUME NEW s \in Issued, Live(s)'
      PROVE  sessions'[s].login # sessions'[n].login
  BY <1>2, <1>7 DEF Live
<1>8. \A s, t \in Issued' : Live(s)' /\ Live(t)' /\ sessions'[s].login = sessions'[t].login => s = t
  BY <1>3, <1>6, <1>7
<1>9. SessionsInv'
  BY <1>1, <1>2, <1>4, <1>5, <1>8 DEF SessionsInv
<1> QED  BY <1>1, <1>2, <1>9 DEF Stays

\* issueTokens: a sign-in begins with its first session.
LEMMA IssueFacts ==
  ASSUME SessionsInv, NEW u \in Users, Issue(u)
  PROVE  /\ SessionsInv' /\ Stays(sessions, sessions')
         /\ Len(sessions') = Len(sessions) + 1
         /\ sessions'[Len(sessions) + 1].login = Len(sessions) + 1
         /\ \A s \in Issued : sessions'[s] = sessions[s] /\ sessions'[s].login < Len(sessions) + 1
         /\ UNCHANGED <<token, latest>>
<1> DEFINE n == Len(sessions) + 1
           row == [user |-> u, login |-> n, state |-> "LIVE"]
<1>1. /\ Len(sessions) \in 0..MaxSession /\ sessions \in Seq(Row) /\ Room /\ MaxSession \in Nat
      /\ latest \in [Devices -> Event] /\ sessions' = Append(sessions, row)
      /\ UNCHANGED <<token, latest>>
  BY Rows DEF SessionsInv, Issue
<1>2. row \in Row /\ row.state = "LIVE" /\ row.login = n
  BY <1>1 DEF Row, Room
<1>3. \A s \in Issued : sessions[s].login < n
  BY <1>1 DEF SessionsInv, Issued
<1>4. Stays(sessions, sessions) /\ \A s \in Issued : sessions[s].login # n
  BY <1>1, <1>3 DEF Stays, Issued
<1>5. \A d \in Devices : latest'[d].session \in 0..n
  BY <1>1 DEF SessionsInv
<1> HIDE DEF row
<1>6. latest' \in [Devices -> Event] /\ UNCHANGED token
  BY <1>1
<1>7. \A s \in Issued : sessions[s].state = "LIVE" => sessions[s].login # row.login
  BY <1>2, <1>4
<1>8. row \in Row /\ row.state = "LIVE" /\ row.login \in 1..Len(sessions) + 1
  BY <1>1, <1>2
<1>9. /\ SessionsInv' /\ Stays(sessions, sessions')
      /\ Len(sessions') = n /\ sessions'[n] = row /\ \A s \in Issued : sessions'[s] = sessions[s]
  BY <1>1, <1>4, <1>5, <1>6, <1>7, <1>8, Appended
<1> QED  BY <1>1, <1>2, <1>3, <1>9

\* refreshTokens: the session dies, its successor lives, its registrations move.
LEMMA RotateFacts ==
  ASSUME SessionsInv, NEW s, Rotate(s)
  PROVE  /\ SessionsInv' /\ Stays(sessions, sessions') /\ s \in Issued
         /\ Len(sessions') = Len(sessions) + 1
         /\ sessions'[Len(sessions) + 1].login = sessions[s].login
         /\ Live(s) /\ ~Live(s)'
         /\ \A d \in Devices :
              /\ Registered(d) => Registered(d)'
              /\ latest'[d].session # latest[d].session =>
                   latest[d].session = s /\ latest'[d].session = Len(sessions) + 1
              /\ Registered(d)' => Registered(d)
         /\ UNCHANGED token
<1> DEFINE n == Len(sessions) + 1
           row == [sessions[s] EXCEPT !.state = "LIVE"]
           dead == [sessions[s] EXCEPT !.state = "REVOKED"]
           base == [sessions EXCEPT ![s] = dead]
<1>1. /\ Len(sessions) \in 0..MaxSession /\ sessions \in Seq(Row) /\ Room /\ s \in Issued
      /\ latest \in [Devices -> Event] /\ MaxSession \in Nat
      /\ sessions[s] \in Row /\ sessions[s].state = "LIVE"
      /\ latest' = Transferred(s, n) /\ UNCHANGED token
  BY Rows DEF SessionsInv, Rotate, Live
<1>2. sessions' = Append(base, row)
  BY <1>1 DEF Rotate
<1>3. /\ row \in Row /\ row.state = "LIVE" /\ row.login = sessions[s].login
      /\ dead \in Row /\ dead.state = "REVOKED" /\ dead.login = sessions[s].login
      /\ dead.user = sessions[s].user
  BY <1>1 DEF Row
<1> HIDE DEF row, dead
<1>4. /\ base \in Seq(Row) /\ Len(base) = Len(sessions) /\ base[s] = dead
      /\ \A t \in Issued : t # s => base[t] = sessions[t]
  BY <1>1, <1>3, ExceptSeq DEF Issued
<1> HIDE DEF base
<1>5. Stays(sessions, base)
  BY <1>1, <1>3, <1>4 DEF Stays, Issued
<1>6. \A t \in Issued : base[t].state = "LIVE" => base[t].login # row.login
  BY <1>1, <1>3, <1>4 DEF SessionsInv, Live
<1>7. row.login \in 1..n
  BY <1>1, <1>3 DEF SessionsInv, Issued
<1>8. \A d \in Devices :
        /\ latest'[d] \in Event
        /\ latest'[d].session \in 0..n
        /\ Registered(d) <=> Registered(d)'
        /\ latest'[d].session # latest[d].session => latest[d].session = s /\ latest'[d].session = n
  <2> TAKE d \in Devices
  <2>1. latest[d] \in Event /\ latest[d].session \in 0..Len(sessions) /\ n \in 1..MaxSession
    BY <1>1 DEF SessionsInv, Room
  <2>2. CASE Holds(d, s)
    <3>1. latest'[d] = [latest[d] EXCEPT !.session = n, !.action = "TRANSFER"]
      BY <1>1, <2>2 DEF Transferred
    <3> DEFINE e == latest[d]
    <3> HIDE DEF e, n
    <3>4. e \in Event /\ n \in 0..MaxSession
      BY <1>1, <2>1 DEF e, n
    <3>5. LET f == [e EXCEPT !.session = n, !.action = "TRANSFER"]
          IN f \in Event /\ f.session = n /\ f.action = "TRANSFER"
      BY <3>4 DEF Event
    <3>2. /\ latest'[d] \in Event /\ latest'[d].session = n /\ latest'[d].action = "TRANSFER"
      BY <3>1, <3>5 DEF e
    <3>3. Registered(d) /\ Registered(d)' /\ latest[d].session = s
      BY <2>2, <3>2 DEF Registered, Holds
    <3> QED  BY <1>1, <2>1, <3>2, <3>3
  <2>3. CASE ~Holds(d, s)
    <3>1. latest'[d] = latest[d]
      BY <1>1, <2>3 DEF Transferred
    <3> QED  BY <1>1, <2>1, <3>1 DEF Registered
  <2> QED  BY <2>2, <2>3
<1>9. latest' \in [Devices -> Event]
  BY <1>1, <1>8 DEF Transferred
<1>10. /\ SessionsInv' /\ Stays(sessions, sessions') /\ Len(sessions') = n /\ sessions'[n] = row
       /\ \A t \in Issued : sessions'[t] = base[t]
  BY <1>1, <1>2, <1>3, <1>4, <1>5, <1>6, <1>7, <1>8, <1>9, Appended
<1>11. Live(s) /\ ~Live(s)'
  BY <1>1, <1>3, <1>4, <1>10 DEF Live
<1> QED  BY <1>1, <1>3, <1>8, <1>10, <1>11

\* No session is issued or comes back, and no registration changes its session.
LEMMA Lasting ==
  ASSUME SessionsInv, sessions' \in Seq(Row), Len(sessions') = Len(sessions),
         Stays(sessions, sessions'),
         token' \in [Devices -> TokenRow], latest' \in [Devices -> Event],
         \A d \in Devices : latest'[d].session \in 0..Len(sessions)
  PROVE  SessionsInv'
<1>1. /\ Len(sessions) \in 0..MaxSession /\ MaxSession \in Nat /\ Issued' = Issued /\ Issued = 1..Len(sessions)
  BY Rows DEF SessionsInv, Issued
<1>2. ServerTypeOK'
  BY <1>1 DEF ServerTypeOK, Row, TokenRow, Event
<1>3. \A s \in Issued' : sessions'[s].login \in 1..s
  BY <1>1 DEF SessionsInv, Stays
<1>4. \A s, t \in Issued' : Live(s)' /\ Live(t)' /\ sessions'[s].login = sessions'[t].login => s = t
  BY <1>1 DEF SessionsInv, Stays, Live
<1> QED  BY <1>1, <1>2, <1>3, <1>4 DEF SessionsInv

\* expiresAt passes.
LEMMA LapseFacts ==
  ASSUME SessionsInv, NEW s, Lapse(s)
  PROVE  /\ SessionsInv' /\ Stays(sessions, sessions') /\ Len(sessions') = Len(sessions)
         /\ UNCHANGED <<token, latest>>
<1> DEFINE row == [sessions[s] EXCEPT !.state = "LAPSED"]
<1>1. /\ Len(sessions) \in Nat /\ sessions \in Seq(Row) /\ s \in Issued /\ sessions[s] \in Row
      /\ token \in [Devices -> TokenRow] /\ latest \in [Devices -> Event]
      /\ sessions' = [sessions EXCEPT ![s] = row] /\ UNCHANGED <<token, latest>>
  BY Rows DEF SessionsInv, Lapse, Live
<1>2. row \in Row /\ row.login = sessions[s].login /\ row.user = sessions[s].user /\ row.state # "LIVE"
  BY <1>1 DEF Row
<1> HIDE DEF row
<1>3. /\ sessions' \in Seq(Row) /\ Len(sessions') = Len(sessions) /\ sessions'[s] = row
      /\ \A t \in Issued : t # s => sessions'[t] = sessions[t]
  BY <1>1, <1>2, ExceptSeq DEF Issued
<1>4. Stays(sessions, sessions')
  BY <1>1, <1>2, <1>3 DEF Stays, Issued
<1> QED  BY <1>1, <1>3, <1>4, Lasting DEF SessionsInv

\* A user is signed out everywhere.
LEMMA OutFacts ==
  ASSUME SessionsInv, NEW u, SignOutEverywhere(u)
  PROVE  /\ SessionsInv' /\ Stays(sessions, sessions') /\ Len(sessions') = Len(sessions)
         /\ UNCHANGED <<token, latest>>
<1> DEFINE row(s) == IF sessions[s].user = u THEN [sessions[s] EXCEPT !.state = "REVOKED"]
                     ELSE sessions[s]
<1>1. /\ Len(sessions) \in Nat /\ sessions \in Seq(Row) /\ \A s \in Issued : sessions[s] \in Row
      /\ token \in [Devices -> TokenRow] /\ latest \in [Devices -> Event]
      /\ sessions' = [s \in Issued |-> row(s)] /\ UNCHANGED <<token, latest>>
  BY Rows DEF SessionsInv, SignOutEverywhere
<1>2. \A s \in Issued : /\ row(s) \in Row /\ row(s).login = sessions[s].login
                        /\ row(s).user = sessions[s].user
                        /\ row(s).state = "LIVE" => sessions[s].state = "LIVE"
  BY <1>1 DEF Row
<1> HIDE DEF row
<1>3. sessions' \in Seq(Row) /\ Len(sessions') = Len(sessions)
  <2>1. sessions' \in [1..Len(sessions) -> Row]
    BY <1>1, <1>2 DEF Issued
  <2> QED  BY <1>1, <2>1
<1>4. \A s \in Issued : sessions'[s] = row(s)
  BY <1>1
<1>5. Stays(sessions, sessions')
  BY <1>1, <1>2, <1>3, <1>4 DEF Stays, Issued
<1> QED  BY <1>1, <1>3, <1>5, Lasting DEF SessionsInv

\* logout: the session dies, and the registrations it holds with it.
LEMMA EndFacts ==
  ASSUME SessionsInv, NEW s \in Issued, EndSession(s)
  PROVE  /\ SessionsInv' /\ Stays(sessions, sessions') /\ Len(sessions') = Len(sessions)
         /\ \A d \in Devices :
              /\ latest'[d].session = latest[d].session
              /\ Registered(d)' => Registered(d)
              /\ Registered(d) /\ ~Registered(d)' => latest[d].session = s
<1> DEFINE row == [sessions[s] EXCEPT !.state = "REVOKED"]
           open == sessions[s].state # "REVOKED"
<1>1. /\ Len(sessions) \in Nat /\ sessions \in Seq(Row) /\ s \in Issued /\ sessions[s] \in Row
      /\ token \in [Devices -> TokenRow] /\ latest \in [Devices -> Event] /\ MaxSession \in Nat
      /\ sessions' = [sessions EXCEPT ![s] = row]
      /\ token' = [d \in Devices |-> IF open /\ Holds(d, s) THEN NoToken ELSE token[d]]
      /\ latest' = [d \in Devices |-> IF open /\ Holds(d, s) THEN Revoked(d) ELSE latest[d]]
  BY Rows DEF SessionsInv, EndSession
<1>2. row \in Row /\ row.login = sessions[s].login /\ row.user = sessions[s].user /\ row.state # "LIVE"
  BY <1>1 DEF Row
<1> HIDE DEF row, open
<1>3. /\ sessions' \in Seq(Row) /\ Len(sessions') = Len(sessions) /\ sessions'[s] = row
      /\ \A t \in Issued : t # s => sessions'[t] = sessions[t]
  BY <1>1, <1>2, ExceptSeq DEF Issued
<1>4. Stays(sessions, sessions')
  BY <1>1, <1>2, <1>3 DEF Stays, Issued
<1>5. NoToken \in TokenRow
  BY <1>1 DEF NoToken, TokenRow
<1>6. \A d \in Devices : /\ Revoked(d) \in Event /\ Revoked(d).session = latest[d].session
                         /\ Revoked(d).action = "REVOKE"
  BY <1>1 DEF Revoked, Event
<1>7. token' \in [Devices -> TokenRow]
  BY <1>1, <1>5
<1>8. \A d \in Devices : latest'[d] = IF open /\ Holds(d, s) THEN Revoked(d) ELSE latest[d]
  BY <1>1
<1>9. latest' \in [Devices -> Event]
  BY <1>1, <1>6
<1>10. \A d \in Devices :
         /\ latest'[d].session = latest[d].session
         /\ Registered(d)' => Registered(d)
         /\ Registered(d) /\ ~Registered(d)' => latest[d].session = s
  BY <1>6, <1>8 DEF Registered, Holds
<1>11. SessionsInv'
  BY <1>3, <1>4, <1>7, <1>9, <1>10, Lasting DEF SessionsInv
<1> QED  BY <1>3, <1>4, <1>10, <1>11

\* registerForSession: the registration of d is session s's from now on.
LEMMA RegisterFacts ==
  ASSUME SessionsInv, NEW d \in Devices, NEW s \in Issued, Register(d, s)
  PROVE  /\ SessionsInv' /\ UNCHANGED sessions
         /\ latest'[d].session = s /\ Registered(d)'
         /\ \A e \in Devices \ {d} : latest'[e] = latest[e]
<1> DEFINE row == [user |-> sessions[s].user, stamp |-> s]
           event == [owner |-> sessions[s].user, session |-> s, action |-> "REGISTER"]
<1>1. /\ Len(sessions) \in Nat /\ sessions \in Seq(Row) /\ sessions[s] \in Row /\ s \in 1..MaxSession
      /\ token \in [Devices -> TokenRow] /\ latest \in [Devices -> Event]
      /\ token' = [token EXCEPT ![d] = row] /\ latest' = [latest EXCEPT ![d] = event]
      /\ UNCHANGED sessions
  BY Rows DEF SessionsInv, Register
<1>2. row \in TokenRow /\ event \in Event /\ event.session = s /\ event.action # "REVOKE"
  BY <1>1 DEF Row, TokenRow, Event
<1> HIDE DEF row, event
<1>3. /\ token' \in [Devices -> TokenRow] /\ latest' \in [Devices -> Event] /\ latest'[d] = event
      /\ \A e \in Devices \ {d} : latest'[e] = latest[e]
  BY <1>1, <1>2
<1>4. \A e \in Devices : latest'[e].session \in 0..Len(sessions)
  BY <1>1, <1>2, <1>3 DEF SessionsInv, Issued
<1>5. Stays(sessions, sessions')
  BY <1>1 DEF Stays
<1>6. SessionsInv'
  BY <1>1, <1>3, <1>4, <1>5, Lasting
<1> QED  BY <1>1, <1>2, <1>3, <1>6 DEF Registered

\* A registration is dropped.
LEMMA Dropped ==
  ASSUME SessionsInv, NEW d \in Devices, NEW c \in BOOLEAN,
         token' = [token EXCEPT ![d] = IF c THEN NoToken ELSE @],
         latest' = [latest EXCEPT ![d] = IF c THEN Revoked(d) ELSE @],
         UNCHANGED sessions
  PROVE  /\ SessionsInv'
         /\ latest'[d].session = latest[d].session
         /\ Registered(d)' => Registered(d)
         /\ Registered(d) /\ ~Registered(d)' => c
         /\ \A e \in Devices \ {d} : latest'[e] = latest[e]
<1>1. /\ Len(sessions) \in Nat /\ sessions \in Seq(Row) /\ MaxSession \in Nat
      /\ token \in [Devices -> TokenRow] /\ latest \in [Devices -> Event]
  BY Rows DEF SessionsInv
<1>2. NoToken \in TokenRow
  BY <1>1 DEF NoToken, TokenRow
<1>3. Revoked(d) \in Event /\ Revoked(d).session = latest[d].session /\ Revoked(d).action = "REVOKE"
  BY <1>1 DEF Revoked, Event
<1>4. /\ token' \in [Devices -> TokenRow] /\ latest' \in [Devices -> Event]
      /\ latest'[d] = (IF c THEN Revoked(d) ELSE latest[d])
      /\ \A e \in Devices \ {d} : latest'[e] = latest[e]
  BY <1>1, <1>2, <1>3
<1>5. \A e \in Devices : latest'[e].session \in 0..Len(sessions)
  BY <1>3, <1>4 DEF SessionsInv
<1>6. SessionsInv'
  BY <1>1, <1>4, <1>5, Lasting DEF Stays
<1> QED  BY <1>3, <1>4, <1>6 DEF Registered

\* The clients' modules speak of the same server.
LEMMA PhoneServer ==
  ASSUME NEW d, NEW s, NEW u
  PROVE  /\ Phone!Issue(u) = Issue(u) /\ Phone!Rotate(s) = Rotate(s)
         /\ Phone!EndSession(s) = EndSession(s)
         /\ Phone!Register(d, s) = Register(d, s) /\ Phone!Unregister(d, s) = Unregister(d, s)
         /\ Phone!Prune(d, s) = Prune(d, s) /\ Phone!MayRegister(d, s) = MayRegister(d, s)
         /\ Phone!Live(s) = Live(s)
BY DEF Phone!Issue, Issue, Phone!Rotate, Rotate, Phone!EndSession, EndSession,
       Phone!Register, Register, Phone!Unregister, Unregister, Phone!Prune, Prune,
       Phone!MayRegister, MayRegister, Phone!Live, Live, Phone!Room, Room,
       Phone!Transferred, Transferred, Phone!Holds, Holds, Phone!Revoked, Revoked,
       Phone!NoToken, NoToken, Phone!Registered, Registered, Phone!Issued, Issued

\* ... and so does the browser's.
LEMMA WebServer ==
  ASSUME NEW d, NEW s, NEW u
  PROVE  /\ Web!Issue(u) = Issue(u) /\ Web!Rotate(s) = Rotate(s)
         /\ Web!EndSession(s) = EndSession(s)
         /\ Web!Register(d, s) = Register(d, s) /\ Web!Unregister(d, s) = Unregister(d, s)
         /\ Web!MayRegister(d, s) = MayRegister(d, s)
         /\ Web!Live(s) = Live(s)
BY DEF Web!Issue, Issue, Web!Rotate, Rotate, Web!EndSession, EndSession,
       Web!Register, Register, Web!Unregister, Unregister,
       Web!MayRegister, MayRegister, Web!Live, Live, Web!Room, Room,
       Web!Transferred, Transferred, Web!Holds, Holds, Web!Revoked, Revoked,
       Web!NoToken, NoToken, Web!Registered, Registered, Web!Issued, Issued

-----------------------------------------------------------------------------
(* The browser: tabs, their requests and the record                        *)

TabRow == [phase : {"idle", "queued", "sent", "answered", "pause"}, captured : 0..MaxSession,
           answer : {"none", "ok", "refused", "unauthorized"}, next : 0..MaxSession]
RequestRow == [kind : {"renew", "logout", "subscribe", "unsubscribe"},
               session : 1..MaxSession, by : Tabs \cup {None}]

Works(t) == tab[t].phase \in {"sent", "answered", "pause"}
Won(t) == tab[t].phase = "answered" /\ tab[t].answer = "ok"
Denied(t) == (tab[t].phase = "answered" /\ tab[t].answer = "unauthorized") \/ tab[t].phase = "pause"

WebShapes ==
  /\ store \in 0..Len(sessions)
  /\ tab \in [Tabs -> TabRow] /\ line \in Seq(Tabs)
  /\ requests \subseteq RequestRow /\ lost \in BOOLEAN

\* What a tab has captured and been answered.
TabsKnow ==
  /\ \A t \in Tabs : tab[t].phase # "idle" => tab[t].captured \in Issued
  /\ \A t \in Tabs : Won(t) =>
       /\ tab[t].next \in Issued /\ tab[t].next > tab[t].captured /\ ~Live(tab[t].captured)
       /\ sessions[tab[t].next].login = sessions[tab[t].captured].login
  /\ \A t \in Tabs : Denied(t) => ~Live(tab[t].captured)

\* One tab at a time works under the lock.
InTurn ==
  /\ \A i, j \in 1..Len(line) : line[i] = line[j] => i = j
  /\ \A t \in Tabs : tab[t].phase # "idle" <=> \E i \in 1..Len(line) : line[i] = t
  /\ \A t \in Tabs : Works(t) => line # <<>> /\ line[1] = t

\* A request somebody waits for is that tab's renewal of what it captured.
Asked ==
  /\ \A r \in requests : r.session \in Issued
  /\ \A r \in requests : r.by # None =>
       r.by \in Tabs /\ r.kind = "renew" /\ tab[r.by].phase = "sent" /\ tab[r.by].captured = r.session
  /\ ~lost => \A r \in requests : r.by = None => r.kind # "renew"

\* The one live session of the sign-in in the record is in the record, or on its way to it.
Recorded ==
  ~lost => \A s \in Issued :
    store # 0 /\ Live(s) /\ sessions[s].login = sessions[store].login =>
      s = store \/ \E t \in Tabs : Won(t) /\ tab[t].captured = store /\ tab[t].next = s

WebInv == SessionsInv /\ WebShapes /\ TabsKnow /\ InTurn /\ Asked /\ Recorded

\* A tab that works is the only one.
LEMMA OneWorks ==
  ASSUME InTurn, NEW t \in Tabs, NEW u \in Tabs, Works(t), Works(u)
  PROVE  t = u
BY DEF InTurn

\* One element is taken out of a sequence.
LEMMA RemoveAtFacts ==
  ASSUME NEW S, NEW q \in Seq(S), NEW i \in 1..Len(q)
  PROVE  LET r == Web!RemoveAt(q, i) IN
         /\ r \in Seq(S) /\ Len(r) = Len(q) - 1
         /\ \A j \in 1..Len(q) - 1 : r[j] = IF j < i THEN q[j] ELSE q[j + 1]
<1> DEFINE a == SubSeq(q, 1, i - 1)
           b == SubSeq(q, i + 1, Len(q))
<1>1. Len(q) \in Nat /\ \A j \in 1..Len(q) : q[j] \in S
  BY LenProperties, ElementOfSeq
<1>2. /\ a \in Seq(S) /\ Len(a) = i - 1 /\ \A j \in 1..i - 1 : a[j] = q[j]
  <2>1. \A j \in 1..i - 1 : q[j] \in S
    BY <1>1
  <2> QED  BY <1>1, <2>1, SubSeqProperties
<1>3. /\ b \in Seq(S) /\ Len(b) = Len(q) - i /\ \A j \in 1..Len(q) - i : b[j] = q[j + i]
  <2>1. \A j \in i + 1..Len(q) : q[j] \in S
    BY <1>1
  <2>2. /\ b \in Seq(S)
        /\ Len(b) = IF i + 1 <= Len(q) THEN Len(q) - (i + 1) + 1 ELSE 0
        /\ \A j \in 1..Len(q) - (i + 1) + 1 : b[j] = q[i + 1 + j - 1]
    BY <1>1, <2>1, SubSeqProperties
  <2> QED  BY <1>1, <2>2
<1> HIDE DEF a, b
<1>4. /\ a \o b \in Seq(S) /\ Len(a \o b) = Len(q) - 1
      /\ \A j \in 1..Len(q) - 1 : (a \o b)[j] = IF j <= i - 1 THEN a[j] ELSE b[j - (i - 1)]
  <2>1. /\ a \o b \in Seq(S) /\ Len(a \o b) = Len(a) + Len(b)
        /\ \A j \in 1..Len(a) + Len(b) : (a \o b)[j] = IF j <= Len(a) THEN a[j] ELSE b[j - Len(a)]
    BY <1>2, <1>3, ConcatProperties
  <2>2. Len(a) + Len(b) = Len(q) - 1
    BY <1>1, <1>2, <1>3
  <2> QED  BY <1>2, <2>1, <2>2
<1>5. Web!RemoveAt(q, i) = a \o b
  BY DEF Web!RemoveAt, a, b
<1>6. \A j \in 1..Len(q) - 1 : (a \o b)[j] = IF j < i THEN q[j] ELSE q[j + 1]
  <2> TAKE j \in 1..Len(q) - 1
  <2>1. CASE j < i
    BY <1>1, <1>2, <1>4, <2>1
  <2>2. CASE ~(j < i)
    <3>1. j - (i - 1) \in 1..Len(q) - i /\ (j - (i - 1)) + i = j + 1
      BY <1>1, <2>2
    <3> QED  BY <1>1, <1>3, <1>4, <2>2, <3>1
  <2> QED  BY <2>1, <2>2
<1> QED  BY <1>4, <1>5, <1>6

\* A tab leaves the line.
LEMMA EndsFacts ==
  ASSUME WebShapes, InTurn, NEW t \in Tabs, Web!Ends(t)
  PROVE  /\ tab' \in [Tabs -> TabRow] /\ line' \in Seq(Tabs) /\ InTurn'
         /\ tab'[t].phase = "idle" /\ \A u \in Tabs \ {t} : tab'[u] = tab[u]
<1>1. PICK i \in 1..Len(line) : line[i] = t /\ line' = Web!RemoveAt(line, i)
  BY DEF Web!Ends
<1>2. /\ tab \in [Tabs -> TabRow] /\ line \in Seq(Tabs) /\ tab' = [tab EXCEPT ![t] = Web!Idle]
      /\ Len(line) \in Nat
  BY LenProperties DEF WebShapes, Web!Ends
<1>3. /\ line' \in Seq(Tabs) /\ Len(line') = Len(line) - 1
      /\ \A j \in 1..Len(line) - 1 : line'[j] = IF j < i THEN line[j] ELSE line[j + 1]
  BY <1>1, <1>2, RemoveAtFacts
<1>4. Web!Idle \in TabRow /\ Web!Idle.phase = "idle"
  BY SessionsAssumption DEF Web!Idle, TabRow
<1>5. /\ tab' \in [Tabs -> TabRow] /\ tab'[t].phase = "idle"
      /\ \A u \in Tabs \ {t} : tab'[u] = tab[u]
  BY <1>2, <1>4
<1>6. ASSUME NEW j \in 1..Len(line'), NEW k \in 1..Len(line'), line'[j] = line'[k]
      PROVE  j = k
  <2> DEFINE J == IF j < i THEN j ELSE j + 1
             K == IF k < i THEN k ELSE k + 1
  <2>1. J \in 1..Len(line) /\ K \in 1..Len(line) /\ line[J] = line[K]
    BY <1>2, <1>3, <1>6
  <2>2. J = K
    BY <2>1 DEF InTurn
  <2> QED  BY <1>2, <1>3, <2>2
<1>7. \A u \in Tabs : (\E j \in 1..Len(line') : line'[j] = u)
                        <=> u # t /\ \E j \in 1..Len(line) : line[j] = u
  <2> TAKE u \in Tabs
  <2>1. ASSUME NEW j \in 1..Len(line'), line'[j] = u
        PROVE  u # t /\ \E k \in 1..Len(line) : line[k] = u
    <3> DEFINE J == IF j < i THEN j ELSE j + 1
    <3>1. J \in 1..Len(line) /\ line[J] = u /\ J # i
      BY <1>2, <1>3, <2>1
    <3> QED  BY <1>1, <3>1 DEF InTurn
  <2>2. ASSUME u # t, NEW j \in 1..Len(line), line[j] = u
        PROVE  \E k \in 1..Len(line') : line'[k] = u
    <3>1. j # i
      BY <1>1, <2>2
    <3>2. CASE j < i
      <4>1. j \in 1..Len(line') /\ line'[j] = line[j]
        BY <1>2, <1>3, <3>2
      <4> QED  BY <2>2, <4>1
    <3>3. CASE j > i
      <4>1. j - 1 \in 1..Len(line') /\ line'[j - 1] = line[j]
        BY <1>2, <1>3, <3>3
      <4> QED  BY <2>2, <4>1
    <3> QED  BY <1>2, <1>3, <3>1, <3>2, <3>3
  <2> QED  BY <2>1, <2>2
<1>8. \A u \in Tabs : (tab[u].phase # "idle") <=> \E j \in 1..Len(line) : line[j] = u
  BY DEF InTurn
<1>9. \A u \in Tabs : (tab'[u].phase # "idle") <=> \E j \in 1..Len(line') : line'[j] = u
  BY <1>5, <1>7, <1>8
<1>10. ASSUME NEW u \in Tabs, Works(u)' PROVE line' # <<>> /\ line'[1] = u
  <2>1. u # t /\ tab'[u] = tab[u] /\ Works(u)
    BY <1>5, <1>10 DEF Works
  <2>2. line[1] = u
    BY <2>1 DEF InTurn
  <2>3. tab[u].phase # "idle"
    BY <2>1 DEF Works
  <2>4. PICK j \in 1..Len(line') : line'[j] = u
    BY <1>7, <1>8, <2>1, <2>3
  <2>5. 1 \in 1..Len(line') /\ i # 1
    BY <1>1, <1>2, <1>3, <2>1, <2>2, <2>4
  <2>6. line'[1] = u
    BY <1>1, <1>2, <1>3, <2>2, <2>5
  <2>7. line' # <<>>
    BY <1>3, <2>5, EmptySeq
  <2> QED  BY <2>6, <2>7
<1> QED  BY <1>3, <1>5, <1>6, <1>9, <1>10 DEF InTurn

\* The server does nothing.
LEMMA SameSessions ==
  ASSUME SessionsInv, UNCHANGED <<sessions, token, latest>>
  PROVE  SessionsInv' /\ Issued' = Issued /\ \A s : Live(s)' = Live(s)
BY DEF SessionsInv, ServerTypeOK, Issued, Live

\* A tab's renewal ends.
LEMMA LeavesStep ==
  ASSUME WebInv, NEW t \in Tabs, Web!Ends(t), UNCHANGED <<sessions, token, latest>>,
         store' \in 0..Len(sessions), requests' \subseteq RequestRow, lost' \in BOOLEAN,
         Asked', Recorded'
  PROVE  WebInv'
<1>1. /\ tab' \in [Tabs -> TabRow] /\ line' \in Seq(Tabs) /\ InTurn'
      /\ tab'[t].phase = "idle" /\ \A u \in Tabs \ {t} : tab'[u] = tab[u]
  BY EndsFacts DEF WebInv
<1>2. SessionsInv' /\ Issued' = Issued /\ \A s : Live(s)' = Live(s)
  BY SameSessions DEF WebInv
<1>3. WebShapes'
  BY <1>1 DEF WebShapes
<1>4. TabsKnow'
  <2>1. \A u \in Tabs : tab'[u].phase # "idle" => u # t /\ tab'[u] = tab[u]
    BY <1>1
  <2>2. \A u \in Tabs : (Won(u)' => Won(u) /\ tab'[u] = tab[u]) /\ (Denied(u)' => Denied(u) /\ tab'[u] = tab[u])
    BY <2>1 DEF Won, Denied
  <2> QED  BY <1>2, <2>1, <2>2 DEF TabsKnow, WebInv
<1> QED  BY <1>1, <1>2, <1>3, <1>4 DEF WebInv

\* Nobody's request is lost with it.
LEMMA AskedStays ==
  ASSUME WebInv, NEW t \in Tabs, Web!Ends(t), UNCHANGED <<sessions, requests, lost>>,
         tab[t].phase # "sent"
  PROVE  Asked'
<1>1. \A u \in Tabs \ {t} : tab'[u] = tab[u]
  BY EndsFacts DEF WebInv
<1>2. \A r \in requests : r.by # None => r.by # t
  BY DEF WebInv, Asked
<1> QED  BY <1>1, <1>2 DEF WebInv, Asked, Issued

\* A tab without an answer to store leaves the record as it is.
LEMMA RecordedStays ==
  ASSUME WebInv, NEW t \in Tabs, Web!Ends(t), UNCHANGED <<sessions, token, latest, store, lost>>,
         ~(Won(t) /\ tab[t].captured = store)
  PROVE  Recorded'
<1>1. /\ \A u \in Tabs \ {t} : tab'[u] = tab[u]
      /\ Issued' = Issued /\ \A s : Live(s)' = Live(s)
  BY EndsFacts, SameSessions DEF WebInv
<1>2. \A u \in Tabs : Won(u) /\ tab[u].captured = store => u # t /\ Won(u)' /\ tab'[u] = tab[u]
  BY <1>1 DEF Won
<1> QED  BY <1>1, <1>2 DEF WebInv, Recorded

\* A renewal ends, with or without an answer that changes the record.
LEMMA EndSteps ==
  ASSUME WebInv, NEW t \in Tabs,
         \/ Web!Skip(t) \/ Web!Ignore(t) \/ Web!Renewed(t) \/ Web!Clear(t) \/ Web!Close(t)
  PROVE  WebInv'
<1>1. /\ Web!Ends(t) /\ UNCHANGED <<sessions, token, latest, requests, lost>>
      /\ tab[t].phase \in {"queued", "answered", "pause"}
  BY DEF Web!Skip, Web!Ignore, Web!Renewed, Web!Clear, Web!Close, Web!serverVars,
         Web!Granted, Web!Answered
<1>2. Asked'
  BY <1>1, AskedStays
<1>3. /\ Issued' = Issued /\ \A s : Live(s)' = Live(s)
      /\ store \in 0..Len(sessions) /\ requests \subseteq RequestRow /\ lost \in BOOLEAN
      /\ Len(sessions) \in Nat /\ Issued = 1..Len(sessions)
  BY <1>1, SameSessions, Rows DEF WebInv, WebShapes, SessionsInv, Issued
<1>4. CASE store' = store /\ ~(Won(t) /\ tab[t].captured = store)
  <2>1. Recorded'
    BY <1>1, <1>4, RecordedStays
  <2> QED  BY <1>1, <1>2, <1>3, <1>4, <2>1, LeavesStep
<1>5. CASE Web!Renewed(t)
  <2>1. /\ Won(t) /\ tab[t].captured = store /\ store' = tab[t].next
    BY <1>5 DEF Web!Renewed, Web!Answered, Web!Unchanged, Won
  <2>2. /\ tab[t].next \in Issued /\ sessions[tab[t].next].login = sessions[store].login
        /\ store \in Issued /\ ~Live(store)
    BY <2>1 DEF WebInv, TabsKnow, Won
  <2>3. \A u \in Tabs : Won(u) => u = t
    BY <2>1, OneWorks DEF Won, Works, WebInv
  <2>4. ~lost => \A s \in Issued : Live(s) /\ sessions[s].login = sessions[store].login
                                   => s = store \/ s = tab[t].next
    BY <1>3, <2>2, <2>3 DEF WebInv, Recorded
  <2>5. Recorded'
    BY <1>1, <1>3, <2>1, <2>2, <2>4 DEF Recorded
  <2> QED  BY <1>1, <1>2, <1>3, <2>1, <2>2, <2>5, LeavesStep
<1>6. CASE Web!Clear(t)
  <2>1. tab[t].phase = "pause" /\ store' \in {0, store} /\ ~Won(t)
    BY <1>6 DEF Web!Clear, Web!Cleared, Won
  <2>2. CASE store' = store
    BY <1>4, <2>1, <2>2
  <2>3. CASE store' = 0
    <3>1. Recorded'
      BY <2>3 DEF Recorded
    <3> QED  BY <1>1, <1>2, <1>3, <2>3, <3>1, LeavesStep
  <2> QED  BY <2>1, <2>2, <2>3
<1>7. ASSUME \/ Web!Skip(t) \/ Web!Ignore(t) \/ Web!Close(t)
      PROVE  store' = store /\ ~(Won(t) /\ tab[t].captured = store)
  BY <1>7 DEF Web!Skip, Web!Ignore, Web!Close, Web!Granted, Web!Answered, Web!Unchanged, Won
<1> QED  BY <1>4, <1>5, <1>6, <1>7

\* The tab waits no longer, and its request, if it is still on its way, is nobody's.
LEMMA GiveUpStep ==
  ASSUME WebInv, NEW t \in Tabs, Web!GiveUp(t)
  PROVE  WebInv'
<1>1. /\ Web!Ends(t) /\ UNCHANGED <<sessions, token, latest, store>> /\ lost' = TRUE
      /\ requests' = {IF r.by = t THEN [r EXCEPT !.by = None] ELSE r : r \in requests}
  BY DEF Web!GiveUp, Web!serverVars
<1>2. /\ \A u \in Tabs \ {t} : tab'[u] = tab[u]
      /\ Issued' = Issued /\ requests \subseteq RequestRow
      /\ store \in 0..Len(sessions)
  BY <1>1, EndsFacts, SameSessions DEF WebInv, WebShapes
<1>3. \A x \in requests' : \E r \in requests :
        /\ x.session = r.session /\ x.kind = r.kind /\ x \in RequestRow
        /\ (x = r /\ r.by # t) \/ x.by = None
  <2> TAKE x \in requests'
  <2>1. PICK r \in requests : x = IF r.by = t THEN [r EXCEPT !.by = None] ELSE r
    BY <1>1
  <2>2. r \in RequestRow
    BY <1>2
  <2> QED  BY <2>1, <2>2 DEF RequestRow
<1>4. Asked'
  <2>1. \A x \in requests' : x.session \in Issued
    BY <1>3 DEF WebInv, Asked
  <2>2. ASSUME NEW x \in requests', x.by # None
        PROVE  x.by \in Tabs /\ x.kind = "renew" /\ tab'[x.by].phase = "sent" /\ tab'[x.by].captured = x.session
    <3>1. x \in requests /\ x.by # t
      BY <1>3, <2>2
    <3> QED  BY <1>2, <2>2, <3>1 DEF WebInv, Asked
  <2> QED  BY <1>1, <1>2, <2>1, <2>2 DEF Asked
<1>5. requests' \subseteq RequestRow /\ Recorded'
  BY <1>1, <1>3 DEF Recorded
<1> QED  BY <1>1, <1>2, <1>4, <1>5, LeavesStep

\* A tab in line, or under the lock, goes on, and no answer is read.
LEMMA GoesOn ==
  ASSUME WebInv, NEW t \in Tabs, NEW row \in TabRow, tab' = [tab EXCEPT ![t] = row],
         UNCHANGED <<sessions, token, latest, store, line, lost>>,
         tab[t].phase # "idle", row.phase # "idle", row.captured = tab[t].captured,
         Works(t) \/ line[1] = t, row.phase # "queued",
         row.phase = "answered" => row.answer # "ok",
         (row.phase = "answered" /\ row.answer = "unauthorized") \/ row.phase = "pause"
           => ~Live(tab[t].captured),
         ~Won(t),
         requests' \subseteq RequestRow, Asked'
  PROVE  WebInv'
<1>1. /\ SessionsInv' /\ Issued' = Issued /\ \A s : Live(s)' = Live(s)
      /\ tab \in [Tabs -> TabRow] /\ WebShapes /\ line \in Seq(Tabs)
  BY SameSessions DEF WebInv, WebShapes
<1>2. /\ tab' \in [Tabs -> TabRow] /\ tab'[t] = row
      /\ \A u \in Tabs \ {t} : tab'[u] = tab[u]
  BY <1>1
<1>3. WebShapes'
  BY <1>1, <1>2 DEF WebShapes
<1>4. \A u \in Tabs : /\ Won(u)' => u # t /\ Won(u)
                      /\ u # t => (Denied(u)' <=> Denied(u)) /\ (Won(u)' <=> Won(u))
  BY <1>2 DEF Won, Denied
<1>5. TabsKnow'
  <2>1. \A u \in Tabs : tab'[u].phase # "idle" => tab'[u].captured \in Issued
    BY <1>2 DEF WebInv, TabsKnow
  <2>2. Denied(t)' => ~Live(tab'[t].captured)
    BY <1>2 DEF Denied
  <2> QED  BY <1>1, <1>2, <1>4, <2>1, <2>2 DEF WebInv, TabsKnow
<1>6. InTurn'
  <2>1. line # <<>> /\ line[1] = t
    <3>1. PICK i \in 1..Len(line) : line[i] = t
      BY DEF WebInv, InTurn
    <3>2. line # <<>>
      BY <1>1, <3>1, EmptySeq
    <3> QED  BY <3>2 DEF WebInv, InTurn
  <2>2. \A u \in Tabs : (tab'[u].phase # "idle") <=> \E i \in 1..Len(line) : line[i] = u
    BY <1>2 DEF WebInv, InTurn
  <2>3. \A u \in Tabs : Works(u)' => u = t \/ Works(u)
    BY <1>2 DEF Works
  <2> QED  BY <2>1, <2>2, <2>3 DEF WebInv, InTurn
<1>7. Recorded'
  BY <1>1, <1>2, <1>4 DEF WebInv, Recorded
<1> QED  BY <1>1, <1>3, <1>5, <1>6, <1>7 DEF WebInv

\* The captured token is sent.
LEMMA RequestStep ==
  ASSUME WebInv, NEW t \in Tabs, Web!Request(t)
  PROVE  WebInv'
<1> DEFINE row == [tab[t] EXCEPT !.phase = "sent"]
           x == [kind |-> "renew", session |-> tab[t].captured, by |-> t]
<1>1. /\ tab[t].phase = "queued" /\ Head(line) = t
      /\ tab' = [tab EXCEPT ![t] = row] /\ requests' = requests \cup {x}
      /\ UNCHANGED <<sessions, token, latest, store, line, lost>>
  BY DEF Web!Request, Web!Ready, Web!Granted, Web!serverVars
<1>2. /\ tab \in [Tabs -> TabRow] /\ requests \subseteq RequestRow /\ line \in Seq(Tabs)
      /\ tab[t].captured \in Issued /\ Issued \subseteq 1..MaxSession
  BY <1>1, Rows DEF WebInv, WebShapes, TabsKnow, SessionsInv
<1>3. row \in TabRow /\ row.phase = "sent" /\ row.captured = tab[t].captured
  BY <1>2 DEF TabRow
<1>4. x \in RequestRow /\ x.by = t /\ x.kind = "renew" /\ x.session = tab[t].captured
  BY <1>2 DEF RequestRow
<1> HIDE DEF row, x
<1>5. line[1] = t
  <2>1. PICK i \in 1..Len(line) : line[i] = t
    BY <1>1 DEF WebInv, InTurn
  <2>2. line # <<>>
    BY <1>2, <2>1, EmptySeq
  <2> QED  BY <1>1, <1>2, <2>2
<1>6. tab'[t] = row /\ \A u \in Tabs \ {t} : tab'[u] = tab[u]
  BY <1>1, <1>2
<1>7. Asked'
  <2>1. \A r \in requests : r.by # None => r.by # t
    BY <1>1 DEF WebInv, Asked
  <2>2. t # None
    BY Web!BrowserAssumption DEF Web!BrowserAssumption
  <2> QED  BY <1>1, <1>2, <1>4, <1>3, <1>6, <2>1, <2>2 DEF WebInv, Asked, Issued
<1>8. ~Won(t) /\ requests' \subseteq RequestRow
  BY <1>1, <1>2, <1>4 DEF Won
<1> QED  BY <1>1, <1>3, <1>5, <1>7, <1>8, GoesOn

\* A refusal is looked at again, 50 ms later.
LEMMA PauseStep ==
  ASSUME WebInv, NEW t \in Tabs, Web!Pause(t)
  PROVE  WebInv'
<1> DEFINE row == [tab[t] EXCEPT !.phase = "pause"]
<1>1. /\ tab[t].phase = "answered" /\ tab[t].answer = "unauthorized"
      /\ tab' = [tab EXCEPT ![t] = row]
      /\ UNCHANGED <<sessions, token, latest, store, line, requests, lost>>
  BY DEF Web!Pause, Web!Answered, Web!serverVars
<1>2. tab \in [Tabs -> TabRow] /\ requests \subseteq RequestRow
  BY DEF WebInv, WebShapes
<1>3. row \in TabRow /\ row.phase = "pause" /\ row.captured = tab[t].captured
  BY <1>2 DEF TabRow
<1> HIDE DEF row
<1>4. tab'[t] = row /\ \A u \in Tabs \ {t} : tab'[u] = tab[u]
  BY <1>1, <1>2
<1>5. Asked'
  <2>1. \A r \in requests : r.by # None => r.by # t
    BY <1>1 DEF WebInv, Asked
  <2> QED  BY <1>1, <1>4, <2>1 DEF WebInv, Asked, Issued
<1>6. ~Won(t) /\ Works(t) /\ ~Live(tab[t].captured)
  BY <1>1 DEF Won, Works, Denied, WebInv, TabsKnow
<1> QED  BY <1>1, <1>2, <1>3, <1>5, <1>6, GoesOn

\* A renewal joins the line.
LEMMA AskStep ==
  ASSUME WebInv, NEW t \in Tabs, Web!Ask(t)
  PROVE  WebInv'
<1> DEFINE row == [Web!Idle EXCEPT !.phase = "queued", !.captured = store]
<1>1. /\ tab[t].phase = "idle" /\ store # 0
      /\ tab' = [tab EXCEPT ![t] = row] /\ line' = Append(line, t)
      /\ UNCHANGED <<sessions, token, latest, store, requests, lost>>
  BY DEF Web!Ask, Web!serverVars
<1>2. /\ SessionsInv' /\ Issued' = Issued /\ \A s : Live(s)' = Live(s)
      /\ tab \in [Tabs -> TabRow] /\ WebShapes /\ line \in Seq(Tabs) /\ Len(line) \in Nat
      /\ store \in Issued /\ Issued \subseteq 0..MaxSession /\ MaxSession \in Nat
  BY <1>1, SameSessions, Rows, LenProperties DEF WebInv, WebShapes, SessionsInv, Issued
<1>3. row \in TabRow /\ row.phase = "queued" /\ row.captured = store
  <2>1. Web!Idle \in TabRow /\ store \in 0..MaxSession
    BY <1>2 DEF Web!Idle, TabRow
  <2> QED  BY <2>1 DEF TabRow
<1> HIDE DEF row
<1>4. /\ tab' \in [Tabs -> TabRow] /\ tab'[t] = row
      /\ \A u \in Tabs \ {t} : tab'[u] = tab[u]
  BY <1>1, <1>2, <1>3
<1>5. /\ line' \in Seq(Tabs) /\ Len(line') = Len(line) + 1 /\ line'[Len(line) + 1] = t
      /\ \A i \in 1..Len(line) : line'[i] = line[i]
  BY <1>1, <1>2, AppendProperties
<1>6. WebShapes'
  BY <1>1, <1>2, <1>4, <1>5 DEF WebShapes
<1>7. \A u \in Tabs : /\ Won(u)' <=> Won(u) /\ u # t
                      /\ Denied(u)' <=> Denied(u) /\ u # t
                      /\ Works(u)' <=> Works(u) /\ u # t
  BY <1>1, <1>3, <1>4 DEF Won, Denied, Works
<1>8. TabsKnow'
  BY <1>1, <1>2, <1>3, <1>4, <1>7 DEF WebInv, TabsKnow
<1>9. Asked'
  <2>1. \A r \in requests : r.by # None => r.by # t
    BY <1>1 DEF WebInv, Asked
  <2> QED  BY <1>1, <1>4, <2>1 DEF WebInv, Asked, Issued
<1>10. Recorded'
  BY <1>1, <1>2, <1>4, <1>7 DEF WebInv, Recorded, Won
<1>11. InTurn'
  <2>1. ~\E i \in 1..Len(line) : line[i] = t
    BY <1>1 DEF WebInv, InTurn
  <2>2. \A i, j \in 1..Len(line') : line'[i] = line'[j] => i = j
    BY <1>2, <1>5, <2>1 DEF WebInv, InTurn
  <2>3. \A u \in Tabs : (\E i \in 1..Len(line') : line'[i] = u)
                          <=> u = t \/ \E i \in 1..Len(line) : line[i] = u
    <3> TAKE u \in Tabs
    <3>1. ASSUME NEW i \in 1..Len(line'), line'[i] = u
          PROVE  u = t \/ \E j \in 1..Len(line) : line[j] = u
      BY <1>2, <1>5, <3>1
    <3>2. ASSUME NEW i \in 1..Len(line), line[i] = u
          PROVE  \E j \in 1..Len(line') : line'[j] = u
      <4>1. i \in 1..Len(line') /\ line'[i] = u
        BY <1>2, <1>5, <3>2
      <4> QED  BY <4>1
    <3>3. Len(line) + 1 \in 1..Len(line') /\ line'[Len(line) + 1] = t
      BY <1>2, <1>5
    <3> QED  BY <3>1, <3>2, <3>3
  <2>4. \A u \in Tabs : (tab'[u].phase # "idle") <=> \E i \in 1..Len(line') : line'[i] = u
    BY <1>3, <1>4, <2>3 DEF WebInv, InTurn
  <2>5. ASSUME NEW u \in Tabs, Works(u)' PROVE line' # <<>> /\ line'[1] = u
    <3>1. Works(u) /\ line # <<>> /\ line[1] = u
      BY <1>7, <2>5 DEF WebInv, InTurn
    <3>2. 1 \in 1..Len(line)
      BY <1>2, <3>1, EmptySeq
    <3>3. line' # <<>>
      BY <1>5, <1>2, EmptySeq
    <3> QED  BY <1>5, <3>1, <3>2, <3>3
  <2> QED  BY <2>2, <2>4, <2>5 DEF InTurn
<1> QED  BY <1>2, <1>6, <1>8, <1>9, <1>10, <1>11 DEF WebInv

\* What is known of a session stays known, whatever the server does.
LEMMA StaysFacts ==
  ASSUME SessionsInv, SessionsInv', Stays(sessions, sessions')
  PROVE  \A s \in Issued : /\ s \in Issued' /\ sessions'[s].login = sessions[s].login
                           /\ Live(s)' => Live(s)
BY Rows DEF SessionsInv, Stays, Issued, Live

\* The server does something that no tab is told of, and issues nothing.
LEMMA UntoldStep ==
  ASSUME WebInv, SessionsInv', Stays(sessions, sessions'), Len(sessions') = Len(sessions),
         UNCHANGED <<store, tab, line, lost>>, requests' \subseteq requests
  PROVE  WebInv'
<1>1. /\ \A s \in Issued : /\ s \in Issued' /\ sessions'[s].login = sessions[s].login
                           /\ Live(s)' => Live(s)
      /\ Issued' = Issued /\ Issued = 1..Len(sessions) /\ store \in 0..Len(sessions)
      /\ Len(sessions) \in Nat
  BY StaysFacts, Rows DEF WebInv, Issued, WebShapes, SessionsInv
<1>2. WebShapes' /\ InTurn'
  BY DEF WebInv, WebShapes, InTurn, Works
<1>3. TabsKnow'
  BY <1>1 DEF WebInv, TabsKnow, Won, Denied
<1>4. Asked'
  BY <1>1 DEF WebInv, Asked
<1>5. Recorded'
  BY <1>1 DEF WebInv, Recorded, Won
<1> QED  BY <1>2, <1>3, <1>4, <1>5 DEF WebInv

\* A tab that has its answer.
Told(row, a, n) == [row EXCEPT !.phase = "answered", !.answer = a, !.next = n]

\* The fields of a tab that has its answer.
LEMMA ToldFacts ==
  ASSUME NEW row \in TabRow, NEW a \in {"ok", "refused", "unauthorized"}, NEW n \in 0..MaxSession
  PROVE  /\ Told(row, a, n) \in TabRow /\ Told(row, a, n).phase = "answered"
         /\ Told(row, a, n).captured = row.captured
         /\ Told(row, a, n).answer = a /\ Told(row, a, n).next = n
BY DEF Told, TabRow

\* A request is answered, and its tab, if it still waits, is told.
LEMMA ReplyFacts ==
  ASSUME WebInv, NEW r \in requests, NEW a, NEW n, Web!Reply(r, a, n)
  PROVE  /\ requests' = requests \ {r} /\ UNCHANGED <<store, line, lost>>
         /\ r.by = None => tab' = tab
         /\ r.by # None => /\ r.by \in Tabs /\ r.kind = "renew" /\ r.session = tab[r.by].captured
                           /\ tab[r.by].phase = "sent"
                           /\ tab' = [tab EXCEPT ![r.by] = Told(tab[r.by], a, n)]
                           /\ \A q \in requests' : q.by # r.by
         /\ r \in RequestRow /\ r.session \in Issued
<1>1. /\ requests' = requests \ {r} /\ UNCHANGED <<store, line, lost>>
      /\ tab' = [t \in Tabs |-> IF r.by = t THEN Told(tab[t], a, n) ELSE tab[t]]
  BY DEF Web!Reply, Told
<1>2. tab \in [Tabs -> TabRow] /\ requests \subseteq RequestRow /\ None \notin Tabs
  BY Web!BrowserAssumption DEF WebInv, WebShapes, Web!BrowserAssumption
<1>3. r.by = None => tab' = tab
  BY <1>1, <1>2
<1>4. r.session \in Issued
  BY DEF WebInv, Asked
<1>5. ASSUME r.by # None
      PROVE  /\ r.by \in Tabs /\ r.kind = "renew" /\ r.session = tab[r.by].captured
             /\ tab[r.by].phase = "sent"
             /\ tab' = [tab EXCEPT ![r.by] = Told(tab[r.by], a, n)]
             /\ \A q \in requests' : q.by # r.by
  <2>1. /\ r.by \in Tabs /\ r.kind = "renew" /\ r.session = tab[r.by].captured
        /\ tab[r.by].phase = "sent"
    BY <1>5 DEF WebInv, Asked
  <2>2. ASSUME NEW q \in requests, q.by = r.by PROVE q = r
    <3>1. q.kind = "renew" /\ q.session = tab[r.by].captured
      BY <1>5, <2>2 DEF WebInv, Asked
    <3>2. q \in RequestRow /\ r \in RequestRow
      BY <1>2
    <3> QED  BY <2>1, <2>2, <3>1, <3>2 DEF RequestRow
  <2> DEFINE row == Told(tab[r.by], a, n)
  <2>3. tab' = [t \in Tabs |-> IF t = r.by THEN row ELSE tab[t]]
    BY <1>1
  <2> HIDE DEF row
  <2>4. tab' = [tab EXCEPT ![r.by] = row]
    BY <1>2, <2>1, <2>3
  <2> QED  BY <1>1, <2>1, <2>2, <2>4 DEF row
<1> QED  BY <1>1, <1>2, <1>3, <1>4, <1>5

\* Refused: the session is not live.
LEMMA UnauthorizedStep ==
  ASSUME WebInv, NEW r \in requests, Web!Unauthorized(r)
  PROVE  WebInv'
<1>1. /\ Web!Reply(r, "unauthorized", 0) /\ ~Live(r.session)
      /\ UNCHANGED <<sessions, token, latest>>
  BY WebServer DEF Web!Unauthorized, Web!serverVars
<1>2. SessionsInv' /\ Stays(sessions, sessions') /\ Len(sessions') = Len(sessions)
  BY <1>1, SameSessions, Rows DEF Stays, WebInv, SessionsInv
<1>3. CASE r.by = None
  BY <1>1, <1>2, <1>3, ReplyFacts, UntoldStep
<1>4. CASE r.by # None
  <2> DEFINE t == r.by
             row == Told(tab[t], "unauthorized", 0)
  <2>1. /\ t \in Tabs /\ tab[t].phase = "sent" /\ ~Live(tab[t].captured)
        /\ tab' = [tab EXCEPT ![t] = row] /\ requests' = requests \ {r}
        /\ \A q \in requests' : q.by # t
        /\ UNCHANGED <<store, line, lost>>
    BY <1>1, <1>4, ReplyFacts
  <2>2. tab \in [Tabs -> TabRow] /\ requests \subseteq RequestRow /\ MaxSession \in Nat
    BY SessionsAssumption DEF WebInv, WebShapes
  <2>3. row \in TabRow /\ row.phase = "answered" /\ row.captured = tab[t].captured
        /\ row.answer = "unauthorized"
    BY <2>1, <2>2, ToldFacts
  <2> HIDE DEF row, t
  <2>4. \A u \in Tabs \ {t} : tab'[u] = tab[u]
    BY <2>1, <2>2
  <2>5. Asked'
    BY <1>1, <2>1, <2>4 DEF WebInv, Asked, Issued
  <2>6. ~Won(t) /\ Works(t)
    BY <2>1 DEF Won, Works
  <2> QED  BY <1>1, <2>1, <2>2, <2>3, <2>5, <2>6, GoesOn
<1> QED  BY <1>3, <1>4

\* A session is ended, or a registration made or dropped, for a request nobody waits for.
LEMMA UntoldReplies ==
  ASSUME WebInv, NEW r \in requests,
         \/ Web!HandleLogout(r) \/ Web!HandleSubscribe(r) \/ Web!RefuseSubscribe(r)
         \/ Web!HandleUnsubscribe(r) \/ Web!Lose(r)
  PROVE  WebInv'
<1>1. Browser \in Devices
  BY Web!BrowserAssumption DEF Web!BrowserAssumption
<1>2. r.session \in Issued /\ (r.by # None => r.kind = "renew") /\ SessionsInv
  BY DEF WebInv, Asked
<1>3. CASE Web!HandleLogout(r)
  <2>1. Web!Reply(r, "ok", 0) /\ r.kind = "logout" /\ EndSession(r.session)
    BY <1>3, WebServer DEF Web!HandleLogout
  <2>2. SessionsInv' /\ Stays(sessions, sessions') /\ Len(sessions') = Len(sessions)
    BY <1>2, <2>1, EndFacts
  <2> QED  BY <1>2, <2>1, <2>2, ReplyFacts, UntoldStep
<1>4. CASE Web!HandleSubscribe(r)
  <2>1. Web!Reply(r, "ok", 0) /\ r.kind = "subscribe" /\ Register(Browser, r.session)
    BY <1>4, WebServer DEF Web!HandleSubscribe
  <2>2. SessionsInv' /\ UNCHANGED sessions
    BY <1>1, <1>2, <2>1, RegisterFacts
  <2>3. Stays(sessions, sessions') /\ Len(sessions') = Len(sessions)
    BY <2>2, Rows DEF Stays, SessionsInv
  <2> QED  BY <1>2, <2>1, <2>2, <2>3, ReplyFacts, UntoldStep
<1>5. CASE Web!HandleUnsubscribe(r)
  <2>1. Web!Reply(r, "ok", 0) /\ r.kind = "unsubscribe" /\ Unregister(Browser, r.session)
    BY <1>5, WebServer DEF Web!HandleUnsubscribe
  <2>2. SessionsInv' /\ UNCHANGED sessions
    BY <1>1, <1>2, <2>1, Dropped DEF Unregister, Holds
  <2>3. Stays(sessions, sessions') /\ Len(sessions') = Len(sessions)
    BY <2>2, Rows DEF Stays, SessionsInv
  <2> QED  BY <1>2, <2>1, <2>2, <2>3, ReplyFacts, UntoldStep
<1>6. CASE Web!RefuseSubscribe(r)
  <2>1. Web!Reply(r, "refused", 0) /\ r.kind = "subscribe" /\ UNCHANGED <<sessions, token, latest>>
    BY <1>6 DEF Web!RefuseSubscribe, Web!serverVars
  <2>2. SessionsInv' /\ Stays(sessions, sessions') /\ Len(sessions') = Len(sessions)
    BY <1>2, <2>1, SameSessions, Rows DEF Stays, SessionsInv
  <2> QED  BY <1>2, <2>1, <2>2, ReplyFacts, UntoldStep
<1>7. CASE Web!Lose(r)
  <2>1. /\ requests' = requests \ {r} /\ UNCHANGED <<sessions, token, latest, store, tab, line, lost>>
    BY <1>7 DEF Web!Lose, Web!serverVars
  <2>2. SessionsInv' /\ Stays(sessions, sessions') /\ Len(sessions') = Len(sessions)
    BY <1>2, <2>1, SameSessions, Rows DEF Stays, SessionsInv
  <2> QED  BY <2>1, <2>2, UntoldStep
<1> QED  BY <1>3, <1>4, <1>5, <1>6, <1>7

\* A session is renewed, and its tab, if it still waits, is told of the successor.
LEMMA RenewStep ==
  ASSUME WebInv, NEW r \in requests, Web!HandleRenew(r)
  PROVE  WebInv'
<1> DEFINE n == Len(sessions) + 1
<1>1. /\ Web!Reply(r, "ok", n) /\ r.kind = "renew" /\ Rotate(r.session)
  BY WebServer DEF Web!HandleRenew
<1>2. /\ SessionsInv' /\ Stays(sessions, sessions') /\ Len(sessions') = n
      /\ sessions'[n].login = sessions[r.session].login
      /\ Live(r.session) /\ ~Live(r.session)'
  BY <1>1, RotateFacts DEF WebInv
<1>3. /\ \A s \in Issued : /\ s \in Issued' /\ sessions'[s].login = sessions[s].login
                           /\ Live(s)' => Live(s)
      /\ Len(sessions) \in Nat /\ Issued = 1..Len(sessions) /\ Issued' = Issued \cup {n}
      /\ n \notin Issued /\ n \in 1..MaxSession
  <2>1. Len(sessions) \in 0..MaxSession /\ Len(sessions') \in 0..MaxSession
    BY <1>2, Rows DEF WebInv, SessionsInv, ServerTypeOK
  <2> QED  BY <1>2, <2>1, StaysFacts DEF WebInv, Issued
<1>4. /\ store \in 0..Len(sessions) /\ requests \subseteq RequestRow /\ tab \in [Tabs -> TabRow]
      /\ line \in Seq(Tabs) /\ lost \in BOOLEAN /\ r.session \in Issued
  BY DEF WebInv, WebShapes, Asked
<1>5. requests' = requests \ {r} /\ UNCHANGED <<store, line, lost>>
  BY <1>1, ReplyFacts
<1>6. CASE r.by = None
  <2>1. tab' = tab /\ lost = TRUE
    BY <1>1, <1>4, <1>6, ReplyFacts DEF WebInv, Asked
  <2>2. WebShapes' /\ InTurn'
    BY <1>2, <1>3, <1>4, <1>5, <2>1 DEF WebInv, WebShapes, InTurn, Works
  <2>3. TabsKnow'
    BY <1>3, <2>1 DEF WebInv, TabsKnow, Won, Denied
  <2>4. Asked' /\ Recorded'
    BY <1>3, <1>5, <2>1 DEF WebInv, Asked, Recorded
  <2> QED  BY <1>2, <2>2, <2>3, <2>4 DEF WebInv
<1>7. CASE r.by # None
  <2> DEFINE t == r.by
             row == Told(tab[t], "ok", n)
  <2>1. /\ t \in Tabs /\ tab[t].phase = "sent" /\ r.session = tab[t].captured
        /\ tab' = [tab EXCEPT ![t] = row] /\ \A q \in requests' : q.by # t
    BY <1>1, <1>7, ReplyFacts
  <2>2. /\ row \in TabRow /\ row.phase = "answered" /\ row.captured = r.session
        /\ row.answer = "ok" /\ row.next = n
    <3>1. tab[t] \in TabRow /\ n \in 0..MaxSession
      BY <1>3, <1>4, <2>1
    <3> HIDE DEF n
    <3> QED  BY <2>1, <3>1, ToldFacts
  <2> HIDE DEF row, t
  <2>3. /\ tab' \in [Tabs -> TabRow] /\ tab'[t] = row
        /\ \A u \in Tabs \ {t} : tab'[u] = tab[u]
    BY <1>4, <2>1, <2>2
  <2>4. WebShapes'
    BY <1>2, <1>3, <1>4, <1>5, <2>3 DEF WebShapes
  <2>5. \A u \in Tabs : /\ u # t => (Won(u)' <=> Won(u)) /\ (Denied(u)' <=> Denied(u))
                        /\ Won(t)' /\ ~Denied(t)' /\ ~Won(t)
                        /\ Works(u)' <=> Works(u)
    BY <2>1, <2>2, <2>3 DEF Won, Denied, Works
  <2>6. InTurn'
    BY <1>5, <2>1, <2>2, <2>3, <2>5 DEF WebInv, InTurn
  <2>7. Asked'
    BY <1>3, <1>5, <2>1, <2>3 DEF WebInv, Asked
  <2>8. TabsKnow'
    <3>1. /\ tab'[t].captured = r.session /\ tab'[t].next = n /\ n > r.session
      BY <1>3, <1>4, <2>2, <2>3
    <3>2. /\ sessions'[n].login = sessions'[r.session].login /\ n \in Issued'
      BY <1>2, <1>3, <1>4
    <3>3. \A u \in Tabs : tab'[u].phase # "idle" => tab'[u].captured \in Issued'
      BY <1>3, <1>4, <2>3, <3>1 DEF WebInv, TabsKnow
    <3> HIDE DEF n
    <3>4. \A u \in Tabs \ {t} : (Won(u)' => Won(u)) /\ (Denied(u)' => Denied(u)) /\ tab'[u] = tab[u]
      BY <2>3, <2>5
    <3>5. \A u \in Tabs \ {t} : Won(u)' =>
            /\ tab'[u].next \in Issued' /\ tab'[u].next > tab'[u].captured /\ (~Live(tab[u].captured))'
            /\ sessions'[tab'[u].next].login = sessions'[tab'[u].captured].login
      <4> SUFFICES ASSUME NEW u \in Tabs \ {t}, Won(u)' PROVE
            /\ tab'[u].next \in Issued' /\ tab'[u].next > tab'[u].captured /\ (~Live(tab[u].captured))'
            /\ sessions'[tab'[u].next].login = sessions'[tab'[u].captured].login
        OBVIOUS
      <4>1. Won(u) /\ tab'[u] = tab[u] /\ tab[u].captured \in Issued
        BY <3>4 DEF WebInv, TabsKnow, Won
      <4> QED  BY <1>3, <4>1 DEF WebInv, TabsKnow, Live
    <3>6. \A u \in Tabs : Denied(u)' => (~Live(tab[u].captured))'
      <4> SUFFICES ASSUME NEW u \in Tabs, Denied(u)' PROVE (~Live(tab[u].captured))'
        OBVIOUS
      <4>1. Denied(u) /\ tab'[u] = tab[u] /\ tab[u].captured \in Issued
        BY <2>5, <3>4 DEF WebInv, TabsKnow, Denied
      <4> QED  BY <1>3, <4>1 DEF WebInv, TabsKnow, Live
    <3> QED  BY <1>2, <2>3, <2>5, <3>1, <3>2, <3>3, <3>5, <3>6 DEF TabsKnow
  <2>9. Recorded'
    <3> SUFFICES ASSUME ~lost, NEW s \in Issued', store # 0, Live(s)',
                        sessions'[s].login = sessions'[store].login
                 PROVE  s = store \/ \E u \in Tabs : Won(u)' /\ tab'[u].captured = store
                                                     /\ tab'[u].next = s
      BY <1>5 DEF Recorded
    <3>1. store \in Issued /\ sessions'[store].login = sessions[store].login
      BY <1>3, <1>4
    <3>2. \A u \in Tabs : ~Won(u)
      BY <2>1, <2>5, OneWorks DEF WebInv, Won, Works
    <3>3. CASE s = n
      <4>1. sessions[r.session].login = sessions[store].login
        BY <1>2, <3>1, <3>3
      <4>2. r.session = store
        BY <1>2, <1>4, <3>2, <4>1 DEF WebInv, Recorded
      <4> QED  BY <2>1, <2>2, <2>3, <2>5, <3>3, <4>2
    <3>4. CASE s # n
      <4>1. s \in Issued /\ Live(s) /\ sessions[s].login = sessions[store].login
        BY <1>3, <3>1, <3>4
      <4> QED  BY <3>2, <4>1 DEF WebInv, Recorded
    <3> QED  BY <3>3, <3>4
  <2> QED  BY <1>2, <2>4, <2>6, <2>7, <2>8, <2>9 DEF WebInv
<1> QED  BY <1>6, <1>7

\* Somebody signs in.
LEMMA WebLoginStep ==
  ASSUME WebInv, NEW u \in Users, Web!Login(u)
  PROVE  WebInv'
<1> DEFINE n == Len(sessions) + 1
<1>1. Issue(u) /\ store' = n /\ UNCHANGED <<tab, line, requests, lost>>
  BY WebServer DEF Web!Login
<1>2. /\ SessionsInv' /\ Stays(sessions, sessions') /\ Len(sessions') = n
      /\ sessions'[n].login = n
      /\ \A s \in Issued : sessions'[s] = sessions[s] /\ sessions'[s].login < n
  BY <1>1, IssueFacts DEF WebInv
<1>3. /\ \A s \in Issued : /\ s \in Issued' /\ sessions'[s].login = sessions[s].login
                           /\ Live(s)' => Live(s)
      /\ Len(sessions) \in Nat /\ Issued = 1..Len(sessions) /\ Issued' = Issued \cup {n}
      /\ n \notin Issued
  <2>1. Len(sessions) \in 0..MaxSession
    BY Rows DEF WebInv, SessionsInv
  <2> QED  BY <1>2, <2>1, StaysFacts DEF WebInv, Issued
<1>4. WebShapes' /\ InTurn'
  BY <1>1, <1>2, <1>3 DEF WebInv, WebShapes, InTurn, Works
<1>5. TabsKnow'
  BY <1>1, <1>3 DEF WebInv, TabsKnow, Won, Denied
<1>6. Asked'
  BY <1>1, <1>3 DEF WebInv, Asked
<1>7. Recorded'
  BY <1>1, <1>2, <1>3 DEF Recorded
<1> QED  BY <1>2, <1>4, <1>5, <1>6, <1>7 DEF WebInv

\* Requests nobody waits for are sent, and the record may be cleared.
LEMMA BackgroundStep ==
  ASSUME WebInv, Web!SignOut \/ \E k \in {"subscribe", "unsubscribe"} : Web!Alerts(k)
  PROVE  WebInv'
<1>1. PICK k \in {"logout", "subscribe", "unsubscribe"} :
        /\ requests' = requests \cup {[kind |-> k, session |-> store, by |-> None]}
        /\ store # 0 /\ store' \in {store, 0}
        /\ UNCHANGED <<sessions, token, latest, tab, line, lost>>
  BY DEF Web!SignOut, Web!Alerts, Web!Background, Web!serverVars
<1> DEFINE x == [kind |-> k, session |-> store, by |-> None]
<1>2. /\ SessionsInv' /\ Issued' = Issued /\ \A s : Live(s)' = Live(s)
      /\ store \in Issued /\ Issued \subseteq 1..MaxSession /\ Len(sessions) \in Nat
  BY <1>1, SameSessions, Rows DEF WebInv, WebShapes, SessionsInv, Issued
<1>3. x \in RequestRow /\ x.by = None /\ x.kind # "renew" /\ x.session = store
  BY <1>1, <1>2 DEF RequestRow
<1> HIDE DEF x
<1>4. requests' = requests \cup {x}
  BY <1>1 DEF x
<1>5. WebShapes' /\ InTurn'
  BY <1>1, <1>2, <1>3, <1>4 DEF WebInv, WebShapes, InTurn, Works
<1>6. TabsKnow' /\ Recorded'
  BY <1>1, <1>2 DEF WebInv, TabsKnow, Recorded, Won, Denied
<1>7. Asked'
  BY <1>1, <1>2, <1>3, <1>4 DEF WebInv, Asked
<1> QED  BY <1>2, <1>5, <1>6, <1>7 DEF WebInv

-----------------------------------------------------------------------------
(* The phones: calls, messages and registrations                           *)

PhoneRow == [installed : BOOLEAN, user : Users \cup {None}, session : 0..MaxSession,
             noted : BOOLEAN]
Message == [device : Devices, sent : Event, gone : BOOLEAN]

In(d) == phone[d].session # 0
LoginOf(d) == sessions[phone[d].session].login
OfGeneration(c) == c.kind \in {"register", "renew"}

PhoneShapes ==
  /\ phone \in [Devices -> PhoneRow] /\ calls \subseteq Phone!Call /\ sends \subseteq Message
  /\ \A d \in Devices : phone[d].session \in 0..Len(sessions)
  /\ \A c \in calls : c.session \in Issued
  /\ \A m \in sends : m.sent.session \in 0..Len(sessions)
  /\ \A c \in calls : c.kind = "renew" /\ c.answer \in {"ok", "refused"} =>
       c.next \in Issued /\ sessions[c.next].login = sessions[c.session].login

\* A sign-in is one phone's.  Its calls to register and renew are of that phone, and older
\* calls, and messages that found the app removed, are of older sessions.
OwnLogins ==
  /\ \A d \in Devices : In(d) => phone[d].installed
  /\ \A d, e \in Devices : In(d) /\ In(e) /\ LoginOf(d) = LoginOf(e) => d = e
  /\ \A d \in Devices, c \in calls : In(d) /\ sessions[c.session].login = LoginOf(d) =>
       c.device = d /\ OfGeneration(c)
  /\ \A d \in Devices, c \in calls : In(d) /\ c.device = d /\ sessions[c.session].login # LoginOf(d) =>
       c.session < LoginOf(d)
  /\ \A c \in calls : OfGeneration(c) /\ c.waits =>
       In(c.device) /\ sessions[c.session].login = LoginOf(c.device)
  /\ \A m \in sends : m.gone /\ In(m.device) => m.sent.session < LoginOf(m.device)

\* The phone knows, or is about to read, that it is registered.
Assured(d) ==
  phone[d].noted \/ \E c \in calls : c.kind = "register" /\ c.device = d /\ c.waits /\ c.answer = "ok"

Reached(d) ==
  /\ In(d) /\ Registered(d) /\ latest[d].session \in Issued
  /\ sessions[latest[d].session].login = LoginOf(d)

PhoneInv == SessionsInv /\ PhoneShapes /\ OwnLogins /\ \A d \in Devices : Assured(d) => Reached(d)

\* The phone stays signed in.
Remains(d) ==
  /\ In(d) /\ In(d)' /\ phone'[d].installed
  /\ phone'[d].session \in Issued /\ sessions[phone'[d].session].login = LoginOf(d)

\* A call that was there already, perhaps answered, or given up.
FromOld(x) ==
  \E c \in calls :
    /\ x.device = c.device /\ x.session = c.session
    /\ x.kind = c.kind \/ (c.kind = "remove" /\ x.kind = "logout")
    /\ OfGeneration(x) /\ x.waits => c.waits /\ (Remains(x.device) \/ UNCHANGED phone)

\* A call of who is signed in, or was until now.
IsNew(x) ==
  /\ In(x.device) /\ x.session = phone[x.device].session /\ x.answer = "none"
  /\ IF OfGeneration(x) THEN Remains(x.device) ELSE ~In(x.device)'

\* Phones sign out or stay signed in, and calls are made, answered and given up.
LEMMA CallsStep ==
  ASSUME PhoneInv, SessionsInv', Stays(sessions, sessions'),
         phone' \in [Devices -> PhoneRow], calls' \subseteq Phone!Call,
         \A d \in Devices : ~In(d)' \/ Remains(d) \/ UNCHANGED phone,
         \A x \in calls' : FromOld(x) \/ IsNew(x),
         \A x \in calls' : x.kind = "renew" /\ x.answer \in {"ok", "refused"} =>
           x.next \in Issued' /\ sessions'[x.next].login = sessions'[x.session].login,
         sends' \subseteq sends
  PROVE  PhoneShapes' /\ OwnLogins'
<1>1. /\ \A s \in Issued : s \in Issued' /\ sessions'[s].login = sessions[s].login
      /\ Len(sessions) \in Nat /\ Issued = 1..Len(sessions)
      /\ Len(sessions') \in Nat /\ Issued' = 1..Len(sessions')
      /\ Len(sessions') >= Len(sessions)
  <2>1. SessionsInv
    BY DEF PhoneInv
  <2>2. \A s \in Issued : s \in Issued' /\ sessions'[s].login = sessions[s].login
    BY <2>1, StaysFacts
  <2>3. Len(sessions) \in Nat /\ Len(sessions') \in Nat
    BY <2>1, LenProperties DEF SessionsInv, ServerTypeOK
  <2> QED  BY <2>2, <2>3 DEF Stays, Issued
<1>2. \A d \in Devices : phone[d] \in PhoneRow /\ phone[d].session \in 0..Len(sessions)
  BY DEF PhoneInv, PhoneShapes
<1>3. \A d \in Devices : In(d)' =>
        /\ In(d) /\ phone'[d].installed
        /\ phone'[d].session \in Issued /\ sessions[phone'[d].session].login = LoginOf(d)
        /\ phone'[d].session \in Issued' /\ LoginOf(d)' = LoginOf(d)
  <2> SUFFICES ASSUME NEW d \in Devices, In(d)'
               PROVE  /\ In(d) /\ phone'[d].installed
                      /\ phone'[d].session \in Issued
                      /\ sessions[phone'[d].session].login = LoginOf(d)
                      /\ phone'[d].session \in Issued' /\ LoginOf(d)' = LoginOf(d)
    OBVIOUS
  <2>1. CASE Remains(d)
    BY <1>1, <2>1 DEF Remains, LoginOf
  <2>2. CASE phone' = phone
    BY <1>1, <1>2, <2>2 DEF In, LoginOf, PhoneInv, OwnLogins
  <2> QED  BY <2>1, <2>2
<1>4. \A x \in calls' : x \in Phone!Call /\ x.device \in Devices /\ x.session \in Issued
  <2> TAKE x \in calls'
  <2>1. x \in Phone!Call /\ x.device \in Devices
    BY DEF Phone!Call
  <2>2. CASE FromOld(x)
    BY <2>1, <2>2 DEF FromOld, PhoneInv, PhoneShapes
  <2>3. CASE IsNew(x)
    BY <1>1, <1>2, <2>1, <2>3 DEF IsNew, In
  <2> QED  BY <2>1, <2>2, <2>3
<1>5. PhoneShapes'
  <2>1. \A d \in Devices : phone'[d].session \in 0..Len(sessions')
    BY <1>1, <1>3 DEF In
  <2>2. sends' \subseteq Message /\ \A m \in sends' : m.sent.session \in 0..Len(sessions')
    BY <1>1 DEF PhoneInv, PhoneShapes
  <2>3. \A x \in calls' : x.session \in Issued'
    BY <1>1, <1>4
  <2> QED  BY <2>1, <2>2, <2>3 DEF PhoneShapes
<1>6. \A d, e \in Devices : In(d)' /\ In(e)' /\ LoginOf(d)' = LoginOf(e)' => d = e
  BY <1>3 DEF PhoneInv, OwnLogins
<1>7. ASSUME NEW d \in Devices, NEW x \in calls', In(d)'
      PROVE  /\ sessions'[x.session].login = LoginOf(d)' => x.device = d /\ OfGeneration(x)
             /\ x.device = d /\ sessions'[x.session].login # LoginOf(d)' => x.session < LoginOf(d)'
  <2>1. /\ In(d) /\ LoginOf(d)' = LoginOf(d) /\ x.device \in Devices
        /\ sessions'[x.session].login = sessions[x.session].login
    BY <1>1, <1>3, <1>4, <1>7
  <2>2. CASE FromOld(x)
    <3>1. PICK c \in calls : /\ x.device = c.device /\ x.session = c.session
                             /\ x.kind = c.kind \/ (c.kind = "remove" /\ x.kind = "logout")
      BY <2>2 DEF FromOld
    <3>2. OfGeneration(c) => OfGeneration(x)
      BY <3>1 DEF OfGeneration
    <3> QED  BY <2>1, <3>1, <3>2 DEF PhoneInv, OwnLogins
  <2>3. CASE IsNew(x)
    <3>1. In(x.device) /\ sessions[x.session].login = LoginOf(x.device)
      BY <2>3 DEF IsNew, LoginOf
    <3>2. sessions[x.session].login = LoginOf(d) => x.device = d
      BY <2>1, <3>1 DEF PhoneInv, OwnLogins
    <3>3. x.device = d => OfGeneration(x)
      BY <1>7, <2>3 DEF IsNew
    <3> QED  BY <2>1, <3>1, <3>2, <3>3
  <2> QED  BY <2>2, <2>3
<1>8. ASSUME NEW x \in calls', OfGeneration(x), x.waits
      PROVE  In(x.device)' /\ sessions'[x.session].login = LoginOf(x.device)'
  <2>1. x.device \in Devices /\ sessions'[x.session].login = sessions[x.session].login
    BY <1>1, <1>4
  <2>2. /\ In(x.device) /\ sessions[x.session].login = LoginOf(x.device)
        /\ Remains(x.device) \/ UNCHANGED phone
    <3>1. CASE FromOld(x)
      <4>1. PICK c \in calls : /\ x.device = c.device /\ x.session = c.session /\ OfGeneration(c)
                               /\ c.waits /\ (Remains(x.device) \/ UNCHANGED phone)
        BY <1>8, <3>1 DEF FromOld, OfGeneration
      <4> QED  BY <4>1 DEF PhoneInv, OwnLogins
    <3>2. CASE IsNew(x)
      BY <1>8, <3>2 DEF IsNew, LoginOf
    <3> QED  BY <3>1, <3>2
  <2>3. In(x.device)'
    BY <2>2 DEF Remains, In
  <2> QED  BY <1>3, <2>1, <2>2, <2>3
<1>9. \A m \in sends' : m.gone /\ In(m.device)' => m.sent.session < LoginOf(m.device)'
  <2>1. \A m \in sends' : m \in sends /\ m.device \in Devices
    BY DEF PhoneInv, PhoneShapes, Message
  <2> QED  BY <1>3, <2>1 DEF PhoneInv, OwnLogins
<1>10. \A d \in Devices : In(d)' => phone'[d].installed
  BY <1>3
<1> QED  BY <1>5, <1>6, <1>7, <1>8, <1>9, <1>10 DEF OwnLogins, OfGeneration

\* Nobody is assured but who was, or is told so.
LEMMA AssuredStep ==
  ASSUME PhoneInv, PhoneShapes', UNCHANGED <<sessions, latest>>,
         \A d \in Devices : Assured(d)' => Assured(d) /\ (Remains(d) \/ UNCHANGED phone)
  PROVE  \A d \in Devices : Assured(d)' => Reached(d)'
<1> SUFFICES ASSUME NEW d \in Devices, Assured(d)' PROVE Reached(d)'
  OBVIOUS
<1>1. Reached(d) /\ (Remains(d) \/ UNCHANGED phone)
  BY DEF PhoneInv
<1> QED  BY <1>1 DEF Reached, Remains, In, LoginOf, Registered, Issued

\* A call as it was, or one that nobody waits for any more.
Same(x, c) ==
  /\ x.kind = c.kind /\ x.device = c.device /\ x.session = c.session
  /\ x.answer = c.answer /\ x.next = c.next /\ (x.waits => c.waits)

\* The fields of a call.
LEMMA CallTypes ==
  ASSUME PhoneInv, NEW c \in calls
  PROVE  /\ c \in Phone!Call /\ c.device \in Devices /\ c.session \in Issued
         /\ c.kind \in {"register", "renew", "remove", "logout"} /\ c.waits \in BOOLEAN
         /\ c.answer \in {"none", "ok", "refused", "unauthorized"}
         /\ c.session \in 1..MaxSession /\ c.next \in 0..MaxSession
BY DEF PhoneInv, PhoneShapes, Phone!Call

\* A call just made.
LEMMA NewCallFacts ==
  ASSUME NEW k \in {"register", "renew", "remove", "logout"}, NEW d \in Devices,
         NEW s \in 1..MaxSession
  PROVE  LET x == Phone!NewCall(k, d, s) IN
         /\ x \in Phone!Call /\ x.kind = k /\ x.device = d /\ x.session = s /\ x.answer = "none"
<1>1. 0 \in 0..MaxSession
  BY SessionsAssumption
<1> QED  BY <1>1 DEF Phone!NewCall, Phone!Call

\* A call loses who waited for it.
LEMMA DeafFacts ==
  ASSUME PhoneInv, NEW c \in calls, NEW x \in Phone!Deaf(c)
  PROVE  x \in Phone!Call /\ Same(x, c) /\ ~x.waits
<1>1. c \in Phone!Call
  BY CallTypes
<1>2. x = [c EXCEPT !.waits = FALSE]
  BY DEF Phone!Deaf
<1> QED  BY <1>1, <1>2 DEF Phone!Call, Same

\* A new generation of phone d.
LEMMA OutdatedFacts ==
  ASSUME PhoneInv, NEW d, NEW K, NEW x \in Phone!Outdated(d, K)
  PROVE  /\ x \in Phone!Call /\ \E c \in calls : Same(x, c)
         /\ x.device = d /\ x.kind \in K => ~x.waits
<1>1. PICK c \in calls : x \in IF c.device = d /\ c.kind \in K /\ c.waits THEN Phone!Deaf(c) ELSE {c}
  BY DEF Phone!Outdated
<1>2. CASE c.device = d /\ c.kind \in K /\ c.waits
  BY <1>1, <1>2, DeafFacts
<1>3. CASE ~(c.device = d /\ c.kind \in K /\ c.waits)
  <2>1. x = c
    BY <1>1, <1>3
  <2> QED  BY <1>3, <2>1, CallTypes DEF Same
<1> QED  BY <1>2, <1>3

\* The fields of a phone.
LEMMA PhoneRows ==
  ASSUME PhoneInv, NEW d \in Devices
  PROVE  /\ phone \in [Devices -> PhoneRow] /\ phone[d] \in PhoneRow
         /\ phone[d].installed \in BOOLEAN /\ phone[d].noted \in BOOLEAN
         /\ phone[d].user \in Users \cup {None}
         /\ phone[d].session \in 0..MaxSession
         /\ In(d) => phone[d].session \in Issued /\ phone[d].installed
         /\ \A s \in Issued : s \in 1..MaxSession
<1>1. phone \in [Devices -> PhoneRow] /\ phone[d] \in PhoneRow /\ phone[d].session \in 0..Len(sessions)
  BY DEF PhoneInv, PhoneShapes
<1>2. In(d) => phone[d].installed
  BY DEF PhoneInv, OwnLogins
<1> QED  BY <1>1, <1>2, Rows DEF PhoneRow, In, Issued, PhoneInv, SessionsInv

\* A phone of which nothing changes, and somebody waits for.
LEMMA RemainsSame ==
  ASSUME PhoneInv, NEW d \in Devices, In(d), phone'[d] = phone[d]
  PROVE  Remains(d)
BY PhoneRows DEF Remains, In, LoginOf

\* Who waits for a registration or a renewal is signed in.
LEMMA WaitsIn ==
  ASSUME PhoneInv, NEW c \in calls, OfGeneration(c), c.waits
  PROVE  In(c.device)
BY DEF PhoneInv, OwnLogins

\* Renewals that were answered name their session, as before.
LEMMA SameRenewals ==
  ASSUME PhoneInv, UNCHANGED sessions,
         NEW x, NEW c \in calls, Same(x, c), x.kind = "renew", x.answer \in {"ok", "refused"}
  PROVE  x.next \in Issued' /\ sessions'[x.next].login = sessions'[x.session].login
BY DEF PhoneInv, PhoneShapes, Same, Issued

\* No phone signs out.
LEMMA RemainStep ==
  ASSUME PhoneInv, UNCHANGED <<sessions, token, latest>>, sends' \subseteq sends,
         phone' \in [Devices -> PhoneRow], calls' \subseteq Phone!Call,
         \A d \in Devices : IF In(d) THEN Remains(d) ELSE ~In(d)',
         \A d \in Devices : phone'[d].noted => Assured(d),
         \A x \in calls' :
           \/ \E c \in calls : Same(x, c)
           \/ \E c \in calls : /\ x.device = c.device /\ x.session = c.session
                               /\ x.kind = "logout" /\ c.kind = "remove"
           \/ /\ In(x.device) /\ OfGeneration(x) /\ x.answer = "none"
              /\ x.session = phone[x.device].session
  PROVE  PhoneInv'
<1>1. SessionsInv' /\ Stays(sessions, sessions')
  BY SameSessions, Rows DEF PhoneInv, SessionsInv, Stays
<1>2. ASSUME NEW x \in calls' PROVE FromOld(x) \/ IsNew(x)
  <2>1. x.device \in Devices
    BY DEF Phone!Call
  <2>2. ASSUME NEW c \in calls, Same(x, c) PROVE FromOld(x)
    <3>1. OfGeneration(x) /\ x.waits => Remains(x.device)
      BY <2>1, <2>2, WaitsIn DEF Same, OfGeneration
    <3> QED  BY <2>2, <3>1 DEF FromOld, Same
  <2>3. ASSUME NEW c \in calls, x.device = c.device, x.session = c.session,
               x.kind = "logout", c.kind = "remove"
        PROVE  FromOld(x)
    BY <2>3 DEF FromOld, OfGeneration
  <2>4. ASSUME In(x.device), OfGeneration(x), x.answer = "none", x.session = phone[x.device].session
        PROVE  IsNew(x)
    BY <2>1, <2>4 DEF IsNew
  <2> QED  BY <2>2, <2>3, <2>4
<1>3. \A x \in calls' : x.kind = "renew" /\ x.answer \in {"ok", "refused"} =>
        x.next \in Issued' /\ sessions'[x.next].login = sessions'[x.session].login
  BY SameRenewals
<1>4. PhoneShapes' /\ OwnLogins'
  BY <1>1, <1>2, <1>3, CallsStep
<1>5. ASSUME NEW d \in Devices, Assured(d)' PROVE Assured(d) /\ Remains(d)
  <2>1. Assured(d)
    <3>1. CASE phone'[d].noted
      BY <3>1
    <3>2. ASSUME NEW x \in calls', x.kind = "register", x.device = d, x.waits, x.answer = "ok"
          PROVE  Assured(d)
      <4>1. PICK c \in calls : Same(x, c)
        BY <3>2
      <4> QED  BY <3>2, <4>1 DEF Same, Assured
    <3> QED  BY <1>5, <3>1, <3>2 DEF Assured
  <2>2. In(d)
    BY <2>1 DEF PhoneInv, Reached
  <2> QED  BY <2>1, <2>2
<1> QED  BY <1>1, <1>4, <1>5, AssuredStep DEF PhoneInv

\* Phone d is signed out, and what waited for a registration or a renewal does so no more.
LEMMA OutStep ==
  ASSUME PhoneInv, NEW d \in Devices, UNCHANGED <<sessions, token, latest>>, sends' \subseteq sends,
         NEW row \in PhoneRow, row.session = 0, ~row.noted,
         phone' = [phone EXCEPT ![d] = row], calls' \subseteq Phone!Call,
         \A x \in calls' :
           \/ (\E c \in calls : Same(x, c)) /\ (OfGeneration(x) /\ x.waits => x.device # d)
           \/ /\ x.device = d /\ In(d) /\ ~OfGeneration(x) /\ x.answer = "none"
              /\ x.session = phone[d].session
  PROVE  PhoneInv'
<1>1. /\ SessionsInv' /\ Stays(sessions, sessions')
      /\ phone \in [Devices -> PhoneRow]
  BY SameSessions, Rows DEF PhoneInv, SessionsInv, Stays, PhoneShapes
<1>2. /\ phone' \in [Devices -> PhoneRow] /\ phone'[d] = row /\ ~In(d)'
      /\ \A e \in Devices \ {d} : phone'[e] = phone[e]
  BY <1>1 DEF In
<1>3. ASSUME NEW e \in Devices \ {d} PROVE IF In(e) THEN Remains(e) ELSE ~In(e)'
  BY <1>2, RemainsSame DEF In
<1>4. ASSUME NEW x \in calls' PROVE FromOld(x) \/ IsNew(x)
  <2>1. x.device \in Devices
    BY DEF Phone!Call
  <2>2. ASSUME NEW c \in calls, Same(x, c), OfGeneration(x) /\ x.waits => x.device # d
        PROVE  FromOld(x)
    <3>1. OfGeneration(x) /\ x.waits => Remains(x.device)
      BY <1>3, <2>1, <2>2, WaitsIn DEF Same, OfGeneration
    <3> QED  BY <2>2, <3>1 DEF FromOld, Same
  <2>3. ASSUME x.device = d, In(d), ~OfGeneration(x), x.answer = "none", x.session = phone[d].session
        PROVE  IsNew(x)
    BY <1>2, <2>3 DEF IsNew
  <2> QED  BY <2>2, <2>3
<1>5. \A x \in calls' : x.kind = "renew" /\ x.answer \in {"ok", "refused"} =>
        x.next \in Issued' /\ sessions'[x.next].login = sessions'[x.session].login
  BY SameRenewals
<1>6. \A e \in Devices : ~In(e)' \/ Remains(e)
  BY <1>2, <1>3
<1>7. PhoneShapes' /\ OwnLogins'
  BY <1>1, <1>2, <1>4, <1>5, <1>6, CallsStep
<1>8. ASSUME NEW e \in Devices, Assured(e)' PROVE Assured(e) /\ Remains(e)
  <2>1. Assured(e) /\ e # d
    <3>1. CASE phone'[e].noted
      BY <1>2, <3>1 DEF Assured
    <3>2. ASSUME NEW x \in calls', x.kind = "register", x.device = e, x.waits, x.answer = "ok"
          PROVE  Assured(e) /\ e # d
      <4>1. PICK c \in calls : Same(x, c) /\ x.device # d
        BY <3>2 DEF OfGeneration
      <4> QED  BY <3>2, <4>1 DEF Same, Assured
    <3> QED  BY <1>8, <3>1, <3>2 DEF Assured
  <2>2. In(e)
    BY <2>1 DEF PhoneInv, Reached
  <2> QED  BY <1>3, <2>1, <2>2
<1> QED  BY <1>1, <1>7, <1>8, AssuredStep DEF PhoneInv

\* Nothing changes on any phone.
LEMMA QuietStep ==
  ASSUME PhoneInv, UNCHANGED <<sessions, token, latest, phone>>, sends' \subseteq sends,
         calls' \subseteq Phone!Call,
         \A x \in calls' :
           \/ \E c \in calls : Same(x, c)
           \/ \E c \in calls : /\ x.device = c.device /\ x.session = c.session
                               /\ x.kind = "logout" /\ c.kind = "remove"
           \/ /\ In(x.device) /\ OfGeneration(x) /\ x.answer = "none"
              /\ x.session = phone[x.device].session
  PROVE  PhoneInv'
<1>1. \A d \in Devices : IF In(d) THEN Remains(d) ELSE ~In(d)'
  BY RemainsSame DEF In
<1>2. \A d \in Devices : phone'[d].noted => Assured(d)
  BY DEF Assured
<1>3. phone' \in [Devices -> PhoneRow]
  BY DEF PhoneInv, PhoneShapes
<1> QED  BY <1>1, <1>2, <1>3, RemainStep

\* A registration, or a renewal, starts.
LEMMA StartStep ==
  ASSUME PhoneInv, NEW d \in Devices, Phone!StartRegister(d) \/ Phone!StartRenewal(d)
  PROVE  PhoneInv'
<1>1. PICK k \in {"register", "renew"} :
        /\ In(d) /\ calls' = calls \cup {Phone!NewCall(k, d, phone[d].session)}
        /\ UNCHANGED <<sessions, token, latest, phone, sends>>
  BY DEF Phone!StartRegister, Phone!StartRenewal, Phone!SignedIn, Phone!serverVars, In
<1> DEFINE x == Phone!NewCall(k, d, phone[d].session)
<1>2. /\ x \in Phone!Call /\ x.kind = k /\ x.device = d /\ x.session = phone[d].session
      /\ x.answer = "none"
  BY <1>1, PhoneRows, NewCallFacts
<1> HIDE DEF x
<1>3. \A c \in calls : c \in Phone!Call /\ Same(c, c)
  BY CallTypes DEF Same
<1>4. calls' = calls \cup {x}
  BY <1>1 DEF x
<1>5. \A y \in calls' : y \in calls \/ y = x
  BY <1>4
<1>6. OfGeneration(x)
  BY <1>2 DEF OfGeneration
<1> QED  BY <1>1, <1>2, <1>3, <1>5, <1>6, QuietStep

\* A call is given up, or lost.
LEMMA GivenUpStep ==
  ASSUME PhoneInv, NEW c \in calls, Phone!GiveUp(c) \/ Phone!Lose(c)
  PROVE  PhoneInv'
<1>1. UNCHANGED <<sessions, token, latest, phone, sends>>
  BY DEF Phone!GiveUp, Phone!Lose, Phone!serverVars
<1> DEFINE x == Phone!NewCall("logout", c.device, c.session)
<1>2. /\ x \in Phone!Call /\ x.kind = "logout" /\ x.device = c.device /\ x.session = c.session
  BY CallTypes, NewCallFacts
<1>3. \A y \in calls' : \/ y \in calls \/ y \in Phone!Deaf(c) \/ (y = x /\ c.kind = "remove")
  BY DEF Phone!GiveUp, Phone!Lose
<1> HIDE DEF x
<1>4. \A y \in calls' :
        /\ y \in Phone!Call
        /\ \/ \E b \in calls : Same(y, b)
           \/ y.device = c.device /\ y.session = c.session /\ y.kind = "logout" /\ c.kind = "remove"
  BY <1>2, <1>3, DeafFacts, CallTypes DEF Same
<1> QED  BY <1>1, <1>4, QuietStep

\* Phone d is signed out, and sends what is left to do with its session.
LEMMA LeavingStep ==
  ASSUME PhoneInv, NEW d \in Devices, In(d), UNCHANGED <<sessions, token, latest, sends>>,
         NEW before \in SUBSET Phone!Outdated(d, {"register", "renew"}),
         Phone!Leaving(d, before)
  PROVE  PhoneInv'
<1> DEFINE k == IF Phone!Waiting("remove", d) THEN "logout" ELSE "remove"
           x == Phone!NewCall(k, d, phone[d].session)
<1>1. phone' = [phone EXCEPT ![d] = Phone!SignedOut] /\ calls' = before \cup {x}
  BY DEF Phone!Leaving
<1>2. k \in {"logout", "remove"}
  OBVIOUS
<1> HIDE DEF k
<1>3. /\ x \in Phone!Call /\ x.kind = k /\ x.device = d /\ x.session = phone[d].session
      /\ x.answer = "none"
  BY <1>2, PhoneRows, NewCallFacts
<1>4. ~OfGeneration(x)
  BY <1>2, <1>3 DEF OfGeneration
<1> HIDE DEF x
<1>5. Phone!SignedOut \in PhoneRow /\ Phone!SignedOut.session = 0 /\ ~Phone!SignedOut.noted
  BY SessionsAssumption DEF Phone!SignedOut, PhoneRow
<1>6. \A y \in before : /\ y \in Phone!Call /\ \E c \in calls : Same(y, c)
                        /\ OfGeneration(y) /\ y.waits => y.device # d
  BY OutdatedFacts DEF OfGeneration
<1>7. calls' \subseteq Phone!Call
  BY <1>1, <1>3, <1>6
<1>8. \A y \in calls' :
        \/ (\E c \in calls : Same(y, c)) /\ (OfGeneration(y) /\ y.waits => y.device # d)
        \/ /\ y.device = d /\ In(d) /\ ~OfGeneration(y) /\ y.answer = "none"
           /\ y.session = phone[d].session
  BY <1>1, <1>3, <1>4, <1>6
<1> QED  BY <1>1, <1>5, <1>7, <1>8, OutStep

\* The user signs out.
LEMMA SignOutStep ==
  ASSUME PhoneInv, NEW d \in Devices, Phone!SignOut(d)
  PROVE  PhoneInv'
BY LeavingStep DEF Phone!SignOut, Phone!SignedIn, Phone!serverVars, In

\* The app is removed, or installed.
LEMMA InstallStep ==
  ASSUME PhoneInv, NEW d \in Devices, Phone!Uninstall(d) \/ Phone!Install(d)
  PROVE  PhoneInv'
<1> DEFINE gone == [Phone!SignedOut EXCEPT !.installed = FALSE]
<1>1. /\ Phone!SignedOut \in PhoneRow /\ Phone!SignedOut.session = 0 /\ ~Phone!SignedOut.noted
      /\ gone \in PhoneRow /\ gone.session = 0 /\ ~gone.noted
  <2>1. Phone!SignedOut \in PhoneRow /\ Phone!SignedOut.session = 0 /\ ~Phone!SignedOut.noted
    BY SessionsAssumption DEF Phone!SignedOut, PhoneRow
  <2> QED  BY <2>1 DEF PhoneRow
<1> HIDE DEF gone
<1>2. CASE Phone!Uninstall(d)
  <2> DEFINE all == {"register", "renew", "remove", "logout"}
  <2>1. /\ phone' = [phone EXCEPT ![d] = gone] /\ calls' = Phone!Outdated(d, all)
        /\ UNCHANGED <<sessions, token, latest, sends>>
    BY <1>2 DEF Phone!Uninstall, Phone!serverVars, gone
  <2>2. \A y \in calls' : /\ y \in Phone!Call /\ \E c \in calls : Same(y, c)
                          /\ OfGeneration(y) /\ y.waits => y.device # d
    BY <2>1, OutdatedFacts DEF OfGeneration
  <2> QED  BY <1>1, <2>1, <2>2, OutStep
<1>3. CASE Phone!Install(d)
  <2>1. /\ phone' = [phone EXCEPT ![d] = Phone!SignedOut] /\ ~phone[d].installed
        /\ UNCHANGED <<sessions, token, latest, calls, sends>>
    BY <1>3 DEF Phone!Install, Phone!serverVars
  <2>2. ~In(d)
    BY <2>1, PhoneRows
  <2>3. \A y \in calls' : /\ y \in Phone!Call /\ y \in calls /\ Same(y, y)
                          /\ OfGeneration(y) /\ y.waits => y.device # d
    BY <2>1, <2>2, CallTypes, WaitsIn DEF Same
  <2>4. calls' \subseteq Phone!Call
    BY <2>3
  <2> QED  BY <1>1, <2>1, <2>3, <2>4, OutStep
<1> QED  BY <1>2, <1>3

\* The app starts again: nothing waits, and nothing is known of the registration.
LEMMA RestartStep ==
  ASSUME PhoneInv, NEW d \in Devices, Phone!Restart(d)
  PROVE  PhoneInv'
<1> DEFINE row == [phone[d] EXCEPT !.noted = FALSE]
<1>1. /\ phone' = [phone EXCEPT ![d] = row]
      /\ calls' = Phone!Outdated(d, {"register", "renew", "remove", "logout"})
      /\ UNCHANGED <<sessions, token, latest, sends>>
  BY DEF Phone!Restart, Phone!serverVars
<1>2. /\ row \in PhoneRow /\ ~row.noted /\ row.session = phone[d].session
      /\ row.installed = phone[d].installed
  BY PhoneRows DEF PhoneRow
<1> HIDE DEF row
<1>3. /\ phone' \in [Devices -> PhoneRow] /\ phone'[d] = row
      /\ \A e \in Devices \ {d} : phone'[e] = phone[e]
  BY <1>1, <1>2, PhoneRows
<1>4. \A e \in Devices : IF In(e) THEN Remains(e) ELSE ~In(e)'
  BY <1>2, <1>3, RemainsSame, PhoneRows DEF In, Remains, LoginOf
<1>5. \A e \in Devices : phone'[e].noted => Assured(e)
  BY <1>2, <1>3 DEF Assured
<1>6. \A y \in calls' : y \in Phone!Call /\ \E c \in calls : Same(y, c)
  BY <1>1, OutdatedFacts
<1> QED  BY <1>1, <1>3, <1>4, <1>5, <1>6, RemainStep

\* An answer is read.
LEMMA ReceiveStep ==
  ASSUME PhoneInv, NEW c \in calls, Phone!Receive(c)
  PROVE  PhoneInv'
<1> DEFINE d == c.device
<1>1. /\ c.waits /\ c.answer # "none" /\ Phone!Answered(c)
      /\ UNCHANGED <<sessions, token, latest, sends>>
  BY DEF Phone!Receive, Phone!serverVars
<1>2. /\ d \in Devices /\ c.session \in 1..MaxSession /\ c.session \in Issued
      /\ c.answer \in {"ok", "refused", "unauthorized"} /\ c.next \in 0..MaxSession
  BY <1>1, CallTypes
<1>3. \A y \in calls : y \in Phone!Call /\ Same(y, y)
  BY CallTypes DEF Same
<1>4. c.kind \in {"register", "renew"} => In(d) /\ sessions[c.session].login = LoginOf(d)
  BY <1>1 DEF OfGeneration, PhoneInv, OwnLogins
<1>5. CASE c.kind = "register"
  <2> DEFINE row == [phone[d] EXCEPT !.noted = @ \/ c.answer = "ok"]
  <2>1. phone' = [phone EXCEPT ![d] = row] /\ calls' = calls \ {c}
    BY <1>1, <1>5 DEF Phone!Answered
  <2>2. /\ row \in PhoneRow /\ row.noted = (phone[d].noted \/ c.answer = "ok")
        /\ row.session = phone[d].session /\ row.installed = phone[d].installed
    BY <1>2, PhoneRows DEF PhoneRow
  <2> HIDE DEF row
  <2>3. /\ phone' \in [Devices -> PhoneRow] /\ phone'[d] = row
        /\ \A e \in Devices \ {d} : phone'[e] = phone[e]
    BY <1>2, <2>1, <2>2, PhoneRows
  <2>4. \A e \in Devices : IF In(e) THEN Remains(e) ELSE ~In(e)'
    BY <2>2, <2>3, RemainsSame, PhoneRows DEF In, Remains, LoginOf
  <2>5. \A e \in Devices : phone'[e].noted => Assured(e)
    BY <1>1, <1>5, <2>2, <2>3 DEF Assured
  <2> QED  BY <1>1, <1>3, <2>1, <2>3, <2>4, <2>5, RemainStep
<1>6. CASE c.kind = "renew" /\ c.answer = "unauthorized"
  <2> DEFINE before == Phone!Outdated(d, {"register", "renew"}) \ {c}
  <2>1. Phone!Leaving(d, before)
    BY <1>1, <1>6 DEF Phone!Answered
  <2> QED  BY <1>1, <1>2, <1>4, <1>6, <2>1, LeavingStep
<1>7. CASE c.kind = "renew" /\ c.answer # "unauthorized"
  <2> DEFINE row == [phone[d] EXCEPT !.session = c.next]
  <2>1. phone' = [phone EXCEPT ![d] = row] /\ calls' = calls \ {c}
    BY <1>1, <1>7 DEF Phone!Answered
  <2>2. /\ row \in PhoneRow /\ row.noted = phone[d].noted
        /\ row.session = c.next /\ row.installed = phone[d].installed
    BY <1>2, PhoneRows DEF PhoneRow
  <2> HIDE DEF row
  <2>3. /\ phone' \in [Devices -> PhoneRow] /\ phone'[d] = row
        /\ \A e \in Devices \ {d} : phone'[e] = phone[e]
    BY <1>2, <2>1, <2>2, PhoneRows
  <2>4. c.next \in Issued /\ sessions[c.next].login = LoginOf(d) /\ In(d)
    BY <1>2, <1>4, <1>7 DEF PhoneInv, PhoneShapes
  <2>5. Remains(d)
    BY <1>2, <2>2, <2>3, <2>4, PhoneRows DEF In, Remains, Issued
  <2>6. \A e \in Devices : IF In(e) THEN Remains(e) ELSE ~In(e)'
    BY <2>3, <2>4, <2>5, RemainsSame DEF In
  <2>7. \A e \in Devices : phone'[e].noted => Assured(e)
    BY <2>2, <2>3 DEF Assured
  <2> QED  BY <1>1, <1>3, <2>1, <2>3, <2>6, <2>7, RemainStep
<1>8. CASE c.kind \in {"remove", "logout"}
  <2> DEFINE x == Phone!NewCall("logout", d, c.session)
  <2>1. x \in Phone!Call /\ x.kind = "logout" /\ x.device = d /\ x.session = c.session
    BY <1>2, NewCallFacts
  <2>2. UNCHANGED phone /\ \A y \in calls' : y \in calls \/ (y = x /\ c.kind = "remove")
    BY <1>1, <1>8 DEF Phone!Answered
  <2> HIDE DEF x
  <2>3. \A y \in calls' :
        /\ y \in Phone!Call
        /\ \/ \E b \in calls : Same(y, b)
           \/ y.device = c.device /\ y.session = c.session /\ y.kind = "logout" /\ c.kind = "remove"
    BY <1>3, <2>1, <2>2
  <2> QED  BY <1>1, <2>2, <2>3, QuietStep
<1>9. c.kind \in {"register", "renew", "remove", "logout"}
  BY CallTypes
<1> QED  BY <1>5, <1>6, <1>7, <1>8, <1>9

\* Somebody signs in on phone d.
LEMMA PhoneLoginStep ==
  ASSUME PhoneInv, NEW d \in Devices, NEW u \in Users, Phone!Login(d, u)
  PROVE  PhoneInv'
<1> DEFINE n == Len(sessions) + 1
           row == [phone[d] EXCEPT !.user = u, !.session = n]
           x == Phone!NewCall("register", d, n)
           old == Phone!Outdated(d, {"register", "renew"})
<1>1. /\ Issue(u) /\ phone[d].installed /\ ~In(d)
      /\ phone' = [phone EXCEPT ![d] = row] /\ calls' = old \cup {x} /\ UNCHANGED sends
  BY PhoneServer DEF Phone!Login, Phone!SignedIn, In
<1>2. /\ SessionsInv' /\ Stays(sessions, sessions') /\ Len(sessions') = n
      /\ sessions'[n].login = n /\ UNCHANGED <<token, latest>>
      /\ \A s \in Issued : sessions'[s] = sessions[s] /\ sessions'[s].login < n
  BY <1>1, IssueFacts DEF PhoneInv
<1>3. /\ Len(sessions) \in Nat /\ Issued = 1..Len(sessions) /\ Issued' = 1..n
      /\ n \in 1..MaxSession /\ \A s \in Issued : s \in Issued' /\ s < n /\ sessions'[s].login = sessions[s].login
  <2>1. Len(sessions) \in 0..MaxSession /\ Len(sessions) < MaxSession /\ MaxSession \in Nat
    BY <1>1, Rows DEF PhoneInv, SessionsInv, Issue, Room
  <2> QED  BY <1>2, <2>1 DEF Issued
<1> HIDE DEF n
<1>4. /\ row \in PhoneRow /\ row.session = n /\ row.installed = phone[d].installed
      /\ row.noted = phone[d].noted
  <2> DEFINE p == phone[d]
  <2>1. p \in PhoneRow /\ n \in 0..MaxSession
    BY <1>3, PhoneRows
  <2> HIDE DEF p
  <2>2. LET r == [p EXCEPT !.user = u, !.session = n]
        IN  r \in PhoneRow /\ r.session = n /\ r.installed = p.installed /\ r.noted = p.noted
    BY <2>1 DEF PhoneRow
  <2> QED  BY <2>2 DEF p
<1>5. /\ x \in Phone!Call /\ x.kind = "register" /\ x.device = d /\ x.session = n
      /\ x.answer = "none"
  BY <1>3, NewCallFacts
<1>6. \A y \in old : /\ y \in Phone!Call /\ \E c \in calls : Same(y, c)
                     /\ OfGeneration(y) /\ y.waits => y.device # d
  BY OutdatedFacts DEF OfGeneration
<1> HIDE DEF row, x, old
<1>7. /\ phone' \in [Devices -> PhoneRow] /\ phone'[d] = row
      /\ \A e \in Devices \ {d} : phone'[e] = phone[e]
  BY <1>1, <1>4, PhoneRows
<1>8. \A e \in Devices : In(e)' =>
        \/ e = d /\ LoginOf(e)' = n
        \/ e # d /\ In(e) /\ phone'[e] = phone[e] /\ LoginOf(e)' = LoginOf(e) /\ LoginOf(e) < n
  BY <1>2, <1>3, <1>4, <1>7, PhoneRows DEF In, LoginOf
<1>9. \A y \in calls' :
        \/ y = x
        \/ /\ y.session \in Issued /\ sessions'[y.session].login = sessions[y.session].login
           /\ sessions[y.session].login < n
           /\ OfGeneration(y) /\ y.waits => y.device # d
           /\ \E c \in calls : Same(y, c)
  <2> TAKE y \in calls'
  <2>1. CASE y \in old
    <3>1. PICK c \in calls : Same(y, c)
      BY <1>6, <2>1
    <3>2. y.session \in Issued
      BY <3>1, CallTypes DEF Same
    <3> QED  BY <1>2, <1>6, <2>1, <3>1, <3>2
  <2> QED  BY <1>1, <2>1
<1>10. PhoneShapes'
  <2>1. \A e \in Devices : phone'[e].session \in 0..Len(sessions')
    BY <1>2, <1>3, <1>4, <1>7 DEF PhoneInv, PhoneShapes
  <2>2. \A y \in calls' : y.session \in Issued'
    BY <1>3, <1>5, <1>9
  <2>3. ASSUME NEW y \in calls', y.kind = "renew", y.answer \in {"ok", "refused"}
        PROVE  y.next \in Issued' /\ sessions'[y.next].login = sessions'[y.session].login
    <3>1. PICK c \in calls : Same(y, c)
      BY <1>5, <1>9, <2>3
    <3>2. c.next \in Issued /\ sessions[c.next].login = sessions[c.session].login /\ c.session \in Issued
      BY <2>3, <3>1 DEF Same, PhoneInv, PhoneShapes
    <3> QED  BY <1>3, <3>1, <3>2 DEF Same
  <2>4. \A m \in sends' : m.sent.session \in 0..Len(sessions')
    BY <1>1, <1>2, <1>3 DEF PhoneInv, PhoneShapes
  <2>5. calls' \subseteq Phone!Call /\ sends' \subseteq Message
    BY <1>1, <1>5, <1>6 DEF PhoneInv, PhoneShapes
  <2> QED  BY <1>7, <2>1, <2>2, <2>3, <2>4, <2>5 DEF PhoneShapes
<1>11. OwnLogins'
  <2>1. \A e \in Devices : In(e)' => phone'[e].installed
    BY <1>1, <1>4, <1>7, <1>8 DEF PhoneInv, OwnLogins
  <2>2. \A e, f \in Devices : In(e)' /\ In(f)' /\ LoginOf(e)' = LoginOf(f)' => e = f
    <3> TAKE e, f \in Devices
    <3>2. n \in Int
      BY <1>3
    <3>1. ASSUME In(e)', In(f)', LoginOf(e)' = LoginOf(f)' PROVE e = f
      <4>1. CASE e = d
        BY <1>8, <3>1, <3>2, <4>1
      <4>2. CASE f = d
        BY <1>8, <3>1, <3>2, <4>2
      <4>3. CASE e # d /\ f # d
        <5>1. In(e) /\ In(f) /\ LoginOf(e) = LoginOf(f)
          BY <1>8, <3>1, <4>3
        <5> QED  BY <5>1 DEF PhoneInv, OwnLogins
      <4> QED  BY <4>1, <4>2, <4>3
    <3> QED  BY <3>1
  <2>3. ASSUME NEW e \in Devices, NEW y \in calls', In(e)'
        PROVE  /\ sessions'[y.session].login = LoginOf(e)' => y.device = e /\ OfGeneration(y)
               /\ y.device = e /\ sessions'[y.session].login # LoginOf(e)' => y.session < LoginOf(e)'
    <3>1. CASE y = x
      BY <1>2, <1>5, <1>8, <2>3, <3>1 DEF OfGeneration
    <3>2. CASE y # x
      <4>1. PICK c \in calls : Same(y, c)
        BY <1>9, <3>2
      <4>2. /\ y.session \in Issued /\ sessions'[y.session].login = sessions[y.session].login
            /\ sessions[y.session].login < n /\ n \in Nat /\ y.session < n
        BY <1>3, <1>9, <3>2
      <4>3. CASE e = d
        <5>1. LoginOf(e)' = n
          BY <1>8, <2>3, <4>3
        <5>2. sessions'[y.session].login # n
          BY <1>2, <4>2 DEF PhoneInv, SessionsInv
        <5> QED  BY <4>2, <5>1, <5>2
      <4>4. CASE e # d
        <5>1. In(e) /\ LoginOf(e)' = LoginOf(e)
          BY <1>8, <2>3, <4>4
        <5> QED  BY <4>1, <4>2, <5>1 DEF PhoneInv, OwnLogins, Same, OfGeneration
      <4> QED  BY <4>3, <4>4
    <3> QED  BY <3>1, <3>2
  <2>4. ASSUME NEW y \in calls', OfGeneration(y), y.waits
        PROVE  In(y.device)' /\ sessions'[y.session].login = LoginOf(y.device)'
    <3>1. CASE y = x
      BY <1>2, <1>3, <1>4, <1>5, <1>7, <3>1 DEF In, LoginOf
    <3>2. CASE y # x
      <4>1. PICK c \in calls : Same(y, c)
        BY <1>9, <3>2
      <4>2. /\ c.device = y.device /\ c.device \in Devices /\ c.device # d /\ OfGeneration(c) /\ c.waits
            /\ c.session = y.session
        BY <1>9, <2>4, <3>2, <4>1, CallTypes DEF Same, OfGeneration
      <4>3. In(c.device) /\ sessions[c.session].login = LoginOf(c.device)
        BY <4>2 DEF PhoneInv, OwnLogins
      <4>4. In(c.device)'
        BY <1>7, <4>2, <4>3 DEF In
      <4> QED  BY <1>8, <1>9, <3>2, <4>2, <4>3, <4>4
    <3> QED  BY <3>1, <3>2
  <2>5. ASSUME NEW m \in sends', m.gone, In(m.device)'
        PROVE  m.sent.session < LoginOf(m.device)'
    <3>1. m \in sends /\ m.device \in Devices /\ m.sent.session \in 0..Len(sessions)
      BY <1>1 DEF PhoneInv, PhoneShapes, Message
    <3>2. m.sent.session < n
      BY <1>2, <3>1, <1>3 DEF n
    <3> QED  BY <1>8, <2>5, <3>1, <3>2 DEF PhoneInv, OwnLogins
  <2> QED  BY <2>1, <2>2, <2>3, <2>4, <2>5 DEF OwnLogins, OfGeneration
<1>12. ASSUME NEW e \in Devices, Assured(e)' PROVE Reached(e)'
  <2>1. \A y \in calls' : y.kind = "register" /\ y.device = e /\ y.waits /\ y.answer = "ok"
                            => e # d /\ Assured(e)
    BY <1>5, <1>9 DEF OfGeneration, Same, Assured
  <2>2. ~phone[d].noted
    BY <1>1 DEF PhoneInv, Assured, Reached
  <2>3. e # d /\ Assured(e)
    BY <1>4, <1>7, <1>12, <2>1, <2>2 DEF Assured
  <2>4. Reached(e) /\ phone'[e] = phone[e]
    BY <1>7, <2>3 DEF PhoneInv
  <2>5. In(e)' /\ LoginOf(e)' = LoginOf(e)
    BY <1>8, <2>3, <2>4 DEF Reached, In
  <2> QED  BY <1>2, <1>3, <2>4, <2>5 DEF Reached, Registered
<1> QED  BY <1>2, <1>10, <1>11, <1>12 DEF PhoneInv

\* A phone keeps its registration when the server moves it within the sign-in.
LEMMA ReachedStays ==
  ASSUME PhoneInv, SessionsInv', Stays(sessions, sessions'), UNCHANGED phone,
         NEW d \in Devices, Reached(d), Registered(d)', latest'[d].session \in Issued',
         sessions'[latest'[d].session].login = LoginOf(d)
  PROVE  Reached(d)'
<1>1. In(d) /\ phone[d].session \in Issued
  BY PhoneRows DEF Reached
<1>2. LoginOf(d)' = LoginOf(d) /\ In(d)'
  BY <1>1, StaysFacts DEF LoginOf, In, PhoneInv
<1> QED  BY <1>2 DEF Reached

\* A registration that stays what it was.
LEMMA ReachedSame ==
  ASSUME PhoneInv, SessionsInv', Stays(sessions, sessions'), UNCHANGED phone,
         NEW d \in Devices, Reached(d), Registered(d)',
         latest'[d].session = latest[d].session
  PROVE  Reached(d)'
<1>1. /\ latest'[d].session \in Issued' /\ sessions'[latest'[d].session].login = LoginOf(d)
  BY StaysFacts DEF Reached, PhoneInv
<1> QED  BY <1>1, ReachedStays

\* A call that has its answer.
Heard(c, a, n) == [c EXCEPT !.answer = a, !.next = n]

\* The fields of a call that has its answer.
LEMMA HeardFacts ==
  ASSUME NEW c \in Phone!Call, NEW a \in {"ok", "refused", "unauthorized"}, NEW n \in 0..MaxSession
  PROVE  LET x == Heard(c, a, n) IN
         /\ x \in Phone!Call /\ x.kind = c.kind /\ x.device = c.device /\ x.session = c.session
         /\ x.waits = c.waits /\ x.answer = a /\ x.next = n
BY DEF Heard, Phone!Call

\* A call is answered: nobody is assured but whose registration it acknowledges.
LEMMA RepliesStep ==
  ASSUME PhoneInv, NEW c \in calls, NEW a \in {"ok", "refused", "unauthorized"},
         NEW n \in 0..MaxSession, Phone!ReplyWith(c, a, n),
         SessionsInv', Stays(sessions, sessions'),
         c.kind = "renew" /\ a \in {"ok", "refused"} =>
           n \in Issued' /\ sessions'[n].login = sessions[c.session].login
  PROVE  /\ PhoneShapes' /\ OwnLogins' /\ UNCHANGED <<phone, sends>>
         /\ \A d \in Devices : Assured(d)' =>
              Reached(d) \/ (c.kind = "register" /\ c.device = d /\ c.waits /\ a = "ok")
<1> DEFINE x == Heard(c, a, n)
<1>1. /\ UNCHANGED <<phone, sends>> /\ phone' \in [Devices -> PhoneRow]
      /\ \A y \in calls' : y \in calls \/ (y = x /\ c.waits)
  BY DEF Phone!ReplyWith, PhoneInv, PhoneShapes, Heard
<1>2. /\ x \in Phone!Call /\ x.kind = c.kind /\ x.device = c.device /\ x.session = c.session
      /\ x.waits = c.waits /\ x.answer = a /\ x.next = n
  <2>1. c \in Phone!Call
    BY CallTypes
  <2> QED  BY <2>1, HeardFacts
<1> HIDE DEF x
<1>3. \A y \in calls : y \in Phone!Call /\ FromOld(y) /\ y.session \in Issued
  BY <1>1, CallTypes DEF FromOld
<1>4. FromOld(x)
  BY <1>1, <1>2 DEF FromOld, OfGeneration
<1>5. calls' \subseteq Phone!Call /\ \A y \in calls' : FromOld(y) \/ IsNew(y)
  BY <1>1, <1>2, <1>3, <1>4
<1>6. ASSUME NEW y \in calls', y.kind = "renew", y.answer \in {"ok", "refused"}
      PROVE  y.next \in Issued' /\ sessions'[y.next].login = sessions'[y.session].login
  <2>1. CASE y \in calls
    <3>1. y.next \in Issued /\ sessions[y.next].login = sessions[y.session].login
      BY <1>6, <2>1 DEF PhoneInv, PhoneShapes
    <3> QED  BY <1>3, <2>1, <3>1, StaysFacts DEF PhoneInv
  <2>2. CASE y = x
    BY <1>2, <1>3, <1>6, <2>2, StaysFacts DEF PhoneInv
  <2> QED  BY <1>1, <2>1, <2>2
<1>7. PhoneShapes' /\ OwnLogins'
  BY <1>1, <1>5, <1>6, CallsStep
<1>8. ASSUME NEW d \in Devices, Assured(d)'
      PROVE  Reached(d) \/ (c.kind = "register" /\ c.device = d /\ c.waits /\ a = "ok")
  <2>1. Assured(d) \/ (c.kind = "register" /\ c.device = d /\ c.waits /\ a = "ok")
    BY <1>1, <1>2, <1>8 DEF Assured
  <2> QED  BY <2>1 DEF PhoneInv
<1> QED  BY <1>1, <1>7, <1>8

\* A call is answered, and nothing happens to any session or registration.
LEMMA RefusedStep ==
  ASSUME PhoneInv, NEW c \in calls, Phone!RefuseRegister(c) \/ Phone!Unauthorized(c)
  PROVE  PhoneInv'
<1>1. PICK a \in {"refused", "unauthorized"} :
        /\ Phone!ReplyWith(c, a, 0) /\ UNCHANGED <<sessions, token, latest>>
        /\ c.kind = "register" => a # "ok"
        /\ c.kind = "renew" => a = "unauthorized"
  BY DEF Phone!RefuseRegister, Phone!Unauthorized, Phone!Arrived, Phone!Reply, Phone!serverVars
<1>2. SessionsInv' /\ Stays(sessions, sessions') /\ 0 \in 0..MaxSession
  BY <1>1, SameSessions, Rows, SessionsAssumption DEF PhoneInv, SessionsInv, Stays
<1>3. /\ PhoneShapes' /\ OwnLogins' /\ UNCHANGED <<phone, sends>>
      /\ \A d \in Devices : Assured(d)' =>
           Reached(d) \/ (c.kind = "register" /\ c.device = d /\ c.waits /\ a = "ok")
  BY <1>1, <1>2, RepliesStep
<1>4. ASSUME NEW d \in Devices, Assured(d)' PROVE Reached(d)'
  <2>1. Reached(d) /\ Registered(d)'
    BY <1>1, <1>3, <1>4 DEF Reached, Registered
  <2> QED  BY <1>1, <1>2, <1>3, <2>1, ReachedSame
<1> QED  BY <1>2, <1>3, <1>4 DEF PhoneInv

\* A registration is accepted: an acknowledged phone's is not an older sign-in's to take.
LEMMA RegisterStep ==
  ASSUME PhoneInv, NEW c \in calls, Phone!HandleRegister(c)
  PROVE  PhoneInv'
<1> DEFINE b == c.device
           s == c.session
<1>1. /\ c.kind = "register" /\ MayRegister(b, s) /\ Register(b, s)
      /\ Phone!ReplyWith(c, "ok", 0)
  BY PhoneServer DEF Phone!HandleRegister, Phone!Arrived, Phone!Reply
<1>2. b \in Devices /\ s \in Issued /\ OfGeneration(c)
  BY <1>1, CallTypes DEF OfGeneration
<1> HIDE DEF b, s
<1>3. /\ SessionsInv' /\ UNCHANGED sessions /\ latest'[b].session = s /\ Registered(b)'
      /\ \A e \in Devices \ {b} : latest'[e] = latest[e]
  BY <1>1, <1>2, RegisterFacts DEF PhoneInv
<1>4. Stays(sessions, sessions') /\ 0 \in 0..MaxSession /\ Issued' = Issued
  BY <1>3, Rows, SessionsAssumption DEF PhoneInv, SessionsInv, Stays, Issued
<1>5. /\ PhoneShapes' /\ OwnLogins' /\ UNCHANGED <<phone, sends>>
      /\ \A d \in Devices : Assured(d)' =>
           Reached(d) \/ (c.kind = "register" /\ c.device = d /\ c.waits /\ "ok" = "ok")
  BY <1>1, <1>3, <1>4, RepliesStep
<1>6. ASSUME NEW d \in Devices, Assured(d)', d # b PROVE Reached(d)'
  <2>1. Reached(d) /\ latest'[d] = latest[d]
    BY <1>3, <1>5, <1>6 DEF b
  <2>2. Registered(d)'
    BY <2>1 DEF Reached, Registered
  <2> QED  BY <1>3, <1>4, <1>5, <2>1, <2>2, ReachedSame
<1>7. ASSUME Assured(b)' PROVE Reached(b)'
  <2>1. In(b) /\ sessions[s].login = LoginOf(b)
    <3>1. CASE c.waits
      BY <1>2, <3>1 DEF PhoneInv, OwnLogins, b, s
    <3>2. CASE Reached(b)
      <4> DEFINE l == latest[b].session
      <4>1. /\ In(b) /\ l \in Issued /\ sessions[l].login = LoginOf(b)
            /\ l # s => l < s
        BY <1>1, <3>2 DEF Reached, MayRegister
      <4>2. sessions[l].login <= l /\ l \in Nat /\ s \in Nat /\ sessions[l].login \in Nat
        BY <1>2, <4>1, Rows DEF PhoneInv, SessionsInv, Issued
      <4>3. sessions[s].login # LoginOf(b) => s < LoginOf(b)
        BY <1>2, <4>1 DEF PhoneInv, OwnLogins, b, s
      <4> HIDE DEF l
      <4> QED  BY <4>1, <4>2, <4>3
    <3> QED  BY <1>2, <1>5, <1>7, <3>1, <3>2 DEF b
  <2>2. In(b)' /\ LoginOf(b)' = LoginOf(b)
    BY <1>3, <1>5, <2>1 DEF In, LoginOf
  <2> QED  BY <1>2, <1>3, <1>4, <2>1, <2>2 DEF Reached
<1> QED  BY <1>3, <1>5, <1>6, <1>7 DEF PhoneInv

\* A session is renewed: the registrations move with it.
LEMMA RenewalStep ==
  ASSUME PhoneInv, NEW c \in calls, Phone!HandleRenew(c)
  PROVE  PhoneInv'
<1> DEFINE s == c.session
           n == Len(sessions) + 1
<1>1. c.kind = "renew" /\ Rotate(s) /\ Phone!ReplyWith(c, "ok", n)
  BY PhoneServer DEF Phone!HandleRenew, Phone!Arrived
<1> HIDE DEF s
<1>2. /\ SessionsInv' /\ Stays(sessions, sessions') /\ s \in Issued /\ Len(sessions') = n
      /\ sessions'[n].login = sessions[s].login
      /\ \A d \in Devices :
           /\ Registered(d) => Registered(d)'
           /\ latest'[d].session # latest[d].session => latest[d].session = s /\ latest'[d].session = n
  BY <1>1, RotateFacts DEF PhoneInv
<1>3. n \in Issued' /\ n \in 0..MaxSession
  <2>1. Len(sessions) \in 0..MaxSession /\ MaxSession \in Nat /\ Len(sessions) < MaxSession
    BY <1>1, Rows DEF PhoneInv, SessionsInv, Rotate, Room
  <2> QED  BY <1>2, <2>1 DEF Issued
<1> HIDE DEF n
<1>4. /\ PhoneShapes' /\ OwnLogins' /\ UNCHANGED <<phone, sends>>
      /\ \A d \in Devices : Assured(d)' =>
           Reached(d) \/ (c.kind = "register" /\ c.device = d /\ c.waits /\ "ok" = "ok")
  BY <1>1, <1>2, <1>3, RepliesStep DEF s
<1>5. ASSUME NEW d \in Devices, Assured(d)' PROVE Reached(d)'
  <2>1. Reached(d) /\ Registered(d)'
    BY <1>1, <1>2, <1>4, <1>5 DEF Reached
  <2>2. CASE latest'[d].session = latest[d].session
    BY <1>2, <1>4, <2>1, <2>2, ReachedSame
  <2>3. CASE latest'[d].session # latest[d].session
    <3>1. /\ latest'[d].session \in Issued' /\ sessions'[latest'[d].session].login = LoginOf(d)
      BY <1>2, <1>3, <2>1, <2>3 DEF Reached
    <3> QED  BY <1>2, <1>4, <2>1, <3>1, ReachedStays
  <2> QED  BY <2>2, <2>3
<1> QED  BY <1>2, <1>4, <1>5 DEF PhoneInv

\* Removing a device and ending a session are of a phone that has signed out of it.
LEMMA RemovedStep ==
  ASSUME PhoneInv, NEW c \in calls, Phone!HandleRemove(c) \/ Phone!HandleLogout(c)
  PROVE  PhoneInv'
<1>1. c.kind \in {"remove", "logout"} /\ Phone!ReplyWith(c, "ok", 0) /\ 0 \in 0..MaxSession
  BY SessionsAssumption DEF Phone!HandleRemove, Phone!HandleLogout, Phone!Arrived, Phone!Reply
<1>2. /\ SessionsInv' /\ Stays(sessions, sessions')
      /\ \A d \in Devices : /\ latest'[d].session = latest[d].session
                            /\ Registered(d) /\ ~Registered(d)' => latest[d].session = c.session
  <2>1. CASE Phone!HandleRemove(c)
    <3> DEFINE held == Holds(c.device, c.session)
    <3>1. Unregister(c.device, c.session) /\ c.device \in Devices
      BY <2>1, PhoneServer, CallTypes DEF Phone!HandleRemove
    <3>2. /\ token' = [token EXCEPT ![c.device] = IF held THEN NoToken ELSE @]
          /\ latest' = [latest EXCEPT ![c.device] = IF held THEN Revoked(c.device) ELSE @]
          /\ UNCHANGED sessions /\ held \in BOOLEAN
          /\ held => latest[c.device].session = c.session
      BY <3>1 DEF Unregister, Holds
    <3> HIDE DEF held
    <3>3. /\ SessionsInv'
          /\ latest'[c.device].session = latest[c.device].session
          /\ Registered(c.device) /\ ~Registered(c.device)' => held
          /\ \A e \in Devices \ {c.device} : latest'[e] = latest[e]
      BY <3>1, <3>2, Dropped DEF PhoneInv
    <3>4. Stays(sessions, sessions')
      BY <3>2, Rows DEF PhoneInv, SessionsInv, Stays
    <3> QED  BY <3>2, <3>3, <3>4 DEF Registered
  <2>2. CASE Phone!HandleLogout(c)
    <3>1. EndSession(c.session) /\ c.session \in Issued
      BY <2>2, PhoneServer, CallTypes DEF Phone!HandleLogout
    <3> QED  BY <3>1, EndFacts DEF PhoneInv
  <2> QED  BY <2>1, <2>2
<1>3. /\ PhoneShapes' /\ OwnLogins' /\ UNCHANGED <<phone, sends>>
      /\ \A d \in Devices : Assured(d)' =>
           Reached(d) \/ (c.kind = "register" /\ c.device = d /\ c.waits /\ "ok" = "ok")
  BY <1>1, <1>2, RepliesStep
<1>4. ASSUME NEW d \in Devices, Assured(d)' PROVE Reached(d)'
  <2>1. Reached(d)
    BY <1>1, <1>3, <1>4
  <2>2. latest[d].session # c.session
    <3>1. ~OfGeneration(c) /\ In(d) /\ sessions[latest[d].session].login = LoginOf(d)
      BY <1>1, <2>1 DEF OfGeneration, Reached
    <3> QED  BY <3>1 DEF PhoneInv, OwnLogins
  <2>3. Registered(d)'
    BY <1>2, <2>1, <2>2 DEF Reached
  <2> QED  BY <1>2, <1>3, <2>1, <2>3, ReachedSame
<1> QED  BY <1>2, <1>3, <1>4 DEF PhoneInv

\* Nothing changes but messages; one that found the app removed is of an older sign-in
\* than whoever is signed in.
LEMMA MessagesStep ==
  ASSUME PhoneInv, SessionsInv', UNCHANGED <<sessions, phone, calls>>,
         sends' \subseteq Message,
         \A m \in sends' : m.sent.session \in 0..Len(sessions),
         \A m \in sends' : m.gone => m \in sends \/ ~In(m.device),
         \A d \in Devices : latest'[d].session = latest[d].session,
         \A d \in Devices : Reached(d) => Registered(d)'
  PROVE  PhoneInv'
<1>1. Stays(sessions, sessions') /\ Issued' = Issued
  BY Rows DEF PhoneInv, SessionsInv, Stays, Issued
<1>2. \A d \in Devices : In(d)' = In(d) /\ LoginOf(d)' = LoginOf(d) /\ Assured(d)' = Assured(d)
  BY DEF In, LoginOf, Assured
<1>3. PhoneShapes'
  BY <1>1 DEF PhoneInv, PhoneShapes
<1>4. OwnLogins'
  <2>1. \A m \in sends' : m.device \in Devices
    BY DEF Message
  <2>2. \A m \in sends' : m.gone /\ In(m.device)' => m.sent.session < LoginOf(m.device)'
    BY <1>2, <2>1 DEF PhoneInv, OwnLogins
  <2> QED  BY <1>2, <2>2 DEF PhoneInv, OwnLogins, In, LoginOf, OfGeneration
<1>5. ASSUME NEW d \in Devices, Assured(d)' PROVE Reached(d)'
  <2>1. Reached(d) /\ Registered(d)'
    BY <1>2, <1>5 DEF PhoneInv
  <2> QED  BY <1>1, <2>1, ReachedSame
<1> QED  BY <1>3, <1>4, <1>5 DEF PhoneInv

\* A message that found the app removed.
Found(m) == [m EXCEPT !.gone = TRUE]

\* A message goes, or the provider answers it.
LEMMA SendStep ==
  ASSUME PhoneInv,
         \/ \E d \in Devices, u \in Users : Phone!Send(d, u)
         \/ \E m \in sends : Phone!ProviderAnswers(m)
  PROVE  PhoneInv'
<1>1. UNCHANGED <<sessions, token, latest, phone, calls>>
  BY DEF Phone!Send, Phone!ProviderAnswers, Phone!serverVars
<1>2. SessionsInv' /\ latest \in [Devices -> Event]
  BY <1>1, SameSessions, Rows DEF PhoneInv, SessionsInv
<1>3. \A m \in sends : /\ m \in Message /\ m.device \in Devices /\ m.sent \in Event
                       /\ m.sent.session \in 0..Len(sessions)
  BY DEF PhoneInv, PhoneShapes, Message
<1>4. /\ sends' \subseteq Message
      /\ \A m \in sends' : m.sent.session \in 0..Len(sessions) /\ (m.gone => m \in sends \/ ~In(m.device))
  <2>1. ASSUME NEW d \in Devices, NEW u \in Users, Phone!Send(d, u)
        PROVE  /\ sends' \subseteq Message
               /\ \A m \in sends' : /\ m.sent.session \in 0..Len(sessions)
                                    /\ m.gone => m \in sends \/ ~In(m.device)
    <3> DEFINE e == latest[d]
               x == [device |-> d, sent |-> e, gone |-> FALSE]
    <3>1. sends' = sends \cup {x}
      BY <2>1 DEF Phone!Send
    <3>2. e \in Event /\ e.session \in 0..Len(sessions)
      BY <1>2 DEF PhoneInv, SessionsInv
    <3> HIDE DEF e
    <3>3. x \in Message /\ x.sent = e /\ ~x.gone
      BY <3>2 DEF Message
    <3> HIDE DEF x
    <3> QED  BY <1>3, <3>1, <3>2, <3>3
  <2>2. ASSUME NEW m \in sends, Phone!ProviderAnswers(m)
        PROVE  /\ sends' \subseteq Message
               /\ \A b \in sends' : /\ b.sent.session \in 0..Len(sessions)
                                    /\ b.gone => b \in sends \/ ~In(b.device)
    <3>1. \A b \in sends' : b \in sends \/ (b = Found(m) /\ ~phone[m.device].installed)
      BY <2>2 DEF Phone!ProviderAnswers, Found
    <3>2. Found(m) \in Message /\ Found(m).device = m.device /\ Found(m).sent = m.sent
      <4>1. m \in Message
        BY <1>3
      <4> QED  BY <4>1 DEF Message, Found
    <3>3. ~phone[m.device].installed => ~In(m.device)
      BY <1>3 DEF PhoneInv, OwnLogins
    <3> QED  BY <1>3, <3>1, <3>2, <3>3
  <2> QED  BY <2>1, <2>2
<1>5. \A d \in Devices : Reached(d) => Registered(d)'
  BY <1>1 DEF Reached, Registered
<1> QED  BY <1>1, <1>2, <1>4, <1>5, MessagesStep

\* A registration is dropped because its message found the app removed: it is not of who
\* is signed in since.
LEMMA PruneStep ==
  ASSUME PhoneInv, NEW m \in sends, Phone!PruneGone(m)
  PROVE  PhoneInv'
<1> DEFINE b == m.device
           same == token[b].user = m.sent.owner /\ latest[b] = m.sent
<1>1. /\ m.gone /\ Prune(b, m.sent) /\ sends' = sends \ {m} /\ UNCHANGED <<phone, calls>>
  BY PhoneServer DEF Phone!PruneGone
<1>2. /\ token' = [token EXCEPT ![b] = IF same THEN NoToken ELSE @]
      /\ latest' = [latest EXCEPT ![b] = IF same THEN Revoked(b) ELSE @]
      /\ UNCHANGED sessions /\ same \in BOOLEAN /\ (same => latest[b] = m.sent)
  BY <1>1 DEF Prune
<1>3. b \in Devices /\ sends \subseteq Message
  BY DEF PhoneInv, PhoneShapes, Message
<1> HIDE DEF same, b
<1>4. /\ SessionsInv' /\ latest'[b].session = latest[b].session
      /\ Registered(b) /\ ~Registered(b)' => same
      /\ \A e \in Devices \ {b} : latest'[e] = latest[e]
  BY <1>2, <1>3, Dropped DEF PhoneInv
<1>5. ASSUME NEW d \in Devices, Reached(d) PROVE Registered(d)'
  <2>1. CASE d = b
    <3> DEFINE l == latest[b].session
    <3>1. In(b) /\ l \in Issued /\ sessions[l].login = LoginOf(b) /\ Registered(b)
      BY <1>5, <2>1 DEF Reached
    <3>2. sessions[l].login <= l /\ l \in Nat /\ sessions[l].login \in Nat
      BY <3>1, Rows DEF PhoneInv, SessionsInv, Issued
    <3>3. m.sent.session < LoginOf(b)
      BY <1>1, <3>1 DEF PhoneInv, OwnLogins, b
    <3>4. same => m.sent.session = l
      BY <1>2
    <3> HIDE DEF l
    <3>5. ~same
      BY <3>1, <3>2, <3>3, <3>4
    <3> QED  BY <1>4, <2>1, <3>1, <3>5
  <2>2. CASE d # b
    BY <1>4, <1>5, <2>2 DEF Reached, Registered
  <2> QED  BY <2>1, <2>2
<1>6. \A d \in Devices : latest'[d].session = latest[d].session
  BY <1>4
<1>7. /\ sends' \subseteq Message
      /\ \A n \in sends' : n.sent.session \in 0..Len(sessions) /\ n \in sends
  BY <1>1, <1>3 DEF PhoneInv, PhoneShapes
<1> QED  BY <1>1, <1>2, <1>4, <1>5, <1>6, <1>7, MessagesStep

\* A session expires, or a user is signed out everywhere: registrations are left alone.
LEMMA AwayStep ==
  ASSUME PhoneInv, UNCHANGED <<phone, calls, sends>>,
         (\E s \in Issued : Lapse(s)) \/ (\E u \in Users : SignOutEverywhere(u))
  PROVE  PhoneInv'
<1>1. SessionsInv' /\ Stays(sessions, sessions') /\ UNCHANGED <<token, latest>>
  BY LapseFacts, OutFacts DEF PhoneInv
<1>2. \A c \in calls : FromOld(c) /\ c \in Phone!Call /\ c.session \in Issued
  BY CallTypes DEF FromOld
<1>3. ASSUME NEW c \in calls, c.kind = "renew", c.answer \in {"ok", "refused"}
      PROVE  c.next \in Issued' /\ sessions'[c.next].login = sessions'[c.session].login
  <2>1. c.next \in Issued /\ sessions[c.next].login = sessions[c.session].login
    BY <1>3 DEF PhoneInv, PhoneShapes
  <2> QED  BY <1>1, <1>2, <2>1, StaysFacts DEF PhoneInv
<1>4. phone \in [Devices -> PhoneRow]
  BY DEF PhoneInv, PhoneShapes
<1>5. PhoneShapes' /\ OwnLogins'
  BY <1>1, <1>2, <1>3, <1>4, CallsStep
<1>6. ASSUME NEW d \in Devices, Assured(d)' PROVE Reached(d)'
  <2>1. Reached(d) /\ Registered(d)'
    BY <1>1, <1>6 DEF PhoneInv, Assured, Reached, Registered
  <2> QED  BY <1>1, <2>1, ReachedSame
<1> QED  BY <1>1, <1>5, <1>6 DEF PhoneInv

-----------------------------------------------------------------------------
(* Both clients over one server                                            *)

\* The server's part, and that of the client the world looks at.  In a browser's
\* world no phone believes it is registered.
SignInInv ==
  /\ SessionsInv
  /\ device \in {"phone", "browser"}
  /\ device = "phone" => PhoneInv
  /\ device = "browser" => WebInv /\ \A d \in Devices : ~phone[d].noted

\* Nobody has signed in yet.
LEMMA SignInStarts == ASSUME Init PROVE SignInInv
<1>1. /\ sessions = <<>> /\ token = [d \in Devices |-> NoToken] /\ latest = [d \in Devices |-> NoEvent]
  BY DEF Init, Phone!Init, Phone!InitServer, NoToken, Phone!NoToken, NoEvent, Phone!NoEvent
<1>2. Len(sessions) = 0 /\ Issued = {} /\ MaxSession \in Nat
  BY <1>1, SessionsAssumption DEF Issued
<1>3. SessionsInv
  <2>1. NoToken \in TokenRow /\ NoEvent \in Event /\ NoEvent.session = 0
    BY <1>2 DEF NoToken, TokenRow, NoEvent, Event
  <2>2. sessions \in Seq(Row) /\ token \in [Devices -> TokenRow] /\ latest \in [Devices -> Event]
    BY <1>1, <2>1, EmptySeq
  <2>3. ServerTypeOK
    BY <1>2, <2>2 DEF ServerTypeOK, Row, TokenRow, Event
  <2>4. \A d \in Devices : latest[d].session \in 0..Len(sessions)
    BY <1>1, <1>2, <2>1
  <2> QED  BY <1>2, <2>3, <2>4 DEF SessionsInv
<1>4. PhoneInv
  <2>1. phone = [d \in Devices |-> Phone!SignedOut] /\ calls = {} /\ sends = {}
    BY DEF Init, Phone!Init
  <2>2. /\ Phone!SignedOut \in PhoneRow /\ Phone!SignedOut.session = 0 /\ ~Phone!SignedOut.noted
    BY SessionsAssumption DEF Phone!SignedOut, PhoneRow
  <2>3. /\ phone \in [Devices -> PhoneRow]
        /\ \A d \in Devices : ~In(d) /\ phone[d].session = 0 /\ ~Assured(d)
    BY <2>1, <2>2 DEF In, Assured
  <2>4. PhoneShapes
    BY <1>2, <2>1, <2>3 DEF PhoneShapes
  <2>5. OwnLogins
    BY <2>1, <2>3 DEF OwnLogins
  <2> QED  BY <1>3, <2>3, <2>4, <2>5 DEF PhoneInv
<1>6. \A d \in Devices : ~phone[d].noted
  BY DEF Init, Phone!Init, Phone!SignedOut
<1>5. WebInv
  <2>1. /\ store = 0 /\ tab = [t \in Tabs |-> Web!Idle] /\ line = <<>> /\ requests = {} /\ lost = FALSE
    BY DEF Init, Web!Init
  <2>2. Web!Idle \in TabRow /\ Web!Idle.phase = "idle"
    BY SessionsAssumption DEF Web!Idle, TabRow
  <2>3. /\ tab \in [Tabs -> TabRow] /\ line \in Seq(Tabs) /\ Len(line) = 0
        /\ \A t \in Tabs : tab[t].phase = "idle" /\ ~Works(t) /\ ~Won(t) /\ ~Denied(t)
    BY <2>1, <2>2, EmptySeq DEF Works, Won, Denied
  <2>4. WebShapes /\ TabsKnow /\ Asked
    <3>1. WebShapes
      <4>1. store \in 0..Len(sessions)
        BY <1>2, <2>1
      <4>2. requests \subseteq RequestRow /\ lost \in BOOLEAN
        BY <2>1
      <4> QED  BY <2>3, <4>1, <4>2 DEF WebShapes
    <3>2. TabsKnow
      BY <2>3 DEF TabsKnow
    <3>3. Asked
      BY <2>1 DEF Asked
    <3> QED  BY <3>1, <3>2, <3>3
  <2>6. InTurn
    BY <2>3 DEF InTurn
  <2>5. Recorded
    BY <2>1 DEF Recorded
  <2> QED  BY <1>3, <2>4, <2>5, <2>6 DEF WebInv
<1> QED  BY <1>3, <1>4, <1>5, <1>6 DEF SignInInv, Init

\* What a phone and its provider do, and the server for them.
PhoneActs ==
  \/ \E d \in Devices :
       \/ \E u \in Users : Phone!Login(d, u)
       \/ Phone!StartRegister(d) \/ Phone!StartRenewal(d) \/ Phone!SignOut(d)
       \/ Phone!Restart(d) \/ Phone!Uninstall(d) \/ Phone!Install(d)
       \/ \E u \in Users : Phone!Send(d, u)
  \/ \E c \in calls :
       \/ Phone!Receive(c) \/ Phone!GiveUp(c) \/ Phone!Lose(c)
       \/ Phone!HandleRegister(c) \/ Phone!RefuseRegister(c) \/ Phone!HandleRenew(c)
       \/ Phone!HandleRemove(c) \/ Phone!HandleLogout(c) \/ Phone!Unauthorized(c)
  \/ \E m \in sends : Phone!ProviderAnswers(m) \/ Phone!PruneGone(m)

\* What the browser does, and the server for it.
WebActs ==
  \/ \E u \in Users : Web!Login(u)
  \/ Web!SignOut
  \/ \E k \in {"subscribe", "unsubscribe"} : Web!Alerts(k)
  \/ \E t \in Tabs : \/ Web!Ask(t) \/ Web!Skip(t) \/ Web!Request(t) \/ Web!Ignore(t)
                     \/ Web!Renewed(t) \/ Web!Pause(t) \/ Web!Clear(t)
                     \/ Web!GiveUp(t) \/ Web!Close(t)
  \/ \E r \in requests :
       \/ Web!HandleRenew(r) \/ Web!Unauthorized(r) \/ Web!HandleLogout(r)
       \/ Web!HandleSubscribe(r) \/ Web!RefuseSubscribe(r)
       \/ Web!HandleUnsubscribe(r) \/ Web!Lose(r)

\* What the server does by itself.
ServerActs ==
  (\E s \in Issued : Lapse(s)) \/ (\E u \in Users : SignOutEverywhere(u))

\* A step of the world is a phone's, the browser's or the server's.
LEMMA Worlds ==
  ASSUME Next
  PROVE  \/ device = "phone" /\ PhoneActs /\ UNCHANGED <<device, browserVars>>
         \/ device = "browser" /\ WebActs /\ UNCHANGED <<device, phoneVars>>
         \/ ServerActs /\ UNCHANGED <<device, phoneVars, browserVars>>
BY DEF Next, OnPhone, OnWeb, OnServer, PhoneActs, WebActs, ServerActs

\* Every step of a phone keeps the phones' invariant.
LEMMA PhoneStep ==
  ASSUME PhoneInv, PhoneActs
  PROVE  PhoneInv'
BY PhoneLoginStep, StartStep, SignOutStep, RestartStep, InstallStep, SendStep, ReceiveStep,
   GivenUpStep, RegisterStep, RefusedStep, RenewalStep, RemovedStep, PruneStep DEF PhoneActs

\* Every step of the browser keeps the browser's invariant.
LEMMA WebStep ==
  ASSUME WebInv, WebActs
  PROVE  WebInv'
BY WebLoginStep, BackgroundStep, AskStep, EndSteps, RequestStep, PauseStep, GiveUpStep,
   RenewStep, UnauthorizedStep, UntoldReplies DEF WebActs

\* What the server does by itself keeps the browser's invariant.
LEMMA WebAwayStep ==
  ASSUME WebInv, ServerActs, UNCHANGED browserVars
  PROVE  WebInv'
<1>1. /\ SessionsInv' /\ Stays(sessions, sessions') /\ Len(sessions') = Len(sessions)
  BY LapseFacts, OutFacts DEF WebInv, ServerActs
<1> QED  BY <1>1, UntoldStep DEF browserVars

\* Every step of the world keeps the invariant.
LEMMA SignInStep ==
  ASSUME SignInInv, [Next]_vars
  PROVE  SignInInv'
<1>1. CASE Next
  <2>1. CASE device = "phone" /\ PhoneActs /\ UNCHANGED <<device, browserVars>>
    BY <2>1, PhoneStep DEF SignInInv, PhoneInv
  <2>2. CASE device = "browser" /\ WebActs /\ UNCHANGED <<device, phoneVars>>
    BY <2>2, WebStep DEF SignInInv, WebInv, phoneVars
  <2>3. CASE ServerActs /\ UNCHANGED <<device, phoneVars, browserVars>>
    <3>1. UNCHANGED <<phone, calls, sends>> /\ UNCHANGED device
      BY <2>3 DEF phoneVars
    <3>2. device = "phone" => PhoneInv'
      BY <2>3, <3>1, AwayStep DEF SignInInv, ServerActs
    <3>3. device = "browser" => WebInv'
      BY <2>3, WebAwayStep DEF SignInInv
    <3> QED  BY <3>1, <3>2, <3>3 DEF SignInInv, PhoneInv, WebInv
  <2> QED  BY <1>1, <2>1, <2>2, <2>3, Worlds
<1>2. CASE UNCHANGED vars
  <2>1. UNCHANGED <<sessions, token, latest, device, phone, calls, sends>>
    BY <1>2 DEF vars, serverVars, phoneVars
  <2>2. UNCHANGED <<store, tab, line, requests, lost>>
    BY <1>2 DEF vars, browserVars
  <2>3. SessionsInv' /\ Issued' = Issued /\ \A s : Live(s)' = Live(s)
    BY <2>1, SameSessions DEF SignInInv
  <2>4. PhoneInv => PhoneInv'
    BY <2>1, <2>3 DEF PhoneInv, PhoneShapes, OwnLogins, Assured, Reached, In, LoginOf, Registered
  <2>5. WebInv => WebInv'
    BY <2>1, <2>2, <2>3 DEF WebInv, WebShapes, TabsKnow, InTurn, Asked, Recorded, Works, Won, Denied
  <2> QED  BY <2>1, <2>3, <2>4, <2>5 DEF SignInInv
<1> QED  BY <1>1, <1>2

\* The ways the server changes registrations.
Served ==
  \/ UNCHANGED latest
  \/ \E d \in Devices, s \in Issued : MayRegister(d, s) /\ Register(d, s)
  \/ \E s : Rotate(s)
  \/ \E s \in Issued : EndSession(s)
  \/ \E d \in Devices : \E s : Unregister(d, s)
  \/ \E d \in Devices : \E e : Prune(d, e)

\* A registration is taken over by a session that is not older, or moves to the newest.
LEMMA NewerKept ==
  ASSUME SessionsInv, Served
  PROVE  \A d \in Devices :
           Registered(d) /\ Registered(d)' => latest'[d].session >= latest[d].session
<1>1. \A d \in Devices : latest[d].session \in Nat
  BY DEF SessionsInv
<1>2. Len(sessions) \in Nat /\ \A d \in Devices : latest[d].session <= Len(sessions)
  BY Rows DEF SessionsInv
<1>3. CASE UNCHANGED latest
  BY <1>1, <1>3
<1>4. ASSUME NEW b \in Devices, NEW s \in Issued, MayRegister(b, s), Register(b, s),
             NEW d \in Devices, Registered(d)
      PROVE  latest'[d].session >= latest[d].session
  <2>1. latest'[b].session = s /\ \A e \in Devices \ {b} : latest'[e] = latest[e]
    BY <1>4, RegisterFacts
  <2>2. s \in Nat
    BY DEF Issued
  <2>3. d = b /\ latest[b].session # s => latest[b].session < s
    BY <1>4 DEF MayRegister
  <2> QED  BY <1>1, <2>1, <2>2, <2>3
<1>5. ASSUME NEW s, Rotate(s), NEW d \in Devices
      PROVE  latest'[d].session >= latest[d].session
  BY <1>1, <1>2, <1>5, RotateFacts
<1>6. ASSUME NEW s \in Issued, EndSession(s), NEW d \in Devices
      PROVE  latest'[d].session >= latest[d].session
  BY <1>1, <1>6, EndFacts
<1>7. ASSUME NEW b \in Devices, NEW held \in BOOLEAN,
             token' = [token EXCEPT ![b] = IF held THEN NoToken ELSE @],
             latest' = [latest EXCEPT ![b] = IF held THEN Revoked(b) ELSE @],
             UNCHANGED sessions, NEW d \in Devices
      PROVE  latest'[d].session >= latest[d].session
  <2>1. latest'[b].session = latest[b].session /\ \A e \in Devices \ {b} : latest'[e] = latest[e]
    BY <1>7, Dropped
  <2> QED  BY <1>1, <2>1
<1>8. ASSUME NEW b \in Devices, NEW s, Unregister(b, s), NEW d \in Devices
      PROVE  latest'[d].session >= latest[d].session
  <2>1. Holds(b, s) \in BOOLEAN
    BY DEF Holds
  <2> QED  BY <1>7, <1>8, <2>1 DEF Unregister
<1>9. ASSUME NEW b \in Devices, NEW e, Prune(b, e), NEW d \in Devices
      PROVE  latest'[d].session >= latest[d].session
  BY <1>7, <1>9 DEF Prune
<1> QED  BY <1>3, <1>4, <1>5, <1>6, <1>8, <1>9 DEF Served

\* What a phone's step does to the registrations.
LEMMA PhoneServes ==
  ASSUME PhoneInv, PhoneActs
  PROVE  Served
<1>1. ASSUME NEW d \in Devices, NEW u \in Users, Phone!Login(d, u) PROVE UNCHANGED latest
  BY <1>1 DEF Phone!Login, Phone!Issue
<1>2. ASSUME NEW d \in Devices,
             \/ Phone!StartRegister(d) \/ Phone!StartRenewal(d) \/ Phone!SignOut(d)
             \/ Phone!Restart(d) \/ Phone!Uninstall(d) \/ Phone!Install(d)
             \/ \E u \in Users : Phone!Send(d, u)
      PROVE  UNCHANGED latest
  BY <1>2 DEF Phone!StartRegister, Phone!StartRenewal, Phone!SignOut, Phone!Restart,
              Phone!Uninstall, Phone!Install, Phone!Send, Phone!serverVars
<1>3. ASSUME NEW c \in calls,
             \/ Phone!Receive(c) \/ Phone!GiveUp(c) \/ Phone!Lose(c)
             \/ Phone!RefuseRegister(c) \/ Phone!Unauthorized(c)
      PROVE  UNCHANGED latest
  BY <1>3 DEF Phone!Receive, Phone!GiveUp, Phone!Lose, Phone!RefuseRegister,
              Phone!Unauthorized, Phone!serverVars
<1>4. ASSUME NEW c \in calls
      PROVE  /\ c.device \in Devices /\ c.session \in Issued
             /\ Phone!HandleRegister(c) => MayRegister(c.device, c.session) /\ Register(c.device, c.session)
             /\ Phone!HandleRenew(c) => Rotate(c.session)
             /\ Phone!HandleRemove(c) => Unregister(c.device, c.session)
             /\ Phone!HandleLogout(c) => EndSession(c.session)
  BY CallTypes, PhoneServer DEF Phone!HandleRegister, Phone!HandleRenew, Phone!HandleRemove,
                                Phone!HandleLogout
<1>5. ASSUME NEW m \in sends
      PROVE  /\ m.device \in Devices
             /\ Phone!ProviderAnswers(m) => UNCHANGED latest
             /\ Phone!PruneGone(m) => Prune(m.device, m.sent)
  BY PhoneServer DEF PhoneInv, PhoneShapes, Message, Phone!ProviderAnswers, Phone!PruneGone,
                     Phone!serverVars
<1> QED  BY <1>1, <1>2, <1>3, <1>4, <1>5 DEF PhoneActs, Served

\* What the browser's step does to the registrations.
LEMMA WebServes ==
  ASSUME WebInv, WebActs
  PROVE  Served
<1>1. ASSUME NEW u \in Users, Web!Login(u) PROVE UNCHANGED latest
  BY <1>1 DEF Web!Login, Web!Issue
<1>2. ASSUME Web!SignOut \/ \E k \in {"subscribe", "unsubscribe"} : Web!Alerts(k)
      PROVE  UNCHANGED latest
  BY <1>2 DEF Web!SignOut, Web!Alerts, Web!serverVars
<1>3. ASSUME NEW t \in Tabs,
             \/ Web!Ask(t) \/ Web!Skip(t) \/ Web!Request(t) \/ Web!Ignore(t)
             \/ Web!Renewed(t) \/ Web!Pause(t) \/ Web!Clear(t) \/ Web!GiveUp(t) \/ Web!Close(t)
      PROVE  UNCHANGED latest
  BY <1>3 DEF Web!Ask, Web!Skip, Web!Request, Web!Ignore, Web!Renewed, Web!Pause, Web!Clear,
              Web!GiveUp, Web!Close, Web!serverVars
<1>4. Browser \in Devices
  BY Web!BrowserAssumption DEF Web!BrowserAssumption
<1>5. ASSUME NEW r \in requests
      PROVE  /\ r.session \in Issued
             /\ Web!HandleRenew(r) => Rotate(r.session)
             /\ Web!HandleLogout(r) => EndSession(r.session)
             /\ Web!HandleSubscribe(r) => MayRegister(Browser, r.session) /\ Register(Browser, r.session)
             /\ Web!HandleUnsubscribe(r) => Unregister(Browser, r.session)
             /\ Web!Unauthorized(r) \/ Web!RefuseSubscribe(r) \/ Web!Lose(r) => UNCHANGED latest
  BY WebServer DEF WebInv, Asked, Web!HandleRenew, Web!HandleLogout, Web!HandleSubscribe,
                   Web!HandleUnsubscribe, Web!Unauthorized, Web!RefuseSubscribe, Web!Lose,
                   Web!serverVars
<1> QED  BY <1>1, <1>2, <1>3, <1>4, <1>5 DEF WebActs, Served

\* What sessions, registrations, phones, calls, messages, tabs and requests have to do with
\* each other always holds: the inductive invariant of sign-ins and alerts.
THEOREM SignInSafety == Spec => []SignInInv
<1> QED  BY SignInStarts, SignInStep, PTL DEF Spec

\* The server's rows always have their types.
THEOREM SessionTypes == Spec => []ServerTypeOK
<1>1. SignInInv => ServerTypeOK
  BY DEF SignInInv, SessionsInv
<1> QED  BY <1>1, SignInSafety, PTL

\* A phone that was told its registration succeeded is the device its user's alerts go to
\* until it signs out, whatever calls and answers of earlier sign-ins arrive
\* (registerForPush, pruneFailedRegistration).
THEOREM AcknowledgedPhonesGetAlerts == Spec => []AcknowledgedKeepsAlerts
<1>1. SignInInv => AcknowledgedKeepsAlerts
  <2> SUFFICES ASSUME SignInInv PROVE AcknowledgedKeepsAlerts
    OBVIOUS
  <2>1. CASE device = "phone"
    <3>1. \A d \in Devices : phone[d].noted => Registered(d) /\ sessions[latest[d].session].login = LoginOf(d)
      BY <2>1 DEF SignInInv, PhoneInv, Assured, Reached
    <3> QED  BY <3>1 DEF AcknowledgedKeepsAlerts, Phone!AcknowledgedKeepsAlerts, Phone!Noted,
                         Phone!Registered, Registered, LoginOf
  <2>2. CASE device = "browser"
    BY <2>2 DEF SignInInv, AcknowledgedKeepsAlerts, Phone!AcknowledgedKeepsAlerts, Phone!Noted
  <2> QED  BY <2>1, <2>2 DEF SignInInv
<1> QED  BY <1>1, SignInSafety, PTL

\* A registered device is never taken over by an older session, however late its request
\* arrives (saveToken's and registerForSession's conflicts).
THEOREM NewerSessionsKeepDevices == Spec => NewerSessionKeepsDevice
<1>1. ASSUME SignInInv, [Next]_vars
      PROVE  [\A d \in Devices : Registered(d) /\ Registered(d)' =>
                latest'[d].session >= latest[d].session]_serverVars
  <2>1. CASE Next
    <3>1. CASE device = "phone" /\ PhoneActs
      BY <1>1, <3>1, PhoneServes, NewerKept DEF SignInInv
    <3>2. CASE device = "browser" /\ WebActs
      BY <1>1, <3>2, WebServes, NewerKept DEF SignInInv
    <3>3. CASE ServerActs
      <4>1. UNCHANGED latest
        BY <3>3 DEF ServerActs, Lapse, SignOutEverywhere
      <4> QED  BY <1>1, <4>1, NewerKept DEF SignInInv, Served
    <3> QED  BY <2>1, <3>1, <3>2, <3>3, Worlds
  <2>2. CASE UNCHANGED vars
    BY <2>2 DEF vars
  <2> QED  BY <1>1, <2>1, <2>2
<1> QED  BY <1>1, SignInSafety, PTL DEF Spec, NewerSessionKeepsDevice

\* Outside of a sign-in the browser's record only moves on to a later session of the same
\* sign-in: no late answer brings an earlier account or token back (renew, write).
THEOREM NoOldOwnersReturn == Spec => NoOldOwnerReturns
<1>1. ASSUME SignInInv, [Next]_vars
      PROVE  [store' \notin {0, store} /\ sessions' = sessions =>
                store' > store /\ Web!SameEpoch(store')]_Web!vars
  <2>1. ASSUME NEW t \in Tabs, Web!Renewed(t), WebInv
        PROVE  store' > store /\ Web!SameEpoch(store')
    <3>1. Won(t) /\ tab[t].captured = store /\ store' = tab[t].next /\ tab[t].phase # "idle"
      BY <2>1 DEF Web!Renewed, Web!Answered, Web!Unchanged, Won
    <3>2. /\ store \in Issued /\ tab[t].next > store
          /\ sessions[tab[t].next].login = sessions[store].login
      BY <2>1, <3>1 DEF WebInv, TabsKnow
    <3>3. store # 0
      BY <3>2 DEF Issued
    <3> QED  BY <3>1, <3>2, <3>3 DEF Web!SameEpoch
  <2>2. ASSUME NEW u \in Users, Web!Login(u), WebInv PROVE sessions' # sessions
    <3>1. Len(sessions') = Len(sessions) + 1 /\ Len(sessions) \in Nat
      <4>1. Issue(u) /\ SessionsInv
        BY <2>2, WebServer DEF Web!Login, WebInv
      <4> QED  BY <4>1, IssueFacts, Rows DEF SessionsInv
    <3> QED  BY <3>1
  <2>3. ASSUME WebInv, WebActs
        PROVE  \/ store' \in {0, store} \/ sessions' # sessions
               \/ store' > store /\ Web!SameEpoch(store')
    <3>1. ASSUME Web!SignOut \/ \E k \in {"subscribe", "unsubscribe"} : Web!Alerts(k)
          PROVE  store' \in {0, store}
      BY <3>1 DEF Web!SignOut, Web!Alerts
    <3>2. ASSUME NEW t \in Tabs,
                 \/ Web!Ask(t) \/ Web!Skip(t) \/ Web!Request(t) \/ Web!Ignore(t)
                 \/ Web!Pause(t) \/ Web!Clear(t) \/ Web!GiveUp(t) \/ Web!Close(t)
          PROVE  store' \in {0, store}
      BY <3>2 DEF Web!Ask, Web!Skip, Web!Request, Web!Ignore, Web!Pause, Web!Clear,
                  Web!Cleared, Web!GiveUp, Web!Close
    <3>3. ASSUME NEW r \in requests,
                 \/ Web!HandleRenew(r) \/ Web!Unauthorized(r) \/ Web!HandleLogout(r)
                 \/ Web!HandleSubscribe(r) \/ Web!RefuseSubscribe(r)
                 \/ Web!HandleUnsubscribe(r) \/ Web!Lose(r)
          PROVE  store' \in {0, store}
      BY <3>3 DEF Web!HandleRenew, Web!Unauthorized, Web!HandleLogout, Web!HandleSubscribe,
                  Web!RefuseSubscribe, Web!HandleUnsubscribe, Web!Lose, Web!Reply
    <3> QED  BY <2>1, <2>2, <2>3, <3>1, <3>2, <3>3 DEF WebActs
  <2>4. CASE Next
    <3>1. CASE device = "browser" /\ WebActs
      BY <1>1, <2>3, <3>1 DEF SignInInv
    <3>2. CASE UNCHANGED browserVars
      BY <3>2 DEF browserVars
    <3> QED  BY <2>4, <3>1, <3>2, Worlds
  <2>5. CASE UNCHANGED vars
    BY <2>5 DEF vars, browserVars
  <2> QED  BY <1>1, <2>4, <2>5
<1> QED  BY <1>1, SignInSafety, PTL DEF Spec, NoOldOwnerReturns, Web!NoOldOwnerReturns

\* When a tab that was refused clears the browser's record, no session of that sign-in is
\* live, unless an answer was lost: two tabs that renew at once do not lose the login.
THEOREM SignedOutWhenOver == Spec => SignedOutOnlyWhenOver
<1>1. ASSUME SignInInv, [Next]_vars
      PROVE  [\A t \in Tabs : Web!Clear(t) /\ store' # store /\ ~lost =>
                \A s \in Web!Issued : Web!Live(s) => sessions[s].login # sessions[store].login]_Web!vars
  <2> SUFFICES ASSUME NEW t \in Tabs, Web!Clear(t), store' # store, ~lost,
                      NEW s \in Issued, Live(s), sessions[s].login = sessions[store].login
               PROVE  FALSE
    BY WebServer DEF Web!Issued, Issued
  <2>1. tab[t].phase = "pause" /\ tab[t].captured = store
    BY DEF Web!Clear, Web!Cleared, Web!Unchanged
  <2>2. WebInv
    <3>1. UNCHANGED browserVars => store' = store
      BY DEF browserVars
    <3>2. UNCHANGED vars => store' = store
      BY DEF vars, browserVars
    <3> QED  BY <1>1, <3>1, <3>2, Worlds DEF SignInInv
  <2>3. ~Live(store) /\ store # 0 /\ Works(t) /\ ~Won(t)
    BY <2>1, <2>2 DEF WebInv, TabsKnow, Denied, Works, Won, Issued
  <2>4. PICK u \in Tabs : Won(u)
    BY <2>2, <2>3 DEF WebInv, Recorded
  <2>5. Works(u)
    BY <2>4 DEF Won, Works
  <2> QED  BY <2>2, <2>3, <2>4, <2>5, OneWorks DEF WebInv
<1> QED  BY <1>1, SignInSafety, PTL DEF Spec, SignedOutOnlyWhenOver, Web!SignedOutOnlyWhenOver

-----------------------------------------------------------------------------
(***************************************************************************)
(* What OtpCodes keeps for any number of requests, codes and ticks and any *)
(* setting of the limits: a code opens one session, is compared with at    *)
(* most MaxAttempts answers, is asked for at the allowed pace, and works   *)
(* when it arrives.                                                        *)
(***************************************************************************)

\* Steps that hold a code of the table.
Holding == Steps \ {"idle", "registering", "registered", "recovering"}
\* Steps that only the request which consumed the code reaches.
Admitted == {"finding", "creating", "opening"}

CallsHold == \A c \in Calls : stage[c].step \in Holding => stage[c].code \in DOMAIN codes

\* One request at a time is past the consumption of a code, and it is the only
\* one that will be.
UseInv ==
  /\ \A i \in Indices : opened[i] > 0 => i \in DOMAIN codes /\ codes[i].state = "used"
  /\ \A c \in Calls : stage[c].step \in Admitted =>
       codes[stage[c].code].state = "used" /\ opened[stage[c].code] = 0
  /\ \A c, d \in Calls : stage[c].step \in Admitted /\ stage[d].step \in Admitted
       /\ stage[c].code = stage[d].code => c = d

\* Every comparison, made or about to be made, has its attempt.
Comparing(i) == {c \in Calls : stage[c].step = "comparing" /\ stage[c].code = i}
AttemptInv ==
  \A i \in Indices : IF i \in DOMAIN codes
                     THEN tries[i] + Cardinality(Comparing(i)) <= codes[i].attempts
                     ELSE tries[i] = 0

\* One request delivers a code, and until then the provider has not got it.  A
\* code in delivery or with the provider is used up for a reason.
Gone(i) == i \in answered \/ \E j \in DOMAIN codes : j > i /\ codes[j].purpose = codes[i].purpose
DeliveryInv ==
  /\ sent \subseteq DOMAIN codes
  /\ \A c \in Calls : stage[c].step = "delivering" => stage[c].code \notin sent
  /\ \A c, d \in Calls : stage[c].step = "delivering" /\ stage[d].step = "delivering"
       /\ stage[c].code = stage[d].code => c = d
  /\ \A i \in sent : codes[i].state = "used" => Gone(i)
  /\ \A c \in Calls : stage[c].step = "delivering" /\ codes[stage[c].code].state = "used" => Gone(stage[c].code)

PaceInv == RequestPace /\ \A i \in DOMAIN codes : codes[i].at <= clock

OtpInv == TypeOK /\ CallsHold /\ UseInv /\ AttemptInv /\ DeliveryInv /\ PaceInv /\ NewestOnly

-----------------------------------------------------------------------------
(* The steps that write the table of codes                                 *)

SameRow(new, old) == new.purpose = old.purpose /\ new.at = old.at /\ new.attempts = old.attempts

\* createOtp adds a row, and the older ones of its purpose are used up.
LEMMA CreateFacts ==
  ASSUME OtpAssumption, TypeOK, NEW c \in Calls, NEW p \in Purposes, CreateOtp(c, p)
  PROVE  LET n == Len(codes) + 1 IN
         /\ codes' \in Seq(OtpRow) /\ Len(codes') = n /\ n <= MaxCodes
         /\ DOMAIN codes = 1..Len(codes) /\ DOMAIN codes' = 1..n
         /\ \A i \in DOMAIN codes :
              /\ codes'[i].purpose = codes[i].purpose /\ codes'[i].at = codes[i].at
              /\ codes'[i].attempts = codes[i].attempts
              /\ codes[i].state = "used" => codes'[i].state = "used"
              /\ codes[i].purpose = p => codes'[i].state = "used"
              /\ codes'[i].state = "used" => codes[i].state = "used" \/ codes[i].purpose = p
         /\ codes'[n] = [purpose |-> p, at |-> clock, attempts |-> 0, state |-> "open"]
         /\ stage' = [stage EXCEPT ![c] = CallState("delivering", n, FALSE)]
<1> DEFINE n == Len(codes) + 1
           old == [i \in DOMAIN codes |->
                     IF codes[i].purpose = p THEN [codes[i] EXCEPT !.state = "used"] ELSE codes[i]]
           row == [purpose |-> p, at |-> clock, attempts |-> 0, state |-> "open"]
<1>1. codes \in Seq(OtpRow) /\ Len(codes) \in Nat /\ DOMAIN codes = 1..Len(codes) BY DEF TypeOK
<1>2. \A i \in DOMAIN codes : old[i] \in OtpRow
  <2> TAKE i \in DOMAIN codes
  <2>1. codes[i] \in OtpRow BY <1>1
  <2> QED BY <2>1 DEF OtpRow
<1>3. old \in Seq(OtpRow) /\ Len(old) = Len(codes)
  <2>1. old \in [1..Len(codes) -> OtpRow] BY <1>1, <1>2
  <2> QED BY <2>1, <1>1
<1>4. row \in OtpRow BY DEF OtpRow, TypeOK, OtpAssumption
<1>5. codes' = Append(old, row) /\ Len(codes) < MaxCodes BY DEF CreateOtp
<1>6. \A i \in DOMAIN codes :
        /\ old[i].purpose = codes[i].purpose /\ old[i].at = codes[i].at
        /\ old[i].attempts = codes[i].attempts
        /\ codes[i].state = "used" => old[i].state = "used"
        /\ codes[i].purpose = p => old[i].state = "used"
        /\ old[i].state = "used" => codes[i].state = "used" \/ codes[i].purpose = p
  <2> TAKE i \in DOMAIN codes
  <2>1. codes[i] \in OtpRow BY <1>1
  <2> QED BY <2>1 DEF OtpRow
<1> HIDE DEF old, row
<1>7. codes' \in Seq(OtpRow) /\ Len(codes') = n /\ codes'[n] = row
      /\ \A i \in DOMAIN codes : codes'[i] = old[i]
  BY <1>1, <1>3, <1>4, <1>5
<1>8. n <= MaxCodes /\ DOMAIN codes' = 1..n BY <1>1, <1>5, <1>7 DEF OtpAssumption
<1>9. stage' = [stage EXCEPT ![c] = CallState("delivering", n, FALSE)] BY DEF CreateOtp, Go
<1>10. codes'[n] = [purpose |-> p, at |-> clock, attempts |-> 0, state |-> "open"] BY <1>7 DEF row
<1> QED BY <1>1, <1>6, <1>7, <1>8, <1>9, <1>10

\* One row is written.
LEMMA PutFacts ==
  ASSUME NEW s \in Seq(OtpRow), NEW i \in DOMAIN s, NEW r \in OtpRow, NEW t, t = [s EXCEPT ![i] = r]
  PROVE  /\ t \in Seq(OtpRow) /\ Len(t) = Len(s) /\ DOMAIN t = DOMAIN s
         /\ t[i] = r /\ \A j \in DOMAIN s : j # i => t[j] = s[j]
OBVIOUS

\* What a row becomes when its code is used up, or when an attempt is taken.
LEMMA UsedFacts ==
  ASSUME TypeOK, NEW i \in DOMAIN codes, codes' = UsedUp(i)
  PROVE  /\ codes' \in Seq(OtpRow) /\ Len(codes') = Len(codes) /\ DOMAIN codes' = DOMAIN codes
         /\ SameRow(codes'[i], codes[i]) /\ codes'[i].state = "used" /\ \A j \in DOMAIN codes : j # i => codes'[j] = codes[j]
<1>1. codes \in Seq(OtpRow) /\ codes[i] \in OtpRow BY DEF TypeOK
<1> DEFINE new == [codes[i] EXCEPT !.state = "used"]
<1>2. new \in OtpRow BY <1>1 DEF OtpRow
<1>5. SameRow(new, codes[i]) /\ new.state = "used" BY <1>1 DEF OtpRow, SameRow
<1>3. codes' = [codes EXCEPT ![i] = new] BY DEF UsedUp
<1> HIDE DEF new
<1>4. /\ codes' \in Seq(OtpRow) /\ Len(codes') = Len(codes) /\ DOMAIN codes' = DOMAIN codes
      /\ codes'[i] = new /\ \A j \in DOMAIN codes : j # i => codes'[j] = codes[j]
  BY <1>1, <1>2, <1>3, PutFacts
<1> QED BY <1>4, <1>5

LEMMA TriedFacts ==
  ASSUME OtpAssumption, TypeOK, NEW i \in DOMAIN codes, codes[i].attempts < MaxAttempts,
         codes' = [codes EXCEPT ![i].attempts = @ + 1]
  PROVE  /\ codes' \in Seq(OtpRow) /\ Len(codes') = Len(codes) /\ DOMAIN codes' = DOMAIN codes
         /\ codes'[i].purpose = codes[i].purpose /\ codes'[i].at = codes[i].at
         /\ codes'[i].attempts = codes[i].attempts + 1 /\ codes'[i].state = codes[i].state
         /\ \A j \in DOMAIN codes : j # i => codes'[j] = codes[j]
<1>1. codes \in Seq(OtpRow) /\ codes[i] \in OtpRow BY DEF TypeOK
<1> DEFINE n == codes[i].attempts + 1
           new == [codes[i] EXCEPT !.attempts = n]
<1>2. n \in 0..MaxAttempts BY <1>1 DEF OtpRow, OtpAssumption
<1>3. codes' = [codes EXCEPT ![i] = new] OBVIOUS
<1> HIDE DEF n
<1>4. /\ new \in OtpRow /\ new.purpose = codes[i].purpose /\ new.at = codes[i].at
      /\ new.attempts = n /\ new.state = codes[i].state
  BY <1>1, <1>2 DEF OtpRow
<1> HIDE DEF new
<1>5. /\ codes' \in Seq(OtpRow) /\ Len(codes') = Len(codes) /\ DOMAIN codes' = DOMAIN codes
      /\ codes'[i] = new /\ \A j \in DOMAIN codes : j # i => codes'[j] = codes[j]
  BY <1>1, <1>3, <1>4
<1> QED BY <1>4, <1>5 DEF n

-----------------------------------------------------------------------------
(* The steps of a call                                                     *)

Rest == CallsHold /\ UseInv /\ AttemptInv /\ DeliveryInv /\ PaceInv /\ NewestOnly

\* A step that writes nothing but its own place, and holds no comparison.
LEMMA QuietRequest ==
  ASSUME OtpAssumption, OtpInv, NEW c \in Calls, NEW s \in Steps, NEW i \in 0..MaxCodes, NEW ok \in BOOLEAN,
         stage' = [stage EXCEPT ![c] = CallState(s, i, ok)],
         UNCHANGED <<clock, codes, tries, opened, sent, answered>>,
         stage[c].step # "comparing", s \notin {"comparing", "delivering"},
         s \in Holding => i \in DOMAIN codes,
         s \in Admitted => stage[c].step \in Admitted /\ stage[c].code = i
  PROVE  Rest'
<1>1. stage \in [Calls -> CallStates] BY DEF OtpInv, TypeOK
<1>2. /\ stage'[c].step = s /\ stage'[c].code = i
      /\ \A d \in Calls : d # c => stage'[d] = stage[d]
  BY <1>1 DEF CallState
<1>3. CallsHold' BY <1>2 DEF OtpInv, CallsHold
<1>4. UseInv' BY <1>2 DEF OtpInv, UseInv
<1>5. AttemptInv'
  <2>1. \A j \in Indices : Comparing(j)' = Comparing(j) BY <1>2 DEF Comparing
  <2> QED BY <2>1 DEF OtpInv, AttemptInv
<1>6. DeliveryInv' BY <1>2 DEF OtpInv, DeliveryInv, Gone
<1>7. PaceInv' /\ NewestOnly' BY DEF OtpInv, PaceInv, RequestPace, NewestOnly
<1> QED BY <1>3, <1>4, <1>5, <1>6, <1>7 DEF Rest

\* A step that leaves the calls, the table and the provider alone.
LEMMA WorldStep ==
  ASSUME OtpAssumption, OtpInv, UNCHANGED <<codes, stage, tries, opened, sent, answered>>,
         clock' \in Nat, clock <= clock'
  PROVE  Rest'
<1>1. \A j \in Indices : Comparing(j)' = Comparing(j) BY DEF Comparing
<1>2. AttemptInv' BY <1>1 DEF OtpInv, AttemptInv
<1>3. PaceInv'
  <2>1. \A i \in DOMAIN codes : codes[i].at \in Nat
    <3> TAKE i \in DOMAIN codes
    <3>1. codes[i] \in OtpRow BY DEF OtpInv, TypeOK
    <3> QED BY <3>1 DEF OtpRow
  <2> QED BY <2>1 DEF OtpInv, PaceInv, RequestPace, TypeOK
<1>4. CallsHold' BY DEF OtpInv, CallsHold
<1>5. UseInv' BY DEF OtpInv, UseInv
<1>6. DeliveryInv' /\ NewestOnly' BY DEF OtpInv, DeliveryInv, Gone, NewestOnly
<1> QED BY <1>2, <1>3, <1>4, <1>5, <1>6 DEF Rest

\* A new code: the limits hold over every row, so the pace is kept.
LEMMA CreateStep ==
  ASSUME OtpAssumption, OtpInv, NEW c \in Calls, NEW p \in Purposes, CreateOtp(c, p),
         stage[c].step \in {"idle", "registered", "recovering"},
         UNCHANGED <<clock, tries, opened, sent, answered>>
  PROVE  Rest'
<1> DEFINE n == Len(codes) + 1
<1>1. TypeOK /\ CallsHold /\ UseInv /\ AttemptInv /\ DeliveryInv /\ PaceInv /\ NewestOnly
  BY DEF OtpInv
<1>2. /\ DOMAIN codes = 1..Len(codes) /\ DOMAIN codes' = 1..n /\ n <= MaxCodes
      /\ codes'[n] = [purpose |-> p, at |-> clock, attempts |-> 0, state |-> "open"]
      /\ stage' = [stage EXCEPT ![c] = CallState("delivering", n, FALSE)]
  BY <1>1, CreateFacts, Zenon
<1>14. Len(codes) \in Nat BY <1>1 DEF TypeOK
<1>3. /\ stage'[c].step = "delivering" /\ stage'[c].code = n
      /\ \A d \in Calls : d # c => stage'[d] = stage[d]
  BY <1>1, <1>2 DEF TypeOK, CallState
<1>4. n \in Indices /\ n \notin DOMAIN codes /\ DOMAIN codes \subseteq DOMAIN codes' /\ n \in DOMAIN codes'
      /\ \A i \in DOMAIN codes' : i \in DOMAIN codes \/ i = n
  BY <1>2, <1>14 DEF Indices, OtpAssumption
<1>5. /\ codes'[n].purpose = p /\ codes'[n].at = clock /\ codes'[n].attempts = 0 /\ codes'[n].state = "open"
      /\ \A i \in DOMAIN codes :
           /\ codes'[i].purpose = codes[i].purpose /\ codes'[i].at = codes[i].at
           /\ codes'[i].attempts = codes[i].attempts
           /\ codes[i].state = "used" => codes'[i].state = "used"
           /\ codes[i].purpose = p => codes'[i].state = "used"
           /\ codes'[i].state = "used" => codes[i].state = "used" \/ codes[i].purpose = p
  <2>1. \A i \in DOMAIN codes :
           /\ codes'[i].purpose = codes[i].purpose /\ codes'[i].at = codes[i].at
           /\ codes'[i].attempts = codes[i].attempts
           /\ codes[i].state = "used" => codes'[i].state = "used"
           /\ codes[i].purpose = p => codes'[i].state = "used"
           /\ codes'[i].state = "used" => codes[i].state = "used" \/ codes[i].purpose = p
    BY <1>1, CreateFacts, Zenon
  <2> QED BY <1>2, <2>1
<1> HIDE DEF n
<1>6. CallsHold' BY <1>1, <1>3, <1>4 DEF CallsHold
<1>7. UseInv'
  <2>1. \A d \in Calls : stage'[d].step \in Admitted => d # c /\ stage[d].step \in Admitted /\ stage[d].code \in DOMAIN codes
    BY <1>1, <1>3 DEF Admitted, CallsHold, Holding, Steps
  <2> QED BY <1>1, <1>3, <1>4, <1>5, <2>1 DEF UseInv
<1>8. AttemptInv'
  <2>1. \A i \in Indices : Comparing(i)' = Comparing(i) BY <1>3 DEF Comparing
  <2>2. Comparing(n) = {} BY <1>1, <1>4 DEF Comparing, CallsHold, Holding, Steps
  <2>3. Cardinality(Comparing(n)) = 0 BY <2>2, FS_EmptySet
  <2>4. tries[n] = 0 BY <1>1, <1>4 DEF AttemptInv
  <2>5. ASSUME NEW i \in Indices, i = n PROVE tries[i] + Cardinality(Comparing(i)) <= codes'[i].attempts
    BY <1>5, <2>3, <2>4, <2>5
  <2> QED BY <1>1, <1>4, <1>5, <2>1, <2>5 DEF AttemptInv
<1>9. DeliveryInv'
  <2>1. \A d \in Calls : stage[d].step = "delivering" => stage[d].code \in DOMAIN codes
    BY <1>1 DEF CallsHold, Holding, Steps
  <2>2. ASSUME NEW i \in DOMAIN codes, codes[i].state = "used" => Gone(i), codes'[i].state = "used" PROVE Gone(i)'
    <3>1. CASE codes[i].purpose = p
      <4>1. n > i BY <1>2, <1>14 DEF n
      <4> QED BY <1>4, <1>5, <3>1, <4>1 DEF Gone
    <3>2. CASE codes[i].purpose # p
      <4>1. Gone(i) BY <1>5, <2>2, <3>2
      <4> QED BY <1>4, <1>5, <4>1 DEF Gone
    <3> QED BY <3>1, <3>2
  <2>3. \A d \in Calls : stage'[d].step = "delivering" => stage'[d].code \notin sent
    BY <1>1, <1>3, <1>4 DEF DeliveryInv
  <2>4. \A d, e \in Calls : stage'[d].step = "delivering" /\ stage'[e].step = "delivering"
          /\ stage'[d].code = stage'[e].code => d = e
    BY <1>1, <1>3, <1>4, <2>1 DEF DeliveryInv
  <2>5. \A i \in sent : codes'[i].state = "used" => Gone(i)' BY <1>1, <2>2 DEF DeliveryInv
  <2>6. ASSUME NEW d \in Calls, stage'[d].step = "delivering", codes'[stage'[d].code].state = "used"
        PROVE  Gone(stage[d].code)'
    <3>1. d # c BY <1>3, <1>5, <2>6
    <3>2. stage'[d] = stage[d] /\ stage[d].code \in DOMAIN codes BY <1>3, <2>1, <2>6, <3>1
    <3> QED BY <1>1, <2>2, <2>6, <3>2 DEF DeliveryInv
  <2> QED BY <1>1, <1>4, <2>3, <2>4, <2>5, <2>6 DEF DeliveryInv
<1>10. PaceInv'
  <2>1. WithinLimits BY DEF CreateOtp
  <2>2. \A i \in DOMAIN codes : codes[i].at \in Nat
    <3> TAKE i \in DOMAIN codes
    <3>1. codes[i] \in OtpRow BY <1>1 DEF TypeOK
    <3> QED BY <3>1 DEF OtpRow
  <2>3. ASSUME NEW i \in DOMAIN codes, i + MaxPerHour <= n PROVE codes[i].at + Hour < clock
    <3> DEFINE H == {j \in DOMAIN codes : codes[j].at + Hour >= clock}
    <3>1. SUFFICES ASSUME codes[i].at + Hour >= clock PROVE FALSE
      BY <1>1, <2>2 DEF TypeOK, OtpAssumption
    <3>2. \A j \in i..Len(codes) : j \in DOMAIN codes /\ codes[j].at >= codes[i].at
      BY <1>1, <1>2, <2>2 DEF PaceInv, RequestPace, OtpAssumption
    <3>3. i..Len(codes) \subseteq H BY <1>1, <2>2, <3>1, <3>2 DEF TypeOK, OtpAssumption
    <3>4. IsFiniteSet(H)
      <4>1. IsFiniteSet(DOMAIN codes) BY <1>2, FS_Interval
      <4> QED BY <4>1, FS_Subset
    <3>5. Cardinality(i..Len(codes)) <= Cardinality(H) BY <3>3, <3>4, FS_Subset
    <3>6. i \in Int /\ Len(codes) \in Int /\ ~(i > Len(codes)) BY <1>2
    <3> HIDE DEF H
    <3>7. Cardinality(i..Len(codes)) = Len(codes) - i + 1 BY <3>6, FS_Interval
    <3>8. Cardinality(H) < MaxPerHour BY <2>1 DEF WithinLimits, H
    <3>9. Cardinality(H) \in Nat BY <3>4, FS_CardinalityType
    <3> QED BY <2>3, <3>5, <3>6, <3>7, <3>8, <3>9 DEF n, OtpAssumption
  <2>4. \A i \in DOMAIN codes : i < n /\ codes[i].at + Cooldown <= clock
    BY <1>2, <2>1 DEF WithinLimits, n
  <2>5. RequestPace'
    <3> SUFFICES ASSUME NEW i \in DOMAIN codes', NEW j \in DOMAIN codes'
                 PROVE  /\ i < j => codes'[i].at + Cooldown <= codes'[j].at
                        /\ i + MaxPerHour <= j => codes'[i].at + Hour < codes'[j].at
      BY DEF RequestPace
    <3>1. CASE i \in DOMAIN codes /\ j \in DOMAIN codes
      BY <1>1, <1>5, <3>1 DEF PaceInv, RequestPace
    <3>2. CASE i \in DOMAIN codes /\ j = n BY <1>5, <2>3, <2>4, <3>2
    <3>3. CASE i = n
      <4>1. ~(i < j) /\ ~(i + MaxPerHour <= j) BY <1>2, <1>4, <3>3 DEF n, OtpAssumption
      <4> QED BY <4>1
    <3> QED BY <1>4, <3>1, <3>2, <3>3
  <2>6. \A i \in DOMAIN codes' : codes'[i].at <= clock BY <1>1, <1>4, <1>5 DEF PaceInv, TypeOK
  <2> QED BY <2>5, <2>6 DEF PaceInv
<1>11. NewestOnly'
  <2> SUFFICES ASSUME NEW i \in DOMAIN codes', NEW j \in DOMAIN codes', i < j, codes'[i].purpose = codes'[j].purpose
               PROVE  codes'[i].state = "used"
    BY DEF NewestOnly
  <2>1. i \in DOMAIN codes BY <1>2, <1>4 DEF n
  <2>2. CASE j = n BY <1>5, <2>1, <2>2
  <2>3. CASE j \in DOMAIN codes BY <1>1, <1>5, <2>1, <2>3 DEF NewestOnly
  <2> QED BY <1>4, <2>2, <2>3
<1> QED BY <1>6, <1>7, <1>8, <1>9, <1>10, <1>11 DEF Rest

\* What the steps of one call have in common.
LEMMA CallFacts ==
  ASSUME OtpInv, NEW c \in Calls, NEW s \in Steps, NEW i, NEW ok, stage' = [stage EXCEPT ![c] = CallState(s, i, ok)]
  PROVE  /\ stage'[c].step = s /\ stage'[c].code = i
         /\ \A d \in Calls : d # c => stage'[d] = stage[d]
BY DEF OtpInv, TypeOK, CallState

\* Submitted and unconfirmed codes stay; a refused one never reached the provider.
LEMMA DeliverStep ==
  ASSUME OtpAssumption, OtpInv, NEW c \in Calls, DeliverOtp(c)
  PROVE  Rest' /\ codes' \in Seq(OtpRow) /\ Len(codes') = Len(codes) /\ sent \subseteq sent' /\ sent' \subseteq Indices
<1> DEFINE m == stage[c].code
<1>1. TypeOK /\ CallsHold /\ UseInv /\ AttemptInv /\ DeliveryInv /\ PaceInv /\ NewestOnly
  BY DEF OtpInv
<1>2. /\ stage[c].step = "delivering" /\ m \in DOMAIN codes /\ m \notin sent
      /\ UNCHANGED <<clock, tries, opened, answered>>
  BY <1>1 DEF DeliverOtp, At, CallsHold, Holding, Steps, DeliveryInv
<1>3. stage'[c].step = "idle" /\ \A d \in Calls : d # c => stage'[d] = stage[d]
  <2>1. stage' = [stage EXCEPT ![c] = CallState("idle", 0, FALSE)] BY DEF DeliverOtp, Go, Idle
  <2>2. "idle" \in Steps BY DEF Steps
  <2> QED BY <2>1, <2>2, CallFacts
<1>4. DOMAIN codes \subseteq Indices
  BY <1>1 DEF TypeOK, Indices, OtpAssumption
<1>5. \/ codes' = codes /\ sent' \in {sent, sent \cup {m}}
      \/ codes' = UsedUp(m) /\ sent' = sent
  BY DEF DeliverOtp, Submit
<1>6. /\ codes' \in Seq(OtpRow) /\ Len(codes') = Len(codes) /\ DOMAIN codes' = DOMAIN codes
      /\ SameRow(codes'[m], codes[m]) /\ codes'[m].state \in {codes[m].state, "used"}
      /\ \A j \in DOMAIN codes : j # m => codes'[j] = codes[j]
  <2>1. CASE codes' = codes BY <1>1, <2>1 DEF SameRow, TypeOK
  <2>2. CASE codes' = UsedUp(m) BY <1>1, <1>2, <2>2, UsedFacts
  <2> QED BY <1>5, <2>1, <2>2
<1>7. codes' # codes => sent' = sent BY <1>5
<1>8. \A j \in DOMAIN codes :
        /\ codes'[j].purpose = codes[j].purpose /\ codes'[j].at = codes[j].at
        /\ codes'[j].attempts = codes[j].attempts
        /\ codes[j].state = "used" => codes'[j].state = "used"
  BY <1>6 DEF SameRow
<1>16. \A j : j \in DOMAIN codes' <=> j \in DOMAIN codes BY <1>6
<1>9. sent \subseteq sent' /\ sent' \subseteq sent \cup {m} BY <1>5
<1> HIDE DEF m
<1>10. CallsHold' BY <1>1, <1>3, <1>6 DEF CallsHold, Holding
<1>11. UseInv' BY <1>1, <1>2, <1>3, <1>6, <1>8 DEF UseInv, CallsHold, Admitted, Holding, Steps
<1>12. AttemptInv'
  <2>1. \A j \in Indices : Comparing(j)' = Comparing(j) BY <1>2, <1>3 DEF Comparing
  <2> QED BY <1>1, <1>2, <1>16, <1>8, <2>1 DEF AttemptInv
<1>13. DeliveryInv'
  <2>1. sent' \subseteq DOMAIN codes' BY <1>1, <1>2, <1>6, <1>9 DEF DeliveryInv
  <2>2. \A d \in Calls : stage'[d].step = "delivering" => d # c /\ stage[d].step = "delivering" /\ stage'[d].code = stage[d].code
    BY <1>3
  <2>3. \A d \in Calls : stage'[d].step = "delivering" => stage'[d].code \notin sent'
    BY <1>1, <1>2, <1>9, <2>2 DEF DeliveryInv, m
  <2>4. ASSUME NEW j \in DOMAIN codes, Gone(j) PROVE Gone(j)'
    BY <1>2, <1>16, <1>8, <2>4 DEF Gone
  <2>5. ASSUME NEW j \in sent', codes'[j].state = "used" PROVE Gone(j)'
    <3>1. j \in DOMAIN codes BY <1>6, <2>1
    <3>2. codes[j].state = "used"
      <4>1. CASE codes' = codes BY <2>5, <4>1
      <4>2. CASE codes' # codes
        <5>1. j # m BY <1>2, <1>7, <4>2
        <5> QED BY <1>6, <2>5, <3>1, <5>1
      <4> QED BY <4>1, <4>2
    <3>3. Gone(j)
      <4>1. CASE j \in sent BY <1>1, <3>2, <4>1 DEF DeliveryInv
      <4>2. CASE j = m BY <1>1, <1>2, <3>2, <4>2 DEF DeliveryInv, m
      <4> QED BY <1>9, <4>1, <4>2
    <3> QED BY <2>4, <3>1, <3>3
  <2>6. ASSUME NEW d \in Calls, stage'[d].step = "delivering", codes'[stage'[d].code].state = "used"
        PROVE  Gone(stage[d].code)'
    <3>1. /\ d # c /\ stage'[d] = stage[d] /\ stage[d].step = "delivering"
          /\ stage[d].code \in DOMAIN codes /\ stage[d].code # m
      BY <1>1, <1>2, <1>3, <2>2, <2>6 DEF DeliveryInv, CallsHold, Holding, Steps, m
    <3>2. codes[stage[d].code].state = "used" BY <1>6, <2>6, <3>1
    <3> QED BY <1>1, <2>4, <3>1, <3>2 DEF DeliveryInv
  <2>7. \A d, e \in Calls : stage'[d].step = "delivering" /\ stage'[e].step = "delivering"
          /\ stage'[d].code = stage'[e].code => d = e
    BY <1>1, <2>2 DEF DeliveryInv
  <2> QED BY <2>1, <2>3, <2>5, <2>6, <2>7 DEF DeliveryInv
<1>14. PaceInv' BY <1>1, <1>2, <1>16, <1>8 DEF PaceInv, RequestPace
<1>15. NewestOnly' BY <1>1, <1>16, <1>8 DEF NewestOnly
<1> QED BY <1>1, <1>4, <1>6, <1>9, <1>10, <1>11, <1>12, <1>13, <1>14, <1>15, <1>2 DEF Rest, TypeOK

\* An attempt is taken: the request is now one that compares.
LEMMA ReserveStep ==
  ASSUME OtpAssumption, OtpInv, NEW c \in Calls, Reserve(c), codes' # codes
  PROVE  Rest' /\ codes' \in Seq(OtpRow) /\ Len(codes') = Len(codes)
<1>0. PICK m : m = stage[c].code OBVIOUS
<1>1. TypeOK /\ CallsHold /\ UseInv /\ AttemptInv /\ DeliveryInv /\ PaceInv /\ NewestOnly
  BY DEF OtpInv
<1>2. /\ stage[c].step = "reserving" /\ m \in DOMAIN codes /\ codes[m].attempts < MaxAttempts
      /\ codes' = [codes EXCEPT ![m].attempts = @ + 1]
      /\ stage' = [stage EXCEPT ![c] = CallState("comparing", m, stage[c].right)]
      /\ UNCHANGED <<clock, sent, tries, opened, answered>>
  BY <1>0, <1>1 DEF Reserve, At, Go, CallsHold, Holding, Steps
<1>3. stage'[c].step = "comparing" /\ stage'[c].code = m /\ \A d \in Calls : d # c => stage'[d] = stage[d]
  BY <1>1, <1>2 DEF TypeOK, CallState
<1>4. /\ codes' \in Seq(OtpRow) /\ Len(codes') = Len(codes) /\ DOMAIN codes' = DOMAIN codes
      /\ codes'[m].purpose = codes[m].purpose /\ codes'[m].at = codes[m].at
      /\ codes'[m].attempts = codes[m].attempts + 1 /\ codes'[m].state = codes[m].state
      /\ \A j \in DOMAIN codes : j # m => codes'[j] = codes[j]
  BY <1>1, <1>2, TriedFacts
<1>5. \A j \in DOMAIN codes :
        codes'[j].purpose = codes[j].purpose /\ codes'[j].at = codes[j].at /\ codes'[j].state = codes[j].state
  BY <1>4
<1>6. CallsHold' BY <1>1, <1>2, <1>3, <1>4 DEF CallsHold
<1>7. UseInv'
  <2>1. \A d \in Calls : stage'[d].step \in Admitted => d # c /\ stage'[d] = stage[d] /\ stage[d].code \in DOMAIN codes
    BY <1>1, <1>3 DEF Admitted, CallsHold, Holding, Steps
  <2> QED BY <1>1, <1>2, <1>4, <1>5, <2>1 DEF UseInv
<1>8. AttemptInv'
  <2>1. c \notin Comparing(m) BY <1>2 DEF Comparing
  <2>2. Comparing(m)' = Comparing(m) \cup {c} BY <1>3 DEF Comparing
  <2>3. IsFiniteSet(Comparing(m)) BY FS_Subset DEF Comparing, OtpAssumption
  <2>4. Cardinality(Comparing(m)') = Cardinality(Comparing(m)) + 1
    BY <2>1, <2>2, <2>3, FS_AddElement
  <2>5. \A j \in Indices : j # m => Comparing(j)' = Comparing(j) BY <1>2, <1>3 DEF Comparing
  <2>6. m \in Indices BY <1>1, <1>2 DEF TypeOK, Indices, OtpAssumption
  <2>7. tries[m] + Cardinality(Comparing(m)) <= codes[m].attempts
    BY <1>1, <1>2, <2>6 DEF AttemptInv
  <2>8. tries[m] \in Nat /\ codes[m].attempts \in Nat
    <3>1. codes[m] \in OtpRow BY <1>1, <1>2 DEF TypeOK
    <3> QED BY <1>1, <2>6, <3>1 DEF TypeOK, OtpRow, OtpAssumption
  <2>9. Cardinality(Comparing(m)) \in Nat BY <2>3, FS_CardinalityType
  <2>10. tries'[m] + Cardinality(Comparing(m)') <= codes'[m].attempts
    BY <1>2, <1>4, <2>4, <2>7, <2>8, <2>9
  <2>11. ASSUME NEW j \in Indices, j # m
         PROVE  IF j \in DOMAIN codes' THEN tries'[j] + Cardinality(Comparing(j)') <= codes'[j].attempts ELSE tries'[j] = 0
    BY <1>1, <1>2, <1>4, <2>5, <2>11 DEF AttemptInv
  <2>12. m \in DOMAIN codes' BY <1>2, <1>4
  <2> QED BY <2>10, <2>11, <2>12 DEF AttemptInv
<1>9. DeliveryInv'
  <2>1. \A d \in Calls : stage'[d].step = "delivering" => d # c /\ stage'[d] = stage[d] /\ stage[d].code \in DOMAIN codes
    BY <1>1, <1>3 DEF CallsHold, Holding, Steps
  <2>2. ASSUME NEW j \in DOMAIN codes, Gone(j) PROVE Gone(j)' BY <1>2, <1>4, <1>5, <2>2 DEF Gone
  <2> QED BY <1>1, <1>2, <1>4, <1>5, <2>1, <2>2 DEF DeliveryInv
<1>10. PaceInv' BY <1>1, <1>2, <1>4, <1>5 DEF PaceInv, RequestPace
<1>11. NewestOnly' BY <1>1, <1>4, <1>5 DEF NewestOnly
<1> QED BY <1>4, <1>6, <1>7, <1>8, <1>9, <1>10, <1>11 DEF Rest

\* A comparison is made of the attempt taken for it.
LEMMA CompareStep ==
  ASSUME OtpAssumption, OtpInv, NEW c \in Calls, Compare(c)
  PROVE  Rest' /\ tries' \in [Indices -> Nat]
<1>0. PICK m : m = stage[c].code OBVIOUS
<1>1. TypeOK /\ CallsHold /\ UseInv /\ AttemptInv /\ DeliveryInv /\ PaceInv /\ NewestOnly
  BY DEF OtpInv
<1>2. /\ stage[c].step = "comparing" /\ m \in DOMAIN codes
      /\ tries' = [tries EXCEPT ![m] = @ + 1]
      /\ UNCHANGED <<clock, codes, sent, opened, answered>>
  BY <1>0, <1>1 DEF Compare, At, CallsHold, Holding, Steps
<1>3. /\ stage'[c].step \in {"consuming", "idle"} /\ (stage'[c].step = "consuming" => stage'[c].code = m)
      /\ \A d \in Calls : d # c => stage'[d] = stage[d]
  <2>1. CASE stage[c].right BY <1>0, <1>1, <2>1 DEF Compare, Go, CallState, TypeOK
  <2>2. CASE ~stage[c].right BY <1>0, <1>1, <2>2 DEF Compare, Go, CallState, Idle, TypeOK
  <2> QED BY <2>1, <2>2
<1>4. m \in Indices BY <1>1, <1>2 DEF TypeOK, Indices, OtpAssumption
<1>5. CallsHold' BY <1>1, <1>2, <1>3 DEF CallsHold, Holding, Steps
<1>6. UseInv' BY <1>1, <1>2, <1>3 DEF UseInv, Admitted
<1>7. AttemptInv'
  <2>1. c \in Comparing(m) BY <1>0, <1>2 DEF Comparing
  <2>2. Comparing(m)' = Comparing(m) \ {c} BY <1>3 DEF Comparing
  <2>3. IsFiniteSet(Comparing(m)) BY FS_Subset DEF Comparing, OtpAssumption
  <2>4. Cardinality(Comparing(m)') = Cardinality(Comparing(m)) - 1
    BY <2>1, <2>2, <2>3, FS_RemoveElement
  <2>5. \A j \in Indices : j # m => Comparing(j)' = Comparing(j) BY <1>0, <1>2, <1>3 DEF Comparing
  <2>6. tries[m] + Cardinality(Comparing(m)) <= codes[m].attempts
    BY <1>1, <1>2, <1>4 DEF AttemptInv
  <2>7. tries[m] \in Nat /\ tries'[m] = tries[m] + 1 /\ (\A j \in Indices : j # m => tries'[j] = tries[j])
    BY <1>1, <1>2, <1>4 DEF TypeOK
  <2>8. Cardinality(Comparing(m)) \in Nat BY <2>3, FS_CardinalityType
  <2>9. tries'[m] + Cardinality(Comparing(m)') <= codes'[m].attempts
    BY <1>2, <2>4, <2>6, <2>7, <2>8
  <2>10. ASSUME NEW j \in Indices, j # m
         PROVE  IF j \in DOMAIN codes' THEN tries'[j] + Cardinality(Comparing(j)') <= codes'[j].attempts ELSE tries'[j] = 0
    BY <1>1, <1>2, <2>5, <2>7, <2>10 DEF AttemptInv
  <2> QED BY <1>2, <2>9, <2>10 DEF AttemptInv
<1>8. DeliveryInv' BY <1>1, <1>2, <1>3 DEF DeliveryInv, Gone
<1>9. PaceInv' /\ NewestOnly' BY <1>1, <1>2 DEF PaceInv, RequestPace, NewestOnly
<1>10. tries' \in [Indices -> Nat] BY <1>1, <1>2, <1>4 DEF TypeOK
<1> QED BY <1>5, <1>6, <1>7, <1>8, <1>9, <1>10 DEF Rest

\* A code is consumed while it is open, so nobody has consumed it before.
LEMMA ConsumeStep ==
  ASSUME OtpAssumption, OtpInv, NEW c \in Calls, Consume(c), codes' # codes
  PROVE  Rest' /\ codes' \in Seq(OtpRow) /\ Len(codes') = Len(codes) /\ answered' \subseteq Indices
<1>0. PICK m : m = stage[c].code OBVIOUS
<1>1. TypeOK /\ CallsHold /\ UseInv /\ AttemptInv /\ DeliveryInv /\ PaceInv /\ NewestOnly
  BY DEF OtpInv
<1>2. /\ stage[c].step = "consuming" /\ m \in DOMAIN codes /\ codes[m].state = "open"
      /\ codes' = UsedUp(m) /\ answered' = answered \cup {m}
      /\ stage' = [stage EXCEPT ![c] = CallState("finding", m, TRUE)]
      /\ UNCHANGED <<clock, sent, tries, opened>>
  BY <1>0, <1>1 DEF Consume, Open, At, Go, CallsHold, Holding, Steps
<1>3. stage'[c].step = "finding" /\ stage'[c].code = m /\ \A d \in Calls : d # c => stage'[d] = stage[d]
  BY <1>1, <1>2 DEF TypeOK, CallState
<1>4. m \in Indices BY <1>1, <1>2 DEF TypeOK, Indices, OtpAssumption
<1>5. /\ codes' \in Seq(OtpRow) /\ Len(codes') = Len(codes) /\ DOMAIN codes' = DOMAIN codes
      /\ SameRow(codes'[m], codes[m]) /\ codes'[m].state = "used"
      /\ \A j \in DOMAIN codes : j # m => codes'[j] = codes[j]
  BY <1>1, <1>2, UsedFacts
<1>6. \A j \in DOMAIN codes :
        /\ codes'[j].purpose = codes[j].purpose /\ codes'[j].at = codes[j].at
        /\ codes'[j].attempts = codes[j].attempts
        /\ codes[j].state = "used" => codes'[j].state = "used"
  BY <1>5 DEF SameRow
<1>13. \A j : j \in DOMAIN codes' <=> j \in DOMAIN codes BY <1>5
<1>14. \A j \in DOMAIN codes : j # m => codes'[j].state = codes[j].state BY <1>5
<1>7. CallsHold' BY <1>1, <1>2, <1>3, <1>5 DEF CallsHold
<1>8. UseInv'
  <2>1. opened[m] = 0
    <3>1. opened[m] \in Nat /\ ~(opened[m] > 0) BY <1>1, <1>2, <1>4 DEF UseInv, TypeOK
    <3> QED BY <3>1
  <2>2. \A d \in Calls : stage[d].step \in Admitted => stage[d].code # m BY <1>1, <1>2 DEF UseInv
  <2>3. \A d \in Calls : stage[d].step \in Admitted => stage[d].code \in DOMAIN codes
    BY <1>1 DEF CallsHold, Admitted, Holding, Steps
  <2>4. \A d \in Calls : stage'[d].step \in Admitted /\ d # c => stage'[d] = stage[d] /\ stage[d].step \in Admitted
    BY <1>3
  <2>5. \A i \in Indices : opened'[i] > 0 => i \in DOMAIN codes' /\ codes'[i].state = "used"
    BY <1>1, <1>2, <1>6, <1>13 DEF UseInv
  <2>6. \A d \in Calls : stage'[d].step \in Admitted => codes'[stage'[d].code].state = "used" /\ opened'[stage'[d].code] = 0
    <3> TAKE d \in Calls
    <3>1. CASE d = c BY <1>2, <1>3, <1>5, <2>1, <3>1
    <3>2. CASE d # c
      <4> HAVE stage'[d].step \in Admitted
      <4>1. stage'[d] = stage[d] /\ stage[d].step \in Admitted /\ stage[d].code \in DOMAIN codes
        BY <2>3, <2>4, <3>2
      <4>2. codes[stage[d].code].state = "used" /\ opened[stage[d].code] = 0
        BY <1>1, <4>1 DEF UseInv
      <4> QED BY <1>2, <1>6, <4>1, <4>2
    <3> QED BY <3>1, <3>2
  <2>7. \A d, e \in Calls : stage'[d].step \in Admitted /\ stage'[e].step \in Admitted
          /\ stage'[d].code = stage'[e].code => d = e
    BY <1>1, <1>3, <2>2, <2>4 DEF UseInv
  <2> QED BY <2>5, <2>6, <2>7 DEF UseInv
<1>9. AttemptInv'
  <2>1. \A j \in Indices : Comparing(j)' = Comparing(j) BY <1>2, <1>3 DEF Comparing
  <2> QED BY <1>1, <1>2, <1>5, <1>6, <2>1 DEF AttemptInv
<1>10. DeliveryInv'
  <2>1. \A d \in Calls : stage'[d].step = "delivering" => d # c /\ stage'[d] = stage[d] /\ stage[d].code \in DOMAIN codes
    BY <1>1, <1>3 DEF CallsHold, Holding, Steps
  <2>2. ASSUME NEW j \in DOMAIN codes, Gone(j) PROVE Gone(j)' BY <1>2, <1>5, <1>6, <2>2 DEF Gone
  <2>3. Gone(m)' BY <1>2 DEF Gone
  <2>4. \A j \in sent : codes'[j].state = "used" => Gone(j)'
    BY <1>1, <1>2, <1>14, <2>2, <2>3 DEF DeliveryInv
  <2>5. ASSUME NEW d \in Calls, stage'[d].step = "delivering", codes'[stage'[d].code].state = "used"
        PROVE  Gone(stage[d].code)'
    <3>1. PICK k \in DOMAIN codes : k = stage[d].code /\ stage'[d].code = k BY <2>1, <2>5
    <3>2. CASE k = m
      <4>1. Gone(k)' BY <2>3, <3>2
      <4> QED BY <2>1, <2>3, <2>5, <3>1, <3>2 DEF Gone
    <3>3. CASE k # m
      <4>1. codes[k].state = "used" BY <1>14, <2>5, <3>1, <3>3
      <4>2. Gone(k) BY <1>1, <2>1, <2>5, <3>1, <4>1 DEF DeliveryInv
      <4>3. Gone(k)' BY <2>2, <4>2
      <4> QED BY <2>1, <2>5, <3>1, <4>3 DEF Gone
    <3> QED BY <3>2, <3>3
  <2>6. sent' \subseteq DOMAIN codes' BY <1>1, <1>2, <1>13 DEF DeliveryInv
  <2>7. ASSUME NEW d \in Calls, stage'[d].step = "delivering" PROVE stage'[d].code \notin sent'
    <3>1. stage'[d] = stage[d] /\ sent' = sent BY <1>2, <2>1, <2>7
    <3>2. stage[d].step = "delivering" => stage[d].code \notin sent BY <1>1 DEF DeliveryInv
    <3> QED BY <2>7, <3>1, <3>2
  <2>8. \A d, e \in Calls : stage'[d].step = "delivering" /\ stage'[e].step = "delivering"
          /\ stage'[d].code = stage'[e].code => d = e
    BY <1>1, <2>1 DEF DeliveryInv
  <2> QED BY <1>2, <2>4, <2>5, <2>6, <2>7, <2>8 DEF DeliveryInv
<1>11. PaceInv' BY <1>1, <1>2, <1>13, <1>6 DEF PaceInv, RequestPace
<1>12. NewestOnly' BY <1>1, <1>5, <1>6 DEF NewestOnly
<1> QED BY <1>1, <1>2, <1>4, <1>5, <1>7, <1>8, <1>9, <1>10, <1>11, <1>12 DEF Rest, TypeOK

\* Only the request that consumed the code opens a session with it.
LEMMA OpenStep ==
  ASSUME OtpAssumption, OtpInv, NEW c \in Calls, OpenSession(c)
  PROVE  Rest' /\ opened' \in [Indices -> Nat] /\ signedIn' \subseteq Indices
<1>0. PICK m : m = stage[c].code OBVIOUS
<1>1. TypeOK /\ CallsHold /\ UseInv /\ AttemptInv /\ DeliveryInv /\ PaceInv /\ NewestOnly
  BY DEF OtpInv
<1>2. /\ stage[c].step = "opening" /\ m \in DOMAIN codes
      /\ opened' = [opened EXCEPT ![m] = @ + 1] /\ signedIn' \subseteq signedIn \cup {m}
      /\ UNCHANGED <<clock, codes, sent, tries, answered>>
  BY <1>0, <1>1 DEF OpenSession, At, CallsHold, Holding, Steps
<1>3. stage'[c].step = "idle" /\ \A d \in Calls : d # c => stage'[d] = stage[d]
  BY <1>1 DEF OpenSession, Go, CallState, Idle, TypeOK
<1>4. m \in Indices BY <1>1, <1>2 DEF TypeOK, Indices, OtpAssumption
<1>5. codes[m].state = "used" /\ opened[m] = 0 BY <1>0, <1>1, <1>2 DEF UseInv, Admitted
<1>6. \A d \in Calls : d # c /\ stage[d].step \in Admitted => stage[d].code # m
  BY <1>0, <1>1, <1>2 DEF UseInv, Admitted
<1>7. opened' \in [Indices -> Nat] /\ \A j \in Indices : j # m => opened'[j] = opened[j]
  BY <1>1, <1>2, <1>4 DEF TypeOK
<1>8. CallsHold' BY <1>1, <1>2, <1>3 DEF CallsHold, Holding
<1>9. UseInv'
  <2>1. \A d \in Calls : stage'[d].step \in Admitted => d # c /\ stage'[d] = stage[d] /\ stage[d].step \in Admitted
    BY <1>3 DEF Admitted
  <2>2. \A d \in Calls : stage[d].step \in Admitted => stage[d].code \in Indices
    <3>1. \A d \in Calls : stage[d].step \in Admitted => stage[d].code \in DOMAIN codes
      BY <1>1 DEF CallsHold, Admitted, Holding, Steps
    <3>2. DOMAIN codes \subseteq Indices BY <1>1 DEF TypeOK, Indices, OtpAssumption
    <3> QED BY <3>1, <3>2
  <2> QED BY <1>1, <1>2, <1>5, <1>6, <1>7, <2>1, <2>2 DEF UseInv
<1>10. AttemptInv'
  <2>1. \A j \in Indices : Comparing(j)' = Comparing(j) BY <1>2, <1>3 DEF Comparing
  <2> QED BY <1>1, <1>2, <2>1 DEF AttemptInv
<1>11. DeliveryInv' BY <1>1, <1>2, <1>3 DEF DeliveryInv, Gone
<1>12. PaceInv' /\ NewestOnly' BY <1>1, <1>2 DEF PaceInv, RequestPace, NewestOnly
<1> QED BY <1>1, <1>2, <1>4, <1>7, <1>8, <1>9, <1>10, <1>11, <1>12 DEF Rest, TypeOK

-----------------------------------------------------------------------------
(* The invariant                                                           *)

LEMMA GoTyped ==
  ASSUME OtpInv, NEW c \in Calls, NEW s \in Steps, NEW i \in 0..MaxCodes, NEW ok \in BOOLEAN,
         stage' = [stage EXCEPT ![c] = CallState(s, i, ok)]
  PROVE  stage' \in [Calls -> CallStates]
<1>1. CallState(s, i, ok) \in CallStates BY DEF CallState, CallStates
<1> QED BY <1>1 DEF OtpInv, TypeOK

\* A request writes the calls it should, whatever it does.
LEMMA RequestInv ==
  ASSUME OtpAssumption, OtpInv, NEW c \in Calls, Request(c)
  PROVE  TypeOK' /\ Rest'
<1>1. TypeOK BY DEF OtpInv
<1>2. ASSUME NEW p \in Purposes, CreateOtp(c, p), stage[c].step \in {"idle", "registered", "recovering"},
             UNCHANGED <<clock, account, signedIn, sent, arrived, tries, opened, answered>>
      PROVE  TypeOK' /\ Rest'
  <2>1. Rest' BY <1>2, CreateStep
  <2>2. /\ codes' \in Seq(OtpRow) /\ Len(codes') <= MaxCodes /\ Len(codes) + 1 <= MaxCodes
        /\ stage' = [stage EXCEPT ![c] = CallState("delivering", Len(codes) + 1, FALSE)]
    BY <1>1, <1>2, CreateFacts
  <2>3. "delivering" \in Steps /\ Len(codes) + 1 \in 0..MaxCodes
    BY <1>1, <2>2 DEF TypeOK, Steps, OtpAssumption
  <2>4. stage' \in [Calls -> CallStates] BY <2>2, <2>3, GoTyped
  <2> QED BY <1>1, <1>2, <2>1, <2>2, <2>4 DEF TypeOK
<1>3. ASSUME NEW s \in {"idle", "registering", "registered", "recovering"},
             stage' = [stage EXCEPT ![c] = CallState(s, 0, FALSE)],
             account' \in {account, "customer"}, stage[c].step # "comparing",
             UNCHANGED <<clock, codes, signedIn, sent, arrived, tries, opened, answered>>
      PROVE  TypeOK' /\ Rest'
  <2>1. s \in Steps /\ s \notin {"comparing", "delivering"} /\ s \notin Holding /\ s \notin Admitted /\ 0 \in 0..MaxCodes
    BY DEF Steps, Holding, Admitted, OtpAssumption
  <2>2. Rest' BY <1>3, <2>1, QuietRequest
  <2>3. stage' \in [Calls -> CallStates] BY <1>3, <2>1, GoTyped
  <2> QED BY <1>1, <1>3, <2>2, <2>3 DEF TypeOK
<1>4. CASE SendOtp(c) BY <1>2, <1>4 DEF SendOtp, At, Purposes
<1>5. CASE StartMerchantRegistration(c) BY <1>3, <1>5 DEF StartMerchantRegistration, At, Go
<1>6. CASE RegisterUser(c) BY <1>3, <1>6 DEF RegisterUser, At, Go, Idle
<1>7. CASE RequestMerchantPasswordReset(c) BY <1>3, <1>7 DEF RequestMerchantPasswordReset, At, Go
<1>8. CASE Challenge(c)
  <2>1. CASE CreateOtp(c, "MERCHANT_REGISTRATION") /\ At(c, "registered")
    BY <1>2, <1>8, <2>1 DEF Challenge, At, Purposes
  <2>2. CASE CreateOtp(c, "MERCHANT_PASSWORD_RESET") /\ At(c, "recovering")
    BY <1>2, <1>8, <2>2 DEF Challenge, At, Purposes
  <2>3. CASE Go(c, Idle) /\ UNCHANGED codes /\ (At(c, "registered") \/ At(c, "recovering"))
    BY <1>3, <1>8, <2>3 DEF Challenge, At, Go, Idle
  <2> QED BY <1>8, <2>1, <2>2, <2>3 DEF Challenge
<1>9. CASE DeliverOtp(c)
  <2>1. Rest' /\ codes' \in Seq(OtpRow) /\ Len(codes') = Len(codes) /\ sent \subseteq sent' /\ sent' \subseteq Indices
    BY <1>9, DeliverStep
  <2>2. /\ stage' = [stage EXCEPT ![c] = CallState("idle", 0, FALSE)]
        /\ UNCHANGED <<clock, account, signedIn, arrived, tries, opened, answered>>
    BY <1>9 DEF DeliverOtp, Go, Idle
  <2>3. "idle" \in Steps /\ 0 \in 0..MaxCodes BY DEF Steps, OtpAssumption
  <2>4. stage' \in [Calls -> CallStates] BY <2>2, <2>3, GoTyped
  <2> QED BY <1>1, <2>1, <2>2, <2>4 DEF TypeOK
<1> QED BY <1>4, <1>5, <1>6, <1>7, <1>8, <1>9 DEF Request

LEMMA GiveBackInv ==
  ASSUME OtpAssumption, OtpInv, NEW c \in Calls, GiveBack(c)
  PROVE  TypeOK' /\ Rest'
<1>0. PICK m : m = stage[c].code OBVIOUS
<1>1. TypeOK /\ CallsHold BY DEF OtpInv
<1>2. m \in 0..MaxCodes /\ stage[c].right \in BOOLEAN /\ 0 \in 0..MaxCodes
  <2>1. stage[c] \in CallStates BY <1>1 DEF TypeOK
  <2> QED BY <1>0, <2>1 DEF CallStates, OtpAssumption
<1>3. ASSUME NEW s \in {"idle", "creating", "opening"}, NEW i \in {0, m}, NEW ok \in BOOLEAN,
             stage' = [stage EXCEPT ![c] = CallState(s, i, ok)],
             account' \in {account, "customer"}, stage[c].step # "comparing",
             s \in Admitted => stage[c].step \in Admitted /\ i = m,
             UNCHANGED <<clock, codes, signedIn, sent, arrived, tries, opened, answered>>
      PROVE  TypeOK' /\ Rest'
  <2>1. s \in Steps /\ s \notin {"comparing", "delivering"} BY DEF Steps
  <2>2. s \in Holding => s \in Admitted BY DEF Holding, Admitted, Steps
  <2>3. stage[c].step \in Admitted => m \in DOMAIN codes
    BY <1>0, <1>1 DEF CallsHold, Holding, Admitted, Steps
  <2>4. Rest' BY <1>0, <1>2, <1>3, <2>1, <2>2, <2>3, QuietRequest
  <2>5. stage' \in [Calls -> CallStates] BY <1>2, <1>3, <2>1, GoTyped
  <2> QED BY <1>1, <1>3, <2>4, <2>5 DEF TypeOK
<1>4. CASE Reserve(c)
  <2>1. CASE stage' = [stage EXCEPT ![c] = Idle] /\ codes' = codes
    BY <1>3, <1>4, <2>1 DEF Reserve, At, Idle, Admitted
  <2>2. CASE stage' = [stage EXCEPT ![c] = CallState("comparing", m, stage[c].right)] /\ codes' # codes
    <3>1. Rest' /\ codes' \in Seq(OtpRow) /\ Len(codes') = Len(codes) BY <1>4, <2>2, ReserveStep
    <3>2. "comparing" \in Steps BY DEF Steps
    <3>3. stage' \in [Calls -> CallStates] BY <1>2, <2>2, <3>2, GoTyped
    <3> QED BY <1>1, <1>4, <3>1, <3>3 DEF Reserve, TypeOK
  <2>3. CASE Open(m) /\ codes[m].attempts < MaxAttempts
    <3>1. codes' = [codes EXCEPT ![m].attempts = @ + 1] /\ stage[c].step = "reserving"
          /\ stage' = [stage EXCEPT ![c] = CallState("comparing", m, stage[c].right)]
      BY <1>0, <1>4, <2>3 DEF Reserve, Go, At
    <3>2. m \in DOMAIN codes BY <1>0, <1>1, <3>1 DEF CallsHold, Holding, Steps
    <3>3. codes'[m].attempts = codes[m].attempts + 1 BY <1>1, <2>3, <3>1, <3>2, TriedFacts
    <3>4. codes[m] \in OtpRow BY <1>1, <3>2 DEF TypeOK
    <3>5. codes[m].attempts \in Nat BY <3>4 DEF OtpRow, OtpAssumption
    <3>6. codes' # codes BY <3>3, <3>5
    <3> QED BY <2>2, <3>1, <3>6
  <2>4. CASE ~(Open(m) /\ codes[m].attempts < MaxAttempts)
    BY <1>0, <1>4, <2>1, <2>4 DEF Reserve, Go
  <2> QED BY <2>3, <2>4
<1>5. CASE Compare(c)
  <2>1. Rest' /\ tries' \in [Indices -> Nat] BY <1>5, CompareStep
  <2>2. stage' \in [Calls -> CallStates]
    <3>1. "idle" \in Steps /\ "consuming" \in Steps BY DEF Steps
    <3>2. \/ stage' = [stage EXCEPT ![c] = CallState("idle", 0, FALSE)]
          \/ stage' = [stage EXCEPT ![c] = CallState("consuming", m, TRUE)]
      BY <1>0, <1>5 DEF Compare, Go, Idle
    <3> QED BY <1>2, <3>1, <3>2, GoTyped
  <2> QED BY <1>1, <1>5, <2>1, <2>2 DEF Compare, TypeOK
<1>6. CASE Consume(c)
  <2>1. CASE stage' = [stage EXCEPT ![c] = Idle] /\ codes' = codes /\ answered' = answered
    BY <1>3, <1>6, <2>1 DEF Consume, At, Idle, Admitted
  <2>2. CASE Open(m)
    <3>1. codes' = UsedUp(m) /\ stage[c].step = "consuming"
          /\ stage' = [stage EXCEPT ![c] = CallState("finding", m, TRUE)]
      BY <1>0, <1>6, <2>2 DEF Consume, Go, At
    <3>2. m \in DOMAIN codes BY <1>0, <1>1, <3>1 DEF CallsHold, Holding, Steps
    <3>3. codes'[m].state = "used" BY <1>1, <3>1, <3>2, UsedFacts
    <3>4. codes' # codes BY <2>2, <3>3 DEF Open
    <3>5. Rest' /\ codes' \in Seq(OtpRow) /\ Len(codes') = Len(codes) /\ answered' \subseteq Indices
      BY <1>6, <3>4, ConsumeStep
    <3>6. "finding" \in Steps BY DEF Steps
    <3>7. stage' \in [Calls -> CallStates] BY <1>2, <3>1, <3>6, GoTyped
    <3> QED BY <1>1, <1>6, <3>5, <3>7 DEF Consume, TypeOK
  <2>3. CASE ~Open(m) BY <1>0, <1>6, <2>1, <2>3 DEF Consume, Go
  <2> QED BY <2>2, <2>3
<1>7. CASE FindUser(c)
  <2>1. PICK s \in {"creating", "opening"} : stage' = [stage EXCEPT ![c] = CallState(s, m, TRUE)]
    BY <1>0, <1>7 DEF FindUser, Go
  <2> QED BY <1>0, <1>3, <1>7, <2>1 DEF FindUser, At, Admitted
<1>8. CASE CreateUser(c)
  <2>1. CASE account = "none" BY <1>0, <1>3, <1>8, <2>1 DEF CreateUser, Go, At, Admitted
  <2>2. CASE account # "none" BY <1>0, <1>3, <1>8, <2>2 DEF CreateUser, Go, At, Admitted, Idle
  <2> QED BY <2>1, <2>2
<1>9. CASE OpenSession(c)
  <2>1. Rest' /\ opened' \in [Indices -> Nat] /\ signedIn' \subseteq Indices BY <1>9, OpenStep
  <2>2. stage' \in [Calls -> CallStates]
    <3>1. "idle" \in Steps BY DEF Steps
    <3> QED BY <1>2, <1>9, <3>1, GoTyped DEF OpenSession, Go, Idle
  <2> QED BY <1>1, <1>9, <2>1, <2>2 DEF OpenSession, TypeOK
<1> QED BY <1>4, <1>5, <1>6, <1>7, <1>8, <1>9 DEF GiveBack

LEMMA OtpInvHolds == OtpSpec => []OtpInv
<1> USE OtpAssumption
<1>1. OtpInit => OtpInv
  <2> SUFFICES ASSUME OtpInit PROVE OtpInv OBVIOUS
  <2>1. codes = << >> /\ DOMAIN codes = {} /\ Len(codes) = 0 /\ codes \in Seq(OtpRow) BY DEF OtpInit
  <2>2. TypeOK
    <3>1. Idle \in CallStates BY DEF Idle, CallState, CallStates, Steps, OtpAssumption
    <3> QED BY <2>1, <3>1 DEF OtpInit, TypeOK, OtpAssumption
  <2>3. \A c \in Calls : stage[c].step = "idle" BY DEF OtpInit, Idle, CallState
  <2>4. CallsHold /\ UseInv BY <2>1, <2>3 DEF CallsHold, UseInv, Holding, Admitted, OtpInit
  <2>5. AttemptInv BY <2>1 DEF AttemptInv, OtpInit
  <2>6. DeliveryInv BY <2>1, <2>3 DEF DeliveryInv, OtpInit
  <2>7. PaceInv /\ NewestOnly BY <2>1 DEF PaceInv, RequestPace, NewestOnly
  <2> QED BY <2>2, <2>4, <2>5, <2>6, <2>7 DEF OtpInv
<1>2. OtpInv /\ [OtpNext]_otpVars => OtpInv'
  <2> SUFFICES ASSUME OtpInv, [OtpNext]_otpVars PROVE TypeOK' /\ Rest' BY DEF OtpInv, Rest
  <2>1. TypeOK BY DEF OtpInv
  <2>2. ASSUME NEW c \in Calls, Request(c) PROVE TypeOK' /\ Rest' BY <2>2, RequestInv
  <2>3. ASSUME NEW c \in Calls, GiveBack(c) PROVE TypeOK' /\ Rest' BY <2>3, GiveBackInv
  <2>4. ASSUME NEW c \in Calls, NEW p \in Purposes, NEW i \in DOMAIN codes, NEW ok \in BOOLEAN, Give(c, p, i, ok)
        PROVE  TypeOK' /\ Rest'
    <3>1. "reserving" \in Steps /\ "reserving" \notin Admitted /\ i \in 0..MaxCodes
      BY <2>1 DEF Steps, Admitted, TypeOK, OtpAssumption
    <3>2. stage' = [stage EXCEPT ![c] = CallState("reserving", i, ok)] BY <2>4 DEF Give, Go
    <3>3. Rest' BY <2>4, <3>1, <3>2, QuietRequest DEF Give, At
    <3>4. stage' \in [Calls -> CallStates] BY <3>1, <3>2, GoTyped
    <3> QED BY <2>1, <2>4, <3>3, <3>4 DEF Give, TypeOK
  <2>5. ASSUME NEW i \in Indices, Arrive(i) PROVE TypeOK' /\ Rest'
    <3>1. clock' \in Nat /\ clock <= clock' BY <2>1, <2>5 DEF Arrive, TypeOK
    <3>2. Rest' BY <2>5, <3>1, WorldStep DEF Arrive
    <3> QED BY <2>1, <2>5, <3>2 DEF Arrive, TypeOK
  <2>6. CASE Onboard
    <3>1. clock' \in Nat /\ clock <= clock' BY <2>1, <2>6 DEF Onboard, TypeOK
    <3>2. Rest' BY <2>6, <3>1, WorldStep DEF Onboard
    <3> QED BY <2>1, <2>6, <3>2 DEF Onboard, TypeOK
  <2>7. CASE Tick
    <3>1. clock' \in Nat /\ clock <= clock' BY <2>1, <2>7 DEF Tick, TypeOK
    <3>2. Rest' BY <2>7, <3>1, WorldStep DEF Tick
    <3> QED BY <2>1, <2>7, <3>1, <3>2 DEF Tick, TypeOK
  <2>8. CASE UNCHANGED otpVars
    <3>1. clock' \in Nat /\ clock <= clock' BY <2>1, <2>8 DEF otpVars, TypeOK
    <3>2. Rest' BY <2>8, <3>1, WorldStep DEF otpVars
    <3> QED BY <2>1, <2>8, <3>2 DEF otpVars, TypeOK
  <2> QED BY <2>2, <2>3, <2>4, <2>5, <2>6, <2>7, <2>8 DEF OtpNext
<1> QED BY <1>1, <1>2, PTL DEF OtpSpec

\* TypeOK: the table and the calls keep their shape.
THEOREM TypeCorrect == OtpSpec => []TypeOK
<1>1. OtpInv => TypeOK BY DEF OtpInv
<1> QED BY <1>1, OtpInvHolds, PTL

\* SingleUse: a code opens one session or sets one password, however many
\* requests give it back at once.
THEOREM OtpSingleUse == OtpSpec => []SingleUse
<1>1. OtpInv /\ [OtpNext]_otpVars /\ SingleUse => SingleUse'
  <2> SUFFICES ASSUME OtpInv, [OtpNext]_otpVars, SingleUse PROVE SingleUse' OBVIOUS
  <2>1. TypeOK /\ CallsHold /\ UseInv BY DEF OtpInv
  <2>2. CASE opened' = opened BY <2>2 DEF SingleUse
  <2>3. ASSUME NEW c \in Calls, OpenSession(c) PROVE SingleUse'
    <3>1. PICK m : m = stage[c].code OBVIOUS
    <3>2. stage[c].step = "opening" /\ opened' = [opened EXCEPT ![m] = @ + 1]
      BY <2>3, <3>1 DEF OpenSession, At
    <3>3. opened[m] = 0 BY <2>1, <3>1, <3>2 DEF UseInv, Admitted
    <3> QED BY <2>1, <3>2, <3>3 DEF SingleUse, TypeOK
  <2>4. (\E c \in Calls : OpenSession(c)) \/ opened' = opened
    BY DEF OtpNext, otpVars, Request, GiveBack, SendOtp, StartMerchantRegistration, RegisterUser,
           RequestMerchantPasswordReset, Challenge, DeliverOtp, Give, Reserve, Compare, Consume, FindUser,
           CreateUser, Arrive, Onboard, Tick
  <2> QED BY <2>2, <2>3, <2>4
<1>2. OtpInit => SingleUse BY DEF OtpInit, SingleUse
<1> QED BY <1>1, <1>2, OtpInvHolds, PTL DEF OtpSpec

\* AttemptsBounded: a comparison has its attempt, taken before it.
THEOREM OtpAttempts == OtpSpec => []AttemptsBounded
<1>1. OtpInv => AttemptsBounded
  <2> SUFFICES ASSUME OtpInv, NEW i \in Indices PROVE tries[i] <= MaxAttempts
    BY DEF AttemptsBounded
  <2>1. tries[i] \in Nat BY DEF OtpInv, TypeOK
  <2>2. CASE i \in DOMAIN codes
    <3>1. tries[i] + Cardinality(Comparing(i)) <= codes[i].attempts BY <2>2 DEF OtpInv, AttemptInv
    <3>2. codes[i] \in OtpRow BY <2>2 DEF OtpInv, TypeOK
    <3>3. codes[i].attempts \in 0..MaxAttempts BY <3>2 DEF OtpRow
    <3>4. IsFiniteSet(Comparing(i)) BY OtpAssumption, FS_Subset DEF Comparing, OtpAssumption
    <3>5. Cardinality(Comparing(i)) \in Nat BY <3>4, FS_CardinalityType
    <3> QED BY <2>1, <3>1, <3>3, <3>5, OtpAssumption DEF OtpAssumption
  <2>3. CASE i \notin DOMAIN codes
    <3>1. tries[i] = 0 BY <2>3 DEF OtpInv, AttemptInv
    <3> QED BY <3>1, OtpAssumption DEF OtpAssumption
  <2> QED BY <2>2, <2>3
<1> QED BY <1>1, OtpInvHolds, PTL

\* RequestPace: the limits are checked under the number's lock.
THEOREM OtpPaceKept == OtpSpec => []RequestPace
<1>1. OtpInv => RequestPace BY DEF OtpInv, PaceInv
<1> QED BY <1>1, OtpInvHolds, PTL

\* NewestOnly: a resend uses up the older codes of its purpose.
THEOREM OtpNewest == OtpSpec => []NewestOnly
<1>1. OtpInv => NewestOnly BY DEF OtpInv
<1> QED BY <1>1, OtpInvHolds, PTL

\* ArrivedCodeWorks: only a refused code is withdrawn, and it never arrives.
THEOREM OtpArrived == OtpSpec => []ArrivedCodeWorks
<1>1. OtpInv => ArrivedCodeWorks BY DEF OtpInv, TypeOK, DeliveryInv, Gone, ArrivedCodeWorks
<1> QED BY <1>1, OtpInvHolds, PTL
=============================================================================
