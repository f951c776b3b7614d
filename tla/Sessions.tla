------------------------------- MODULE Sessions -------------------------------
(***************************************************************************)
(* The server's side of a signed-in device: AuthService's sessions (one    *)
(* refresh-token row each) and the push registrations that belong to them. *)
(* Every operation is one SERIALIZABLE transaction, so one action; the     *)
(* clients' modules say which calls arrive, when, and in which order.      *)
(*                                                                         *)
(* Sessions are numbered in the order of createdAt.  An access token names *)
(* its session and is good only while that session is live, so a client's  *)
(* pair of tokens is the session's number.  Roles and audiences are left   *)
(* out: a user has one role, and a registration's audience follows it.     *)
(* A user's status is left out too; SignOutEverywhere is what suspending   *)
(* or deleting the account does to its sessions.                           *)
(***************************************************************************)
EXTENDS Naturals, Sequences

CONSTANTS
  Users,
  Devices,      \* push credentials: Expo tokens, or browser endpoints
  MaxSession,   \* bound: sessions ever issued
  None

ASSUME SessionsAssumption == None \notin Users /\ MaxSession \in Nat

VARIABLES
  sessions,   \* Seq([user, login, state]); login: the sign-in it descends from
  token,      \* [Devices -> the PushToken or WebPushSubscription row: [user, stamp]]
  latest      \* [Devices -> the latest event of the registration's history]

serverVars == <<sessions, token, latest>>

Issued == 1 .. Len(sessions)
Room == Len(sessions) < MaxSession
Live(s) == s \in Issued /\ sessions[s].state = "LIVE"

\* No row, and no event: every reader treats an absent event as a revoked one.
NoToken == [user |-> None, stamp |-> 0]
NoEvent == [owner |-> None, session |-> 0, action |-> "REVOKE"]

InitServer ==
  /\ sessions = <<>>
  /\ token = [d \in Devices |-> NoToken]
  /\ latest = [d \in Devices |-> NoEvent]

-----------------------------------------------------------------------------
(* Registrations                                                           *)

Registered(d) == latest[d].action # "REVOKE"

\* The rows an operation of session s may touch: s made the latest registration.
Holds(d, s) ==
  /\ token[d].user = sessions[s].user
  /\ Registered(d)
  /\ latest[d].owner = sessions[s].user
  /\ latest[d].session = s

Revoked(d) == [latest[d] EXCEPT !.action = "REVOKE"]

\* ExpoPushService.saveToken compares the row's stamp; both channels then go
\* through registerForSession.
StampAllows(d, s) == token[d] # NoToken => token[d].stamp <= s

\* A bug: only the owners are compared.
WrongMayRegister(d, s) ==
  Registered(d) => (token[d] # NoToken => latest[d].owner = token[d].user)

MayRegister(d, s) ==
  Registered(d) =>
    /\ token[d] # NoToken => latest[d].owner = token[d].user
    /\ latest[d].session # s => latest[d].session < s

Register(d, s) ==
  /\ token' = [token EXCEPT ![d] = [user |-> sessions[s].user, stamp |-> s]]
  /\ latest' = [latest EXCEPT ![d] =
                  [owner |-> sessions[s].user, session |-> s, action |-> "REGISTER"]]
  /\ UNCHANGED sessions

\* removeToken, unsubscribe
Unregister(d, s) ==
  /\ token' = [token EXCEPT ![d] = IF Holds(d, s) THEN NoToken ELSE @]
  /\ latest' = [latest EXCEPT ![d] = IF Holds(d, s) THEN Revoked(d) ELSE @]
  /\ UNCHANGED sessions

\* Whether a message for user u may be sent to device d.
CanReceive(d, u) ==
  /\ token[d].user = u
  /\ Registered(d)
  /\ latest[d].owner = u
  /\ Live(latest[d].session)

\* A bug: the answer is taken as evidence about whoever has the device now.
WrongPrune(d, sent) ==
  /\ token' = [token EXCEPT ![d] = NoToken]
  /\ latest' = [latest EXCEPT ![d] = Revoked(d)]
  /\ UNCHANGED sessions

\* pruneFailedRegistration: the provider says the credential of `sent` is gone.
Prune(d, sent) ==
  LET same == token[d].user = sent.owner /\ latest[d] = sent IN
  /\ token' = [token EXCEPT ![d] = IF same THEN NoToken ELSE @]
  /\ latest' = [latest EXCEPT ![d] = IF same THEN Revoked(d) ELSE @]
  /\ UNCHANGED sessions

-----------------------------------------------------------------------------
(* Sessions                                                                *)

\* issueTokens
Issue(u) ==
  /\ Room
  /\ sessions' = Append(sessions, [user |-> u, login |-> Len(sessions) + 1, state |-> "LIVE"])
  /\ UNCHANGED <<token, latest>>

\* transferRegistrations, part of the rotation
Transferred(s, next) ==
  [d \in Devices |-> IF Holds(d, s)
                     THEN [latest[d] EXCEPT !.session = next, !.action = "TRANSFER"]
                     ELSE latest[d]]

\* refreshTokens: the row is claimed, its successor issued, its registrations moved.
Rotate(s) ==
  /\ Live(s) /\ Room
  /\ sessions' = Append([sessions EXCEPT ![s].state = "REVOKED"],
                        [sessions[s] EXCEPT !.state = "LIVE"])
  /\ latest' = Transferred(s, Len(sessions) + 1)
  /\ UNCHANGED token

\* logout: a session already revoked is left alone, and so is its successor.
EndSession(s) ==
  LET open == sessions[s].state # "REVOKED" IN
  /\ sessions' = [sessions EXCEPT ![s].state = "REVOKED"]
  /\ token' = [d \in Devices |-> IF open /\ Holds(d, s) THEN NoToken ELSE token[d]]
  /\ latest' = [d \in Devices |-> IF open /\ Holds(d, s) THEN Revoked(d) ELSE latest[d]]

\* expiresAt passes.
Lapse(s) ==
  /\ Live(s)
  /\ sessions' = [sessions EXCEPT ![s].state = "LAPSED"]
  /\ UNCHANGED <<token, latest>>

\* setUserStatus, deleteAccount: the registrations are left to CanReceive.
SignOutEverywhere(u) ==
  /\ \E s \in Issued : Live(s) /\ sessions[s].user = u
  /\ sessions' = [s \in Issued |-> IF sessions[s].user = u
                                   THEN [sessions[s] EXCEPT !.state = "REVOKED"]
                                   ELSE sessions[s]]
  /\ UNCHANGED <<token, latest>>

-----------------------------------------------------------------------------
ServerTypeOK ==
  /\ sessions \in Seq([user : Users, login : 1..MaxSession,
                       state : {"LIVE", "REVOKED", "LAPSED"}])
  /\ Len(sessions) <= MaxSession
  /\ token \in [Devices -> [user : Users \cup {None}, stamp : 0..MaxSession]]
  /\ latest \in [Devices -> [owner : Users \cup {None}, session : 0..MaxSession,
                             action : {"REGISTER", "TRANSFER", "REVOKE"}]]

\* A registered device is never taken over by an older session, however late
\* its request arrives (saveToken's and registerForSession's conflicts).
NewerSessionKeepsDevice ==
  [][\A d \in Devices :
       Registered(d) /\ Registered(d)' => latest'[d].session >= latest[d].session]_serverVars
=============================================================================
