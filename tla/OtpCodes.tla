------------------------------ MODULE OtpCodes ------------------------------
(***************************************************************************)
(* One-time codes of one mobile number (apps/api/src/auth/auth.service.ts) *)
(* and their delivery through WhatsApp (whatsapp/whatsapp.service.ts).     *)
(* Several API processes serve calls for the number at once: every query   *)
(* of a call is a step, except those of createOtp, which run in one        *)
(* transaction under the number's advisory lock.                           *)
(***************************************************************************)
EXTENDS Naturals, Sequences, FiniteSets

CONSTANTS
  Calls,                       \* requests that may be in progress
  TTL, Cooldown, Hour,         \* OTP_TTL_SECONDS, ..., in ticks
  MaxAttempts, MaxPerHour,     \* OTP_MAX_ATTEMPTS, OTP_MAX_REQUESTS_PER_HOUR
  MaxTime, MaxCodes            \* bounds of the exploration

ASSUME OtpAssumption ==
  /\ IsFiniteSet(Calls)
  /\ TTL \in Nat /\ Cooldown \in Nat /\ Hour \in Nat
  /\ MaxAttempts \in Nat \ {0} /\ MaxPerHour \in Nat \ {0}
  /\ MaxTime \in Nat /\ MaxCodes \in Nat

VARIABLES
  clock,
  codes,    \* the OtpCode rows, oldest first
  account,  \* the number's User row: none, a customer, a shop's owner
  signedIn, \* codes whose session is live
  stage,    \* [Calls -> the step a request is at]
  sent,     \* codes the provider has taken
  arrived,  \* codes that reached the phone
  tries,    \* history: comparisons made with a code
  opened,   \* history: sessions opened, or passwords set, with a code
  answered  \* history: codes given back correctly, in time

otpVars == <<clock, codes, account, signedIn, stage, sent, arrived, tries, opened, answered>>

Purposes == {"LOGIN", "MERCHANT_REGISTRATION", "MERCHANT_PASSWORD_RESET"}
Indices == 1..MaxCodes
\* Steps of a call: a request for a code, then a code given back.
Steps == {"idle", "registering", "registered", "recovering", "delivering",
          "reserving", "comparing", "consuming", "finding", "creating", "opening"}
CallState(s, i, ok) == [step |-> s, code |-> i, right |-> ok]
Idle == CallState("idle", 0, FALSE)

OtpInit ==
  /\ clock = 0 /\ codes = << >>
  /\ account \in {"none", "customer", "owner"}
  /\ signedIn = {}
  /\ stage = [c \in Calls |-> Idle]
  /\ sent = {} /\ arrived = {}
  /\ tries = [i \in Indices |-> 0] /\ opened = [i \in Indices |-> 0]
  /\ answered = {}

At(c, s) == stage[c].step = s
Go(c, state) == stage' = [stage EXCEPT ![c] = state]
Expired(i) == clock > codes[i].at + TTL
Open(i) == codes[i].state = "open" /\ ~Expired(i)
Pending(p) == {i \in DOMAIN codes : codes[i].purpose = p /\ codes[i].state = "open"}

UsedUp(i) == [codes EXCEPT ![i].state = "used"]

-----------------------------------------------------------------------------
(* Requesting a code                                                       *)

\* enforceOtpRequestLimit, over every purpose.
WithinLimits ==
  /\ \A i \in DOMAIN codes : codes[i].at + Cooldown <= clock
  /\ Cardinality({i \in DOMAIN codes : codes[i].at + Hour >= clock}) < MaxPerHour

\* createOtp, whole, under the advisory lock.
CreateOtp(c, p) ==
  /\ WithinLimits /\ Len(codes) < MaxCodes
  /\ codes' = Append([i \in DOMAIN codes |->
                        IF codes[i].purpose = p THEN [codes[i] EXCEPT !.state = "used"] ELSE codes[i]],
                     [purpose |-> p, at |-> clock, attempts |-> 0, state |-> "open"])
  /\ Go(c, CallState("delivering", Len(codes) + 1, FALSE))

SendOtp(c) ==
  /\ At(c, "idle")
  /\ CreateOtp(c, "LOGIN")
  /\ UNCHANGED <<clock, account, signedIn, sent, arrived, tries, opened, answered>>

\* The limit and, for a registration, that no account has the number.
StartMerchantRegistration(c) ==
  /\ At(c, "idle") /\ WithinLimits /\ account = "none"
  /\ Go(c, CallState("registering", 0, FALSE))
  /\ UNCHANGED <<clock, codes, account, signedIn, sent, arrived, tries, opened, answered>>

\* The number is unique: the insert of a second account fails.
RegisterUser(c) ==
  /\ At(c, "registering")
  /\ IF account = "none" THEN account' = "customer" /\ Go(c, CallState("registered", 0, FALSE))
     ELSE Go(c, Idle) /\ UNCHANGED account
  /\ UNCHANGED <<clock, codes, signedIn, sent, arrived, tries, opened, answered>>

RequestMerchantPasswordReset(c) ==
  /\ At(c, "idle") /\ WithinLimits /\ account = "owner"
  /\ Go(c, CallState("recovering", 0, FALSE))
  /\ UNCHANGED <<clock, codes, account, signedIn, sent, arrived, tries, opened, answered>>

Challenge(c) ==
  /\ \/ At(c, "registered") /\ CreateOtp(c, "MERCHANT_REGISTRATION")
     \/ At(c, "recovering") /\ CreateOtp(c, "MERCHANT_PASSWORD_RESET")
     \/ At(c, "registered") /\ ~WithinLimits /\ Go(c, Idle) /\ UNCHANGED codes
     \/ At(c, "recovering") /\ ~WithinLimits /\ Go(c, Idle) /\ UNCHANGED codes
  /\ UNCHANGED <<clock, account, signedIn, sent, arrived, tries, opened, answered>>

\* What the provider makes of a submission, and whether it takes the message:
\* a timeout or an unclear answer leaves that open.
Submit(i, outcome) ==
  \/ outcome = "submitted" /\ sent' = sent \cup {i}
  \/ outcome = "unconfirmed" /\ sent' \in {sent, sent \cup {i}}
  \/ outcome = "refused" /\ UNCHANGED sent

\* Wrong: a code whose submission is not confirmed is withdrawn.
DeliverDoubtful(c) ==
  \E outcome \in {"submitted", "unconfirmed", "refused"} :
    /\ At(c, "delivering") /\ Submit(stage[c].code, outcome)
    /\ codes' = IF outcome = "submitted" THEN codes ELSE UsedUp(stage[c].code)
    /\ Go(c, Idle)
    /\ UNCHANGED <<clock, account, signedIn, arrived, tries, opened, answered>>

\* deliverOtp: a refused code is withdrawn, a doubtful one stays.
DeliverOtp(c) ==
  \E outcome \in {"submitted", "unconfirmed", "refused"} :
    /\ At(c, "delivering") /\ Submit(stage[c].code, outcome)
    /\ codes' = IF outcome = "refused" THEN UsedUp(stage[c].code) ELSE codes
    /\ Go(c, Idle)
    /\ UNCHANGED <<clock, account, signedIn, arrived, tries, opened, answered>>

\* Messages arrive late, in any order, or never.
Arrive(i) ==
  /\ i \in sent \ arrived
  /\ arrived' = arrived \cup {i}
  /\ UNCHANGED <<clock, codes, account, signedIn, stage, sent, tries, opened, answered>>

-----------------------------------------------------------------------------
(* Giving a code back                                                      *)

\* verifyOtp and resetMerchantPassword read the newest pending code of their
\* purpose, verifyMerchantRegistration the one its attempt names.
Give(c, p, i, ok) ==
  /\ At(c, "idle")
  /\ i \in Pending(p) /\ (p # "MERCHANT_REGISTRATION" => \A j \in Pending(p) : j <= i)
  /\ (p = "MERCHANT_PASSWORD_RESET" => account = "owner")
  /\ ok => i \in arrived
  /\ ~Expired(i) /\ codes[i].attempts < MaxAttempts
  /\ Go(c, CallState("reserving", i, ok))
  /\ UNCHANGED <<clock, codes, account, signedIn, sent, arrived, tries, opened, answered>>

\* Wrong: the attempts read before are trusted.
ReserveBlind(c) ==
  LET i == stage[c].code
  IN /\ At(c, "reserving")
     /\ codes' = [codes EXCEPT ![i].attempts = @ + 1]
     /\ Go(c, CallState("comparing", i, stage[c].right))
     /\ UNCHANGED <<clock, account, signedIn, sent, arrived, tries, opened, answered>>

\* consumeOtp: an attempt is taken before the comparison.
Reserve(c) ==
  LET i == stage[c].code
  IN /\ At(c, "reserving")
     /\ IF Open(i) /\ codes[i].attempts < MaxAttempts
        THEN /\ codes' = [codes EXCEPT ![i].attempts = @ + 1]
             /\ Go(c, CallState("comparing", i, stage[c].right))
        ELSE Go(c, Idle) /\ UNCHANGED codes
     /\ UNCHANGED <<clock, account, signedIn, sent, arrived, tries, opened, answered>>

Compare(c) ==
  LET i == stage[c].code
  IN /\ At(c, "comparing")
     /\ tries' = [tries EXCEPT ![i] = @ + 1]
     /\ Go(c, IF stage[c].right THEN CallState("consuming", i, TRUE) ELSE Idle)
     /\ UNCHANGED <<clock, codes, account, signedIn, sent, arrived, opened, answered>>

\* Wrong: whoever compared equal goes on.
ConsumeAnyway(c) ==
  LET i == stage[c].code
  IN /\ At(c, "consuming")
     /\ codes' = UsedUp(i)
     /\ answered' = answered \cup {i}
     /\ Go(c, CallState("finding", i, TRUE))
     /\ UNCHANGED <<clock, account, signedIn, sent, arrived, tries, opened>>

\* The code is consumed by one of those that compared equal.
Consume(c) ==
  LET i == stage[c].code
  IN /\ At(c, "consuming")
     /\ IF Open(i)
        THEN /\ codes' = UsedUp(i)
             /\ answered' = answered \cup {i}
             /\ Go(c, CallState("finding", i, TRUE))
        ELSE Go(c, Idle) /\ UNCHANGED <<codes, answered>>
     /\ UNCHANGED <<clock, account, signedIn, sent, arrived, tries, opened>>

\* A login without an account creates one; the other purposes have theirs.
FindUser(c) ==
  /\ At(c, "finding")
  /\ Go(c, CallState(IF account = "none" THEN "creating" ELSE "opening", stage[c].code, TRUE))
  /\ UNCHANGED <<clock, codes, account, signedIn, sent, arrived, tries, opened, answered>>

\* A registration may have taken the number since: the insert fails.
CreateUser(c) ==
  /\ At(c, "creating")
  /\ IF account = "none" THEN account' = "customer" /\ Go(c, CallState("opening", stage[c].code, TRUE))
     ELSE Go(c, Idle) /\ UNCHANGED account
  /\ UNCHANGED <<clock, codes, signedIn, sent, arrived, tries, opened, answered>>

\* issueTokens; or the password is set and every session of the user ended.
OpenSession(c) ==
  LET i == stage[c].code
  IN /\ At(c, "opening")
     /\ opened' = [opened EXCEPT ![i] = @ + 1]
     /\ signedIn' = IF codes[i].purpose = "MERCHANT_PASSWORD_RESET" THEN {} ELSE signedIn \cup {i}
     /\ Go(c, Idle)
     /\ UNCHANGED <<clock, codes, account, sent, arrived, tries, answered>>

-----------------------------------------------------------------------------

\* A signed-in customer opens a shop.
Onboard ==
  /\ account = "customer" /\ signedIn # {}
  /\ account' = "owner"
  /\ UNCHANGED <<clock, codes, signedIn, stage, sent, arrived, tries, opened, answered>>

Tick ==
  /\ clock < MaxTime
  /\ clock' = clock + 1
  /\ UNCHANGED <<codes, account, signedIn, stage, sent, arrived, tries, opened, answered>>

Request(c) == SendOtp(c) \/ StartMerchantRegistration(c) \/ RegisterUser(c)
                \/ RequestMerchantPasswordReset(c) \/ Challenge(c) \/ DeliverOtp(c)
GiveBack(c) == Reserve(c) \/ Compare(c) \/ Consume(c) \/ FindUser(c) \/ CreateUser(c) \/ OpenSession(c)

OtpNext ==
  \/ \E c \in Calls : Request(c) \/ GiveBack(c)
  \/ \E c \in Calls, p \in Purposes, i \in DOMAIN codes, ok \in BOOLEAN : Give(c, p, i, ok)
  \/ \E i \in Indices : Arrive(i)
  \/ Onboard \/ Tick

OtpSpec == OtpInit /\ [][OtpNext]_otpVars

-----------------------------------------------------------------------------
(* Properties                                                              *)

OtpRow == [purpose : Purposes, at : Nat, attempts : 0..MaxAttempts, state : {"open", "used"}]
CallStates == [step : Steps, code : 0..MaxCodes, right : BOOLEAN]

\* The shape of the number's rows and of the requests about it.
TypeOK ==
  /\ clock \in Nat
  /\ codes \in Seq(OtpRow) /\ Len(codes) <= MaxCodes
  /\ account \in {"none", "customer", "owner"}
  /\ signedIn \subseteq Indices
  /\ stage \in [Calls -> CallStates]
  /\ sent \subseteq Indices /\ arrived \subseteq sent
  /\ tries \in [Indices -> Nat] /\ opened \in [Indices -> Nat]
  /\ answered \subseteq Indices

\* However many requests give one code back at once, and however they
\* interleave, it opens one session or sets the password once.
SingleUse == \A i \in Indices : opened[i] <= 1

\* A code is compared with what somebody typed at most MaxAttempts times,
\* also when the attempts are made at the same moment.
AttemptsBounded == \A i \in Indices : tries[i] <= MaxAttempts

\* Whatever mix of sign-in, registration and recovery asks for codes, and on
\* however many processes, the number gets them Cooldown apart and no more
\* than MaxPerHour in any hour.
RequestPace ==
  \A i, j \in DOMAIN codes :
    /\ i < j => codes[i].at + Cooldown <= codes[j].at
    /\ i + MaxPerHour <= j => codes[i].at + Hour < codes[j].at

\* A resend leaves one code of the purpose that can be used, the newest.
NewestOnly ==
  \A i, j \in DOMAIN codes : i < j /\ codes[i].purpose = codes[j].purpose => codes[i].state = "used"

\* A message that reaches the phone, confirmed or not, holds a code that
\* still works, unless it was used, has expired or been replaced, or its
\* attempts are gone.
ArrivedCodeWorks ==
  \A i \in arrived :
    codes[i].state = "used" => \/ i \in answered
                     \/ \E j \in DOMAIN codes : j > i /\ codes[j].purpose = codes[i].purpose
=============================================================================
