--------------------------- MODULE AcceptanceTimer ---------------------------
(***************************************************************************)
(* The two timers of OrdersService that answer for people who do not:      *)
(* expireUnacceptedOrders rejects an order its shop left unanswered, and   *)
(* expirePendingOrderRevisions closes a proposal its customer left         *)
(* unanswered.  While a proposal is open the shop cannot act, so a closed  *)
(* one gives the shop its acceptance window again.                         *)
(*                                                                         *)
(* A sweep reads its candidates once and then works through them, one      *)
(* transaction each, while everybody else goes on; its notion of "now" is  *)
(* the moment it began.  Time stamps are kept as the ticks passed since,   *)
(* cut off where no comparison in the code can tell them apart, so that    *)
(* time never ends.                                                        *)
(***************************************************************************)
EXTENDS Naturals, FiniteSets

CONSTANTS
  Orders,
  Sweepers,     \* acceptance sweeps that may overlap (setInterval does not wait)
  Timeout,      \* MERCHANT_ACCEPT_TIMEOUT_MINUTES, in ticks
  Configured,   \* ORDER_REVISION_APPROVAL_MINUTES, in ticks, as configured
  MaxApproval,  \* the day it is limited to
  Batch,        \* how many candidates one acceptance sweep takes
  MaxLag,       \* bound: ticks a sweep takes to finish
  MaxProposals  \* bound: proposals per order

ASSUME TimerAssumption ==
  /\ Timeout \in Nat \ {0} /\ Configured \in Nat /\ MaxApproval \in Nat \ {0} /\ Batch \in Nat \ {0}
  /\ MaxLag \in Nat /\ MaxProposals \in Nat

VARIABLES
  status,    \* "none", then "sent" to the shop, then how it left that state
  age,       \* ticks since createdAt
  revision,  \* "NONE", "PENDING" or "RESOLVED", the latest proposal
  proposals, \* its number
  left,      \* ticks until its expiresAt
  since,     \* ticks since the latest resolvedAt
  open,      \* history: ticks the order has lately been the shop's to decide
  sweep,     \* [Sweepers -> [lag, todo]], acceptance sweeps
  expiry     \* [lag, todo], the revision sweep

orderVars == <<status, age, revision, proposals, left, since, open>>
vars == <<orderVars, sweep, expiry>>

\* At least a minute, at most a day, for the customer to consider a proposal.
Approval ==
  IF Configured < 1 THEN 1
  ELSE IF Configured > MaxApproval THEN MaxApproval ELSE Configured

LongAgo == Timeout + MaxLag + 1
Older(t, bound) == IF t < bound THEN t + 1 ELSE bound

Idle == [lag |-> 0, todo |-> {}]

Init ==
  /\ status = [o \in Orders |-> "none"]
  /\ age = [o \in Orders |-> 0]
  /\ revision = [o \in Orders |-> "NONE"]
  /\ proposals = [o \in Orders |-> 0]
  /\ left = [o \in Orders |-> 0]
  /\ since = [o \in Orders |-> LongAgo]
  /\ open = [o \in Orders |-> 0]
  /\ sweep = [w \in Sweepers |-> Idle]
  /\ expiry = Idle

-----------------------------------------------------------------------------
(* Customers and shops                                                     *)

\* placeOrder
Place(o) ==
  /\ status[o] = "none"
  /\ status' = [status EXCEPT ![o] = "sent"]
  /\ UNCHANGED <<age, revision, proposals, left, since, open, sweep, expiry>>

\* accept and reject, both refused during a proposal.
Answer(o) ==
  /\ status[o] = "sent" /\ revision[o] # "PENDING"
  /\ status' = [status EXCEPT ![o] = "answered"]
  /\ UNCHANGED <<age, revision, proposals, left, since, open, sweep, expiry>>

\* cancelByCustomer and cancelByAdmin leave an open proposal open.
Cancel(o) ==
  /\ status[o] = "sent"
  /\ status' = [status EXCEPT ![o] = "cancelled"]
  /\ UNCHANGED <<age, revision, proposals, left, since, open, sweep, expiry>>

\* createRevision
Propose(o) ==
  /\ status[o] = "sent" /\ revision[o] # "PENDING"
  /\ proposals[o] < MaxProposals
  /\ revision' = [revision EXCEPT ![o] = "PENDING"]
  /\ proposals' = [proposals EXCEPT ![o] = @ + 1]
  /\ left' = [left EXCEPT ![o] = Approval]
  /\ UNCHANGED <<status, age, since, open, sweep, expiry>>

\* The proposal is closed with a resolvedAt of `ago' ticks ago.
Close(o, ago) ==
  /\ revision' = [revision EXCEPT ![o] = "RESOLVED"]
  /\ left' = [left EXCEPT ![o] = 0]
  /\ since' = [since EXCEPT ![o] = ago]
  /\ open' = [open EXCEPT ![o] = 0]

\* respondToRevision: a yes, a no, or an answer that came too late.
Respond(o) ==
  /\ revision[o] = "PENDING"
  /\ Close(o, 0)
  /\ UNCHANGED <<status, age, proposals, sweep, expiry>>

-----------------------------------------------------------------------------
(* expireUnacceptedOrders                                                  *)

\* Wrong: leaves out every order that was ever under revision.
StaleNeverRevised(o) == status[o] = "sent" /\ age[o] > Timeout /\ revision[o] = "NONE"

\* The candidates of the findMany: created before the cutoff.
Stale(o) == status[o] = "sent" /\ age[o] > Timeout

StartSweep(w, batch) ==
  /\ sweep[w].todo = {}
  /\ batch # {} /\ \A o \in batch : Stale(o)
  /\ \/ Cardinality(batch) = Batch
     \/ Cardinality(batch) < Batch /\ \A o \in Orders \ batch : ~Stale(o)
  /\ sweep' = [sweep EXCEPT ![w] = [lag |-> 0, todo |-> batch]]
  /\ UNCHANGED <<orderVars, expiry>>

\* Wrong: the shop's new window after a proposal is forgotten.
MayTimeOutUnwindowed(w, o) == status[o] = "sent" /\ revision[o] # "PENDING"

\* The latest resolvedAt is before the sweep's cutoff, and the write is allowed.
MayTimeOut(w, o) ==
  /\ since[o] > Timeout + sweep[w].lag
  /\ status[o] = "sent" /\ revision[o] # "PENDING"

\* One transaction of the loop; a refusal goes on with the next order.
SweepOrder(w, o) ==
  /\ o \in sweep[w].todo
  /\ status' = IF MayTimeOut(w, o) THEN [status EXCEPT ![o] = "timedOut"] ELSE status
  /\ sweep' = [sweep EXCEPT ![w].todo = @ \ {o}]
  /\ UNCHANGED <<age, revision, proposals, left, since, open, expiry>>

\* Any other error ends the sweep, and so does a restart of the API.
AbandonSweep(w) ==
  /\ sweep[w].todo # {}
  /\ sweep' = [sweep EXCEPT ![w] = Idle]
  /\ UNCHANGED <<orderVars, expiry>>

-----------------------------------------------------------------------------
(* expirePendingOrderRevisions                                             *)

\* Wrong: expires only what still waits for its shop.
ExpiredIfSent(o) == revision[o] = "PENDING" /\ left[o] = 0 /\ status[o] = "sent"

Expired(o) == revision[o] = "PENDING" /\ left[o] = 0

\* Candidates are revisions: an order may have another one by the time.
StartExpiry ==
  /\ expiry.todo = {}
  /\ \E o \in Orders : Expired(o)
  /\ expiry' = [lag  |-> 0,
                todo |-> {<<o, proposals[o]>> : o \in {q \in Orders : Expired(q)}}]
  /\ UNCHANGED <<orderVars, sweep>>

\* resolvedAt is the sweep's beginning, not this moment.
ExpireRevision(o, n) ==
  /\ <<o, n>> \in expiry.todo
  /\ IF revision[o] = "PENDING" /\ proposals[o] = n
     THEN Close(o, expiry.lag)
     ELSE UNCHANGED <<revision, left, since, open>>
  /\ expiry' = [expiry EXCEPT !.todo = @ \ {<<o, n>>}]
  /\ UNCHANGED <<status, age, proposals, sweep>>

\* An error skips one revision; a restart skips all of them.
SkipRevisions ==
  /\ expiry.todo # {}
  /\ \E rest \in SUBSET expiry.todo :
       rest # expiry.todo /\ expiry' = [expiry EXCEPT !.todo = rest]
  /\ UNCHANGED <<orderVars, sweep>>

-----------------------------------------------------------------------------
\* A running sweep has fallen behind by one more tick.
Behind(s) == IF s.todo = {} THEN Idle ELSE [s EXCEPT !.lag = @ + 1]

Tick ==
  /\ \A s \in {sweep[w] : w \in Sweepers} \cup {expiry} :
       s.todo # {} => s.lag < MaxLag
  /\ age' = [o \in Orders |->
               IF status[o] = "none" THEN 0 ELSE Older(age[o], Timeout + 1)]
  /\ left' = [o \in Orders |-> IF left[o] = 0 THEN 0 ELSE left[o] - 1]
  /\ since' = [o \in Orders |-> Older(since[o], LongAgo)]
  /\ open' = [o \in Orders |->
                IF status[o] = "sent" /\ revision[o] # "PENDING"
                THEN Older(open[o], Timeout + 1) ELSE open[o]]
  /\ sweep' = [w \in Sweepers |-> Behind(sweep[w])]
  /\ expiry' = Behind(expiry)
  /\ UNCHANGED <<status, revision, proposals>>

Next ==
  \/ \E o \in Orders : Place(o) \/ Answer(o) \/ Cancel(o) \/ Propose(o) \/ Respond(o)
  \/ \E w \in Sweepers :
       \/ \E batch \in SUBSET Orders : StartSweep(w, batch)
       \/ \E o \in Orders : SweepOrder(w, o)
       \/ AbandonSweep(w)
  \/ StartExpiry
  \/ \E o \in Orders, n \in 1..MaxProposals : ExpireRevision(o, n)
  \/ SkipRevisions
  \/ Tick

Spec == Init /\ [][Next]_vars

\* The clock runs, the intervals fire, and a transaction tried again and again
\* goes through in the end.  Nobody has to press a button.
Fairness ==
  /\ WF_vars(Tick)
  /\ WF_vars(StartExpiry)
  /\ \A o \in Orders, n \in 1..MaxProposals : SF_vars(ExpireRevision(o, n))
  /\ \A w \in Sweepers :
       /\ WF_vars(\E batch \in SUBSET Orders : StartSweep(w, batch))
       /\ \A o \in Orders : SF_vars(SweepOrder(w, o))

FairSpec == Spec /\ Fairness

-----------------------------------------------------------------------------
(* Properties                                                              *)

\* Time stamps stay within what the comparisons need; a proposal never waits
\* longer than a day, whatever was configured.
TypeOK ==
  /\ status \in [Orders -> {"none", "sent", "answered", "cancelled", "timedOut"}]
  /\ age \in [Orders -> 0..(Timeout + 1)]
  /\ revision \in [Orders -> {"NONE", "PENDING", "RESOLVED"}]
  /\ proposals \in [Orders -> 0..MaxProposals]
  /\ left \in [Orders -> 0..MaxApproval]
  /\ since \in [Orders -> 0..LongAgo]
  /\ open \in [Orders -> 0..(Timeout + 1)]
  /\ sweep \in [Sweepers -> [lag : 0..MaxLag, todo : SUBSET Orders]]
  /\ expiry \in [lag : 0..MaxLag, todo : SUBSET (Orders \X (1..MaxProposals))]

TimesOut(o) == status[o] # "timedOut" /\ status'[o] = "timedOut"

\* An order is rejected for the shop's silence only when the shop could have
\* spoken: no proposal was open, and it was the shop's to decide for more than
\* the window, less the time the revision sweep was late in closing a proposal.
HadItsWindow(o) == revision[o] # "PENDING" /\ open[o] + MaxLag > Timeout
WindowRespected == [][\A o \in Orders : TimesOut(o) => HadItsWindow(o)]_vars

\* The comment in expireUnacceptedOrders promises the shop a fresh window
\* after a decision or an expiry; the sweep stamps the expiry with its own start.
FreshWindow == [][\A o \in Orders : TimesOut(o) => open[o] >= Timeout]_vars

\* No proposal keeps its order frozen for ever, cancelled orders included.
ProposalsEnd == \A o \in Orders : revision[o] = "PENDING" ~> revision[o] # "PENDING"

\* No order waits for its shop for ever, however few a sweep takes and however
\* often it is abandoned (a shop may propose MaxProposals times).
SilenceEnds == \A o \in Orders : status[o] = "sent" ~> status[o] # "sent"
==============================================================================
