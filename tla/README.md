# SirfBazar in TLA+

A formal model of the core of SirfBazar: an order from the basket to its delivery, its
refunds and the payout to the shop, with the stock, the coupons, the one-time codes and the
sessions around it, on the API (`src/apps/api/src`) and in the clients that remember
something when an answer is lost. TLC checks the modules on small instances; the TLA+ proof
system proves the most important invariants for any number of orders, riders, codes, rows
and calls.

Paths below are relative to `src/apps/api/src/` unless they start with `src/`.

## 1. The system

SirfBazar is a marketplace: customers fill one basket at several shops, shops accept and
prepare their part, riders employed by the shops deliver it and take cash, shops also sell
over the counter, and admins repair, refund and pay out. One NestJS API on PostgreSQL holds
all state; the apps (web, customer, shop, pos, rider, admin) are clients of it.

| Component | State it keeps | Operations | Hard because |
|---|---|---|---|
| Order status (`orders/order-status.service.ts`) | `Order.status`, timeline, parent roll-up | `apply`, `applyInTransaction`, `rollUpParent` | every actor writes through it; children end concurrently |
| Merchant orders (`orders/merchant-orders.service.ts`) | revisions, `Order.riderId` | accept, reject, markPreparing, markReady, assignRider, createRevision | handlers read before their transaction |
| Rider (`rider/rider.service.ts`) | `Rider.currentStatus`, `currentOrderId` | applyAsRider, arrivedAtShop, pickedUp, arrivedAtCustomer, delivered | suspension and cancellation in mid-delivery |
| Orders (`orders/orders.service.ts`) | orders, payments, quotes (signed, not stored) | quoteOrder, placeOrder, cancelBy..., respondToRevision, two timers | retries, stale quotes, sweeps beside everyone else |
| Rider profiles (`merchant/merchant-people.service.ts`, `admin/admin.service.ts`) | `Rider` row | approve, reject, activate, suspend | may hit a running delivery |
| Cart (`cart/cart.service.ts`) | active basket per customer or guest | add, update, remove, coupon, mergeGuestCart | several tabs; the merge at sign-in; lost answers |
| Coupons (`coupons/coupons.service.ts`) | coupons and their uses | validate, create, update | asked five times on the way to an order |
| Point of sale (`pos/pos.service.ts`) | sales, stock | createSale | same shelf as online orders; a clerk's retry |
| Products (`merchant/merchant-products.service.ts`) | listings, price, stock | update, bulkUpload | absolute stock writes; an import outlives the call that began it |
| Refunds (`refunds/refunds.service.ts`) | refunds, wallet, payment status | create, approve, reject, process | shares of combined orders; payouts already made |
| Settlements (`settlements/settlements.service.ts`) | payouts | generate, markPaid, hold | refunds before and after; a transaction per shop |
| One-time codes (`auth/auth.service.ts`, `whatsapp/whatsapp.service.ts`) | `OtpCode` | createOtp, deliverOtp, verifyOtp, registration, password reset | several processes; messages of unknown fate |
| Sessions and push (`auth/auth.service.ts`, `notifications/*`) | `RefreshToken`, push tokens and subscriptions, audit rows | issue, rotate, end; register, unregister, prune | late answers of clients and of push providers |
| Clients (`src/apps/customer-app`, `src/apps/web`, `src/apps/shop`) | storage of a phone or browser | sign-in, guest basket, checkout, alerts, import | crashes, tabs, calls given up that still arrive |
| Pricing, realtime, catalog, merchant accounts, support, admin lists | their rows | see `PROJECT.json` | independent rows or pure I/O |

How they interact: all of them share the database. Every write is one `serializable`
transaction (`common/transaction.ts`, three attempts on serialization failures), so a write
is atomic in the model; what is *not* atomic is a handler that looks at the database first
and writes later, a sweep or an import that works through a list it read once, and every
client, which sends a call, may give it up or die, and may find its answer overtaken. Those
are separate steps here. Fan-out to sockets runs after commit, changes none of this state
and is left out.

What makes each component correct, in short:

* status: an end is final, a status never goes back, a combined order is over exactly when
  its shop orders are, with their outcome and their cash;
* riders: order and rider rows name each other; a packed order never waits for a rider it has;
* revisions: while one is pending the order does not move, except by a cancellation; the
  totals, the cash and the shelf follow what was agreed and what came;
* timers: nobody waits for ever, nobody is blamed for a silence imposed on him;
* stock: every unit is on sale or promised to one order;
* checkout: one order per basket, on the terms approved; answers are about one's own order;
  a coupon is used within its limits;
* refunds, payouts: never more than collected, wallet and payment columns agree, a payout
  that is due or paid is exact;
* baskets: every unit once, in one basket or one order, over lost and repeated merges;
* codes: one use, bounded attempts, only the newest;
* sessions: a sign-out is never caused by a race, no earlier owner comes back; a device that
  believes it is registered is, for whoever is signed in on it;
* clients: an order that was placed is shown or written down;
* imports: a row is written once, and never over something the shop has not seen.

## 2. Modules

| Module | Models | Proved about |
|---|---|---|
| `OrderStatuses` | the vocabulary of `common/constants.ts` and the roll-up's outcome | used by the proofs |
| `CombinedOrder` | abstract: what a multi-shop checkout promises | `OrderLifecycleProofs` (implemented) |
| `OrderLifecycle` | cash-on-delivery orders, riders, revisions' opening and closing, cancellation, admin repair | `OrderLifecycleProofs` |
| `AcceptanceTimer` | the two `setInterval` sweeps | `OrderLifecycleProofs` |
| `Checkout` | basket, quote, `placeOrder`, `createSale`, stock and price edits | `PlaceOrderProofs` |
| `Coupons` | `validate` at its five moments, admins' changes, the basket's code | `PlaceOrderProofs` |
| `OrderMoney` | lines, totals, commission, stock and cash of a checkout under revision | `MoneyProofs`, with `MCMoney` |
| `RefundSettlement` | refunds, allocations, wallet, payouts | `MoneyProofs` |
| `Baskets` | `CartService` and the guest sessions | `BasketsProofs` |
| `PhoneBasket`, `WebBasket` | the customer app and the website around a guest's basket | `BasketsProofs` |
| `OtpCodes` | one-time codes of one number, and their delivery | `AuthProofs` |
| `Sessions` | refresh tokens and push registrations on the server | `AuthProofs` |
| `PhoneAlerts`, `TabSessions` | a phone and a browser that sign in, renew, register and sign out | `AuthProofs` |
| `OrderDesk` | `POST /orders`, `GET /orders/:id` as a client sees them | `RecoveryProofs` |
| `PhoneCheckout`, `WebCheckout` | the checkout of the customer app and of the website, with its note | `RecoveryProofs` |
| `ShopImport` | `bulkUpload` and the two screens of the shop that use it | `ShopImportProofs` |
| `MC...` | the worlds TLC runs them in | |
| `SumTheorems` | no code: lemmas about sums over finite sets | used by the proofs |

A server module (`Baskets`, `Sessions`, `OrderDesk`) is extended by the modules of its
clients, which say which calls arrive, when, and how often; the `MC` module instantiates the
clients over one server, and a behaviour chooses its client at the start. What another client
could do to the same rows is an action of the server or of the world (a changed basket, a
user signed out everywhere).

### OrderLifecycle

One variable per column: `status`, `paymentStatus`, `payment` (`Payment.status`, of the order
that owns the payment), `riderId`, `pickedUp` (`pickedUpAt` is set), `revision` (the latest
one's status), `rider` (approval, active, currentStatus, currentOrderId), plus
`stockReturned`, which counts how often an order's goods went back on sale, and `inFlight`,
the calls that have passed their reads outside the transaction. `ReadShopStep`,
`ReadAssignRider`, `ReadRiderStep` put a call there under the checks `ownedOrder` +
`requireStatus`, `assignRider` and `ownedActiveOrder` make; the handler's own action takes it
out again and re-checks only what its transaction re-checks (`MayApply`, `MayAssign`,
`Claim`). `Abort` is a transaction that throws or a process that dies between the two. The
acceptance sweep's rejection is such a call, too (`"expire"`). Cancellations, overrides,
revisions and profile changes read inside their transaction and are one step.
`ApplyStatus`/`ParentCash` include the roll-up, because the code calls it in the same
transaction. `accept` writes MERCHANT_ACCEPTED and PREPARING in one transaction, so the model
writes only the latter. Paid-online orders cannot exist in this version (the payment
service throws), so only the cash states occur.

Proposals have no deadline here (`ResolveRevision` may expire one at any time): the
deadlines are `AcceptanceTimer`'s subject, the lines `OrderMoney`'s.

### AcceptanceTimer

Stamps are kept as ticks since, cut off where no comparison of the code sees a difference, so
the model has finitely many states although time never ends. A sweep has a `todo` list read
at its start and a `lag`, the ticks since: its cutoff (`Date.now()` at the start) and the
revision sweep's `now` are that much older than the present. The code's strict comparisons
are kept (`createdAt < cutoff`, `resolvedAt >= cutoff`). `open` is a history variable: how
long the order has lately been the shop's to decide. `AbandonSweep` is the error that is not
a conflict and leaves the loop (`orders.service.ts:1306`), or a restart. The take limit of
the acceptance sweep is `Batch`; the revision sweep's limit (100, by deadline) is not reached
with the numbers checked.

### Checkout and Coupons

An `attempt` is one HTTP call with a step for each thing it does: the look for an existing
order, the quote check, reading the basket, reading the listings, the transaction, and the
look after a failure. `call` is what the client sent; `Resend` sends the same call again, also
while the first one runs. The offer of an order is quantities and unit prices; fees, distance
and the split into shop orders are functions of the same reads and are part of it. A sale of
`createSale` takes the same stock with its own checks. `goods` is history: the units the shop
entered, promised ones included.

`Coupons` follows the same call for its other scarce thing. `CheckQuote`, `ReadCart`,
`ReadCoupon` and `PlaceOrder` are the moments the code asks `validate` or reads the basket's
code; between them an admin may edit the coupon, others may use it up, and the basket's code
may change. `granted` is history: the highest limits the coupon ever had. The two modules share no row
but the basket, so `MCPlaceOrder` chooses one of them at the start.

### OrderMoney and RefundSettlement

`OrderMoney` has the shop orders of one checkout with their lines, `revision` with the
proposed changes and the totals shown, the combined order's own row, the shelf and the
payment. `Propose`, `Approve`, `Decline`, `Expire`, `PickUp`, `Deliver` and `Cancel` are whole
handlers with `recomputeOrderTotals`; `Approve` refuses when a shop order's or the combined
total no longer is what the customer saw. `agreed` is history: what the customer's last decision
or a cancellation left him to pay.

In `RefundSettlement` `Cap`, `Available`, `Allocation` are the loops of `context` and
`allocate`: a waterfall over the shop orders by id, in closed form with prefix sums. `Pay`
is `complete`, with the settlements it puts on hold, the wallet, the payment and the shop
orders' payment status. `StartGenerate`, `GenerateFor`, `EndGenerate` are `generate`, one
transaction per shop, which answers a conflict at a shop with nothing payable after earlier
shops were committed. The money a checkout leaves behind is `books`: what its delivered orders
were worth and earned, and what was collected. `RefundSettlement` may start with any such books
and nothing given back yet (`Opened`). `MCMoney` extends both modules: `CloseBooks` is the moment a
checkout is over and collected, and what `OrderMoney` worked out opens the books, together with
those of an earlier order of the first shop.

### Baskets, PhoneBasket, WebBasket

Every operation of `CartService` locks the owners it touches and is one action of `Baskets`.
`session` is a guest's session and what became of it (`claimedByCustomerId`, expiry), `basket` the units of each
owner. `PhoneBasket` is `src/apps/customer-app/lib/api.ts`: the guest token and the note of a
pending merge in the phone's storage, over restarts; one merge at a time, given up after its
time-out although it may still arrive. `WebBasket` is `src/apps/web/lib/api.ts`: tabs that share
localStorage, two epochs that make a call's answer stale, and the Web Lock around the creation
of a guest session, which some browsers lack (`hasLocks`).

An order from the phone is one step of `PhoneBasket` if its answer comes. A new one asks for a pending
merge first (`MayOrder`); its answer may stay away (`LoseOrder`, `lost`), and then it may arrive later,
be asked after, or be sent again by `recoverCheckout`, which asks for no merge: its panel is shown
before the merge's. So `OrderTakesGuestItems` has two clauses. No new order leaves behind the goods its
customer signed in with. An earlier one that is sent again, or arrives late, may, but the note that they
are to be merged is still there.

### OtpCodes

`stage` holds, of each request that serves the number, the step it is at, one for each query it makes
outside a transaction: the early limit check, `createOtp` (one transaction under the number's
advisory lock), the delivery by the WhatsApp service with its accepted, refused and doubtful
outcomes, the reservation of an attempt, the comparison, the consumption, the user and the session.
The clock ticks; cooldown, hourly cap and lifetime are constants.

### Sessions, PhoneAlerts, TabSessions

A session is one refresh-token row; sessions are numbered in the order of `createdAt`, because
`NotificationRegistration` compares these stamps. `token` is the row of a push token or
subscription, `latest` the newest audit row about a device, which decides whether a
registration may overtake an unregistration. `PhoneAlerts` has the calls on their way with the
generation (`authVersion`) they belong to, and the push provider's late answers; `TabSessions`
has the record in localStorage, renewals under the Web Lock, and the calls of the page that
may be lost.

### OrderDesk, PhoneCheckout, WebCheckout

`OrderDesk` has the calls in `mail`: looked up, placed or refused, and answered, with an owner
that may have stopped listening. It is the coarse view of `Checkout` that a client has. The
clients write a note before they send (`record`) and clear it by the answer; `PhoneCheckout` keeps
one note per account, `WebCheckout` one per browser. On the phone looking at the note, writing it and
sending are steps of their own, between which another screen may act. An answer that comes after the
session changed is an error (`fresh`), whatever it says. `fate` is history: of each request, whether
its client was told, whether it was sent while another call of it was at work (`doubled`), and whether
the code then lost track of it (`astray`); `crowded` are the accounts of which one screen of the
phone began to send while another was sending or asking after an order. What the properties
leave out because of these two is in section 5.

### ShopImport

`screen` is what the shop's page holds, `calls` the requests at work on the server, each with
the rows it still has to do, `audit` the rows a request has recorded (the replay), `preview`
what a signed preview saw. The rows of one call are one transaction each. `written` is
history: how often a row of a request was written.

## 3. Runs

| Run | World | Shows |
|---|---|---|
| `OrderCombined` (`MCOrderLifecycle`) | one checkout at two shops, one rider each, two calls in flight | `ParentFollowsChildren`, `CashFollowsGoods`, `StockReturnedOnce`, and that every step implements `CombinedOrder` (`KeepsPromise`) |
| `OrderShared` (`MCOrderLifecycle`) | two checkouts at one shop, two riders, a proposal to one customer, two calls in flight | `RiderBinding`, `NoStrandedOrder`, `StatusMovesForward`, `OnlyItsRiderDelivers`, `RevisionFreezesOrder` |
| `TimerEnds` (`AcceptanceTimer`) | two orders, sweeps that take one order at a time, lag and break off | `WindowRespected`; `ProposalsEnd` and `SilenceEnds` under fairness |
| `TimerFreshWindow` (`AcceptanceTimer`) | one order, a revision sweep two ticks late | *violated*: `FreshWindow`, see 5 |
| `MoneyKept` (`MCMoney`) | one checkout at two shops with two proposals, then its refunds and payouts together with those of an earlier order | `OwesWhatWasAgreed`, `PaysForWhatCame`, `ShelfAddsUp`, `NeverOverRefunded`, `ApprovedStaysPayable`, `BooksAgree`, `PayoutExact` |
| `CheckoutShared` (`MCPlaceOrder`) | a basket and the counter compete for the last unit, with equal or different ids; or two customers, two baskets each, compete for one coupon | `StockAddsUp`, `AnswerIsOwn`, `OneOrderPerBasket`, `ApprovedTerms`, `CouponsWithinLimits`, `FailedSaleLeftNothing`, `CurrentTerms` |
| `CheckoutConcurrent` (`MCCheckout`) | one basket, one reference, two calls | *violated*: `FailedCheckoutLeftNothing`, see 5 |
| `OtpKept` (`MCOtpCodes`) | two requests at a time over three codes of every purpose | `SingleUse`, `AttemptsBounded`, `ArrivedCodeWorks` |
| `BasketsKept` (`MCBaskets`) | a phone that two customers share, or a browser with two tabs, and two guest sessions | `EachUnitOnce`, `ShownGoodsStay`, `OrderTakesGuestItems` |
| `SessionsKept` (`MCSessions`) | a phone or a browser with two tabs, two people, three sign-ins or renewals | `AcknowledgedKeepsAlerts`, `NewerSessionKeepsDevice`, `SignedOutOnlyWhenOver`, `NoOldOwnerReturns` |
| `RecoveryKept` (`MCRecovery`) | two views of one checkout or two accounts on one device, with crashes, time-outs and retries | `PlacedIsKnown`, `OneCheckoutAtATime` |
| `ImportKept` (`MCShopImport`) | a sheet of a listed and a new product, two requests, two calls at work at a time | `RowOnce`, `NothingUnseenReplaced` |

**Bounds and why they are enough.** Every hazard listed in `PROJECT.json` is a race of two
actors over one row, or one actor who repeats or loses a call, so two of each kind are the
smallest instance in which it happens, and the bounds on calls (`MaxInFlight`, `Attempts`,
`Calls`, `MaxCalls`) are two at a time; a finished call makes room for the next.

* `OrderLifecycle`: writes that read inside their transaction (cancellations, overrides,
  suspensions) come on top of the two calls without a limit. `MaxRevisions` counts all
  proposals ever made; one is enough for a call that began before it to end during or after
  it. Combined orders and proposals do not meet in one run of this module: a proposal
  does not touch the parent's status, and its money is `MoneyKept`'s subject.
* `AcceptanceTimer`: two ticks of window let a stamp fall before, on and after the cutoff. One
  sweep that may lag and one proposal per order keep the liveness check small;
  `WindowRespectedHolds` covers any number of overlapping sweeps and of proposals.
* `MCMoney`: one line of two units at each of two shops, and a third listing to replace one
  by; one price; a commission of 50 % and a FIXED one that is more than an order's goods
  cost, at first one per shop, and an admin may give either shop either (`Rates`), so that
  a shop may owe for an order; a small-order fee whose threshold a revision crosses, refund
  amounts that are partial, exact after fees, and excessive (`Amounts`), a wallet of `MaxWallet`, one
  admin at work in `generate`. `updateMerchant` takes any number as a commission; the model has whole
  ones that are not negative.
* `MCPlaceOrder`: two prices make a change and a change back possible; one unit on the shelf
  makes the last unit contested. A coupon has three possible `Terms` rows (once each for two
  customers; once, for a new customer; switched off), `MaxBaskets` is two per customer.
* `OtpCodes`: `MaxTime` 3 and `MaxCodes` 3 let a code be asked for, superseded, asked for again
  after the cooldown and reach the hourly cap.
* `Baskets`: `MayLapse` says which guest sessions may expire, `Offers` that the listing may
  sell out or close. Where `Narrow` holds, only one of the two customers' answers stay away, and
  until the order's fate is known no session ends, no listing changes and his basket is used from
  no other device (`MayLose`, `Quiet`). `Sessions`: `MaxSession` sign-ins and renewals, `MaxSends` alerts under way at
  the push provider, `MaxRequests` calls of the web page; `MayFail` lets calls be lost.
* `MCRecovery`: `Views` are screens or pages, open or left behind: two with one person, or one
  with two people. Where `Narrow` holds, two screens of a phone have one call at a time (with two the
  account is crowded, or one screen repeats its own, and that one shared screen does as well),
  `MayBecome` allows an emptied basket only where it makes a difference, and who has two pages
  open signs out only while each of them waits for an order (`MayLeave`).
  The proofs about these two worlds use no bound: they hold for either value of `Narrow`, which is
  FALSE where all people have all views and calls and nothing is quiet.
* `ShopImport`: `MaxStamp` and `MaxItems` bound the changes from elsewhere and the products created.

Symmetry is used only where nothing distinguishes the values, and in no run that checks
liveness. Deadlock checking is off where the bounded system simply finishes: all orders
or refunds are over (`OrderCombined`, `OrderShared`, `MoneyKept`), the codes (`OtpKept`), the
sign-ins (`SessionsKept`) or the requests and stamps (`ImportKept`) are used up. In the other runs
a deadlock would be an error.

**Fairness** (`TimerEnds` only): the clock ticks and `setInterval` fires (weak fairness of
`Tick`, `StartExpiry`, `StartSweep`); a sweep that is tried again and again gets through a
given order some time (strong fairness of `SweepOrder`, `ExpireRevision`: a transaction may lose
its three attempts or the process may restart, but not for ever). Nothing is assumed of
customers, shops, riders and admins. `SilenceEnds` needs the bound on proposals: a shop that
proposes again and again does keep its order open.

## 4. Proofs

A theorem holds for every value of the constants that the named assumptions allow; TLC
evaluates all of these on the worlds above.

`OrderLifecycleProofs`: for any sets of orders, combined orders and riders and any bounds,
`TypeCorrect` (`Spec => []TypeOK`) and `DeliveryInvariant` (`Spec => []DeliveryInv`), from which
`RiderBindingHolds`, `RiderStageHolds` and `NoStrandedOrderHolds` follow.

`DeliveryInv` is `TypeOK /\ RiderBinding /\ RiderStage /\ NoStrandedOrder /\
NoProfileNoOrder`. None of its parts is inductive alone. A rejection does not touch the rider
row, which is harmless only because an order in SENT_TO_MERCHANT has no rider; that follows
from `RiderBinding` and `RiderStage` together. A delivery frees the rider it claimed, which
keeps the binding because no other order names him. An application overwrites the row, which
is harmless because a row without a profile has no order (`NoProfileNoOrder`). The case
analysis is by the five groups of `Next`, each through a lemma about a kind of move
(`UnassignedMove`, `RiderMove`, `Release`, `Assignment`, `SameAssignments`), so that a
handler's case only shows which kind it is. Assumptions: `OrdersAssumption`,
`AbsentAssumption`, `BoundsAssumption`.

The rest of the module is about what the orders' histories come to. `StepShape` shows that every
step either leaves orders, cash and stock alone or is one *move*: some handler writes one status on
some orders that may take it (`MayMove`), rolls up their combined orders, collects or drops the
cash and returns the goods that were still in the shop. Everything else is proved of moves, once
instead of per handler: that a status never goes back (`StatusMovesForwardHolds`), that a pending
proposal stops every handler but a cancellation (`RevisionFreezesOrderHolds`), and that only the
rider the order was given to delivers it (`OnlyItsRiderDeliversHolds`). `OutcomesAgree` is the
invariant `HistoryInv`: the delivery invariant with `ParentFollowsChildren`, `CashFollowsGoods` and
`StockReturnedOnce`. These three are inductive together and not alone: the roll-up reads the
children's statuses and writes the parent's cash, and goods return once because an order that
moves to an end was at none. From it `PromiseKept` shows the refinement: read through the
mapping of `KeepsPromise`, an initial state is one of `CombinedOrder`, and a move is a step of
`CombinedOrder` for the combined orders it touches, or a stutter.

The last part of `OrderLifecycleProofs` is of `AcceptanceTimer`, instantiated: for any orders, any
number of overlapping sweeps and any windows, `WindowRespectedHolds`. `TimerInv` relates the clock a
sweep reads to the time the order was really the shop's (`ClocksAgree`), and says that what a sweep
took had waited long enough when it took it (`TakenIsOld`); a rejection compares again, and the two
together bound what a shop can lose by the lag of one revision sweep. The theorems have
`TimerAssumption` as their hypothesis; it is the module's own assumption, which TLC evaluates in its
runs.

`PlaceOrderProofs`, first of `Checkout`: for any customers, clerks, baskets, listings, prices,
requests and calls at a time, `CheckoutInvariant` (`Spec => []CheckoutInv`), from which `OneOrderPerBasketHolds`,
`ApprovedTermsHolds` and `AnswerIsOwnHolds` follow, and, step by step, the action properties
`FailedSaleLeftNothingHolds` and `CurrentTermsHolds`.

`CheckoutInv` says of every order that its basket is closed and that it was bought on the terms
of its call, and of every call which handler it is in and, for a sale that has read its
offers, that these are the ones it asked for. The first part is why a basket is bought once: a
transaction needs it ACTIVE, leaves it CHECKED_OUT, and nothing makes it ACTIVE again. The
second is why a sale keeps its terms although prices move between its read and its
transaction. For a checkout nothing of the sort is needed, because its transaction compares
what was read with what was approved. That orders are never dropped and never change their
call carries `AnswerIsOwn` over to later states. `StockInv` adds the stock: of every listing the
shelf and what the orders hold come to the units the shop entered (`StockAddsUpHolds`), for any
number of orders. It needs of each handler only that what it takes off the shelf is what its order
holds afterwards, and of an absolute stock write that the difference is what was entered
(`goods`); `TypesHold` is the type invariant with the stock and `goods` never negative.
Assumptions: `CheckoutAssumption`, `AbsentAssumption`.

The second part of `PlaceOrderProofs` is of `Coupons` in the world `MCPlaceOrder`: for any
customers, baskets, coupons and checkouts at a time, `CouponTypes` and `CouponsAreKept`. The
invariant adds to the limits that what stands in a coupon's row was granted (`Granted`), that a call
is somebody's (`Owned`) and that the orders are finitely many: `PlaceOrder` counts the uses in the
transaction that adds one. Assumption: `CouponTermsAssumption`, the coupons' own about their numbers.

`ShopImportProofs`: for any rows, requests, calls and listings, `RowWrittenOnce`. The
strengthening is `WriteIsSaved`: the number of writes is one where the audit row says CREATED
or UPDATED and zero elsewhere, because both come in one transaction that looks for the audit
row first. `NothingUnseenReplacedHolds` needs to know what a preview stands for: each row of a
request is read for it once, by one call (`ReadOnce`), and its stamp is no newer than the
listing's, and older once the product was touched since (`NotOlder`); a transaction that finds the
stamp it was shown writes over nothing else. Assumptions: `ImportAssumption`, `AbsentAssumption`.

`MoneyProofs`, first of `OrderMoney`: for any shops, listings, lines, prices, rates and proposals,
`MoneyInvariant` (`Spec => []MoneyInv`), from which `OwesWhatWasAgreedHolds`, `PaysForWhatCameHolds`,
`ShelfAddsUpHolds` and `MoneyTypes` follow. `MoneyInv` adds to these:

* `ProposalsFit`: the changes of a proposal name lines of its order, each at most once, so that an
  approval's loop, which works on the lines as the turns before left them, still finds
  every line as the approval compared it with its snapshot;
* `TotalsOf`: subtotal and total of every shop order follow its lines, and the combined row follows
  the subtotals. `PaysForWhatCame` is about what the roll-up collects, which is a difference of
  such totals: the combined total less those of the orders that did not come. `CollectExact` shows
  that it leaves the goods and deliveries that came and the fees once;
* `OverIfCollected`: cash is collected when every order is over, so no line changes afterwards;
* `Billed`: a line that counts has a quantity (`Full`), so every order has a price. No property
  of a checkout needs it; the refunds do.

The loop of an approval is a recursive function over the turns. That the function exists and is
unique, and that what a turn takes off the shelf is what it puts into the lines, is carried turn by
turn (`TurnMoves`) to the whole loop (`LoopMoves`) by looking at the first turn for which it
fails. Assumption: `OrderMoneyAssumption`; that there is an order at all is part of it, since an empty
basket is not checked out.

The second part of `MoneyProofs` is of `RefundSettlement`: for any orders, payments, refunds, shops
and payouts and whatever the checkouts collected, `RefundInvariant` (`RefundSpec => []RefundInv`), from which `NeverOverRefundedHolds`,
`ApprovedStaysPayableHolds`, `BooksAgreeHolds` and `PayoutExactHolds` follow. The conjuncts of
`RefundInv`, and what each is for:

* `Aimed`: a refund that was asked for names an order, so that a payment can be found for it;
* `Kept`: what the approved and paid refunds take from an order is no more than it was worth
  (`Within`), and while a later order of a payment gives some of a refund, nothing is left of the
  earlier ones (`Shared`). `Within` alone is not inductive: a refund keeps its amount from its
  approval to its payment and not its shares, which are worked out again at the end, when others
  have been approved or paid. `Shared` is why the loop then finds the same ones: it is greedy
  (`WaterfallShares`, `WaterfallGives`), and no other shares of the same amount are greedy
  (`WaterfallOnly`);
* `BooksAgree` and `PayoutExact`: wallet and payment columns agree with the refunds paid, and a payout
  that is due or made with what the shop earned with its orders less their refunds;
* `Placed`: orders are put only in payouts that were generated, so that a new payout starts empty.

Assumption: `MoneyAssumption`.

The last part is of the world `MCMoney`, where the books of a checkout open. `CheckoutInvariant`
(`MCSpec => [](MoneyInv /\ RefundInv)`) and `CheckoutSafety`, which names all seven properties of `MoneyKept`,
hold of the whole, from the first revision to the last payout. The step that is new is `CloseBooks`
(`CloseStep`): what `OrderMoney` leaves are books `RefundSettlement` may start from, since every order
has a price (`ClosedBooksFit`, from `Billed`); what its shop earned may be less than nothing. Refunds and
payouts never change the books (`BooksStand`). Assumption, besides those of the parts: the shop orders of the
books are those of the two checkouts (`TwoCheckouts`).

`RecoveryProofs`: for any accounts, screens or pages, calls and requests, `RecoverySafety`
(`Spec => []RecoveryInv` of the world `MCRecovery`), from which `RecoveryTypes`,
`PlacedOrdersAreKnown` and `CheckoutsWait` follow. Of the server it says what orders and calls have
to do with each other (`DeskInv`: what a call says was placed is placed, what was told exists).
A call that may still place its order, or says that it did not, is the only call of its
request and right about it, unless the request was doubled (`Repeats`). Of a client it says that who
waits has a call of his own that will answer (`HasCall`, `WebHasCall`), and that what is on its way
or placed is written down, or told, or astray, or of a crowded account (`Kept`, `WebKept`). The phone
needs more, because it removes the note whatever it names: copies of one request are alike,
notes and tasks are of their own account (`OwnOrders`), and an account that is not crowded has one
screen that sends, about the order that is written down (`OneAtATime`). `PlacedIsKnown` alone is not
inductive because a note is cleared by an answer; `Repeats` is why a refusal may be believed.
Assumptions: `DeskAssumption`, `RecoveryAssumption`.

`AuthProofs`, first of the sessions: for any users, devices, tabs, calls, messages and sessions, `SignInSafety`
(`Spec => []SignInInv` of the world `MCSessions`), from which `SessionTypes`,
`AcknowledgedPhonesGetAlerts`, `NewerSessionsKeepDevices`, `NoOldOwnersReturn` and
`SignedOutWhenOver` follow. The order of the sessions carries all of them:

* `SessionsInv`: a session descends from a sign-in that is not younger than itself, and of the
  sessions of one sign-in one is live. A renewal replaces a session in one transaction, so two
  renewals of one session cannot both succeed;
* `OwnLogins`, of the phone: a sign-in is one phone's, its calls are of that phone, and what else is
  left on the way, a call of an earlier user or a message that found the app removed, is of older
  sessions. `Assured` phones, which know of their registration or are about to read it, are `Reached`:
  an older session cannot take the registration away, and a newer one is the phone's own;
* `InTurn`, `TabsKnow`, `Asked`, of the browser: tabs renew one after the other, know what they
  captured and were answered, and a request somebody waits for is that tab's. `Recorded` says that
  the live session of the sign-in in the record is in the record or on its way to it, unless an answer
  was lost: this is why a tab that clears the record after a refusal ends nothing that was good.

Assumptions: `SessionsAssumption`, `BrowserAssumption`.

The second part of `AuthProofs` is of `OtpCodes`: for any limits and any number of requests,
`OtpSingleUse`, `OtpAttempts`, `OtpArrived`, and, which no run checks, `OtpPaceKept` (cooldown and hourly cap) and `OtpNewest`
(one code of a purpose counts). One invariant `OtpInv` carries all of them, in parts: the code a
request holds exists (`CallsHold`); one request at most is past the consumption of a code, and
that code is used (`UseInv`); every comparison made, or about to be made by one of finitely many
requests, has reserved its attempt before (`AttemptInv`); a code is with one request for delivery,
or with the provider, and is used up before it arrives only for a reason (`DeliveryInv`); the
times of the codes respect the pace (`PaceInv`). Assumption: `OtpAssumption`.

`BasketsProofs`: for any customers, guest sessions, listings, calls on their way and tabs,
`BasketsSafety` (`Spec => []BasketsInv` of the world `MCBaskets`), from which `BasketTypes`,
`UnitsOnce`, `ShownGoodsAreKept` and `OrdersTakeGuestItems` follow.

* `ServerInv`: a customer's own basket is always active, so a merge only ever claims a guest's; and
  of every listing the units in the active baskets add up to what people put there. A merge changes
  two summands by opposite amounts, every other operation one (`OneBasket`, `MergeKeeps`).
  `GoodsStay` is what the clients need of it: merged stays merged, and no operation that runs while
  a guest's goods wait empties them.
* `WebInv`, of the browser: a call that is fresh is about the session in localStorage and about who
  is signed in (`InEpoch`): a sign-in, a sign-out and a new basket make what was asked before outdated,
  and the other steps that write the token meet no fresh call it could concern. What was
  shown, or is about to be, has goods (`HaveGoods`): an empty basket is not claimed by a merge, so
  without this the end of a merge could drop the token of a basket that was shown.
* `PhoneInv`, of the phone: a session that is being stored, or was not issued yet, has no goods and no
  call on its way (`Started`); who signs in with goods has written the note before (`SignsIn`); and
  the basket he brought is merged, or note and token are still there, and a merge that reports
  itself done is of the session it names (`Brings`). An order sent again needs no more: the note
  it leaves is the one `Brings` speaks of. The first of these is why the token that
  arrives after a sign-in, when no note was written for it, loses nobody's goods.

Assumptions: `BasketsAssumption` and, that somebody can sign in on a browser, `DeviceAssumption`.

`SumTheorems` is what the sums above rest on. The community modules define a sum over a set by
recursion over its subsets. That such a function exists, that only one does, and what it
computes is shown for every finite set by looking at a smallest subset for which the claim fails
(`Smallest`, from the library's `WFMin`), because an induction theorem that takes an operator
cannot be used. The lemmas then cited are that one more element adds its value (`SigmaInsert`), that the sum
of a sum is the sum of the sums (`SigmaPlus`), and that larger parts have larger sums.

Only model-checked: liveness, which is out of the prover's reach.

## 5. Disagreements found

Two runs show a statement of the repository that its code does not keep:

* **The fresh window is not quite fresh** (`TimerFreshWindow`). The revision sweep stamps
  `resolvedAt` with its own start, not with the moment it closes the proposal, so the window
  the comment at `orders/orders.service.ts:1289-1290` promises is shorter by the time the sweep
  had been running. `WindowRespected` says the loss is never more than that.
* **A concurrent retry may be refused** (`CheckoutConcurrent`). `placeOrder` checks the quote
  and the basket (lines 203-224) before the `try` whose `catch` looks for the order a
  concurrent call made (513-519). A retry that passed the first look before the other call
  committed, and reaches these checks after, is told the quote changed although its order
  exists; the test of concurrent calls (`src/apps/api/test/customer-checkout.test.cjs:62`)
  expects both to answer with the order. A third call finds it. `createSale` has its checks inside
  the `try`, and `FailedSaleLeftNothing` holds for it, unless the counter's trial ended in
  between (`requireSalesEnabled` is outside).

Seven more statements are defined beside the properties of their modules and are not part of a run.
To see one fail, add it to the `.cfg` named here:

| Statement | Where it is promised | What the code does |
|---|---|---|
| `OrderMoney.CommissionFrozen` (`MoneyKept`) | `src/docs/architecture.md`: "Commission is computed per child order at placement and frozen on the order row" | an approved revision computes it anew at the shop's rate of the day |
| `RefundSettlement.RecomputedWhenHeld` (through `MoneyKept`) | `src/docs/api-contract.md`: "A refund affecting a pending batch recomputes and holds it" | holds it, with its old amounts |
| `PhoneBasket.GuestCartWorks` (through `BasketsKept`) | `SCREEN_PARITY_MATRIX.md`: "Guest cart works without login." | after a sign-out, or an expiry, the phone may keep a token that no longer works |
| `PhoneAlerts.LogoutStopsAlerts` (through `SessionsKept`) | `expo-push.service.ts`: "called on logout so the device stops getting alerts" | a lost call, or a renewal the sign-out overtook, leaves the registration |
| `PhoneCheckout.NoteGoesWithItsOrder` (through `RecoveryKept`) | `CheckoutScreen.tsx`: "Write before the request: process death must not unlock a new checkout" | an answer to one screen clears the note another has written since |
| `PhoneCheckout.OnlyReviewPosts` (through `RecoveryKept`) | `CheckoutScreen.tsx`: "Only an explicit final-review action can POST an order" | the recovery of a note sends the order it finds no answer for |
| `WebCheckout.ReleasedMeansNoOrder` (through `RecoveryKept`) | `checkout-recovery.ts`: "A POST response that guarantees no order was written can release its saved identity." | a call given up earlier may still be at work and place it |

`PlacedIsKnown` and `OneCheckoutAtATime` (and with them `PlacedOrdersAreKnown` and `CheckoutsWait`) leave
out exactly what the checkout clients lose track of:

* a request that was sent again while an earlier call of it was at work, and then refused: the
  client drops the note, and the earlier call may still place the order (`Denied`; phone and web). As
  long as it is not refused, a request that is sent again stays covered;
* on the web, a request that a page sends again from its own copy when the record names it no longer:
  `retrySavedOrder` (`page.tsx`) does not look at the record, so beside a new order of another
  page two may be to come (`SentAgain`). The orders beside it stay covered;
* on the phone, the orders of an account of which one screen began to send while another, left behind
  or not, was sending or asking after an order: the answer to one removes the note of the
  other (`Look`, `crowded`). A screen that repeats its own call is not one of these.

Noted while reading, no statement of the code contradicts them:

* a settlement put on hold has no way back; an approved refund of an order whose payout was paid
  can never be processed and keeps its share reserved;
* a shop can keep an order in SENT_TO_MERCHANT by proposing again and again;
* a standalone order that is cancelled keeps its payment at CASH_PENDING (a test pins that); a
  suspended rider's order stays his until he is reinstated or an admin cancels it;
* the shop's stock edit writes an absolute number over whatever was sold since
  (`merchant/merchant-products.service.ts`); a discount is compared with the price only when both
  arrive in one call, so a later price cut may leave a discount at or above the price;
* a coupon of one category can be shown as applicable in a quote and not in the basket
  (`cart.service.ts` passes no categories to `validate`, `buildQuote` does);
* a new preview of an import while an earlier call is still at work may end in two products of
  one name; `RowOnce` is about one request;
* an upload of a shop's identity whose commit is acknowledged too late removes the file although the
  shop was approved by it (`merchant/merchant.service.ts`).

## 6. Not modelled

* Ratings, tracking and order views, catalog, searches, support, reviews, uploads, audit lists:
  reads and writes of independent rows. Realtime gateway and notification texts: best-effort
  output of what was committed.
* Digital payments: the service throws in this version, so no such state is reachable.
* Merchant accounts: the shop's profile and its approval. Whether a shop takes orders is part
  of a quote's validity.
* Single product creation and deletion; a rider's location and online flag; issue reports;
  password sign-in; addresses; the price a basket's line remembers.
* Delivery fees by distance and the split of a basket into shop orders: functions of what a
  checkout reads, and part of its offer.
* The screens of the six applications, beyond what they remember over a lost answer, a second tab
  or a restart; of the counter's two clients (`pos`, `shop`) only the server's side.

## 7. Plan

Built, the most shared state first: orders with their riders and timers, then checkout with stock and
coupons, then money from the revision to the payout, then the codes, sessions and baskets, and last
the clients.

Next modules: the clients of the counter over `OrderDesk` (one saved sale per till; the draft of
`IPos.tsx` under its Web Lock); admission of a shop (draft, stored identity, approval, open and
online under a stale context); addresses under active orders (`assertAddressUnused`); the
shop's alert list, where a late snapshot meets a live event.

## 8. Running

```
tlc -config OrderShared.cfg MCOrderLifecycle     # and so on, see the table in 3
tlapm OrderLifecycleProofs.tla                   # and the other *Proofs modules
```
