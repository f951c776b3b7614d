---------------------------- MODULE OrderStatuses ----------------------------
(***************************************************************************)
(* The order, payment and revision vocabulary every SirfBazar module       *)
(* speaks, and the status algebra of apps/api/src/orders: which statuses   *)
(* end an order, which transitions a pending revision freezes, and what a  *)
(* combined (parent) order becomes once all of its shop orders ended.      *)
(* Statuses the API never writes (PAYMENT_PENDING, PAYMENT_CONFIRMED,      *)
(* CREATED and PICKED_UP are timeline entries or digital-payment states,   *)
(* FAILED_DELIVERY has no writer) appear only where a code list names them.*)
(***************************************************************************)

\* The statuses of constants.ts, in fulfilment order where there is one.
FulfilmentStatus ==
  {"SENT_TO_MERCHANT", "MERCHANT_ACCEPTED", "PREPARING", "READY_FOR_PICKUP",
   "RIDER_ASSIGNED", "RIDER_ARRIVED_AT_SHOP", "ON_THE_WAY",
   "RIDER_ARRIVED_AT_CUSTOMER"}

CancelledStatus ==
  {"MERCHANT_REJECTED", "CANCELLED_BY_CUSTOMER", "CANCELLED_BY_MERCHANT",
   "CANCELLED_BY_ADMIN", "FAILED_DELIVERY"}

TerminalStatus == CancelledStatus \cup {"DELIVERED"}

OrderStatus == FulfilmentStatus \cup TerminalStatus

\* Writing one of these is refused while the customer considers a revision.
BlockedByRevision ==
  (FulfilmentStatus \ {"SENT_TO_MERCHANT"})
    \cup {"MERCHANT_REJECTED", "PICKED_UP", "DELIVERED"}

CustomerCancellable ==
  {"CREATED", "PAYMENT_PENDING", "PAYMENT_CONFIRMED", "SENT_TO_MERCHANT"}

\* A revision may be proposed, and later take effect, in these only.
RevisableStatus == {"SENT_TO_MERCHANT", "MERCHANT_ACCEPTED", "PREPARING"}

AssignableStatus == {"MERCHANT_ACCEPTED", "PREPARING", "READY_FOR_PICKUP"}

\* The goods have left the shop.
WithCustomerOrRider == {"ON_THE_WAY", "RIDER_ARRIVED_AT_CUSTOMER"}

RevisionStatus == {"NONE", "PENDING", "APPROVED", "REJECTED", "EXPIRED"}

CashStatus == {"CASH_PENDING", "CASH_COLLECTED", "FAILED"}

\* Wrong: one cancelled shop order is enough to cancel the combined order.
RolledUpStatusUnanimous(S) ==
  IF S = {"DELIVERED"} THEN "DELIVERED" ELSE "CANCELLED_BY_MERCHANT"

\* What rollUpParent writes on a parent whose children ended in the statuses S.
RolledUpStatus(S) ==
  IF "DELIVERED" \in S THEN "DELIVERED"
  ELSE IF S = {"CANCELLED_BY_CUSTOMER"} THEN "CANCELLED_BY_CUSTOMER"
  ELSE IF S = {"CANCELLED_BY_ADMIN"} THEN "CANCELLED_BY_ADMIN"
  ELSE "CANCELLED_BY_MERCHANT"

\* Wrong: cash only if every shop delivered; the refund status for no cash.
RolledUpCashUnanimous(S) == IF S = {"DELIVERED"} THEN "CASH_COLLECTED" ELSE "FAILED"
\* The COD outcome rollUpParent writes beside it.
RolledUpCash(S) == IF "DELIVERED" \in S THEN "CASH_COLLECTED" ELSE "FAILED"
==============================================================================
