---------------------------- MODULE CombinedOrder ----------------------------
(***************************************************************************)
(* What a multi-shop checkout promises the customer, with the shops,       *)
(* riders and admins left out.  Every shop order ends once, delivered or   *)
(* cancelled.  The combined order they belong to ends in the very step     *)
(* that ends the last of them: delivered, its cash collected, when at      *)
(* least one shop delivered; cancelled, nothing to collect, when none did. *)
(***************************************************************************)
CONSTANTS Orders, Parents, ParentOf

VARIABLES
  outcome,  \* [Orders -> {"open", "delivered", "cancelled"}]
  combined, \* [Parents -> {"open", "delivered", "cancelled"}]
  cash      \* [Parents -> {"due", "collected", "none"}]

vars == <<outcome, combined, cash>>

Init ==
  /\ outcome = [o \in Orders |-> "open"]
  /\ combined = [p \in Parents |-> "open"]
  /\ cash = [p \in Parents |-> "due"]

Parts(p, f) == {f[o] : o \in {c \in Orders : ParentOf[c] = p}}

\* What the outcomes of all its parts make of a combined order and its cash.
Whole(parts)     == IF "delivered" \in parts THEN "delivered" ELSE "cancelled"
Collected(parts) == IF "delivered" \in parts THEN "collected" ELSE "none"

\* With the outcomes f, the last open part of p has ended.
Complete(p, f) == combined[p] = "open" /\ "open" \notin Parts(p, f)

\* The orders of S, all open, end the same way.
End(S, how) ==
  /\ S # {} /\ \A o \in S : outcome[o] = "open"
  /\ outcome' = [o \in Orders |-> IF o \in S THEN how ELSE outcome[o]]
  /\ combined' = [p \in Parents |-> IF Complete(p, outcome')
                                   THEN Whole(Parts(p, outcome')) ELSE combined[p]]
  /\ cash' = [p \in Parents |-> IF Complete(p, outcome')
                               THEN Collected(Parts(p, outcome')) ELSE cash[p]]

Next == \E S \in SUBSET Orders, how \in {"delivered", "cancelled"} : End(S, how)

Spec == Init /\ [][Next]_vars
==============================================================================
