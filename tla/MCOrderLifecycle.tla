-------------------------- MODULE MCOrderLifecycle --------------------------
(***************************************************************************)
(* Small worlds for OrderLifecycle: a combined order of two shops, two     *)
(* orders of one shop that compete for its riders while a customer answers *)
(* its proposal.                                                           *)
(***************************************************************************)
EXTENDS OrderLifecycle, TLC

CONSTANTS o1, o2, p1, r1, r2, s1, s2

\* One checkout at two shops with one rider each.
CombinedParentOf == o1 :> p1 @@ o2 :> p1
CombinedShopOf   == o1 :> s1 @@ o2 :> s2 @@ r1 :> s1 @@ r2 :> s2

\* Two checkouts at one shop that has two riders.
SharedParentOf == o1 :> NoParent @@ o2 :> NoParent
SharedShopOf   == o1 :> s1 @@ o2 :> s1 @@ r1 :> s1 @@ r2 :> s1

\* Sound where the two orders and the two riders are interchangeable.
Interchangeable == Permutations({o1, o2}) \cup Permutations({r1, r2})
==============================================================================
