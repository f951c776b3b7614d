---------------------------- MODULE BasketsProofs ----------------------------
(***************************************************************************)
(* What the baskets of guests and customers keep, for any number of them,  *)
(* of listings, calls and tabs: units are in one basket once, goods that a *)
(* tab has shown stay, and the phone orders with the goods its customer    *)
(* brought along.                                                          *)
(*                                                                         *)
(* The server: people's own baskets are always active and the units of all *)
(* active ones add up.  The browser: a call that is fresh is about the     *)
(* session and the visitor there are now, and what was shown is goods.     *)
(* The phone: a session that was just started has no goods anywhere, not   *)
(* even on the way, and whoever signs in with goods wrote the note first.  *)
(***************************************************************************)
EXTENDS MCBaskets, SumTheorems, TLAPS

\* A guest's goods that are in a customer's basket, or are still the guest's.
Kept(s) == basket[s].status = "MERGED"
Filled(s) == Kept(s) \/ ~IsEmpty(s)

\* What an owner's active basket holds of a listing.
Held(l) == [o \in Owners |-> IF basket[o].status = "ACTIVE" THEN basket[o].units[l] ELSE 0]

\* Guests' baskets are merged, never a customer's, and the units add up.
ServerInv ==
  /\ TypeOKServer
  /\ \A c \in Customers : basket[c].status = "ACTIVE"
  /\ \A l \in Listings : wanted[l] = Sigma(Held(l), Owners)

LEMMA OwnersFinite == IsFiniteSet(Owners)
BY BasketsAssumption, FS_Union DEF Owners

\* One owner's basket, and the units in it.
LEMMA BasketRow ==
  ASSUME TypeOKServer, NEW o \in Owners
  PROVE  \A u : [basket[o] EXCEPT !.units = u] = [status |-> basket[o].status, units |-> u]
BY DEF TypeOKServer

LEMMA BasketParts ==
  ASSUME TypeOKServer, NEW o \in Owners
  PROVE  /\ basket[o].status \in {"ACTIVE", "MERGED"}
         /\ basket[o].units \in [Listings -> Nat]
         /\ \A l \in Listings : basket[o].units[l] \in Nat /\ Held(l)[o] \in Nat
BY DEF TypeOKServer, Held

\* The sum over the active baskets is the sum over all of them.
LEMMA SumOfBaskets ==
  ASSUME TypeOKServer, NEW l \in Listings
  PROVE  MapThenSumSet(LAMBDA o : basket[o].units[l], {o \in Owners : basket[o].status = "ACTIVE"})
           = Sigma(Held(l), Owners)
<1> DEFINE L == {o \in Owners : basket[o].status = "ACTIVE"}
           B == [o \in L |-> basket[o].units[l]]
           Way(h) == h = [s \in SUBSET L |->
                       IF s = {} THEN 0
                       ELSE basket[CHOOSE x \in s : TRUE].units[l]
                              + h[s \ {CHOOSE x \in s : TRUE}]]
           way == CHOOSE h : Way(h)
<1>1. L \in SUBSET Owners /\ IsFiniteSet(L) /\ IsFiniteSet(Owners \ L)
  BY OwnersFinite, FS_Subset, FS_Difference
<1>2. MapThenSumSet(LAMBDA o : basket[o].units[l], L) = way[L]
  BY Zenon DEF MapThenSumSet, MapThenFoldSet
<1>3. PICK h : Adds(h, B, L) /\ Sigma(B, L) = h[L]
  BY <1>1, SigmaAdds
<1>4. \A s \in SUBSET L : s # {} =>
        B[Pick(s)] = basket[CHOOSE x \in s : TRUE].units[l]
  <2>1. \A s \in SUBSET L : s # {} => Pick(s) \in L
    BY Picked
  <2> QED  BY <2>1 DEF Pick
<1> HIDE DEF L
<1>5. \A k : Adds(k, B, L) <=> Way(k)
  <2> HIDE DEF B
  <2> QED  BY <1>4 DEF Adds, Pick
<1> HIDE DEF B, Way
<1>6. Adds(way, B, L)
  <2>1. \E k : Way(k)
    BY <1>3, <1>5
  <2>2. Way(way)
    BY <2>1, Zenon
  <2> QED  BY <1>5, <2>2, Zenon
<1> HIDE DEF way
<1>7. way[L] = Sigma(B, L)
  BY <1>1, <1>3, <1>6, AddsOnce
<1>8. Sigma(B, L) = Sigma(Held(l), L)
  <2>1. \A o \in L : B[o] = Held(l)[o]
    BY DEF B, L, Held
  <2> QED  BY <1>1, <2>1, SigmaSame
<1>9. Sigma(Held(l), Owners \ L) = 0
  <2>1. \A o \in Owners \ L : Held(l)[o] = 0
    BY DEF L, Held
  <2> QED  BY <1>1, <2>1, SigmaZero
<1>10. Sigma(Held(l), Owners) = Sigma(Held(l), L) + Sigma(Held(l), Owners \ L)
  <2>1. \A o \in Owners : Held(l)[o] \in Nat
    BY BasketParts
  <2> QED  BY <1>1, <2>1, OwnersFinite, SigmaParts
<1>11. Sigma(Held(l), L) \in Nat
  <2>1. \A o \in L : Held(l)[o] \in Nat
    BY <1>1, BasketParts
  <2> QED  BY <1>1, <2>1, SigmaNat
<1> QED  BY <1>2, <1>7, <1>8, <1>9, <1>10, <1>11 DEF L

-----------------------------------------------------------------------------
(* The server                                                              *)

\* What the operations do to a guest's basket: merged stays merged, and what has
\* goods is not emptied.
GoodsStay == \A s \in Sessions : (Kept(s) => Kept(s)') /\ (Filled(s) => Filled(s)')

\* One active basket changes.
LEMMA OneBasket ==
  ASSUME ServerInv, NEW o \in Owners, basket[o].status = "ACTIVE",
         NEW u \in [Listings -> Nat],
         basket' = [basket EXCEPT ![o] = [status |-> "ACTIVE", units |-> u]],
         wanted' = [l \in Listings |-> wanted[l] + u[l] - basket[o].units[l]],
         session' \in [Sessions -> {"UNUSED", "LIVE", "EXPIRED"}],
         offer' \in [Listings -> Offers]
  PROVE  /\ ServerInv'
         /\ \A p \in Owners \ {o} : basket'[p] = basket[p]
         /\ basket'[o] = [status |-> "ACTIVE", units |-> u]
<1>1. basket' \in [Owners -> [status : {"ACTIVE", "MERGED"}, units : [Listings -> Nat]]]
  BY DEF ServerInv, TypeOKServer
<1>2. basket'[o] = [status |-> "ACTIVE", units |-> u]
      /\ \A p \in Owners \ {o} : basket'[p] = basket[p]
  BY DEF ServerInv, TypeOKServer
<1>3. \A l \in Listings : wanted'[l] = Sigma(Held(l)', Owners) /\ wanted'[l] \in Nat
  <2> TAKE l \in Listings
  <2> DEFINE f == Held(l)
             g == [p \in Owners |-> IF basket'[p].status = "ACTIVE" THEN basket'[p].units[l] ELSE 0]
  <2>1. g = Held(l)'
    BY DEF Held
  <2>2. \A p \in Owners : f[p] \in Nat /\ g[p] \in Nat
    BY <1>1, BasketParts DEF ServerInv
  <2>3. \A p \in Owners \ {o} : f[p] = g[p]
    BY <1>2 DEF Held
  <2>4. f[o] = basket[o].units[l] /\ g[o] = u[l]
    BY <1>2 DEF Held
  <2>5. wanted[l] = Sigma(f, Owners) /\ wanted'[l] = wanted[l] + u[l] - basket[o].units[l]
    BY DEF ServerInv
  <2> HIDE DEF f, g
  <2>6. Sigma(g, Owners) = Sigma(f, Owners) + g[o] - f[o]
    BY <2>2, <2>3, OwnersFinite, SigmaChange
  <2>7. Sigma(g, Owners) \in Nat /\ Sigma(f, Owners) \in Nat
    BY <2>2, OwnersFinite, SigmaNat
  <2>8. wanted'[l] = Sigma(g, Owners) /\ wanted'[l] \in Nat
    BY <2>2, <2>4, <2>5, <2>6, <2>7
  <2> QED  BY <2>1, <2>8
<1>4. wanted' \in [Listings -> Nat]
  BY <1>3
<1>5. TypeOKServer'
  BY <1>1, <1>4 DEF TypeOKServer
<1>6. \A c \in Customers : basket'[c].status = "ACTIVE"
  BY <1>2 DEF ServerInv, Owners
<1> QED  BY <1>2, <1>3, <1>5, <1>6 DEF ServerInv

\* Whose basket is asked for is active.
LEMMA AskedIsActive ==
  ASSUME ServerInv, NEW o \in Owners, Answers(o)
  PROVE  basket[o].status = "ACTIVE"
BY BasketParts DEF ServerInv, Answers, Owners

\* addItem and updateItem.
LEMMA PutKeeps ==
  ASSUME ServerInv, NEW o \in Owners, NEW l \in Listings, NEW n \in Nat, Answers(o), Put(o, l, n)
  PROVE  /\ ServerInv' /\ UNCHANGED session
         /\ \A p \in Owners \ {o} : basket'[p] = basket[p]
         /\ n > 0 => ~IsEmpty(o)' /\ GoodsStay
<1> DEFINE u == [basket[o].units EXCEPT ![l] = n]
<1>1. basket[o].status = "ACTIVE"
  BY AskedIsActive
<1>2. u \in [Listings -> Nat] /\ u[l] = n /\ \A k \in Listings \ {l} : u[k] = basket[o].units[k]
  BY BasketParts DEF ServerInv
<1>3. basket' = [basket EXCEPT ![o] = [status |-> "ACTIVE", units |-> u]]
  <2>1. basket' = [basket EXCEPT ![o] = [basket[o] EXCEPT !.units = u]]
    BY DEF Put
  <2>2. [basket[o] EXCEPT !.units = u] = [status |-> "ACTIVE", units |-> u]
    <3> HIDE DEF u
    <3> QED  BY <1>1, BasketRow DEF ServerInv
  <2> QED  BY <2>1, <2>2
<1>4. wanted' = [k \in Listings |-> wanted[k] + u[k] - basket[o].units[k]]
  <2>1. \A k \in Listings : basket[o].units[k] \in Nat /\ wanted[k] \in Nat
    BY BasketParts DEF ServerInv, TypeOKServer
  <2>2. wanted' = [wanted EXCEPT ![l] = @ + n - basket[o].units[l]] /\ wanted \in [Listings -> Nat]
    BY DEF ServerInv, TypeOKServer, Put
  <2> HIDE DEF u
  <2>3. \A k \in Listings : wanted'[k] = wanted[k] + u[k] - basket[o].units[k]
    <3> TAKE k \in Listings
    <3>1. wanted[k] \in Nat /\ u[k] \in Nat /\ basket[o].units[k] \in Nat
      BY <1>2, <2>1
    <3>2. wanted'[k] = IF k = l THEN wanted[k] + n - basket[o].units[k] ELSE wanted[k]
      BY <2>2
    <3> QED  BY <1>2, <3>1, <3>2
  <2>4. wanted' = [k \in Listings |-> wanted'[k]]
    BY <2>2
  <2> QED  BY <2>3, <2>4
<1>5. session' \in [Sessions -> {"UNUSED", "LIVE", "EXPIRED"}] /\ offer' \in [Listings -> Offers]
  BY DEF ServerInv, TypeOKServer, Put
<1> HIDE DEF u
<1>6. /\ ServerInv' /\ \A p \in Owners \ {o} : basket'[p] = basket[p]
      /\ basket'[o] = [status |-> "ACTIVE", units |-> u]
  BY <1>1, <1>2, <1>3, <1>4, <1>5, OneBasket
<1>7. n > 0 => ~IsEmpty(o)'
  BY <1>2, <1>6 DEF IsEmpty, Nothing
<1>8. n > 0 => GoodsStay
  BY <1>1, <1>6, <1>7 DEF GoodsStay, Kept, Filled, IsEmpty, Owners
<1> QED  BY <1>6, <1>7, <1>8 DEF Put

LEMMA AddKeeps ==
  ASSUME ServerInv, NEW o \in Owners, NEW l \in Listings, AddItem(o, l, 1)
  PROVE  /\ ServerInv' /\ UNCHANGED session /\ ~IsEmpty(o)' /\ GoodsStay
         /\ \A p \in Owners \ {o} : basket'[p] = basket[p]
<1> DEFINE n == basket[o].units[l] + 1
<1>1. n \in Nat /\ n > 0
  BY BasketParts DEF ServerInv
<1>2. Answers(o) /\ Put(o, l, n)
  BY DEF AddItem
<1> HIDE DEF n
<1> QED  BY <1>1, <1>2, PutKeeps

LEMMA UpdateKeeps ==
  ASSUME ServerInv, NEW o \in Owners, NEW l \in Listings, NEW n \in 0..basket[o].units[l],
         UpdateItem(o, l, n)
  PROVE  /\ ServerInv' /\ UNCHANGED session
         /\ \A p \in Owners \ {o} : basket'[p] = basket[p]
<1>1. n \in Nat /\ Answers(o) /\ Put(o, l, n)
  BY BasketParts DEF ServerInv, UpdateItem
<1> QED  BY <1>1, PutKeeps

\* clear, and the fence of placeOrder.
LEMMA EmptyingKeeps ==
  ASSUME ServerInv, NEW o \in Owners, basket[o].status = "ACTIVE", Emptied(o)
  PROVE  /\ ServerInv' /\ UNCHANGED session
         /\ \A p \in Owners \ {o} : basket'[p] = basket[p]
<1>1. Nothing \in [Listings -> Nat] /\ \A l \in Listings : Nothing[l] = 0
  BY DEF Nothing
<1>2. basket' = [basket EXCEPT ![o] = [status |-> "ACTIVE", units |-> Nothing]]
  BY DEF Emptied, EmptyCart
<1>3. wanted' = [l \in Listings |-> wanted[l] + Nothing[l] - basket[o].units[l]]
  <2>1. \A l \in Listings : wanted[l] \in Nat /\ basket[o].units[l] \in Nat
    BY BasketParts DEF ServerInv, TypeOKServer
  <2> QED  BY <1>1, <2>1 DEF Emptied
<1>4. session' \in [Sessions -> {"UNUSED", "LIVE", "EXPIRED"}] /\ offer' \in [Listings -> Offers]
  BY DEF ServerInv, TypeOKServer, Emptied
<1> QED  BY <1>1, <1>2, <1>3, <1>4, OneBasket DEF Emptied

\* A customer's own changes leave guests' baskets alone.
LEMMA OthersKeep ==
  ASSUME NEW c \in Customers, \A p \in Owners \ {c} : basket'[p] = basket[p]
  PROVE  GoodsStay /\ \A s \in Sessions : basket'[s] = basket[s]
<1>1. \A s \in Sessions : s \in Owners \ {c}
  BY BasketsAssumption DEF Owners
<1> QED  BY <1>1 DEF GoodsStay, Kept, Filled, IsEmpty

\* mergeGuestCart: afterwards the guest's basket is merged, or it was empty.
LEMMA MergeKeeps ==
  ASSUME ServerInv, NEW s \in Sessions, NEW c \in Customers, Merge(s, c)
  PROVE  /\ ServerInv' /\ UNCHANGED session /\ GoodsStay
         /\ Filled(s) => Kept(s)'
         /\ \A p \in Sessions : IsEmpty(p) => IsEmpty(p)'
<1>0. s \in Owners /\ c \in Owners /\ s # c
  BY BasketsAssumption DEF Owners
<1>1. CASE ~ToMerge(s)
  <2>1. UNCHANGED serverVars
    BY <1>1 DEF Merge, serverVars
  <2>2. Filled(s) => Kept(s)
    BY <1>0, <1>1, BasketParts DEF ServerInv, ToMerge, Filled, Kept
  <2>3. \A l \in Listings : Held(l)' = Held(l)
    BY <2>1 DEF serverVars, Held
  <2>4. ServerInv'
    BY <2>1, <2>3 DEF serverVars, ServerInv, TypeOKServer
  <2> QED  BY <2>1, <2>2, <2>4 DEF serverVars, Kept, GoodsStay, Filled, IsEmpty
<1>2. CASE ToMerge(s)
  <2> DEFINE v == [l \in Listings |-> basket[c].units[l] + basket[s].units[l]]
  <2>1. basket[s].status = "ACTIVE" /\ basket[c].status = "ACTIVE"
    BY <1>2 DEF ServerInv, ToMerge
  <2>2. /\ \A l \in Listings : basket[s].units[l] \in Nat /\ basket[c].units[l] \in Nat
        /\ v \in [Listings -> Nat]
        /\ \A l \in Listings : v[l] = basket[c].units[l] + basket[s].units[l]
    <3>1. \A l \in Listings : basket[s].units[l] \in Nat /\ basket[c].units[l] \in Nat
      BY <1>0, BasketParts DEF ServerInv
    <3> QED  BY <3>1
  <2>3. /\ basket' = [basket EXCEPT ![s].status = "MERGED", ![c].units = v]
        /\ UNCHANGED <<session, offer, wanted>>
    <3>1. basket[c].units \in [Listings -> Nat]
      BY <1>0, BasketParts DEF ServerInv
    <3> QED  BY <1>0, <1>2, <3>1 DEF Merge, Moved, ServerInv, TypeOKServer
  <2> HIDE DEF v
  <2>4. /\ basket'[s] = [status |-> "MERGED", units |-> basket[s].units]
        /\ basket'[c] = [status |-> "ACTIVE", units |-> v]
        /\ \A p \in Owners \ {s, c} : basket'[p] = basket[p]
        /\ basket' \in [Owners -> [status : {"ACTIVE", "MERGED"}, units : [Listings -> Nat]]]
    <3>1. /\ [basket[s] EXCEPT !.status = "MERGED"] = [status |-> "MERGED", units |-> basket[s].units]
          /\ [basket[c] EXCEPT !.units = v] = [status |-> "ACTIVE", units |-> v]
      BY <1>0, <2>1 DEF ServerInv, TypeOKServer
    <3>2. basket' = [basket EXCEPT ![s] = [basket[s] EXCEPT !.status = "MERGED"],
                                   ![c] = [basket[c] EXCEPT !.units = v]]
      BY <1>0, <2>3 DEF ServerInv, TypeOKServer
    <3>3. basket' = [basket EXCEPT ![s] = [status |-> "MERGED", units |-> basket[s].units],
                                   ![c] = [status |-> "ACTIVE", units |-> v]]
      BY <3>1, <3>2
    <3>4. basket \in [Owners -> [status : {"ACTIVE", "MERGED"}, units : [Listings -> Nat]]]
          /\ basket[s].units \in [Listings -> Nat]
      BY <1>0 DEF ServerInv, TypeOKServer
    <3> QED  BY <1>0, <2>2, <3>3, <3>4
  <2>5. TypeOKServer'
    BY <2>3, <2>4 DEF ServerInv, TypeOKServer
  <2>6. ASSUME NEW l \in Listings PROVE Sigma(Held(l)', Owners) = Sigma(Held(l), Owners)
    <3> DEFINE f == Held(l)
               m == [p \in Owners |-> IF p = s THEN 0 ELSE f[p]]
               g == [p \in Owners |-> IF p = c THEN v[l] ELSE m[p]]
    <3>1. Held(l)' = g
      <4>1. \A p \in Owners :
              (IF basket'[p].status = "ACTIVE" THEN basket'[p].units[l] ELSE 0) = g[p]
        BY <1>0, <2>1, <2>4 DEF Held
      <4> HIDE DEF f, m
      <4> QED  BY <4>1 DEF Held
    <3>2. \A p \in Owners : f[p] \in Nat
      BY BasketParts DEF ServerInv
    <3>3. /\ f[s] = basket[s].units[l] /\ f[c] = basket[c].units[l]
          /\ v[l] = f[c] + f[s] /\ v[l] \in Nat
      BY <1>0, <2>1, <2>2 DEF Held
    <3> HIDE DEF f
    <3>4. /\ \A p \in Owners : f[p] \in Int /\ m[p] \in Int /\ g[p] \in Int
          /\ \A p \in Owners \ {s} : f[p] = m[p]
          /\ \A p \in Owners \ {c} : m[p] = g[p]
          /\ m[s] = 0 /\ m[c] = f[c] /\ g[c] = f[c] + f[s]
      BY <1>0, <3>2, <3>3
    <3> HIDE DEF g, m
    <3>5. \A p \in Owners : f[p] \in Int /\ m[p] \in Int
      BY <3>4
    <3>6. \A p \in Owners \ {s} : f[p] = m[p]
      BY <3>4
    <3>7. Sigma(m, Owners) = Sigma(f, Owners) + m[s] - f[s]
      BY <1>0, <3>5, <3>6, OwnersFinite, SigmaChange
    <3>8. Sigma(g, Owners) = Sigma(m, Owners) + g[c] - m[c]
      BY <1>0, <3>4, OwnersFinite, SigmaChange
    <3>9. Sigma(f, Owners) \in Int /\ Sigma(m, Owners) \in Int
      BY <3>4, OwnersFinite, SigmaInt
    <3>10. Sigma(g, Owners) = Sigma(f, Owners)
      BY <1>0, <3>2, <3>7, <3>8, <3>9, <3>4
    <3> QED  BY <3>1, <3>10 DEF f
  <2>7. ServerInv'
    <3>1. \A l \in Listings : wanted'[l] = Sigma(Held(l)', Owners)
      BY <2>3, <2>6 DEF ServerInv
    <3>2. \A d \in Customers : basket'[d].status = "ACTIVE"
      BY <1>0, <2>4, BasketsAssumption DEF ServerInv, Owners
    <3> QED  BY <2>5, <3>1, <3>2 DEF ServerInv
  <2>8. \A p \in Sessions : p = s \/ basket'[p] = basket[p]
    BY <2>4, BasketsAssumption DEF Owners
  <2>9. Kept(s)' /\ (IsEmpty(s) <=> IsEmpty(s)')
    BY <2>4 DEF Kept, IsEmpty
  <2>10. \A p \in Sessions \ {s} : (Kept(p) <=> Kept(p)') /\ (IsEmpty(p) <=> IsEmpty(p)')
    BY <2>8 DEF Kept, IsEmpty
  <2>11. GoodsStay
    BY <2>9, <2>10 DEF GoodsStay, Filled
  <2> QED  BY <2>3, <2>7, <2>9, <2>10, <2>11
<1> QED  BY <1>1, <1>2

\* Sessions and listings.
LEMMA BasketsAlone ==
  ASSUME ServerInv, UNCHANGED <<basket, wanted>>,
         session' \in [Sessions -> {"UNUSED", "LIVE", "EXPIRED"}], offer' \in [Listings -> Offers]
  PROVE  ServerInv' /\ GoodsStay
<1>1. \A l \in Listings : Held(l)' = Held(l)
  BY DEF Held
<1> QED  BY <1>1 DEF ServerInv, TypeOKServer, GoodsStay, Kept, Filled, IsEmpty

-----------------------------------------------------------------------------
(* The browser                                                             *)

\* A call of a tab, with what it carries.
OpType ==
  [step : {"creating"}, fresh : BOOLEAN]
    \cup [step : {"created", "adding", "added"}, session : Sessions, fresh : BOOLEAN]
    \cup [step : {"merging", "merged"}, session : Sessions, customer : Customers, fresh : BOOLEAN]

WebShapes ==
  /\ token \in Sessions \cup {None} /\ user \in Customers \cup {None}
  /\ op \in [Tabs -> OpType \cup {None}]
  /\ shown \subseteq Sessions /\ given \subseteq Sessions

Doing(t, steps) == op[t] # None /\ op[t].step \in steps
Fresh(t, steps) == Doing(t, steps) /\ op[t].fresh

\* A guest's call is fresh while nobody is signed in, and about the guest's session;
\* a merge is fresh while its customer is.
InEpoch ==
  /\ \A t \in Tabs : Fresh(t, {"creating", "created", "adding", "added"}) => user = None
  /\ \A t \in Tabs : Fresh(t, {"merging", "merged"}) => user # None
  /\ \A t \in Tabs : Fresh(t, {"adding", "added"}) => op[t].session = token

\* What was shown, or is about to be, is goods; a merge that ended has taken them.
HaveGoods ==
  /\ \A s \in shown : Filled(s)
  /\ \A t \in Tabs : Doing(t, {"added"}) => Filled(op[t].session)
  /\ \A t \in Tabs : Fresh(t, {"merged"}) /\ op[t].session \in shown => Kept(op[t].session)

WhereShown == \A s \in shown : Kept(s) \/ s = token \/ s \in given

WebInv == WebShapes /\ InEpoch /\ HaveGoods /\ WhereShown

\* The browser's server is the server.
LEMMA WebServer ==
  ASSUME NEW o, NEW l, NEW n, NEW s
  PROVE  /\ Web!AddItem(o, l, n) <=> AddItem(o, l, n)
         /\ Web!UpdateItem(o, l, n) <=> UpdateItem(o, l, n)
         /\ Web!Clear(o) <=> Clear(o)
         /\ Web!CheckOut(o) <=> CheckOut(o)
         /\ Web!Merge(s, o) <=> Merge(s, o)
         /\ Web!CreateSession(s) <=> CreateSession(s)
BY DEF Web!AddItem, AddItem, Web!UpdateItem, UpdateItem, Web!Clear, Clear, Web!CheckOut, CheckOut,
       Web!Emptied, Emptied, Web!EmptyCart, EmptyCart, Web!Nothing, Nothing, Web!Put, Put,
       Web!Answers, Answers, Web!Merge, Merge, Web!MergeAccepted, MergeAccepted, Web!Fits, Fits,
       Web!ToMerge, ToMerge, Web!IsEmpty, IsEmpty, Web!Moved, Moved,
       Web!CreateSession, CreateSession

\* Calls keep their shape, and what they carry is named by it.
LEMMA OpFacts ==
  ASSUME WebShapes, NEW t \in Tabs, op[t] # None
  PROVE  /\ op[t] \in OpType /\ op[t].fresh \in BOOLEAN
         /\ op[t].step \in {"creating", "created", "adding", "added", "merging", "merged"}
         /\ op[t].step # "creating" => op[t].session \in Sessions
         /\ op[t].step \in {"merging", "merged"} => op[t].customer \in Customers
         /\ [op[t] EXCEPT !.fresh = FALSE] \in OpType
         /\ [op[t] EXCEPT !.fresh = FALSE].step = op[t].step
         /\ [op[t] EXCEPT !.fresh = FALSE].fresh = FALSE
         /\ op[t].step # "creating" => [op[t] EXCEPT !.fresh = FALSE].session = op[t].session
<1> DEFINE x == op[t]
<1>1. x \in OpType
  BY DEF WebShapes
<1> HIDE DEF x
<1>2. /\ x.fresh \in BOOLEAN
      /\ x.step \in {"creating", "created", "adding", "added", "merging", "merged"}
      /\ x.step # "creating" => x.session \in Sessions
      /\ x.step \in {"merging", "merged"} => x.customer \in Customers
  BY <1>1 DEF OpType
<1>3. CASE x \in [step : {"creating"}, fresh : BOOLEAN]
  BY <1>1, <1>2, <1>3 DEF x, OpType
<1>4. CASE x \in [step : {"created", "adding", "added"}, session : Sessions, fresh : BOOLEAN]
  BY <1>1, <1>2, <1>4 DEF x, OpType
<1>5. CASE x \in [step : {"merging", "merged"}, session : Sessions, customer : Customers, fresh : BOOLEAN]
  BY <1>1, <1>2, <1>5 DEF x, OpType
<1> QED  BY <1>1, <1>3, <1>4, <1>5 DEF OpType

\* Baskets may change behind the browser.
LEMMA WebWaits ==
  ASSUME WebInv, GoodsStay, UNCHANGED <<token, user, op, shown, given>>
  PROVE  WebInv'
<1>1. WebShapes'
  BY DEF WebInv, WebShapes
<1>2. InEpoch'
  BY DEF WebInv, InEpoch, Fresh, Doing
<1>3. HaveGoods'
  <2>1. \A t \in Tabs : Doing(t, {"added", "merged"}) => op[t].session \in Sessions
    BY OpFacts DEF WebInv, Doing
  <2> QED  BY <2>1 DEF WebInv, WebShapes, HaveGoods, Fresh, Doing, GoodsStay
<1>4. WhereShown'
  BY DEF WebInv, WebShapes, WhereShown, GoodsStay
<1> QED  BY <1>1, <1>2, <1>3, <1>4 DEF WebInv

\* A tab's call comes to an end.
LEMMA WebEnds ==
  ASSUME WebInv, NEW t \in Tabs, op' = [op EXCEPT ![t] = None],
         UNCHANGED <<basket, token, user, shown, given>>
  PROVE  WebInv'
<1>1. /\ op' \in [Tabs -> OpType \cup {None}] /\ op'[t] = None
      /\ \A u \in Tabs \ {t} : op'[u] = op[u]
  BY DEF WebInv, WebShapes
<1>2. \A u \in Tabs : \A S : Doing(u, S)' => u # t /\ Doing(u, S) /\ op'[u] = op[u]
  BY <1>1 DEF Doing
<1>3. WebShapes'
  BY <1>1 DEF WebInv, WebShapes
<1>4. InEpoch'
  BY <1>2 DEF WebInv, InEpoch, Fresh
<1>5. HaveGoods' /\ WhereShown'
  BY <1>2 DEF WebInv, HaveGoods, WhereShown, Fresh, Filled, Kept, IsEmpty
<1> QED  BY <1>3, <1>4, <1>5 DEF WebInv

\* Somebody signs in or out, or gives a basket up: what was asked before is outdated.
LEMMA WebOutdates ==
  ASSUME WebInv, op' \in [Tabs -> OpType \cup {None}], NEW T \in SUBSET Tabs,
         \A t \in Tabs \ T : op'[t] = Web!Outdated(op)[t],
         \A t \in T : op'[t] = None \/
           (op'[t].step = "merging" /\ op'[t].session \in Sessions /\ op'[t].fresh /\ user' # None),
         user' \in Customers \cup {None}, UNCHANGED <<basket, shown>>,
         given' \subseteq Sessions, given \subseteq given',
         token' = token \/ (token' = None /\ token \in given')
  PROVE  WebInv'
<1>1. \A t \in Tabs : Doing(t, {"creating", "created", "adding", "added", "merged"})' =>
        /\ t \notin T /\ op[t] # None /\ op'[t].step = op[t].step /\ op'[t].fresh = FALSE
        /\ op[t].step # "creating" => op'[t].session = op[t].session
  BY OpFacts DEF WebInv, Doing, Web!Outdated
<1>2. \A t \in Tabs : Fresh(t, {"merging", "merged"})' => user' # None
  BY OpFacts DEF WebInv, Fresh, Doing, Web!Outdated
<1>3. WebShapes'
  BY DEF WebInv, WebShapes
<1>4. InEpoch'
  BY <1>1, <1>2 DEF InEpoch, Fresh, Doing
<1>5. HaveGoods'
  BY <1>1 DEF WebInv, HaveGoods, Fresh, Doing, Filled, Kept, IsEmpty
<1>6. WhereShown'
  BY DEF WebInv, WebShapes, WhereShown, Kept
<1> QED  BY <1>3, <1>4, <1>5, <1>6 DEF WebInv

\* A tab's call goes on, and becomes x.
LEMMA WebGoesOn ==
  ASSUME WebInv, NEW t \in Tabs, NEW x \in OpType, op' = [op EXCEPT ![t] = x], GoodsStay,
         UNCHANGED <<token, user, shown, given>>,
         x.fresh /\ x.step \in {"creating", "created", "adding", "added"} => user = None,
         x.fresh /\ x.step \in {"merging", "merged"} => user # None,
         x.fresh /\ x.step \in {"adding", "added"} => x.session = token,
         x.step = "added" => Filled(x.session)',
         x.step = "merged" /\ x.session \in shown => Kept(x.session)'
  PROVE  WebInv'
<1>1. op' \in [Tabs -> OpType \cup {None}] /\ op'[t] = x /\ \A u \in Tabs \ {t} : op'[u] = op[u]
  BY DEF WebInv, WebShapes
<1>2. \A u \in Tabs : \A S : Doing(u, S)' =>
        IF u = t THEN x.step \in S ELSE Doing(u, S) /\ op'[u] = op[u]
  BY <1>1 DEF Doing
<1>3. WebShapes'
  BY <1>1 DEF WebInv, WebShapes
<1>4. InEpoch'
  BY <1>1, <1>2 DEF WebInv, InEpoch, Fresh
<1>5. \A u \in Tabs : Doing(u, {"added", "merged"}) => op[u].session \in Sessions
  BY OpFacts DEF WebInv, Doing
<1>6. HaveGoods'
  <2>1. \A s \in shown' : Filled(s)'
    BY DEF WebInv, WebShapes, HaveGoods, GoodsStay
  <2>2. ASSUME NEW u \in Tabs, Doing(u, {"added"})' PROVE Filled(op[u].session)'
    <3>1. CASE u = t
      BY <1>1, <1>2, <2>2, <3>1
    <3>2. CASE u # t
      BY <1>2, <1>5, <2>2, <3>2 DEF WebInv, HaveGoods, GoodsStay, Doing
    <3> QED  BY <3>1, <3>2
  <2>3. ASSUME NEW u \in Tabs, Fresh(u, {"merged"})', op'[u].session \in shown'
        PROVE  Kept(op[u].session)'
    <3>1. CASE u = t
      BY <1>1, <1>2, <2>3, <3>1 DEF Fresh
    <3>2. CASE u # t
      BY <1>2, <1>5, <2>3, <3>2 DEF WebInv, HaveGoods, GoodsStay, Doing, Fresh
    <3> QED  BY <3>1, <3>2
  <2> QED  BY <2>1, <2>2, <2>3 DEF HaveGoods
<1>7. WhereShown'
  BY DEF WebInv, WebShapes, WhereShown, GoodsStay
<1> QED  BY <1>3, <1>4, <1>6, <1>7 DEF WebInv

\* A step that leaves the baskets as they are.
LEMMA SameGoods == ASSUME UNCHANGED basket PROVE GoodsStay
BY DEF GoodsStay, Kept, Filled, IsEmpty

WebActs ==
  \/ \E t \in Tabs :
       \/ Web!Tap(t) \/ Web!UseTheirs(t) \/ Web!Adopt(t)
       \/ \E s \in Sessions : Web!Create(t, s)
       \/ Web!ServeAdd(t) \/ Web!Show(t) \/ Web!Fail(t)
       \/ \E c \in customers : Web!SignIn(t, c)
       \/ Web!ServeMerge(t) \/ Web!EndMerge(t)
  \/ Web!SignOut \/ Web!StartNew
  \/ \E c \in customers : Web!MemberChange(c)

\* A guest's call before it reaches the server.
LEMMA WebAsks ==
  ASSUME WebInv, ServerInv, NEW t \in Tabs, Web!Tap(t) \/ Web!UseTheirs(t)
  PROVE  WebInv' /\ UNCHANGED serverVars
<1>1. UNCHANGED serverVars /\ UNCHANGED <<token, user, shown, given>> /\ GoodsStay
  BY SameGoods DEF Web!Tap, Web!UseTheirs, Web!serverVars, serverVars, Web!history
<1>2. /\ [step |-> "creating", fresh |-> TRUE] \in OpType
      /\ token # None => [step |-> "adding", session |-> token, fresh |-> TRUE] \in OpType
  BY DEF WebInv, WebShapes, OpType
<1>3. CASE op' = [op EXCEPT ![t] = None]
  BY <1>1, <1>3, WebEnds DEF serverVars
<1>4. CASE op' = [op EXCEPT ![t] = Web!Creating] /\ user = None
  <2>1. PICK x \in OpType : op' = [op EXCEPT ![t] = x] /\ x.step = "creating"
    BY <1>2, <1>4 DEF Web!Creating
  <2> QED  BY <1>1, <1>4, <2>1, WebGoesOn
<1>5. CASE op' = [op EXCEPT ![t] = Web!Adding(token)] /\ token # None /\ user = None
  <2>1. PICK x \in OpType : op' = [op EXCEPT ![t] = x] /\ x.step = "adding" /\ x.session = token
    BY <1>2, <1>5 DEF Web!Adding
  <2> QED  BY <1>1, <1>5, <2>1, WebGoesOn
<1>6. CASE Web!Tap(t)
  BY <1>4, <1>5, <1>6 DEF Web!Tap
<1>7. CASE Web!UseTheirs(t)
  <2>1. op[t].fresh => user = None
    BY <1>7 DEF Web!UseTheirs, Web!MayCreate, Web!At, WebInv, InEpoch, Fresh, Doing
  <2> QED  BY <1>3, <1>5, <1>7, <2>1 DEF Web!UseTheirs
<1> QED  BY <1>6, <1>7

\* A new guest session, in the browser once it is adopted.
LEMMA WebCreates ==
  ASSUME WebInv, ServerInv, NEW t \in Tabs, NEW s \in Sessions, Web!Create(t, s)
  PROVE  WebInv' /\ ServerInv'
<1>1. /\ Doing(t, {"creating"}) /\ CreateSession(s)
      /\ op' = [op EXCEPT ![t] = [step |-> "created", session |-> s, fresh |-> op[t].fresh]]
      /\ UNCHANGED <<token, user, shown, given>>
  BY WebServer DEF Web!Create, Web!MayCreate, Web!At, Doing, Web!history
<1>2. UNCHANGED <<basket, wanted, offer>> /\ session' \in [Sessions -> {"UNUSED", "LIVE", "EXPIRED"}]
  BY <1>1 DEF CreateSession, ServerInv, TypeOKServer
<1>3. ServerInv' /\ GoodsStay
  BY <1>2, BasketsAlone DEF ServerInv, TypeOKServer
<1>4. PICK x \in OpType : op' = [op EXCEPT ![t] = x] /\ x.step = "created" /\ x.fresh = op[t].fresh
  <2>1. op[t].fresh \in BOOLEAN
    BY <1>1, OpFacts DEF Doing, WebInv
  <2>2. [step |-> "created", session |-> s, fresh |-> op[t].fresh] \in OpType
    BY <2>1 DEF OpType
  <2> QED  BY <1>1, <2>2
<1>5. x.fresh => user = None
  BY <1>1, <1>4 DEF WebInv, InEpoch, Fresh, Doing
<1> QED  BY <1>1, <1>3, <1>4, <1>5, WebGoesOn

LEMMA WebAdopts ==
  ASSUME WebInv, NEW t \in Tabs, Web!Adopt(t)
  PROVE  WebInv' /\ UNCHANGED serverVars
<1>1. Doing(t, {"created"}) /\ UNCHANGED serverVars /\ UNCHANGED <<user, shown, given>> /\ GoodsStay
  BY SameGoods DEF Web!Adopt, Web!At, Doing, Web!serverVars, serverVars, Web!history
<1>2. CASE ~op[t].fresh
  BY <1>1, <1>2, WebEnds DEF Web!Adopt, serverVars
<1>3. CASE op[t].fresh
  <2> DEFINE w == IF token = None THEN op[t].session ELSE token
             x == [step |-> "adding", session |-> w, fresh |-> TRUE]
  <2>1. token' = w /\ op' = [op EXCEPT ![t] = x] /\ w \in Sessions
    BY <1>1, <1>3, OpFacts DEF Web!Adopt, Web!Adding, Doing, WebInv, WebShapes
  <2>2. x \in OpType /\ x.step = "adding" /\ x.session = w
    BY <2>1 DEF OpType
  <2>3. user = None
    BY <1>1, <1>3 DEF WebInv, InEpoch, Fresh, Doing
  <2>4. token = None \/ w = token
    OBVIOUS
  <2> HIDE DEF w, x
  <2>5. op'[t] = x /\ op' \in [Tabs -> OpType \cup {None}] /\ \A u \in Tabs \ {t} : op'[u] = op[u]
    BY <2>1, <2>2 DEF WebInv, WebShapes
  <2>6. \A u \in Tabs \ {t} : \A S : Doing(u, S)' => Doing(u, S) /\ op'[u] = op[u]
    BY <2>5 DEF Doing
  <2>7. WebShapes'
    BY <1>1, <2>1, <2>5 DEF WebInv, WebShapes
  <2>8. None \notin Sessions
    BY BasketsAssumption DEF Owners
  <2>9. InEpoch'
    <3>1. ASSUME NEW u \in Tabs, Fresh(u, {"adding", "added"})' PROVE op'[u].session = token'
      <4>1. CASE u = t
        BY <2>1, <2>2, <2>5, <4>1
      <4>2. CASE u # t
        <5>1. Fresh(u, {"adding", "added"}) /\ op'[u] = op[u]
          BY <2>6, <3>1, <4>2 DEF Fresh
        <5>2. op[u].session = token /\ op[u].session \in Sessions
          BY <5>1, OpFacts DEF WebInv, InEpoch, Fresh, Doing
        <5> QED  BY <2>1, <2>4, <2>8, <5>1, <5>2
      <4> QED  BY <4>1, <4>2
    <3>2. \A u \in Tabs : ~Fresh(u, {"merging", "merged"})'
      BY <2>2, <2>3, <2>5, <2>6 DEF WebInv, InEpoch, Fresh, Doing
    <3> QED  BY <1>1, <2>3, <3>1, <3>2 DEF InEpoch
  <2>10. HaveGoods'
    <3>1. \A u \in Tabs : \A S \in {{"added"}, {"merged"}} :
            Doing(u, S)' => Doing(u, S) /\ op'[u] = op[u]
      BY <2>2, <2>5, <2>6 DEF Doing
    <3>2. UNCHANGED basket
      BY <1>1 DEF serverVars
    <3> QED  BY <1>1, <3>1, <3>2 DEF WebInv, HaveGoods, Fresh, Filled, Kept, IsEmpty
  <2>11. WhereShown'
    BY <1>1, <2>1, <2>4, <2>8 DEF WebInv, WebShapes, WhereShown, Kept, serverVars
  <2> QED  BY <1>1, <2>7, <2>9, <2>10, <2>11 DEF WebInv
<1> QED  BY <1>1, <1>2, <1>3, OpFacts DEF Doing, WebInv

\* addItem for a tab, and its answer.
LEMMA WebAdds ==
  ASSUME WebInv, ServerInv, NEW t \in Tabs, Web!ServeAdd(t)
  PROVE  WebInv' /\ ServerInv'
<1>1. /\ op[t] # None /\ op[t].step = "adding"
      /\ op' = [op EXCEPT ![t] = [op[t] EXCEPT !.step = "added"]]
      /\ UNCHANGED <<token, user, shown, given>>
  BY DEF Web!ServeAdd, Web!At, Web!history
<1>2. PICK s \in Sessions : s = op[t].session
  BY <1>1, OpFacts DEF WebInv
<1>3. PICK l \in Listings : AddItem(s, l, 1)
  BY <1>2, WebServer DEF Web!ServeAdd
<1>4. ServerInv' /\ ~IsEmpty(s)' /\ GoodsStay
  BY <1>3, AddKeeps DEF Owners
<1>5. PICK x \in OpType :
        op' = [op EXCEPT ![t] = x] /\ x.step = "added" /\ x.session = s /\ x.fresh = op[t].fresh
  <2>1. op[t] \in [step : {"created", "adding", "added"}, session : Sessions, fresh : BOOLEAN]
    BY <1>1, OpFacts DEF WebInv, OpType
  <2>2. /\ [op[t] EXCEPT !.step = "added"] \in OpType
        /\ [op[t] EXCEPT !.step = "added"].step = "added"
        /\ [op[t] EXCEPT !.step = "added"].session = op[t].session
        /\ [op[t] EXCEPT !.step = "added"].fresh = op[t].fresh
    BY <2>1 DEF OpType
  <2> QED  BY <1>1, <1>2, <2>2
<1>6. x.fresh => user = None /\ s = token
  BY <1>1, <1>2, <1>5 DEF WebInv, InEpoch, Fresh, Doing
<1>7. Filled(x.session)'
  BY <1>4, <1>5 DEF Filled
<1> QED  BY <1>1, <1>4, <1>5, <1>6, <1>7, WebGoesOn

LEMMA WebShows ==
  ASSUME WebInv, NEW t \in Tabs, Web!Show(t)
  PROVE  WebInv' /\ UNCHANGED serverVars
<1>1. /\ Doing(t, {"added"}) /\ op' = [op EXCEPT ![t] = None]
      /\ UNCHANGED serverVars /\ UNCHANGED <<token, user, given>>
      /\ shown' = IF op[t].fresh THEN shown \cup {op[t].session} ELSE shown
  BY DEF Web!Show, Web!At, Doing, Web!serverVars, serverVars
<1>2. CASE ~op[t].fresh
  BY <1>1, <1>2, WebEnds DEF serverVars
<1>3. CASE op[t].fresh
  <2>1. op[t].session = token /\ token \in Sessions /\ Filled(token) /\ user = None
    BY <1>1, <1>3, OpFacts DEF WebInv, InEpoch, HaveGoods, Fresh, Doing
  <2>2. /\ op' \in [Tabs -> OpType \cup {None}] /\ op'[t] = None
        /\ \A u \in Tabs \ {t} : op'[u] = op[u]
    BY <1>1 DEF WebInv, WebShapes
  <2>3. \A u \in Tabs : \A S : Doing(u, S)' => Doing(u, S) /\ op'[u] = op[u]
    BY <2>2 DEF Doing
  <2>4. WebShapes'
    BY <1>1, <1>3, <2>1, <2>2 DEF WebInv, WebShapes
  <2>5. InEpoch'
    BY <1>1, <2>3 DEF WebInv, InEpoch, Fresh
  <2>6. \A u \in Tabs : ~Fresh(u, {"merged"})'
    BY <2>1, <2>3 DEF WebInv, InEpoch, Fresh, Doing
  <2>7. HaveGoods'
    BY <1>1, <1>3, <2>1, <2>3, <2>6 DEF WebInv, HaveGoods, Filled, Kept, IsEmpty, serverVars
  <2>8. WhereShown'
    BY <1>1, <1>3, <2>1 DEF WebInv, WhereShown, Kept, serverVars
  <2> QED  BY <1>1, <2>4, <2>5, <2>7, <2>8 DEF WebInv
<1> QED  BY <1>1, <1>2, <1>3, OpFacts DEF Doing, WebInv

LEMMA WebFails ==
  ASSUME WebInv, NEW t \in Tabs, Web!Fail(t)
  PROVE  WebInv' /\ UNCHANGED serverVars
BY WebEnds DEF Web!Fail, Web!serverVars, serverVars, Web!history

\* Signing in and out, and giving a basket up.
LEMMA OutdatedTyped == ASSUME WebInv PROVE Web!Outdated(op) \in [Tabs -> OpType \cup {None}]
BY OpFacts DEF Web!Outdated, WebInv

LEMMA WebSigns ==
  ASSUME WebInv, Web!SignOut \/ Web!StartNew \/ \E t \in Tabs, c \in Customers : Web!SignIn(t, c)
  PROVE  WebInv' /\ UNCHANGED serverVars
<1>1. CASE Web!SignOut
  <2>1. /\ op' = Web!Outdated(op) /\ UNCHANGED <<token, shown, given>>
        /\ user' = None /\ UNCHANGED serverVars
    BY <1>1 DEF Web!SignOut, Web!serverVars, serverVars, Web!history
  <2>2. given' \subseteq Sessions /\ given \subseteq given' /\ {} \in SUBSET Tabs
    BY <2>1 DEF WebInv, WebShapes
  <2> QED  BY <2>1, <2>2, OutdatedTyped, WebOutdates DEF serverVars
<1>2. CASE Web!StartNew
  <2>1. /\ op' = Web!Outdated(op) /\ UNCHANGED <<user, shown>> /\ UNCHANGED serverVars
        /\ given' = given \cup {token} /\ token # None /\ token' = None
    BY <1>2 DEF Web!StartNew, Web!serverVars, serverVars
  <2>2. given' \subseteq Sessions /\ given \subseteq given' /\ {} \in SUBSET Tabs
        /\ user' \in Customers \cup {None} /\ token \in given'
    BY <2>1 DEF WebInv, WebShapes
  <2> QED  BY <2>1, <2>2, OutdatedTyped, WebOutdates DEF serverVars
<1>3. ASSUME NEW t \in Tabs, NEW c \in Customers, Web!SignIn(t, c)
      PROVE  WebInv' /\ UNCHANGED serverVars
  <2> DEFINE x == IF token = None THEN None
                  ELSE [step |-> "merging", session |-> token, customer |-> c, fresh |-> TRUE]
  <2>1. /\ op' = [Web!Outdated(op) EXCEPT ![t] = x] /\ UNCHANGED serverVars
        /\ UNCHANGED <<token, shown, given>> /\ user' = c
    BY <1>3 DEF Web!SignIn, Web!serverVars, serverVars, Web!history
  <2>2. c # None
    BY BasketsAssumption DEF Owners
  <2>3. x \in OpType \cup {None}
        /\ (x = None \/ (x.step = "merging" /\ x.session \in Sessions /\ x.fresh))
    BY DEF WebInv, WebShapes, OpType
  <2> HIDE DEF x
  <2>4. op' \in [Tabs -> OpType \cup {None}] /\ op'[t] = x
        /\ \A u \in Tabs \ {t} : op'[u] = Web!Outdated(op)[u]
    BY <2>1, <2>3, OutdatedTyped
  <2>5. given' \subseteq Sessions /\ given \subseteq given' /\ {t} \in SUBSET Tabs
    BY <2>1 DEF WebInv, WebShapes
  <2>6. \A u \in {t} : op'[u] = None \/
           (op'[u].step = "merging" /\ op'[u].session \in Sessions /\ op'[u].fresh /\ user' # None)
    BY <2>1, <2>2, <2>3, <2>4
  <2> QED  BY <2>1, <2>4, <2>5, <2>6, WebOutdates DEF serverVars
<1> QED  BY <1>1, <1>2, <1>3

\* The merge after a sign-in.
LEMMA WebMerges ==
  ASSUME WebInv, ServerInv, NEW t \in Tabs, Web!ServeMerge(t)
  PROVE  WebInv' /\ ServerInv'
<1>1. /\ op[t] # None /\ op[t].step = "merging"
      /\ op' = [op EXCEPT ![t] = [op[t] EXCEPT !.step = "merged"]]
      /\ UNCHANGED <<token, user, shown, given>> /\ Merge(op[t].session, op[t].customer)
  BY WebServer DEF Web!ServeMerge, Web!At, Web!history
<1>2. PICK s \in Sessions, c \in Customers : s = op[t].session /\ c = op[t].customer
  BY <1>1, OpFacts DEF WebInv
<1>3. PICK x \in OpType :
        op' = [op EXCEPT ![t] = x] /\ x.step = "merged" /\ x.session = s /\ x.fresh = op[t].fresh
  <2>1. op[t] \in [step : {"merging", "merged"}, session : Sessions, customer : Customers, fresh : BOOLEAN]
    BY <1>1, OpFacts DEF WebInv, OpType
  <2>2. /\ [op[t] EXCEPT !.step = "merged"] \in OpType
        /\ [op[t] EXCEPT !.step = "merged"].step = "merged"
        /\ [op[t] EXCEPT !.step = "merged"].session = op[t].session
        /\ [op[t] EXCEPT !.step = "merged"].fresh = op[t].fresh
    BY <2>1 DEF OpType
  <2> QED  BY <1>1, <1>2, <2>2
<1>4. x.fresh => user # None
  BY <1>1, <1>3 DEF WebInv, InEpoch, Fresh, Doing
<1>5. ServerInv' /\ GoodsStay /\ (Filled(s) => Kept(s)')
  BY <1>1, <1>2, MergeKeeps
<1>6. x.session \in shown => Kept(x.session)'
  BY <1>3, <1>5 DEF WebInv, HaveGoods
<1> QED  BY <1>1, <1>3, <1>4, <1>5, <1>6, WebGoesOn

LEMMA WebMerged ==
  ASSUME WebInv, NEW t \in Tabs, Web!EndMerge(t)
  PROVE  WebInv' /\ UNCHANGED serverVars
<1>1. /\ Doing(t, {"merged"}) /\ op' = [op EXCEPT ![t] = None]
      /\ UNCHANGED serverVars /\ UNCHANGED <<user, shown, given>>
      /\ token' = IF op[t].fresh /\ token = op[t].session THEN None ELSE token
  BY DEF Web!EndMerge, Web!At, Doing, Web!serverVars, serverVars, Web!history
<1>2. CASE ~(op[t].fresh /\ token = op[t].session)
  BY <1>1, <1>2, WebEnds DEF serverVars
<1>3. CASE op[t].fresh /\ token = op[t].session
  <2>1. /\ op' \in [Tabs -> OpType \cup {None}] /\ op'[t] = None
        /\ \A u \in Tabs \ {t} : op'[u] = op[u]
    BY <1>1 DEF WebInv, WebShapes
  <2>2. \A u \in Tabs : \A S : Doing(u, S)' => Doing(u, S) /\ op'[u] = op[u]
    BY <2>1 DEF Doing
  <2>3. user # None /\ (token \in shown => Kept(token))
    BY <1>1, <1>3 DEF WebInv, InEpoch, HaveGoods, Fresh, Doing
  <2>4. WebShapes'
    BY <1>1, <1>3, <2>1 DEF WebInv, WebShapes
  <2>5. InEpoch'
    <3>1. \A u \in Tabs : ~Fresh(u, {"adding", "added"})
      BY <2>3 DEF WebInv, InEpoch, Fresh, Doing
    <3> QED  BY <1>1, <2>2, <3>1 DEF WebInv, InEpoch, Fresh
  <2>6. HaveGoods'
    BY <1>1, <2>2 DEF WebInv, HaveGoods, Fresh, Filled, Kept, IsEmpty, serverVars
  <2>7. WhereShown'
    BY <1>1, <2>3 DEF WebInv, WhereShown, Kept, serverVars
  <2> QED  BY <2>4, <2>5, <2>6, <2>7, <1>1 DEF WebInv
<1> QED  BY <1>2, <1>3

\* Whoever signs in has a basket in use elsewhere.
LEMMA MemberKeeps ==
  ASSUME ServerInv, NEW c \in Customers,
         \/ \E l \in Listings :
              AddItem(c, l, 1) \/ \E n \in 0..basket[c].units[l] : UpdateItem(c, l, n)
         \/ Clear(c) \/ CheckOut(c)
  PROVE  ServerInv' /\ GoodsStay /\ UNCHANGED session /\ \A s \in Sessions : basket'[s] = basket[s]
<1>1. c \in Owners /\ basket[c].status = "ACTIVE"
  BY DEF Owners, ServerInv
<1>2. ServerInv' /\ UNCHANGED session /\ \A p \in Owners \ {c} : basket'[p] = basket[p]
  BY <1>1, AddKeeps, UpdateKeeps, EmptyingKeeps DEF Clear, CheckOut
<1> QED  BY <1>2, OthersKeep

LEMMA WebStep ==
  ASSUME WebInv, ServerInv, customers \subseteq Customers, WebActs
  PROVE  WebInv' /\ ServerInv'
<1>1. ASSUME UNCHANGED serverVars PROVE ServerInv'
  BY <1>1, BasketsAlone DEF serverVars, ServerInv, TypeOKServer
<1>2. ASSUME NEW c \in customers, Web!MemberChange(c) PROVE WebInv' /\ ServerInv'
  <2>1. ServerInv' /\ GoodsStay
    BY <1>2, WebServer, MemberKeeps DEF Web!MemberChange
  <2>2. UNCHANGED <<token, user, op, shown, given>>
    BY <1>2 DEF Web!MemberChange, Web!client, Web!history
  <2> QED  BY <2>1, <2>2, WebWaits
<1>3. ASSUME NEW t \in Tabs, NEW c \in customers, Web!SignIn(t, c) PROVE WebInv' /\ ServerInv'
  BY <1>1, <1>3, WebSigns
<1>4. CASE Web!SignOut \/ Web!StartNew
  BY <1>1, <1>4, WebSigns
<1>5. ASSUME NEW t \in Tabs,
             \/ Web!Tap(t) \/ Web!UseTheirs(t) \/ Web!Adopt(t)
             \/ \E s \in Sessions : Web!Create(t, s)
             \/ Web!ServeAdd(t) \/ Web!Show(t) \/ Web!Fail(t) \/ Web!ServeMerge(t) \/ Web!EndMerge(t)
      PROVE  WebInv' /\ ServerInv'
  BY <1>1, <1>5, WebAsks, WebCreates, WebAdopts, WebAdds, WebShows, WebFails, WebMerges, WebMerged
<1> QED  BY <1>2, <1>3, <1>4, <1>5 DEF WebActs

-----------------------------------------------------------------------------
(* The phone                                                               *)

CallOn ==
  [op : {"add"}, session : Sessions, listing : Listings]
    \cup [op : {"merge"}, session : Sessions, customer : Customers]
MergeRow == [call : Calls, session : Sessions, user : Customers, fresh : BOOLEAN, done : BOOLEAN]

PhoneShapes ==
  /\ token \in Sessions \cup {None} /\ making \in Sessions \cup {None}
  /\ brought \in Sessions \cup {None}
  /\ pending \in Customers \cup {None} /\ user \in Customers \cup {None}
  /\ signing \in Customers \cup {None}
  /\ merging \in MergeRow \cup {None}
  /\ mail \in [Calls -> CallOn \cup {None}]

\* Nothing is in a guest's basket, or on its way there.
Unused(s) == IsEmpty(s) /\ \A n \in Calls : mail[n] # None => mail[n].session # s

\* A session that is being started, or was not yet, is unused.
Started ==
  /\ making # None => token = None /\ session[making] # "UNUSED" /\ Unused(making)
  /\ \A s \in Sessions : session[s] = "UNUSED" => Unused(s) /\ s # token

\* Who signs in with goods has written the note.
SignsIn ==
  /\ signing # None => user = None
  /\ signing # None /\ token # None => pending = signing \/ Unused(token)

\* The goods a customer signed in with are in his basket, or the phone still has the
\* note and the session.  The merge it waits for is one of that session, and done if it
\* says so.
Brings ==
  /\ brought # None =>
       user # None /\ (Kept(brought) \/ (pending = user /\ token = brought /\ ~IsEmpty(brought)))
  /\ merging # None /\ merging.done /\ merging.fresh /\ merging.session = brought => Kept(brought)
  /\ merging # None /\ mail[merging.call] # None =>
       mail[merging.call].op = "merge" /\ mail[merging.call].session = merging.session

PhoneInv == PhoneShapes /\ Started /\ SignsIn /\ Brings

\* The phone's server is the server.
LEMMA PhoneServer ==
  ASSUME NEW o, NEW l, NEW n, NEW s
  PROVE  /\ Phone!AddItem(o, l, n) <=> AddItem(o, l, n)
         /\ Phone!UpdateItem(o, l, n) <=> UpdateItem(o, l, n)
         /\ Phone!Clear(o) <=> Clear(o)
         /\ Phone!CheckOut(o) <=> CheckOut(o)
         /\ Phone!Merge(s, o) <=> Merge(s, o)
         /\ Phone!CreateSession(s) <=> CreateSession(s)
         /\ Phone!ToMerge(s) <=> ToMerge(s)
BY DEF Phone!AddItem, AddItem, Phone!UpdateItem, UpdateItem, Phone!Clear, Clear,
       Phone!CheckOut, CheckOut, Phone!Emptied, Emptied, Phone!EmptyCart, EmptyCart,
       Phone!Nothing, Nothing, Phone!Put, Put, Phone!Answers, Answers, Phone!Merge, Merge,
       Phone!MergeAccepted, MergeAccepted, Phone!Fits, Fits, Phone!ToMerge, ToMerge,
       Phone!IsEmpty, IsEmpty, Phone!Moved, Moved, Phone!CreateSession, CreateSession

\* A merge that is waited for.
LEMMA MergingFacts ==
  ASSUME PhoneShapes, merging # None
  PROVE  /\ merging \in MergeRow /\ merging.call \in Calls /\ merging.session \in Sessions
         /\ merging.user \in Customers
         /\ [merging EXCEPT !.done = TRUE] \in MergeRow
         /\ [merging EXCEPT !.done = TRUE].call = merging.call
         /\ [merging EXCEPT !.done = TRUE].session = merging.session
         /\ [merging EXCEPT !.done = TRUE].fresh = merging.fresh
         /\ [merging EXCEPT !.fresh = FALSE] \in MergeRow
         /\ [merging EXCEPT !.fresh = FALSE].call = merging.call
         /\ [merging EXCEPT !.fresh = FALSE].session = merging.session
         /\ [merging EXCEPT !.fresh = FALSE].fresh = FALSE
<1>1. merging \in MergeRow
  BY DEF PhoneShapes
<1> QED  BY <1>1 DEF MergeRow

\* Calls are served, lost or given up, and the app may die.
LEMMA PhoneWaits ==
  ASSUME PhoneInv, UNCHANGED <<token, pending, user, brought>>, GoodsStay,
         \A s \in Sessions : session'[s] = "UNUSED" <=> session[s] = "UNUSED",
         \A s \in Sessions : Unused(s) => IsEmpty(s)',
         making' \in {making, None}, signing' \in {signing, None},
         mail' \in [Calls -> CallOn \cup {None}],
         \A n \in Calls : mail'[n] # None => mail'[n] = mail[n],
         \/ merging' = merging \/ merging' = None
         \/ /\ merging # None /\ merging' = [merging EXCEPT !.done = TRUE]
            /\ merging.session = brought => Kept(brought)'
  PROVE  PhoneInv'
<1>1. merging' # None =>
        /\ merging # None /\ merging' \in MergeRow
        /\ merging'.call = merging.call /\ merging.call \in Calls
        /\ merging'.session = merging.session /\ merging'.fresh = merging.fresh
        /\ merging'.done => merging.done \/ (merging.session = brought => Kept(brought)')
  BY MergingFacts DEF PhoneInv
<1>2. PhoneShapes'
  BY <1>1 DEF PhoneInv, PhoneShapes
<1>3. \A s \in Sessions : Unused(s) => Unused(s)'
  BY DEF Unused
<1>4. Started'
  BY <1>3 DEF PhoneInv, PhoneShapes, Started
<1>5. SignsIn'
  BY <1>3 DEF PhoneInv, PhoneShapes, SignsIn
<1>6. brought # None => /\ Kept(brought) => Kept(brought)'
                        /\ ~IsEmpty(brought) => Kept(brought)' \/ ~IsEmpty(brought)'
  BY DEF PhoneInv, PhoneShapes, GoodsStay, Filled
<1>7. Brings'
  <2>1. brought' # None => user' # None
          /\ (Kept(brought)' \/ (pending' = user' /\ token' = brought' /\ ~IsEmpty(brought)'))
    BY <1>6 DEF PhoneInv, Brings
  <2>2. merging' # None /\ merging'.done /\ merging'.fresh /\ merging'.session = brought'
          => Kept(brought)'
    BY <1>1, MergingFacts, BasketsAssumption DEF PhoneInv, PhoneShapes, Brings, GoodsStay
  <2>3. merging' # None /\ mail'[merging'.call] # None =>
          mail'[merging'.call].op = "merge" /\ mail'[merging'.call].session = merging'.session
    BY <1>1 DEF PhoneInv, Brings
  <2> QED  BY <2>1, <2>2, <2>3 DEF Brings
<1> QED  BY <1>2, <1>4, <1>5, <1>7 DEF PhoneInv

\* A call taken from the network.
LEMMA TakenFacts ==
  ASSUME PhoneShapes, NEW n \in Calls, Phone!Taken(n)
  PROVE  /\ mail' \in [Calls -> CallOn \cup {None}]
         /\ \A m \in Calls : mail'[m] # None => mail'[m] = mail[m]
BY DEF PhoneShapes, Phone!Taken

\* A new call.
LEMMA SendFacts ==
  ASSUME PhoneShapes, NEW n \in Calls, NEW x \in CallOn, Phone!Send(n, x)
  PROVE  /\ mail' \in [Calls -> CallOn \cup {None}] /\ mail'[n] = x
         /\ \A m \in Calls \ {n} : mail'[m] = mail[m]
         /\ \A s \in Sessions : Unused(s) /\ s # x.session /\ UNCHANGED basket => Unused(s)'
BY DEF PhoneShapes, Phone!Send, Unused, IsEmpty

\* ensureGuestToken
LEMMA PhoneStarts ==
  ASSUME PhoneInv, ServerInv, NEW s \in Sessions, Phone!StartSession(s)
  PROVE  PhoneInv' /\ ServerInv'
<1>1. /\ user = None /\ signing = None /\ token = None /\ making = None /\ making' = s
      /\ CreateSession(s) /\ UNCHANGED <<token, pending, user, signing, merging, mail, brought>>
  BY PhoneServer DEF Phone!StartSession, Phone!IsGuest, Phone!storage
<1>2. /\ UNCHANGED <<basket, wanted, offer>> /\ session[s] = "UNUSED"
      /\ session' = [session EXCEPT ![s] = "LIVE"]
      /\ session' \in [Sessions -> {"UNUSED", "LIVE", "EXPIRED"}] /\ session'[s] = "LIVE"
      /\ \A p \in Sessions \ {s} : session'[p] = session[p]
  BY <1>1 DEF CreateSession, ServerInv, TypeOKServer
<1>3. ServerInv'
  BY <1>2, BasketsAlone DEF ServerInv, TypeOKServer
<1>4. \A p \in Sessions : Unused(p) => Unused(p)'
  BY <1>1, <1>2 DEF Unused, IsEmpty
<1>5. PhoneShapes'
  BY <1>1 DEF PhoneInv, PhoneShapes
<1>6. Started'
  BY <1>1, <1>2, <1>4 DEF PhoneInv, Started
<1>7. SignsIn'
  BY <1>1 DEF PhoneInv, SignsIn
<1>8. Brings'
  BY <1>1, <1>2 DEF PhoneInv, Brings, Kept, IsEmpty
<1> QED  BY <1>3, <1>5, <1>6, <1>7, <1>8 DEF PhoneInv

LEMMA PhoneStores ==
  ASSUME PhoneInv, Phone!StoreSession
  PROVE  PhoneInv' /\ UNCHANGED serverVars
<1>1. /\ making # None /\ token' = making /\ making' = None /\ UNCHANGED serverVars
      /\ UNCHANGED <<basket, session, pending, user, signing, merging, mail, brought>>
  BY DEF Phone!StoreSession, Phone!serverVars, serverVars
<1>2. making \in Sessions /\ token = None /\ session[making] # "UNUSED" /\ Unused(making)
  BY <1>1 DEF PhoneInv, PhoneShapes, Started
<1>3. \A p \in Sessions : Unused(p) => Unused(p)'
  BY <1>1 DEF Unused, IsEmpty
<1>4. PhoneShapes'
  BY <1>1 DEF PhoneInv, PhoneShapes
<1>5. Started'
  BY <1>1, <1>2, <1>3 DEF PhoneInv, Started
<1>6. SignsIn'
  BY <1>1, <1>2, <1>3 DEF PhoneInv, SignsIn
<1>7. brought # None => Kept(brought)
  BY <1>1, <1>2 DEF PhoneInv, Brings
<1>8. Brings'
  BY <1>1, <1>7 DEF PhoneInv, Brings, Kept, IsEmpty
<1> QED  BY <1>1, <1>4, <1>5, <1>6, <1>8 DEF PhoneInv

\* A guest's calls.
LEMMA PhoneSends ==
  ASSUME PhoneInv, NEW n \in Calls, NEW l \in Listings, Phone!FreeNumber(n), Phone!SendAdd(n, l)
  PROVE  PhoneInv' /\ UNCHANGED serverVars
<1>1. /\ user = None /\ signing = None /\ token \in Sessions /\ token # None /\ UNCHANGED serverVars
      /\ UNCHANGED <<basket, session, token, pending, user, making, signing, merging, brought>>
  BY DEF PhoneInv, PhoneShapes, Phone!SendAdd, Phone!IsGuest, Phone!serverVars, serverVars,
         Phone!storage, Phone!memory
<1>2. PICK x \in CallOn : Phone!Send(n, x) /\ x.session = token
  <2>1. [op |-> "add", session |-> token, listing |-> l] \in CallOn
    BY <1>1 DEF CallOn
  <2> QED  BY <2>1 DEF Phone!SendAdd
<1>3. /\ mail' \in [Calls -> CallOn \cup {None}] /\ \A m \in Calls \ {n} : mail'[m] = mail[m]
      /\ \A s \in Sessions : Unused(s) /\ s # token => Unused(s)'
  BY <1>1, <1>2, SendFacts DEF PhoneInv
<1>4. PhoneShapes'
  BY <1>1, <1>3 DEF PhoneInv, PhoneShapes
<1>5. Started'
  BY <1>1, <1>3 DEF PhoneInv, PhoneShapes, Started
<1>6. SignsIn'
  BY <1>1 DEF PhoneInv, SignsIn
<1>7. merging # None => merging.call \in Calls \ {n}
  BY MergingFacts DEF PhoneInv, Phone!FreeNumber
<1>8. Brings'
  BY <1>1, <1>3, <1>7 DEF PhoneInv, Brings, Kept, IsEmpty
<1> QED  BY <1>1, <1>4, <1>5, <1>6, <1>8 DEF PhoneInv

LEMMA PhoneChanges ==
  ASSUME PhoneInv, ServerInv, Phone!GuestChange
  PROVE  PhoneInv' /\ ServerInv'
<1>1. /\ user = None /\ signing = None /\ token # None
      /\ UNCHANGED <<token, pending, user, making, signing, merging, mail, brought>>
  BY DEF Phone!GuestChange, Phone!IsGuest, Phone!storage, Phone!memory
<1>2. PICK s \in Sessions : s = token
  BY <1>1 DEF PhoneInv, PhoneShapes
<1>3. PICK l \in Listings : \E n \in 0..basket[s].units[l] : UpdateItem(s, l, n)
  BY <1>2, PhoneServer DEF Phone!GuestChange
<1>4. ServerInv' /\ UNCHANGED session /\ \A p \in Owners \ {s} : basket'[p] = basket[p]
  BY <1>3, UpdateKeeps DEF Owners
<1>5. \A p \in Sessions \ {s} : Unused(p) => Unused(p)'
  BY <1>1, <1>4 DEF Unused, IsEmpty, Owners
<1>6. PhoneShapes'
  BY <1>1 DEF PhoneInv, PhoneShapes
<1>7. Started'
  BY <1>1, <1>2, <1>4, <1>5 DEF PhoneInv, Started
<1>8. SignsIn'
  BY <1>1 DEF PhoneInv, SignsIn
<1>9. brought = None /\ None \notin Sessions
  BY <1>1, BasketsAssumption DEF PhoneInv, Brings, Owners
<1>10. Brings'
  BY <1>1, <1>9, MergingFacts DEF PhoneInv, Brings
<1> QED  BY <1>4, <1>6, <1>7, <1>8, <1>10 DEF PhoneInv

\* Signing in: the note, then the session.
LEMMA PhoneMarks ==
  ASSUME PhoneInv, NEW c \in Customers, Phone!Mark(c)
  PROVE  PhoneInv' /\ UNCHANGED serverVars
<1>1. /\ user = None /\ signing = None /\ UNCHANGED serverVars /\ signing' = c
      /\ pending' = IF token = None THEN pending ELSE c
      /\ UNCHANGED <<basket, session, token, user, making, merging, mail, brought>>
  BY DEF Phone!Mark, Phone!IsGuest, Phone!serverVars, serverVars
<1>2. \A p \in Sessions : Unused(p) => Unused(p)'
  BY <1>1 DEF Unused, IsEmpty
<1>3. PhoneShapes' /\ Started' /\ SignsIn'
  BY <1>1, <1>2 DEF PhoneInv, PhoneShapes, Started, SignsIn
<1>4. Brings'
  BY <1>1 DEF PhoneInv, Brings, Kept, IsEmpty
<1> QED  BY <1>1, <1>3, <1>4 DEF PhoneInv

LEMMA PhoneSigns ==
  ASSUME PhoneInv, Phone!SignIn
  PROVE  PhoneInv' /\ UNCHANGED serverVars
<1>1. /\ signing # None /\ user' = signing /\ signing' = None /\ merging' = Phone!Stale
      /\ brought' = IF token # None /\ ToMerge(token) THEN token ELSE None
      /\ UNCHANGED serverVars /\ UNCHANGED <<basket, session, token, pending, making, mail>>
  BY PhoneServer DEF Phone!SignIn, Phone!serverVars, serverVars
<1>2. merging' # None =>
        /\ merging # None /\ merging' \in MergeRow /\ merging'.call = merging.call
        /\ merging'.session = merging.session /\ merging'.fresh = FALSE
  BY <1>1, MergingFacts DEF PhoneInv, Phone!Stale
<1>3. \A p \in Sessions : Unused(p) => Unused(p)'
  BY <1>1 DEF Unused, IsEmpty
<1>4. PhoneShapes'
  BY <1>1, <1>2 DEF PhoneInv, PhoneShapes
<1>5. Started'
  BY <1>1, <1>3 DEF PhoneInv, PhoneShapes, Started
<1>6. SignsIn'
  BY <1>1 DEF PhoneInv, SignsIn
<1>7. brought' # None => pending' = user' /\ token' = brought' /\ ~IsEmpty(brought)' /\ user' # None
  BY <1>1 DEF PhoneInv, SignsIn, ToMerge, Unused, IsEmpty
<1>8. Brings'
  BY <1>1, <1>2, <1>7 DEF PhoneInv, Brings
<1> QED  BY <1>1, <1>4, <1>5, <1>6, <1>8 DEF PhoneInv

LEMMA PhoneSignsOut ==
  ASSUME PhoneInv, Phone!SignOut
  PROVE  PhoneInv' /\ UNCHANGED serverVars
<1>1. /\ user # None /\ user' = None /\ pending' = None /\ merging' = Phone!Stale /\ brought' = None
      /\ UNCHANGED serverVars /\ UNCHANGED <<basket, session, token, making, signing, mail>>
  BY DEF Phone!SignOut, Phone!serverVars, serverVars
<1>2. merging' # None =>
        /\ merging # None /\ merging' \in MergeRow /\ merging'.call = merging.call
        /\ merging'.session = merging.session /\ merging'.fresh = FALSE
  BY <1>1, MergingFacts DEF PhoneInv, Phone!Stale
<1>3. \A p \in Sessions : Unused(p) => Unused(p)'
  BY <1>1 DEF Unused, IsEmpty
<1>4. PhoneShapes'
  BY <1>1, <1>2 DEF PhoneInv, PhoneShapes
<1>5. Started' /\ SignsIn'
  BY <1>1, <1>3 DEF PhoneInv, PhoneShapes, Started, SignsIn
<1>6. Brings'
  BY <1>1, <1>2 DEF PhoneInv, Brings
<1> QED  BY <1>1, <1>4, <1>5, <1>6 DEF PhoneInv

\* retryBasketMerge
LEMMA PhoneAsks ==
  ASSUME PhoneInv, NEW n \in Calls, Phone!AskMerge(n)
  PROVE  PhoneInv' /\ UNCHANGED serverVars
<1>1. /\ user # None /\ pending = user /\ token # None /\ merging = None
      /\ merging' = [call |-> n, session |-> token, user |-> user, fresh |-> TRUE, done |-> FALSE]
      /\ UNCHANGED serverVars
      /\ UNCHANGED <<basket, session, token, pending, user, making, signing, brought>>
  BY DEF Phone!AskMerge, Phone!serverVars, serverVars, Phone!storage
<1>2. token \in Sessions /\ user \in Customers
  BY <1>1 DEF PhoneInv, PhoneShapes
<1>3. PICK x \in CallOn : Phone!Send(n, x) /\ x.op = "merge" /\ x.session = token
  <2>1. [op |-> "merge", session |-> token, customer |-> user] \in CallOn
    BY <1>2 DEF CallOn
  <2> QED  BY <2>1 DEF Phone!AskMerge
<1>4. /\ mail' \in [Calls -> CallOn \cup {None}] /\ mail'[n] = x
      /\ \A s \in Sessions : Unused(s) /\ s # token => Unused(s)'
  BY <1>1, <1>3, SendFacts DEF PhoneInv
<1>5. merging' \in MergeRow /\ merging'.call = n /\ merging'.session = token /\ ~merging'.done
  BY <1>1, <1>2 DEF MergeRow
<1>6. PhoneShapes'
  BY <1>1, <1>4, <1>5 DEF PhoneInv, PhoneShapes
<1>7. Started'
  BY <1>1, <1>4 DEF PhoneInv, PhoneShapes, Started
<1>8. SignsIn'
  BY <1>1 DEF PhoneInv, SignsIn
<1>9. Brings'
  BY <1>1, <1>3, <1>4, <1>5 DEF PhoneInv, Brings, Kept, IsEmpty
<1> QED  BY <1>1, <1>6, <1>7, <1>8, <1>9 DEF PhoneInv

LEMMA PhoneMerged ==
  ASSUME PhoneInv, Phone!Merged
  PROVE  PhoneInv' /\ UNCHANGED serverVars
<1>1. /\ merging # None /\ merging.done /\ merging.fresh /\ user = merging.user
      /\ token = merging.session
      /\ token' = None /\ pending' = None /\ merging' = None /\ UNCHANGED serverVars
      /\ UNCHANGED <<basket, session, user, making, signing, mail, brought>>
  BY DEF Phone!Merged, Phone!serverVars, serverVars
<1>2. brought # None => Kept(brought)
  BY <1>1 DEF PhoneInv, Brings
<1>3. \A p \in Sessions : Unused(p) => Unused(p)'
  BY <1>1 DEF Unused, IsEmpty
<1>4. None \notin Sessions
  BY BasketsAssumption DEF Owners
<1>5. PhoneShapes' /\ Started' /\ SignsIn'
  BY <1>1, <1>3, <1>4 DEF PhoneInv, PhoneShapes, Started, SignsIn
<1>6. Brings'
  BY <1>1, <1>2 DEF PhoneInv, Brings, Kept
<1> QED  BY <1>1, <1>5, <1>6 DEF PhoneInv

\* What the server does with the phone's calls.
LEMMA PhoneAdds ==
  ASSUME PhoneInv, ServerInv, NEW n \in Calls, Phone!ServeAdd(n)
  PROVE  PhoneInv' /\ ServerInv'
<1>1. /\ mail[n] # None /\ mail[n].op = "add" /\ Phone!Taken(n)
      /\ UNCHANGED <<token, pending, user, making, signing, merging, brought>>
  BY DEF Phone!ServeAdd, Phone!storage, Phone!memory
<1>2. PICK s \in Sessions, l \in Listings : s = mail[n].session /\ AddItem(s, l, 1)
  <2>1. mail[n] \in CallOn
    BY <1>1 DEF PhoneInv, PhoneShapes
  <2>2. mail[n].session \in Sessions /\ mail[n].listing \in Listings
    BY <1>1, <2>1 DEF CallOn
  <2> QED  BY <2>2, PhoneServer DEF Phone!ServeAdd
<1>3. ServerInv' /\ UNCHANGED session /\ GoodsStay /\ \A p \in Owners \ {s} : basket'[p] = basket[p]
  BY <1>2, AddKeeps DEF Owners
<1>4. \A p \in Sessions : Unused(p) => IsEmpty(p)'
  BY <1>1, <1>2, <1>3 DEF Unused, IsEmpty, Owners
<1> QED  BY <1>1, <1>3, <1>4, TakenFacts, PhoneWaits DEF PhoneInv

LEMMA PhoneMerges ==
  ASSUME PhoneInv, ServerInv, NEW n \in Calls, Phone!ServeMerge(n)
  PROVE  PhoneInv' /\ ServerInv'
<1>1. /\ mail[n] # None /\ mail[n].op = "merge" /\ Phone!Taken(n)
      /\ UNCHANGED <<token, pending, user, making, signing, brought>>
      /\ merging' = IF merging # None /\ merging.call = n THEN [merging EXCEPT !.done = TRUE]
                    ELSE merging
  BY DEF Phone!ServeMerge, Phone!storage
<1>2. PICK s \in Sessions, c \in Customers : s = mail[n].session /\ Merge(s, c)
  <2>1. mail[n] \in CallOn
    BY <1>1 DEF PhoneInv, PhoneShapes
  <2>2. mail[n].session \in Sessions /\ mail[n].customer \in Customers
    BY <1>1, <2>1 DEF CallOn
  <2> QED  BY <2>2, PhoneServer DEF Phone!ServeMerge
<1>3. /\ ServerInv' /\ UNCHANGED session /\ GoodsStay /\ (Filled(s) => Kept(s)')
      /\ \A p \in Sessions : IsEmpty(p) => IsEmpty(p)'
  BY <1>2, MergeKeeps
<1>4. \A p \in Sessions : Unused(p) => IsEmpty(p)'
  BY <1>3 DEF Unused
<1>5. merging # None /\ merging.call = n /\ merging.session = brought => Kept(brought)'
  <2> SUFFICES ASSUME merging # None, merging.call = n, merging.session = brought
               PROVE  Kept(brought)'
    OBVIOUS
  <2>1. brought = s
    BY <1>1, <1>2 DEF PhoneInv, Brings
  <2>2. Filled(s)
    BY <2>1, BasketsAssumption DEF PhoneInv, Brings, Filled, Owners
  <2>3. Kept(s)' /\ brought' = s
    BY <1>1, <1>3, <2>1, <2>2
  <2> QED  BY <2>3
<1> QED  BY <1>1, <1>3, <1>4, <1>5, TakenFacts, PhoneWaits DEF PhoneInv

\* Calls lost or given up, and a crash.
LEMMA PhoneLoses ==
  ASSUME PhoneInv, Phone!Crash \/ Phone!GiveUp \/ \E n \in Calls : Phone!Lose(n)
  PROVE  PhoneInv' /\ UNCHANGED serverVars
<1>1. /\ UNCHANGED serverVars /\ UNCHANGED <<basket, session, token, pending, user, brought>>
      /\ making' \in {making, None} /\ signing' \in {signing, None}
      /\ merging' = merging \/ merging' = None
      /\ UNCHANGED mail \/ \E n \in Calls : Phone!Taken(n)
  BY DEF Phone!Crash, Phone!GiveUp, Phone!Lose, Phone!serverVars, serverVars, Phone!storage,
         Phone!memory
<1>2. /\ mail' \in [Calls -> CallOn \cup {None}]
      /\ \A m \in Calls : mail'[m] # None => mail'[m] = mail[m]
  BY <1>1, TakenFacts DEF PhoneInv, PhoneShapes
<1>3. GoodsStay /\ \A s \in Sessions : Unused(s) => IsEmpty(s)'
  BY <1>1, SameGoods DEF Unused, IsEmpty
<1> QED  BY <1>1, <1>2, <1>3, PhoneWaits

\* Baskets and sessions change behind the phone.
LEMMA PhoneApart ==
  ASSUME PhoneInv, UNCHANGED <<token, pending, user, making, signing, merging, mail, brought>>,
         GoodsStay,
         \A s \in Sessions : session'[s] = "UNUSED" <=> session[s] = "UNUSED",
         \A s \in Sessions : basket'[s] = basket[s]
  PROVE  PhoneInv'
<1>1. \A s \in Sessions : Unused(s) => IsEmpty(s)'
  BY DEF Unused, IsEmpty
<1>2. mail' \in [Calls -> CallOn \cup {None}]
  BY DEF PhoneInv, PhoneShapes
<1> QED  BY <1>1, <1>2, PhoneWaits

PhoneActs ==
  \/ \E s \in Sessions : Phone!StartSession(s)
  \/ Phone!StoreSession \/ Phone!GuestChange
  \/ \E c \in customers : Phone!Mark(c)
  \/ Phone!SignIn \/ Phone!SignOut \/ Phone!Crash
  \/ Phone!GiveUp \/ Phone!Merged
  \/ Phone!PlaceOrder \/ Phone!LoseOrder \/ Phone!RetryOrder \/ Phone!OrderSettled
  \/ \E c \in customers : Phone!OrderArrives(c)
  \/ \E n \in Calls :
       \/ \E l \in Listings : Phone!FreeNumber(n) /\ Phone!SendAdd(n, l)
       \/ Phone!AskMerge(n) \/ Phone!ServeAdd(n)
       \/ Phone!ServeMerge(n) \/ Phone!Lose(n)
  \/ \E c \in customers : Phone!MemberChange(c)

LEMMA PhoneStep ==
  ASSUME PhoneInv, ServerInv, customers \subseteq Customers, PhoneActs
  PROVE  PhoneInv' /\ ServerInv'
<1>1. ASSUME UNCHANGED serverVars PROVE ServerInv'
  BY <1>1, BasketsAlone DEF serverVars, ServerInv, TypeOKServer
<1>2. ASSUME NEW c \in Customers,
             \/ Phone!MemberChange(c) \/ Phone!OrderArrives(c)
             \/ (Phone!PlaceOrder \/ Phone!RetryOrder) /\ c = user
      PROVE  PhoneInv' /\ ServerInv'
  <2>1. UNCHANGED <<token, pending, user, making, signing, merging, mail, brought>>
    BY <1>2 DEF Phone!MemberChange, Phone!OrderArrives, Phone!PlaceOrder, Phone!RetryOrder,
                Phone!storage, Phone!memory
  <2>2. ServerInv' /\ GoodsStay /\ UNCHANGED session /\ \A s \in Sessions : basket'[s] = basket[s]
    BY <1>2, PhoneServer, MemberKeeps
       DEF Phone!MemberChange, Phone!OrderArrives, Phone!PlaceOrder, Phone!RetryOrder
  <2> QED  BY <2>1, <2>2, PhoneApart
<1>3. CASE Phone!PlaceOrder \/ Phone!RetryOrder
  <2>1. user \in Customers
    BY <1>3 DEF Phone!PlaceOrder, Phone!MayOrder, Phone!RetryOrder, PhoneInv, PhoneShapes
  <2>2. PICK c \in Customers : c = user
    BY <2>1
  <2> QED  BY <1>2, <1>3, <2>2
<1>4. ASSUME NEW c \in customers,
             Phone!MemberChange(c) \/ Phone!Mark(c) \/ Phone!OrderArrives(c)
      PROVE  PhoneInv' /\ ServerInv'
  BY <1>1, <1>2, <1>4, PhoneMarks
<1>5. CASE \/ Phone!StoreSession \/ Phone!GuestChange \/ Phone!SignIn \/ Phone!SignOut
           \/ Phone!Crash \/ Phone!GiveUp \/ Phone!Merged
           \/ \E s \in Sessions : Phone!StartSession(s)
  BY <1>1, <1>5, PhoneStores, PhoneChanges, PhoneSigns, PhoneSignsOut, PhoneLoses,
     PhoneMerged, PhoneStarts
<1>6. ASSUME NEW n \in Calls,
             \/ \E l \in Listings : Phone!FreeNumber(n) /\ Phone!SendAdd(n, l)
             \/ Phone!AskMerge(n) \/ Phone!ServeAdd(n) \/ Phone!ServeMerge(n) \/ Phone!Lose(n)
      PROVE  PhoneInv' /\ ServerInv'
  BY <1>1, <1>6, PhoneSends, PhoneAsks, PhoneAdds, PhoneMerges, PhoneLoses
<1>7. CASE Phone!LoseOrder \/ Phone!OrderSettled
  <2>1. /\ UNCHANGED serverVars
        /\ UNCHANGED <<basket, session, token, pending, user, making, signing, merging, mail, brought>>
    BY <1>7 DEF Phone!LoseOrder, Phone!OrderSettled, Phone!serverVars, serverVars, Phone!memory
  <2> QED  BY <1>1, <2>1, SameGoods, PhoneApart
<1> QED  BY <1>3, <1>4, <1>5, <1>6, <1>7 DEF PhoneActs

-----------------------------------------------------------------------------
(* Both clients over one server                                            *)

\* The server's part, and that of the client the world looks at.  What belongs to the
\* other client stands still.
BasketsInv ==
  /\ ServerInv
  /\ device \in {"phone", "browser"} /\ customers \subseteq Customers
  /\ device = "phone" => PhoneInv /\ shown = {}
  /\ device = "browser" => WebInv /\ brought = None

\* Nobody has anything yet.
LEMMA BasketsStart == ASSUME Init PROVE BasketsInv
<1>1. /\ session = [s \in Sessions |-> "UNUSED"] /\ basket = [o \in Owners |-> EmptyCart]
      /\ offer \in [Listings -> Offers] /\ wanted = Nothing
      /\ token = None /\ user = None /\ pending = None
      /\ making = None /\ signing = None /\ merging = None
      /\ mail = [n \in Calls |-> None] /\ brought = None
      /\ op = [t \in Tabs |-> None] /\ shown = {} /\ given = {}
  BY DEF Init, Phone!Init, Phone!InitServer, Web!Init, Phone!EmptyCart, EmptyCart,
         Phone!Nothing, Nothing, Phone!Owners, Owners
<1>2. EmptyCart \in [status : {"ACTIVE", "MERGED"}, units : [Listings -> Nat]]
      /\ EmptyCart.status = "ACTIVE" /\ EmptyCart.units = Nothing
  BY DEF EmptyCart, Nothing
<1>3. TypeOKServer /\ \A c \in Customers : basket[c].status = "ACTIVE"
  BY <1>1, <1>2 DEF TypeOKServer, Nothing, Owners
<1>4. \A l \in Listings : wanted[l] = Sigma(Held(l), Owners)
  <2> TAKE l \in Listings
  <2>1. \A o \in Owners : Held(l)[o] = 0
    BY <1>1, <1>2 DEF Held, Nothing
  <2>2. Sigma(Held(l), Owners) = 0
    BY <2>1, OwnersFinite, SigmaZero
  <2> QED  BY <1>1, <2>2 DEF Nothing
<1>5. device \in {"phone", "browser"} /\ customers \subseteq Customers
  BY DeviceAssumption DEF Init
<1>6. PhoneInv
  <2>1. None \notin Sessions
    BY BasketsAssumption DEF Owners
  <2>2. \A s \in Sessions : Unused(s)
    BY <1>1, <1>2 DEF Unused, IsEmpty, Owners
  <2>3. PhoneShapes
    BY <1>1 DEF PhoneShapes
  <2> QED  BY <1>1, <2>1, <2>2, <2>3 DEF PhoneInv, Started, SignsIn, Brings
<1>7. WebInv
  BY <1>1 DEF WebInv, WebShapes, InEpoch, HaveGoods, WhereShown, Fresh, Doing
<1> QED  BY <1>1, <1>3, <1>4, <1>5, <1>6, <1>7 DEF BasketsInv, ServerInv

\* Sessions expire and listings change.
LEMMA WorldStep ==
  ASSUME ServerInv,
         (\E s \in MayLapse : Lapse(s)) \/ (\E l \in Listings, o \in Offers : Relist(l, o))
  PROVE  /\ ServerInv' /\ GoodsStay /\ UNCHANGED basket
         /\ \A s \in Sessions : session'[s] = "UNUSED" <=> session[s] = "UNUSED"
<1>1. UNCHANGED <<basket, wanted>>
  BY DEF Lapse, Relist
<1>2. /\ session' \in [Sessions -> {"UNUSED", "LIVE", "EXPIRED"}] /\ offer' \in [Listings -> Offers]
      /\ \A s \in Sessions : session'[s] = "UNUSED" <=> session[s] = "UNUSED"
  BY DEF Lapse, Relist, ServerInv, TypeOKServer
<1> QED  BY <1>1, <1>2, BasketsAlone

worldVars == <<serverVars, world, token, user, phoneVars, webVars>>

LEMMA BasketsStep == ASSUME BasketsInv, [Next]_worldVars PROVE BasketsInv'
<1>1. CASE UNCHANGED worldVars
  <2>1. /\ UNCHANGED <<session, basket, offer, wanted>>
        /\ UNCHANGED <<token, user, op, shown, given>>
        /\ UNCHANGED <<pending, making, signing, merging, mail, brought>>
        /\ UNCHANGED <<device, customers>>
    BY <1>1 DEF worldVars, serverVars, world, phoneVars, webVars
  <2>2. ServerInv' /\ GoodsStay
    BY <2>1, BasketsAlone DEF BasketsInv, ServerInv, TypeOKServer
  <2> QED  BY <2>1, <2>2, PhoneApart, WebWaits DEF BasketsInv
<1>2. CASE device = "phone" /\ PhoneActs /\ UNCHANGED <<world, webVars>>
  <2>1. PhoneInv' /\ ServerInv'
    BY <1>2, PhoneStep DEF BasketsInv
  <2> QED  BY <1>2, <2>1 DEF BasketsInv, world, webVars
<1>3. CASE device = "browser" /\ WebActs /\ UNCHANGED <<world, phoneVars>>
  <2>1. WebInv' /\ ServerInv'
    BY <1>3, WebStep DEF BasketsInv
  <2> QED  BY <1>3, <2>1 DEF BasketsInv, world, phoneVars
<1>4. CASE /\ (\E s \in MayLapse : Lapse(s)) \/ (\E l \in Listings, o \in Offers : Relist(l, o))
           /\ UNCHANGED <<world, token, user, phoneVars, webVars>>
  <2>1. /\ UNCHANGED <<token, user, op, shown, given>>
        /\ UNCHANGED <<pending, making, signing, merging, mail, brought>>
        /\ UNCHANGED <<device, customers>>
    BY <1>4 DEF world, phoneVars, webVars
  <2>2. /\ ServerInv' /\ GoodsStay /\ UNCHANGED basket
        /\ \A s \in Sessions : session'[s] = "UNUSED" <=> session[s] = "UNUSED"
    BY <1>4, WorldStep DEF BasketsInv
  <2> QED  BY <2>1, <2>2, PhoneApart, WebWaits DEF BasketsInv
<1>5. CASE Next
  BY <1>2, <1>3, <1>4, <1>5 DEF Next, OnPhone, OnWeb, OnServer, PhoneActs, WebActs
<1> QED  BY <1>1, <1>5

\* The inductive invariant of the baskets and both clients.
THEOREM BasketsSafety == Spec => []BasketsInv
<1> QED  BY BasketsStart, BasketsStep, PTL DEF Spec, worldVars

\* Sessions, baskets and listings always have their types.
THEOREM BasketTypes == Spec => []TypeOKServer
<1>1. BasketsInv => TypeOKServer
  BY DEF BasketsInv, ServerInv
<1> QED  BY <1>1, BasketsSafety, PTL

\* A unit somebody wants is in one active basket, once, whichever merges are lost, late
\* or sent again (mergeGuestCart).
THEOREM UnitsOnce == Spec => []EachUnitOnce
<1>1. BasketsInv => EachUnitOnce
  BY SumOfBaskets DEF BasketsInv, ServerInv, EachUnitOnce
<1> QED  BY <1>1, BasketsSafety, PTL

\* Goods a tab has shown are where the visitor finds them, whatever the tabs do
\* in between (ensureGuestToken, rawRequest).
THEOREM ShownGoodsAreKept == Spec => []ShownGoodsStay
<1>1. BasketsInv => ShownGoodsStay
  BY DEF BasketsInv, WebInv, WhereShown, Kept, ShownGoodsStay, Web!ShownGoodsStay
<1> QED  BY <1>1, BasketsSafety, PTL

\* Whoever makes a new order on the phone has what he signed in with in his basket, over
\* restarts and merges of unknown fate (placeOrder, hasPendingBasketMerge).  An order of
\* his that is sent again (recoverCheckout), or arrives late, may go without it, but then
\* the phone still knows that it has to be merged.
THEOREM OrdersTakeGuestItems == Spec => OrderTakesGuestItems
<1> DEFINE Takes ==
      /\ Phone!PlaceOrder \/ Phone!LoseOrder => Phone!GoodsTaken
      /\ Phone!RetryOrder \/ (\E c \in Customers : c = user /\ Phone!OrderArrives(c)) =>
           Phone!GoodsTaken \/ pending = user
<1>1. ASSUME BasketsInv, [Next]_worldVars
      PROVE  [Takes]_Phone!vars
  <2>1. CASE device = "phone"
    <3>1. Phone!GoodsTaken \/ pending = user
      BY <1>1, <2>1 DEF BasketsInv, PhoneInv, Brings, Kept, Phone!GoodsTaken
    <3> QED  BY <3>1 DEF Phone!PlaceOrder, Phone!LoseOrder, Phone!MayOrder
  <2>2. CASE device = "browser"
    BY <1>1, <2>2 DEF BasketsInv, Phone!GoodsTaken
  <2> QED  BY <1>1, <2>1, <2>2 DEF BasketsInv
<1>2. Spec => [][Next]_worldVars
  BY DEF Spec, worldVars
<1>3. BasketsInv /\ [Next]_worldVars => [Takes]_Phone!vars
  BY <1>1
<1> QED  BY <1>2, <1>3, BasketsSafety, PTL DEF OrderTakesGuestItems, Phone!OrderTakesGuestItems
=============================================================================
