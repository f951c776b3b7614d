----------------------------- MODULE MoneyProofs -----------------------------
(***************************************************************************)
(* What a checkout costs, and what becomes of what was collected.          *)
(*                                                                         *)
(* First OrderMoney, for any shops, listings, lines, prices, rates and     *)
(* proposals.  The loop over the changes of a proposal takes off the shelf *)
(* what it puts into the lines, turn by turn (TurnMoves, LoopMoves); every *)
(* total follows the lines (TotalsOf), and the roll-up of a combined order *)
(* leaves what came and the fees (CollectExact).                           *)
(*                                                                         *)
(* Then RefundSettlement, for any orders, payments, refunds, shops and     *)
(* settlements, whatever the checkouts collected.  Two facts carry these   *)
(* proofs.  The loop that shares an amount among the orders of a payment   *)
(* is greedy: an order gives only once those before it have given          *)
(* everything (WaterfallShares), and no other shares that add up to the    *)
(* amount are greedy (WaterfallOnly).  And what is kept of a refund that   *)
(* was approved is just that: while a later order of the payment gives     *)
(* something of it, nothing is left of the earlier ones (Shared).  No      *)
(* later claim can take back what an order gave, so the loop finds the     *)
(* same shares again when the refund is paid.                              *)
(*                                                                         *)
(* Last MCMoney, where the books of a checkout open (CloseStep): every     *)
(* order in them is for something (Billed), because a line that counts is  *)
(* for something (Full).  What a shop earned may be less than nothing.     *)
(***************************************************************************)
EXTENDS MCMoney, SequenceTheorems, SumTheorems

-----------------------------------------------------------------------------
(* Lines and what they come to                                             *)

\* The sums of OrderMoney are those of SumTheorems.
LEMMA SumIsSum == \A f, S : Sum(f, S) = Sigma(f, S)
BY Zenon DEF Sum, Sigma

\* What a line keeps from the shelf of a listing.
Units(item, l) ==
  IF item.status = "CONFIRMED" /\ item.listing = l THEN item.quantity ELSE 0

UnitsIn(items, l) == [i \in DOMAIN items |-> Units(items[i], l)]

\* Any number of lines: they are numbered from 1, and each is an item.
LEMMA LinesFacts ==
  ASSUME NEW items \in Seq(OrderItem)
  PROVE  /\ Len(items) \in Nat /\ DOMAIN items = 1..Len(items) /\ IsFiniteSet(DOMAIN items)
         /\ \A i \in DOMAIN items : items[i] \in OrderItem
<1>1. Len(items) \in Nat /\ DOMAIN items = 1..Len(items)
  BY LenProperties
<1>2. IsFiniteSet(1..Len(items))
  BY <1>1, FS_Interval
<1>3. \A i \in DOMAIN items : items[i] \in OrderItem
  BY <1>1, ElementOfSeq
<1> QED
  BY <1>1, <1>2, <1>3

\* What is held of a listing is what each line keeps of it.
LEMMA HeldIsUnits ==
  ASSUME NEW items \in Seq(OrderItem), NEW l
  PROVE  /\ \A i \in DOMAIN items : UnitsIn(items, l)[i] \in Nat
         /\ Held(items, l) = Sigma(UnitsIn(items, l), DOMAIN items)
         /\ Held(items, l) \in Nat
<1> DEFINE D == DOMAIN items
           H == {i \in Confirmed(items) : items[i].listing = l}
           u == UnitsIn(items, l)
<1>1. IsFiniteSet(D) /\ \A i \in D : items[i] \in OrderItem
  BY LinesFacts
<1>2. /\ H \in SUBSET D
      /\ \A i \in D : i \in H <=> items[i].status = "CONFIRMED" /\ items[i].listing = l
  BY DEF Confirmed
<1>3. \A i \in D : u[i] = IF i \in H THEN items[i].quantity ELSE 0
  BY <1>2 DEF UnitsIn, Units
<1>4. \A i \in D : u[i] \in Nat
  BY <1>1, <1>3 DEF OrderItem
<1>5. \A i \in H : UnitsOf(items)[i] = u[i]
  BY <1>2, <1>3 DEF UnitsOf
<1>6. Held(items, l) = Sigma(UnitsOf(items), H)
  BY SumIsSum DEF Held
<1> HIDE DEF H, u
<1>7. IsFiniteSet(H) /\ IsFiniteSet(D \ H)
  BY <1>1, <1>2, FS_Subset
<1>8. Sigma(UnitsOf(items), H) = Sigma(u, H)
  BY <1>5, <1>7, SigmaSame
<1>9. Sigma(u, D \ H) = 0
  BY <1>3, <1>7, SigmaZero
<1>10. Sigma(u, D) = Sigma(u, H) + Sigma(u, D \ H)
  BY <1>1, <1>2, <1>4, SigmaParts
<1>11. Sigma(u, D) \in Nat /\ Sigma(u, H) \in Nat
  BY <1>1, <1>2, <1>4, <1>7, SigmaNat
<1>12. Held(items, l) = Sigma(u, D)
  BY <1>6, <1>8, <1>9, <1>10, <1>11
<1> QED
  BY <1>4, <1>11, <1>12 DEF u

\* Lines that differ in one hold what that one keeps now instead of what it kept.
LEMMA HeldDiffers ==
  ASSUME NEW items \in Seq(OrderItem), NEW now \in Seq(OrderItem), Len(now) = Len(items),
         NEW i \in DOMAIN items, \A j \in DOMAIN items : j # i => now[j] = items[j], NEW l
  PROVE  Held(now, l) = Held(items, l) + Units(now[i], l) - Units(items[i], l)
<1> DEFINE D == DOMAIN items
           u == UnitsIn(items, l)
           v == UnitsIn(now, l)
<1>1. IsFiniteSet(D) /\ DOMAIN now = D
  BY LinesFacts
<1>2. /\ Held(items, l) = Sigma(u, D) /\ Held(now, l) = Sigma(v, DOMAIN now)
      /\ \A j \in D : u[j] \in Nat
      /\ \A j \in DOMAIN now : v[j] \in Nat
  BY HeldIsUnits
<1>3. /\ \A j \in D : u[j] = Units(items[j], l)
      /\ \A j \in DOMAIN now : v[j] = Units(now[j], l)
  BY DEF UnitsIn
<1> HIDE DEF u, v
<1>4. \A j \in D : u[j] \in Int /\ v[j] \in Int
  BY <1>1, <1>2
<1>5. \A j \in D \ {i} : u[j] = v[j]
  BY <1>1, <1>3
<1>6. i \in D
  OBVIOUS
<1> HIDE DEF D
<1>7. Sigma(v, D) = Sigma(u, D) + v[i] - u[i]
  BY <1>1, <1>4, <1>5, <1>6, SigmaChange
<1> QED
  BY <1>1, <1>2, <1>3, <1>6, <1>7

\* A new line holds what it keeps.
LEMMA HeldAfterAppend ==
  ASSUME NEW items \in Seq(OrderItem), NEW item \in OrderItem, NEW l
  PROVE  /\ Append(items, item) \in Seq(OrderItem)
         /\ Len(Append(items, item)) = Len(items) + 1
         /\ \A j \in DOMAIN items : Append(items, item)[j] = items[j]
         /\ Held(Append(items, item), l) = Held(items, l) + Units(item, l)
<1> DEFINE now == Append(items, item)
           D == DOMAIN items
           n == Len(items) + 1
           u == UnitsIn(items, l)
           v == UnitsIn(now, l)
<1>1. Len(items) \in Nat /\ D = 1..Len(items) /\ IsFiniteSet(D)
  BY LinesFacts
<1>2. /\ now \in Seq(OrderItem) /\ Len(now) = n
      /\ now[n] = item /\ \A j \in D : now[j] = items[j]
  BY <1>1, AppendProperties
<1>3. DOMAIN now = 1..n
  BY <1>2, LinesFacts
<1>4. DOMAIN now = D \cup {n} /\ n \notin D
  BY <1>1, <1>3
<1> HIDE DEF now
<1>5. /\ Held(items, l) = Sigma(u, D) /\ Held(now, l) = Sigma(v, D \cup {n})
      /\ \A j \in D : u[j] \in Int
      /\ \A j \in D \cup {n} : v[j] \in Int
  BY <1>2, <1>4, HeldIsUnits
<1>6. v[n] = Units(item, l) /\ \A j \in D : v[j] = u[j]
  BY <1>2, <1>4 DEF UnitsIn
<1> HIDE DEF u, v, D, n
<1>7. Sigma(v, D \cup {n}) = v[n] + Sigma(v, D)
  BY <1>1, <1>4, <1>5, SigmaInsert
<1>8. Sigma(v, D) = Sigma(u, D)
  BY <1>1, <1>6, SigmaSame
<1>9. Sigma(u, D) \in Int /\ v[n] \in Int
  BY <1>1, <1>5, SigmaInt
<1> QED
  BY <1>2, <1>5, <1>6, <1>7, <1>8, <1>9 DEF now, n, D

\* A whole line costs a natural number, and so does an order.
LEMMA SubtotalNat ==
  ASSUME NEW items \in Seq(OrderItem)
  PROVE  Subtotal(items) \in Nat
<1> DEFINE C == Confirmed(items)
           c == CostOf(items)
<1>1. IsFiniteSet(DOMAIN items) /\ \A i \in DOMAIN items : items[i] \in OrderItem
  BY LinesFacts
<1>2. C \in SUBSET DOMAIN items
  BY DEF Confirmed
<1>3. \A m, n \in Nat : m * n \in Nat
  OBVIOUS
<1>4. \A i \in DOMAIN items : items[i].unit \in Nat /\ items[i].quantity \in Nat
  BY <1>1, OrderMoneyAssumption DEF OrderItem
<1>5. \A i \in DOMAIN items : c[i] \in Nat
  BY <1>3, <1>4 DEF CostOf, Cost
<1>6. IsFiniteSet(C) /\ \A i \in C : c[i] \in Nat
  BY <1>1, <1>2, <1>5, FS_Subset
<1>7. Sigma(c, C) \in Nat
  BY <1>6, SigmaNat
<1> QED
  BY <1>7, SumIsSum DEF Subtotal

-----------------------------------------------------------------------------
(* The loop over the changes of a proposal                                 *)

\* A line that counts is for something.
Full(items) == \A i \in Confirmed(items) : items[i].quantity # 0

\* An order with a line that counts is not for nothing.
LEMMA FullCosts ==
  ASSUME NEW items \in Seq(OrderItem), Full(items), Confirmed(items) # {}
  PROVE  Subtotal(items) # 0
<1> DEFINE C == Confirmed(items)
           c == CostOf(items)
<1>1. IsFiniteSet(DOMAIN items) /\ \A i \in DOMAIN items : items[i] \in OrderItem
  BY LinesFacts
<1>2. C \in SUBSET DOMAIN items
  BY DEF Confirmed
<1>3. \A m, n \in Nat : m * n \in Nat /\ (m # 0 /\ n # 0 => m * n # 0)
  OBVIOUS
<1>4. \A i \in C : /\ items[i].unit \in Nat /\ items[i].unit # 0
                   /\ items[i].quantity \in Nat /\ items[i].quantity # 0
  BY <1>1, <1>2, OrderMoneyAssumption DEF OrderItem, Full
<1>5. \A i \in C : c[i] = items[i].unit * items[i].quantity
  BY <1>2 DEF CostOf, Cost
<1>6. \A i \in C : c[i] \in Nat /\ c[i] # 0
  BY <1>3, <1>4, <1>5
<1>7. IsFiniteSet(C)
  BY <1>1, <1>2, FS_Subset
<1>8. PICK i \in C : TRUE
  OBVIOUS
<1>9. Subtotal(items) = Sigma(c, C)
  BY SumIsSum DEF Subtotal
<1> HIDE DEF c, C
<1>10. Sigma(c, C) = c[i] + Sigma(c, C \ {i})
  <2>1. \A j \in C : c[j] \in Int
    BY <1>6
  <2> QED  BY <1>7, <1>8, <2>1, SigmaRemove
<1>11. Sigma(c, C \ {i}) \in Nat
  <2>1. IsFiniteSet(C \ {i}) /\ \A j \in C \ {i} : c[j] \in Nat
    BY <1>6, <1>7, FS_RemoveElement
  <2> QED  BY <2>1, SigmaNat
<1>12. c[i] \in Nat /\ c[i] # 0
  BY <1>6, <1>8
<1> QED  BY <1>9, <1>10, <1>11, <1>12

\* A change createRevision lets through.
Proper(c) ==
  /\ c \in ChangeRow
  /\ c.was.status = "CONFIRMED"
  /\ c.action = "REMOVE" <=> c.now.quantity = 0
  /\ c.action = "REDUCE" => c.now.quantity <= c.was.quantity
  /\ c.action = "REPLACE" => c.now.status = "CONFIRMED"

\* What a change takes off the shelf of a listing, and what it puts there.
Takes(c, l) == IF c.action = "REPLACE" /\ c.now.listing = l THEN c.now.quantity ELSE 0
Gives(c, l) == IF c.was.listing = l THEN GivenBack(c) ELSE 0

\* Both are natural numbers.
LEMMA TakesGives ==
  ASSUME NEW c, Proper(c)
  PROVE  GivenBack(c) \in Nat /\ \A l : Takes(c, l) \in Nat /\ Gives(c, l) \in Nat
<1>1. c.was.quantity \in Nat /\ c.now.quantity \in Nat
  BY DEF Proper, ChangeRow, OrderItem
<1>2. GivenBack(c) \in Nat
  BY <1>1 DEF Proper, ChangeRow, GivenBack
<1> QED
  BY <1>1, <1>2 DEF Takes, Gives

\* A change touches its own line only, and what the lines hold of a listing
\* changes by what it takes and gives.
LEMMA ChangedHolds ==
  ASSUME NEW items \in Seq(OrderItem), NEW c, Proper(c),
         c.item \in DOMAIN items, items[c.item] = c.was
  PROVE  /\ Changed(items, c) \in Seq(OrderItem)
         /\ Len(items) <= Len(Changed(items, c))
         /\ \A j \in DOMAIN items : j # c.item => Changed(items, c)[j] = items[j]
         /\ \A l : Held(Changed(items, c), l) = Held(items, l) + Takes(c, l) - Gives(c, l)
<1> DEFINE i == c.item
           item == IF c.action = "REPLACE" THEN [items[i] EXCEPT !.status = "REPLACED"]
                   ELSE IF c.action = "REMOVE" THEN [items[i] EXCEPT !.status = "REMOVED"]
                   ELSE [items[i] EXCEPT !.quantity = c.now.quantity]
           fixed == [items EXCEPT ![i] = item]
<1>1. /\ Len(items) \in Nat /\ DOMAIN items = 1..Len(items)
  BY LinesFacts
<1>2. c.was \in OrderItem /\ c.now \in OrderItem /\ c.action \in {"REMOVE", "REDUCE", "REPLACE"}
  BY DEF Proper, ChangeRow
<1>3. item \in OrderItem
  BY <1>2 DEF OrderItem
<1>4. Changed(items, c) = IF c.action = "REPLACE" THEN Append(fixed, c.now) ELSE fixed
  BY DEF Changed
<1>5. \A l : Units(item, l) - Units(items[i], l)
             = 0 - Gives(c, l)
  <2> TAKE l
  <2>1. c.was.quantity \in Nat /\ c.now.quantity \in Nat
    BY <1>2 DEF OrderItem
  <2>2. CASE c.action = "REPLACE"
    <3>1. Units(item, l) = 0
      BY <1>2, <2>2 DEF Units, OrderItem
    <3>2. Units(items[i], l) = Gives(c, l)
      BY <1>2, <2>2 DEF Units, Gives, GivenBack, Proper, ChangeRow
    <3> QED  BY <2>1, <2>2, <3>1, <3>2 DEF Gives, GivenBack
  <2>3. CASE c.action = "REMOVE"
    <3>1. Units(item, l) = 0
      BY <1>2, <2>3 DEF Units, OrderItem
    <3>2. Units(items[i], l) = Gives(c, l)
      BY <1>2, <2>1, <2>3 DEF Units, Gives, GivenBack, Proper, ChangeRow
    <3> QED  BY <2>1, <2>3, <3>1, <3>2 DEF Gives, GivenBack
  <2>4. CASE c.action = "REDUCE"
    <3>1. Units(item, l) = IF c.was.listing = l THEN c.now.quantity ELSE 0
      BY <1>2, <2>4 DEF Units, OrderItem, Proper, ChangeRow
    <3>2. Units(items[i], l) = IF c.was.listing = l THEN c.was.quantity ELSE 0
      BY <1>2, <2>4 DEF Units, Proper, ChangeRow
    <3>3. Gives(c, l) = IF c.was.listing = l THEN c.was.quantity - c.now.quantity ELSE 0
      BY <2>4 DEF Gives, GivenBack
    <3> QED  BY <2>1, <2>4, <3>1, <3>2, <3>3
  <2> QED  BY <1>2, <2>2, <2>3, <2>4
<1> HIDE DEF item
<1>6. /\ fixed \in Seq(OrderItem) /\ Len(fixed) = Len(items)
      /\ fixed[i] = item /\ \A j \in DOMAIN items : j # i => fixed[j] = items[j]
  BY <1>1, <1>3, ExceptSeq
<1> HIDE DEF fixed
<1>7. \A l : Held(fixed, l) = Held(items, l) + Units(item, l) - Units(items[i], l)
  BY <1>6, HeldDiffers
<1>8. \A l : Held(items, l) \in Nat /\ Units(item, l) \in Nat /\ Units(items[i], l) \in Nat
             /\ Takes(c, l) \in Nat /\ Gives(c, l) \in Nat
  <2>1. \A l : Held(items, l) \in Nat
    BY HeldIsUnits
  <2>2. \A x \in OrderItem : \A l : Units(x, l) \in Nat
    BY DEF Units, OrderItem
  <2> QED  BY <1>2, <1>3, <2>1, <2>2, TakesGives
<1>9. \A l : Held(fixed, l) = Held(items, l) - Gives(c, l)
  BY <1>5, <1>7, <1>8
<1>10. CASE c.action = "REPLACE"
  <2>1. Changed(items, c) = Append(fixed, c.now)
    BY <1>4, <1>10
  <2>2. DOMAIN fixed = DOMAIN items
    BY <1>1, <1>6, LinesFacts
  <2>3. /\ Append(fixed, c.now) \in Seq(OrderItem)
        /\ Len(Append(fixed, c.now)) = Len(fixed) + 1
        /\ \A j \in DOMAIN fixed : Append(fixed, c.now)[j] = fixed[j]
    BY <1>2, <1>6, HeldAfterAppend
  <2>4. \A l : Held(Append(fixed, c.now), l) = Held(fixed, l) + Units(c.now, l)
    BY <1>2, <1>6, HeldAfterAppend
  <2>5. \A l : Units(c.now, l) = Takes(c, l)
    BY <1>10 DEF Units, Takes, Proper, ChangeRow
  <2>6. \A l : Held(Append(fixed, c.now), l) = Held(items, l) + Takes(c, l) - Gives(c, l)
    BY <1>8, <1>9, <2>4, <2>5
  <2> QED  BY <1>1, <1>6, <2>1, <2>2, <2>3, <2>6
<1>11. CASE c.action # "REPLACE"
  <2>1. \A l : Takes(c, l) = 0
    BY <1>11 DEF Takes
  <2>2. \A l : Held(fixed, l) = Held(items, l) + Takes(c, l) - Gives(c, l)
    BY <1>8, <1>9, <2>1
  <2> QED  BY <1>1, <1>4, <1>6, <1>11, <2>2
<1> QED  BY <1>10, <1>11

\* A line that counts is still for something.
LEMMA ChangedIsFull ==
  ASSUME NEW items \in Seq(OrderItem), Full(items), NEW c, Proper(c),
         c.item \in DOMAIN items, items[c.item] = c.was
  PROVE  Full(Changed(items, c))
<1> DEFINE i == c.item
           D == DOMAIN items
           n == Len(items) + 1
<1>1. Len(items) \in Nat /\ D = 1..Len(items) /\ \A j \in D : items[j] \in OrderItem
  BY LinesFacts
<1>2. /\ c.was \in OrderItem /\ c.now \in OrderItem
      /\ c.action \in {"REMOVE", "REDUCE", "REPLACE"}
      /\ c.action # "REMOVE" => c.now.quantity # 0
  BY DEF Proper, ChangeRow
<1>3. \A j \in D : items[j].status = "CONFIRMED" => items[j].quantity # 0
  BY DEF Full, Confirmed
<1>4. CASE c.action = "REPLACE"
  <2> DEFINE fixed == [items EXCEPT ![i].status = "REPLACED"]
  <2>1. Changed(items, c) = Append(fixed, c.now)
    BY <1>4 DEF Changed
  <2>2. fixed[i].status = "REPLACED" /\ \A j \in D : j # i => fixed[j] = items[j]
    BY <1>1, <1>2 DEF OrderItem
  <2>3. fixed \in Seq(OrderItem) /\ Len(fixed) = Len(items)
    <3>1. [items[i] EXCEPT !.status = "REPLACED"] \in OrderItem
      BY <1>1 DEF OrderItem
    <3> QED  BY <1>1, <3>1, ExceptSeq
  <2> HIDE DEF fixed
  <2> DEFINE now == Append(fixed, c.now)
  <2>4. /\ now \in Seq(OrderItem) /\ Len(now) = n /\ now[n] = c.now
        /\ \A j \in D : now[j] = fixed[j]
    BY <1>1, <1>2, <2>3, AppendProperties
  <2>5. DOMAIN now = D \cup {n}
    BY <1>1, <2>4, LinesFacts
  <2> HIDE DEF now
  <2>6. ASSUME NEW j \in D \cup {n}, now[j].status = "CONFIRMED" PROVE now[j].quantity # 0
    <3>1. CASE j = n
      BY <1>2, <1>4, <2>4, <3>1
    <3>2. CASE j \in D
      BY <1>3, <2>2, <2>4, <2>6, <3>2
    <3> QED  BY <3>1, <3>2
  <2> QED  BY <2>1, <2>5, <2>6 DEF Full, Confirmed, now
<1>5. CASE c.action = "REMOVE"
  <2>1. Changed(items, c) = [items EXCEPT ![i].status = "REMOVED"]
    BY <1>5 DEF Changed
  <2> DEFINE now == [items EXCEPT ![i].status = "REMOVED"]
  <2>2. DOMAIN now = D /\ now[i].status = "REMOVED" /\ \A j \in D : j # i => now[j] = items[j]
    BY <1>1, <1>2 DEF OrderItem
  <2> HIDE DEF now
  <2>3. \A j \in D : now[j].status = "CONFIRMED" => now[j].quantity # 0
    BY <1>3, <2>2
  <2> QED  BY <2>1, <2>2, <2>3 DEF Full, Confirmed, now
<1>6. CASE c.action = "REDUCE"
  <2>1. Changed(items, c) = [items EXCEPT ![i].quantity = c.now.quantity]
    BY <1>6 DEF Changed
  <2> DEFINE now == [items EXCEPT ![i].quantity = c.now.quantity]
  <2>2. /\ DOMAIN now = D /\ now[i].quantity = c.now.quantity
        /\ \A j \in D : j # i => now[j] = items[j]
    BY <1>1, <1>2 DEF OrderItem
  <2> HIDE DEF now
  <2>3. \A j \in D : now[j].status = "CONFIRMED" => now[j].quantity # 0
    BY <1>2, <1>3, <1>6, <2>2
  <2> QED  BY <2>1, <2>2, <2>3 DEF Full, Confirmed, now
<1> QED  BY <1>2, <1>4, <1>5, <1>6

\* A state of the loop the turns keep: the lines of an order, a shelf that is
\* not overdrawn unless the approval will fail.
Holding(s) ==
  /\ s.items \in Seq(OrderItem) /\ Full(s.items)
  /\ s.ok \in BOOLEAN
  /\ s.stock \in [Listings -> Int]
  /\ s.ok = TRUE => \A l \in Listings : s.stock[l] >= 0

\* One turn moves units between the lines and the shelf, and makes none.
LEMMA TurnMoves ==
  ASSUME NEW s, Holding(s), NEW c, Proper(c),
         c.item \in DOMAIN s.items, s.items[c.item] = c.was
  PROVE  /\ Holding(Turn(s, c))
         /\ Len(s.items) <= Len(Turn(s, c).items)
         /\ \A j \in DOMAIN s.items : j # c.item => Turn(s, c).items[j] = s.items[j]
         /\ \A l \in Listings : Turn(s, c).stock[l] + Held(Turn(s, c).items, l)
                                  = s.stock[l] + Held(s.items, l)
<1> DEFINE t == Turn(s, c)
           replace == c.action = "REPLACE"
           claimed == IF replace THEN [s.stock EXCEPT ![c.now.listing] = @ - c.now.quantity]
                      ELSE s.stock
<1>1. /\ c.now.listing \in Listings /\ c.now.quantity \in Nat
      /\ c.was.listing \in Listings /\ c.was.quantity \in Nat
  BY DEF Proper, ChangeRow, OrderItem
<1>2. /\ t.ok = (s.ok /\ (replace => Claimable(c, s.stock[c.now.listing])))
      /\ t.stock = [claimed EXCEPT ![c.was.listing] = @ + GivenBack(c)]
      /\ t.items = Changed(s.items, c)
  BY DEF Turn
<1> HIDE DEF t
<1>3. /\ t.items \in Seq(OrderItem)
      /\ Len(s.items) <= Len(t.items)
      /\ \A j \in DOMAIN s.items : j # c.item => t.items[j] = s.items[j]
      /\ \A l : Held(t.items, l) = Held(s.items, l) + Takes(c, l) - Gives(c, l)
  BY <1>2, ChangedHolds DEF Holding
<1>11. Full(t.items)
  BY <1>2, ChangedIsFull DEF Holding
<1>4. s.stock \in [Listings -> Int]
  BY DEF Holding
<1>5. claimed \in [Listings -> Int] /\ \A l \in Listings : claimed[l] = s.stock[l] - Takes(c, l)
  <2>1. CASE replace
    BY <1>1, <1>4, <2>1 DEF Takes
  <2>2. CASE ~replace
    <3>1. \A l \in Listings : Takes(c, l) = 0
      BY <2>2 DEF Takes
    <3> QED  BY <1>4, <2>2, <3>1
  <2> QED  BY <2>1, <2>2
<1>6. GivenBack(c) \in Nat /\ \A l \in Listings : Takes(c, l) \in Nat /\ Gives(c, l) \in Nat
  BY TakesGives
<1> HIDE DEF claimed
<1>7. /\ t.stock \in [Listings -> Int]
      /\ \A l \in Listings : t.stock[l] = claimed[l] + Gives(c, l)
  BY <1>1, <1>2, <1>5, <1>6 DEF Gives
<1>8. \A l \in Listings : t.stock[l] = s.stock[l] - Takes(c, l) + Gives(c, l)
  BY <1>5, <1>7
<1>9. t.ok \in BOOLEAN /\ (t.ok = TRUE => \A l \in Listings : t.stock[l] >= 0)
  <2>1. t.ok \in BOOLEAN
    BY <1>2
  <2>2. ASSUME t.ok = TRUE, NEW l \in Listings PROVE t.stock[l] >= 0
    <3>1. s.ok = TRUE /\ (replace => Claimable(c, s.stock[c.now.listing]))
      BY <1>2, <2>2 DEF Holding
    <3>2. s.stock[l] >= 0 /\ s.stock[l] \in Int
      BY <1>4, <3>1 DEF Holding
    <3>3. Takes(c, l) <= s.stock[l]
      BY <3>1, <3>2 DEF Takes, Claimable
    <3> QED  BY <1>6, <1>8, <3>2, <3>3
  <2> QED  BY <2>1, <2>2
<1>10. \A l \in Listings : t.stock[l] + Held(t.items, l) = s.stock[l] + Held(s.items, l)
  <2>1. \A l \in Listings : Held(s.items, l) \in Nat /\ s.stock[l] \in Int
    BY <1>4, HeldIsUnits DEF Holding
  <2> QED  BY <1>3, <1>6, <1>8, <2>1
<1> QED
  BY <1>3, <1>7, <1>9, <1>10, <1>11 DEF Holding, t

\* Where the loop starts.
AtStart(o) == [ok |-> TRUE, stock |-> stock, items |-> lines[o]]

\* h has the states of the loop up to its n-th turn.
Turns(h, o, changes, n) ==
  h = [k \in 0..n |-> IF k = 0 THEN AtStart(o) ELSE Turn(h[k - 1], changes[k])]

\* The loop has a state after every turn.
LEMMA TurnsExist ==
  ASSUME NEW o, NEW changes, NEW n \in Nat
  PROVE  \E h : Turns(h, o, changes, n)
<1> DEFINE U == {k \in Nat : ~\E h : Turns(h, o, changes, k)}
<1> SUFFICES ASSUME U # {} PROVE FALSE
  OBVIOUS
<1>1. PICK m \in U : \A c \in U : m <= c
  <2>1. \A c \in U : c \in Nat
    OBVIOUS
  <2> HIDE DEF U
  <2> QED  BY <2>1, LeastNumber
<1>2. m \in Nat
  OBVIOUS
<1>3. m # 0
  <2> DEFINE h == [k \in 0..0 |-> AtStart(o)]
  <2>1. Turns(h, o, changes, 0)
    BY DEF Turns
  <2> QED  BY <2>1
<1>4. m - 1 \in Nat /\ m - 1 \notin U
  BY <1>1, <1>2, <1>3
<1>5. PICK g : Turns(g, o, changes, m - 1)
  BY <1>4
<1> DEFINE h == [k \in 0..m |-> IF k = m THEN Turn(g[m - 1], changes[m]) ELSE g[k]]
<1>6. \A k \in 0..(m - 1) : g[k] = IF k = 0 THEN AtStart(o) ELSE Turn(g[k - 1], changes[k])
  BY <1>5 DEF Turns
<1>7. \A k \in 0..m : h[k] = IF k = 0 THEN AtStart(o) ELSE Turn(h[k - 1], changes[k])
  <2> TAKE k \in 0..m
  <2>1. CASE k = m
    BY <1>2, <1>3, <1>4, <2>1
  <2>2. CASE k # m
    <3>1. k \in 0..(m - 1) /\ (k # 0 => k - 1 \in 0..m /\ k - 1 # m)
      BY <1>2, <2>2
    <3>2. h[k] = g[k] /\ (k # 0 => h[k - 1] = g[k - 1])
      BY <2>2, <3>1
    <3> QED  BY <1>6, <3>1, <3>2
  <2> QED  BY <2>1, <2>2
<1>8. h = [k \in 0..m |-> h[k]]
  OBVIOUS
<1> HIDE DEF h
<1>9. Turns(h, o, changes, m)
  BY <1>7, <1>8 DEF Turns
<1> QED  BY <1>9

\* AfterChanges is the state after the last turn.
LEMMA AfterIsLast ==
  ASSUME NEW o, NEW changes, Len(changes) \in Nat
  PROVE  \E h : Turns(h, o, changes, Len(changes)) /\ AfterChanges(o, changes) = h[Len(changes)]
<1> DEFINE n == Len(changes)
           after == CHOOSE h : h = [k \in 0..n |->
                      IF k = 0 THEN [ok |-> TRUE, stock |-> stock, items |-> lines[o]]
                      ELSE Turn(h[k - 1], changes[k])]
<1>1. AfterChanges(o, changes) = after[n]
  BY Zenon DEF AfterChanges
<1>2. \E h : Turns(h, o, changes, n)
  BY TurnsExist
<1>3. Turns(after, o, changes, n)
  BY <1>2 DEF Turns, AtStart
<1> HIDE DEF after
<1> QED  BY <1>1, <1>3

\* A list of proper changes to distinct lines of an order.
Applies(items, changes) ==
  /\ Len(changes) \in Nat /\ DOMAIN changes = 1..Len(changes)
  /\ \A j \in DOMAIN changes : Proper(changes[j]) /\ changes[j].item \in DOMAIN items
  /\ \A j, k \in DOMAIN changes : changes[j].item = changes[k].item => j = k

\* The loop moves units between the lines of the order and the shelf.
LEMMA LoopMoves ==
  ASSUME NEW o, lines[o] \in Seq(OrderItem), Full(lines[o]), stock \in [Listings -> Nat],
         NEW changes, Applies(lines[o], changes), Unchanged(o, changes)
  PROVE  LET s == AfterChanges(o, changes)
         IN /\ Holding(s)
            /\ Len(lines[o]) <= Len(s.items)
            /\ \A l \in Listings :
                 s.stock[l] + Held(s.items, l) = stock[l] + Held(lines[o], l)
<1> DEFINE n == Len(changes)
           L == lines[o]
<1>1. n \in Nat /\ DOMAIN changes = 1..n
  BY DEF Applies
<1>2. PICK h : Turns(h, o, changes, n) /\ AfterChanges(o, changes) = h[n]
  BY <1>1, AfterIsLast
<1> DEFINE Good(s, k) ==
             /\ Holding(s)
             /\ Len(L) <= Len(s.items)
             /\ \A i \in DOMAIN L : (\A j \in 1..k : changes[j].item # i) => s.items[i] = L[i]
             /\ \A l \in Listings : s.stock[l] + Held(s.items, l) = stock[l] + Held(L, l)
           U == {k \in 0..n : ~Good(h[k], k)}
<1>3. h[0] = AtStart(o) /\ \A k \in 1..n : h[k] = Turn(h[k - 1], changes[k])
  <2>1. \A k \in 0..n : h[k] = IF k = 0 THEN AtStart(o) ELSE Turn(h[k - 1], changes[k])
    BY <1>2 DEF Turns
  <2>2. 0 \in 0..n /\ \A k \in 1..n : k \in 0..n /\ k # 0
    BY <1>1
  <2> QED  BY <2>1, <2>2
<1>4. Good(h[0], 0)
  <2>1. Len(L) \in Nat
    BY LinesFacts
  <2>2. h[0].items = L /\ h[0].ok = TRUE /\ h[0].stock = stock
    BY <1>3 DEF AtStart
  <2>3. h[0].stock \in [Listings -> Int] /\ \A l \in Listings : h[0].stock[l] >= 0
    BY <2>2
  <2>4. Holding(h[0])
    BY <2>2, <2>3 DEF Holding
  <2> QED  BY <2>1, <2>2, <2>4
<1>5. ASSUME NEW k \in 1..n, Good(h[k - 1], k - 1) PROVE Good(h[k], k)
  <2> DEFINE s == h[k - 1]
             c == changes[k]
             t == Turn(s, c)
  <2>1. /\ k \in DOMAIN changes /\ k \in Nat /\ 1..k = 1..(k - 1) \cup {k}
        /\ \A j \in 1..(k - 1) : j \in DOMAIN changes /\ j # k
    BY <1>1
  <2>2. Proper(c) /\ c.item \in DOMAIN L /\ L[c.item] = c.was
    BY <2>1 DEF Applies, Unchanged
  <2>3. \A j \in 1..(k - 1) : changes[j].item # c.item
    BY <2>1 DEF Applies
  <2>4. s.items \in Seq(OrderItem) /\ Len(L) <= Len(s.items)
    BY <1>5 DEF Holding
  <2>5. /\ Len(L) \in Nat /\ DOMAIN L = 1..Len(L)
        /\ Len(s.items) \in Nat /\ DOMAIN s.items = 1..Len(s.items)
    BY <2>4, LinesFacts
  <2>6. \A i \in DOMAIN L : i \in DOMAIN s.items
    BY <2>4, <2>5
  <2>7. s.items[c.item] = c.was
    BY <1>5, <2>2, <2>3
  <2>8. h[k] = t
    BY <1>3
  <2> HIDE DEF s, c, t
  <2>9. Holding(s)
    BY <1>5 DEF s
  <2>10. /\ Holding(t) /\ Len(s.items) <= Len(t.items)
         /\ \A j \in DOMAIN s.items : j # c.item => t.items[j] = s.items[j]
         /\ \A l \in Listings : t.stock[l] + Held(t.items, l) = s.stock[l] + Held(s.items, l)
    BY <2>2, <2>6, <2>7, <2>9, TurnMoves DEF t
  <2>11. Len(L) <= Len(t.items)
    <3>1. Len(t.items) \in Nat
      BY <2>10, LinesFacts DEF Holding
    <3> QED  BY <2>4, <2>5, <2>10, <3>1
  <2>12. ASSUME NEW i \in DOMAIN L, \A j \in 1..k : changes[j].item # i
         PROVE  t.items[i] = L[i]
    <3>1. i # c.item /\ \A j \in 1..(k - 1) : changes[j].item # i
      BY <2>1, <2>12 DEF c
    <3>2. s.items[i] = L[i]
      BY <1>5, <3>1 DEF s
    <3> QED  BY <2>6, <2>10, <3>1, <3>2
  <2>13. \A l \in Listings : t.stock[l] + Held(t.items, l) = stock[l] + Held(L, l)
    BY <1>5, <2>10 DEF s
  <2> QED  BY <2>8, <2>10, <2>11, <2>12, <2>13
<1>6. U = {}
  <2> SUFFICES ASSUME U # {} PROVE FALSE
    OBVIOUS
  <2>1. \A k \in U : k \in Nat
    OBVIOUS
  <2>2. PICK m \in U : \A k \in U : m <= k
    <3> HIDE DEF U
    <3> QED  BY <2>1, LeastNumber
  <2>3. m \in 0..n /\ ~Good(h[m], m)
    OBVIOUS
  <2> HIDE DEF Good
  <2>4. m # 0
    BY <1>4, <2>3
  <2>5. m \in 1..n /\ m - 1 \in 0..n /\ ~(m <= m - 1)
    BY <1>1, <2>3, <2>4
  <2>6. Good(h[m - 1], m - 1)
    BY <2>2, <2>5
  <2> QED  BY <1>5, <2>3, <2>5, <2>6
<1>7. Good(h[n], n)
  <2>1. n \in 0..n
    BY <1>1
  <2> HIDE DEF Good
  <2> QED  BY <1>6, <2>1
<1> QED
  BY <1>2, <1>7

-----------------------------------------------------------------------------
(* Totals                                                                  *)

\* The numbers of the checkout.
LEMMA Fees ==
  /\ DeliveryFee \in Nat /\ ServiceFee \in Nat
  /\ \A s \in Nat : SmallOrderFee(s) \in Nat
  /\ \A o : \A s \in Nat : OwnFees(o, s) \in Nat
  /\ \A terms \in Rates, s \in Nat : Commission(terms, s) \in Nat
<1>1. DeliveryFee \in Nat /\ ServiceFee \in Nat /\ SmallFee \in Nat /\ Threshold \in Nat
  BY OrderMoneyAssumption
<1>2. \A s \in Nat : SmallOrderFee(s) \in Nat
  BY <1>1 DEF SmallOrderFee
<1>3. \A o : \A s \in Nat : OwnFees(o, s) \in Nat
  BY <1>1, <1>2 DEF OwnFees
<1>4. \A m, n \in Nat : m * n \in Nat
  OBVIOUS
<1>5. \A n \in Nat : n \div 100 \in Nat
  OBVIOUS
<1>6. \A terms \in Rates : terms.value \in Nat
  BY OrderMoneyAssumption
<1>7. \A terms \in Rates, s \in Nat : Commission(terms, s) \in Nat
  BY <1>4, <1>5, <1>6 DEF Commission
<1> QED  BY <1>1, <1>2, <1>3, <1>7

\* An order that was not combined is the only one of its checkout.
LEMMA Alone ==
  ASSUME ~IsCombined, NEW o \in Orders
  PROVE  Orders = {o} /\ (CHOOSE p \in Orders : TRUE) = o
<1>1. IsFiniteSet(Orders)
  BY OrderMoneyAssumption
<1>2. Cardinality(Orders) \in Nat /\ ~(Cardinality(Orders) > 1)
  BY <1>1, FS_CardinalityType DEF IsCombined
<1>3. Cardinality(Orders) # 0
  BY <1>1, FS_EmptySet
<1>4. Cardinality(Orders) = 1
  BY <1>2, <1>3
<1>5. PICK p : Orders = {p}
  BY <1>1, <1>4, FS_Singleton
<1> QED  BY <1>5

\* Some order's price is its goods and its fees, the combined order's those of all.
TotalsOf(rows, items, combined) ==
  /\ \A o \in Orders :
       /\ rows[o].subtotal = Subtotal(items[o])
       /\ rows[o].total = rows[o].subtotal + OwnFees(o, rows[o].subtotal)
  /\ combined = Combine(Subtotals(rows))

\* Sums over the orders are natural numbers.
LEMMA SubtotalsNat ==
  ASSUME NEW rows, \A o \in Orders : rows[o].subtotal \in Nat
  PROVE  /\ Sum(Subtotals(rows), Orders) \in Nat
         /\ Combine(Subtotals(rows)) \in [subtotal : Nat, total : Nat]
         /\ Combine(Subtotals(rows)).subtotal = Sum(Subtotals(rows), Orders)
         /\ Combine(Subtotals(rows)).total
              = Sum(Subtotals(rows), Orders) + DeliveryFee * Cardinality(Orders) + ServiceFee
                  + SmallOrderFee(Sum(Subtotals(rows), Orders))
<1>1. IsFiniteSet(Orders) /\ Cardinality(Orders) \in Nat
  BY OrderMoneyAssumption, FS_CardinalityType
<1>2. \A o \in Orders : Subtotals(rows)[o] \in Nat
  BY DEF Subtotals
<1>3. Sum(Subtotals(rows), Orders) \in Nat
  BY <1>1, <1>2, SigmaNat, SumIsSum
<1>4. DeliveryFee * Cardinality(Orders) \in Nat
  <2>1. \A m, n \in Nat : m * n \in Nat
    OBVIOUS
  <2> QED  BY <1>1, <2>1, Fees
<1> DEFINE all == Sum(Subtotals(rows), Orders)
<1>5. /\ Combine(Subtotals(rows)).subtotal = all
      /\ Combine(Subtotals(rows)).total
           = all + DeliveryFee * Cardinality(Orders) + ServiceFee + SmallOrderFee(all)
      /\ Combine(Subtotals(rows)) = [subtotal |-> all, total |->
           all + DeliveryFee * Cardinality(Orders) + ServiceFee + SmallOrderFee(all)]
  BY DEF Combine
<1> HIDE DEF all
<1>6. all \in Nat /\ SmallOrderFee(all) \in Nat /\ ServiceFee \in Nat
  BY <1>3, Fees DEF all
<1>7. all + DeliveryFee * Cardinality(Orders) + ServiceFee + SmallOrderFee(all) \in Nat
  BY <1>4, <1>6
<1> QED
  BY <1>5, <1>6, <1>7 DEF all

\* The cash at the door is what the orders that came cost, and the fees once.
LEMMA CollectExact ==
  ASSUME NEW rows, NEW items,
         \A o \in Orders : rows[o].subtotal \in Nat /\ rows[o].total \in Nat,
         TotalsOf(rows, items, parent),
         NEW came, came = {o \in Orders : rows[o].stage = "DELIVERED"}, came # {}
  PROVE  /\ Collect(rows) = Sum([o \in Orders |-> Subtotal(items[o]) + DeliveryFee], came)
                              + ServiceFee + SmallOrderFee(Sum(Subtotals(rows), Orders))
         /\ Collect(rows) \in Nat
<1> DEFINE t == Totals(rows)
           s == Subtotals(rows)
           g == [o \in Orders |-> Subtotal(items[o]) + DeliveryFee]
           d == [o \in Orders |-> DeliveryFee]
           gone == {o \in Orders : rows[o].stage # "DELIVERED"}
           all == Sum(s, Orders)
<1>1. IsFiniteSet(Orders) /\ Cardinality(Orders) \in Nat
  BY OrderMoneyAssumption, FS_CardinalityType
<1>2. \A o \in Orders : /\ t[o] \in Nat /\ s[o] \in Nat /\ d[o] = DeliveryFee
                        /\ t[o] = rows[o].total /\ s[o] = rows[o].subtotal
                        /\ s[o] = Subtotal(items[o]) /\ g[o] = s[o] + DeliveryFee
  BY DEF Totals, Subtotals, TotalsOf
<1>3. came \in SUBSET Orders /\ gone = Orders \ came /\ IsFiniteSet(came) /\ IsFiniteSet(gone)
  <2>1. came \in SUBSET Orders /\ gone = Orders \ came
    OBVIOUS
  <2>2. gone \subseteq Orders
    OBVIOUS
  <2> HIDE DEF gone
  <2> QED  BY <1>1, <2>1, <2>2, FS_Subset
<1>4. Collect(rows) = Whole(rows, parent) - Sigma(t, gone)
  BY SumIsSum DEF Collect
<1>5. all \in Nat /\ all = Sigma(s, Orders) /\ SmallOrderFee(all) \in Nat
  BY SubtotalsNat, SumIsSum, Fees
<1>6. DeliveryFee \in Nat /\ ServiceFee \in Nat
  BY Fees
<1> HIDE DEF t, s, g, d, gone, all
<1>7. /\ \A o \in Orders : /\ t[o] \in Int /\ s[o] \in Int /\ d[o] \in Int
                           /\ g[o] \in Int /\ g[o] = s[o] + d[o]
      /\ \A o \in came : g[o] \in Nat
  BY <1>2, <1>3, <1>6
<1>8. Sigma(g, came) \in Nat
  BY <1>3, <1>7, SigmaNat
<1>9. Collect(rows) = Sigma(g, came) + ServiceFee + SmallOrderFee(all)
  <2>1. CASE IsCombined
    <3>1. \A o \in Orders : t[o] = g[o]
      BY <1>2, <2>1 DEF TotalsOf, OwnFees
    <3>2. Sigma(g, Orders) = Sigma(s, Orders) + Sigma(d, Orders)
      BY <1>1, <1>7, SigmaPlus
    <3>3. Sigma(d, Orders) = DeliveryFee * Cardinality(Orders)
      BY <1>1, <1>2, <1>6, SigmaConstant
    <3>4. Whole(rows, parent) = all + DeliveryFee * Cardinality(Orders) + ServiceFee
                                  + SmallOrderFee(all)
      BY <2>1, SubtotalsNat DEF Whole, TotalsOf, all, s
    <3>5. Sigma(g, Orders) = Sigma(g, came) + Sigma(g, gone)
      BY <1>1, <1>3, <1>7, SigmaParts
    <3>6. Sigma(t, gone) = Sigma(g, gone)
      BY <1>3, <3>1, SigmaSame
    <3>7. Sigma(g, gone) \in Int
      BY <1>3, <1>7, SigmaInt
    <3> QED  BY <1>4, <1>5, <1>6, <1>8, <3>2, <3>3, <3>4, <3>5, <3>6, <3>7
  <2>2. CASE ~IsCombined
    <3>1. PICK o \in came : TRUE
      OBVIOUS
    <3>2. o \in Orders /\ Orders = {o} /\ (CHOOSE p \in Orders : TRUE) = o
      BY <1>3, <2>2, <3>1, Alone
    <3>3. came = {o} /\ gone = {}
      BY <1>3, <3>1, <3>2
    <3>4. Whole(rows, parent) = t[o]
      BY <1>2, <2>2, <3>2 DEF Whole
    <3>5. Sigma(t, gone) = 0 /\ Sigma(g, came) = g[o] /\ all = s[o]
      BY <1>5, <1>7, <3>2, <3>3, SigmaEmpty, SigmaOne
    <3>6. t[o] = s[o] + DeliveryFee + ServiceFee + SmallOrderFee(s[o])
      <4>1. rows[o].total = rows[o].subtotal + OwnFees(o, rows[o].subtotal)
        BY <3>2 DEF TotalsOf
      <4>2. OwnFees(o, s[o]) = DeliveryFee + ServiceFee + SmallOrderFee(s[o])
        BY <2>2 DEF OwnFees
      <4> QED  BY <1>2, <1>5, <1>6, <3>2, <3>5, <4>1, <4>2
    <3> QED  BY <1>2, <1>4, <1>5, <1>6, <3>2, <3>4, <3>5, <3>6
  <2> QED  BY <2>1, <2>2
<1>10. Collect(rows) = Sum(g, came) + ServiceFee + SmallOrderFee(all)
  BY <1>9, SumIsSum
<1>11. Collect(rows) \in Nat
  BY <1>5, <1>6, <1>8, <1>9
<1> QED  BY <1>10, <1>11 DEF g, all, s

-----------------------------------------------------------------------------
(* What a checkout keeps                                                   *)

\* A proposal fits the lines it was made from, and shows one total to a
\* customer who bought at one shop.
ProposalFits(row, items) ==
  /\ row \in ProposalRow
  /\ Applies(items[row.order], row.changes)
  /\ ~IsCombined => row.whole = row.total
  /\ row.total # 0

ProposalsFit == \A r \in Requests : revision[r] # NoRevision => ProposalFits(revision[r], lines)

\* Nothing is collected before every order is over, and nothing changes then.
OverIfCollected ==
  payment.status = "CASH_COLLECTED" => \A o \in Orders : order[o].stage \in Over

\* Every order is for something.
Billed == \A o \in Orders : Full(lines[o]) /\ order[o].total # 0

MoneyInv ==
  /\ TypeOK /\ ProposalsFit /\ TotalsOf(order, lines, parent) /\ Billed /\ OverIfCollected
  /\ OwesWhatWasAgreed /\ PaysForWhatCame /\ ShelfAddsUp

\* What the orders of S hold of a listing.
LEMMA HeldSums ==
  ASSUME TypeOK, NEW S \in SUBSET Orders, NEW l
  PROVE  LET h == [o \in Orders |-> Held(lines[o], l)]
         IN /\ Sum(h, S) = Sigma(h, S) /\ Sum(h, S) \in Nat
            /\ \A o \in Orders : h[o] = Held(lines[o], l) /\ h[o] \in Nat
<1> DEFINE h == [o \in Orders |-> Held(lines[o], l)]
<1>1. \A o \in Orders : lines[o] \in Seq(OrderItem)
  BY DEF TypeOK
<1>2. \A o \in Orders : h[o] = Held(lines[o], l) /\ h[o] \in Nat
  BY <1>1, HeldIsUnits
<1>3. IsFiniteSet(S)
  BY OrderMoneyAssumption, FS_Subset
<1> HIDE DEF h
<1>4. \A o \in S : h[o] \in Nat
  BY <1>2
<1>5. Sum(h, S) = Sigma(h, S) /\ Sum(h, S) \in Nat
  BY <1>3, <1>4, SigmaNat, SumIsSum
<1> QED  BY <1>2, <1>5 DEF h

-----------------------------------------------------------------------------
(* The start                                                               *)

\* Right after placeOrder an order holds what was bought, and a listing's goods
\* are on its shelf or in the order of the shop that sells it.
LEMMA FirstLines ==
  ASSUME Init, NEW o \in Orders
  PROVE  /\ lines[o] \in Seq(OrderItem) /\ Full(lines[o]) /\ Confirmed(lines[o]) # {}
         /\ \A l \in Listings : Held(lines[o], l) = IF SoldBy[l] = o THEN Ordered(l) ELSE 0
<1> DEFINE b == Bought[o]
           n == Len(b)
           D == DOMAIN b
<1>1. b \in Seq([listing : {l \in Listings : SoldBy[l] = o}, quantity : Nat \ {0}])
  BY OrderMoneyAssumption
<1>2. n \in Nat /\ D = 1..n /\ IsFiniteSet(D)
  BY <1>1, LenProperties, FS_Interval
<1>3. \A i \in D : /\ b[i].listing \in Listings /\ SoldBy[b[i].listing] = o
                   /\ b[i].quantity \in Nat /\ b[i].quantity # 0
  <2>1. \A i \in D : b[i] \in [listing : {l \in Listings : SoldBy[l] = o},
                               quantity : Nat \ {0}]
    BY <1>1, <1>2, ElementOfSeq
  <2> QED  BY <2>1
<1>4. lines[o] = [i \in D |-> Line(b[i].listing, b[i].quantity, price[b[i].listing])]
  BY DEF Init
<1>5. \A i \in D : /\ lines[o][i] \in OrderItem
                   /\ lines[o][i].status = "CONFIRMED" /\ lines[o][i].listing = b[i].listing
                   /\ lines[o][i].quantity = b[i].quantity
  BY <1>3, <1>4 DEF Init, Line, OrderItem
<1>6. lines[o] \in Seq(OrderItem)
  BY <1>2, <1>4, <1>5
<1>7. DOMAIN lines[o] = D
  BY <1>4
<1>8. ASSUME NEW l \in Listings
      PROVE  Held(lines[o], l) = IF SoldBy[l] = o THEN Ordered(l) ELSE 0
  <2> DEFINE H == {i \in D : b[i].listing = l}
  <2>1. {i \in Confirmed(lines[o]) : lines[o][i].listing = l} = H
    BY <1>5, <1>7 DEF Confirmed
  <2>2. H \subseteq D /\ IsFiniteSet(H)
    <3>1. H \subseteq D
      OBVIOUS
    <3> QED  BY <1>2, <3>1, FS_Subset
  <2>3. Held(lines[o], l) = Sigma(UnitsOf(lines[o]), H)
    BY <2>1, SumIsSum DEF Held
  <2>4. \A i \in H : UnitsOf(lines[o])[i] = UnitsOf(b)[i]
    BY <1>5, <1>7 DEF UnitsOf
  <2>5. Sigma(UnitsOf(lines[o]), H) = Sigma(UnitsOf(b), H)
    <3> HIDE DEF H
    <3> QED  BY <2>2, <2>4, SigmaSame
  <2>6. SoldBy[l] = o => Ordered(l) = Sigma(UnitsOf(b), H)
    BY SumIsSum DEF Ordered
  <2>7. SoldBy[l] # o => H = {}
    BY <1>3
  <2> QED  BY <2>3, <2>5, <2>6, <2>7, SigmaEmpty
<1>9. 1 \in D
  <2>1. b # <<>>
    BY OrderMoneyAssumption
  <2>2. n # 0
    BY <1>1, <2>1, EmptySeq
  <2> QED  BY <1>2, <2>2
<1>10. Full(lines[o]) /\ Confirmed(lines[o]) # {}
  BY <1>3, <1>5, <1>7, <1>9 DEF Full, Confirmed
<1> QED  BY <1>6, <1>8, <1>10

\* The checkout starts out as its customer agreed.
LEMMA MoneyStart == Init => MoneyInv
<1> SUFFICES ASSUME Init PROVE MoneyInv
  OBVIOUS
<1>1. \A o \in Orders : lines[o] \in Seq(OrderItem) /\ order[o] = NewRow(o, lines[o])
  BY FirstLines DEF Init
<1>2. \A o \in Orders : /\ order[o] \in OrderRow /\ order[o].stage = "PREPARING"
                        /\ order[o].subtotal = Subtotal(lines[o])
                        /\ order[o].total = order[o].subtotal + OwnFees(o, order[o].subtotal)
                        /\ order[o].total # 0
  <2> TAKE o \in Orders
  <2>1. Subtotal(lines[o]) \in Nat
    BY <1>1, SubtotalNat
  <2>2. Commission(RateAtCheckout[o], Subtotal(lines[o])) \in Nat
    BY <2>1, OrderMoneyAssumption, Fees
  <2>3. OwnFees(o, Subtotal(lines[o])) \in Nat
    BY <2>1, Fees
  <2>4. /\ Subtotal(lines[o]) + OwnFees(o, Subtotal(lines[o])) \in Nat
        /\ Subtotal(lines[o]) + OwnFees(o, Subtotal(lines[o])) # 0
    <3>1. Subtotal(lines[o]) # 0
      BY FirstLines, FullCosts
    <3> QED  BY <2>1, <2>3, <3>1
  <2>5. order[o] = [stage |-> "PREPARING", left |-> FALSE, subtotal |-> Subtotal(lines[o]),
                    commission |-> Commission(RateAtCheckout[o], Subtotal(lines[o])),
                    total |-> Subtotal(lines[o]) + OwnFees(o, Subtotal(lines[o]))]
    BY <1>1, Zenon DEF NewRow
  <2> QED  BY <2>1, <2>2, <2>4, <2>5 DEF OrderRow
<1>3. order \in [Orders -> OrderRow] /\ lines \in [Orders -> Seq(OrderItem)]
  <2>1. order = [o \in Orders |-> order[o]] /\ lines = [o \in Orders |-> lines[o]]
    BY DEF Init
  <2> QED  BY <1>1, <1>2, <2>1
<1>4. parent = Combine(Subtotals(order)) /\ parent \in [subtotal : Nat, total : Nat]
  BY <1>2, SubtotalsNat DEF Init, OrderRow
<1>5. agreed = Whole(order, parent) /\ agreed \in Nat
  <2>1. PICK o \in Orders : o = CHOOSE p \in Orders : TRUE
    BY OrderMoneyAssumption
  <2>2. order[o].total \in Nat
    BY <1>2 DEF OrderRow
  <2> QED  BY <1>4, <2>1, <2>2 DEF Init, Whole
<1>6. /\ stock \in [Listings -> Nat] /\ goods = [l \in Listings |-> stock[l] + Ordered(l)]
      /\ price \in [Listings -> Prices] /\ rate \in [Orders -> Rates]
      /\ payment = [status |-> "CASH_PENDING", amount |-> agreed]
      /\ revision = [r \in Requests |-> NoRevision]
  <2>1. MaxStock \in Nat
    BY OrderMoneyAssumption
  <2>2. \A n \in 0..MaxStock : n \in Nat
    BY <2>1
  <2>3. stock \in [Listings -> 0..MaxStock]
    BY DEF Init
  <2>4. stock \in [Listings -> Nat]
    BY <2>2, <2>3
  <2> QED  BY <1>5, <2>4, OrderMoneyAssumption DEF Init
<1>7. \A l \in Listings : SoldBy[l] \in Orders /\ Ordered(l) = Held(lines[SoldBy[l]], l)
  <2> TAKE l \in Listings
  <2>1. SoldBy[l] \in Orders
    BY OrderMoneyAssumption
  <2> QED  BY <2>1, FirstLines
<1>8. goods \in [Listings -> Nat]
  <2>1. \A l \in Listings : stock[l] + Ordered(l) \in Nat
    <3> TAKE l \in Listings
    <3>1. Held(lines[SoldBy[l]], l) \in Nat
      BY <1>1, <1>7, HeldIsUnits
    <3> QED  BY <1>6, <1>7, <3>1
  <2> QED  BY <1>6, <2>1
<1>9. TypeOK
  BY <1>3, <1>4, <1>5, <1>6, <1>8 DEF TypeOK
<1>10. ProposalsFit /\ OverIfCollected /\ PaysForWhatCame
  <2>1. payment.status # "CASH_COLLECTED" /\ \A r \in Requests : revision[r] = NoRevision
    BY <1>6
  <2> QED  BY <2>1 DEF ProposalsFit, OverIfCollected, PaysForWhatCame
<1>11. TotalsOf(order, lines, parent) /\ Billed /\ OwesWhatWasAgreed
  BY <1>2, <1>4, <1>5, FirstLines DEF TotalsOf, Billed, OwesWhatWasAgreed
<1>12. ShelfAddsUp
  <2> SUFFICES ASSUME NEW l \in Listings
               PROVE  goods[l] = stock[l] + Sum([o \in Orders |-> Held(lines[o], l)],
                        {o \in Orders : order[o].left \/ order[o].stage # "CANCELLED"})
    BY DEF ShelfAddsUp
  <2> DEFINE h == [o \in Orders |-> Held(lines[o], l)]
             s == SoldBy[l]
             R == Orders \ {s}
  <2>1. {o \in Orders : order[o].left \/ order[o].stage # "CANCELLED"} = Orders
    BY <1>2
  <2>2. Sum(h, Orders) = Sigma(h, Orders) /\ \A o \in Orders : h[o] \in Nat
    BY <1>9, HeldSums
  <2>3. s \in Orders /\ h[s] = Ordered(l)
    BY <1>7
  <2>4. \A o \in R : h[o] = 0
    BY FirstLines
  <2>5. IsFiniteSet(Orders) /\ IsFiniteSet(R)
    BY OrderMoneyAssumption, FS_RemoveElement
  <2> HIDE DEF h, s
  <2>6. Sigma(h, Orders) = h[s] + Sigma(h, R)
    <3>1. \A o \in Orders : h[o] \in Int
      BY <2>2
    <3> QED  BY <2>3, <2>5, <3>1, SigmaRemove
  <2>7. Sigma(h, R) = 0
    <3> HIDE DEF R
    <3> QED  BY <2>4, <2>5, SigmaZero
  <2>8. Sum(h, Orders) = Ordered(l)
    BY <2>2, <2>3, <2>6, <2>7
  <2>9. goods[l] = stock[l] + Sum(h, Orders)
    BY <1>6, <2>8
  <2> QED  BY <2>1, <2>9 DEF h
<1> QED  BY <1>9, <1>10, <1>11, <1>12 DEF MoneyInv

-----------------------------------------------------------------------------
(* The shops' prices, stock and rates                                      *)

\* A proposal fits while the lines it names are there.
LEMMA StillFits ==
  ASSUME NEW row, NEW items, ProposalFits(row, items), NEW later, NEW now, now \in ProposalRow,
         now.order = row.order, now.changes = row.changes,
         now.total = row.total, now.whole = row.whole,
         \A i \in DOMAIN items[row.order] : i \in DOMAIN later[row.order]
  PROVE  ProposalFits(now, later)
BY DEF ProposalFits, Applies

\* A step that changes no order, no total and no proposal, or drops them all.
LEMMA ShopStep ==
  ASSUME MoneyInv, UNCHANGED <<orderVars, agreed>>,
         UNCHANGED revision \/ revision' = [r \in Requests |-> NoRevision],
         stock' \in [Listings -> Nat], price' \in [Listings -> Prices], rate' \in [Orders -> Rates],
         \A l \in Listings : goods'[l] \in Int /\ goods'[l] - stock'[l] = goods[l] - stock[l],
         goods' = [l \in Listings |-> goods'[l]]
  PROVE  MoneyInv'
<1> USE DEF orderVars
<1>1. \A r \in Requests : revision[r] # NoRevision => ProposalFits(revision[r], lines)
  BY DEF MoneyInv, ProposalsFit
<1>2. ShelfAddsUp' /\ goods' \in [Listings -> Nat]
  <2> DEFINE kept == {o \in Orders : order[o].left \/ order[o].stage # "CANCELLED"}
             H(l) == Sum([o \in Orders |-> Held(lines[o], l)], kept)
  <2>1. kept \in SUBSET Orders
    OBVIOUS
  <2>2. \A l \in Listings : goods[l] = stock[l] + H(l)
    BY DEF MoneyInv, ShelfAddsUp
  <2>3. \A l \in Listings : H(l) \in Nat
    <3> HIDE DEF kept
    <3> QED  BY <2>1, HeldSums DEF MoneyInv
  <2> HIDE DEF H
  <2>4. \A l \in Listings : goods'[l] = stock'[l] + H(l) /\ goods'[l] \in Nat
    BY <2>2, <2>3 DEF MoneyInv, TypeOK
  <2>5. ShelfAddsUp'
    BY <2>4 DEF ShelfAddsUp, H
  <2> QED  BY <2>4, <2>5
<1>3. TypeOK'
  BY <1>2 DEF MoneyInv, TypeOK
<1>4. ProposalsFit'
  BY <1>1 DEF ProposalsFit
<1>5. TotalsOf(order, lines, parent)' /\ Billed' /\ OverIfCollected' /\ OwesWhatWasAgreed'
      /\ PaysForWhatCame'
  BY DEF MoneyInv, TotalsOf, Billed, OverIfCollected, OwesWhatWasAgreed, PaysForWhatCame
<1> QED  BY <1>2, <1>3, <1>4, <1>5 DEF MoneyInv

\* What a shop types about its listings.
LEMMA ListingSteps ==
  ASSUME MoneyInv, NEW l \in Listings,
         (\E p \in Prices : SetPrice(l, p)) \/ (\E n \in 0..MaxStock : SetStock(l, n))
  PROVE  MoneyInv'
<1>1. /\ stock \in [Listings -> Nat] /\ goods \in [Listings -> Nat]
      /\ price \in [Listings -> Prices] /\ rate \in [Orders -> Rates]
  BY DEF MoneyInv, TypeOK
<1>2. ASSUME NEW p \in Prices, SetPrice(l, p) PROVE MoneyInv'
  <2>1. price' \in [Listings -> Prices] /\ UNCHANGED <<orderVars, revision, agreed, rate>>
        /\ stock' = stock /\ goods' = goods
    BY <1>1, <1>2 DEF SetPrice
  <2> QED  BY <1>1, <2>1, ShopStep
<1>3. ASSUME NEW n \in 0..MaxStock, SetStock(l, n) PROVE MoneyInv'
  <2>1. MaxStock \in Nat
    BY OrderMoneyAssumption
  <2>2. n \in Nat
    BY <2>1
  <2>3. /\ stock' \in [Listings -> Nat]
        /\ stock' = [stock EXCEPT ![l] = n] /\ goods' = [goods EXCEPT ![l] = @ + n - stock[l]]
        /\ UNCHANGED <<orderVars, revision, agreed, rate, price>>
    BY <1>1, <1>3, <2>2 DEF SetStock
  <2>4. \A m \in Listings : goods'[m] \in Int /\ goods'[m] - stock'[m] = goods[m] - stock[m]
    BY <1>1, <2>2, <2>3
  <2>5. goods' = [m \in Listings |-> goods'[m]]
    BY <1>1, <2>3
  <2> QED  BY <1>1, <2>3, <2>4, <2>5, ShopStep
<1> QED  BY <1>2, <1>3

\* An admin changes a shop's commission.
LEMMA RateStep ==
  ASSUME MoneyInv, NEW o \in Orders, NEW terms \in Rates, SetRate(o, terms)
  PROVE  MoneyInv'
<1>1. /\ stock \in [Listings -> Nat] /\ goods \in [Listings -> Nat]
      /\ price \in [Listings -> Prices] /\ rate \in [Orders -> Rates]
  BY DEF MoneyInv, TypeOK
<1>2. rate' \in [Orders -> Rates] /\ UNCHANGED <<orderVars, revision, agreed>>
      /\ stock' = stock /\ goods' = goods /\ price' = price
  BY <1>1 DEF SetRate
<1> QED  BY <1>1, <1>2, ShopStep

-----------------------------------------------------------------------------
(* Proposals                                                               *)

\* A step that writes proposals only.
LEMMA ProposalStep ==
  ASSUME MoneyInv, UNCHANGED <<stock, shops, orderVars, agreed>>,
         revision' \in [Requests -> ProposalRow \cup {NoRevision}], ProposalsFit'
  PROVE  MoneyInv'
<1> USE DEF orderVars, shops
<1>1. TypeOK'
  BY DEF MoneyInv, TypeOK
<1>2. TotalsOf(order, lines, parent)' /\ Billed' /\ OverIfCollected' /\ OwesWhatWasAgreed'
      /\ PaysForWhatCame'
  BY DEF MoneyInv, TotalsOf, Billed, OverIfCollected, OwesWhatWasAgreed, PaysForWhatCame
<1>3. ShelfAddsUp'
  BY DEF MoneyInv, ShelfAddsUp
<1> QED  BY <1>1, <1>2, <1>3 DEF MoneyInv

\* A proposal whose deadline passes, or that ends, still fits.
LEMMA AnswerStep ==
  ASSUME MoneyInv, NEW r \in Requests, Elapse(r) \/ Expire(r) \/ Decline(r)
  PROVE  MoneyInv'
<1> DEFINE row == revision[r]
<1>1. /\ row # NoRevision /\ UNCHANGED <<stock, shops, orderVars, agreed>>
      /\ revision' = [revision EXCEPT ![r] = revision'[r]]
      /\ \/ revision'[r] = [row EXCEPT !.elapsed = TRUE]
         \/ revision'[r] = [row EXCEPT !.status = "EXPIRED"]
         \/ revision'[r] = [row EXCEPT !.status = "REJECTED"]
  <2>1. revision \in [Requests -> ProposalRow \cup {NoRevision}]
    BY DEF MoneyInv, TypeOK
  <2> QED  BY <2>1 DEF Elapse, Expire, Decline, Close, Pending
<1>2. ProposalFits(row, lines) /\ row \in ProposalRow
  BY <1>1 DEF MoneyInv, ProposalsFit, ProposalFits
<1>3. /\ revision'[r] \in ProposalRow
      /\ revision'[r].order = row.order /\ revision'[r].changes = row.changes
      /\ revision'[r].total = row.total /\ revision'[r].whole = row.whole
  BY <1>1, <1>2 DEF ProposalRow
<1>4. ProposalFits(revision'[r], lines)
  BY <1>2, <1>3, StillFits
<1>5. \A q \in Requests : revision[q] # NoRevision => ProposalFits(revision[q], lines)
  BY DEF MoneyInv, ProposalsFit
<1>6. revision' \in [Requests -> ProposalRow \cup {NoRevision}]
  BY <1>1, <1>3 DEF MoneyInv, TypeOK
<1>7. ProposalsFit'
  BY <1>1, <1>4, <1>5 DEF MoneyInv, TypeOK, ProposalsFit, orderVars
<1> QED  BY <1>1, <1>6, <1>7, ProposalStep

\* Every change the shop may send is proper, and names the line it is made from.
LEMMA ChangesToAreProper ==
  ASSUME TypeOK, NEW o \in Orders, NEW i \in Confirmed(lines[o]), NEW c \in ChangesTo(o, i)
  PROVE  /\ Proper(c) /\ c.item = i /\ c.was = lines[o][i]
         /\ i \in DOMAIN lines[o]
<1> DEFINE line == lines[o][i]
<1>1. lines[o] \in Seq(OrderItem) /\ price \in [Listings -> Prices]
  BY DEF TypeOK
<1>2. i \in DOMAIN lines[o] /\ line.status = "CONFIRMED"
  BY DEF Confirmed
<1>3. line \in OrderItem /\ i \in Nat
  <2>1. DOMAIN lines[o] = 1..Len(lines[o]) /\ Len(lines[o]) \in Nat /\ line \in OrderItem
    BY <1>1, <1>2, LinesFacts
  <2> QED  BY <1>2, <2>1
<1> HIDE DEF line
<1>4. CASE c = [item |-> i, action |-> "REMOVE", was |-> line, now |-> [line EXCEPT !.quantity = 0]]
  BY <1>2, <1>3, <1>4 DEF Proper, ChangeRow, OrderItem, line
<1>5. ASSUME NEW n \in 1..(line.quantity - 1),
             c = [item |-> i, action |-> "REDUCE", was |-> line,
                  now |-> [line EXCEPT !.quantity = n]]
      PROVE  Proper(c) /\ c.item = i /\ c.was = line
  <2>1. line.quantity \in Nat
    BY <1>3 DEF OrderItem
  <2>2. n \in Nat /\ n # 0 /\ n <= line.quantity
    BY <2>1
  <2>3. [line EXCEPT !.quantity = n] \in OrderItem /\ [line EXCEPT !.quantity = n].quantity = n
    BY <1>3, <2>2 DEF OrderItem
  <2> QED  BY <1>2, <1>3, <1>5, <2>2, <2>3 DEF Proper, ChangeRow
<1>6. ASSUME NEW l \in Listings, NEW n \in 1..line.quantity,
             c = [item |-> i, action |-> "REPLACE", was |-> line, now |-> Line(l, n, price[l])]
      PROVE  Proper(c) /\ c.item = i /\ c.was = line
  <2>1. line.quantity \in Nat
    BY <1>3 DEF OrderItem
  <2>2. n \in Nat /\ n # 0
    BY <2>1
  <2>3. /\ Line(l, n, price[l]) \in OrderItem /\ Line(l, n, price[l]).status = "CONFIRMED"
        /\ Line(l, n, price[l]).quantity # 0
    BY <1>1, <2>2 DEF Line, OrderItem
  <2> QED  BY <1>2, <1>3, <1>6, <2>3 DEF Proper, ChangeRow
<1>7. \/ c = [item |-> i, action |-> "REMOVE", was |-> line, now |-> [line EXCEPT !.quantity = 0]]
      \/ \E n \in 1..(line.quantity - 1) :
           c = [item |-> i, action |-> "REDUCE", was |-> line, now |-> [line EXCEPT !.quantity = n]]
      \/ \E l \in Listings, n \in 1..line.quantity :
           c = [item |-> i, action |-> "REPLACE", was |-> line, now |-> Line(l, n, price[l])]
  BY DEF ChangesTo, Change, line
<1> QED  BY <1>2, <1>4, <1>5, <1>6, <1>7 DEF line

\* What the shop sends is a list the loop can work through.
LEMMA ProposalsApply ==
  ASSUME TypeOK, NEW o \in Orders, NEW changes \in Proposals(o)
  PROVE  /\ changes \in Seq(ChangeRow) /\ Applies(lines[o], changes) /\ Unchanged(o, changes)
<1> DEFINE C == UNION {ChangesTo(o, i) : i \in Confirmed(lines[o])}
<1>1. MaxChanges \in Nat
  BY OrderMoneyAssumption
<1>2. /\ changes \in BoundedSeq(C, MaxChanges)
      /\ \A j, k \in DOMAIN changes : changes[j].item = changes[k].item => j = k
  BY Zenon DEF Proposals
<1>3. \A c \in C : Proper(c) /\ c.item \in DOMAIN lines[o] /\ c.was = lines[o][c.item]
  <2> TAKE c \in C
  <2>1. PICK i \in Confirmed(lines[o]) : c \in ChangesTo(o, i)
    OBVIOUS
  <2> QED  BY <2>1, ChangesToAreProper
<1> HIDE DEF C
<1>4. PICK m \in 0..MaxChanges : changes \in [1..m -> C]
  BY <1>2 DEF BoundedSeq, SeqOf
<1>5. m \in Nat
  BY <1>1
<1>6. \A j \in 1..m : changes[j] \in C /\ changes[j] \in ChangeRow
  BY <1>3, <1>4 DEF Proper
<1>7. changes \in Seq(ChangeRow) /\ Len(changes) = m /\ DOMAIN changes = 1..m
  <2>1. changes \in [1..m -> ChangeRow]
    BY <1>4, <1>6
  <2>2. changes \in Seq(ChangeRow)
    BY <1>5, <2>1
  <2>3. DOMAIN changes = 1..m /\ DOMAIN changes = 1..Len(changes) /\ Len(changes) \in Nat
    BY <2>1, <2>2, LenProperties
  <2> QED  BY <1>5, <2>2, <2>3
<1>8. Applies(lines[o], changes)
  BY <1>2, <1>3, <1>5, <1>6, <1>7 DEF Applies
<1>9. Unchanged(o, changes)
  BY <1>3, <1>6, <1>7 DEF Unchanged
<1> QED  BY <1>7, <1>8, <1>9

\* What changes an order's lines, and what that shows.
LEMMA ProposeStep ==
  ASSUME MoneyInv, NEW r \in Requests, NEW o \in Orders, NEW changes \in Proposals(o),
         Propose(r, o, changes)
  PROVE  MoneyInv'
<1> DEFINE items == AfterChanges(o, changes).items
           row == [order |-> o, changes |-> changes, status |-> "PENDING", elapsed |-> FALSE,
                   total |-> ShownTotal(o, items), whole |-> ShownWhole(o, items)]
<1>1. TypeOK
  BY DEF MoneyInv
<1>2. /\ changes \in Seq(ChangeRow) /\ Applies(lines[o], changes) /\ Unchanged(o, changes)
  BY <1>1, ProposalsApply
<1>3. items \in Seq(OrderItem) /\ Full(items)
  <2>1. lines[o] \in Seq(OrderItem) /\ Full(lines[o]) /\ stock \in [Listings -> Nat]
    BY <1>1 DEF MoneyInv, TypeOK, Billed
  <2> QED  BY <1>2, <2>1, LoopMoves DEF Holding
<1>4. revision' = [revision EXCEPT ![r] = row] /\ UNCHANGED <<stock, shops, orderVars, agreed>>
      /\ Confirmed(items) # {}
  BY Zenon DEF Propose
<1> HIDE DEF items
<1>5. ShownTotal(o, items) \in Nat /\ ShownTotal(o, items) # 0
  <2>1. Subtotal(items) \in Nat /\ Subtotal(items) # 0
    BY <1>3, <1>4, SubtotalNat, FullCosts
  <2>2. OwnFees(o, Subtotal(items)) \in Nat
    BY <2>1, Fees
  <2>3. order[o] \in OrderRow
    BY <1>1 DEF TypeOK
  <2>4. ShownTotal(o, items) = Subtotal(items) + OwnFees(o, Subtotal(items))
    BY <2>3 DEF ShownTotal, Priced, OrderRow
  <2> QED  BY <2>1, <2>2, <2>4
<1>6. ShownWhole(o, items) \in Nat
  <2> DEFINE rows == [order EXCEPT ![o].subtotal = Subtotal(items)]
  <2>1. Subtotal(items) \in Nat
    BY <1>3, SubtotalNat
  <2>2. order \in [Orders -> OrderRow]
    BY <1>1 DEF TypeOK
  <2>3. \A p \in Orders : /\ rows[p].subtotal \in Nat
                          /\ rows[p].subtotal = IF p = o THEN Subtotal(items) ELSE order[p].subtotal
    BY <2>1, <2>2 DEF OrderRow
  <2>4. [Subtotals(order) EXCEPT ![o] = Subtotal(items)] = Subtotals(rows)
    BY <2>3 DEF Subtotals
  <2> HIDE DEF rows
  <2>5. Combine(Subtotals(rows)).total \in Nat
    BY <2>3, SubtotalsNat
  <2> QED  BY <1>5, <2>4, <2>5 DEF ShownWhole
<1>7. row \in ProposalRow /\ row.order = o /\ row.changes = changes
      /\ (~IsCombined => row.whole = row.total) /\ row.total # 0
  BY <1>2, <1>5, <1>6 DEF ProposalRow, ShownWhole
<1> HIDE DEF row
<1>8. ProposalFits(row, lines)
  BY <1>2, <1>7 DEF ProposalFits
<1>9. revision \in [Requests -> ProposalRow \cup {NoRevision}]
  BY <1>1 DEF TypeOK
<1>10. revision' \in [Requests -> ProposalRow \cup {NoRevision}]
  BY <1>4, <1>7, <1>9
<1>11. ProposalsFit'
  BY <1>4, <1>8, <1>9 DEF MoneyInv, ProposalsFit, orderVars
<1> QED  BY <1>4, <1>10, <1>11, ProposalStep

\* An approval writes the lines the loop came to, and every total after them.
LEMMA ApprovalStep ==
  ASSUME MoneyInv, NEW r \in Requests, Approve(r)
  PROVE  MoneyInv'
<1> DEFINE row == revision[r]
           o == row.order
           after == AfterChanges(o, row.changes)
<1>1. /\ row # NoRevision /\ order[o].stage = "PREPARING" /\ Unchanged(o, row.changes)
      /\ after.ok /\ stock' = after.stock
      /\ lines' = [lines EXCEPT ![o] = after.items]
      /\ order' = [order EXCEPT ![o] = Priced(o, order[o], after.items)]
      /\ parent' = Combine(Subtotals(order'))
      /\ order'[o].total = row.total /\ (IsCombined => parent'.total = row.whole)
      /\ revision' = [revision EXCEPT ![r].status = "APPROVED"]
      /\ agreed' = row.whole /\ UNCHANGED <<shops, payment>>
  BY DEF Approve, Pending, Recompute, AsShown, Close
<1>2. /\ TypeOK /\ ProposalsFit /\ TotalsOf(order, lines, parent) /\ Billed
      /\ OverIfCollected /\ ShelfAddsUp
  BY DEF MoneyInv
<1>3. ProposalFits(row, lines) /\ row \in ProposalRow /\ o \in Orders
  BY <1>1, <1>2 DEF ProposalsFit, ProposalFits, ProposalRow
<1>4. /\ stock \in [Listings -> Nat] /\ goods \in [Listings -> Nat]
      /\ lines \in [Orders -> Seq(OrderItem)] /\ order \in [Orders -> OrderRow]
      /\ rate \in [Orders -> Rates] /\ order[o] \in OrderRow
      /\ revision \in [Requests -> ProposalRow \cup {NoRevision}]
  BY <1>2, <1>3 DEF TypeOK
<1>5. /\ Holding(after) /\ Len(lines[o]) <= Len(after.items)
      /\ \A l \in Listings :
           after.stock[l] + Held(after.items, l) = stock[l] + Held(lines[o], l)
  BY <1>1, <1>2, <1>3, <1>4, LoopMoves DEF ProposalFits, Billed
<1> HIDE DEF row, o, after
<1>6. after.items \in Seq(OrderItem) /\ Subtotal(after.items) \in Nat
  BY <1>5, SubtotalNat DEF Holding
<1>7. /\ order' \in [Orders -> OrderRow]
      /\ order'[o].stage = "PREPARING" /\ order'[o].left = order[o].left
      /\ order'[o].subtotal = Subtotal(after.items)
      /\ order'[o].total = Subtotal(after.items) + OwnFees(o, Subtotal(after.items))
      /\ \A p \in Orders : p # o => order'[p] = order[p]
  <2> DEFINE s == Subtotal(after.items)
  <2>1. rate[o] \in Rates
    BY <1>3, <1>4
  <2>2. Commission(rate[o], s) \in Nat /\ OwnFees(o, s) \in Nat /\ s \in Nat
    BY <1>6, <2>1, Fees
  <2>3. s + OwnFees(o, s) \in Nat
    BY <2>2
  <2>4. Priced(o, order[o], after.items)
          = [order[o] EXCEPT !.subtotal = s, !.commission = Commission(rate[o], s),
                             !.total = s + OwnFees(o, s)]
    BY Zenon DEF Priced
  <2> HIDE DEF s
  <2> DEFINE new == Priced(o, order[o], after.items)
  <2>5. /\ new \in OrderRow /\ new.stage = "PREPARING" /\ new.left = order[o].left
        /\ new.subtotal = s /\ new.total = s + OwnFees(o, s)
    BY <1>1, <1>4, <2>2, <2>3, <2>4 DEF OrderRow
  <2> HIDE DEF new
  <2>6. order' = [order EXCEPT ![o] = new]
    BY <1>1 DEF new
  <2> QED  BY <1>3, <1>4, <2>5, <2>6 DEF s
<1>8. /\ lines' \in [Orders -> Seq(OrderItem)] /\ lines'[o] = after.items
      /\ \A p \in Orders : p # o => lines'[p] = lines[p]
      /\ \A p \in Orders : \A i \in DOMAIN lines[p] : i \in DOMAIN lines'[p]
  <2>1. /\ lines' \in [Orders -> Seq(OrderItem)] /\ lines'[o] = after.items
        /\ \A p \in Orders : p # o => lines'[p] = lines[p]
    BY <1>1, <1>3, <1>4, <1>6
  <2>2. \A i \in DOMAIN lines[o] : i \in DOMAIN lines'[o]
    <3>1. /\ DOMAIN lines[o] = 1..Len(lines[o]) /\ Len(lines[o]) \in Nat
          /\ DOMAIN after.items = 1..Len(after.items) /\ Len(after.items) \in Nat
      <4>1. lines[o] \in Seq(OrderItem)
        BY <1>3, <1>4
      <4> QED  BY <1>6, <4>1, LinesFacts
    <3> QED  BY <1>5, <2>1, <3>1
  <2> QED  BY <2>1, <2>2
<1>9. TotalsOf(order', lines', parent')
  <2>1. \A p \in Orders : /\ order'[p].subtotal = Subtotal(lines'[p])
                          /\ order'[p].total = order'[p].subtotal + OwnFees(p, order'[p].subtotal)
    BY <1>2, <1>7, <1>8 DEF TotalsOf
  <2> QED  BY <1>1, <2>1 DEF TotalsOf
<1>10. parent' \in [subtotal : Nat, total : Nat]
  <2>1. \A p \in Orders : order'[p].subtotal \in Nat
    BY <1>7 DEF OrderRow
  <2> QED  BY <1>1, <2>1, SubtotalsNat
<1>11. Whole(order', parent') = row.whole /\ agreed' = row.whole /\ agreed' \in Nat
  <2>1. row.whole \in Nat
    BY <1>3 DEF ProposalRow
  <2>2. CASE IsCombined
    BY <1>1, <2>1, <2>2 DEF Whole
  <2>3. CASE ~IsCombined
    <3>1. (CHOOSE p \in Orders : TRUE) = o
      BY <1>3, <2>3, Alone
    <3>2. row.whole = row.total
      BY <1>3, <2>3 DEF ProposalFits
    <3> QED  BY <1>1, <2>1, <2>3, <3>1, <3>2 DEF Whole
  <2> QED  BY <2>2, <2>3
<1>12. revision' \in [Requests -> ProposalRow \cup {NoRevision}] /\ ProposalsFit'
  <2> DEFINE now == [row EXCEPT !.status = "APPROVED"]
  <2>1. /\ now \in ProposalRow /\ now.order = row.order /\ now.changes = row.changes
        /\ now.total = row.total /\ now.whole = row.whole
    BY <1>3 DEF ProposalRow
  <2>2. revision' = [revision EXCEPT ![r] = now]
    BY <1>1, <1>4 DEF row
  <2> HIDE DEF now
  <2>3. revision' \in [Requests -> ProposalRow \cup {NoRevision}]
    BY <1>4, <2>1, <2>2
  <2>4. ASSUME NEW q \in Requests, revision'[q] # NoRevision
        PROVE  ProposalFits(revision'[q], lines')
    <3>1. CASE q = r
      <4>1. revision'[q] = now
        BY <1>4, <2>2, <3>1
      <4>2. row.order \in Orders
        BY <1>3 DEF o
      <4> QED  BY <1>3, <1>8, <2>1, <4>1, <4>2, StillFits
    <3>2. CASE q # r
      <4>1. revision'[q] = revision[q]
        BY <1>4, <2>2, <3>2
      <4>2. ProposalFits(revision[q], lines)
        BY <1>2, <2>4, <4>1 DEF ProposalsFit
      <4>3. revision[q] \in ProposalRow /\ revision[q].order \in Orders
        BY <4>2 DEF ProposalFits, ProposalRow
      <4> QED  BY <1>8, <4>1, <4>2, <4>3, StillFits
    <3> QED  BY <3>1, <3>2
  <2> QED  BY <2>3, <2>4 DEF ProposalsFit
<1>13. stock' \in [Listings -> Nat]
  BY <1>1, <1>5 DEF Holding
<1>14. TypeOK'
  BY <1>1, <1>2, <1>4, <1>7, <1>8, <1>10, <1>11, <1>12, <1>13 DEF TypeOK, shops
<1>15. OverIfCollected' /\ PaysForWhatCame' /\ payment' = payment
  <2>1. payment.status # "CASH_COLLECTED" /\ payment' = payment
    BY <1>1, <1>2, <1>3 DEF OverIfCollected, Over
  <2> QED  BY <2>1 DEF OverIfCollected, PaysForWhatCame
<1>16. ShelfAddsUp'
  <2> DEFINE S == {p \in Orders : order[p].left \/ order[p].stage # "CANCELLED"}
             h(l) == [p \in Orders |-> Held(lines[p], l)]
             k(l) == [p \in Orders |-> Held(lines'[p], l)]
  <2>1. {p \in Orders : order'[p].left \/ order'[p].stage # "CANCELLED"} = S
    BY <1>1, <1>7
  <2>2. o \in S /\ S \in SUBSET Orders
    BY <1>1, <1>3
  <2>3. IsFiniteSet(S)
    BY <2>2, OrderMoneyAssumption, FS_Subset
  <2> HIDE DEF S
  <2>4. ASSUME NEW l \in Listings PROVE goods'[l] = stock'[l] + Sum(k(l), S)
    <3> DEFINE f == h(l)
               g == k(l)
    <3>1. Sum(f, S) = Sigma(f, S) /\ \A p \in Orders : f[p] = Held(lines[p], l) /\ f[p] \in Nat
      BY <1>2, <2>2, HeldSums
    <3>2. \A p \in Orders : g[p] = Held(lines'[p], l) /\ g[p] \in Nat
      BY <1>8, HeldIsUnits
    <3>3. \A p \in S : f[p] \in Int /\ g[p] \in Int
      BY <2>2, <3>1, <3>2
    <3>4. \A p \in S \ {o} : f[p] = g[p]
      BY <1>8, <2>2
    <3>5. g[o] = Held(after.items, l) /\ f[o] = Held(lines[o], l)
      BY <1>3, <1>8
    <3>6. goods[l] = stock[l] + Sum(f, S)
      BY <1>2 DEF ShelfAddsUp, S
    <3>7. Sum(g, S) = Sigma(g, S)
      BY SumIsSum
    <3> HIDE DEF f, g
    <3>8. Sigma(g, S) = Sigma(f, S) + g[o] - f[o]
      BY <2>2, <2>3, <3>3, <3>4, SigmaChange
    <3>9. Sigma(f, S) \in Int
      BY <2>3, <3>3, SigmaInt
    <3>10. /\ goods'[l] = goods[l] /\ stock'[l] = after.stock[l]
           /\ stock[l] \in Int /\ stock'[l] \in Int
           /\ after.stock[l] + Held(after.items, l) = stock[l] + Held(lines[o], l)
      BY <1>1, <1>4, <1>5, <1>13 DEF shops
    <3>11. g[o] \in Int /\ f[o] \in Int
      BY <2>2, <3>3
    <3>12. goods'[l] = stock'[l] + Sum(g, S)
      BY <3>1, <3>5, <3>6, <3>7, <3>8, <3>9, <3>10, <3>11
    <3> QED  BY <3>12 DEF g
  <2> QED  BY <2>1, <2>4 DEF ShelfAddsUp
<1>18. Billed'
  <2>1. row.total # 0 /\ Full(after.items)
    BY <1>3, <1>5 DEF ProposalFits, Holding
  <2> QED  BY <1>1, <1>2, <1>7, <1>8, <2>1 DEF Billed
<1>17. ProposalsFit' /\ TotalsOf(order, lines, parent)' /\ OwesWhatWasAgreed'
  BY <1>9, <1>11, <1>12 DEF OwesWhatWasAgreed
<1> QED  BY <1>14, <1>15, <1>16, <1>17, <1>18 DEF MoneyInv

-----------------------------------------------------------------------------
(* The way to the door                                                     *)

\* A step that moves one order on: what it costs stays, its payment may not.
LEMMA WayStep ==
  ASSUME MoneyInv, NEW o \in Orders, order[o].stage \notin Over,
         NEW row \in OrderRow, order' = [order EXCEPT ![o] = row],
         row.subtotal = order[o].subtotal, row.total = order[o].total,
         row.commission = order[o].commission, UNCHANGED <<shops, lines, parent, revision, agreed>>,
         Settle \/ UNCHANGED payment,
         stock' \in [Listings -> Nat], ShelfAddsUp'
  PROVE  MoneyInv'
<1>1. /\ TypeOK /\ ProposalsFit /\ TotalsOf(order, lines, parent) /\ Billed
      /\ OverIfCollected /\ OwesWhatWasAgreed
  BY DEF MoneyInv
<1>2. payment.status # "CASH_COLLECTED"
  BY <1>1 DEF OverIfCollected
<1>3. order \in [Orders -> OrderRow]
  BY <1>1 DEF TypeOK
<1>4. /\ order' \in [Orders -> OrderRow]
      /\ \A p \in Orders : /\ order'[p].subtotal = order[p].subtotal
                           /\ order'[p].total = order[p].total
                           /\ order'[p].commission = order[p].commission
                           /\ order'[p].subtotal \in Nat /\ order'[p].total \in Nat
  BY <1>3 DEF OrderRow
<1>5. Subtotals(order') = Subtotals(order)
  BY <1>4 DEF Subtotals
<1>6. TotalsOf(order', lines, parent)
  BY <1>1, <1>4, <1>5 DEF TotalsOf
<1>7. Whole(order', parent) = Whole(order, parent)
  <2>1. (CHOOSE p \in Orders : TRUE) \in Orders
    BY OrderMoneyAssumption
  <2> QED  BY <1>4, <2>1 DEF Whole
<1> DEFINE came == {p \in Orders : order'[p].stage = "DELIVERED"}
<1>8. /\ payment' \in [status : {"CASH_PENDING", "CASH_COLLECTED", "FAILED"}, amount : Nat]
      /\ payment'.status = "CASH_COLLECTED" =>
           /\ \A p \in Orders : order'[p].stage \in Over
           /\ payment'.amount
                = Sum([p \in Orders |-> Subtotal(lines[p]) + DeliveryFee], came)
                    + ServiceFee + SmallOrderFee(Sum(Subtotals(order'), Orders))
  <2>1. payment \in [status : {"CASH_PENDING", "CASH_COLLECTED", "FAILED"}, amount : Nat]
    BY <1>1 DEF TypeOK
  <2>2. CASE payment' = payment
    BY <1>2, <2>1, <2>2
  <2>3. CASE payment' = [status |-> "FAILED", amount |-> 0]
    BY <2>3
  <2>4. CASE /\ \A p \in Orders : order'[p].stage \in Over
             /\ came # {}
             /\ payment' = [status |-> "CASH_COLLECTED", amount |-> Collect(order')]
    <3>1. /\ Collect(order')
               = Sum([p \in Orders |-> Subtotal(lines[p]) + DeliveryFee], came)
                   + ServiceFee + SmallOrderFee(Sum(Subtotals(order'), Orders))
          /\ Collect(order') \in Nat
      <4>1. \A p \in Orders : order'[p].subtotal \in Nat /\ order'[p].total \in Nat
        BY <1>4
      <4>2. came # {}
        BY <2>4
      <4> DEFINE rows == order'
      <4>3. came = {p \in Orders : rows[p].stage = "DELIVERED"}
        OBVIOUS
      <4> HIDE DEF came
      <4> QED  BY <1>6, <4>1, <4>2, <4>3, CollectExact
    <3> QED  BY <2>4, <3>1
  <2>5. Settle => \/ payment' = payment \/ payment' = [status |-> "FAILED", amount |-> 0]
                  \/ /\ \A p \in Orders : order'[p].stage \in Over
                     /\ came # {}
                     /\ payment' = [status |-> "CASH_COLLECTED", amount |-> Collect(order')]
    BY Zenon DEF Settle
  <2> QED  BY <2>2, <2>3, <2>4, <2>5
<1>9. OverIfCollected' /\ PaysForWhatCame'
  BY <1>8 DEF OverIfCollected, PaysForWhatCame
<1>10. TypeOK'
  BY <1>1, <1>4, <1>8 DEF TypeOK, shops
<1>11. ProposalsFit' /\ TotalsOf(order, lines, parent)' /\ Billed' /\ OwesWhatWasAgreed'
  BY <1>1, <1>4, <1>6, <1>7 DEF ProposalsFit, Billed, OwesWhatWasAgreed
<1> QED  BY <1>9, <1>10, <1>11 DEF MoneyInv

\* The orders whose goods are off the shelf.
Holders == {o \in Orders : order[o].left \/ order[o].stage # "CANCELLED"}

\* A rider takes the goods, or brings them: they stay the order's.
LEMMA CarryStep ==
  ASSUME MoneyInv, NEW o \in Orders, PickUp(o) \/ Deliver(o)
  PROVE  MoneyInv'
<1>1. /\ order \in [Orders -> OrderRow] /\ order[o] \in OrderRow
      /\ stock \in [Listings -> Nat]
  BY DEF MoneyInv, TypeOK
<1>2. PICK row : /\ order' = [order EXCEPT ![o] = row]
                 /\ \/ row = [order[o] EXCEPT !.stage = "ON_THE_WAY", !.left = TRUE]
                    \/ row = [order[o] EXCEPT !.stage = "DELIVERED"]
  BY DEF PickUp, Deliver
<1>3. /\ row \in OrderRow /\ row.subtotal = order[o].subtotal /\ row.total = order[o].total
      /\ row.commission = order[o].commission /\ row.stage # "CANCELLED"
  BY <1>1, <1>2 DEF OrderRow
<1>4. /\ order[o].stage \notin Over /\ order[o].stage # "CANCELLED"
      /\ UNCHANGED <<stock, shops, lines, parent, revision, agreed>>
      /\ Settle \/ UNCHANGED payment
  BY DEF PickUp, Deliver, Over
<1>5. Holders' = Holders
  <2>1. \A p \in Orders : p # o => order'[p] = order[p]
    BY <1>1, <1>2
  <2>2. order'[o] = row
    BY <1>1, <1>2
  <2> QED  BY <1>3, <1>4, <2>1, <2>2 DEF Holders
<1>6. ShelfAddsUp'
  BY <1>4, <1>5 DEF MoneyInv, ShelfAddsUp, Holders, shops
<1> QED  BY <1>1, <1>2, <1>3, <1>4, <1>6, WayStep

\* A cancellation returns what the order holds while it is in the shop.
LEMMA CancelStep ==
  ASSUME MoneyInv, NEW o \in Orders, Cancel(o)
  PROVE  MoneyInv'
<1>1. /\ order \in [Orders -> OrderRow] /\ order[o] \in OrderRow
      /\ stock \in [Listings -> Nat] /\ goods \in [Listings -> Nat]
      /\ lines \in [Orders -> Seq(OrderItem)] /\ TypeOK /\ ShelfAddsUp
  BY DEF MoneyInv, TypeOK
<1> DEFINE row == [order[o] EXCEPT !.stage = "CANCELLED"]
<1>2. /\ row \in OrderRow /\ row.subtotal = order[o].subtotal /\ row.total = order[o].total
      /\ row.commission = order[o].commission
      /\ row.stage = "CANCELLED" /\ row.left = order[o].left
  BY <1>1 DEF OrderRow
<1>3. /\ order[o].stage \notin Over /\ order[o].stage # "CANCELLED"
      /\ order' = [order EXCEPT ![o] = row]
      /\ stock' = [l \in Listings |-> stock[l] + IF order[o].left THEN 0 ELSE Held(lines[o], l)]
      /\ UNCHANGED <<shops, lines, parent, revision, agreed>> /\ Settle
  BY DEF Cancel, Over, Returned
<1>4. \A l \in Listings : Held(lines[o], l) \in Nat
  <2>1. lines[o] \in Seq(OrderItem)
    BY <1>1
  <2> QED  BY <2>1, HeldIsUnits
<1>5. stock' \in [Listings -> Nat]
  BY <1>1, <1>3, <1>4
<1>6. Holders' = IF order[o].left THEN Holders ELSE Holders \ {o}
  <2>1. \A p \in Orders : p # o => order'[p] = order[p]
    BY <1>1, <1>3
  <2>2. order'[o] = row
    BY <1>1, <1>3
  <2>3. order[o].left \in BOOLEAN
    BY <1>1 DEF OrderRow
  <2> HIDE DEF row
  <2> QED  BY <1>2, <1>3, <2>1, <2>2, <2>3 DEF Holders
<1>7. o \in Holders /\ Holders \in SUBSET Orders /\ IsFiniteSet(Holders)
  <2>1. o \in Holders /\ Holders \in SUBSET Orders
    BY <1>3 DEF Holders
  <2> QED  BY <2>1, OrderMoneyAssumption, FS_Subset
<1>8. ShelfAddsUp'
  <2> DEFINE h(l) == [p \in Orders |-> Held(lines[p], l)]
  <2>1. ASSUME NEW l \in Listings PROVE goods'[l] = stock'[l] + Sum(h(l), Holders')
    <3> DEFINE f == h(l)
    <3>1. Sum(f, Holders) = Sigma(f, Holders) /\ \A p \in Orders : f[p] \in Nat
      BY <1>1, <1>7, HeldSums
    <3>2. f[o] = Held(lines[o], l)
      OBVIOUS
    <3>3. goods[l] = stock[l] + Sum(f, Holders)
      BY <1>1 DEF ShelfAddsUp, Holders
    <3>4. \A S : Sum(f, S) = Sigma(f, S)
      BY SumIsSum
    <3> HIDE DEF f
    <3>5. \A p \in Holders : f[p] \in Int
      BY <1>7, <3>1
    <3>6. Sigma(f, Holders) = f[o] + Sigma(f, Holders \ {o})
      BY <1>7, <3>5, SigmaRemove
    <3>7. Sigma(f, Holders) \in Int /\ Sigma(f, Holders \ {o}) \in Int
      <4>1. IsFiniteSet(Holders \ {o}) /\ \A p \in Holders \ {o} : f[p] \in Int
        BY <1>7, <3>5, FS_RemoveElement
      <4> QED  BY <1>7, <3>5, <4>1, SigmaInt
    <3>8. /\ goods'[l] = goods[l] /\ stock[l] \in Nat /\ f[o] \in Nat
          /\ order[o].left => stock'[l] = stock[l] /\ Holders' = Holders
          /\ ~order[o].left => stock'[l] = stock[l] + f[o] /\ Holders' = Holders \ {o}
      BY <1>1, <1>3, <1>4, <1>6, <3>1, <3>2 DEF shops
    <3>9. order[o].left => goods'[l] = stock'[l] + Sum(f, Holders')
      BY <3>3, <3>8
    <3>10. ~order[o].left => goods'[l] = stock'[l] + Sum(f, Holders')
      <4> SUFFICES ASSUME ~order[o].left PROVE goods'[l] = stock'[l] + Sum(f, Holders')
        OBVIOUS
      <4>1. Sum(f, Holders') = Sigma(f, Holders \ {o})
        BY <3>4, <3>8
      <4>2. stock'[l] = stock[l] + f[o] /\ goods'[l] = goods[l]
        BY <3>8
      <4>3. goods[l] = stock[l] + (f[o] + Sigma(f, Holders \ {o}))
        BY <3>1, <3>3, <3>6
      <4> HIDE DEF Holders
      <4> QED  BY <3>7, <3>8, <4>1, <4>2, <4>3
    <3>11. goods'[l] = stock'[l] + Sum(f, Holders')
      BY <3>9, <3>10
    <3> QED  BY <3>11 DEF f
  <2>2. lines' = lines
    BY <1>3
  <2> QED  BY <2>1, <2>2 DEF ShelfAddsUp, Holders
<1> HIDE DEF row
<1> QED  BY <1>2, <1>3, <1>5, <1>8, WayStep

-----------------------------------------------------------------------------
(* Theorems about a checkout                                               *)

\* Every step keeps the invariant.
LEMMA MoneyNext == MoneyInv /\ [Next]_vars => MoneyInv'
<1> SUFFICES ASSUME MoneyInv, [Next]_vars PROVE MoneyInv'
  OBVIOUS
<1>1. CASE UNCHANGED vars
  <2>1. UNCHANGED <<stock, shops, orderVars, revision, agreed>>
    BY <1>1 DEF vars
  <2>2. revision' \in [Requests -> ProposalRow \cup {NoRevision}] /\ ProposalsFit'
    BY <2>1 DEF MoneyInv, TypeOK, ProposalsFit, orderVars
  <2> QED  BY <2>1, <2>2, ProposalStep
<1>2. CASE Next
  BY <1>2, ListingSteps, RateStep, CarryStep, CancelStep, ProposeStep, AnswerStep, ApprovalStep
     DEF Next
<1> QED  BY <1>1, <1>2

\* What every state of a checkout keeps.
THEOREM MoneyInvariant == Spec => []MoneyInv
<1> QED  BY MoneyStart, MoneyNext, PTL DEF Spec

\* Every row keeps its shape: stock is never oversold, no total is negative.
THEOREM MoneyTypes == Spec => []TypeOK
<1>1. MoneyInv => TypeOK  BY DEF MoneyInv
<1> QED  BY <1>1, MoneyInvariant, PTL

\* What the customer owes is what placeOrder or respondToRevision last showed him,
\* whichever shops' proposals he said yes to, and in which order.
THEOREM OwesWhatWasAgreedHolds == Spec => []OwesWhatWasAgreed
<1>1. MoneyInv => OwesWhatWasAgreed  BY DEF MoneyInv
<1> QED  BY <1>1, MoneyInvariant, PTL

\* The cash collected at the door is the price of the goods that came, a delivery
\* fee for each order that came, and the fees of the checkout once (rollUpParent).
THEOREM PaysForWhatCameHolds == Spec => []PaysForWhatCame
<1>1. MoneyInv => PaysForWhatCame  BY DEF MoneyInv
<1> QED  BY <1>1, MoneyInvariant, PTL

\* Units move between shelf and orders; approvals, cancellations and a shop's own
\* stock writes make none and lose none.
THEOREM ShelfAddsUpHolds == Spec => []ShelfAddsUp
<1>1. MoneyInv => ShelfAddsUp  BY DEF MoneyInv
<1> QED  BY <1>1, MoneyInvariant, PTL

-----------------------------------------------------------------------------
(* Sharing an amount                                                       *)

\* The sums of RefundSettlement are those of SumTheorems.
LEMMA SumIsSigma == \A f, S : SumOf(f, S) = Sigma(f, S)
BY Zenon DEF SumOf, Sigma

\* The lesser of two amounts.
LEMMA LeastFacts ==
  \A m, n \in Nat : /\ Least(m, n) \in Nat /\ Least(m, n) <= m /\ Least(m, n) <= n
                    /\ Least(m, n) = m \/ Least(m, n) = n
BY DEF Least

Upto(S, o) == {c \in S : c <= o}
Before(S, o) == {c \in S : c < o}

\* What comes up to an order, and what comes before it.
LEMMA PartsOf ==
  ASSUME NEW S, \A c \in S : c \in Nat, NEW o \in S
  PROVE  /\ \A c : c \in Upto(S, o) <=> c \in S /\ c <= o
         /\ \A c : c \in Before(S, o) <=> c \in S /\ c < o
         /\ Upto(S, o) = Before(S, o) \cup {o} /\ o \notin Before(S, o)
         /\ Before(S, o) \subseteq S /\ Upto(S, o) \subseteq S
<1>1. /\ \A c : c \in Upto(S, o) <=> c \in S /\ c <= o
      /\ \A c : c \in Before(S, o) <=> c \in S /\ c < o
  BY DEF Upto, Before
<1>2. \A c \in S : c <= o <=> c < o \/ c = o
  OBVIOUS
<1>3. ~(o < o)
  OBVIOUS
<1>4. QED
  BY <1>1, <1>2, <1>3, Zenon

\* What comes up to an order is the order on top of what comes before it.
LEMMA UptoStep ==
  ASSUME NEW S \in SUBSET ShopOrders, NEW v, \A c \in S : v[c] \in Nat, NEW o \in S
  PROVE  /\ Sigma(v, Upto(S, o)) = v[o] + Sigma(v, Before(S, o))
         /\ Sigma(v, Before(S, o)) \in Nat /\ Sigma(v, Upto(S, o)) \in Nat
<1>1. (\A c \in S : c \in Nat) /\ IsFiniteSet(S)
  BY MoneyAssumption, FS_Subset
<1>2. Upto(S, o) = Before(S, o) \cup {o} /\ o \notin Before(S, o)
  BY <1>1, PartsOf
<1>3. /\ IsFiniteSet(Before(S, o)) /\ Before(S, o) \subseteq S
      /\ IsFiniteSet(Upto(S, o)) /\ Upto(S, o) \subseteq S
  <2>1. Before(S, o) \subseteq S /\ Upto(S, o) \subseteq S
    BY <1>1, PartsOf
  <2>2. QED
    BY <1>1, <2>1, FS_Subset
<1>4. \A c \in Before(S, o) \cup {o} : v[c] \in Int
  BY <1>3
<1>5. Sigma(v, Before(S, o) \cup {o}) = v[o] + Sigma(v, Before(S, o))
  BY <1>2, <1>3, <1>4, SigmaInsert
<1>6. Sigma(v, Before(S, o)) \in Nat /\ Sigma(v, Upto(S, o)) \in Nat
  BY <1>3, SigmaNat
<1>7. QED
  BY <1>2, <1>5, <1>6

\* A part of a sum of natural numbers is no more than the whole.
LEMMA PartIsLess ==
  ASSUME NEW S, IsFiniteSet(S), NEW P \in SUBSET S, NEW v, \A c \in S : v[c] \in Nat
  PROVE  /\ Sigma(v, P) \in Nat /\ Sigma(v, S \ P) \in Nat /\ Sigma(v, S) \in Nat
         /\ Sigma(v, P) <= Sigma(v, S)
         /\ Sigma(v, S) = Sigma(v, P) + Sigma(v, S \ P)
<1>1. IsFiniteSet(P) /\ IsFiniteSet(S \ P)
  BY FS_Subset, FS_Difference
<1>2. Sigma(v, P) \in Nat /\ Sigma(v, S \ P) \in Nat /\ Sigma(v, S) \in Nat
  BY <1>1, SigmaNat
<1>3. Sigma(v, S) = Sigma(v, P) + Sigma(v, S \ P)
  BY SigmaParts
<1>4. QED
  BY <1>2, <1>3

\* The share of one order as the loop works it out.
LEMMA WaterfallAt ==
  ASSUME NEW S \in SUBSET ShopOrders, NEW n, NEW v, NEW o \in ShopOrders
  PROVE  Waterfall(S, n, v)[o] =
           IF o \notin S THEN 0
           ELSE Least(n, Sigma(v, Upto(S, o))) - Least(n, Sigma(v, Before(S, o)))
BY SumIsSigma DEF Waterfall, Upto, Before

\* No order gives more than it has, and none gives before those that come first
\* have given everything.
LEMMA WaterfallShares ==
  ASSUME NEW S \in SUBSET ShopOrders, NEW n \in Nat, NEW v, \A c \in S : v[c] \in Nat
  PROVE  /\ Waterfall(S, n, v) \in [ShopOrders -> Nat]
         /\ \A o \in ShopOrders \ S : Waterfall(S, n, v)[o] = 0
         /\ \A o \in S : Waterfall(S, n, v)[o] <= v[o]
         /\ \A o, p \in S : o < p /\ Waterfall(S, n, v)[p] > 0 => Waterfall(S, n, v)[o] = v[o]
<1> DEFINE W == Waterfall(S, n, v)
<1>1. ASSUME NEW o \in S
      PROVE  /\ W[o] = Least(n, v[o] + Sigma(v, Before(S, o))) - Least(n, Sigma(v, Before(S, o)))
             /\ Sigma(v, Before(S, o)) \in Nat
             /\ v[o] + Sigma(v, Before(S, o)) = Sigma(v, Upto(S, o))
  BY UptoStep, WaterfallAt
<1>2. ASSUME NEW o \in S PROVE W[o] \in Nat /\ W[o] <= v[o]
  <2> DEFINE b == Sigma(v, Before(S, o))
  <2>1. W[o] = Least(n, v[o] + b) - Least(n, b) /\ b \in Nat /\ v[o] \in Nat
    BY <1>1
  <2> HIDE DEF b, W
  <2>2. QED
    BY <2>1 DEF Least
<1>3. ASSUME NEW o \in ShopOrders \ S PROVE W[o] = 0
  BY WaterfallAt
<1>4. ASSUME NEW o \in S, NEW p \in S, o < p, W[p] > 0 PROVE W[o] = v[o]
  <2> DEFINE b == Sigma(v, Before(S, o))
             d == Sigma(v, Before(S, p))
  <2>1. W[o] = Least(n, v[o] + b) - Least(n, b) /\ b \in Nat /\ v[o] \in Nat
    BY <1>1
  <2>2. W[p] = Least(n, v[p] + d) - Least(n, d) /\ d \in Nat /\ v[p] \in Nat
    BY <1>1
  <2>3. v[o] + b <= d
    <3>1. (\A c \in S : c \in Nat) /\ IsFiniteSet(S)
      BY MoneyAssumption, FS_Subset
    <3>2. Upto(S, o) \subseteq Before(S, p) /\ Before(S, p) \subseteq S
      <4>1. \A c \in S : c <= o => c < p
        BY <1>4, <3>1
      <4>2. QED
        BY <3>1, <4>1, PartsOf, Zenon
    <3>3. IsFiniteSet(Before(S, p)) /\ \A c \in Before(S, p) : v[c] \in Nat
      BY <3>1, <3>2, FS_Subset
    <3>4. Sigma(v, Upto(S, o)) <= d
      BY <3>2, <3>3, PartIsLess
    <3>5. QED
      BY <1>1, <3>4
  <2> HIDE DEF b, d, W
  <2>4. QED
    BY <1>4, <2>1, <2>2, <2>3 DEF Least
<1>5. W = [o \in ShopOrders |-> W[o]]
  BY DEF Waterfall
<1>6. W \in [ShopOrders -> Nat]
  <2>1. \A o \in ShopOrders : W[o] \in Nat
    BY <1>2, <1>3
  <2> HIDE DEF W
  <2>2. QED
    BY <1>5, <2>1
<1>7. QED
  BY <1>2, <1>3, <1>4, <1>6

\* A non-empty finite set of numbers has a greatest one.
LEMMA Greatest ==
  ASSUME NEW U, IsFiniteSet(U), \A c \in U : c \in Nat, U # {}
  PROVE  \E m \in U : \A c \in U : c <= m
<1> DEFINE From(m) == {c \in U : c >= m}
           T == {From(m) : m \in U}
<1>1. T \in SUBSET (SUBSET U) /\ T # {}
  OBVIOUS
<1> HIDE DEF T
<1>2. PICK x \in T : \A y \in T : y \subseteq x => y = x
  BY <1>1, Smallest
<1> USE DEF T
<1>3. PICK m \in U : x = From(m)
  BY <1>2
<1>4. ASSUME NEW c \in U, c > m PROVE FALSE
  <2>1. From(c) \in T /\ From(c) \subseteq From(m) /\ m \in From(m) /\ m \notin From(c)
    <3>1. \A d : \A k \in U : d \in From(k) <=> d \in U /\ d >= k
      OBVIOUS
    <3>2. (\A d \in U : d >= c => d >= m) /\ m >= m /\ ~(m >= c)
      BY <1>4
    <3>3. QED
      BY <3>1, <3>2, Zenon
  <2>2. QED
    BY <1>2, <1>3, <2>1
<1>5. QED
  BY <1>4

\* All that is asked for is given, if there is enough.
LEMMA WaterfallGives ==
  ASSUME NEW S \in SUBSET ShopOrders, NEW n \in Nat, NEW v, \A c \in S : v[c] \in Nat,
         n <= Sigma(v, S)
  PROVE  Sigma(Waterfall(S, n, v), S) = n
<1> DEFINE W == Waterfall(S, n, v)
           Low(U) == \A o \in S, p \in U : o <= p => o \in U
           T == {U \in SUBSET S : Low(U) /\ Sigma(W, U) # Least(n, Sigma(v, U))}
<1>0. (\A c \in S : c \in Nat) /\ IsFiniteSet(S)
  BY MoneyAssumption, FS_Subset
<1>1. T = {}
  <2> SUFFICES ASSUME T # {} PROVE FALSE
    OBVIOUS
  <2>1. T \in SUBSET (SUBSET S)
    OBVIOUS
  <2> HIDE DEF T
  <2>2. PICK U \in T : \A y \in T : y \subseteq U => y = U
    BY <1>0, <2>1, Smallest
  <2> USE DEF T
  <2>3. /\ U \in SUBSET S /\ Low(U) /\ Sigma(W, U) # Least(n, Sigma(v, U))
        /\ IsFiniteSet(U) /\ \A c \in U : c \in Nat
    BY <1>0, <2>2, FS_Subset
  <2>4. U # {}
    <3>1. Sigma(W, {}) = 0 /\ Sigma(v, {}) = 0
      BY SigmaEmpty
    <3>2. Least(n, 0) = 0
      BY DEF Least
    <3>3. QED
      BY <2>3, <3>1, <3>2
  <2>5. PICK m \in U : \A c \in U : c <= m
    BY <2>3, <2>4, Greatest
  <2> DEFINE R == U \ {m}
  <2>6. R = Before(S, m) /\ U = Upto(S, m)
    <3>1. m \in S /\ \A c \in S : c <= m => c \in U
      BY <2>3, <2>5
    <3>2. \A c \in U : c <= m /\ (c # m => c < m)
      BY <2>3, <2>5
    <3>3. \A c \in S : c < m => c <= m /\ c # m
      BY <1>0, <3>1
    <3>4. QED
      <4>1. /\ \A c : c \in Upto(S, m) <=> c \in S /\ c <= m
            /\ \A c : c \in Before(S, m) <=> c \in S /\ c < m
        BY <1>0, <3>1, PartsOf
      <4>2. \A c : c \in U <=> c \in Upto(S, m)
        BY <2>3, <3>1, <3>2, <4>1
      <4>3. \A c : c \in R <=> c \in Before(S, m)
        BY <2>3, <3>1, <3>2, <3>3, <4>1
      <4>4. QED
        BY <4>2, <4>3
  <2>7. Low(R) /\ R \in SUBSET S /\ R # U /\ R \subseteq U
    BY <1>0, <2>3, <2>5
  <2>8. Sigma(W, R) = Least(n, Sigma(v, R))
    BY <2>2, <2>7
  <2>9. W[m] = Least(n, Sigma(v, U)) - Least(n, Sigma(v, R))
    <3>1. m \in S /\ m \in ShopOrders
      BY <2>3, <2>5
    <3>2. W[m] = Least(n, Sigma(v, Upto(S, m))) - Least(n, Sigma(v, Before(S, m)))
      BY <3>1, WaterfallAt
    <3> HIDE DEF W, R
    <3>3. QED
      BY <2>6, <3>2
  <2>10. \A c \in U : W[c] \in Nat
    <3>1. W \in [ShopOrders -> Nat]
      BY WaterfallShares
    <3> HIDE DEF W
    <3>2. QED
      BY <2>3, <3>1
  <2>11. Sigma(W, U) = W[m] + Sigma(W, R)
    <3>1. \A c \in U : W[c] \in Int
      BY <2>10
    <3> HIDE DEF W
    <3>2. QED
      BY <2>3, <2>5, <3>1, SigmaRemove
  <2>12. Least(n, Sigma(v, U)) \in Nat /\ Least(n, Sigma(v, R)) \in Nat
    <3>1. Sigma(v, U) \in Nat /\ Sigma(v, R) \in Nat
      BY <2>3, <2>6, UptoStep
    <3>2. QED
      BY <3>1, LeastFacts
  <2> DEFINE x == Least(n, Sigma(v, U))
             y == Least(n, Sigma(v, R))
             z == Sigma(W, U)
  <2>13. z = (x - y) + y /\ x \in Nat /\ y \in Nat /\ z # x
    BY <2>3, <2>8, <2>9, <2>11, <2>12
  <2> HIDE DEF x, y, z, T, R, W
  <2>14. QED
    BY <2>13
<1>2. Sigma(W, S) = Least(n, Sigma(v, S))
  BY <1>1
<1>3. Sigma(v, S) \in Nat
  BY <1>0, SigmaNat
<1>4. QED
  BY <1>2, <1>3 DEF Least

\* Shares that add up, of which none is more than there is and none is given
\* before those that come first, are the ones the loop finds.
LEMMA WaterfallOnly ==
  ASSUME NEW S \in SUBSET ShopOrders, NEW n \in Nat, NEW v, NEW w \in [ShopOrders -> Nat],
         \A c \in S : v[c] \in Nat /\ w[c] <= v[c],
         \A c \in ShopOrders \ S : w[c] = 0,
         \A o, p \in S : o < p /\ w[p] > 0 => w[o] = v[o],
         Sigma(w, S) = n
  PROVE  Waterfall(S, n, v) = w
<1>0. (\A c \in S : c \in Nat) /\ IsFiniteSet(S)
  BY MoneyAssumption, FS_Subset
<1>1. ASSUME NEW U \in SUBSET S, \A o \in S, p \in U : o <= p => o \in U
      PROVE  Least(n, Sigma(v, U)) = Sigma(w, U)
  <2>1. /\ IsFiniteSet(U) /\ IsFiniteSet(S \ U)
        /\ Sigma(w, U) \in Nat /\ Sigma(w, S \ U) \in Nat /\ Sigma(v, U) \in Nat
        /\ n = Sigma(w, U) + Sigma(w, S \ U)
    <3>1. \A c \in S : w[c] \in Nat
      OBVIOUS
    <3>2. Sigma(v, U) \in Nat /\ IsFiniteSet(U) /\ IsFiniteSet(S \ U)
      BY <1>0, SigmaNat, FS_Subset, FS_Difference
    <3>3. QED
      BY <1>0, <3>1, <3>2, PartIsLess
  <2>2. CASE \E p \in S \ U : w[p] > 0
    <3>1. PICK p \in S \ U : w[p] > 0
      BY <2>2
    <3>2. \A c \in U : c < p
      BY <1>0, <1>1, <3>1
    <3>3. \A c \in U : w[c] = v[c]
      BY <3>1, <3>2
    <3>4. Sigma(w, U) = Sigma(v, U)
      BY <2>1, <3>3, SigmaSame
    <3>5. QED
      BY <2>1, <3>4 DEF Least
  <2>3. CASE \A p \in S \ U : w[p] = 0
    <3>1. Sigma(w, S \ U) = 0
      BY <2>1, <2>3, SigmaZero
    <3>2. \A c \in U : w[c] \in Int /\ v[c] \in Int /\ w[c] <= v[c]
      OBVIOUS
    <3>3. Sigma(w, U) <= Sigma(v, U)
      BY <2>1, <3>2, SigmaLess
    <3>4. QED
      BY <2>1, <3>1, <3>3 DEF Least
  <2>4. \A p \in S \ U : w[p] \in Nat
    OBVIOUS
  <2>5. QED
    BY <2>2, <2>3, <2>4
<1>2. ASSUME NEW o \in S PROVE Waterfall(S, n, v)[o] = w[o]
  <2>1. /\ Upto(S, o) \in SUBSET S /\ Before(S, o) \in SUBSET S
        /\ \A c \in S, p \in Upto(S, o) : c <= p => c \in Upto(S, o)
        /\ \A c \in S, p \in Before(S, o) : c <= p => c \in Before(S, o)
    BY <1>0 DEF Upto, Before
  <2>2. /\ Least(n, Sigma(v, Upto(S, o))) = Sigma(w, Upto(S, o))
        /\ Least(n, Sigma(v, Before(S, o))) = Sigma(w, Before(S, o))
    BY <1>1, <2>1
  <2>3. Sigma(w, Upto(S, o)) = w[o] + Sigma(w, Before(S, o)) /\ Sigma(w, Before(S, o)) \in Nat
    BY UptoStep
  <2>4. Waterfall(S, n, v)[o] = Sigma(w, Upto(S, o)) - Sigma(w, Before(S, o))
    BY <2>2, WaterfallAt
  <2> DEFINE b == Sigma(w, Before(S, o))
  <2>5. Waterfall(S, n, v)[o] = (w[o] + b) - b /\ b \in Nat /\ w[o] \in Nat
    BY <2>3, <2>4
  <2> HIDE DEF b
  <2>6. QED
    BY <2>5
<1>3. \A o \in ShopOrders : Waterfall(S, n, v)[o] = w[o]
  BY <1>2, WaterfallAt
<1>4. Waterfall(S, n, v) = [o \in ShopOrders |-> Waterfall(S, n, v)[o]]
  BY DEF Waterfall
<1>5. QED
  BY <1>3, <1>4

-----------------------------------------------------------------------------
(* What may be given back of an order                                      *)

\* The orders of a payment, and those of them that were paid.
LEMMA PartsFinite ==
  ASSUME NEW a
  PROVE  /\ Parts(a) \in SUBSET ShopOrders /\ IsFiniteSet(Parts(a))
         /\ Paying(a) \in SUBSET Parts(a) /\ IsFiniteSet(Paying(a))
         /\ \A o \in Paying(a) : o \in Delivered /\ AnchorOf[o] = a
<1>1. Parts(a) \in SUBSET ShopOrders /\ Paying(a) \in SUBSET Parts(a)
  BY DEF Parts, Paying
<1>2. IsFiniteSet(Parts(a)) /\ IsFiniteSet(Paying(a))
  BY <1>1, MoneyAssumption, FS_Subset
<1>3. QED
  BY <1>1, <1>2 DEF Parts, Paying

\* No discount takes more than the price of an order, so nobody owes money for
\* what he gives back.
LEMMA CapNat == ASSUME books \in BooksOf PROVE Cap \in [ShopOrders -> Nat]
<1> SUFFICES ASSUME NEW o \in ShopOrders PROVE Cap[o] \in Nat
  BY DEF Cap
<1> DEFINE a == AnchorOf[o]
           delta == Collected(a) - SumOf(books.total, Paying(a))
           P == Paying(a)
<1>1. /\ books.total \in [ShopOrders -> Nat \ {0}]
      /\ a \in Anchors /\ Collected(a) \in Nat
  BY DEF BooksOf, Anchors, Collected
<1>2. P \in SUBSET ShopOrders /\ IsFiniteSet(P)
  BY PartsFinite
<1>3. SumOf(books.total, P) \in Nat
  BY <1>1, <1>2, SigmaNat, SumIsSigma
<1>4. delta \in Int
  BY <1>1, <1>3
<1>5. Cap[o] = IF o \notin Delivered THEN 0
               ELSE IF a \notin Combined THEN Total(o)
               ELSE IF delta > 0
               THEN Total(o) + (IF \A c \in P : o <= c THEN delta ELSE 0)
               ELSE Total(o) - Waterfall(P, -delta, books.total)[o]
  BY DEF Cap
<1>6. Total(o) \in Nat
  BY <1>1 DEF Total
<1>7. ASSUME o \in Delivered, ~(delta > 0)
      PROVE  Total(o) - Waterfall(P, -delta, books.total)[o] \in Nat
  <2>1. -delta \in Nat
    BY <1>4, <1>7
  <2>2. o \in P
    BY <1>7 DEF Paying, Parts
  <2>3. \A c \in P : books.total[c] \in Nat
    BY <1>1, <1>2
  <2>4. /\ Waterfall(P, -delta, books.total) \in [ShopOrders -> Nat]
        /\ Waterfall(P, -delta, books.total)[o] <= books.total[o]
    BY <1>2, <2>1, <2>2, <2>3, WaterfallShares
  <2> DEFINE w == Waterfall(P, -delta, books.total)[o]
  <2>5. w \in Nat /\ w <= Total(o)
    BY <2>4 DEF Total
  <2> HIDE DEF w
  <2>6. Total(o) - w \in Nat
    BY <1>6, <2>5
  <2>7. QED
    BY <2>6 DEF w
<1> HIDE DEF delta, P
<1>8. QED
  BY <1>4, <1>5, <1>6, <1>7

-----------------------------------------------------------------------------
(* Refunds that have a claim on a payment                                  *)

Standing == {"APPROVED", "COMPLETED"}

RefundRow == [status : RefundStatus, target : Targets \cup {0},
              amount : Nat, allocation : [ShopOrders -> Nat]]

Claims(f, a) == {r \in Refunds : f[r].status \in Standing /\ Anchor(f[r].target) = a}
Claimed(f, a) == SumOf(AmountOf(f), Claims(f, a))
Taken(f, a, o) == SumOf(ShareOf(o, f), Claims(f, a))

\* The payment of a can be given back at all.
Sound(a) == a \in Anchors /\ Paying(a) # {} /\ SumOf(Cap, Parts(a)) = Collected(a)

\* What a refund was promised is shared among the orders of its payment, for a
\* combined order in turn: none gives before those that come first have nothing
\* left.
Shared(f, r) ==
  LET t == f[r].target
      w == f[r].allocation
      a == Anchor(t)
  IN /\ t \in Targets /\ Sound(a)
     /\ IF t \in ShopOrders
        THEN w = [o \in ShopOrders |-> IF o = t THEN f[r].amount ELSE 0]
        ELSE /\ SumOf(w, Parts(a)) = f[r].amount
             /\ \A o \in ShopOrders \ Parts(a) : w[o] = 0
             /\ \A o, p \in Parts(a) : o < p /\ w[p] > 0 => Taken(f, a, o) = Cap[o]

Within(f) ==
  \A a \in Anchors : /\ Claimed(f, a) <= Collected(a)
                     /\ \A o \in Parts(a) : Taken(f, a, o) <= Cap[o]

Kept(f) ==
  /\ f \in [Refunds -> RefundRow]
  /\ Within(f)
  /\ \A r \in Refunds : f[r].status \in Standing => Shared(f, r)

\* Sums over refunds are sums of natural numbers.
LEMMA ClaimSums ==
  ASSUME NEW f \in [Refunds -> RefundRow], NEW P \in SUBSET Refunds
  PROVE  /\ IsFiniteSet(P)
         /\ \A r \in Refunds : AmountOf(f)[r] = f[r].amount /\ f[r].amount \in Nat
         /\ \A o \in ShopOrders : \A r \in Refunds :
              ShareOf(o, f)[r] = f[r].allocation[o] /\ f[r].allocation[o] \in Nat
         /\ SumOf(AmountOf(f), P) \in Nat
         /\ \A o \in ShopOrders : SumOf(ShareOf(o, f), P) \in Nat
<1>1. IsFiniteSet(P)
  BY MoneyAssumption, FS_Subset
<1>2. \A r \in Refunds : AmountOf(f)[r] = f[r].amount /\ f[r].amount \in Nat
  BY DEF AmountOf, RefundRow
<1>3. \A o \in ShopOrders : \A r \in Refunds :
        ShareOf(o, f)[r] = f[r].allocation[o] /\ f[r].allocation[o] \in Nat
  BY DEF ShareOf, RefundRow
<1>4. Sigma(AmountOf(f), P) \in Nat
  BY <1>1, <1>2, SigmaNat
<1>5. ASSUME NEW o \in ShopOrders PROVE Sigma(ShareOf(o, f), P) \in Nat
  BY <1>1, <1>3, SigmaNat
<1>6. QED
  BY <1>1, <1>2, <1>3, <1>4, <1>5, SumIsSigma

\* Refunds that stay as they are add up to the same.
LEMMA SameRows ==
  ASSUME NEW f \in [Refunds -> RefundRow], NEW g \in [Refunds -> RefundRow],
         NEW P \in SUBSET Refunds,
         \A r \in P : g[r].amount = f[r].amount /\ g[r].allocation = f[r].allocation
  PROVE  /\ SumOf(AmountOf(g), P) = SumOf(AmountOf(f), P)
         /\ \A o \in ShopOrders : SumOf(ShareOf(o, g), P) = SumOf(ShareOf(o, f), P)
<1>1. IsFiniteSet(P)
  BY MoneyAssumption, FS_Subset
<1>2. \A r \in P : AmountOf(g)[r] = AmountOf(f)[r]
  BY ClaimSums
<1>3. \A o \in ShopOrders : \A r \in P : ShareOf(o, g)[r] = ShareOf(o, f)[r]
  BY ClaimSums
<1>4. Sigma(AmountOf(g), P) = Sigma(AmountOf(f), P)
  BY <1>1, <1>2, SigmaSame
<1>5. ASSUME NEW o \in ShopOrders PROVE Sigma(ShareOf(o, g), P) = Sigma(ShareOf(o, f), P)
  BY <1>1, <1>3, SigmaSame
<1>6. QED
  BY <1>4, <1>5, SumIsSigma

\* P and one refund more.
With(P, r) == P \cup {r}

\* ... and one more on top.
LEMMA OneMore ==
  ASSUME NEW f \in [Refunds -> RefundRow], NEW g \in [Refunds -> RefundRow],
         NEW P \in SUBSET Refunds, NEW r \in Refunds, r \notin P,
         \A q \in P : g[q].amount = f[q].amount /\ g[q].allocation = f[q].allocation
  PROVE  /\ SumOf(AmountOf(g), With(P, r)) = g[r].amount + SumOf(AmountOf(f), P)
         /\ \A o \in ShopOrders :
              SumOf(ShareOf(o, g), With(P, r)) = g[r].allocation[o] + SumOf(ShareOf(o, f), P)
<1>1. IsFiniteSet(P)
  BY MoneyAssumption, FS_Subset
<1>2. /\ \A q \in Refunds : AmountOf(g)[q] = g[q].amount /\ g[q].amount \in Nat
      /\ \A o \in ShopOrders : \A q \in Refunds :
           ShareOf(o, g)[q] = g[q].allocation[o] /\ g[q].allocation[o] \in Nat
  BY ClaimSums
<1>3. \A q \in P \cup {r} : q \in Refunds
  OBVIOUS
<1>4. Sigma(AmountOf(g), With(P, r)) = AmountOf(g)[r] + Sigma(AmountOf(g), P)
  <2>1. \A q \in P \cup {r} : AmountOf(g)[q] \in Int
    BY <1>2, <1>3
  <2>2. QED
    BY <1>1, <2>1, SigmaInsert DEF With
<1>5. ASSUME NEW o \in ShopOrders
      PROVE  Sigma(ShareOf(o, g), With(P, r)) = ShareOf(o, g)[r] + Sigma(ShareOf(o, g), P)
  <2>1. \A q \in P \cup {r} : ShareOf(o, g)[q] \in Int
    BY <1>2, <1>3
  <2>2. QED
    BY <1>1, <2>1, SigmaInsert DEF With
<1>6. /\ SumOf(AmountOf(g), P) = SumOf(AmountOf(f), P)
      /\ \A o \in ShopOrders : SumOf(ShareOf(o, g), P) = SumOf(ShareOf(o, f), P)
  BY SameRows
<1>7. SumOf(AmountOf(g), With(P, r)) = g[r].amount + SumOf(AmountOf(f), P)
  BY <1>2, <1>4, <1>6, SumIsSigma
<1>8. ASSUME NEW o \in ShopOrders
      PROVE  SumOf(ShareOf(o, g), With(P, r)) = g[r].allocation[o] + SumOf(ShareOf(o, f), P)
  <2>1. SumOf(ShareOf(o, g), With(P, r)) = ShareOf(o, g)[r] + SumOf(ShareOf(o, g), P)
    BY <1>5, SumIsSigma
  <2>2. QED
    BY <1>2, <1>6, <2>1
<1>9. QED
  BY <1>7, <1>8

\* Who has a claim on a payment.
LEMMA ClaimFacts ==
  ASSUME NEW f, NEW a
  PROVE  /\ Claims(f, a) \in SUBSET Refunds
         /\ \A r \in Refunds : r \in Claims(f, a) <=>
              f[r].status \in Standing /\ Anchor(f[r].target) = a
BY DEF Claims

\* A refund that gets a claim adds what it asks for.
LEMMA ClaimAdded ==
  ASSUME NEW f \in [Refunds -> RefundRow], NEW g \in [Refunds -> RefundRow],
         NEW a, NEW r \in Refunds, \A q \in Refunds \ {r} : g[q] = f[q],
         r \notin Claims(f, a), Claims(g, a) = Claims(f, a) \cup {r}
  PROVE  /\ Claimed(g, a) = g[r].amount + Claimed(f, a)
         /\ \A o \in ShopOrders : Taken(g, a, o) = g[r].allocation[o] + Taken(f, a, o)
<1> DEFINE P == Claims(f, a)
           Q == Claims(g, a)
<1>1. P \in SUBSET Refunds /\ Q = With(P, r) /\ r \notin P
  BY ClaimFacts DEF With
<1> HIDE DEF P, Q
<1>2. /\ SumOf(AmountOf(g), Q) = g[r].amount + SumOf(AmountOf(f), P)
      /\ \A o \in ShopOrders :
           SumOf(ShareOf(o, g), Q) = g[r].allocation[o] + SumOf(ShareOf(o, f), P)
  <2>1. \A q \in P : g[q].amount = f[q].amount /\ g[q].allocation = f[q].allocation
    BY <1>1
  <2>2. P \in SUBSET Refunds /\ Q = With(P, r) /\ r \notin P
    BY <1>1
  <2>3. /\ SumOf(AmountOf(g), With(P, r)) = g[r].amount + SumOf(AmountOf(f), P)
        /\ \A o \in ShopOrders :
             SumOf(ShareOf(o, g), With(P, r)) = g[r].allocation[o] + SumOf(ShareOf(o, f), P)
    BY <2>1, <2>2, OneMore
  <2>4. QED
    BY <2>2, <2>3
<1>3. QED
  BY <1>2 DEF Claimed, Taken, P, Q

\* A refund nobody approved has no claim, whatever becomes of it.
LEMMA AsideKeeps ==
  ASSUME NEW f, Kept(f), NEW g \in [Refunds -> RefundRow], NEW r \in Refunds,
         f[r].status \notin Standing, g[r].status \notin Standing,
         \A q \in Refunds \ {r} : g[q] = f[q]
  PROVE  Kept(g)
<1>1. f \in [Refunds -> RefundRow] /\ Within(f)
  BY DEF Kept
<1>2. \A a : Claims(g, a) = Claims(f, a)
  BY DEF Claims
<1>3. \A a : \A q \in Claims(f, a) : q \in Refunds /\ q # r
  BY DEF Claims
<1>4. ASSUME NEW a
      PROVE  /\ Claimed(g, a) = Claimed(f, a)
             /\ \A o \in ShopOrders : Taken(g, a, o) = Taken(f, a, o)
  <2>1. \A q \in Claims(f, a) : g[q].amount = f[q].amount /\ g[q].allocation = f[q].allocation
    BY <1>3
  <2>2. QED
    BY <1>1, <1>2, <2>1, ClaimFacts, SameRows DEF Claimed, Taken
<1>5. \A a : \A o \in Parts(a) : o \in ShopOrders
  BY PartsFinite
<1>6. Within(g)
  BY <1>1, <1>4, <1>5 DEF Within
<1>7. ASSUME NEW q \in Refunds, g[q].status \in Standing PROVE Shared(g, q)
  <2>1. q # r /\ g[q] = f[q] /\ Shared(f, q)
    BY <1>7 DEF Kept
  <2>2. QED
    BY <1>4, <1>5, <2>1 DEF Shared
<1>8. QED
  BY <1>6, <1>7 DEF Kept

\* An approved refund that is paid has the claim it had.
LEMMA PaidKeeps ==
  ASSUME NEW f, Kept(f), NEW g \in [Refunds -> RefundRow], NEW r \in Refunds,
         f[r].status \in Standing, g[r].status \in Standing,
         g[r].target = f[r].target, g[r].amount = f[r].amount,
         g[r].allocation = f[r].allocation,
         \A q \in Refunds \ {r} : g[q] = f[q]
  PROVE  Kept(g)
<1>1. f \in [Refunds -> RefundRow] /\ Within(f)
  BY DEF Kept
<1>2. \A q \in Refunds : /\ g[q].target = f[q].target /\ g[q].amount = f[q].amount
                         /\ g[q].allocation = f[q].allocation
                         /\ g[q].status \in Standing <=> f[q].status \in Standing
  OBVIOUS
<1>3. \A a : Claims(g, a) = Claims(f, a)
  BY <1>2 DEF Claims
<1>4. ASSUME NEW a
      PROVE  /\ Claimed(g, a) = Claimed(f, a)
             /\ \A o \in ShopOrders : Taken(g, a, o) = Taken(f, a, o)
  BY <1>1, <1>2, <1>3, ClaimFacts, SameRows DEF Claimed, Taken
<1>5. \A a : \A o \in Parts(a) : o \in ShopOrders
  BY PartsFinite
<1>6. Within(g)
  BY <1>1, <1>4, <1>5 DEF Within
<1>7. ASSUME NEW q \in Refunds, g[q].status \in Standing PROVE Shared(g, q)
  <2>1. Shared(f, q)
    BY <1>2, <1>7 DEF Kept
  <2>2. QED
    BY <1>2, <1>4, <1>5, <2>1 DEF Shared
<1>8. QED
  BY <1>6, <1>7 DEF Kept

\* What is left of the orders of a payment.
Left(f, a) ==
  [o \in ShopOrders |-> IF o \in Parts(a) THEN Cap[o] - Taken(f, a, o) ELSE 0]

\* What is left of an order is never less than nothing.
LEMMA LeftFacts ==
  ASSUME books \in BooksOf, NEW f, Kept(f), NEW a \in Anchors
  PROVE  /\ Left(f, a) \in [ShopOrders -> Nat]
         /\ \A o \in Parts(a) : /\ Left(f, a)[o] = Cap[o] - Taken(f, a, o)
                                /\ Cap[o] \in Nat /\ Taken(f, a, o) \in Nat
         /\ Collected(a) \in Nat /\ Claimed(f, a) \in Nat
<1>1. /\ f \in [Refunds -> RefundRow] /\ Within(f)
      /\ Cap \in [ShopOrders -> Nat] /\ Parts(a) \in SUBSET ShopOrders
      /\ Claims(f, a) \in SUBSET Refunds
  BY CapNat, PartsFinite, ClaimFacts DEF Kept
<1>2. Claimed(f, a) \in Nat /\ \A o \in ShopOrders : Taken(f, a, o) \in Nat
  BY <1>1, ClaimSums DEF Claimed, Taken
<1>3. \A o \in Parts(a) : /\ Taken(f, a, o) <= Cap[o] /\ o \in ShopOrders
                          /\ Taken(f, a, o) \in Nat /\ Cap[o] \in Nat
  BY <1>1, <1>2 DEF Within
<1>4. \A o \in Parts(a) : Cap[o] - Taken(f, a, o) \in Nat
  BY <1>3
<1>5. Collected(a) \in Nat
  BY DEF BooksOf, Collected
<1>6. QED
  BY <1>2, <1>3, <1>4, <1>5 DEF Left

\* The share a refund gets of each order.
Allotted(t, n, v) ==
  IF t \in ShopOrders THEN [o \in ShopOrders |-> IF o = t THEN n ELSE 0]
  ELSE Waterfall(Parts(t), n, v)

\* A share is no more than what there is, and the shares add up.
LEMMA AllottedFacts ==
  ASSUME NEW t \in Targets, NEW n \in Nat, NEW v \in [ShopOrders -> Nat],
         NEW a, a = Anchor(t),
         IF t \in ShopOrders THEN n <= v[t] ELSE n <= SumOf(v, Parts(a))
  PROVE  /\ Allotted(t, n, v) \in [ShopOrders -> Nat]
         /\ \A o \in Parts(a) : Allotted(t, n, v)[o] <= v[o]
         /\ \A o \in ShopOrders \ Parts(a) : Allotted(t, n, v)[o] = 0
         /\ t \notin ShopOrders =>
              /\ SumOf(Allotted(t, n, v), Parts(a)) = n
              /\ \A o, p \in Parts(a) :
                   o < p /\ Allotted(t, n, v)[p] > 0 => Allotted(t, n, v)[o] = v[o]
<1>1. Parts(a) \in SUBSET ShopOrders
  BY PartsFinite
<1>2. CASE t \in ShopOrders
  <2>1. t \notin Combined
    BY <1>2, MoneyAssumption
  <2>2. t \in Parts(a)
    BY <1>2, <2>1 DEF Anchor, Parts
  <2>3. Allotted(t, n, v) = [o \in ShopOrders |-> IF o = t THEN n ELSE 0]
    BY <1>2 DEF Allotted
  <2>4. QED
    BY <1>1, <1>2, <2>2, <2>3
<1>3. CASE t \notin ShopOrders
  <2>1. a = t
    BY <1>3 DEF Targets, Anchor
  <2>2. Allotted(t, n, v) = Waterfall(Parts(a), n, v)
    BY <1>3, <2>1 DEF Allotted
  <2>3. \A o \in Parts(a) : v[o] \in Nat
    BY <1>1
  <2>4. n <= Sigma(v, Parts(a))
    BY <1>3, SumIsSigma
  <2> DEFINE S == Parts(a)
             W == Waterfall(S, n, v)
  <2>5. S \in SUBSET ShopOrders /\ (\A c \in S : v[c] \in Nat) /\ n <= Sigma(v, S)
    BY <1>1, <2>3, <2>4
  <2> HIDE DEF S
  <2>6. /\ W \in [ShopOrders -> Nat]
        /\ \A o \in ShopOrders \ S : W[o] = 0
        /\ \A o \in S : W[o] <= v[o]
        /\ \A o, p \in S : o < p /\ W[p] > 0 => W[o] = v[o]
    BY <2>5, WaterfallShares
  <2>7. Sigma(W, S) = n
    BY <2>5, WaterfallGives
  <2>8. SumOf(W, S) = n
    BY <2>7, SumIsSigma
  <2> HIDE DEF W
  <2>9. /\ W = Allotted(t, n, v)
        /\ S = Parts(a)
    BY <2>2 DEF W, S
  <2>10. QED
    BY <2>6, <2>8, <2>9
<1>4. QED
  BY <1>2, <1>3

\* A refund is promised what is left.
LEMMA PromiseKeeps ==
  ASSUME books \in BooksOf, NEW f, Kept(f), NEW g \in [Refunds -> RefundRow], NEW r \in Refunds,
         f[r].status \notin Standing, g[r].status \in Standing,
         \A q \in Refunds \ {r} : g[q] = f[q],
         NEW t \in Targets, NEW n \in Nat, NEW a, a = Anchor(t), Sound(a),
         g[r].target = t, g[r].amount = n, g[r].allocation = Allotted(t, n, Left(f, a)),
         Claimed(f, a) + n <= Collected(a),
         IF t \in ShopOrders THEN n <= Left(f, a)[t] ELSE n <= SumOf(Left(f, a), Parts(a))
  PROVE  Kept(g)
<1> DEFINE w == g[r].allocation
<1>1. f \in [Refunds -> RefundRow] /\ Within(f) /\ a \in Anchors
  BY DEF Kept, Sound
<1>2. /\ Left(f, a) \in [ShopOrders -> Nat]
      /\ \A o \in Parts(a) : /\ Left(f, a)[o] = Cap[o] - Taken(f, a, o)
                             /\ Cap[o] \in Nat /\ Taken(f, a, o) \in Nat
      /\ Collected(a) \in Nat /\ Claimed(f, a) \in Nat
  BY <1>1, LeftFacts
<1>3. /\ w \in [ShopOrders -> Nat]
      /\ \A o \in Parts(a) : w[o] <= Left(f, a)[o]
      /\ \A o \in ShopOrders \ Parts(a) : w[o] = 0
      /\ t \notin ShopOrders =>
           /\ SumOf(w, Parts(a)) = n
           /\ \A o, p \in Parts(a) : o < p /\ w[p] > 0 => w[o] = Left(f, a)[o]
  BY <1>2, AllottedFacts
<1>4. /\ Claims(g, a) = Claims(f, a) \cup {r} /\ r \notin Claims(f, a)
      /\ \A b : b # a => Claims(g, b) = Claims(f, b) /\ r \notin Claims(f, b)
  BY DEF Claims
<1>5. \A b : Claims(f, b) \in SUBSET Refunds /\ \A q \in Claims(f, b) : g[q] = f[q]
  BY DEF Claims
<1>6. /\ Claimed(g, a) = n + Claimed(f, a)
      /\ \A o \in ShopOrders : Taken(g, a, o) = w[o] + Taken(f, a, o)
  <2>1. /\ Claimed(g, a) = g[r].amount + Claimed(f, a)
        /\ \A o \in ShopOrders : Taken(g, a, o) = g[r].allocation[o] + Taken(f, a, o)
    BY <1>1, <1>4, ClaimAdded
  <2>2. QED
    BY <2>1
<1>7. ASSUME NEW b, b # a
      PROVE  /\ Claimed(g, b) = Claimed(f, b)
             /\ \A o \in ShopOrders : Taken(g, b, o) = Taken(f, b, o)
  BY <1>1, <1>4, <1>5, <1>7, SameRows DEF Claimed, Taken
<1>8. \A b : \A o \in Parts(b) : o \in ShopOrders
  BY PartsFinite
<1> HIDE DEF w
<1>9. \A o \in Parts(a) : Taken(g, a, o) <= Cap[o] /\ Taken(f, a, o) <= Taken(g, a, o)
  <2> TAKE o \in Parts(a)
  <2>1. /\ w[o] \in Nat /\ w[o] <= Left(f, a)[o] /\ Left(f, a)[o] = Cap[o] - Taken(f, a, o)
        /\ Cap[o] \in Nat /\ Taken(f, a, o) \in Nat
        /\ Taken(g, a, o) = w[o] + Taken(f, a, o)
    BY <1>2, <1>3, <1>6, <1>8
  <2>2. QED
    BY <2>1
<1>10. Within(g)
  <2> SUFFICES ASSUME NEW b \in Anchors
               PROVE  Claimed(g, b) <= Collected(b) /\ \A o \in Parts(b) : Taken(g, b, o) <= Cap[o]
    BY DEF Within
  <2>1. CASE b = a
    BY <1>2, <1>6, <1>9, <2>1
  <2>2. CASE b # a
    BY <1>1, <1>7, <1>8, <2>2 DEF Within
  <2>3. QED
    BY <2>1, <2>2
<1>11. Shared(g, r)
  <2>1. ASSUME t \notin ShopOrders, NEW o \in Parts(a), NEW p \in Parts(a), o < p, w[p] > 0
        PROVE  Taken(g, a, o) = Cap[o]
    <3>1. /\ w[o] = Cap[o] - Taken(f, a, o) /\ Taken(g, a, o) = w[o] + Taken(f, a, o)
          /\ Cap[o] \in Nat /\ Taken(f, a, o) \in Nat
      BY <1>2, <1>3, <1>6, <1>8, <2>1
    <3>2. QED
      BY <3>1
  <2>2. CASE t \in ShopOrders
    BY <2>2 DEF Shared, Allotted
  <2>3. CASE t \notin ShopOrders
    BY <1>3, <2>1, <2>3 DEF Shared, w
  <2>4. QED
    BY <2>2, <2>3
<1>12. ASSUME NEW q \in Refunds, q # r, g[q].status \in Standing PROVE Shared(g, q)
  <2> DEFINE b == Anchor(f[q].target)
  <2>1. g[q] = f[q] /\ Shared(f, q)
    BY <1>12 DEF Kept
  <2>2. b \in Anchors
    BY <2>1 DEF Shared, Sound
  <2>3. ASSUME NEW o \in Parts(b), Taken(f, b, o) = Cap[o] PROVE Taken(g, b, o) = Cap[o]
    <3>1. CASE b = a
      <4>1. /\ Taken(g, a, o) <= Cap[o] /\ Taken(f, a, o) <= Taken(g, a, o)
            /\ Cap[o] \in Nat /\ Taken(g, a, o) = w[o] + Taken(f, a, o) /\ w[o] \in Nat
            /\ Taken(f, a, o) = Cap[o]
        BY <1>2, <1>3, <1>6, <1>8, <1>9, <2>3, <3>1
      <4>2. Taken(g, a, o) = Cap[o]
        BY <4>1
      <4>3. QED
        BY <3>1, <4>2
    <3>2. CASE b # a
      BY <1>7, <1>8, <2>3, <3>2
    <3>3. QED
      BY <3>1, <3>2
  <2>4. QED
    BY <2>1, <2>3 DEF Shared
<1>13. QED
  BY <1>10, <1>11, <1>12 DEF Kept

-----------------------------------------------------------------------------
(* The operations in these terms                                           *)

\* The books are closed: what an order can give back stays what it is.
LEMMA BooksStay ==
  ASSUME books' = books
  PROVE  /\ Cap' = Cap
         /\ \A a : Paying(a)' = Paying(a) /\ Collected(a)' = Collected(a)
BY DEF Cap, Paying, Collected, Delivered, Total

\* What is kept of the refunds is kept of the rows a step leaves.
LEMMA KeptLater ==
  ASSUME books' = books, Kept(refund')
  PROVE  Kept(refund)'
<1>1. /\ Cap' = Cap
      /\ \A a : Paying(a)' = Paying(a) /\ Collected(a)' = Collected(a)
  BY BooksStay
<1>2. Within(refund)'
  BY <1>1 DEF Kept, Within, Claimed, Taken
<1>3. \A r \in Refunds : refund[r].status' \in Standing => Shared(refund, r)'
  BY <1>1 DEF Kept, Shared, Sound, Taken
<1>4. QED
  BY <1>2, <1>3 DEF Kept

\* What is promised of a payment are the claims on it.
LEMMA ClaimsAre ==
  /\ \A a : Promised(a) = Claims(refund, a) /\ Reserved(a, {}) = Claims(refund, a)
  /\ \A a, r : Reserved(a, {r}) = Claims(refund, a) \ {r}
  /\ \A a : AmountsOf(Claims(refund, a)) = Claimed(refund, a)
  /\ \A a, o : TakenFrom(o, Claims(refund, a)) = Taken(refund, a, o)
BY DEF Promised, Reserved, Claims, Standing, AmountsOf, Claimed, TakenFrom, Taken

\* NeverOverRefunded is one of the things kept.
LEMMA WithinIs == Within(refund) <=> NeverOverRefunded
BY ClaimsAre DEF Within, NeverOverRefunded

\* A payment of which something was collected has orders.
LEMMA PayingAnchor == ASSUME NEW a, Paying(a) # {} PROVE a \in Anchors
BY DEF Paying, Parts, Anchors

\* An operation that may allocate an amount is promised what is left.
LEMMA Allocates ==
  ASSUME books \in BooksOf, Kept(refund), NEW t \in Targets, NEW n \in Nat,
         NEW a, a = Anchor(t), MayAllocate(t, n, {})
  PROVE  /\ Sound(a)
         /\ Claimed(refund, a) + n <= Collected(a)
         /\ IF t \in ShopOrders THEN n <= Left(refund, a)[t]
            ELSE n <= SumOf(Left(refund, a), Parts(a))
         /\ Allocation(t, n, {}) = Allotted(t, n, Left(refund, a))
<1>1. Sound(a)
  BY PayingAnchor DEF MayAllocate, Sound
<1>2. Available(a, {}) = Left(refund, a)
  <2>1. \A o \in Parts(a) : /\ Left(refund, a)[o] = Cap[o] - Taken(refund, a, o)
                            /\ Left(refund, a)[o] \in Nat
    BY <1>1, LeftFacts, PartsFinite DEF Sound
  <2>2. \A o \in Parts(a) : ~(Cap[o] - Taken(refund, a, o) < 0)
    BY <2>1
  <2>3. \A o : TakenFrom(o, Reserved(a, {})) = Taken(refund, a, o)
    BY ClaimsAre
  <2>4. QED
    BY <2>2, <2>3 DEF Available, Left
<1>3. AmountsOf(Reserved(a, {})) = Claimed(refund, a)
  BY ClaimsAre
<1>4. t \notin ShopOrders => t = a
  BY DEF Targets, Anchor
<1>5. QED
  BY <1>1, <1>2, <1>3, <1>4 DEF MayAllocate, Allocation, Allotted

\* NeverOverRefunded and what it rests on, when a refund gets a claim.
LEMMA PromiseStep ==
  ASSUME books \in BooksOf, Kept(refund), refund' \in [Refunds -> RefundRow],
         NEW t \in Targets, NEW n \in Nat, MayAllocate(t, n, {}),
         NEW r \in Refunds, refund[r].status \notin Standing,
         refund'[r].status \in Standing, refund'[r].target = t, refund'[r].amount = n,
         refund'[r].allocation = Allocation(t, n, {}),
         \A q \in Refunds \ {r} : refund'[q] = refund[q]
  PROVE  Kept(refund')
<1> DEFINE a == Anchor(t)
           f == refund
           g == refund'
<1>1. /\ Sound(a)
      /\ Claimed(f, a) + n <= Collected(a)
      /\ IF t \in ShopOrders THEN n <= Left(f, a)[t] ELSE n <= SumOf(Left(f, a), Parts(a))
      /\ Allocation(t, n, {}) = Allotted(t, n, Left(f, a))
  BY Allocates
<1>2. /\ Kept(f) /\ g \in [Refunds -> RefundRow]
      /\ f[r].status \notin Standing /\ g[r].status \in Standing
      /\ \A q \in Refunds \ {r} : g[q] = f[q]
      /\ g[r].target = t /\ g[r].amount = n /\ g[r].allocation = Allotted(t, n, Left(f, a))
  BY <1>1
<1> HIDE DEF f, g
<1>3. Kept(g)
  BY <1>1, <1>2, PromiseKeeps
<1>4. QED
  BY <1>3 DEF g

\* What is left for a refund besides the others: what it was promised, and what
\* is left besides it.
LEMMA AvailableBeside ==
  ASSUME books \in BooksOf, Kept(refund), NEW r \in Refunds, refund[r].status \in Standing,
         NEW a \in Anchors, a = Anchor(refund[r].target)
  PROVE  /\ refund[r].amount + AmountsOf(Reserved(a, {r})) = Claimed(refund, a)
         /\ AmountsOf(Reserved(a, {r})) \in Nat
         /\ Available(a, {r}) \in [ShopOrders -> Nat]
         /\ \A o \in Parts(a) :
              /\ Available(a, {r})[o] = (Cap[o] - Taken(refund, a, o)) + refund[r].allocation[o]
              /\ Cap[o] - Taken(refund, a, o) \in Nat
<1> DEFINE P == Claims(refund, a) \ {r}
<1>1. /\ P \in SUBSET Refunds /\ r \notin P
      /\ Claims(refund, a) = With(P, r) /\ Reserved(a, {r}) = P
  <2>1. r \in Claims(refund, a) /\ Claims(refund, a) \in SUBSET Refunds
    BY ClaimFacts
  <2>2. Claims(refund, a) = (Claims(refund, a) \ {r}) \cup {r}
    BY <2>1
  <2>3. Reserved(a, {r}) = P
    BY ClaimsAre
  <2>4. QED
    BY <2>1, <2>2, <2>3 DEF With
<1>2. refund \in [Refunds -> RefundRow]
  BY DEF Kept
<1> HIDE DEF P
<1>3. /\ SumOf(AmountOf(refund), With(P, r)) = refund[r].amount + SumOf(AmountOf(refund), P)
      /\ \A o \in ShopOrders :
           SumOf(ShareOf(o, refund), With(P, r))
             = refund[r].allocation[o] + SumOf(ShareOf(o, refund), P)
  BY <1>1, <1>2, OneMore
<1>4. /\ SumOf(AmountOf(refund), P) \in Nat
      /\ \A o \in ShopOrders : SumOf(ShareOf(o, refund), P) \in Nat
  BY <1>1, <1>2, ClaimSums
<1>5. /\ AmountsOf(Reserved(a, {r})) = SumOf(AmountOf(refund), P)
      /\ \A o : TakenFrom(o, Reserved(a, {r})) = SumOf(ShareOf(o, refund), P)
      /\ Claimed(refund, a) = SumOf(AmountOf(refund), With(P, r))
      /\ \A o : Taken(refund, a, o) = SumOf(ShareOf(o, refund), With(P, r))
  BY <1>1 DEF AmountsOf, TakenFrom, Claimed, Taken
<1>6. \A o \in ShopOrders : refund[r].allocation[o] \in Nat
  BY <1>2 DEF RefundRow
<1>7. ASSUME NEW o \in Parts(a)
      PROVE  LET x == TakenFrom(o, Reserved(a, {r}))
             IN /\ Cap[o] - x = (Cap[o] - Taken(refund, a, o)) + refund[r].allocation[o]
                /\ Cap[o] - Taken(refund, a, o) \in Nat /\ Cap[o] - x \in Nat
                /\ o \in ShopOrders
  <2> DEFINE x == TakenFrom(o, Reserved(a, {r}))
  <2>1. o \in ShopOrders
    BY PartsFinite
  <2>2. Taken(refund, a, o) = refund[r].allocation[o] + x /\ x \in Nat
    BY <1>3, <1>4, <1>5, <2>1
  <2>3. Taken(refund, a, o) <= Cap[o] /\ Cap[o] \in Nat /\ refund[r].allocation[o] \in Nat
    BY <1>6, <2>1, CapNat DEF Kept, Within
  <2> HIDE DEF x
  <2>4. /\ Cap[o] - x = (Cap[o] - Taken(refund, a, o)) + refund[r].allocation[o]
        /\ Cap[o] - Taken(refund, a, o) \in Nat /\ Cap[o] - x \in Nat
    BY <2>2, <2>3
  <2>5. QED
    BY <2>1, <2>4 DEF x
<1>8. \A o \in Parts(a) : ~(Cap[o] - TakenFrom(o, Reserved(a, {r})) < 0)
  BY <1>7
<1>9. \A o \in Parts(a) : Available(a, {r})[o] = Cap[o] - TakenFrom(o, Reserved(a, {r}))
  BY <1>7, <1>8 DEF Available
<1>10. \A o \in ShopOrders \ Parts(a) : Available(a, {r})[o] = 0
  BY DEF Available
<1>11. Available(a, {r}) \in [ShopOrders -> Nat]
  <2>1. Available(a, {r}) = [o \in ShopOrders |-> Available(a, {r})[o]]
    BY DEF Available
  <2>2. \A o \in ShopOrders : Available(a, {r})[o] \in Nat
    <3>1. \A o \in Parts(a) : Available(a, {r})[o] \in Nat
      BY <1>7, <1>9, Zenon
    <3>2. 0 \in Nat
      OBVIOUS
    <3>3. QED
      BY <1>10, <3>1, <3>2, Zenon
  <2>3. QED
    BY <2>1, <2>2
<1>12. /\ refund[r].amount + AmountsOf(Reserved(a, {r})) = Claimed(refund, a)
       /\ AmountsOf(Reserved(a, {r})) \in Nat
  BY <1>3, <1>4, <1>5
<1>13. QED
  BY <1>7, <1>9, <1>11, <1>12

\* ApprovedStaysPayable from what is kept: the loop that shares the amount finds
\* the shares again.
LEMMA KeptPayable ==
  ASSUME books \in BooksOf, Kept(refund), NEW r \in Refunds, refund[r].status = "APPROVED"
  PROVE  StillAllocated(r)
<1> DEFINE t == refund[r].target
           n == refund[r].amount
           w == refund[r].allocation
           a == Anchor(t)
           v == Available(a, {r})
<1>1. refund[r].status \in Standing /\ Shared(refund, r) /\ refund[r] \in RefundRow
  BY DEF Standing, Kept
<1>2. t \in Targets /\ Sound(a) /\ a \in Anchors
  BY <1>1 DEF Shared, Sound
<1>3. /\ n + AmountsOf(Reserved(a, {r})) = Claimed(refund, a)
      /\ AmountsOf(Reserved(a, {r})) \in Nat
      /\ v \in [ShopOrders -> Nat]
      /\ \A o \in Parts(a) : /\ v[o] = (Cap[o] - Taken(refund, a, o)) + w[o]
                             /\ Cap[o] - Taken(refund, a, o) \in Nat
  BY <1>1, <1>2, AvailableBeside
<1>4. n \in Nat /\ w \in [ShopOrders -> Nat]
  BY <1>1 DEF RefundRow
<1>5. Claimed(refund, a) <= Collected(a)
  BY <1>2 DEF Kept, Within
<1>6. AmountsOf(Reserved(a, {r})) + n <= Collected(a)
  <2> DEFINE x == AmountsOf(Reserved(a, {r}))
  <2>1. n + x <= Collected(a) /\ x \in Nat /\ n \in Nat
    BY <1>3, <1>4, <1>5
  <2> HIDE DEF x, n
  <2>2. QED
    BY <2>1 DEF x
<1>7. Parts(a) \in SUBSET ShopOrders /\ IsFiniteSet(Parts(a))
  BY PartsFinite
<1>8. \A o \in Parts(a) : v[o] \in Nat /\ w[o] \in Nat /\ w[o] <= v[o]
  <2> TAKE o \in Parts(a)
  <2> DEFINE l == Cap[o] - Taken(refund, a, o)
  <2>1. v[o] = l + w[o] /\ l \in Nat /\ w[o] \in Nat /\ v[o] \in Nat
    BY <1>3, <1>4, <1>7
  <2> HIDE DEF l, v, w
  <2>2. QED
    BY <2>1
<1> HIDE DEF v, w, n
<1>9. CASE t \in ShopOrders
  <2>1. w = [o \in ShopOrders |-> IF o = t THEN n ELSE 0]
    BY <1>1, <1>9 DEF Shared, w, n
  <2>2. t \in Parts(a)
    BY <1>9, MoneyAssumption DEF Anchor, Parts
  <2>3. w[t] = n
    BY <1>9, <2>1
  <2>4. n <= v[t]
    BY <1>8, <2>2, <2>3
  <2>5. QED
    BY <1>2, <1>6, <1>9, <2>1, <2>4 DEF StillAllocated, MayAllocate, Allocation, Sound, v, w, n
<1>10. CASE t \notin ShopOrders
  <2>1. /\ SumOf(w, Parts(a)) = n
        /\ \A o \in ShopOrders \ Parts(a) : w[o] = 0
        /\ \A o, p \in Parts(a) : o < p /\ w[p] > 0 => Taken(refund, a, o) = Cap[o]
    BY <1>1, <1>10 DEF Shared, w, n
  <2>2. \A o, p \in Parts(a) : o < p /\ w[p] > 0 => w[o] = v[o]
    <3>1. ASSUME NEW o \in Parts(a), Taken(refund, a, o) = Cap[o] PROVE w[o] = v[o]
      <4>1. /\ v[o] = (Cap[o] - Taken(refund, a, o)) + w[o]
            /\ Cap[o] \in Nat /\ w[o] \in Nat
        BY <1>3, <1>7, <1>8, CapNat DEF v, w
      <4>2. QED
        BY <3>1, <4>1
    <3>2. QED
      BY <2>1, <3>1
  <2>3. Sigma(w, Parts(a)) = n
    BY <2>1, SumIsSigma
  <2>4. Waterfall(Parts(a), n, v) = w
    BY <1>4, <1>7, <1>8, <2>1, <2>2, <2>3, WaterfallOnly DEF w, n
  <2>5. n <= SumOf(v, Parts(a))
    <3>1. \A o \in Parts(a) : w[o] \in Int /\ v[o] \in Int /\ w[o] <= v[o]
      BY <1>8
    <3>2. Sigma(w, Parts(a)) <= Sigma(v, Parts(a))
      BY <1>7, <3>1, SigmaLess
    <3>3. QED
      BY <2>3, <3>2, SumIsSigma
  <2>6. t = a
    BY <1>2, <1>10 DEF Targets, Anchor
  <2>7. MayAllocate(t, n, {r})
    BY <1>2, <1>6, <1>10, <2>5 DEF MayAllocate, Sound, v
  <2>8. Allocation(t, n, {r}) = w
    BY <1>10, <2>4, <2>6 DEF Allocation, v
  <2>9. QED
    BY <2>7, <2>8 DEF StillAllocated, w, n
<1>11. QED
  BY <1>9, <1>10

-----------------------------------------------------------------------------
(* What was paid back                                                      *)

AllDone(f) == {r \in Refunds : f[r].status = "COMPLETED"}

Given(f, a) == SumOf(AmountOf(f), CompletedOf(a, f))
GivenOf(f, a, o) == SumOf(ShareOf(o, f), CompletedOf(a, f))

Agree(f, payments, orders, balance) ==
  /\ balance = SumOf(AmountOf(f), AllDone(f))
  /\ \A a \in Anchors :
       /\ payments[a] = IF CompletedOf(a, f) = {} THEN "CASH_COLLECTED"
                        ELSE IF Given(f, a) = Collected(a) THEN "REFUNDED"
                        ELSE "PARTIALLY_REFUNDED"
       /\ \A o \in Paying(a) :
            orders[o] = IF GivenOf(f, a, o) = 0 THEN "CASH_COLLECTED"
                        ELSE IF GivenOf(f, a, o) = Cap[o] THEN "REFUNDED"
                        ELSE "PARTIALLY_REFUNDED"

\* BooksAgree, of the rows before a step ...
LEMMA AgreeIs == BooksAgree <=> Agree(refund, paymentStatus, orderPayment, wallet)
BY DEF BooksAgree, Agree, Given, GivenOf, AmountsOf, TakenFrom, AllDone

\* ... and of those after it.
LEMMA AgreeLater ==
  ASSUME books' = books, Agree(refund', paymentStatus', orderPayment', wallet')
  PROVE  BooksAgree'
<1>1. /\ Cap' = Cap
      /\ \A a : Paying(a)' = Paying(a) /\ Collected(a)' = Collected(a)
  BY BooksStay
<1>2. QED
  BY <1>1 DEF BooksAgree, Agree, Given, GivenOf, AmountsOf, TakenFrom, AllDone, CompletedOf

\* Paid refunds are among those with a claim.
LEMMA DoneFacts ==
  ASSUME NEW f
  PROVE  /\ AllDone(f) \in SUBSET Refunds
         /\ \A a : CompletedOf(a, f) \in SUBSET Claims(f, a)
         /\ \A a : CompletedOf(a, f) \in SUBSET Refunds
         /\ \A a : \A r \in Refunds : r \in CompletedOf(a, f) <=>
              f[r].status = "COMPLETED" /\ Anchor(f[r].target) = a
BY DEF AllDone, CompletedOf, Claims, Standing

\* No more was paid back than was promised.
LEMMA GivenWithin ==
  ASSUME books \in BooksOf, NEW f, Kept(f), NEW a \in Anchors
  PROVE  /\ Given(f, a) \in Nat /\ Given(f, a) <= Collected(a) /\ Collected(a) \in Nat
         /\ \A o \in Parts(a) : /\ GivenOf(f, a, o) \in Nat /\ GivenOf(f, a, o) <= Cap[o]
                                /\ Cap[o] \in Nat
<1> DEFINE P == CompletedOf(a, f)
           Q == Claims(f, a)
<1>1. P \in SUBSET Q /\ P \in SUBSET Refunds /\ Q \in SUBSET Refunds /\ IsFiniteSet(Q)
  BY DoneFacts, ClaimFacts, MoneyAssumption, FS_Subset
<1>2. f \in [Refunds -> RefundRow]
  BY DEF Kept
<1> HIDE DEF P, Q
<1>3. /\ \A r \in Refunds : AmountOf(f)[r] \in Nat
      /\ \A o \in ShopOrders : \A r \in Refunds : ShareOf(o, f)[r] \in Nat
      /\ SumOf(AmountOf(f), P) \in Nat /\ SumOf(AmountOf(f), Q) \in Nat
      /\ \A o \in ShopOrders : SumOf(ShareOf(o, f), P) \in Nat /\ SumOf(ShareOf(o, f), Q) \in Nat
  BY <1>1, <1>2, ClaimSums
<1>4. SumOf(AmountOf(f), P) <= SumOf(AmountOf(f), Q)
  <2>1. \A r \in Q : AmountOf(f)[r] \in Nat
    BY <1>1, <1>3
  <2>2. Sigma(AmountOf(f), P) <= Sigma(AmountOf(f), Q)
    BY <1>1, <2>1, PartIsLess
  <2>3. QED
    BY <2>2, SumIsSigma
<1>5. ASSUME NEW o \in ShopOrders PROVE SumOf(ShareOf(o, f), P) <= SumOf(ShareOf(o, f), Q)
  <2>1. \A r \in Q : ShareOf(o, f)[r] \in Nat
    BY <1>1, <1>3
  <2>2. Sigma(ShareOf(o, f), P) <= Sigma(ShareOf(o, f), Q)
    BY <1>1, <2>1, PartIsLess
  <2>3. QED
    BY <2>2, SumIsSigma
<1>6. /\ SumOf(AmountOf(f), Q) <= Collected(a)
      /\ \A o \in Parts(a) : SumOf(ShareOf(o, f), Q) <= Cap[o] /\ o \in ShopOrders
  BY PartsFinite DEF Kept, Within, Claimed, Taken, Q
<1>7. Collected(a) \in Nat /\ \A o \in ShopOrders : Cap[o] \in Nat
  BY CapNat DEF BooksOf, Collected
<1>8. QED
  BY <1>3, <1>4, <1>5, <1>6, <1>7 DEF Given, GivenOf, P

\* A refund that is paid adds to what was paid back of its payment.
LEMMA DoneAdded ==
  ASSUME NEW f \in [Refunds -> RefundRow], NEW g \in [Refunds -> RefundRow],
         NEW r \in Refunds, f[r].status # "COMPLETED", g[r].status = "COMPLETED",
         \A q \in Refunds \ {r} : g[q] = f[q],
         NEW a, a = Anchor(g[r].target)
  PROVE  /\ AllDone(g) = With(AllDone(f), r) /\ r \notin AllDone(f)
         /\ SumOf(AmountOf(g), AllDone(g)) = g[r].amount + SumOf(AmountOf(f), AllDone(f))
         /\ CompletedOf(a, g) # {}
         /\ \A o \in ShopOrders : GivenOf(g, a, o) = g[r].allocation[o] + GivenOf(f, a, o)
         /\ \A b : b # a =>
              /\ CompletedOf(b, g) = CompletedOf(b, f) /\ Given(g, b) = Given(f, b)
              /\ \A o \in ShopOrders : GivenOf(g, b, o) = GivenOf(f, b, o)
<1>1. \A P \in SUBSET Refunds : r \notin P =>
        \A q \in P : g[q].amount = f[q].amount /\ g[q].allocation = f[q].allocation
  OBVIOUS
<1>2. AllDone(g) = With(AllDone(f), r) /\ r \notin AllDone(f) /\ AllDone(f) \in SUBSET Refunds
  BY DEF AllDone, With
<1>3. /\ CompletedOf(a, g) = With(CompletedOf(a, f), r)
      /\ \A b : r \notin CompletedOf(b, f) /\ CompletedOf(b, f) \in SUBSET Refunds
      /\ \A b : b # a => CompletedOf(b, g) = CompletedOf(b, f)
  BY DEF CompletedOf, With
<1>4. SumOf(AmountOf(g), With(AllDone(f), r)) = g[r].amount + SumOf(AmountOf(f), AllDone(f))
  <2>1. \A q \in AllDone(f) : g[q].amount = f[q].amount /\ g[q].allocation = f[q].allocation
    BY <1>1, <1>2
  <2>2. QED
    BY <1>2, <2>1, OneMore
<1>5. \A o \in ShopOrders : SumOf(ShareOf(o, g), With(CompletedOf(a, f), r))
                              = g[r].allocation[o] + SumOf(ShareOf(o, f), CompletedOf(a, f))
  <2> DEFINE P == CompletedOf(a, f)
  <2>1. P \in SUBSET Refunds /\ r \notin P
    BY <1>3
  <2> HIDE DEF P
  <2>2. \A q \in P : g[q].amount = f[q].amount /\ g[q].allocation = f[q].allocation
    BY <1>1, <2>1
  <2>3. QED
    BY <2>1, <2>2, OneMore DEF P
<1>6. ASSUME NEW b, b # a
      PROVE  /\ Given(g, b) = Given(f, b)
             /\ \A o \in ShopOrders : GivenOf(g, b, o) = GivenOf(f, b, o)
  <2> DEFINE P == CompletedOf(b, f)
  <2>1. P \in SUBSET Refunds /\ r \notin P /\ CompletedOf(b, g) = P
    BY <1>3, <1>6
  <2> HIDE DEF P
  <2>2. \A q \in P : g[q].amount = f[q].amount /\ g[q].allocation = f[q].allocation
    BY <1>1, <2>1
  <2>3. /\ SumOf(AmountOf(g), P) = SumOf(AmountOf(f), P)
        /\ \A o \in ShopOrders : SumOf(ShareOf(o, g), P) = SumOf(ShareOf(o, f), P)
    BY <2>1, <2>2, SameRows
  <2>4. QED
    BY <2>1, <2>3 DEF Given, GivenOf, P
<1>7. CompletedOf(a, g) # {}
  BY <1>3 DEF With
<1>8. QED
  BY <1>2, <1>3, <1>4, <1>5, <1>6, <1>7 DEF GivenOf

\* Refunds that are not paid change nothing of it.
LEMMA DoneSame ==
  ASSUME NEW f \in [Refunds -> RefundRow], NEW g \in [Refunds -> RefundRow],
         NEW r \in Refunds, f[r].status # "COMPLETED", g[r].status # "COMPLETED",
         \A q \in Refunds \ {r} : g[q] = f[q]
  PROVE  /\ AllDone(g) = AllDone(f) /\ r \notin AllDone(f) /\ AllDone(f) \in SUBSET Refunds
         /\ SumOf(AmountOf(g), AllDone(g)) = SumOf(AmountOf(f), AllDone(f))
         /\ \A b : /\ CompletedOf(b, g) = CompletedOf(b, f) /\ Given(g, b) = Given(f, b)
                   /\ \A o \in ShopOrders : GivenOf(g, b, o) = GivenOf(f, b, o)
<1>1. \A P \in SUBSET Refunds : r \notin P =>
        \A q \in P : g[q].amount = f[q].amount /\ g[q].allocation = f[q].allocation
  OBVIOUS
<1>2. AllDone(g) = AllDone(f) /\ r \notin AllDone(f) /\ AllDone(f) \in SUBSET Refunds
  BY DEF AllDone
<1>3. \A b : /\ CompletedOf(b, g) = CompletedOf(b, f)
             /\ r \notin CompletedOf(b, f) /\ CompletedOf(b, f) \in SUBSET Refunds
  BY DEF CompletedOf
<1>4. ASSUME NEW P \in SUBSET Refunds, r \notin P
      PROVE  /\ SumOf(AmountOf(g), P) = SumOf(AmountOf(f), P)
             /\ \A o \in ShopOrders : SumOf(ShareOf(o, g), P) = SumOf(ShareOf(o, f), P)
  <2>1. \A q \in P : g[q].amount = f[q].amount /\ g[q].allocation = f[q].allocation
    BY <1>1, <1>4
  <2>2. QED
    BY <1>4, <2>1, SameRows
<1>5. QED
  BY <1>2, <1>3, <1>4 DEF Given, GivenOf

-----------------------------------------------------------------------------
(* Payouts                                                                 *)

\* What was refunded of the orders of S.
SharesIn(f, S) == [r \in Refunds |-> SumOf(f[r].allocation, S)]
Deducted(f, S) == SumOf(SharesIn(f, S), AllDone(f))

\* What a shop is owed: earnings less what was refunded.
LEMMA PayableIs == \A S : Payable(S) = SumOf(books.earning, S) - Deducted(refund, S)
BY DEF Payable, Deductions, Deducted, SharesIn, AllDone

\* ... and of the rows a step leaves.
LEMMA PayableLater ==
  ASSUME books' = books
  PROVE  \A S : Payable(S)' = SumOf(books.earning, S) - Deducted(refund', S)
BY DEF Payable, Deductions, Deducted, SharesIn, AllDone

\* Deductions are amounts.
LEMMA DeductedNat ==
  ASSUME NEW f \in [Refunds -> RefundRow], NEW S \in SUBSET ShopOrders
  PROVE  /\ Deducted(f, S) \in Nat
         /\ \A r \in Refunds : SharesIn(f, S)[r] = SumOf(f[r].allocation, S)
         /\ \A r \in Refunds : SharesIn(f, S)[r] \in Nat
<1>1. IsFiniteSet(S) /\ IsFiniteSet(AllDone(f)) /\ AllDone(f) \in SUBSET Refunds
  BY DoneFacts, MoneyAssumption, FS_Subset
<1>2. ASSUME NEW r \in Refunds PROVE SumOf(f[r].allocation, S) \in Nat
  <2> DEFINE w == f[r].allocation
  <2>1. \A o \in S : w[o] \in Nat
    BY DEF RefundRow
  <2> HIDE DEF w
  <2>2. Sigma(w, S) \in Nat
    BY <1>1, <2>1, SigmaNat
  <2>3. QED
    BY <2>2, SumIsSigma DEF w
<1>3. \A r \in Refunds : /\ SharesIn(f, S)[r] = SumOf(f[r].allocation, S)
                         /\ SharesIn(f, S)[r] \in Nat
  BY <1>2 DEF SharesIn
<1>4. Sigma(SharesIn(f, S), AllDone(f)) \in Nat
  BY <1>1, <1>3, SigmaNat
<1>5. QED
  BY <1>3, <1>4, SumIsSigma DEF Deducted

\* Only refunds that are paid are deducted.
LEMMA DeductedSame ==
  ASSUME NEW f \in [Refunds -> RefundRow], NEW g \in [Refunds -> RefundRow],
         NEW r \in Refunds, f[r].status # "COMPLETED", g[r].status # "COMPLETED",
         \A q \in Refunds \ {r} : g[q] = f[q], NEW S \in SUBSET ShopOrders
  PROVE  Deducted(g, S) = Deducted(f, S)
<1>1. AllDone(g) = AllDone(f) /\ r \notin AllDone(f) /\ AllDone(f) \in SUBSET Refunds
  BY DoneSame
<1>2. IsFiniteSet(AllDone(f))
  BY <1>1, MoneyAssumption, FS_Subset
<1>3. \A q \in AllDone(f) : SharesIn(g, S)[q] = SharesIn(f, S)[q]
  BY <1>1, DeductedNat
<1>4. Sigma(SharesIn(g, S), AllDone(f)) = Sigma(SharesIn(f, S), AllDone(f))
  BY <1>2, <1>3, SigmaSame
<1>5. QED
  BY <1>1, <1>4, SumIsSigma DEF Deducted

\* A refund that gives nothing back of the orders of a payout leaves it alone.
LEMMA DeductedBeside ==
  ASSUME NEW f \in [Refunds -> RefundRow], NEW g \in [Refunds -> RefundRow],
         NEW r \in Refunds, f[r].status # "COMPLETED", g[r].status = "COMPLETED",
         \A q \in Refunds \ {r} : g[q] = f[q], NEW S \in SUBSET ShopOrders,
         \A o \in S : g[r].allocation[o] = 0
  PROVE  Deducted(g, S) = Deducted(f, S)
<1> DEFINE P == AllDone(f)
<1>1. AllDone(g) = P \cup {r} /\ r \notin P /\ P \in SUBSET Refunds
  BY DoneAdded, DoneFacts DEF With
<1> HIDE DEF P
<1>2. IsFiniteSet(P) /\ IsFiniteSet(S)
  BY <1>1, MoneyAssumption, FS_Subset
<1>3. /\ \A q \in Refunds : SharesIn(g, S)[q] = SumOf(g[q].allocation, S)
      /\ \A q \in Refunds : SharesIn(g, S)[q] \in Nat
      /\ \A q \in Refunds : SharesIn(f, S)[q] = SumOf(f[q].allocation, S)
      /\ Deducted(f, S) \in Nat
  BY DeductedNat
<1>4. SharesIn(g, S)[r] = 0
  <2> DEFINE w == g[r].allocation
  <2>1. \A o \in S : w[o] = 0
    OBVIOUS
  <2> HIDE DEF w
  <2>2. Sigma(w, S) = 0
    BY <1>2, <2>1, SigmaZero
  <2>3. QED
    BY <1>3, <2>2, SumIsSigma DEF w
<1>5. \A q \in P : SharesIn(g, S)[q] = SharesIn(f, S)[q]
  BY <1>1, <1>3
<1>6. Sigma(SharesIn(g, S), P) = Sigma(SharesIn(f, S), P)
  BY <1>2, <1>5, SigmaSame
<1>7. Sigma(SharesIn(g, S), P \cup {r}) = SharesIn(g, S)[r] + Sigma(SharesIn(g, S), P)
  <2>1. \A q \in P \cup {r} : SharesIn(g, S)[q] \in Int
    BY <1>1, <1>3
  <2>2. QED
    BY <1>1, <1>2, <2>1, SigmaInsert
<1>8. /\ Deducted(f, S) = Sigma(SharesIn(f, S), P)
      /\ Deducted(g, S) = Sigma(SharesIn(g, S), P \cup {r})
  BY <1>1, SumIsSigma DEF Deducted, P
<1>9. QED
  BY <1>3, <1>4, <1>6, <1>7, <1>8

-----------------------------------------------------------------------------
(* What refunds and payouts keep                                           *)

\* A refund that was asked for names an order.
Aimed == \A r \in Refunds : refund[r].status # "NONE" => refund[r].target \in Targets

\* Orders are put only in settlements that were generated.
Placed ==
  \A o \in ShopOrders, s \in Settlements : settlementOf[o] = s => settlement[s].status # "NONE"

RefundInv ==
  /\ RefundTypeOK /\ Aimed /\ Kept(refund) /\ BooksAgree /\ PayoutExact /\ Placed

\* Nothing was given back yet.
LEMMA RefundStart == RefundInit => RefundInv
<1> SUFFICES ASSUME RefundInit PROVE RefundInv
  OBVIOUS
<1>1. books \in BooksOf /\ Opened
  BY DEF RefundInit
<1>2. \A r \in Refunds : refund[r] = NoRefund
  BY <1>1 DEF Opened
<1>3. NoRefund \in RefundRow /\ NoRefund.status = "NONE"
  BY DEF NoRefund, RefundRow, RefundStatus
<1>4. refund \in [Refunds -> RefundRow]
  BY <1>1, <1>3 DEF Opened
<1>5. RefundTypeOK
  <2>1. /\ paymentStatus \in [Anchors -> PaymentStatus]
        /\ orderPayment \in [ShopOrders -> PaymentStatus]
    BY <1>1 DEF Opened, PaymentStatus
  <2>2. wallet \in 0..MaxWallet
    BY <1>1, MoneyAssumption DEF Opened
  <2>3. /\ settlementOf \in [ShopOrders -> Settlements \cup {NoSettlement}]
        /\ settlement \in [Settlements -> [status : SettlementStatus, amount : Nat]]
    BY <1>1 DEF Opened, SettlementStatus
  <2>4. call \in [Admins -> [answer : {"NONE", "PENDING", "CONFLICT", "LIST"},
                             todo : SUBSET Shops, period : Periods \cup {{}}]]
    BY <1>1 DEF Opened, NoCall
  <2>5. QED
    BY <1>1, <1>4, <2>1, <2>2, <2>3, <2>4 DEF RefundTypeOK, RefundRow
<1>6. \A a : Claims(refund, a) = {} /\ CompletedOf(a, refund) = {}
  BY <1>2, <1>3 DEF Claims, Standing, CompletedOf
<1>7. \A f : SumOf(f, {}) = 0
  BY SigmaEmpty, SumIsSigma
<1>8. Kept(refund)
  <2>1. \A a \in Anchors : Collected(a) \in Nat
    BY <1>1 DEF BooksOf, Collected
  <2>2. \A a : \A o \in Parts(a) : Cap[o] \in Nat
    BY <1>1, CapNat, PartsFinite
  <2>3. Within(refund)
    BY <1>6, <1>7, <2>1, <2>2 DEF Within, Claimed, Taken
  <2>4. \A r \in Refunds : refund[r].status \notin Standing
    BY <1>2, <1>3 DEF Standing
  <2>5. QED
    BY <1>4, <2>3, <2>4 DEF Kept
<1>9. BooksAgree
  <2>1. AllDone(refund) = {}
    BY <1>2, <1>3 DEF AllDone
  <2>2. \A a : \A o \in Paying(a) : o \in ShopOrders /\ o \in Delivered
    BY PartsFinite
  <2>3. Agree(refund, paymentStatus, orderPayment, wallet)
    BY <1>1, <1>6, <1>7, <2>1, <2>2 DEF Agree, GivenOf, Opened
  <2>4. QED
    BY <2>3, AgreeIs
<1>10. PayoutExact
  BY <1>1 DEF PayoutExact, Opened
<1>11. Aimed /\ Placed
  BY <1>1, <1>2, <1>3, MoneyAssumption DEF Aimed, Placed, Opened
<1>12. QED
  BY <1>5, <1>8, <1>9, <1>10, <1>11 DEF RefundInv

\* What the steps need of the invariant.
LEMMA InvFacts ==
  ASSUME RefundInv
  PROVE  /\ books \in BooksOf /\ refund \in [Refunds -> RefundRow] /\ Kept(refund)
         /\ Agree(refund, paymentStatus, orderPayment, wallet)
         /\ wallet \in Nat /\ MaxWallet \in Nat
         /\ \A r \in Refunds : refund[r] \in RefundRow
         /\ NoSettlement \notin Settlements
BY AgreeIs, MoneyAssumption DEF RefundInv, RefundTypeOK, RefundRow

\* Refunds asked for, approved or rejected: nobody's money moves.
LEMMA QuietStep ==
  ASSUME RefundInv, NEW r \in Refunds,
         refund[r].status # "COMPLETED", refund'[r].status # "COMPLETED",
         \A q \in Refunds \ {r} : refund'[q] = refund[q],
         refund'[r].target \in Targets, Kept(refund'),
         UNCHANGED <<books, paymentStatus, orderPayment, wallet, settlementOf, settlement, call>>
  PROVE  RefundInv'
<1> DEFINE f == refund
           g == refund'
<1>1. /\ books \in BooksOf /\ f \in [Refunds -> RefundRow] /\ g \in [Refunds -> RefundRow]
      /\ f[r].status # "COMPLETED" /\ g[r].status # "COMPLETED"
      /\ \A q \in Refunds \ {r} : g[q] = f[q]
      /\ Agree(f, paymentStatus, orderPayment, wallet)
  BY InvFacts DEF Kept
<1> HIDE DEF f, g
<1>2. /\ SumOf(AmountOf(g), AllDone(g)) = SumOf(AmountOf(f), AllDone(f))
      /\ \A b : /\ CompletedOf(b, g) = CompletedOf(b, f) /\ Given(g, b) = Given(f, b)
                /\ \A o \in ShopOrders : GivenOf(g, b, o) = GivenOf(f, b, o)
  BY <1>1, DoneSame
<1>3. \A S \in SUBSET ShopOrders : Deducted(g, S) = Deducted(f, S)
  BY <1>1, DeductedSame
<1>4. Agree(g, paymentStatus, orderPayment, wallet)
  <2>1. \A b : \A o \in Paying(b) : o \in ShopOrders
    BY PartsFinite
  <2>2. QED
    BY <1>1, <1>2, <2>1 DEF Agree
<1>5. BooksAgree'
  BY <1>4, AgreeLater DEF g
<1>6. PayoutExact'
  <2>1. \A S \in SUBSET ShopOrders : Payable(S)' = Payable(S)
    BY <1>3, PayableIs, PayableLater DEF f, g
  <2>2. \A s : InSettlement(s)' = InSettlement(s) /\ InSettlement(s) \in SUBSET ShopOrders
    BY DEF InSettlement
  <2>3. PayoutExact
    BY DEF RefundInv
  <2>4. \A s \in Settlements : Payable(InSettlement(s))' = Payable(InSettlement(s))
    BY <2>1, <2>2 DEF Payable, Deductions
  <2>5. QED
    BY <2>3, <2>4 DEF PayoutExact
<1>7. RefundTypeOK'
  BY <1>1 DEF RefundInv, RefundTypeOK, RefundRow, g
<1>8. Aimed' /\ Placed'
  BY DEF RefundInv, Aimed, Placed
<1>9. Kept(refund)'
  BY KeptLater
<1>10. QED
  BY <1>5, <1>6, <1>7, <1>8, <1>9 DEF RefundInv

\* The wallet stays within its bound.
LEMMA Balance ==
  ASSUME NEW b \in Nat, NEW n \in Nat, NEW m \in Nat, b + n <= m
  PROVE  b + n \in 0..m
OBVIOUS

\* A refund that is paid: the wallet, the payment columns and the payouts that
\* are still to be made follow.
LEMMA PaidStep ==
  ASSUME RefundInv, NEW r \in Refunds, NEW row \in RefundRow,
         refund[r].status # "COMPLETED", row.target \in Targets,
         Anchor(row.target) \in Anchors, Pay(r, row), Kept(refund')
  PROVE  RefundInv'
<1> DEFINE f == refund
           g == refund'
           a == Anchor(row.target)
           w == row.allocation
           n == row.amount
<1>1. /\ books \in BooksOf /\ f \in [Refunds -> RefundRow] /\ g \in [Refunds -> RefundRow]
      /\ Agree(f, paymentStatus, orderPayment, wallet) /\ Kept(g)
      /\ wallet \in Nat /\ MaxWallet \in Nat
  BY InvFacts DEF Kept
<1>2. /\ refund' = [refund EXCEPT ![r] = [row EXCEPT !.status = "COMPLETED"]]
      /\ wallet + n <= MaxWallet /\ wallet' = wallet + n
      /\ HoldSettlements(w)
      /\ paymentStatus' = [paymentStatus EXCEPT ![a] = StatusOfShare(Given(g, a), Collected(a))]
      /\ orderPayment' = [o \in ShopOrders |->
                            IF o \in Parts(a) /\ GivenOf(g, a, o) > 0
                            THEN StatusOfShare(GivenOf(g, a, o), Cap[o]) ELSE orderPayment[o]]
      /\ UNCHANGED <<books, settlementOf, call>>
  BY DEF Pay, FitsWallet, Given, GivenOf
<1>3. /\ g[r].status = "COMPLETED" /\ g[r].target = row.target
      /\ g[r].amount = n /\ g[r].allocation = w
      /\ \A q \in Refunds \ {r} : g[q] = f[q]
      /\ f[r].status # "COMPLETED"
  BY <1>1, <1>2 DEF RefundRow
<1>4. n \in Nat /\ w \in [ShopOrders -> Nat] /\ a = Anchor(g[r].target) /\ a \in Anchors
  BY <1>3 DEF RefundRow
<1> HIDE DEF f, g, a, w, n
<1>5. /\ SumOf(AmountOf(g), AllDone(g)) = g[r].amount + SumOf(AmountOf(f), AllDone(f))
      /\ CompletedOf(a, g) # {}
      /\ \A o \in ShopOrders : GivenOf(g, a, o) = g[r].allocation[o] + GivenOf(f, a, o)
      /\ \A b : b # a =>
           /\ CompletedOf(b, g) = CompletedOf(b, f) /\ Given(g, b) = Given(f, b)
           /\ \A o \in ShopOrders : GivenOf(g, b, o) = GivenOf(f, b, o)
  <2>1. /\ f \in [Refunds -> RefundRow] /\ g \in [Refunds -> RefundRow]
        /\ f[r].status # "COMPLETED" /\ g[r].status = "COMPLETED"
        /\ \A q \in Refunds \ {r} : g[q] = f[q]
        /\ a = Anchor(g[r].target)
    BY <1>1, <1>3, <1>4
  <2>2. QED
    BY <2>1, DoneAdded
<1>6. /\ Given(g, a) \in Nat /\ Given(g, a) <= Collected(a) /\ Collected(a) \in Nat
      /\ \A o \in Parts(a) : /\ GivenOf(g, a, o) \in Nat /\ GivenOf(g, a, o) <= Cap[o]
                             /\ Cap[o] \in Nat
  BY <1>1, <1>4, GivenWithin
<1>7. \A b : \A o \in Paying(b) : o \in ShopOrders /\ o \in Parts(b) /\ AnchorOf[o] = b
  BY PartsFinite
<1>8. paymentStatus \in [Anchors -> PaymentStatus] /\ orderPayment \in [ShopOrders -> PaymentStatus]
  BY DEF RefundInv, RefundTypeOK
<1>9. \A m, k \in Nat : m <= k =>
        StatusOfShare(m, k) = IF m = k THEN "REFUNDED" ELSE "PARTIALLY_REFUNDED"
  BY DEF StatusOfShare
<1>10. wallet' = SumOf(AmountOf(g), AllDone(g))
  <2>1. wallet = SumOf(AmountOf(f), AllDone(f))
    BY <1>1 DEF Agree
  <2>2. SumOf(AmountOf(g), AllDone(g)) = n + wallet
    BY <1>3, <1>5, <2>1
  <2>3. QED
    BY <1>1, <1>2, <1>4, <2>2
<1>11. ASSUME NEW b \in Anchors
       PROVE  paymentStatus'[b] = IF CompletedOf(b, g) = {} THEN "CASH_COLLECTED"
                                  ELSE IF Given(g, b) = Collected(b) THEN "REFUNDED"
                                  ELSE "PARTIALLY_REFUNDED"
  <2>1. CASE b = a
    BY <1>2, <1>5, <1>6, <1>8, <1>9, <2>1
  <2>2. CASE b # a
    BY <1>1, <1>2, <1>5, <1>8, <2>2 DEF Agree
  <2>3. QED
    BY <2>1, <2>2
<1>12. ASSUME NEW b \in Anchors, NEW o \in Paying(b)
       PROVE  orderPayment'[o] = IF GivenOf(g, b, o) = 0 THEN "CASH_COLLECTED"
                                 ELSE IF GivenOf(g, b, o) = Cap[o] THEN "REFUNDED"
                                 ELSE "PARTIALLY_REFUNDED"
  <2>0. o \in ShopOrders /\ o \in Parts(b) /\ AnchorOf[o] = b
    BY <1>7
  <2>1. orderPayment[o] = IF GivenOf(f, b, o) = 0 THEN "CASH_COLLECTED"
                          ELSE IF GivenOf(f, b, o) = Cap[o] THEN "REFUNDED"
                          ELSE "PARTIALLY_REFUNDED"
    BY <1>1 DEF Agree
  <2>2. CASE b # a
    <3>1. o \notin Parts(a)
      BY <2>0, <2>2 DEF Parts
    <3>2. orderPayment'[o] = orderPayment[o] /\ GivenOf(g, b, o) = GivenOf(f, b, o)
      BY <1>2, <1>5, <2>0, <2>2, <3>1
    <3>3. QED
      BY <2>1, <3>2
  <2>3. CASE b = a /\ GivenOf(g, a, o) > 0
    <3>1. orderPayment'[o] = StatusOfShare(GivenOf(g, a, o), Cap[o])
      BY <1>2, <2>0, <2>3
    <3>2. GivenOf(g, a, o) \in Nat /\ GivenOf(g, a, o) <= Cap[o] /\ Cap[o] \in Nat
      BY <1>6, <2>0, <2>3
    <3>3. GivenOf(g, a, o) # 0
      BY <2>3, <3>2
    <3>4. QED
      BY <1>9, <2>3, <3>1, <3>2, <3>3
  <2>4. CASE b = a /\ ~(GivenOf(g, a, o) > 0)
    <3>1. orderPayment'[o] = orderPayment[o]
      BY <1>2, <2>0, <2>4
    <3>2. GivenOf(g, a, o) \in Nat /\ GivenOf(g, a, o) = w[o] + GivenOf(f, a, o) /\ w[o] \in Nat
      BY <1>3, <1>4, <1>5, <1>6, <2>0, <2>4
    <3>3. GivenOf(f, a, o) \in Nat
      BY <1>1, <1>4, <2>0, <2>4, InvFacts, GivenWithin DEF f
    <3>4. GivenOf(g, a, o) = 0 /\ GivenOf(f, a, o) = 0
      BY <2>4, <3>2, <3>3
    <3>5. QED
      BY <2>1, <2>4, <3>1, <3>4
  <2>5. QED
    BY <2>2, <2>3, <2>4
<1>13. BooksAgree'
  <2>1. Agree(g, paymentStatus', orderPayment', wallet')
    BY <1>10, <1>11, <1>12 DEF Agree
  <2>2. QED
    BY <1>2, <2>1, AgreeLater DEF g
<1>14. settlement \in [Settlements -> [status : SettlementStatus, amount : Nat]]
  BY DEF RefundInv, RefundTypeOK
<1>15. ASSUME NEW s \in Settlements
       PROVE  /\ settlement'[s].amount = settlement[s].amount
              /\ settlement'[s] = settlement[s] \/
                   (settlement[s].status = "PENDING" /\ settlement'[s].status = "ON_HOLD")
              /\ settlement'[s].status \in {"PENDING", "PAID"} =>
                   settlement'[s] = settlement[s] /\ s \notin Touched(w)
  BY <1>2, <1>14 DEF HoldSettlements
<1>16. PayoutExact'
  <2> SUFFICES ASSUME NEW s \in Settlements, settlement'[s].status \in {"PENDING", "PAID"}
               PROVE  settlement'[s].amount = Payable(InSettlement(s))'
    BY DEF PayoutExact
  <2> DEFINE S == InSettlement(s)
  <2>1. S \in SUBSET ShopOrders /\ InSettlement(s)' = S /\ \A o \in S : settlementOf[o] = s
    BY <1>2 DEF InSettlement
  <2>2. settlement[s].amount = SumOf(books.earning, S) - Deducted(f, S)
    BY <1>15, PayableIs DEF RefundInv, PayoutExact, f
  <2>3. \A o \in S : w[o] = 0
    <3>1. ASSUME NEW o \in S, w[o] > 0 PROVE FALSE
      BY <1>15, <2>1, <3>1, InvFacts DEF Touched
    <3>2. \A o \in S : w[o] \in Nat
      BY <1>4, <2>1
    <3>3. QED
      BY <3>1, <3>2
  <2> HIDE DEF S
  <2>4. Deducted(g, S) = Deducted(f, S)
    BY <1>1, <1>3, <2>1, <2>3, DeductedBeside
  <2>5. Payable(InSettlement(s))' = SumOf(books.earning, S) - Deducted(g, S)
    <3>1. \A T : Payable(T)' = SumOf(books.earning, T) - Deducted(refund', T)
      BY <1>2, PayableLater
    <3>2. Payable(InSettlement(s))' = SumOf(books.earning, InSettlement(s)')
                                        - Deducted(refund', InSettlement(s)')
      BY <1>2 DEF Payable, Deductions, Deducted, SharesIn, AllDone
    <3>3. QED
      BY <2>1, <3>2 DEF g
  <2>6. QED
    BY <1>15, <2>2, <2>4, <2>5
<1>17. RefundTypeOK'
  <2>1. wallet' \in 0..MaxWallet
    BY <1>1, <1>2, <1>4, Balance
  <2>2. \A m, k : StatusOfShare(m, k) \in PaymentStatus
    BY DEF StatusOfShare, PaymentStatus
  <2>3. /\ paymentStatus' \in [Anchors -> PaymentStatus]
        /\ orderPayment' \in [ShopOrders -> PaymentStatus]
    BY <1>2, <1>8, <2>2
  <2>4. settlement' \in [Settlements -> [status : SettlementStatus, amount : Nat]]
    BY <1>2, <1>14 DEF HoldSettlements, SettlementStatus
  <2>5. refund' \in [Refunds -> RefundRow]
    BY <1>1 DEF g
  <2>6. QED
    BY <1>2, <2>1, <2>3, <2>4, <2>5 DEF RefundInv, RefundTypeOK, RefundRow
<1>18. Aimed'
  BY <1>3 DEF RefundInv, Aimed, f, g
<1>19. Placed'
  <2>1. \A s \in Settlements : settlement'[s].status = "NONE" => settlement[s].status = "NONE"
    BY <1>15
  <2>2. QED
    BY <1>2, <2>1 DEF RefundInv, Placed
<1>20. QED
  BY <1>2, <1>13, <1>16, <1>17, <1>18, <1>19, KeptLater DEF RefundInv

\* Steps on settlements leave the refunds and what they added up to alone.
LEMMA BesideStep ==
  ASSUME RefundInv, UNCHANGED <<books, refund, paymentStatus, orderPayment, wallet>>
  PROVE  /\ Aimed' /\ Kept(refund)' /\ BooksAgree'
         /\ \A S : Payable(S)' = Payable(S)
         /\ RefundTypeOK' <=>
              /\ settlementOf' \in [ShopOrders -> Settlements \cup {NoSettlement}]
              /\ settlement' \in [Settlements -> [status : SettlementStatus, amount : Nat]]
              /\ call' \in [Admins -> [answer : {"NONE", "PENDING", "CONFLICT", "LIST"},
                                       todo : SUBSET Shops, period : Periods \cup {{}}]]
<1>1. Kept(refund') /\ Agree(refund', paymentStatus', orderPayment', wallet')
  BY InvFacts
<1>2. Kept(refund)' /\ BooksAgree'
  BY <1>1, KeptLater, AgreeLater
<1>3. \A S : Payable(S)' = Payable(S)
  BY PayableIs, PayableLater
<1>4. Aimed'
  BY DEF RefundInv, Aimed
<1>5. QED
  BY <1>2, <1>3, <1>4 DEF RefundInv, RefundTypeOK

\* What a settlement is made of adds up to a whole number.
LEMMA PayableInt ==
  ASSUME RefundInv, NEW S \in SUBSET ShopOrders
  PROVE  Payable(S) \in Int
<1>1. IsFiniteSet(S)
  BY MoneyAssumption, FS_Subset
<1> DEFINE e == books.earning
<1>2. \A o \in S : e[o] \in Int
  BY InvFacts DEF BooksOf
<1> HIDE DEF e
<1>3. Sigma(e, S) \in Int
  BY <1>1, <1>2, SigmaInt
<1>4. Deducted(refund, S) \in Nat
  BY InvFacts, DeductedNat
<1>5. Payable(S) = Sigma(e, S) - Deducted(refund, S)
  BY PayableIs, SumIsSigma DEF e
<1>6. QED
  BY <1>3, <1>4, <1>5

\* A settlement whose row keeps its amount stays exact while its orders do.
LEMMA SameOrders ==
  ASSUME RefundInv, UNCHANGED <<books, refund, settlementOf>>,
         \A S : Payable(S)' = Payable(S),
         \A s \in Settlements :
           settlement'[s].status \in {"PENDING", "PAID"} =>
             /\ settlement[s].status \in {"PENDING", "PAID"}
             /\ settlement'[s].amount = settlement[s].amount
  PROVE  PayoutExact'
<1> SUFFICES ASSUME NEW s \in Settlements, settlement'[s].status \in {"PENDING", "PAID"}
             PROVE  settlement'[s].amount = Payable(InSettlement(s))'
  BY DEF PayoutExact
<1>1. settlement'[s].amount = Payable(InSettlement(s))
  BY DEF RefundInv, PayoutExact
<1>2. Payable(InSettlement(s))' = Payable(InSettlement(s))
  BY DEF Payable, Deductions, InSettlement
<1>3. QED
  BY <1>1, <1>2

\* A settlement that is paid or held keeps its orders and its amount.
LEMMA MarkStep ==
  ASSUME RefundInv, NEW s \in Settlements, MarkPaid(s) \/ Hold(s)
  PROVE  RefundInv'
<1>1. /\ UNCHANGED <<books, refund, paymentStatus, orderPayment, wallet, settlementOf, call>>
      /\ \E status \in {"PAID", "ON_HOLD"} : settlement' = [settlement EXCEPT ![s].status = status]
      /\ settlement[s].status = "PENDING"
  BY DEF MarkPaid, Hold
<1>2. /\ settlementOf \in [ShopOrders -> Settlements \cup {NoSettlement}]
      /\ settlement \in [Settlements -> [status : SettlementStatus, amount : Nat]]
      /\ call \in [Admins -> [answer : {"NONE", "PENDING", "CONFLICT", "LIST"},
                              todo : SUBSET Shops, period : Periods \cup {{}}]]
  BY DEF RefundInv, RefundTypeOK
<1>3. /\ settlement' \in [Settlements -> [status : SettlementStatus, amount : Nat]]
      /\ \A z \in Settlements : /\ settlement'[z].amount = settlement[z].amount
                                /\ z # s => settlement'[z] = settlement[z]
      /\ settlement'[s].status # "NONE"
  BY <1>1, <1>2 DEF SettlementStatus
<1>4. RefundTypeOK' /\ Aimed' /\ Kept(refund)' /\ BooksAgree' /\ \A S : Payable(S)' = Payable(S)
  BY <1>1, <1>2, <1>3, BesideStep
<1>5. \A z \in Settlements :
        settlement'[z].status \in {"PENDING", "PAID"} =>
          /\ settlement[z].status \in {"PENDING", "PAID"}
          /\ settlement'[z].amount = settlement[z].amount
  BY <1>1, <1>3
<1>6. PayoutExact'
  BY <1>1, <1>4, <1>5, SameOrders
<1>7. Placed'
  BY <1>1, <1>3 DEF RefundInv, Placed
<1>8. QED
  BY <1>4, <1>6, <1>7 DEF RefundInv

\* The period of a call and the answers to it.
LEMMA CallStep ==
  ASSUME RefundInv, UNCHANGED <<books, refund, paymentStatus, orderPayment, wallet,
                                settlementOf, settlement>>,
         call' \in [Admins -> [answer : {"NONE", "PENDING", "CONFLICT", "LIST"},
                               todo : SUBSET Shops, period : Periods \cup {{}}]]
  PROVE  RefundInv'
<1>1. /\ settlementOf \in [ShopOrders -> Settlements \cup {NoSettlement}]
      /\ settlement \in [Settlements -> [status : SettlementStatus, amount : Nat]]
  BY DEF RefundInv, RefundTypeOK
<1>2. RefundTypeOK' /\ Aimed' /\ Kept(refund)' /\ BooksAgree' /\ \A S : Payable(S)' = Payable(S)
  BY <1>1, BesideStep
<1>3. PayoutExact'
  BY <1>2, SameOrders
<1>4. Placed'
  BY DEF RefundInv, Placed
<1>5. QED
  BY <1>2, <1>3, <1>4 DEF RefundInv

\* A settlement is generated: it was nobody's before, so it is made of what is
\* due and of nothing else.
LEMMA GenerateStep ==
  ASSUME RefundInv, NEW m \in Admins, NEW shop \in Shops, NEW s \in Settlements,
         GenerateFor(m, shop, s)
  PROVE  RefundInv'
<1> DEFINE S == Due(shop, call[m].period)
<1>1. UNCHANGED <<books, refund, paymentStatus, orderPayment, wallet>>
  BY DEF GenerateFor
<1>2. /\ settlementOf \in [ShopOrders -> Settlements \cup {NoSettlement}]
      /\ settlement \in [Settlements -> [status : SettlementStatus, amount : Nat]]
      /\ call \in [Admins -> [answer : {"NONE", "PENDING", "CONFLICT", "LIST"},
                              todo : SUBSET Shops, period : Periods \cup {{}}]]
  BY DEF RefundInv, RefundTypeOK
<1>3. call' \in [Admins -> [answer : {"NONE", "PENDING", "CONFLICT", "LIST"},
                            todo : SUBSET Shops, period : Periods \cup {{}}]]
  BY <1>2 DEF GenerateFor, WithNothingPayable
<1>4. CASE UNCHANGED <<settlement, settlementOf>>
  BY <1>1, <1>3, <1>4, CallStep
<1>5. CASE /\ Payable(S) > 0 /\ settlement[s].status = "NONE"
           /\ settlement' = [settlement EXCEPT ![s] = [status |-> "PENDING", amount |-> Payable(S)]]
           /\ settlementOf' = [o \in ShopOrders |-> IF o \in S THEN s ELSE settlementOf[o]]
  <2>1. /\ S \in SUBSET ShopOrders /\ \A o \in S : settlementOf[o] = NoSettlement
    <3>1. \A p \in Periods \cup {{}} : p \in SUBSET ShopOrders
      BY MoneyAssumption
    <3>2. call[m].period \in Periods \cup {{}}
      BY <1>2
    <3>3. QED
      BY <3>1, <3>2 DEF Due
  <2> DEFINE n == Payable(S)
  <2>2. n \in Nat
    <3>1. n \in Int /\ n > 0
      BY <1>5, <2>1, PayableInt
    <3> HIDE DEF n
    <3>2. QED
      BY <3>1
  <2>3. /\ settlement' = [settlement EXCEPT ![s] = [status |-> "PENDING", amount |-> n]]
        /\ settlementOf' = [o \in ShopOrders |-> IF o \in S THEN s ELSE settlementOf[o]]
        /\ settlement[s].status = "NONE"
    BY <1>5
  <2> HIDE DEF n, S
  <2>4. /\ settlement' \in [Settlements -> [status : SettlementStatus, amount : Nat]]
        /\ settlementOf' \in [ShopOrders -> Settlements \cup {NoSettlement}]
        /\ settlement'[s] = [status |-> "PENDING", amount |-> n]
        /\ \A z \in Settlements : z # s => settlement'[z] = settlement[z]
    BY <1>2, <2>2, <2>3 DEF SettlementStatus
  <2>5. RefundTypeOK' /\ Aimed' /\ Kept(refund)' /\ BooksAgree' /\ \A T : Payable(T)' = Payable(T)
    BY <1>1, <1>3, <2>4, BesideStep
  <2>6. \A o \in ShopOrders : settlementOf[o] # s
    BY <2>3 DEF RefundInv, Placed
  <2>7. InSettlement(s)' = S
    BY <2>1, <2>3, <2>6 DEF InSettlement
  <2>8. ASSUME NEW z \in Settlements, z # s PROVE InSettlement(z)' = InSettlement(z)
    <3>1. \A o \in S : settlementOf[o] # z
      BY <2>1, InvFacts
    <3>2. QED
      BY <2>3, <2>8, <3>1 DEF InSettlement
  <2>9. Payable(InSettlement(s))' = Payable(S)
    BY <1>1, <2>7 DEF Payable, Deductions
  <2>10. ASSUME NEW z \in Settlements, z # s
         PROVE  Payable(InSettlement(z))' = Payable(InSettlement(z))
    BY <1>1, <2>8, <2>10 DEF Payable, Deductions
  <2>11. PayoutExact'
    <3> SUFFICES ASSUME NEW z \in Settlements, settlement'[z].status \in {"PENDING", "PAID"}
                 PROVE  settlement'[z].amount = Payable(InSettlement(z))'
      BY DEF PayoutExact
    <3>1. CASE z = s
      BY <2>4, <2>9, <3>1 DEF n
    <3>2. CASE z # s
      BY <2>4, <2>10, <3>2 DEF RefundInv, PayoutExact
    <3>3. QED
      BY <3>1, <3>2
  <2>12. Placed'
    BY <2>3, <2>4 DEF RefundInv, Placed
  <2>13. QED
    BY <2>5, <2>11, <2>12 DEF RefundInv
<1>6. QED
  BY <1>4, <1>5 DEF GenerateFor

\* The shares that are worked out are amounts.
LEMMA AllocationNat ==
  ASSUME RefundInv, NEW t \in Targets, NEW n \in Nat, MayAllocate(t, n, {})
  PROVE  /\ Allocation(t, n, {}) \in [ShopOrders -> Nat]
         /\ Anchor(t) \in Anchors
<1> DEFINE a == Anchor(t)
<1>1. books \in BooksOf /\ Kept(refund)
  BY InvFacts
<1>2. /\ Sound(a)
      /\ IF t \in ShopOrders THEN n <= Left(refund, a)[t] ELSE n <= SumOf(Left(refund, a), Parts(a))
      /\ Allocation(t, n, {}) = Allotted(t, n, Left(refund, a))
  BY <1>1, Allocates
<1>3. a \in Anchors
  BY <1>2 DEF Sound
<1>4. Left(refund, a) \in [ShopOrders -> Nat]
  BY <1>1, <1>3, LeftFacts
<1> DEFINE v == Left(refund, a)
<1> HIDE DEF v
<1>5. Allotted(t, n, v) \in [ShopOrders -> Nat]
  BY <1>2, <1>4, AllottedFacts DEF v
<1>6. QED
  BY <1>2, <1>3, <1>5 DEF v

\* create: a row without a claim.
LEMMA RequestStep ==
  ASSUME RefundInv, NEW r \in Refunds, NEW t \in Targets, NEW n \in Nat, Request(r, t, n)
  PROVE  RefundInv'
<1> DEFINE row == [status |-> "REQUESTED", target |-> t, amount |-> n,
                   allocation |-> Allocation(t, n, {})]
<1>1. /\ refund[r].status = "NONE" /\ refund' = [refund EXCEPT ![r] = row]
      /\ MayAllocate(t, n, {})
      /\ UNCHANGED <<books, paymentStatus, orderPayment, wallet, settlementOf, settlement, call>>
  BY DEF Request
<1>2. row \in RefundRow
  BY <1>1, AllocationNat DEF RefundRow, RefundStatus
<1>3. row.status = "REQUESTED" /\ row.target \in Targets
  OBVIOUS
<1> HIDE DEF row
<1>4. /\ refund' \in [Refunds -> RefundRow] /\ refund'[r] = row
      /\ \A q \in Refunds \ {r} : refund'[q] = refund[q]
  BY <1>1, <1>2, InvFacts
<1>5. refund[r].status \notin Standing /\ refund'[r].status \notin Standing
  BY <1>1, <1>3, <1>4 DEF Standing
<1>6. Kept(refund')
  BY <1>4, <1>5, AsideKeeps, InvFacts
<1>7. QED
  BY <1>1, <1>3, <1>4, <1>6, QuietStep

\* setRefundStatus(reject): a row that never had a claim.
LEMMA RejectStep ==
  ASSUME RefundInv, NEW r \in Refunds, Reject(r)
  PROVE  RefundInv'
<1>1. /\ refund[r].status = "REQUESTED" /\ refund' = [refund EXCEPT ![r].status = "REJECTED"]
      /\ UNCHANGED <<books, paymentStatus, orderPayment, wallet, settlementOf, settlement, call>>
  BY DEF Reject
<1>2. /\ refund' \in [Refunds -> RefundRow] /\ refund'[r].status = "REJECTED"
      /\ refund'[r].target = refund[r].target
      /\ \A q \in Refunds \ {r} : refund'[q] = refund[q]
  BY <1>1, InvFacts DEF RefundRow, RefundStatus
<1>3. refund[r].status \notin Standing /\ refund'[r].status \notin Standing
  BY <1>1, <1>2 DEF Standing
<1>4. Kept(refund')
  BY <1>2, <1>3, AsideKeeps, InvFacts
<1>5. refund'[r].target \in Targets
  BY <1>1, <1>2 DEF RefundInv, Aimed
<1>6. QED
  BY <1>1, <1>2, <1>4, <1>5, QuietStep

\* approve: the row gets its claim on what is left.
LEMMA ApproveStep ==
  ASSUME RefundInv, NEW r \in Refunds, ApproveRefund(r)
  PROVE  RefundInv'
<1> DEFINE t == refund[r].target
           n == refund[r].amount
           w == Allocation(t, n, {})
<1>1. /\ refund[r].status = "REQUESTED"
      /\ refund' = [refund EXCEPT ![r].status = "APPROVED", ![r].allocation = w]
      /\ MayAllocate(t, n, {})
      /\ UNCHANGED <<books, paymentStatus, orderPayment, wallet, settlementOf, settlement, call>>
  BY DEF ApproveRefund
<1>2. t \in Targets /\ n \in Nat
  BY <1>1, InvFacts DEF RefundInv, Aimed, RefundRow
<1>3. w \in [ShopOrders -> Nat]
  BY <1>1, <1>2, AllocationNat
<1> HIDE DEF w
<1>4. /\ refund' \in [Refunds -> RefundRow] /\ refund'[r].status = "APPROVED"
      /\ refund'[r].target = t /\ refund'[r].amount = n /\ refund'[r].allocation = w
      /\ \A q \in Refunds \ {r} : refund'[q] = refund[q]
  BY <1>1, <1>3, InvFacts DEF RefundRow, RefundStatus
<1>5. refund[r].status \notin Standing /\ refund'[r].status \in Standing
  BY <1>1, <1>4 DEF Standing
<1>6. Kept(refund')
  BY <1>1, <1>2, <1>4, <1>5, PromiseStep, InvFacts DEF w
<1>7. QED
  BY <1>1, <1>2, <1>4, <1>6, QuietStep

\* process: a claim is paid as it was approved.
LEMMA ProcessStep ==
  ASSUME RefundInv, NEW r \in Refunds, Process(r)
  PROVE  RefundInv'
<1> DEFINE row == refund[r]
<1>1. row.status = "APPROVED" /\ Pay(r, row)
  BY DEF Process
<1>2. row \in RefundRow /\ Shared(refund, r) /\ row.target \in Targets
  BY <1>1, InvFacts DEF Kept, Standing, RefundInv, Aimed
<1>3. Anchor(row.target) \in Anchors
  BY <1>2 DEF Shared, Sound
<1>4. refund' = [refund EXCEPT ![r] = [row EXCEPT !.status = "COMPLETED"]]
  BY <1>1 DEF Pay
<1>5. /\ refund' \in [Refunds -> RefundRow] /\ refund'[r].status = "COMPLETED"
      /\ refund'[r].target = row.target /\ refund'[r].amount = row.amount
      /\ refund'[r].allocation = row.allocation
      /\ \A q \in Refunds \ {r} : refund'[q] = refund[q]
  BY <1>2, <1>4, InvFacts DEF RefundRow, RefundStatus
<1>6. refund[r].status \in Standing /\ refund'[r].status \in Standing
  BY <1>1, <1>5 DEF Standing
<1>7. Kept(refund')
  BY <1>5, <1>6, PaidKeeps, InvFacts
<1>8. QED
  BY <1>1, <1>2, <1>3, <1>7, PaidStep

\* refundOrder: a row gets its claim and is paid.
LEMMA RefundOrderStep ==
  ASSUME RefundInv, NEW r \in Refunds, NEW t \in Targets, NEW n \in Nat, RefundOrder(r, t, n)
  PROVE  RefundInv'
<1> DEFINE row == [status |-> "APPROVED", target |-> t, amount |-> n,
                   allocation |-> Allocation(t, n, {})]
<1>1. refund[r].status = "NONE" /\ MayAllocate(t, n, {}) /\ Pay(r, row)
  BY DEF RefundOrder
<1>2. row \in RefundRow /\ Anchor(t) \in Anchors
  BY <1>1, AllocationNat DEF RefundRow, RefundStatus
<1>3. row.target = t /\ row.amount = n /\ row.allocation = Allocation(t, n, {})
  OBVIOUS
<1> HIDE DEF row
<1>4. refund' = [refund EXCEPT ![r] = [row EXCEPT !.status = "COMPLETED"]]
  BY <1>1 DEF Pay
<1>5. /\ refund' \in [Refunds -> RefundRow] /\ refund'[r].status = "COMPLETED"
      /\ refund'[r].target = t /\ refund'[r].amount = n
      /\ refund'[r].allocation = Allocation(t, n, {})
      /\ \A q \in Refunds \ {r} : refund'[q] = refund[q]
  BY <1>2, <1>3, <1>4, InvFacts DEF RefundRow, RefundStatus
<1>6. refund[r].status \notin Standing /\ refund'[r].status \in Standing
  BY <1>1, <1>5 DEF Standing
<1>7. Kept(refund')
  BY <1>1, <1>5, <1>6, PromiseStep, InvFacts
<1>8. QED
  BY <1>1, <1>2, <1>3, <1>7, PaidStep

\* Every step keeps the invariant.
LEMMA RefundStep == RefundInv /\ [RefundNext]_refundVars => RefundInv'
<1> SUFFICES ASSUME RefundInv, [RefundNext]_refundVars PROVE RefundInv'
  OBVIOUS
<1>0. /\ \A n \in Amounts : n \in Nat
      /\ call \in [Admins -> [answer : {"NONE", "PENDING", "CONFLICT", "LIST"},
                              todo : SUBSET Shops, period : Periods \cup {{}}]]
  BY MoneyAssumption DEF RefundInv, RefundTypeOK
<1>1. ASSUME NEW r \in Refunds, ApproveRefund(r) PROVE RefundInv'
  BY <1>1, ApproveStep
<1>2. ASSUME NEW r \in Refunds, Reject(r) PROVE RefundInv'
  BY <1>2, RejectStep
<1>3. ASSUME NEW r \in Refunds, Process(r) PROVE RefundInv'
  BY <1>3, ProcessStep
<1>4. ASSUME NEW r \in Refunds, NEW t \in Targets, NEW n \in Amounts, Request(r, t, n)
      PROVE  RefundInv'
  BY <1>0, <1>4, RequestStep
<1>5. ASSUME NEW r \in Refunds, NEW t \in Targets, NEW n \in Amounts, RefundOrder(r, t, n)
      PROVE  RefundInv'
  BY <1>0, <1>5, RefundOrderStep
<1>6. ASSUME NEW s \in Settlements, MarkPaid(s) \/ Hold(s) PROVE RefundInv'
  BY <1>6, MarkStep
<1>7. ASSUME NEW s \in Settlements, NEW m \in Admins, NEW shop \in Shops, GenerateFor(m, shop, s)
      PROVE  RefundInv'
  BY <1>7, GenerateStep
<1>8. ASSUME NEW m \in Admins,
             NEW asked \in {Shops} \cup {{shop} : shop \in Shops}, NEW period \in Periods,
             StartGenerate(m, asked, period)
      PROVE  RefundInv'
  <2>1. asked \in SUBSET Shops
    BY <1>8
  <2>2. call' \in [Admins -> [answer : {"NONE", "PENDING", "CONFLICT", "LIST"},
                              todo : SUBSET Shops, period : Periods \cup {{}}]]
    BY <1>0, <1>8, <2>1 DEF StartGenerate
  <2>3. QED
    BY <1>8, <2>2, CallStep DEF StartGenerate
<1>9. ASSUME NEW m \in Admins, EndGenerate(m) PROVE RefundInv'
  <2>1. call' \in [Admins -> [answer : {"NONE", "PENDING", "CONFLICT", "LIST"},
                              todo : SUBSET Shops, period : Periods \cup {{}}]]
    BY <1>0, <1>9 DEF EndGenerate
  <2>2. QED
    BY <1>9, <2>1, CallStep DEF EndGenerate
<1>10. CASE UNCHANGED refundVars
  BY <1>0, <1>10, CallStep DEF refundVars
<1>11. QED
  BY <1>1, <1>2, <1>3, <1>4, <1>5, <1>6, <1>7, <1>8, <1>9, <1>10 DEF RefundNext

\* What every state of the refunds and payouts keeps.
THEOREM RefundInvariant == RefundSpec => []RefundInv
<1>1. RefundInit => RefundInv
  BY RefundStart
<1>2. RefundInv /\ [RefundNext]_refundVars => RefundInv'
  BY RefundStep
<1>3. QED
  BY <1>1, <1>2, PTL DEF RefundSpec

\* Every row keeps a value its column can hold, and no refund takes a wallet
\* beyond MAX_PAISA.
THEOREM RefundTypes == RefundSpec => []RefundTypeOK
<1>1. RefundInv => RefundTypeOK
  BY DEF RefundInv
<1>2. QED
  BY <1>1, RefundInvariant, PTL

\* However refunds of a combined order and of its shop orders are requested,
\* approved and paid, never more is promised than was collected, as a whole and
\* for every order (reserved of RefundsService).
THEOREM NeverOverRefundedHolds == RefundSpec => []NeverOverRefunded
<1>1. RefundInv => NeverOverRefunded
  BY WithinIs DEF RefundInv, Kept
<1>2. QED
  BY <1>1, RefundInvariant, PTL

\* complete finds every approved refund as approve left it: allocate gives the
\* same shares again, whatever was approved or paid since.
THEOREM ApprovedStaysPayableHolds == RefundSpec => []ApprovedStaysPayable
<1>1. RefundInv => ApprovedStaysPayable
  BY KeptPayable, InvFacts DEF ApprovedStaysPayable
<1>2. QED
  BY <1>1, RefundInvariant, PTL

\* The wallet and the payment columns say what was refunded.
THEOREM BooksAgreeHolds == RefundSpec => []BooksAgree
<1>1. RefundInv => BooksAgree
  BY DEF RefundInv
<1>2. QED
  BY <1>1, RefundInvariant, PTL

\* A payout that is due or was made is what the shop earned with its orders less
\* what was refunded of them: holdSettlements catches every later refund.
THEOREM PayoutExactHolds == RefundSpec => []PayoutExact
<1>1. RefundInv => PayoutExact
  BY DEF RefundInv
<1>2. QED
  BY <1>1, RefundInvariant, PTL

-----------------------------------------------------------------------------
(* From the first revision to the last refund                              *)

\* While the checkout lasts, nothing was given back of the earlier one.
CheckoutInv == MoneyInv /\ RefundInv /\ (Open => Opened)

\* The earlier checkout's books are books.
LEMMA EarlierBooksFit == EarlierBooks \in BooksOf
<1>1. Earlier \subseteq ShopOrders
  BY TwoCheckouts
<1> QED  BY <1>1 DEF EarlierBooks, BooksOf

\* The checkout begins.
LEMMA CheckoutStart == MCInit => CheckoutInv
<1> SUFFICES ASSUME MCInit PROVE CheckoutInv
  OBVIOUS
<1>1. Init /\ RefundInit /\ Opened
  BY EarlierBooksFit DEF MCInit, RefundInit
<1> QED  BY <1>1, MoneyStart, RefundStart DEF CheckoutInv

\* What the checkout leaves are books: every order was for something, and its
\* shop earned what its commission left, or owes for it.
LEMMA ClosedBooksFit ==
  ASSUME MoneyInv, RefundInv, CloseBooks
  PROVE  books' \in BooksOf
<1> DEFINE came == {o \in Orders : order[o].stage = "DELIVERED"}
           total == [o \in ShopOrders |->
                       IF o \in Orders THEN order[o].total ELSE books.total[o]]
           earning == [o \in ShopOrders |->
                         IF o \in Orders THEN order[o].subtotal - order[o].commission
                         ELSE books.earning[o]]
           collected == [books.collected EXCEPT ![c1] = payment.amount]
<1>1. books \in BooksOf
  BY DEF RefundInv, RefundTypeOK
<1>2. /\ order \in [Orders -> OrderRow] /\ payment.amount \in Nat
      /\ \A o \in Orders : order[o].total # 0
  BY DEF MoneyInv, TypeOK, Billed
<1>3. books' = [delivered |-> Earlier \cup came, total |-> total, earning |-> earning,
                collected |-> collected]
  BY DEF CloseBooks
<1>4. Earlier \cup came \in SUBSET ShopOrders
  BY TwoCheckouts
<1>5. total \in [ShopOrders -> Nat \ {0}]
  <2>1. \A o \in Orders : order[o].total \in Nat \ {0}
    BY <1>2 DEF OrderRow
  <2>2. \A o \in ShopOrders : books.total[o] \in Nat \ {0}
    BY <1>1 DEF BooksOf
  <2> QED  BY <2>1, <2>2
<1>6. earning \in [ShopOrders -> Int]
  <2>1. \A o \in Orders : order[o].subtotal \in Nat /\ order[o].commission \in Nat
    BY <1>2 DEF OrderRow
  <2>2. \A o \in Orders : order[o].subtotal - order[o].commission \in Int
    BY <2>1
  <2>3. \A o \in ShopOrders : books.earning[o] \in Int
    BY <1>1 DEF BooksOf
  <2> QED  BY <2>2, <2>3
<1>7. collected \in [Anchors -> Nat]
  BY <1>1, <1>2 DEF BooksOf
<1> HIDE DEF came, total, earning, collected
<1> QED  BY <1>3, <1>4, <1>5, <1>6, <1>7 DEF BooksOf

\* The checkout's books open, with nothing given back of either checkout.
LEMMA CloseStep ==
  ASSUME CheckoutInv, CloseBooks
  PROVE  CheckoutInv'
<1>1. MoneyInv /\ RefundInv /\ Opened
  BY DEF CheckoutInv, CloseBooks
<1>2. books' \in BooksOf
  BY <1>1, ClosedBooksFit
<1>3. Opened'
  <2>1. UNCHANGED <<refund, paymentStatus, wallet, settlementOf, settlement, call>>
    BY DEF CloseBooks
  <2>2. orderPayment' = [o \in ShopOrders |->
                           IF o \in Delivered' THEN "CASH_COLLECTED" ELSE "CASH_PENDING"]
    BY DEF CloseBooks, Delivered
  <2> QED  BY <1>1, <2>1, <2>2 DEF Opened
<1>4. RefundInv'
  <2>1. RefundInit' => RefundInv'
    BY RefundStart, PTL
  <2> QED  BY <1>2, <1>3, <2>1 DEF RefundInit
<1>5. MoneyInv'
  <2>1. /\ stock \in [Listings -> Nat] /\ goods \in [Listings -> Nat]
        /\ price \in [Listings -> Prices] /\ rate \in [Orders -> Rates]
    BY <1>1 DEF MoneyInv, TypeOK
  <2>2. /\ stock' = [l \in Listings |-> 0] /\ goods' = [l \in Listings |-> goods[l] - stock[l]]
        /\ revision' = [r \in Requests |-> NoRevision]
        /\ rate' = RateAtCheckout /\ UNCHANGED <<price, orderVars, agreed>>
    BY DEF CloseBooks, orderVars
  <2>3. \A l \in Listings : goods'[l] \in Int /\ goods'[l] - stock'[l] = goods[l] - stock[l]
    BY <2>1, <2>2
  <2>4. goods' = [l \in Listings |-> goods'[l]] /\ stock' \in [Listings -> Nat]
    BY <2>2
  <2>5. rate' \in [Orders -> Rates]
    BY <2>2, OrderMoneyAssumption
  <2> QED  BY <1>1, <2>1, <2>2, <2>3, <2>4, <2>5, ShopStep
<1> QED  BY <1>3, <1>4, <1>5 DEF CheckoutInv

\* No refund and no payout changes what was collected.
LEMMA BooksStand == RefundNext => UNCHANGED books
<1>1. \A r, row : Pay(r, row) => UNCHANGED books
  BY DEF Pay
<1>2. \A r : ApproveRefund(r) \/ Reject(r) \/ Process(r) => UNCHANGED books
  BY <1>1 DEF ApproveRefund, Reject, Process
<1>3. \A r, t, n : Request(r, t, n) \/ RefundOrder(r, t, n) => UNCHANGED books
  BY <1>1 DEF Request, RefundOrder
<1>4. \A s : MarkPaid(s) \/ Hold(s) => UNCHANGED books
  BY DEF MarkPaid, Hold
<1>5. \A m, shop, s : GenerateFor(m, shop, s) => UNCHANGED books
  BY DEF GenerateFor
<1>6. \A m : EndGenerate(m) => UNCHANGED books
  BY DEF EndGenerate
<1>7. \A m, asked, period : StartGenerate(m, asked, period) => UNCHANGED books
  BY DEF StartGenerate
<1> QED  BY <1>2, <1>3, <1>4, <1>5, <1>6, <1>7 DEF RefundNext

\* The checkout goes on, its books open, or money is given back and paid out.
LEMMA StepsOf ==
  ASSUME MCNext
  PROVE  \/ Open /\ Next /\ UNCHANGED refundVars
         \/ CloseBooks
         \/ ~Open /\ RefundNext /\ UNCHANGED vars
BY DEF MCNext, AtCheckout, Afterwards, Next, RefundNext

\* Every step of the whole keeps what either part keeps.
LEMMA CheckoutNext == CheckoutInv /\ [MCNext]_<<vars, refundVars>> => CheckoutInv'
<1> SUFFICES ASSUME CheckoutInv, [MCNext]_<<vars, refundVars>> PROVE CheckoutInv'
  OBVIOUS
<1>1. MoneyInv /\ RefundInv /\ (Open => Opened)
  BY DEF CheckoutInv
<1>2. ASSUME [Next]_vars, UNCHANGED refundVars PROVE CheckoutInv'
  <2>1. MoneyInv' /\ RefundInv'
    BY <1>1, <1>2, MoneyNext, RefundStep
  <2>2. Open' => Opened'
    BY <1>1, <1>2 DEF refundVars, Open, EarlierBooks, Opened, Delivered
  <2> QED  BY <2>1, <2>2 DEF CheckoutInv
<1>3. ASSUME ~Open, RefundNext, UNCHANGED vars PROVE CheckoutInv'
  <2>1. MoneyInv' /\ RefundInv'
    BY <1>1, <1>3, MoneyNext, RefundStep
  <2>2. ~Open'
    BY <1>3, BooksStand DEF Open, EarlierBooks
  <2> QED  BY <2>1, <2>2 DEF CheckoutInv
<1> QED  BY <1>2, <1>3, CloseStep, StepsOf

\* Whatever was revised, cancelled, delivered, refunded or paid out of a checkout,
\* it keeps what OrderMoney and RefundSettlement keep: what was collected at the
\* door are books the refunds can start from.
THEOREM CheckoutInvariant == MCSpec => [](MoneyInv /\ RefundInv)
<1>1. CheckoutInv => MoneyInv /\ RefundInv
  BY DEF CheckoutInv
<1> QED  BY <1>1, CheckoutStart, CheckoutNext, PTL DEF MCSpec

\* From the first revision to the last refund and payout of a checkout: its
\* customer owes what he agreed to and pays for what came, never gets back more
\* than he paid, and its shops are paid out exactly what is left.  respondToRevision,
\* rollUpParent, RefundsService and SettlementsService together keep all seven.
THEOREM CheckoutSafety ==
  MCSpec => [](/\ OwesWhatWasAgreed /\ PaysForWhatCame /\ ShelfAddsUp
               /\ NeverOverRefunded /\ ApprovedStaysPayable /\ BooksAgree /\ PayoutExact)
<1>1. MoneyInv => OwesWhatWasAgreed /\ PaysForWhatCame /\ ShelfAddsUp
  BY DEF MoneyInv
<1>2. RefundInv => NeverOverRefunded /\ ApprovedStaysPayable /\ BooksAgree /\ PayoutExact
  BY WithinIs, KeptPayable, InvFacts DEF RefundInv, Kept, ApprovedStaysPayable
<1> QED  BY <1>1, <1>2, CheckoutInvariant, PTL

=============================================================================
