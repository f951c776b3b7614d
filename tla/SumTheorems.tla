------------------------------ MODULE SumTheorems ------------------------------
(***************************************************************************)
(* Sums over finite sets.  MapThenSumSet is a recursive function on the    *)
(* subsets of its set; the lemmas below show what it computes, for every   *)
(* finite set and every function.  Induction is by a minimal set for which *)
(* the claim fails (WFMin), so that no lemma takes an operator.            *)
(***************************************************************************)
EXTENDS Integers, FiniteSetsExt, FiniteSetTheorems, TLAPS

Sigma(f, S) == MapThenSumSet(LAMBDA x : f[x], S)

Pick(s) == CHOOSE x \in s : TRUE

\* h gives the sum of f over every subset of S.
Adds(h, f, S) ==
  h = [s \in SUBSET S |-> IF s = {} THEN 0 ELSE f[Pick(s)] + h[s \ {Pick(s)}]]

-----------------------------------------------------------------------------
\* A family of subsets of a finite set has one without a smaller one.
LEMMA Smallest ==
  ASSUME NEW S, IsFiniteSet(S), NEW T \in SUBSET (SUBSET S), T # {}
  PROVE  \E x \in T : \A y \in T : y \subseteq x => y = x
<1>1. IsWellFoundedOn(StrictSubsetOrdering(S), SUBSET S)
  BY FS_StrictSubsetOrderingWellFounded, FS_FiniteSubsetsOfFinite
<1>2. PICK x \in T : \A y \in T : <<y, x>> \notin StrictSubsetOrdering(S)
  BY <1>1, WFMin
<1>3. \A y \in T : y \subseteq x => y = x
  BY <1>2 DEF StrictSubsetOrdering
<1> QED  BY <1>3

\* Of some numbers one is the least.
LEMMA LeastNumber ==
  ASSUME NEW U, U # {}, \A c \in U : c \in Nat
  PROVE  \E m \in U : \A c \in U : m <= c
<1>1. PICK n \in U : TRUE
  OBVIOUS
<1> DEFINE S == 0..n
           Below(c) == 0..c
           T == {Below(c) : c \in {d \in U : d <= n}}
<1>2. IsFiniteSet(S)
  BY <1>1, FS_Interval
<1>3. T \in SUBSET (SUBSET S) /\ T # {}
  BY <1>1
<1>4. PICK x \in T : \A y \in T : y \subseteq x => y = x
  <2> HIDE DEF S, T
  <2> QED  BY <1>2, <1>3, Smallest
<1>5. PICK m \in U : m <= n /\ x = Below(m)
  BY <1>4
<1>6. ASSUME NEW c \in U, ~(m <= c) PROVE FALSE
  <2>1. c \in Nat /\ m \in Nat /\ n \in Nat /\ c < m /\ c <= n
    BY <1>1, <1>5, <1>6
  <2>2. Below(c) \in T /\ Below(c) \subseteq Below(m) /\ m \in Below(m) /\ m \notin Below(c)
    BY <2>1
  <2> QED  BY <1>4, <1>5, <2>2
<1> QED  BY <1>6

\* What is picked of a set is in it.
LEMMA Picked == ASSUME NEW s, s # {} PROVE Pick(s) \in s
BY DEF Pick

\* Two ways to add up agree where both are defined.
LEMMA AddsOnce ==
  ASSUME NEW S, IsFiniteSet(S), NEW U \in SUBSET S, NEW f, NEW g, NEW h,
         Adds(g, f, U), Adds(h, f, S)
  PROVE  \A s \in SUBSET U : g[s] = h[s]
<1> DEFINE T == {s \in SUBSET U : g[s] # h[s]}
<1> SUFFICES ASSUME T # {} PROVE FALSE  OBVIOUS
<1>1. T \in SUBSET (SUBSET S)  OBVIOUS
<1> HIDE DEF T
<1>2. PICK s \in T : \A y \in T : y \subseteq s => y = s  BY <1>1, Smallest
<1> USE DEF T
<1>3. s \in SUBSET U /\ s \in SUBSET S /\ g[s] # h[s]  BY <1>2
<1>4. /\ g[s] = IF s = {} THEN 0 ELSE f[Pick(s)] + g[s \ {Pick(s)}]
      /\ h[s] = IF s = {} THEN 0 ELSE f[Pick(s)] + h[s \ {Pick(s)}]
  BY <1>3 DEF Adds
<1>5. s # {}  BY <1>3, <1>4
<1>6. Pick(s) \in s  BY <1>5, Picked
<1>7. s \ {Pick(s)} \notin T  BY <1>2, <1>6
<1>8. g[s \ {Pick(s)}] = h[s \ {Pick(s)}]  BY <1>3, <1>7
<1> QED  BY <1>3, <1>4, <1>5, <1>8

\* There is a way to add up.
LEMMA AddsExists ==
  ASSUME NEW S, IsFiniteSet(S), NEW f
  PROVE  \E h : Adds(h, f, S)
<1> DEFINE T == {U \in SUBSET S : ~\E h : Adds(h, f, U)}
<1> SUFFICES ASSUME T # {} PROVE FALSE  OBVIOUS
<1>1. T \in SUBSET (SUBSET S)  OBVIOUS
<1> HIDE DEF T
<1>2. PICK U \in T : \A y \in T : y \subseteq U => y = U  BY <1>1, Smallest
<1> USE DEF T
<1> DEFINE Way(s) == CHOOSE h : Adds(h, f, s)
           rest == U \ {Pick(U)}
           all == [s \in SUBSET U |->
                     IF s = {} THEN 0
                     ELSE IF s = U THEN f[Pick(U)] + Way(rest)[rest]
                     ELSE Way(s)[s]]
<1>3. \A s \in SUBSET U : s # U => Adds(Way(s), f, s)
  <2> TAKE s \in SUBSET U
  <2> HAVE s # U
  <2>1. s \notin T /\ s \in SUBSET S  BY <1>2
  <2>2. \E h : Adds(h, f, s)  BY <2>1
  <2> QED  BY <2>2
<1> HIDE DEF Way
<1>4. ASSUME NEW s \in SUBSET U, s # {}
      PROVE  all[s] = f[Pick(s)] + all[s \ {Pick(s)}]
  <2> DEFINE less == s \ {Pick(s)}
  <2>1. Pick(s) \in s  BY <1>4, Picked
  <2>2. less \in SUBSET U /\ less # U /\ less \in SUBSET s /\ less # s  BY <2>1
  <2>3. Adds(Way(less), f, less)  BY <1>3, <2>2
  <2>4. all[less] = Way(less)[less]
    <3>1. CASE less = {}
      <4>1. Way(less)[less] = 0  BY <2>3, <3>1 DEF Adds
      <4> QED  BY <2>2, <3>1, <4>1
    <3>2. CASE less # {}
      BY <2>2, <3>2
    <3> QED  BY <3>1, <3>2
  <2>5. CASE s = U
    BY <1>4, <2>4, <2>5
  <2>6. CASE s # U
    <3>1. Adds(Way(s), f, s) /\ IsFiniteSet(s)  BY <1>2, <1>3, <2>6, FS_Subset
    <3>2. Way(s)[s] = f[Pick(s)] + Way(s)[less]  BY <1>4, <3>1 DEF Adds
    <3>3. Way(less)[less] = Way(s)[less]
      BY <2>2, <2>3, <3>1, AddsOnce
    <3>4. all[s] = Way(s)[s]  BY <1>4, <2>6
    <3> QED  BY <2>4, <3>2, <3>3, <3>4
  <2> QED  BY <2>5, <2>6
<1>5. Adds(all, f, U)
  <2>1. all = [s \in SUBSET U |-> all[s]]  OBVIOUS
  <2>2. all[{}] = 0  OBVIOUS
  <2> HIDE DEF all
  <2>3. \A s \in SUBSET U : all[s] = IF s = {} THEN 0 ELSE f[Pick(s)] + all[s \ {Pick(s)}]
    BY <1>4, <2>2
  <2> QED  BY <2>1, <2>3 DEF Adds
<1>6. \E h : Adds(h, f, U)  BY <1>5
<1> QED  BY <1>2, <1>6

-----------------------------------------------------------------------------
\* Sigma is the sum of f over S.
LEMMA SigmaAdds ==
  ASSUME NEW S, IsFiniteSet(S), NEW f
  PROVE  \E h : Adds(h, f, S) /\ Sigma(f, S) = h[S]
<1> DEFINE way == CHOOSE h : h = [s \in SUBSET S |->
                    IF s = {} THEN 0
                    ELSE f[CHOOSE x \in s : TRUE] + h[s \ {CHOOSE x \in s : TRUE}]]
<1>1. Sigma(f, S) = way[S]
  BY Zenon DEF Sigma, MapThenSumSet, MapThenFoldSet
<1>2. \E h : Adds(h, f, S)  BY AddsExists
<1>3. Adds(way, f, S)  BY <1>2 DEF Adds, Pick
<1> HIDE DEF way
<1> QED  BY <1>1, <1>3

\* Nothing adds up to zero, and what is picked comes on top of the rest.
LEMMA SigmaStep ==
  ASSUME NEW S, IsFiniteSet(S), NEW f
  PROVE  Sigma(f, S) = IF S = {} THEN 0 ELSE f[Pick(S)] + Sigma(f, S \ {Pick(S)})
<1>1. PICK h : Adds(h, f, S) /\ Sigma(f, S) = h[S]  BY SigmaAdds
<1>2. h[S] = IF S = {} THEN 0 ELSE f[Pick(S)] + h[S \ {Pick(S)}]  BY <1>1 DEF Adds
<1> DEFINE rest == S \ {Pick(S)}
<1>3. IsFiniteSet(rest) /\ rest \in SUBSET S  BY FS_RemoveElement
<1>4. PICK g : Adds(g, f, rest) /\ Sigma(f, rest) = g[rest]  BY <1>3, SigmaAdds
<1>5. g[rest] = h[rest]  BY <1>1, <1>3, <1>4, AddsOnce
<1> QED  BY <1>1, <1>2, <1>4, <1>5

LEMMA SigmaEmpty == ASSUME NEW f PROVE Sigma(f, {}) = 0
BY SigmaStep, FS_EmptySet

\* Sums of whole and of natural numbers.
LEMMA SigmaInt ==
  ASSUME NEW S, IsFiniteSet(S), NEW f, \A x \in S : f[x] \in Int
  PROVE  Sigma(f, S) \in Int
<1> DEFINE T == {U \in SUBSET S : Sigma(f, U) \notin Int}
<1> SUFFICES ASSUME T # {} PROVE FALSE  OBVIOUS
<1>1. T \in SUBSET (SUBSET S)  OBVIOUS
<1> HIDE DEF T
<1>2. PICK U \in T : \A y \in T : y \subseteq U => y = U  BY <1>1, Smallest
<1> USE DEF T
<1>3. U \in SUBSET S /\ IsFiniteSet(U) /\ Sigma(f, U) \notin Int  BY <1>2, FS_Subset
<1>4. U # {}  BY <1>3, SigmaEmpty
<1>5. Pick(U) \in U  BY <1>4, Picked
<1>6. U \ {Pick(U)} \notin T  BY <1>2, <1>5
<1>7. Sigma(f, U \ {Pick(U)}) \in Int  BY <1>3, <1>6
<1>8. Sigma(f, U) = f[Pick(U)] + Sigma(f, U \ {Pick(U)})  BY <1>3, <1>4, SigmaStep
<1>9. f[Pick(U)] \in Int  BY <1>3, <1>5
<1> QED  BY <1>3, <1>7, <1>8, <1>9

LEMMA SigmaNat ==
  ASSUME NEW S, IsFiniteSet(S), NEW f, \A x \in S : f[x] \in Nat
  PROVE  Sigma(f, S) \in Nat
<1> DEFINE T == {U \in SUBSET S : Sigma(f, U) \notin Nat}
<1> SUFFICES ASSUME T # {} PROVE FALSE  OBVIOUS
<1>1. T \in SUBSET (SUBSET S)  OBVIOUS
<1> HIDE DEF T
<1>2. PICK U \in T : \A y \in T : y \subseteq U => y = U  BY <1>1, Smallest
<1> USE DEF T
<1>3. U \in SUBSET S /\ IsFiniteSet(U) /\ Sigma(f, U) \notin Nat  BY <1>2, FS_Subset
<1>4. U # {}  BY <1>3, SigmaEmpty
<1>5. Pick(U) \in U  BY <1>4, Picked
<1>6. U \ {Pick(U)} \notin T  BY <1>2, <1>5
<1>7. Sigma(f, U \ {Pick(U)}) \in Nat  BY <1>3, <1>6
<1>8. Sigma(f, U) = f[Pick(U)] + Sigma(f, U \ {Pick(U)})  BY <1>3, <1>4, SigmaStep
<1>9. f[Pick(U)] \in Nat  BY <1>3, <1>5
<1> QED  BY <1>3, <1>7, <1>8, <1>9

\* The order of adding does not matter: any element may come last.
LEMMA SigmaRemove ==
  ASSUME NEW S, IsFiniteSet(S), NEW f, \A x \in S : f[x] \in Int, NEW x \in S
  PROVE  Sigma(f, S) = f[x] + Sigma(f, S \ {x})
<1> DEFINE T == {U \in SUBSET S : \E y \in U : Sigma(f, U) # f[y] + Sigma(f, U \ {y})}
<1> SUFFICES ASSUME T # {} PROVE FALSE  OBVIOUS
<1>1. T \in SUBSET (SUBSET S)  OBVIOUS
<1> HIDE DEF T
<1>2. PICK U \in T : \A y \in T : y \subseteq U => y = U  BY <1>1, Smallest
<1> USE DEF T
<1>3. PICK y \in U : Sigma(f, U) # f[y] + Sigma(f, U \ {y})  BY <1>2
<1> DEFINE p == Pick(U)
<1>4. U \in SUBSET S /\ IsFiniteSet(U) /\ p \in U  BY <1>2, <1>3, FS_Subset, Picked
<1>5. Sigma(f, U) = f[p] + Sigma(f, U \ {p})  BY <1>3, <1>4, SigmaStep
<1> HIDE DEF p
<1>6. y # p  BY <1>3, <1>5
<1>7. U \ {p} \notin T /\ U \ {y} \notin T  BY <1>2, <1>4
<1>8. /\ Sigma(f, U \ {p}) = f[y] + Sigma(f, (U \ {p}) \ {y})
      /\ Sigma(f, U \ {y}) = f[p] + Sigma(f, (U \ {y}) \ {p})
  BY <1>4, <1>6, <1>7
<1>9. (U \ {p}) \ {y} = (U \ {y}) \ {p}  OBVIOUS
<1>10. IsFiniteSet((U \ {y}) \ {p})  BY <1>4, FS_RemoveElement
<1>11. Sigma(f, (U \ {y}) \ {p}) \in Int  BY <1>4, <1>10, SigmaInt
<1>12. f[y] \in Int /\ f[p] \in Int  BY <1>4
<1> DEFINE rest == Sigma(f, (U \ {y}) \ {p})
<1>13. Sigma(f, U) = f[p] + (f[y] + rest)  BY <1>5, <1>8, <1>9
<1>14. f[y] + Sigma(f, U \ {y}) = f[y] + (f[p] + rest)  BY <1>8
<1>15. rest \in Int  BY <1>11
<1> HIDE DEF rest, T
<1>16. f[p] + (f[y] + rest) = f[y] + (f[p] + rest)  BY <1>12, <1>15
<1> QED  BY <1>3, <1>13, <1>14, <1>16

LEMMA SigmaInsert ==
  ASSUME NEW S, IsFiniteSet(S), NEW x, x \notin S,
         NEW f, \A y \in S \cup {x} : f[y] \in Int
  PROVE  Sigma(f, S \cup {x}) = f[x] + Sigma(f, S)
<1>1. (S \cup {x}) \ {x} = S /\ IsFiniteSet(S \cup {x})  BY FS_AddElement
<1> QED  BY <1>1, SigmaRemove

LEMMA SigmaOne == ASSUME NEW x, NEW f, f[x] \in Int PROVE Sigma(f, {x}) = f[x]
<1>1. IsFiniteSet({}) /\ {x} = {} \cup {x} /\ x \notin {}  BY FS_EmptySet
<1>2. Sigma(f, {} \cup {x}) = f[x] + Sigma(f, {})  BY <1>1, SigmaInsert
<1> QED  BY <1>1, <1>2, SigmaEmpty

\* Only what f gives on S counts.
LEMMA SigmaSame ==
  ASSUME NEW S, IsFiniteSet(S), NEW f, NEW g, \A x \in S : f[x] = g[x]
  PROVE  Sigma(f, S) = Sigma(g, S)
<1> DEFINE T == {U \in SUBSET S : Sigma(f, U) # Sigma(g, U)}
<1> SUFFICES ASSUME T # {} PROVE FALSE  OBVIOUS
<1>1. T \in SUBSET (SUBSET S)  OBVIOUS
<1> HIDE DEF T
<1>2. PICK U \in T : \A y \in T : y \subseteq U => y = U  BY <1>1, Smallest
<1> USE DEF T
<1>3. U \in SUBSET S /\ IsFiniteSet(U) /\ Sigma(f, U) # Sigma(g, U)  BY <1>2, FS_Subset
<1>4. U # {}  BY <1>3, SigmaEmpty
<1>5. Pick(U) \in U  BY <1>4, Picked
<1>6. U \ {Pick(U)} \notin T  BY <1>2, <1>5
<1>7. Sigma(f, U \ {Pick(U)}) = Sigma(g, U \ {Pick(U)})  BY <1>3, <1>6
<1>8. /\ Sigma(f, U) = f[Pick(U)] + Sigma(f, U \ {Pick(U)})
      /\ Sigma(g, U) = g[Pick(U)] + Sigma(g, U \ {Pick(U)})
  BY <1>3, <1>4, SigmaStep
<1> QED  BY <1>3, <1>5, <1>7, <1>8

\* One summand changes.
LEMMA SigmaChange ==
  ASSUME NEW S, IsFiniteSet(S), NEW f, NEW g, NEW x \in S,
         \A y \in S : f[y] \in Int /\ g[y] \in Int,
         \A y \in S \ {x} : f[y] = g[y]
  PROVE  Sigma(g, S) = Sigma(f, S) + g[x] - f[x]
<1> DEFINE R == S \ {x}
<1>1. IsFiniteSet(R)  BY FS_RemoveElement
<1>2. Sigma(f, S) = f[x] + Sigma(f, R) /\ Sigma(g, S) = g[x] + Sigma(g, R)  BY SigmaRemove
<1>3. Sigma(f, R) = Sigma(g, R)  BY <1>1, SigmaSame
<1>4. Sigma(f, R) \in Int  BY <1>1, SigmaInt
<1>5. f[x] \in Int /\ g[x] \in Int  OBVIOUS
<1> HIDE DEF R
<1> QED  BY <1>2, <1>3, <1>4, <1>5

\* Summands that are zero may be left out.
LEMMA SigmaZero ==
  ASSUME NEW S, IsFiniteSet(S), NEW f, \A x \in S : f[x] = 0
  PROVE  Sigma(f, S) = 0
<1> DEFINE T == {U \in SUBSET S : Sigma(f, U) # 0}
<1> SUFFICES ASSUME T # {} PROVE FALSE  OBVIOUS
<1>1. T \in SUBSET (SUBSET S)  OBVIOUS
<1> HIDE DEF T
<1>2. PICK U \in T : \A y \in T : y \subseteq U => y = U  BY <1>1, Smallest
<1> USE DEF T
<1>3. U \in SUBSET S /\ IsFiniteSet(U) /\ Sigma(f, U) # 0  BY <1>2, FS_Subset
<1>4. U # {}  BY <1>3, SigmaEmpty
<1>5. Pick(U) \in U  BY <1>4, Picked
<1>6. U \ {Pick(U)} \notin T  BY <1>2, <1>5
<1>7. Sigma(f, U \ {Pick(U)}) = 0  BY <1>3, <1>6
<1>8. Sigma(f, U) = f[Pick(U)] + Sigma(f, U \ {Pick(U)})  BY <1>3, <1>4, SigmaStep
<1> QED  BY <1>3, <1>5, <1>7, <1>8

\* Two parts of a sum.
LEMMA SigmaParts ==
  ASSUME NEW S, IsFiniteSet(S), NEW P \in SUBSET S, NEW f, \A x \in S : f[x] \in Int
  PROVE  Sigma(f, S) = Sigma(f, P) + Sigma(f, S \ P)
<1> DEFINE T == {U \in SUBSET P : Sigma(f, S) # Sigma(f, U) + Sigma(f, S \ U)}
<1>0. IsFiniteSet(P)  BY FS_Subset
<1>1. \A U \in SUBSET P : Sigma(f, S) = Sigma(f, U) + Sigma(f, S \ U)
  <2> SUFFICES ASSUME T # {} PROVE FALSE  OBVIOUS
  <2>1. T \in SUBSET (SUBSET P)  OBVIOUS
  <2> HIDE DEF T
  <2>2. PICK U \in T : \A y \in T : y \subseteq U => y = U  BY <1>0, <2>1, Smallest
  <2> USE DEF T
  <2>3. U \in SUBSET P /\ U \in SUBSET S /\ Sigma(f, S) # Sigma(f, U) + Sigma(f, S \ U)  BY <2>2
  <2>4. IsFiniteSet(U) /\ IsFiniteSet(S \ U)  BY <2>3, FS_Subset, FS_Difference
  <2>5. U # {}
    <3>1. S \ {} = S /\ Sigma(f, S) \in Int  BY SigmaInt
    <3> QED  BY <2>3, <3>1, SigmaEmpty
  <2>6. PICK x : x \in U  BY <2>5
  <2>7. U \ {x} \notin T /\ U \ {x} \in SUBSET P  BY <2>2, <2>3, <2>6
  <2>8. Sigma(f, S) = Sigma(f, U \ {x}) + Sigma(f, S \ (U \ {x}))  BY <2>7
  <2>9. S \ (U \ {x}) = (S \ U) \cup {x} /\ x \notin S \ U  BY <2>3, <2>6
  <2>10. Sigma(f, (S \ U) \cup {x}) = f[x] + Sigma(f, S \ U)
    BY <2>3, <2>4, <2>6, <2>9, SigmaInsert
  <2>11. Sigma(f, U) = f[x] + Sigma(f, U \ {x})  BY <2>3, <2>4, <2>6, SigmaRemove
  <2>12. /\ Sigma(f, U \ {x}) \in Int /\ Sigma(f, S \ U) \in Int /\ f[x] \in Int
    <3>1. IsFiniteSet(U \ {x})  BY <2>4, FS_RemoveElement
    <3> QED  BY <2>3, <2>4, <2>6, <3>1, SigmaInt
  <2> DEFINE a == Sigma(f, U \ {x})
             b == Sigma(f, S \ U)
  <2>13. Sigma(f, S) = a + (f[x] + b)  BY <2>8, <2>9, <2>10
  <2>14. Sigma(f, U) + Sigma(f, S \ U) = (f[x] + a) + b  BY <2>11
  <2>15. a \in Int /\ b \in Int /\ f[x] \in Int  BY <2>12
  <2> HIDE DEF a, b, T
  <2>16. a + (f[x] + b) = (f[x] + a) + b  BY <2>15
  <2> QED  BY <2>3, <2>13, <2>14, <2>16
<1> QED  BY <1>1

\* Sums grow with their summands.
LEMMA SigmaLess ==
  ASSUME NEW S, IsFiniteSet(S), NEW f, NEW g,
         \A x \in S : f[x] \in Int /\ g[x] \in Int /\ f[x] <= g[x]
  PROVE  Sigma(f, S) <= Sigma(g, S)
<1> DEFINE T == {U \in SUBSET S : ~(Sigma(f, U) <= Sigma(g, U))}
<1> SUFFICES ASSUME T # {} PROVE FALSE  OBVIOUS
<1>1. T \in SUBSET (SUBSET S)  OBVIOUS
<1> HIDE DEF T
<1>2. PICK U \in T : \A y \in T : y \subseteq U => y = U  BY <1>1, Smallest
<1> USE DEF T
<1>3. U \in SUBSET S /\ IsFiniteSet(U) /\ ~(Sigma(f, U) <= Sigma(g, U))  BY <1>2, FS_Subset
<1>4. U # {}  BY <1>3, SigmaEmpty
<1> DEFINE p == Pick(U)
           R == U \ {p}
<1>5. p \in U  BY <1>4, Picked
<1>6. R \notin T  BY <1>2, <1>5
<1>7. Sigma(f, R) <= Sigma(g, R)  BY <1>3, <1>6
<1>8. /\ Sigma(f, U) = f[p] + Sigma(f, R)
      /\ Sigma(g, U) = g[p] + Sigma(g, R)
  BY <1>3, <1>4, SigmaStep
<1>9. IsFiniteSet(R) /\ \A x \in R : f[x] \in Int /\ g[x] \in Int  BY <1>3, FS_RemoveElement
<1>10. Sigma(f, R) \in Int /\ Sigma(g, R) \in Int  BY <1>9, SigmaInt
<1>11. f[p] \in Int /\ g[p] \in Int /\ f[p] <= g[p]  BY <1>3, <1>5
<1> HIDE DEF p, R
<1> QED  BY <1>3, <1>7, <1>8, <1>10, <1>11

\* The sum of sums.
LEMMA SigmaPlus ==
  ASSUME NEW S, IsFiniteSet(S), NEW f, NEW g, NEW h,
         \A x \in S : f[x] \in Int /\ g[x] \in Int /\ h[x] = f[x] + g[x]
  PROVE  Sigma(h, S) = Sigma(f, S) + Sigma(g, S)
<1> DEFINE T == {U \in SUBSET S : Sigma(h, U) # Sigma(f, U) + Sigma(g, U)}
<1> SUFFICES ASSUME T # {} PROVE FALSE  OBVIOUS
<1>1. T \in SUBSET (SUBSET S)  OBVIOUS
<1> HIDE DEF T
<1>2. PICK U \in T : \A y \in T : y \subseteq U => y = U  BY <1>1, Smallest
<1> USE DEF T
<1>3. U \in SUBSET S /\ IsFiniteSet(U) /\ Sigma(h, U) # Sigma(f, U) + Sigma(g, U)
  BY <1>2, FS_Subset
<1>4. U # {}
  <2>1. Sigma(f, {}) = 0 /\ Sigma(g, {}) = 0 /\ Sigma(h, {}) = 0 + 0  BY SigmaEmpty
  <2> QED  BY <1>3, <2>1
<1> DEFINE p == Pick(U)
           R == U \ {p}
<1>5. p \in U  BY <1>4, Picked
<1>6. R \notin T  BY <1>2, <1>5
<1>7. Sigma(h, R) = Sigma(f, R) + Sigma(g, R)  BY <1>3, <1>6
<1>8. /\ Sigma(f, U) = f[p] + Sigma(f, R)
      /\ Sigma(g, U) = g[p] + Sigma(g, R)
      /\ Sigma(h, U) = h[p] + Sigma(h, R)
  BY <1>3, <1>4, SigmaStep
<1>9. IsFiniteSet(R) /\ \A x \in R : f[x] \in Int /\ g[x] \in Int  BY <1>3, FS_RemoveElement
<1>10. Sigma(f, R) \in Int /\ Sigma(g, R) \in Int  BY <1>9, SigmaInt
<1>11. f[p] \in Int /\ g[p] \in Int /\ h[p] = f[p] + g[p]  BY <1>3, <1>5
<1> HIDE DEF p, R
<1> QED  BY <1>3, <1>7, <1>8, <1>10, <1>11

\* A sum of equal numbers.
LEMMA SigmaConstant ==
  ASSUME NEW S, IsFiniteSet(S), NEW c \in Nat, NEW f, \A x \in S : f[x] = c
  PROVE  Sigma(f, S) = c * Cardinality(S)
<1> DEFINE T == {U \in SUBSET S : Sigma(f, U) # c * Cardinality(U)}
<1> SUFFICES ASSUME T # {} PROVE FALSE  OBVIOUS
<1>1. T \in SUBSET (SUBSET S)  OBVIOUS
<1> HIDE DEF T
<1>2. PICK U \in T : \A y \in T : y \subseteq U => y = U  BY <1>1, Smallest
<1> USE DEF T
<1>3. U \in SUBSET S /\ Sigma(f, U) # c * Cardinality(U)  BY <1>2
<1>4. IsFiniteSet(U)  BY <1>3, FS_Subset
<1>5. U # {}
  <2> SUFFICES ASSUME U = {} PROVE FALSE  OBVIOUS
  <2>1. Cardinality(U) = 0 /\ Sigma(f, U) = 0  BY FS_EmptySet, SigmaEmpty
  <2> QED  BY <1>3, <2>1
<1>6. PICK x \in U : TRUE  BY <1>5
<1> DEFINE R == U \ {x}
<1>7. R \subseteq U /\ R # U /\ R \in SUBSET S  BY <1>3, <1>6
<1>8. R \notin T  BY <1>2, <1>7
<1>9. Sigma(f, R) = c * Cardinality(R)  BY <1>7, <1>8
<1>10. Cardinality(R) = Cardinality(U) - 1 /\ Cardinality(U) \in Nat /\ Cardinality(R) \in Nat
  BY <1>4, <1>6, FS_RemoveElement, FS_CardinalityType
<1>11. \A y \in U : f[y] = c /\ f[y] \in Int  BY <1>3
<1>12. Sigma(f, U) = f[x] + Sigma(f, R)  BY <1>4, <1>6, <1>11, SigmaRemove
<1>13. \A n \in Nat : c + c * n = c * (n + 1)  OBVIOUS
<1>14. Cardinality(U) = Cardinality(R) + 1  BY <1>10
<1> HIDE DEF R
<1> QED  BY <1>3, <1>6, <1>9, <1>10, <1>11, <1>12, <1>13, <1>14
=============================================================================
