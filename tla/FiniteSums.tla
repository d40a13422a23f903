----------------------------- MODULE FiniteSums -----------------------------
(* Finite sets and sums over them: what the folds of the community modules  *)
(* compute.  The induction is that a set of finite sets has a minimal one.  *)
EXTENDS Integers, FiniteSets, Functions, FiniteSetTheorems, WellFoundedInduction, TLAPS

\* Among subsets of a finite set there is one that contains none of the others.
LEMMA MinimalSubset ==
  ASSUME NEW S, IsFiniteSet(S), NEW B, B \subseteq SUBSET S, B # {}
  PROVE  \E m \in B : \A s \in B : s \subseteq m => s = m
  <1>1. IsWellFoundedOn(StrictSubsetOrdering(S), FiniteSubsetsOf(S))
    BY FS_StrictSubsetOrderingWellFounded
  <1>2. B \subseteq FiniteSubsetsOf(S)
    BY FS_FiniteSubsetsOfFinite
  <1>3. PICK m \in B : \A s \in B : <<s, m>> \notin StrictSubsetOrdering(S)
    BY <1>1, <1>2, WFMin
  <1>4. ASSUME NEW s \in B, s \subseteq m, s # m
        PROVE  <<s, m>> \in StrictSubsetOrdering(S)
    <2>1. <<s, m>> \in (SUBSET S) \X (SUBSET S)
      OBVIOUS
    <2> QED
      BY <1>4, <2>1 DEF StrictSubsetOrdering
  <1>5. \A s \in B : s \subseteq m => s = m
    BY <1>3, <1>4, Zenon
  <1> QED
    BY <1>5

-----------------------------------------------------------------------------
(* The recursion of the fold *)

Pick(s) == CHOOSE x \in s : TRUE
Less(s) == s \ {Pick(s)}

IsSum(g, f, S) ==
  g = [s \in SUBSET S |-> IF s = {} THEN 0 ELSE f[Pick(s)] + g[Less(s)]]

LEMMA SumDef ==
  ASSUME NEW f, NEW S
  PROVE  SumFunctionOnSet(f, S) = (CHOOSE g : IsSum(g, f, S))[S]
  BY DEF SumFunctionOnSet, FoldFunctionOnSet, MapThenFoldSet, IsSum, Pick, Less

LEMMA PickFacts ==
  ASSUME NEW s, s # {}
  PROVE  Pick(s) \in s /\ Less(s) \subseteq s /\ Less(s) # s
  BY DEF Pick, Less

LEMMA SumUnique ==
  ASSUME NEW f, NEW S, IsFiniteSet(S), NEW T \in SUBSET S,
         NEW g, IsSum(g, f, S), NEW h, IsSum(h, f, T)
  PROVE  \A s \in SUBSET T : g[s] = h[s]
  <1> DEFINE B == {s \in SUBSET T : g[s] # h[s]}
  <1> SUFFICES ASSUME B # {} PROVE FALSE
    OBVIOUS
  <1>1. PICK m \in B : \A s \in B : s \subseteq m => s = m
    <2>1. B \subseteq SUBSET S
      OBVIOUS
    <2> HIDE DEF B
    <2> QED
      BY <2>1, MinimalSubset
  <1>2. m \in SUBSET T /\ m \in SUBSET S /\ g[m] # h[m]
    BY <1>1
  <1>3. /\ g[m] = IF m = {} THEN 0 ELSE f[Pick(m)] + g[Less(m)]
        /\ h[m] = IF m = {} THEN 0 ELSE f[Pick(m)] + h[Less(m)]
    BY <1>2 DEF IsSum
  <1>4. m # {} => g[Less(m)] = h[Less(m)]
    BY <1>1, <1>2, PickFacts
  <1> QED
    BY <1>2, <1>3, <1>4

LEMMA SumExists ==
  ASSUME NEW f, NEW S, IsFiniteSet(S)
  PROVE  \E g : IsSum(g, f, S)
  <1> DEFINE B == {s \in SUBSET S : ~\E g : IsSum(g, f, s)}
  <1> SUFFICES ASSUME B # {} PROVE FALSE
    OBVIOUS
  <1>1. PICK m \in B : \A s \in B : s \subseteq m => s = m
    <2>1. B \subseteq SUBSET S
      OBVIOUS
    <2> HIDE DEF B
    <2> QED
      BY <2>1, MinimalSubset
  <1>2. m \in SUBSET S /\ ~\E g : IsSum(g, f, m)
    BY <1>1
  <1> DEFINE G(s) == CHOOSE g : IsSum(g, f, s)
             h == [s \in SUBSET m |-> IF s = {} THEN 0 ELSE f[Pick(s)] + G(Less(s))[Less(s)]]
  <1>3. ASSUME NEW s \in SUBSET m, s # m PROVE IsSum(G(s), f, s)
    <2>1. \E g : IsSum(g, f, s)
      BY <1>1, <1>3
    <2> QED
      BY <2>1
  <1>4. ASSUME NEW s \in SUBSET m, s # m PROVE h[s] = G(s)[s]
    <2>1. G(s)[s] = IF s = {} THEN 0 ELSE f[Pick(s)] + G(s)[Less(s)]
      <3>1. s \in SUBSET s
        OBVIOUS
      <3> HIDE DEF G
      <3> QED
        BY <1>3, <1>4, <3>1 DEF IsSum
    <2>2. ASSUME s # {} PROVE G(s)[Less(s)] = G(Less(s))[Less(s)]
      <3>1. Less(s) \in SUBSET s /\ Less(s) \in SUBSET m /\ Less(s) # m /\ IsFiniteSet(s)
        BY <1>2, <2>2, PickFacts, FS_Subset
      <3>2. IsSum(G(s), f, s) /\ IsSum(G(Less(s)), f, Less(s))
        BY <1>3, <1>4, <3>1
      <3> HIDE DEF G
      <3> QED
        BY <3>1, <3>2, SumUnique
    <2> HIDE DEF G
    <2> QED
      BY <2>1, <2>2
  <1>5. ASSUME NEW s \in SUBSET m, s # {} PROVE h[Less(s)] = G(Less(s))[Less(s)]
    <2> HIDE DEF G, h
    <2>1. Less(s) \in SUBSET m /\ Less(s) # m
      BY <1>5, PickFacts
    <2> QED
      BY <1>4, <2>1
  <1>6. IsSum(h, f, m)
    <2> HIDE DEF G
    <2>1. h = [s \in SUBSET m |-> IF s = {} THEN 0 ELSE f[Pick(s)] + h[Less(s)]]
      <3>1. \A s \in SUBSET m : (IF s = {} THEN 0 ELSE f[Pick(s)] + G(Less(s))[Less(s)])
                                = (IF s = {} THEN 0 ELSE f[Pick(s)] + h[Less(s)])
        <4> HIDE DEF h
        <4> QED
          BY <1>5
      <3> QED
        BY <3>1, Zenon
    <2> HIDE DEF h
    <2> QED
      BY <2>1 DEF IsSum
  <1> QED
    BY <1>2, <1>6

-----------------------------------------------------------------------------
(* Sums *)

Sum(f, S) == SumFunctionOnSet(f, S)

LEMMA SumStep ==
  ASSUME NEW f, NEW S, IsFiniteSet(S)
  PROVE  Sum(f, S) = IF S = {} THEN 0 ELSE f[Pick(S)] + Sum(f, Less(S))
  <1> DEFINE G(s) == CHOOSE g : IsSum(g, f, s)
  <1>1. \A s : IsFiniteSet(s) => IsSum(G(s), f, s)
    <2> SUFFICES ASSUME NEW s, IsFiniteSet(s) PROVE IsSum(G(s), f, s)
      OBVIOUS
    <2>1. \E g : IsSum(g, f, s)
      BY SumExists
    <2> QED
      BY <2>1
  <1>2. Less(S) \in SUBSET S /\ IsFiniteSet(Less(S))
    BY FS_Subset DEF Less
  <1>3. Sum(f, S) = G(S)[S] /\ Sum(f, Less(S)) = G(Less(S))[Less(S)]
    BY SumDef DEF Sum
  <1> HIDE DEF G
  <1>4. G(S)[S] = IF S = {} THEN 0 ELSE f[Pick(S)] + G(S)[Less(S)]
    <2>1. S \in SUBSET S /\ IsSum(G(S), f, S)
      BY <1>1
    <2> QED
      BY <2>1 DEF IsSum
  <1>5. G(S)[Less(S)] = G(Less(S))[Less(S)]
    <2>1. IsSum(G(S), f, S) /\ IsSum(G(Less(S)), f, Less(S)) /\ Less(S) \in SUBSET Less(S)
      BY <1>1, <1>2
    <2> QED
      BY <1>2, <2>1, SumUnique
  <1> QED
    BY <1>3, <1>4, <1>5

\* Nothing sums to zero, numbers to a number.
LEMMA SumType ==
  ASSUME NEW S, IsFiniteSet(S), NEW f, \A x \in S : f[x] \in Nat
  PROVE  Sum(f, S) \in Nat
  <1> DEFINE B == {s \in SUBSET S : Sum(f, s) \notin Nat}
  <1> SUFFICES ASSUME B # {} PROVE FALSE
    OBVIOUS
  <1>1. PICK m \in B : \A s \in B : s \subseteq m => s = m
    <2>1. B \subseteq SUBSET S
      OBVIOUS
    <2> HIDE DEF B
    <2> QED
      BY <2>1, MinimalSubset
  <1>2. m \in SUBSET S /\ Sum(f, m) \notin Nat /\ IsFiniteSet(m)
    BY <1>1, FS_Subset
  <1>3. Sum(f, m) = IF m = {} THEN 0 ELSE f[Pick(m)] + Sum(f, Less(m))
    BY <1>2, SumStep
  <1>4. m # {} => f[Pick(m)] \in Nat /\ Sum(f, Less(m)) \in Nat
    BY <1>1, <1>2, PickFacts
  <1> QED
    BY <1>2, <1>3, <1>4

\* Any element may be taken first.
LEMMA SumRemove ==
  ASSUME NEW S, IsFiniteSet(S), NEW f, \A x \in S : f[x] \in Nat, NEW e \in S
  PROVE  Sum(f, S) = f[e] + Sum(f, S \ {e})
  <1> DEFINE B == {s \in SUBSET S : \E x \in s : Sum(f, s) # f[x] + Sum(f, s \ {x})}
  <1> SUFFICES ASSUME B # {} PROVE FALSE
    OBVIOUS
  <1>1. PICK m \in B : \A s \in B : s \subseteq m => s = m
    <2>1. B \subseteq SUBSET S
      OBVIOUS
    <2> HIDE DEF B
    <2> QED
      BY <2>1, MinimalSubset
  <1>2. PICK x \in m : Sum(f, m) # f[x] + Sum(f, m \ {x})
    BY <1>1
  <1>3. m \in SUBSET S /\ \A s \in SUBSET m : IsFiniteSet(s) /\ Sum(f, s) \in Nat
    <2>1. m \in SUBSET S
      BY <1>1
    <2>2. \A s \in SUBSET S : IsFiniteSet(s)
      BY FS_Subset
    <2>3. \A s \in SUBSET S : Sum(f, s) \in Nat
      BY <2>2, SumType
    <2> QED
      BY <2>1, <2>2, <2>3
  <1> DEFINE c == Pick(m)
  <1>4. c \in m /\ Sum(f, m) = f[c] + Sum(f, m \ {c})
    BY <1>2, <1>3, SumStep, PickFacts DEF Less
  <1>5. x # c
    BY <1>2, <1>4
  <1>6. ASSUME NEW s \in SUBSET m, s # m, NEW y \in s
        PROVE  Sum(f, s) = f[y] + Sum(f, s \ {y})
    BY <1>1, <1>3, <1>6
  <1> HIDE DEF c
  <1>7. Sum(f, m \ {c}) = f[x] + Sum(f, (m \ {c}) \ {x})
    BY <1>4, <1>5, <1>6
  <1>8. Sum(f, m \ {x}) = f[c] + Sum(f, (m \ {x}) \ {c})
    BY <1>4, <1>5, <1>6
  <1>9. (m \ {c}) \ {x} = (m \ {x}) \ {c}
    OBVIOUS
  <1> DEFINE r == Sum(f, (m \ {x}) \ {c})
  <1>10. f[x] \in Nat /\ f[c] \in Nat /\ r \in Nat
    BY <1>3, <1>4
  <1>11. Sum(f, m) = f[c] + (f[x] + r) /\ Sum(f, m \ {x}) = f[c] + r
    BY <1>4, <1>7, <1>8, <1>9
  <1> HIDE DEF r
  <1> QED
    BY <1>2, <1>10, <1>11

\* Only the values on the set count.
LEMMA SumSame ==
  ASSUME NEW S, IsFiniteSet(S), NEW f, NEW g, \A x \in S : f[x] = g[x]
  PROVE  Sum(f, S) = Sum(g, S)
  <1> DEFINE B == {s \in SUBSET S : Sum(f, s) # Sum(g, s)}
  <1> SUFFICES ASSUME B # {} PROVE FALSE
    OBVIOUS
  <1>1. PICK m \in B : \A s \in B : s \subseteq m => s = m
    <2>1. B \subseteq SUBSET S
      OBVIOUS
    <2> HIDE DEF B
    <2> QED
      BY <2>1, MinimalSubset
  <1>2. m \in SUBSET S /\ Sum(f, m) # Sum(g, m) /\ IsFiniteSet(m)
    BY <1>1, FS_Subset
  <1>3. /\ Sum(f, m) = IF m = {} THEN 0 ELSE f[Pick(m)] + Sum(f, Less(m))
        /\ Sum(g, m) = IF m = {} THEN 0 ELSE g[Pick(m)] + Sum(g, Less(m))
    BY <1>2, SumStep
  <1>4. m # {} => f[Pick(m)] = g[Pick(m)] /\ Sum(f, Less(m)) = Sum(g, Less(m))
    BY <1>1, <1>2, PickFacts
  <1> QED
    BY <1>2, <1>3, <1>4

\* Fewer elements, no more of a sum.
LEMMA SumMonotone ==
  ASSUME NEW S, IsFiniteSet(S), NEW f, \A x \in S : f[x] \in Nat, NEW T \in SUBSET S
  PROVE  Sum(f, T) <= Sum(f, S)
  <1> DEFINE B == {s \in SUBSET S : T \subseteq s /\ ~(Sum(f, T) <= Sum(f, s))}
  <1> SUFFICES ASSUME B # {} PROVE FALSE
    OBVIOUS
  <1>1. PICK m \in B : \A s \in B : s \subseteq m => s = m
    <2>1. B \subseteq SUBSET S
      OBVIOUS
    <2> HIDE DEF B
    <2> QED
      BY <2>1, MinimalSubset
  <1>2. m \in SUBSET S /\ T \subseteq m /\ ~(Sum(f, T) <= Sum(f, m))
    BY <1>1
  <1>3. \A s \in SUBSET S : IsFiniteSet(s) /\ Sum(f, s) \in Nat
    <2>1. \A s \in SUBSET S : IsFiniteSet(s)
      BY FS_Subset
    <2> QED
      BY <2>1, SumType
  <1>4. m # T
    BY <1>2, <1>3
  <1>5. PICK e \in m : e \notin T
    BY <1>2, <1>4
  <1>6. Sum(f, T) <= Sum(f, m \ {e})
    BY <1>1, <1>2, <1>5
  <1>7. Sum(f, m) = f[e] + Sum(f, m \ {e}) /\ f[e] \in Nat
    BY <1>2, <1>3, SumRemove
  <1>8. Sum(f, T) \in Nat /\ Sum(f, m \ {e}) \in Nat
    BY <1>2, <1>3
  <1> QED
    BY <1>2, <1>6, <1>7, <1>8

\* What a function takes a finite set to is finite.
LEMMA ImageFinite ==
  ASSUME NEW S, IsFiniteSet(S), NEW f, NEW R, R \subseteq {f[x] : x \in S}
  PROVE  IsFiniteSet(R)
  <1> DEFINE T == {f[x] : x \in S}
             g == [x \in S |-> f[x]]
  <1>1. g \in Surjection(S, T)
    BY DEF Surjection
  <1>2. R \in SUBSET T
    OBVIOUS
  <1> HIDE DEF T, g
  <1>3. IsFiniteSet(T)
    BY <1>1, FS_Surjection
  <1> QED
    BY <1>2, <1>3, FS_Subset

\* A finite set of integers has a greatest element.
LEMMA GreatestExists ==
  ASSUME NEW S, IsFiniteSet(S)
  PROVE  S \subseteq Int /\ S # {} => \E x \in S : \A y \in S : x >= y
  <1> DEFINE B == {s \in SUBSET S : s # {} /\ ~\E x \in s : \A y \in s : x >= y}
  <1>1. ASSUME B # {} PROVE \E m \in B : \A s \in B : s \subseteq m => s = m
    <2>1. B \subseteq SUBSET S
      OBVIOUS
    <2> HIDE DEF B
    <2> QED
      BY <1>1, <2>1, MinimalSubset
  <1>2. ASSUME S \subseteq Int, NEW m \in B, \A s \in B : s \subseteq m => s = m
        PROVE  FALSE
    <2>1. m \in SUBSET S /\ m # {} /\ ~\E x \in m : \A y \in m : x >= y
      OBVIOUS
    <2>2. Pick(m) \in m /\ Less(m) \subseteq m /\ Less(m) # m
          /\ \A y \in m : y = Pick(m) \/ y \in Less(m)
      BY <2>1, PickFacts DEF Less
    <2>3. \A y \in m : y \in Int
      BY <1>2, <2>1
    <2>4. CASE Less(m) = {}
      BY <2>1, <2>2, <2>3, <2>4
    <2>5. CASE Less(m) # {}
      <3>1. Less(m) \notin B
        BY <1>2, <2>2
      <3>2. \E x \in Less(m) : \A y \in Less(m) : x >= y
        BY <2>1, <2>2, <2>5, <3>1
      <3>3. PICK x \in Less(m) : \A y \in Less(m) : x >= y
        BY <3>2
      <3>4. x \in m /\ x \in Int /\ Pick(m) \in Int
        BY <2>2, <2>3
      <3>5. CASE Pick(m) >= x
        <4>1. \A y \in m : Pick(m) >= y
          BY <2>2, <2>3, <3>3, <3>4, <3>5
        <4> QED
          BY <2>1, <2>2, <4>1
      <3>6. CASE ~(Pick(m) >= x)
        <4>1. \A y \in m : x >= y
          BY <2>2, <2>3, <3>3, <3>4, <3>6
        <4> QED
          BY <2>1, <3>4, <4>1
      <3> QED
        BY <3>5, <3>6
    <2> QED
      BY <2>4, <2>5
  <1>3. S \notin B \/ ~(S \subseteq Int)
    <2> HIDE DEF B
    <2> QED
      BY <1>1, <1>2
  <1> QED
    BY <1>3
=============================================================================
