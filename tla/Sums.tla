-------------------------------- MODULE Sums --------------------------------
(***************************************************************************)
(* Facts about SumFunctionOnSet, the sum of f[x] for x in a finite set, by *)
(* which the models add up counters of all categories, tokens of an        *)
(* interval of time and users taken by all admissions.                     *)
(*                                                                         *)
(* The sum is a recursive function.  Instead of an induction principle,    *)
(* which takes a formula as its parameter, the proofs take the SET of the  *)
(* subsets for which a statement holds, or fails: a set of finite sets     *)
(* that is not empty has a minimal member (WFMin).                         *)
(***************************************************************************)
EXTENDS Integers, FiniteSets, Functions, FiniteSetTheorems, WellFoundedInduction, TLAPS

(* The element that the fold takes first, and the others.                  *)
Pick(s) == CHOOSE x \in s : TRUE
Rest(s) == s \ {Pick(s)}

(* h is the function by which the sum over S is defined.                   *)
IsSum(h, f, S) ==
    h = [s \in SUBSET S |-> IF s = {} THEN 0 ELSE f[Pick(s)] + h[Rest(s)]]

(* The definition in the community modules, with its recursive function    *)
(* written as the choice that it stands for.                               *)
LEMMA SumDef ==
    ASSUME NEW f, NEW S
    PROVE  SumFunctionOnSet(f, S) = (CHOOSE h : IsSum(h, f, S))[S]
  BY Zenon DEF SumFunctionOnSet, FoldFunctionOnSet, MapThenFoldSet, IsSum, Pick, Rest

(* A set of subsets of a finite set that has a member has a minimal one.   *)
LEMMA MinimalSet ==
    ASSUME NEW S, IsFiniteSet(S), NEW B \in SUBSET (SUBSET S), B # {}
    PROVE  \E T \in B : \A U \in B : ~(U \subseteq T /\ U # T)
<1>1. B \subseteq FiniteSubsetsOf(S)
  BY FS_Subset, Zenon DEF FiniteSubsetsOf
<1>2. PICK T \in B : \A U \in B : ~(<<U, T>> \in StrictSubsetOrdering(S))
  BY <1>1, WFMin, FS_StrictSubsetOrderingWellFounded, Zenon
<1>3. ASSUME NEW U \in B, U \subseteq T, U # T PROVE FALSE
  <2>1. <<U, T>> \in StrictSubsetOrdering(S)
    BY <1>3 DEF StrictSubsetOrdering
  <2> QED
    BY <2>1, <1>2
<1> QED
  BY <1>3

(* A set loses an element to the fold.                                     *)
LEMMA RestFacts ==
    ASSUME NEW T, T # {}
    PROVE  Pick(T) \in T /\ Rest(T) \subseteq T /\ Rest(T) # T
  BY DEF Pick, Rest

(* Two such functions agree wherever both are defined.                     *)
LEMMA SumUnique ==
    ASSUME NEW f, NEW S, NEW T, IsFiniteSet(S), IsFiniteSet(T),
           NEW g, IsSum(g, f, S), NEW h, IsSum(h, f, T),
           NEW U \in SUBSET S, U \in SUBSET T
    PROVE  g[U] = h[U]
<1> DEFINE B == {W \in SUBSET U : g[W] # h[W]}
<1> SUFFICES ASSUME B # {} PROVE FALSE
  OBVIOUS
<1>1. IsFiniteSet(U)
  BY FS_Subset
<1>2. PICK W \in B : \A V \in B : ~(V \subseteq W /\ V # W)
  <2>1. B \in SUBSET (SUBSET U)
    OBVIOUS
  <2> HIDE DEF B
  <2> QED
    BY <1>1, <2>1, MinimalSet
<1>3. W \in SUBSET S /\ W \in SUBSET T /\ W \subseteq U
  OBVIOUS
<1>4. W # {}
  BY <1>3 DEF IsSum
<1>5. Rest(W) \notin B
  BY <1>2, <1>4, RestFacts
<1>6. g[Rest(W)] = h[Rest(W)]
  BY <1>5, <1>3, <1>4, RestFacts
<1>7. g[W] = f[Pick(W)] + g[Rest(W)]
  BY <1>3, <1>4 DEF IsSum
<1>8. h[W] = f[Pick(W)] + h[Rest(W)]
  BY <1>3, <1>4 DEF IsSum
<1> QED
  BY <1>6, <1>7, <1>8

(* There is such a function: a smallest set that had none would get one    *)
(* from those of its proper subsets.                                       *)
LEMMA SumExists ==
    ASSUME NEW f, NEW S, IsFiniteSet(S)
    PROVE  \E h : IsSum(h, f, S)
<1> DEFINE B == {T \in SUBSET S : ~ \E h : IsSum(h, f, T)}
<1> SUFFICES ASSUME B # {} PROVE FALSE
  OBVIOUS
<1>1. PICK T \in B : \A U \in B : ~(U \subseteq T /\ U # T)
  <2>1. B \in SUBSET (SUBSET S)
    OBVIOUS
  <2> HIDE DEF B
  <2> QED
    BY <2>1, MinimalSet
<1>2. \A U \in SUBSET T : U # T => \E h : IsSum(h, f, U)
  BY <1>1
<1> DEFINE H(U) == CHOOSE h : IsSum(h, f, U)
<1>3. \A U \in SUBSET T : U # T => IsSum(H(U), f, U)
  BY <1>2
<1>4. \A U \in SUBSET T : IsFiniteSet(U)
  BY FS_Subset
<1> DEFINE V(U) == IF U = {} THEN 0 ELSE f[Pick(U)] + H(Rest(U))[Rest(U)]
           g == [U \in SUBSET T |-> V(U)]
<1>5. ASSUME NEW U \in SUBSET T, U # {}
      PROVE  g[Rest(U)] = H(Rest(U))[Rest(U)]
  <2> DEFINE R == Rest(U)
  <2>1. R \in SUBSET T /\ R # T /\ R \subseteq R
    BY <1>5, RestFacts
  <2>2. IsSum(H(R), f, R)
    BY <2>1, <1>3
  <2>3. H(R)[R] = IF R = {} THEN 0 ELSE f[Pick(R)] + H(R)[Rest(R)]
    <3> HIDE DEF R, H
    <3> QED
      BY <2>2 DEF IsSum
  <2>4. CASE R = {}
    BY <2>4, <2>1, <2>3
  <2>5. CASE R # {}
    <3> DEFINE Q == Rest(R)
    <3>1. Q \in SUBSET T /\ Q # T /\ Q \subseteq R /\ Q \subseteq Q
      BY <2>1, <2>5, RestFacts
    <3>2. IsSum(H(Q), f, Q)
      BY <3>1, <1>3
    <3>3. IsFiniteSet(R) /\ IsFiniteSet(Q)
      BY <2>1, <3>1, <1>4
    <3>4. H(R)[Q] = H(Q)[Q]
      <4> HIDE DEF R, H, Q
      <4> QED
        BY <2>2, <3>2, <3>3, <3>1, SumUnique
    <3>5. V(R) = f[Pick(R)] + H(Q)[Q]
      BY <2>5
    <3> QED
      BY <2>1, <2>3, <2>5, <3>4, <3>5
  <2> QED
    BY <2>4, <2>5
<1>6. IsSum(g, f, T)
  <2>1. \A U \in SUBSET T : V(U) = IF U = {} THEN 0 ELSE f[Pick(U)] + g[Rest(U)]
    <3> TAKE U \in SUBSET T
    <3>1. CASE U = {}
      BY <3>1
    <3>2. CASE U # {}
      <4>1. g[Rest(U)] = H(Rest(U))[Rest(U)]
        BY <3>2, <1>5
      <4>2. V(U) = f[Pick(U)] + H(Rest(U))[Rest(U)]
        BY <3>2
      <4> HIDE DEF g, V, H
      <4> QED
        BY <3>2, <4>1, <4>2
    <3> QED
      BY <3>1, <3>2
  <2>2. g = [U \in SUBSET T |-> IF U = {} THEN 0 ELSE f[Pick(U)] + g[Rest(U)]]
    <3> HIDE DEF V
    <3> QED
      BY <2>1
  <2> HIDE DEF g
  <2> QED
    BY <2>2 DEF IsSum
<1> HIDE DEF g
<1> QED
  BY <1>6

(* The sum takes one element and adds the sum of the rest.                 *)
LEMMA SumStep ==
    ASSUME NEW f, NEW S, IsFiniteSet(S)
    PROVE  SumFunctionOnSet(f, S) =
               IF S = {} THEN 0
               ELSE f[Pick(S)] + SumFunctionOnSet(f, Rest(S))
<1> DEFINE H(T) == CHOOSE h : IsSum(h, f, T)
<1>1. IsSum(H(S), f, S)
  BY SumExists
<1>2. SumFunctionOnSet(f, S) = H(S)[S]
  BY SumDef
<1>3. H(S)[S] = IF S = {} THEN 0 ELSE f[Pick(S)] + H(S)[Rest(S)]
  <2> HIDE DEF H
  <2> QED
    BY <1>1 DEF IsSum
<1>4. CASE S = {}
  BY <1>2, <1>3, <1>4
<1>5. CASE S # {}
  <2> DEFINE R == Rest(S)
  <2>1. R \subseteq S
    BY <1>5, RestFacts
  <2>2. IsFiniteSet(R)
    BY <2>1, FS_Subset
  <2>3. IsSum(H(R), f, R)
    BY <2>2, SumExists
  <2>4. SumFunctionOnSet(f, R) = H(R)[R]
    BY SumDef
  <2>5. H(S)[R] = H(R)[R]
    <3>1. R \in SUBSET S /\ R \in SUBSET R
      BY <2>1
    <3>2. IsFiniteSet(S)
      OBVIOUS
    <3> DEFINE g == H(S)
               h == H(R)
    <3>3. IsSum(g, f, S) /\ IsSum(h, f, R)
      BY <1>1, <2>3
    <3> HIDE DEF R, H, g, h
    <3>4. g[R] = h[R]
      BY <2>2, <3>1, <3>2, <3>3, SumUnique
    <3> QED
      BY <3>4 DEF g, h
  <2> QED
    BY <1>2, <1>3, <1>5, <2>4, <2>5
<1> QED
  BY <1>4, <1>5

(* Induction along the fold, for a set of good subsets instead of a        *)
(* formula.                                                                *)
LEMMA SubsetInduction ==
    ASSUME NEW S, IsFiniteSet(S), NEW G \in SUBSET (SUBSET S), {} \in G,
           \A T \in SUBSET S : T # {} /\ Rest(T) \in G => T \in G
    PROVE  S \in G
<1> DEFINE B == (SUBSET S) \ G
<1> SUFFICES ASSUME B # {} PROVE FALSE
  OBVIOUS
<1>1. PICK T \in B : \A U \in B : ~(U \subseteq T /\ U # T)
  <2>1. B \in SUBSET (SUBSET S)
    OBVIOUS
  <2> HIDE DEF B
  <2> QED
    BY <2>1, MinimalSet
<1>2. T # {} /\ Rest(T) \in SUBSET S
  BY RestFacts
<1> QED
  BY <1>1, <1>2, RestFacts

(* Nothing adds up to zero.                                                *)
LEMMA SumEmpty ==
    ASSUME NEW f
    PROVE  SumFunctionOnSet(f, {}) = 0
  BY FS_EmptySet, SumStep

(* Integers add up to an integer.                                          *)
LEMMA SumType ==
    ASSUME NEW f, NEW S, IsFiniteSet(S), \A x \in S : f[x] \in Int
    PROVE  SumFunctionOnSet(f, S) \in Int
<1> DEFINE G == {T \in SUBSET S : SumFunctionOnSet(f, T) \in Int}
<1>1. G \in SUBSET (SUBSET S) /\ {} \in G
  BY SumEmpty
<1>2. ASSUME NEW T \in SUBSET S, T # {}, Rest(T) \in G PROVE T \in G
  <2>1. IsFiniteSet(T)
    BY FS_Subset
  <2> QED
    BY <1>2, <2>1, SumStep, RestFacts
<1>3. S \in G
  <2> HIDE DEF G
  <2> QED
    BY <1>1, <1>2, SubsetInduction
<1> QED
  BY <1>3

(* Larger terms, larger sum.                                               *)
LEMMA SumMonotone ==
    ASSUME NEW f, NEW g, NEW S, IsFiniteSet(S),
           \A x \in S : f[x] \in Int /\ g[x] \in Int /\ f[x] <= g[x]
    PROVE  SumFunctionOnSet(f, S) <= SumFunctionOnSet(g, S)
<1> DEFINE G == {T \in SUBSET S : SumFunctionOnSet(f, T) <= SumFunctionOnSet(g, T)}
<1>1. G \in SUBSET (SUBSET S) /\ {} \in G
  BY SumEmpty
<1>2. ASSUME NEW T \in SUBSET S, T # {}, Rest(T) \in G PROVE T \in G
  <2>1. IsFiniteSet(T) /\ IsFiniteSet(Rest(T)) /\ Pick(T) \in S
    BY <1>2, FS_Subset, RestFacts
  <2>2. SumFunctionOnSet(f, Rest(T)) \in Int /\ SumFunctionOnSet(g, Rest(T)) \in Int
    <3>1. Rest(T) \subseteq S
      BY <1>2, RestFacts
    <3> QED
      BY <2>1, <3>1, SumType
  <2> QED
    BY <1>2, <2>1, <2>2, SumStep
<1>3. S \in G
  <2> HIDE DEF G
  <2> QED
    BY <1>1, <1>2, SubsetInduction
<1> QED
  BY <1>3

(* The sum depends on the terms alone.                                     *)
LEMMA SumSame ==
    ASSUME NEW f, NEW g, NEW S, IsFiniteSet(S), \A x \in S : f[x] = g[x]
    PROVE  SumFunctionOnSet(f, S) = SumFunctionOnSet(g, S)
<1> DEFINE G == {T \in SUBSET S : SumFunctionOnSet(f, T) = SumFunctionOnSet(g, T)}
<1>1. G \in SUBSET (SUBSET S) /\ {} \in G
  BY SumEmpty
<1>2. ASSUME NEW T \in SUBSET S, T # {}, Rest(T) \in G PROVE T \in G
  <2>1. IsFiniteSet(T) /\ Pick(T) \in S
    BY <1>2, FS_Subset, RestFacts
  <2> QED
    BY <1>2, <2>1, SumStep
<1>3. S \in G
  <2> HIDE DEF G
  <2> QED
    BY <1>1, <1>2, SubsetInduction
<1> QED
  BY <1>3

(* A change of one term changes the sum by as much: the order in which the *)
(* fold takes the elements does not matter.                                *)
LEMMA SumPoint ==
    ASSUME NEW f, NEW g, NEW S, IsFiniteSet(S), NEW x \in S,
           \A y \in S : f[y] \in Int,
           g[x] \in Int, \A y \in S : y # x => g[y] = f[y]
    PROVE  SumFunctionOnSet(g, S) = SumFunctionOnSet(f, S) + g[x] - f[x]
<1> DEFINE G == {T \in SUBSET S : x \in T =>
                    SumFunctionOnSet(g, T) = SumFunctionOnSet(f, T) + g[x] - f[x]}
<1>1. G \in SUBSET (SUBSET S) /\ {} \in G
  OBVIOUS
<1>2. ASSUME NEW T \in SUBSET S, T # {}, Rest(T) \in G PROVE T \in G
  <2> SUFFICES ASSUME x \in T
               PROVE  SumFunctionOnSet(g, T) = SumFunctionOnSet(f, T) + g[x] - f[x]
    OBVIOUS
  <2> DEFINE R == Rest(T)
  <2>1. IsFiniteSet(T) /\ IsFiniteSet(R) /\ Pick(T) \in S /\ R \in SUBSET S
    BY <1>2, FS_Subset, RestFacts
  <2>2. SumFunctionOnSet(f, R) \in Int
    <3> HIDE DEF R
    <3> QED
      BY <2>1, SumType
  <2>3. /\ SumFunctionOnSet(f, T) = f[Pick(T)] + SumFunctionOnSet(f, R)
        /\ SumFunctionOnSet(g, T) = g[Pick(T)] + SumFunctionOnSet(g, R)
    BY <1>2, <2>1, SumStep
  <2>4. CASE Pick(T) = x
    <3>1. \A y \in R : f[y] = g[y]
      BY <2>1, <2>4 DEF Rest
    <3>2. SumFunctionOnSet(f, R) = SumFunctionOnSet(g, R)
      <4> HIDE DEF R
      <4> QED
        BY <2>1, <3>1, SumSame
    <3> HIDE DEF R
    <3> QED
      BY <2>2, <2>3, <2>4, <3>2
  <2>5. CASE Pick(T) # x
    <3>1. x \in R
      BY <2>5 DEF Rest
    <3>2. SumFunctionOnSet(g, R) = SumFunctionOnSet(f, R) + g[x] - f[x]
      BY <1>2, <3>1
    <3>3. g[Pick(T)] = f[Pick(T)]
      BY <2>1, <2>5
    <3> HIDE DEF R, G
    <3> QED
      BY <2>1, <2>2, <2>3, <3>2, <3>3
  <2> QED
    BY <2>4, <2>5
<1>3. S \in G
  <2> HIDE DEF G
  <2> QED
    BY <1>1, <1>2, SubsetInduction
<1> QED
  BY <1>3

(* Zeros add up to zero.                                                   *)
LEMMA SumOfZeros ==
    ASSUME NEW f, NEW S, IsFiniteSet(S), \A x \in S : f[x] = 0
    PROVE  SumFunctionOnSet(f, S) = 0
<1> DEFINE G == {T \in SUBSET S : SumFunctionOnSet(f, T) = 0}
<1>1. G \in SUBSET (SUBSET S) /\ {} \in G
  BY SumEmpty
<1>2. ASSUME NEW T \in SUBSET S, T # {}, Rest(T) \in G PROVE T \in G
  <2>1. IsFiniteSet(T) /\ Pick(T) \in S
    BY <1>2, FS_Subset, RestFacts
  <2> QED
    BY <1>2, <2>1, SumStep
<1>3. S \in G
  <2> HIDE DEF G
  <2> QED
    BY <1>1, <1>2, SubsetInduction
<1> QED
  BY <1>3

(* Naturals add up to a natural.                                           *)
LEMMA SumOfNaturals ==
    ASSUME NEW f, NEW S, IsFiniteSet(S), \A x \in S : f[x] \in Nat
    PROVE  SumFunctionOnSet(f, S) \in Nat
<1> DEFINE zero == [x \in S |-> 0]
<1>1. SumFunctionOnSet(zero, S) = 0
  BY SumOfZeros
<1>2. SumFunctionOnSet(zero, S) <= SumFunctionOnSet(f, S)
  BY SumMonotone
<1>3. SumFunctionOnSet(f, S) \in Int
  BY SumType
<1> QED
  BY <1>1, <1>2, <1>3

(* Any element may be taken first.  Of the sets where that fails for some  *)
(* element a minimal one would lose its first element to the fold, and it  *)
(* holds of what is left.                                                  *)
LEMMA SumRemove ==
    ASSUME NEW f, NEW S, IsFiniteSet(S), \A y \in S : f[y] \in Int, NEW x \in S
    PROVE  SumFunctionOnSet(f, S) = f[x] + SumFunctionOnSet(f, S \ {x})
<1> DEFINE Good(T) == \A y \in T :
                          SumFunctionOnSet(f, T) = f[y] + SumFunctionOnSet(f, T \ {y})
           B == {T \in SUBSET S : ~Good(T)}
<1>1. SUFFICES B = {}
  BY <1>1
<1>2. SUFFICES ASSUME B # {} PROVE FALSE
  OBVIOUS
<1>3. B \in SUBSET (SUBSET S)
  OBVIOUS
<1>4. PICK T \in B : \A U \in B : ~(U \subseteq T /\ U # T)
  <2> HIDE DEF B
  <2> QED
    BY <1>2, <1>3, MinimalSet
<1>5. \A U \in SUBSET S : U \subseteq T /\ U # T => Good(U)
  BY <1>4
<1>6. PICK y \in T : SumFunctionOnSet(f, T) # f[y] + SumFunctionOnSet(f, T \ {y})
  BY <1>4
<1> DEFINE p == Pick(T)
<1>7. /\ T \subseteq S /\ IsFiniteSet(T) /\ p \in T /\ p \in S /\ y \in S
      /\ SumFunctionOnSet(f, T) = f[p] + SumFunctionOnSet(f, T \ {p})
  <2>1. T \subseteq S /\ IsFiniteSet(T) /\ T # {}
    BY <1>4, <1>6, FS_Subset
  <2> QED
    BY <2>1, <1>6, RestFacts, SumStep DEF Rest
<1> HIDE DEF p, B
<1>8. p # y
  BY <1>6, <1>7
<1>9. SumFunctionOnSet(f, T \ {p}) = f[y] + SumFunctionOnSet(f, (T \ {p}) \ {y})
  BY <1>5, <1>7, <1>8
<1>10. SumFunctionOnSet(f, T \ {y}) = f[p] + SumFunctionOnSet(f, (T \ {y}) \ {p})
  BY <1>5, <1>6, <1>7, <1>8
<1>11. (T \ {p}) \ {y} = (T \ {y}) \ {p}
  OBVIOUS
<1>12. SumFunctionOnSet(f, (T \ {p}) \ {y}) \in Int
  <2>1. IsFiniteSet((T \ {p}) \ {y})
    BY <1>7, FS_Subset
  <2> QED
    BY <1>7, <2>1, SumType
<1>13. f[p] \in Int /\ f[y] \in Int
  BY <1>7
<1>14. \A a, b, r \in Int : a + (b + r) = b + (a + r)
  OBVIOUS
<1>15. SumFunctionOnSet(f, T) = f[p] + (f[y] + SumFunctionOnSet(f, (T \ {p}) \ {y}))
  BY <1>7, <1>9, Zenon
<1>16. f[y] + SumFunctionOnSet(f, T \ {y}) = f[y] + (f[p] + SumFunctionOnSet(f, (T \ {p}) \ {y}))
  BY <1>10, <1>11, Zenon
<1> QED
  BY <1>6, <1>12, <1>13, <1>14, <1>15, <1>16, Zenon

(* A finite family of finite sets has no more members together than the    *)
(* terms that bound each of them.                                          *)
LEMMA UnionBound ==
    ASSUME NEW P, NEW f, NEW S, IsFiniteSet(S),
           \A x \in S : IsFiniteSet(P[x]) /\ f[x] \in Int /\ Cardinality(P[x]) <= f[x]
    PROVE  /\ IsFiniteSet(UNION {P[x] : x \in S})
           /\ Cardinality(UNION {P[x] : x \in S}) <= SumFunctionOnSet(f, S)
<1> DEFINE All(T) == UNION {P[x] : x \in T}
           G == {T \in SUBSET S : IsFiniteSet(All(T)) /\ Cardinality(All(T)) <= SumFunctionOnSet(f, T)}
<1>1. G \in SUBSET (SUBSET S) /\ {} \in G
  <2>1. All({}) = {}
    OBVIOUS
  <2>2. IsFiniteSet(All({})) /\ Cardinality(All({})) = 0
    BY <2>1, FS_EmptySet
  <2> QED
    BY <2>2, SumEmpty
<1>2. ASSUME NEW T \in SUBSET S, T # {}, Rest(T) \in G PROVE T \in G
  <2> DEFINE p == Pick(T)
             U == Rest(T)
  <2>1. IsFiniteSet(T) /\ IsFiniteSet(U) /\ p \in S /\ U \subseteq S
    BY <1>2, FS_Subset, RestFacts
  <2>2. SumFunctionOnSet(f, T) = f[p] + SumFunctionOnSet(f, U)
    BY <1>2, <2>1, SumStep
  <2>3. All(T) = P[p] \cup All(U)
    <3>1. T = {p} \cup U
      BY <1>2, RestFacts DEF Rest
    <3> HIDE DEF U, p
    <3> QED
      BY <3>1
  <2>4. IsFiniteSet(All(U)) /\ Cardinality(All(U)) <= SumFunctionOnSet(f, U)
    BY <1>2
  <2>5. SumFunctionOnSet(f, U) \in Int
    BY <2>1, SumType
  <2>6. IsFiniteSet(P[p]) /\ f[p] \in Int /\ Cardinality(P[p]) <= f[p]
    BY <2>1
  <2> HIDE DEF All, U, p
  <2>7. /\ IsFiniteSet(P[p] \cup All(U))
        /\ Cardinality(P[p] \cup All(U)) <= Cardinality(P[p]) + Cardinality(All(U))
    <3>1. /\ IsFiniteSet(P[p] \cup All(U)) /\ IsFiniteSet(P[p] \cap All(U))
          /\ Cardinality(P[p] \cup All(U)) =
                Cardinality(P[p]) + Cardinality(All(U)) - Cardinality(P[p] \cap All(U))
      BY <2>4, <2>6, FS_Union, FS_Subset
    <3>2. /\ Cardinality(P[p]) \in Nat /\ Cardinality(All(U)) \in Nat
          /\ Cardinality(P[p] \cap All(U)) \in Nat
      BY <3>1, <2>4, <2>6, FS_CardinalityType
    <3> QED
      BY <3>1, <3>2
  <2>8. /\ Cardinality(P[p]) \in Nat /\ Cardinality(All(U)) \in Nat
        /\ Cardinality(P[p] \cup All(U)) \in Nat
    BY <2>4, <2>6, <2>7, FS_CardinalityType
  <2>9. IsFiniteSet(All(T)) /\ Cardinality(All(T)) <= SumFunctionOnSet(f, T)
    BY <2>2, <2>3, <2>4, <2>5, <2>6, <2>7, <2>8
  <2> QED
    BY <2>9
<1>3. S \in G
  <2> HIDE DEF G
  <2> QED
    BY <1>1, <1>2, SubsetInduction
<1> QED
  BY <1>3
=============================================================================
