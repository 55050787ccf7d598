------------------------------- MODULE FiniteSums -------------------------------
(***************************************************************************)
(* Sums over finite sets, for proofs: what SumFunctionOnSet of the module    *)
(* Functions computes does not depend on the order in which it takes the     *)
(* elements.  The library's own facts about folds take operators, so each    *)
(* fact is proved here for sums of functions; where an induction would be    *)
(* used, a smallest counterexample is taken and refuted. In the same way a   *)
(* recursion over 0..N is shown to have the values its steps give it.        *)
(***************************************************************************)
EXTENDS Integers, FiniteSets, Functions, FiniteSetTheorems, WellFoundedInduction, TLAPS

\* The element a sum takes first.
First(S) == CHOOSE x \in S : TRUE

\* g tabulates the sums of f over the subsets of S.
Tabulates(g, f, S) ==
  g = [s \in SUBSET S |-> IF s = {} THEN 0 ELSE f[First(s)] + g[s \ {First(s)}]]

\* SumFunctionOnSet reads the table of its recursive definition.
LEMMA SumUnfold ==
  ASSUME NEW f, NEW S
  PROVE  SumFunctionOnSet(f, S) = (CHOOSE g : Tabulates(g, f, S))[S]
BY DEF SumFunctionOnSet, FoldFunctionOnSet, MapThenFoldSet, Tabulates, First

\* A nonempty set has a first element.
LEMMA FirstIn == ASSUME NEW S, S # {} PROVE First(S) \in S
BY DEF First

\* Among subsets of a finite set some are smallest.
LEMMA SmallestSubset ==
  ASSUME NEW S, IsFiniteSet(S), NEW C, C \subseteq SUBSET S, C # {}
  PROVE  \E A \in C : \A B \in SUBSET A : B # A => B \notin C
<1>1. IsWellFoundedOn(StrictSubsetOrdering(S), SUBSET S)
  BY FS_StrictSubsetOrderingWellFounded, FS_FiniteSubsetsOfFinite
<1>2. PICK A \in C : \A B \in C : ~(<<B, A>> \in StrictSubsetOrdering(S))
  BY <1>1, WFMin
<1>3. ASSUME NEW B \in SUBSET A, B # A, B \in C PROVE FALSE
  <2>1. B \in SUBSET S /\ A \in SUBSET S OBVIOUS
  <2>2. <<B, A>> \in StrictSubsetOrdering(S) BY <1>3, <2>1 DEF StrictSubsetOrdering
  <2> QED BY <1>2, <1>3, <2>2
<1> QED BY <1>3

\* Two tables agree on the sets they both hold.
LEMMA TablesAgree ==
  ASSUME NEW f, NEW S, IsFiniteSet(S), NEW T, NEW g, NEW h,
         Tabulates(g, f, S), Tabulates(h, f, T), NEW U \in SUBSET S, U \in SUBSET T
  PROVE  g[U] = h[U]
<1> SUFFICES ASSUME g[U] # h[U] PROVE FALSE OBVIOUS
<1> DEFINE C == {V \in SUBSET S : V \in SUBSET T /\ g[V] # h[V]}
<1>1. PICK V \in C : \A W \in SUBSET V : W # V => W \notin C
  <2>1. C \subseteq SUBSET S /\ U \in C OBVIOUS
  <2> HIDE DEF C
  <2> QED BY <2>1, SmallestSubset
<1>2. g[V] = IF V = {} THEN 0 ELSE f[First(V)] + g[V \ {First(V)}]
  <2>1. V \in SUBSET S OBVIOUS
  <2> HIDE DEF C
  <2> QED BY <2>1 DEF Tabulates
<1>3. h[V] = IF V = {} THEN 0 ELSE f[First(V)] + h[V \ {First(V)}]
  <2>1. V \in SUBSET T OBVIOUS
  <2> HIDE DEF C
  <2> QED BY <2>1 DEF Tabulates
<1>4. V # {} BY <1>2, <1>3
<1>5. V \ {First(V)} # V /\ V \ {First(V)} \in SUBSET V BY <1>4, FirstIn
<1>6. g[V \ {First(V)}] = h[V \ {First(V)}] BY <1>1, <1>5
<1> QED BY <1>2, <1>3, <1>6

\* Every finite set has a table.
LEMMA TableExists ==
  ASSUME NEW f, NEW S, IsFiniteSet(S)
  PROVE  \E g : Tabulates(g, f, S)
<1> SUFFICES ASSUME ~\E g : Tabulates(g, f, S) PROVE FALSE OBVIOUS
<1> DEFINE C == {V \in SUBSET S : ~\E g : Tabulates(g, f, V)}
<1>1. PICK V \in C : \A W \in SUBSET V : W # V => W \notin C
  <2>1. C \subseteq SUBSET S /\ S \in C OBVIOUS
  <2> HIDE DEF C
  <2> QED BY <2>1, SmallestSubset
<1>2. V \in SUBSET S /\ \A W \in SUBSET V : W # V => \E g : Tabulates(g, f, W)
  BY <1>1
<1> HIDE DEF C
<1> DEFINE Table(W) == CHOOSE g : Tabulates(g, f, W)
           total(W) == IF W = {} THEN 0 ELSE f[First(W)] + Table(W \ {First(W)})[W \ {First(W)}]
           g == [W \in SUBSET V |-> total(W)]
<1>3. \A W \in SUBSET V : W # V => Tabulates(Table(W), f, W)
  BY <1>2
<1>4. \A W \in SUBSET V : IsFiniteSet(W) BY <1>2, FS_Subset
<1>5. ASSUME NEW W \in SUBSET V, W # {}
      PROVE  /\ W \ {First(W)} \in SUBSET V /\ W \ {First(W)} # V
             /\ First(W) \in W
  BY <1>5, FirstIn
<1>6. ASSUME NEW W \in SUBSET V, W # V PROVE Table(W)[W] = total(W)
  <2>1. Tabulates(Table(W), f, W) BY <1>3, <1>6
  <2> HIDE DEF Table
  <2>2. Table(W)[W] = IF W = {} THEN 0 ELSE f[First(W)] + Table(W)[W \ {First(W)}]
    BY <2>1 DEF Tabulates
  <2>3. CASE W = {} BY <2>2, <2>3
  <2>4. CASE W # {}
    <3>1. Tabulates(Table(W \ {First(W)}), f, W \ {First(W)})
      BY <1>3, <1>5, <2>4
    <3>2. Table(W)[W \ {First(W)}] = Table(W \ {First(W)})[W \ {First(W)}]
      BY <1>4, <2>1, <3>1, TablesAgree
    <3> QED BY <2>2, <2>4, <3>2
  <2> QED BY <2>3, <2>4
<1> HIDE DEF Table
<1>7. ASSUME NEW W \in SUBSET V
      PROVE  total(W) = IF W = {} THEN 0 ELSE f[First(W)] + g[W \ {First(W)}]
  <2>1. CASE W = {} BY <2>1
  <2>2. CASE W # {}
    <3> DEFINE R == W \ {First(W)}
    <3>1. R \in SUBSET V /\ R # V BY <1>5, <2>2
    <3>2. g[R] = total(R) BY <3>1
    <3>3. Table(R)[R] = total(R) BY <1>6, <3>1
    <3>4. total(W) = f[First(W)] + Table(R)[R] BY <2>2
    <3> HIDE DEF R, g, total
    <3>5. total(W) = f[First(W)] + g[R] BY <3>2, <3>3, <3>4
    <3> QED BY <2>2, <3>5 DEF R
  <2> QED BY <2>1, <2>2
<1>8. Tabulates(g, f, V)
  <2>1. g = [W \in SUBSET V |-> IF W = {} THEN 0 ELSE f[First(W)] + g[W \ {First(W)}]]
    <3>1. g = [W \in SUBSET V |-> total(W)] OBVIOUS
    <3> HIDE DEF total, g
    <3> QED BY <1>7, <3>1
  <2> HIDE DEF g
  <2> QED BY <2>1 DEF Tabulates
<1> QED BY <1>1, <1>8 DEF C

\* The recursive equation of a sum.
LEMMA SumStep ==
  ASSUME NEW f, NEW S, IsFiniteSet(S), S # {}
  PROVE  SumFunctionOnSet(f, S) = f[First(S)] + SumFunctionOnSet(f, S \ {First(S)})
<1> DEFINE R == S \ {First(S)}
           g == CHOOSE h : Tabulates(h, f, S)
           k == CHOOSE h : Tabulates(h, f, R)
<1>1. R \in SUBSET S /\ IsFiniteSet(R) BY FS_Subset
<1> HIDE DEF R
<1>2. Tabulates(g, f, S) /\ Tabulates(k, f, R) BY <1>1, TableExists
<1>3. SumFunctionOnSet(f, S) = g[S] /\ SumFunctionOnSet(f, R) = k[R] BY SumUnfold
<1> HIDE DEF g, k
<1>4. g[S] = f[First(S)] + g[R] BY <1>2 DEF Tabulates, R
<1>5. g[R] = k[R] BY <1>1, <1>2, TablesAgree
<1> QED BY <1>3, <1>4, <1>5 DEF R

\* The sum over no element.
LEMMA SumEmpty ==
  ASSUME NEW f
  PROVE  SumFunctionOnSet(f, {}) = 0
<1> DEFINE g == CHOOSE h : Tabulates(h, f, {})
<1>1. Tabulates(g, f, {}) BY FS_EmptySet, TableExists
<1>2. SumFunctionOnSet(f, {}) = g[{}] BY SumUnfold
<1> HIDE DEF g
<1> QED BY <1>1, <1>2 DEF Tabulates

\* A sum depends on the values at the elements alone.
LEMMA SumSame ==
  ASSUME NEW f, NEW g, NEW S, IsFiniteSet(S), \A x \in S : f[x] = g[x]
  PROVE  SumFunctionOnSet(f, S) = SumFunctionOnSet(g, S)
<1> SUFFICES ASSUME SumFunctionOnSet(f, S) # SumFunctionOnSet(g, S) PROVE FALSE OBVIOUS
<1> DEFINE C == {V \in SUBSET S : SumFunctionOnSet(f, V) # SumFunctionOnSet(g, V)}
<1>1. PICK V \in C : \A W \in SUBSET V : W # V => W \notin C
  <2>1. C \subseteq SUBSET S /\ S \in C OBVIOUS
  <2> HIDE DEF C
  <2> QED BY <2>1, SmallestSubset
<1>2. V \in SUBSET S /\ IsFiniteSet(V) /\ V # {} BY FS_Subset, SumEmpty
<1>3. First(V) \in V /\ V \ {First(V)} \in SUBSET V /\ V \ {First(V)} # V
  BY <1>2, FirstIn
<1>4. SumFunctionOnSet(f, V \ {First(V)}) = SumFunctionOnSet(g, V \ {First(V)})
  BY <1>1, <1>2, <1>3
<1>5. f[First(V)] = g[First(V)] BY <1>2, <1>3
<1>6. SumFunctionOnSet(f, V) = SumFunctionOnSet(g, V)
  BY <1>2, <1>4, <1>5, SumStep
<1> QED BY <1>6

\* The sum of integers is one.
LEMMA SumInt ==
  ASSUME NEW f, NEW S, IsFiniteSet(S), \A x \in S : f[x] \in Int
  PROVE  SumFunctionOnSet(f, S) \in Int
<1> SUFFICES ASSUME SumFunctionOnSet(f, S) \notin Int PROVE FALSE OBVIOUS
<1> DEFINE C == {V \in SUBSET S : SumFunctionOnSet(f, V) \notin Int}
<1>1. PICK V \in C : \A W \in SUBSET V : W # V => W \notin C
  <2>1. C \subseteq SUBSET S /\ S \in C OBVIOUS
  <2> HIDE DEF C
  <2> QED BY <2>1, SmallestSubset
<1>2. V \in SUBSET S /\ IsFiniteSet(V) /\ V # {}
  <2>1. SumFunctionOnSet(f, {}) \in Int BY SumEmpty
  <2>2. V # {} BY <2>1
  <2> QED BY <2>2, FS_Subset
<1>3. First(V) \in V /\ V \ {First(V)} \in SUBSET V /\ V \ {First(V)} # V
  BY <1>2, FirstIn
<1>4. SumFunctionOnSet(f, V \ {First(V)}) \in Int BY <1>1, <1>2, <1>3
<1>5. SumFunctionOnSet(f, V) \in Int BY <1>2, <1>3, <1>4, SumStep
<1> QED BY <1>5

\* Any element may be taken out of a sum first.
LEMMA SumRemove ==
  ASSUME NEW f, NEW S, IsFiniteSet(S), \A x \in S : f[x] \in Int, NEW x \in S
  PROVE  SumFunctionOnSet(f, S) = f[x] + SumFunctionOnSet(f, S \ {x})
<1> DEFINE Takes(V, z) == SumFunctionOnSet(f, V) = f[z] + SumFunctionOnSet(f, V \ {z})
           C == {V \in SUBSET S : \E z \in V : ~Takes(V, z)}
<1> SUFFICES ASSUME ~Takes(S, x) PROVE FALSE OBVIOUS
<1>1. PICK V \in C : \A W \in SUBSET V : W # V => W \notin C
  <2>1. C \subseteq SUBSET S /\ S \in C OBVIOUS
  <2> HIDE DEF C
  <2> QED BY <2>1, SmallestSubset
<1>2. V \in SUBSET S /\ \E z \in V : ~Takes(V, z) OBVIOUS
<1>3. PICK z \in V : ~Takes(V, z) BY <1>2
<1>4. \A W \in SUBSET V : W # V => \A w \in W : Takes(W, w) BY <1>1, <1>2
<1> HIDE DEF C
<1> DEFINE y == First(V)
           A == V \ {z}
           B == V \ {y}
           D == V \ {y, z}
<1>5. y \in V /\ IsFiniteSet(V) BY <1>2, <1>3, FirstIn, FS_Subset
<1>6. Takes(V, y) BY <1>3, <1>5, SumStep
<1>7. y # z BY <1>3, <1>6
<1> HIDE DEF y
<1>8. Takes(A, y) /\ Takes(B, z)
  <2>1. A \in SUBSET V /\ A # V /\ y \in A BY <1>5, <1>7
  <2>2. B \in SUBSET V /\ B # V /\ z \in B BY <1>5, <1>7
  <2> QED BY <1>4, <2>1, <2>2
<1>9. A \ {y} = D /\ B \ {z} = D OBVIOUS
<1>10. IsFiniteSet(D) /\ \A w \in D : f[w] \in Int BY <1>2, <1>5, FS_Subset
<1>11. f[y] \in Int /\ f[z] \in Int /\ SumFunctionOnSet(f, D) \in Int
  <2>1. f[y] \in Int /\ f[z] \in Int BY <1>2, <1>5
  <2> HIDE DEF D
  <2> QED BY <1>10, <2>1, SumInt
<1>12. /\ SumFunctionOnSet(f, V) = f[y] + (f[z] + SumFunctionOnSet(f, D))
       /\ SumFunctionOnSet(f, A) = f[y] + SumFunctionOnSet(f, D)
  BY <1>6, <1>8, <1>9
<1>13. SumFunctionOnSet(f, V) = f[z] + SumFunctionOnSet(f, A)
  <2> HIDE DEF A, D
  <2> QED BY <1>11, <1>12
<1> QED BY <1>3, <1>13

\* An element may be added to a sum.
LEMMA SumAdd ==
  ASSUME NEW f, NEW S, IsFiniteSet(S), NEW x, x \notin S,
         \A y \in S \cup {x} : f[y] \in Int
  PROVE  SumFunctionOnSet(f, S \cup {x}) = SumFunctionOnSet(f, S) + f[x]
<1>1. IsFiniteSet(S \cup {x}) BY FS_AddElement
<1>2. (S \cup {x}) \ {x} = S OBVIOUS
<1>3. SumFunctionOnSet(f, S) \in Int /\ f[x] \in Int BY SumInt
<1> DEFINE T == S \cup {x}
<1>4. SumFunctionOnSet(f, T) = f[x] + SumFunctionOnSet(f, T \ {x})
  BY <1>1, SumRemove
<1>5. SumFunctionOnSet(f, T) = f[x] + SumFunctionOnSet(f, S) BY <1>2, <1>4
<1> HIDE DEF T
<1>6. SumFunctionOnSet(f, T) = SumFunctionOnSet(f, S) + f[x] BY <1>3, <1>5
<1> QED BY <1>6 DEF T

\* A sum grows by what is added to one of its terms.
LEMMA SumChange ==
  ASSUME NEW f, NEW g, NEW S, IsFiniteSet(S), NEW x \in S,
         \A y \in S : f[y] \in Int /\ g[y] \in Int,
         \A y \in S \ {x} : g[y] = f[y]
  PROVE  SumFunctionOnSet(g, S) = SumFunctionOnSet(f, S) + g[x] - f[x]
<1> DEFINE R == S \ {x}
<1>1. IsFiniteSet(R) /\ \A y \in R : f[y] \in Int /\ g[y] = f[y] BY FS_RemoveElement
<1>2. /\ SumFunctionOnSet(f, S) = f[x] + SumFunctionOnSet(f, R)
      /\ SumFunctionOnSet(g, S) = g[x] + SumFunctionOnSet(g, R)
  BY SumRemove
<1> HIDE DEF R
<1>3. SumFunctionOnSet(f, R) \in Int BY <1>1, SumInt
<1>4. SumFunctionOnSet(g, R) = SumFunctionOnSet(f, R) BY <1>1, SumSame
<1> QED BY <1>2, <1>3, <1>4

\* Larger terms make no smaller sum.
LEMMA SumMonotone ==
  ASSUME NEW f, NEW g, NEW S, IsFiniteSet(S),
         \A x \in S : f[x] \in Int /\ g[x] \in Int /\ f[x] <= g[x]
  PROVE  SumFunctionOnSet(f, S) <= SumFunctionOnSet(g, S)
<1> DEFINE F(V) == SumFunctionOnSet(f, V)
           G(V) == SumFunctionOnSet(g, V)
           C == {V \in SUBSET S : ~(F(V) <= G(V))}
<1> SUFFICES ASSUME ~(F(S) <= G(S)) PROVE FALSE OBVIOUS
<1>1. PICK V \in C : \A W \in SUBSET V : W # V => W \notin C
  <2>1. C \subseteq SUBSET S /\ S \in C OBVIOUS
  <2> HIDE DEF C
  <2> QED BY <2>1, SmallestSubset
<1>2. V \in SUBSET S /\ ~(F(V) <= G(V)) OBVIOUS
<1>3. \A W \in SUBSET V : W # V => F(W) <= G(W) BY <1>1, <1>2
<1> HIDE DEF C
<1>4. IsFiniteSet(V) BY <1>2, FS_Subset
<1>5. V # {}
  <2>1. F({}) = 0 /\ G({}) = 0 BY SumEmpty
  <2> HIDE DEF F, G
  <2> QED BY <1>2, <2>1
<1> DEFINE x == First(V)
           R == V \ {x}
<1>6. x \in V /\ R \in SUBSET V /\ R # V BY <1>5, FirstIn
<1>7. F(V) = f[x] + F(R) /\ G(V) = g[x] + G(R) BY <1>4, <1>5, SumStep
<1> HIDE DEF x
<1>8. IsFiniteSet(R) /\ \A y \in R : f[y] \in Int /\ g[y] \in Int BY <1>2, <1>4, FS_Subset
<1> HIDE DEF R
<1>9. F(R) \in Int /\ G(R) \in Int BY <1>8, SumInt
<1>10. f[x] \in Int /\ g[x] \in Int /\ f[x] <= g[x] BY <1>2, <1>6
<1>11. F(R) <= G(R) BY <1>3, <1>6
<1> HIDE DEF F, G
<1> QED BY <1>2, <1>7, <1>9, <1>10, <1>11

\* A sum of terms that are not negative is not negative.
LEMMA SumNat ==
  ASSUME NEW f, NEW S, IsFiniteSet(S), \A x \in S : f[x] \in Nat
  PROVE  SumFunctionOnSet(f, S) \in Nat
<1> SUFFICES ASSUME SumFunctionOnSet(f, S) \notin Nat PROVE FALSE OBVIOUS
<1> DEFINE C == {V \in SUBSET S : SumFunctionOnSet(f, V) \notin Nat}
<1>1. PICK V \in C : \A W \in SUBSET V : W # V => W \notin C
  <2>1. C \subseteq SUBSET S /\ S \in C OBVIOUS
  <2> HIDE DEF C
  <2> QED BY <2>1, SmallestSubset
<1>2. V \in SUBSET S /\ IsFiniteSet(V) /\ V # {}
  <2>1. SumFunctionOnSet(f, {}) \in Nat BY SumEmpty
  <2>2. V # {} BY <2>1
  <2> QED BY <2>2, FS_Subset
<1>3. First(V) \in V /\ V \ {First(V)} \in SUBSET V /\ V \ {First(V)} # V
  BY <1>2, FirstIn
<1>4. SumFunctionOnSet(f, V \ {First(V)}) \in Nat BY <1>1, <1>2, <1>3
<1>5. SumFunctionOnSet(f, V) \in Nat BY <1>2, <1>3, <1>4, SumStep
<1> QED BY <1>5

\* Part of a sum of terms that are not negative is no more than the whole.
LEMMA SumSubset ==
  ASSUME NEW f, NEW S, IsFiniteSet(S), \A x \in S : f[x] \in Nat, NEW T \in SUBSET S
  PROVE  SumFunctionOnSet(f, T) <= SumFunctionOnSet(f, S)
<1> DEFINE F(V) == SumFunctionOnSet(f, V)
           C == {V \in SUBSET S : \E U \in SUBSET V : ~(F(U) <= F(V))}
<1> SUFFICES ASSUME ~(F(T) <= F(S)) PROVE FALSE OBVIOUS
<1>1. PICK V \in C : \A W \in SUBSET V : W # V => W \notin C
  <2>1. C \subseteq SUBSET S /\ S \in C OBVIOUS
  <2> HIDE DEF C
  <2> QED BY <2>1, SmallestSubset
<1>2. V \in SUBSET S /\ \E U \in SUBSET V : ~(F(U) <= F(V)) OBVIOUS
<1>3. PICK U \in SUBSET V : ~(F(U) <= F(V)) BY <1>2
<1>4. \A W \in SUBSET V : W # V => \A X \in SUBSET W : F(X) <= F(W) BY <1>1, <1>2
<1> HIDE DEF C
<1>5. IsFiniteSet(V) /\ IsFiniteSet(U) BY <1>2, <1>3, FS_Subset
<1>6. F(V) \in Nat BY <1>2, <1>5, SumNat
<1>7. PICK x \in V : x \notin U
  <2>1. U # V
    <3> HIDE DEF F
    <3> QED BY <1>3, <1>6
  <2> QED BY <2>1
<1> DEFINE R == V \ {x}
<1>8. F(V) = f[x] + F(R) BY <1>2, <1>5, SumRemove
<1>9. F(U) <= F(R) BY <1>4, <1>7
<1>10. f[x] \in Nat /\ F(R) \in Nat /\ F(U) \in Nat
  <2>1. IsFiniteSet(R) /\ \A y \in R : f[y] \in Nat BY <1>2, <1>5, FS_Subset
  <2>2. \A y \in U : f[y] \in Nat BY <1>2
  <2> HIDE DEF R
  <2> QED BY <1>2, <1>5, <2>1, <2>2, SumNat
<1> HIDE DEF F, R
<1> QED BY <1>3, <1>8, <1>9, <1>10

-------------------------------------------------------------------------------
(* The same of SumFunction, which sums over a function's domain.             *)

\* The sum of no values.
LEMMA TotalEmpty ==
  ASSUME NEW f, DOMAIN f = {}
  PROVE  SumFunction(f) = 0
BY SumEmpty DEF SumFunction

\* The sum of finitely many integers is one.
LEMMA TotalInt ==
  ASSUME NEW f, IsFiniteSet(DOMAIN f), \A x \in DOMAIN f : f[x] \in Int
  PROVE  SumFunction(f) \in Int
BY SumInt DEF SumFunction

\* The sum of finitely many naturals is one.
LEMMA TotalNat ==
  ASSUME NEW f, IsFiniteSet(DOMAIN f), \A x \in DOMAIN f : f[x] \in Nat
  PROVE  SumFunction(f) \in Nat
BY SumNat DEF SumFunction

\* One more value is added to the sum.
LEMMA TotalAdd ==
  ASSUME NEW f, NEW g, NEW x, IsFiniteSet(DOMAIN f), x \notin DOMAIN f,
         DOMAIN g = DOMAIN f \cup {x}, g[x] \in Int,
         \A y \in DOMAIN f : f[y] \in Int /\ g[y] = f[y]
  PROVE  SumFunction(g) = SumFunction(f) + g[x]
<1>1. SumFunctionOnSet(g, DOMAIN f \cup {x}) = SumFunctionOnSet(g, DOMAIN f) + g[x]
  BY SumAdd
<1>2. SumFunctionOnSet(g, DOMAIN f) = SumFunctionOnSet(f, DOMAIN f)
  BY SumSame
<1> QED BY <1>1, <1>2 DEF SumFunction

\* Some of the values sum up to no more than all of them.
LEMMA TotalPart ==
  ASSUME NEW f, NEW g, IsFiniteSet(DOMAIN g), DOMAIN f \subseteq DOMAIN g,
         \A y \in DOMAIN g : g[y] \in Nat, \A y \in DOMAIN f : f[y] = g[y]
  PROVE  SumFunction(f) <= SumFunction(g)
<1>1. IsFiniteSet(DOMAIN f) BY FS_Subset
<1>2. SumFunctionOnSet(f, DOMAIN f) = SumFunctionOnSet(g, DOMAIN f) BY <1>1, SumSame
<1>3. SumFunctionOnSet(g, DOMAIN f) <= SumFunctionOnSet(g, DOMAIN g) BY SumSubset
<1> QED BY <1>2, <1>3 DEF SumFunction
-------------------------------------------------------------------------------
(* Recursion over the naturals.                                              *)

\* Among natural numbers one is least.
LEMMA NatHasLeast ==
  ASSUME NEW T \in SUBSET Nat, T # {}
  PROVE  \E x \in T : \A y \in T : x <= y
<1>1. PICK x \in T : \A y \in T : ~ (<<y, x>> \in OpToRel(<, Nat))
  BY NatLessThanWellFounded, WFMin
<1>2. \A y \in T : ~ (y < x) BY <1>1 DEF OpToRel
<1> QED BY <1>2

\* A set that holds 0, and with each number up to N the next, holds those up to N.
LEMMA Upward ==
  ASSUME NEW N \in Nat, NEW P, 0 \in P, \A n \in 0..(N - 1) : n \in P => n + 1 \in P
  PROVE  0..N \subseteq P
<1> SUFFICES ASSUME ~(0..N \subseteq P) PROVE FALSE OBVIOUS
<1> DEFINE T == {n \in 0..N : n \notin P}
<1>1. T \in SUBSET Nat /\ T # {} OBVIOUS
<1> HIDE DEF T
<1>2. PICK n \in T : \A m \in T : n <= m BY <1>1, NatHasLeast
<1>3. n \in 0..N /\ n \notin P BY DEF T
<1>4. n # 0 /\ n - 1 \in 0..(N - 1) BY <1>3
<1>5. n - 1 \in P
  <2>1. n - 1 \notin T BY <1>2, <1>3
  <2> QED BY <1>4, <2>1 DEF T
<1>6. (n - 1) + 1 = n BY <1>3
<1> QED BY <1>3, <1>4, <1>5, <1>6

\* Numbers of which each is at least the one before it are ordered from end to end.
LEMMA Ascends ==
  ASSUME NEW n \in Nat, NEW p, \A i \in 1..n : p[i] \in Int,
         \A i \in 1..(n - 1) : p[i] <= p[i + 1]
  PROVE  \A i, j \in 1..n : i <= j => p[i] <= p[j]
<1> DEFINE P == {j \in 0..n : \A i \in 1..j : p[i] <= p[j]}
<1>1. 0 \in P OBVIOUS
<1>2. ASSUME NEW j \in 0..(n - 1), j \in P PROVE j + 1 \in P
  <2>1. ASSUME NEW i \in 1..(j + 1) PROVE p[i] <= p[j + 1]
    <3>1. CASE i = j + 1 BY <3>1
    <3>2. CASE i # j + 1
      <4>1. i \in 1..j /\ j \in 1..(n - 1) BY <3>2
      <4>2. p[i] <= p[j] /\ p[j] <= p[j + 1] BY <1>2, <4>1
      <4>3. p[i] \in Int /\ p[j] \in Int /\ p[j + 1] \in Int BY <4>1
      <4> QED BY <4>2, <4>3
    <3> QED BY <3>1, <3>2
  <2> QED BY <2>1
<1> HIDE DEF P
<1>3. 0..n \subseteq P BY <1>1, <1>2, Upward
<1> QED BY <1>3 DEF P

\* A recursion over 0..N: it starts at base, and its steps stay in S.
Stepwise(N, S, base, step) ==
  N \in Nat /\ base \in S /\ \A i \in 1..N, v \in S : step[i][v] \in S

\* Such a recursion has a table.
LEMMA StepTable ==
  ASSUME NEW N, NEW S, NEW base, NEW step, Stepwise(N, S, base, step)
  PROVE  \E g \in [0..N -> S] :
           g[0] = base /\ \A i \in 1..N : g[i] = step[i][g[i - 1]]
<1> DEFINE Table(n, g) ==
             /\ g \in [0..n -> S] /\ g[0] = base
             /\ \A i \in 1..n : g[i] = step[i][g[i - 1]]
           P == {n \in 0..N : \E g : Table(n, g)}
<1>0. N \in Nat /\ base \in S /\ \A i \in 1..N, v \in S : step[i][v] \in S
  BY DEF Stepwise
<1>1. 0 \in P
  <2>1. Table(0, [i \in 0..0 |-> base]) /\ 0 \in 0..N BY <1>0
  <2> HIDE DEF Table
  <2> QED BY <2>1
<1>2. ASSUME NEW n \in 0..(N - 1), n \in P PROVE n + 1 \in P
  <2>1. PICK g : Table(n, g) BY <1>2
  <2> DEFINE next == step[n + 1][g[n]]
             h == [i \in 0..(n + 1) |-> IF i = n + 1 THEN next ELSE g[i]]
  <2>2. n + 1 \in 1..N /\ n \in 0..n /\ g[n] \in S BY <1>0, <1>2, <2>1
  <2>3. next \in S BY <1>0, <2>2
  <2> HIDE DEF next
  <2>4. h \in [0..(n + 1) -> S] BY <2>1, <2>3
  <2>5. h[0] = base BY <2>1
  <2>6. ASSUME NEW i \in 1..(n + 1) PROVE h[i] = step[i][h[i - 1]]
    <3>1. CASE i = n + 1
      <4>1. h[i] = next /\ h[i - 1] = g[n] BY <3>1
      <4> QED BY <3>1, <4>1 DEF next
    <3>2. CASE i # n + 1
      <4>1. i \in 1..n /\ h[i] = g[i] /\ h[i - 1] = g[i - 1] BY <3>2
      <4> QED BY <2>1, <4>1
    <3> QED BY <3>1, <3>2
  <2> HIDE DEF h
  <2>7. Table(n + 1, h) BY <2>4, <2>5, <2>6
  <2> QED BY <1>0, <1>2, <2>7
<1> HIDE DEF P
<1>3. 0..N \subseteq P BY <1>0, <1>1, <1>2, Upward
<1>4. N \in P BY <1>0, <1>3
<1> QED BY <1>4 DEF P

\* The differences along a sequence of numbers sum up to the difference of its ends.
LEMMA SumSteps ==
  ASSUME NEW n \in Nat, NEW L, \A i \in 0..n : L[i] \in Int,
         NEW d, \A i \in 1..n : d[i] = L[i - 1] - L[i]
  PROVE  SumFunctionOnSet(d, 1..n) = L[0] - L[n]
<1> DEFINE P == {m \in 0..n : SumFunctionOnSet(d, 1..m) = L[0] - L[m]}
<1>1. 0 \in P
  <2>1. SumFunctionOnSet(d, {}) = 0 /\ 1..0 = {} BY SumEmpty
  <2>2. L[0] \in Int /\ 0 \in 0..n OBVIOUS
  <2>3. SumFunctionOnSet(d, 1..0) = L[0] - L[0] BY <2>1, <2>2
  <2> QED BY <2>2, <2>3
<1>2. ASSUME NEW m \in 0..(n - 1), m \in P PROVE m + 1 \in P
  <2>1. 1..(m + 1) = (1..m) \cup {m + 1} /\ IsFiniteSet(1..m) /\ m + 1 \notin 1..m
    <3>1. IsFiniteSet(1..m) BY FS_Interval
    <3>2. 1..(m + 1) = (1..m) \cup {m + 1} /\ m + 1 \notin 1..m OBVIOUS
    <3> QED BY <3>1, <3>2
  <2>2. \A i \in 1..(m + 1) : d[i] \in Int /\ i - 1 \in 0..n /\ i \in 0..n OBVIOUS
  <2>3. SumFunctionOnSet(d, (1..m) \cup {m + 1}) = SumFunctionOnSet(d, 1..m) + d[m + 1]
    BY <2>1, <2>2, SumAdd
  <2>4. SumFunctionOnSet(d, 1..(m + 1)) = (L[0] - L[m]) + (L[m] - L[m + 1])
    <3>1. d[m + 1] = L[m] - L[m + 1] OBVIOUS
    <3>2. SumFunctionOnSet(d, 1..m) = L[0] - L[m] BY <1>2
    <3> QED BY <2>1, <2>3, <3>1, <3>2
  <2>5. L[0] \in Int /\ L[m] \in Int /\ L[m + 1] \in Int OBVIOUS
  <2>6. SumFunctionOnSet(d, 1..(m + 1)) = L[0] - L[m + 1] BY <2>4, <2>5
  <2> QED BY <2>6
<1> HIDE DEF P
<1>3. 0..n \subseteq P BY <1>1, <1>2, Upward
<1>4. n \in P BY <1>3
<1> QED BY <1>4 DEF P

-------------------------------------------------------------------------------
(* Products.                                                                 *)

\* A multiple of one function may be taken out of a sum.
LEMMA SumMix ==
  ASSUME NEW h, NEW g, NEW S, IsFiniteSet(S), NEW c \in Int,
         \A x \in S : h[x] \in Int /\ g[x] \in Int,
         NEW m, \A x \in S : m[x] = h[x] + c * g[x]
  PROVE  SumFunctionOnSet(m, S) = SumFunctionOnSet(h, S) + c * SumFunctionOnSet(g, S)
<1> DEFINE H(V) == SumFunctionOnSet(h, V)
           G(V) == SumFunctionOnSet(g, V)
           M(V) == SumFunctionOnSet(m, V)
           C == {V \in SUBSET S : M(V) # H(V) + c * G(V)}
<1> SUFFICES ASSUME M(S) # H(S) + c * G(S) PROVE FALSE OBVIOUS
<1>1. PICK V \in C : \A W \in SUBSET V : W # V => W \notin C
  <2>1. C \subseteq SUBSET S /\ S \in C OBVIOUS
  <2> HIDE DEF C
  <2> QED BY <2>1, SmallestSubset
<1>2. V \in SUBSET S /\ M(V) # H(V) + c * G(V) OBVIOUS
<1>3. \A W \in SUBSET V : W # V => M(W) = H(W) + c * G(W) BY <1>1, <1>2
<1> HIDE DEF C
<1>4. IsFiniteSet(V) BY <1>2, FS_Subset
<1>5. V # {}
  <2>1. H({}) = 0 /\ G({}) = 0 /\ M({}) = 0 BY SumEmpty
  <2>2. 0 = 0 + c * 0 OBVIOUS
  <2> HIDE DEF H, G, M
  <2> QED BY <1>2, <2>1, <2>2
<1> DEFINE x == First(V)
           R == V \ {x}
<1>6. x \in V /\ R \in SUBSET V /\ R # V BY <1>5, FirstIn
<1>7. H(V) = h[x] + H(R) /\ G(V) = g[x] + G(R) /\ M(V) = m[x] + M(R)
  BY <1>4, <1>5, SumStep
<1> HIDE DEF x
<1>8. IsFiniteSet(R) /\ \A y \in R : h[y] \in Int /\ g[y] \in Int BY <1>2, <1>4, FS_Subset
<1> HIDE DEF R
<1>9. H(R) \in Int /\ G(R) \in Int BY <1>8, SumInt
<1>10. h[x] \in Int /\ g[x] \in Int /\ m[x] = h[x] + c * g[x] BY <1>2, <1>6
<1>11. M(R) = H(R) + c * G(R) BY <1>3, <1>6
<1> HIDE DEF H, G, M
<1>12. c * (g[x] + G(R)) = c * g[x] + c * G(R) BY <1>9, <1>10
<1>13. c * g[x] \in Int /\ c * G(R) \in Int BY <1>9, <1>10
<1> QED BY <1>2, <1>7, <1>9, <1>10, <1>11, <1>12, <1>13

\* Less of a cheap thing instead of a dear one.
LEMMA Swap ==
  ASSUME NEW f \in Nat, NEW g \in Nat, NEW p \in Nat, NEW c \in Nat, f <= g, p <= c
  PROVE  g * p + c * f <= f * p + c * g
<1>1. PICK d \in Nat : g = f + d
  <2>1. g - f \in Nat /\ g = f + (g - f) OBVIOUS
  <2> QED BY <2>1
<1>2. PICK e \in Nat : c = p + e
  <2>1. c - p \in Nat /\ c = p + (c - p) OBVIOUS
  <2> QED BY <2>1
<1>3. (f + d) * p = f * p + d * p /\ (p + e) * f = f * p + e * f
      /\ (p + e) * (f + d) = f * p + d * p + e * f + e * d
  OBVIOUS
<1>4. f * p \in Nat /\ d * p \in Nat /\ e * f \in Nat /\ e * d \in Nat OBVIOUS
<1> QED BY <1>1, <1>2, <1>3, <1>4

\* Moving quantities from where they weigh less to where they weigh more than c, with
\* the same total, makes no smaller total weight.
LEMMA Exchange ==
  ASSUME NEW S, IsFiniteSet(S), NEW f, NEW g, NEW p, NEW c \in Nat,
         \A x \in S : f[x] \in Nat /\ g[x] \in Nat /\ p[x] \in Nat,
         \A x \in S : \/ f[x] <= g[x] /\ p[x] <= c
                      \/ g[x] <= f[x] /\ c <= p[x],
         SumFunctionOnSet(f, S) = SumFunctionOnSet(g, S)
  PROVE  SumFunctionOnSet([x \in S |-> g[x] * p[x]], S)
           <= SumFunctionOnSet([x \in S |-> f[x] * p[x]], S)
<1> DEFINE fp == [x \in S |-> f[x] * p[x]]
           gp == [x \in S |-> g[x] * p[x]]
           left == [x \in S |-> gp[x] + c * f[x]]
           right == [x \in S |-> fp[x] + c * g[x]]
<1>1. \A x \in S : f[x] \in Int /\ g[x] \in Int /\ fp[x] \in Int /\ gp[x] \in Int
  OBVIOUS
<1>2. ASSUME NEW x \in S PROVE gp[x] + c * f[x] <= fp[x] + c * g[x]
  <2>1. CASE f[x] <= g[x] /\ p[x] <= c BY <2>1, Swap
  <2>2. CASE g[x] <= f[x] /\ c <= p[x]
    <3>1. f[x] * c + p[x] * g[x] <= g[x] * c + p[x] * f[x] BY <2>2, Swap
    <3>2. f[x] \in Nat /\ g[x] \in Nat /\ p[x] \in Nat OBVIOUS
    <3>3. f[x] * c = c * f[x] /\ g[x] * c = c * g[x] /\ p[x] * g[x] = g[x] * p[x]
          /\ p[x] * f[x] = f[x] * p[x]
      BY <3>2
    <3>4. c * f[x] \in Nat /\ c * g[x] \in Nat /\ g[x] * p[x] \in Nat /\ f[x] * p[x] \in Nat
      BY <3>2
    <3> QED BY <3>1, <3>3, <3>4
  <2> QED BY <2>1, <2>2
<1> HIDE DEF fp, gp
<1>3. \A x \in S : left[x] \in Int /\ right[x] \in Int /\ left[x] <= right[x]
  BY <1>1, <1>2
<1>4. SumFunctionOnSet(left, S) = SumFunctionOnSet(gp, S) + c * SumFunctionOnSet(f, S)
  BY <1>1, SumMix
<1>5. SumFunctionOnSet(right, S) = SumFunctionOnSet(fp, S) + c * SumFunctionOnSet(g, S)
  BY <1>1, SumMix
<1> HIDE DEF left, right
<1>6. SumFunctionOnSet(left, S) <= SumFunctionOnSet(right, S) BY <1>3, SumMonotone
<1>7. /\ SumFunctionOnSet(fp, S) \in Int /\ SumFunctionOnSet(gp, S) \in Int
      /\ SumFunctionOnSet(g, S) \in Int
  BY <1>1, SumInt
<1>8. c * SumFunctionOnSet(g, S) \in Int BY <1>7
<1>9. SumFunctionOnSet(gp, S) <= SumFunctionOnSet(fp, S) BY <1>4, <1>5, <1>6, <1>7, <1>8
<1> QED BY <1>9 DEF fp, gp
=================================================================================
