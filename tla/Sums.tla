-------------------------------- MODULE Sums --------------------------------
(***************************************************************************)
(* What SumFunctionOnSet computes, for every function and finite set.      *)
(* Balances, debts and reports are sums over the rows of a table; these    *)
(* lemmas say how such a sum moves when a row is added, removed or         *)
(* changed, and when the rows are grouped.                                 *)
(*                                                                         *)
(* Induction is over sets: WFMin gives the smallest counterexample of a    *)
(* first-order statement, so no rule with an operator parameter is needed. *)
(***************************************************************************)
EXTENDS Functions, FiniteSets, Integers, FiniteSetTheorems, WellFoundedInduction, TLAPS

(* The element that CHOOSE takes from a set.                               *)
Pick(s) == CHOOSE x \in s : TRUE

(* g satisfies the recursion of the sum of f on a set D of sets.           *)
Adds(f, g, D) ==
  g = [s \in D |-> IF s = {} THEN 0 ELSE f[Pick(s)] + g[s \ {Pick(s)}]]

(* The sum is the value of a function that satisfies Adds on the subsets.  *)
LEMMA SumUnfolded ==
  ASSUME NEW f, NEW S
  PROVE  SumFunctionOnSet(f, S) = (CHOOSE g : Adds(f, g, SUBSET S))[S]
BY DEF SumFunctionOnSet, FoldFunctionOnSet, MapThenFoldSet, Adds, Pick

(* The element that a sum takes next is one of the set.                    *)
LEMMA PickIsMember ==
  ASSUME NEW s, s # {}
  PROVE  Pick(s) \in s
BY DEF Pick

(* Every nonempty set of natural numbers has a least element.              *)
LEMMA LeastNatural ==
  ASSUME NEW N \in SUBSET Nat, N # {}
  PROVE  \E n \in N : \A m \in N : n <= m
<1>1. PICK n \in N : \A m \in N : ~ (<<m, n>> \in OpToRel(<, Nat))
  BY WFMin, NatLessThanWellFounded
<1>2. \A m \in N : ~ (m < n)
  BY <1>1 DEF OpToRel
<1>. QED  BY <1>2

(* Induction: a set C contains S if it contains every subset of S that it  *)
(* contains without any one of its elements.                               *)
LEMMA SetInduction ==
  ASSUME NEW S, IsFiniteSet(S), NEW C,
         \A T \in SUBSET S : (\A x \in T : T \ {x} \in C) => T \in C
  PROVE  S \in C
<1>. SUFFICES ASSUME S \notin C PROVE FALSE
  OBVIOUS
<1>. DEFINE Bad == {T \in SUBSET S : T \notin C}
            N   == {Cardinality(T) : T \in Bad}
<1>1. \A T \in SUBSET S : IsFiniteSet(T) /\ Cardinality(T) \in Nat
  BY FS_Subset, FS_CardinalityType
<1>2. N \in SUBSET Nat /\ N # {}
  BY <1>1
<1>3. PICK n \in N : \A m \in N : n <= m
  BY <1>2, LeastNatural
<1>4. PICK T \in Bad : n = Cardinality(T)
  BY <1>3
<1>5. \A x \in T : T \ {x} \in C
  <2>. SUFFICES ASSUME NEW x \in T, T \ {x} \notin C PROVE FALSE
    OBVIOUS
  <2>1. T \ {x} \in Bad
    OBVIOUS
  <2>2. Cardinality(T \ {x}) = Cardinality(T) - 1
    BY <1>1, FS_RemoveElement
  <2>3. Cardinality(T \ {x}) \in N
    BY <2>1
  <2>4. Cardinality(T) \in Nat
    BY <1>1
  <2>. HIDE DEF N, Bad
  <2>. QED  BY <2>2, <2>3, <2>4, <1>3, <1>4
<1>. QED  BY <1>4, <1>5

(* The recursion behind the sum has a solution on the subsets of a finite  *)
(* set: it is built for subsets of growing size.                           *)
LEMMA AddsExists ==
  ASSUME NEW f, NEW S, IsFiniteSet(S)
  PROVE  \E g : Adds(f, g, SUBSET S)
<1>. DEFINE Small(n) == {s \in SUBSET S : Cardinality(s) <= n}
            Bad      == {n \in Nat : ~ \E g : Adds(f, g, Small(n))}
<1>1. \A T \in SUBSET S : IsFiniteSet(T) /\ Cardinality(T) \in Nat
  BY FS_Subset, FS_CardinalityType
<1>2. \A s \in SUBSET S : s # {} => /\ s \ {Pick(s)} \in SUBSET S
                                    /\ Cardinality(s \ {Pick(s)}) = Cardinality(s) - 1
  BY <1>1, FS_RemoveElement, PickIsMember
<1>3. Bad = {}
  <2>. SUFFICES ASSUME Bad # {} PROVE FALSE
    OBVIOUS
  <2>1. PICK n \in Bad : \A m \in Bad : n <= m
    <3>1. Bad \in SUBSET Nat
      OBVIOUS
    <3>. QED  BY <3>1, LeastNatural
  <2>2. CASE n = 0
    <3>1. Small(0) = {{}}
      BY <1>1, FS_EmptySet
    <3>2. Adds(f, [s \in Small(0) |-> 0], Small(0))
      BY <3>1 DEF Adds
    <3>. QED  BY <3>2, <2>2
  <2>3. CASE n # 0
    <3>1. n - 1 \in Nat /\ n - 1 \notin Bad
      <4>1. n \in Nat
        OBVIOUS
      <4>. HIDE DEF Bad
      <4>. QED  BY <4>1, <2>1, <2>3
    <3>2. PICK h : Adds(f, h, Small(n - 1))
      BY <3>1
    <3>. DEFINE v(s) == f[Pick(s)] + h[s \ {Pick(s)}]
                g == [s \in Small(n) |-> IF s = {} THEN 0 ELSE v(s)]
    <3>3. \A s \in Small(n) : s # {} => s \ {Pick(s)} \in Small(n - 1) /\ s \ {Pick(s)} \in Small(n)
      BY <1>1, <1>2
    <3>4. \A s \in Small(n - 1) : h[s] = IF s = {} THEN 0 ELSE v(s)
      BY <3>2 DEF Adds
    <3>5. \A s \in Small(n - 1) : g[s] = h[s]
      BY <1>1, <3>4
    <3>6. \A s \in Small(n) : s # {} => v(s) = f[Pick(s)] + g[s \ {Pick(s)}]
      BY <3>3, <3>5
    <3>7. Adds(f, g, Small(n))
      BY <3>6 DEF Adds
    <3>. QED  BY <3>7, <2>1
  <2>. QED  BY <2>2, <2>3
<1>4. Cardinality(S) \in Nat /\ Small(Cardinality(S)) = SUBSET S
  BY <1>1, FS_Subset
<1>. QED  BY <1>3, <1>4

(* Two solutions agree on every finite set in both of their domains.       *)
LEMMA AddsUnique ==
  ASSUME NEW f, NEW S, IsFiniteSet(S), NEW g, NEW h, NEW A, NEW B,
         S \subseteq A, S \subseteq B,
         Adds(f, g, SUBSET A), Adds(f, h, SUBSET B)
  PROVE  g[S] = h[S]
<1>. DEFINE C == {T \in SUBSET S : g[T] = h[T]}
<1>1. ASSUME NEW T \in SUBSET S, \A x \in T : T \ {x} \in C
      PROVE  T \in C
  <2>1. g[T] = IF T = {} THEN 0 ELSE f[Pick(T)] + g[T \ {Pick(T)}]
    BY DEF Adds
  <2>2. h[T] = IF T = {} THEN 0 ELSE f[Pick(T)] + h[T \ {Pick(T)}]
    BY DEF Adds
  <2>. QED  BY <2>1, <2>2, <1>1, PickIsMember
<1>. HIDE DEF C
<1>2. S \in C
  BY <1>1, SetInduction
<1>. QED  BY <1>2 DEF C

(* The equation the sum is defined by.                                     *)
LEMMA SumStep ==
  ASSUME NEW f, NEW S, IsFiniteSet(S)
  PROVE  SumFunctionOnSet(f, S) =
           IF S = {} THEN 0 ELSE f[Pick(S)] + SumFunctionOnSet(f, S \ {Pick(S)})
<1>. DEFINE R == S \ {Pick(S)}
            g == CHOOSE h : Adds(f, h, SUBSET S)
            k == CHOOSE h : Adds(f, h, SUBSET R)
<1>1. Adds(f, g, SUBSET S)
  BY AddsExists
<1>2. g[S] = IF S = {} THEN 0 ELSE f[Pick(S)] + g[R]
  BY <1>1 DEF Adds
<1>3. IsFiniteSet(R) /\ R \subseteq S
  BY FS_RemoveElement
<1>. HIDE DEF R
<1>4. Adds(f, k, SUBSET R)
  BY <1>3, AddsExists
<1>5. SumFunctionOnSet(f, S) = g[S] /\ SumFunctionOnSet(f, R) = k[R]
  BY SumUnfolded
<1>. HIDE DEF g, k
<1>6. g[R] = k[R]
  BY <1>1, <1>3, <1>4, AddsUnique
<1>. QED  BY <1>2, <1>5, <1>6 DEF R

(* The empty sum.                                                          *)
LEMMA SumEmpty == \A f : SumFunctionOnSet(f, {}) = 0
BY SumStep, FS_EmptySet

(* A sum of integers is an integer.                                        *)
LEMMA SumInt ==
  ASSUME NEW f, NEW S, IsFiniteSet(S), \A x \in S : f[x] \in Int
  PROVE  SumFunctionOnSet(f, S) \in Int
<1>. DEFINE C == {T \in SUBSET S : SumFunctionOnSet(f, T) \in Int}
<1>1. ASSUME NEW T \in SUBSET S, \A x \in T : T \ {x} \in C
      PROVE  T \in C
  <2>1. IsFiniteSet(T)
    BY FS_Subset
  <2>2. CASE T = {}
    BY <2>2, SumEmpty
  <2>3. CASE T # {}
    <3>1. Pick(T) \in T
      BY <2>3, PickIsMember
    <3>2. SumFunctionOnSet(f, T) = f[Pick(T)] + SumFunctionOnSet(f, T \ {Pick(T)})
      BY <2>1, <2>3, SumStep
    <3>3. SumFunctionOnSet(f, T \ {Pick(T)}) \in Int /\ f[Pick(T)] \in Int
      BY <1>1, <3>1
    <3>4. SumFunctionOnSet(f, T) \in Int
      BY <3>2, <3>3
    <3>. QED  BY <3>4
  <2>. QED  BY <2>2, <2>3
<1>. HIDE DEF C
<1>2. S \in C
  BY <1>1, SetInduction
<1>. QED  BY <1>2 DEF C

(* A sum of natural numbers is one.                                        *)
LEMMA SumNat ==
  ASSUME NEW f, NEW S, IsFiniteSet(S), \A x \in S : f[x] \in Nat
  PROVE  SumFunctionOnSet(f, S) \in Nat
<1>. DEFINE C == {T \in SUBSET S : SumFunctionOnSet(f, T) \in Nat}
<1>1. ASSUME NEW T \in SUBSET S, \A x \in T : T \ {x} \in C
      PROVE  T \in C
  <2>1. IsFiniteSet(T)
    BY FS_Subset
  <2>2. CASE T = {}
    BY <2>2, SumEmpty
  <2>3. CASE T # {}
    <3>1. Pick(T) \in T
      BY <2>3, PickIsMember
    <3>2. SumFunctionOnSet(f, T) = f[Pick(T)] + SumFunctionOnSet(f, T \ {Pick(T)})
      BY <2>1, <2>3, SumStep
    <3>3. SumFunctionOnSet(f, T \ {Pick(T)}) \in Nat /\ f[Pick(T)] \in Nat
      BY <1>1, <3>1
    <3>4. SumFunctionOnSet(f, T) \in Nat
      BY <3>2, <3>3
    <3>. QED  BY <3>4
  <2>. QED  BY <2>2, <2>3
<1>. HIDE DEF C
<1>2. S \in C
  BY <1>1, SetInduction
<1>. QED  BY <1>2 DEF C

(* Any element may be taken out first, not only the one CHOOSE picks.      *)
LEMMA SumRemove ==
  ASSUME NEW f, NEW S, IsFiniteSet(S), \A x \in S : f[x] \in Int, NEW x \in S
  PROVE  SumFunctionOnSet(f, S) = f[x] + SumFunctionOnSet(f, S \ {x})
<1>. DEFINE Sum(T) == SumFunctionOnSet(f, T)
            C == {T \in SUBSET S : \A y \in T : Sum(T) = f[y] + Sum(T \ {y})}
<1>0. \A T \in SUBSET S : IsFiniteSet(T) /\ Sum(T) \in Int
  BY FS_Subset, SumInt
<1>1. ASSUME NEW T \in SUBSET S, \A y \in T : T \ {y} \in C
      PROVE  T \in C
  <2>. SUFFICES ASSUME NEW y \in T PROVE Sum(T) = f[y] + Sum(T \ {y})
    OBVIOUS
  <2>. DEFINE p == Pick(T)
  <2>1. p \in T /\ Sum(T) = f[p] + Sum(T \ {p})
    BY <1>0, SumStep, PickIsMember
  <2>2. CASE y = p
    BY <2>1, <2>2
  <2>3. CASE y # p
    <3>1. Sum(T \ {p}) = f[y] + Sum((T \ {p}) \ {y})
      BY <1>1, <2>1, <2>3
    <3>2. Sum(T \ {y}) = f[p] + Sum((T \ {y}) \ {p})
      BY <1>1, <2>1, <2>3
    <3>. DEFINE Rest == (T \ {p}) \ {y}
    <3>3. (T \ {y}) \ {p} = Rest
      OBVIOUS
    <3>4. Sum(Rest) \in Int /\ f[y] \in Int /\ f[p] \in Int
      BY <1>0, <2>1
    <3>5. Sum(T \ {y}) = f[p] + Sum(Rest)
      BY <3>2, <3>3
    <3>6. Sum(T) = f[p] + (f[y] + Sum(Rest))
      BY <2>1, <3>1
    <3>. HIDE DEF Sum, p, Rest
    <3>. QED  BY <3>4, <3>5, <3>6
  <2>. QED  BY <2>2, <2>3
<1>. HIDE DEF C
<1>2. S \in C
  BY <1>1, SetInduction
<1>. QED  BY <1>2 DEF C

(* A new element adds its value.                                           *)
LEMMA SumAdd ==
  ASSUME NEW f, NEW S, IsFiniteSet(S), NEW x, x \notin S, \A y \in S \cup {x} : f[y] \in Int
  PROVE  SumFunctionOnSet(f, S \cup {x}) = f[x] + SumFunctionOnSet(f, S)
<1>1. IsFiniteSet(S \cup {x}) /\ (S \cup {x}) \ {x} = S
  BY FS_AddElement
<1>. QED  BY <1>1, SumRemove

(* The sum depends only on the values on its set.                          *)
LEMMA SumAgree ==
  ASSUME NEW f, NEW g, NEW S, IsFiniteSet(S), \A x \in S : f[x] = g[x]
  PROVE  SumFunctionOnSet(f, S) = SumFunctionOnSet(g, S)
<1>. DEFINE C == {T \in SUBSET S : SumFunctionOnSet(f, T) = SumFunctionOnSet(g, T)}
<1>1. ASSUME NEW T \in SUBSET S, \A x \in T : T \ {x} \in C
      PROVE  T \in C
  <2>1. IsFiniteSet(T)
    BY FS_Subset
  <2>2. CASE T = {}
    BY <2>2, SumEmpty
  <2>3. CASE T # {}
    <3>1. Pick(T) \in T
      BY <2>3, PickIsMember
    <3>2. /\ SumFunctionOnSet(f, T) = f[Pick(T)] + SumFunctionOnSet(f, T \ {Pick(T)})
          /\ SumFunctionOnSet(g, T) = g[Pick(T)] + SumFunctionOnSet(g, T \ {Pick(T)})
      BY <2>1, <2>3, SumStep
    <3>3. /\ SumFunctionOnSet(f, T \ {Pick(T)}) = SumFunctionOnSet(g, T \ {Pick(T)})
          /\ f[Pick(T)] = g[Pick(T)]
      BY <1>1, <3>1
    <3>4. SumFunctionOnSet(f, T) = SumFunctionOnSet(g, T)
      BY <3>2, <3>3
    <3>. QED  BY <3>4
  <2>. QED  BY <2>2, <2>3
<1>. HIDE DEF C
<1>2. S \in C
  BY <1>1, SetInduction
<1>. QED  BY <1>2 DEF C

(* A change of one value changes the sum by the difference.                *)
LEMMA SumUpdate ==
  ASSUME NEW f, NEW g, NEW S, IsFiniteSet(S), NEW x \in S,
         \A y \in S : f[y] \in Int /\ g[y] \in Int,
         \A y \in S \ {x} : f[y] = g[y]
  PROVE  SumFunctionOnSet(g, S) = SumFunctionOnSet(f, S) - f[x] + g[x]
<1>1. IsFiniteSet(S \ {x})
  BY FS_RemoveElement
<1>2. SumFunctionOnSet(f, S \ {x}) = SumFunctionOnSet(g, S \ {x})
  BY <1>1, SumAgree
<1>3. SumFunctionOnSet(f, S \ {x}) \in Int
  BY <1>1, SumInt
<1>4. /\ SumFunctionOnSet(f, S) = f[x] + SumFunctionOnSet(f, S \ {x})
      /\ SumFunctionOnSet(g, S) = g[x] + SumFunctionOnSet(g, S \ {x})
  BY SumRemove
<1>. QED  BY <1>2, <1>3, <1>4

(* The sum over two disjoint sets.                                         *)
LEMMA SumUnion ==
  ASSUME NEW f, NEW S, NEW T, IsFiniteSet(S), IsFiniteSet(T), S \cap T = {},
         \A x \in S \cup T : f[x] \in Int
  PROVE  SumFunctionOnSet(f, S \cup T) = SumFunctionOnSet(f, S) + SumFunctionOnSet(f, T)
<1>. DEFINE Sum(U) == SumFunctionOnSet(f, U)
            C == {U \in SUBSET T : Sum(S \cup U) = Sum(S) + Sum(U)}
<1>0. \A U \in SUBSET T : IsFiniteSet(U) /\ IsFiniteSet(S \cup U)
  BY FS_Subset, FS_Union
<1>1. Sum(S) \in Int /\ \A U \in SUBSET T : Sum(U) \in Int /\ Sum(S \cup U) \in Int
  BY <1>0, SumInt
<1>2. ASSUME NEW U \in SUBSET T, \A x \in U : U \ {x} \in C
      PROVE  U \in C
  <2>1. CASE U = {}
    <3>1. S \cup U = S
      BY <2>1
    <3>2. Sum(U) = 0
      BY <2>1, SumEmpty
    <3>3. Sum(S \cup U) = Sum(S)
      BY <3>1
    <3>. HIDE DEF Sum
    <3>. QED  BY <1>1, <3>2, <3>3
  <2>2. CASE U # {}
    <3>. PICK x \in U : TRUE
      BY <2>2
    <3>1. Sum(U) = f[x] + Sum(U \ {x})
      <4>1. IsFiniteSet(U) /\ \A y \in U : f[y] \in Int
        BY <1>0
      <4>. QED  BY <4>1, SumRemove
    <3>2. Sum(S \cup U) = f[x] + Sum((S \cup U) \ {x})
      BY <1>0, SumRemove
    <3>3. (S \cup U) \ {x} = S \cup (U \ {x})
      OBVIOUS
    <3>4. Sum(S \cup (U \ {x})) = Sum(S) + Sum(U \ {x})
      BY <1>2
    <3>5. Sum(U \ {x}) \in Int /\ f[x] \in Int
      BY <1>1
    <3>6. Sum(S \cup U) = f[x] + (Sum(S) + Sum(U \ {x}))
      BY <3>2, <3>3, <3>4
    <3>. HIDE DEF Sum
    <3>7. Sum(S \cup U) = Sum(S) + Sum(U)
      BY <1>1, <3>1, <3>5, <3>6
    <3>. QED  BY <3>7 DEF Sum
  <2>. QED  BY <2>1, <2>2
<1>. HIDE DEF C
<1>3. T \in C
  BY <1>2, SetInduction
<1>. QED  BY <1>3 DEF C

(* The sum of pointwise sums.                                              *)
LEMMA SumPlus ==
  ASSUME NEW f, NEW g, NEW h, NEW S, IsFiniteSet(S),
         \A x \in S : f[x] \in Int /\ g[x] \in Int /\ h[x] = f[x] + g[x]
  PROVE  SumFunctionOnSet(h, S) = SumFunctionOnSet(f, S) + SumFunctionOnSet(g, S)
<1>. DEFINE F(U) == SumFunctionOnSet(f, U)
            G(U) == SumFunctionOnSet(g, U)
            H(U) == SumFunctionOnSet(h, U)
            C == {U \in SUBSET S : H(U) = F(U) + G(U)}
<1>0. \A U \in SUBSET S : IsFiniteSet(U) /\ F(U) \in Int /\ G(U) \in Int
  BY FS_Subset, SumInt
<1>1. ASSUME NEW U \in SUBSET S, \A x \in U : U \ {x} \in C
      PROVE  U \in C
  <2>1. CASE U = {}
    BY <2>1, SumEmpty
  <2>2. CASE U # {}
    <3>. PICK x \in U : TRUE
      BY <2>2
    <3>1. /\ F(U) = f[x] + F(U \ {x})
          /\ G(U) = g[x] + G(U \ {x})
          /\ H(U) = h[x] + H(U \ {x})
      <4>0. /\ IsFiniteSet(U)
            /\ \A y \in U : f[y] \in Int /\ g[y] \in Int /\ h[y] \in Int
        BY <1>0
      <4>1. F(U) = f[x] + F(U \ {x})
        BY <4>0, SumRemove
      <4>2. G(U) = g[x] + G(U \ {x})
        BY <4>0, SumRemove
      <4>3. H(U) = h[x] + H(U \ {x})
        BY <4>0, SumRemove
      <4>. QED  BY <4>1, <4>2, <4>3
    <3>2. H(U \ {x}) = F(U \ {x}) + G(U \ {x})
      BY <1>1
    <3>3. F(U \ {x}) \in Int /\ G(U \ {x}) \in Int
      BY <1>0
    <3>. HIDE DEF F, G, H
    <3>. QED  BY <3>1, <3>2, <3>3
  <2>. QED  BY <2>1, <2>2
<1>. HIDE DEF C
<1>2. S \in C
  BY <1>1, SetInduction
<1>. QED  BY <1>2 DEF C

(* The image of a finite set is finite.                                    *)
LEMMA FiniteImage ==
  ASSUME NEW h, NEW S, IsFiniteSet(S)
  PROVE  IsFiniteSet({h[x] : x \in S})
<1>. DEFINE Image == {h[x] : x \in S}
            g == [x \in S |-> h[x]]
<1>1. g \in Surjection(S, Image)
  BY DEF Surjection
<1>. QED  BY <1>1, FS_Surjection

(* h maps S one to one onto T, and f to g.                                 *)
Reindexes(h, S, T, f, g) ==
  /\ \A x, y \in S : h[x] = h[y] => x = y
  /\ \A x \in S : h[x] \in T
  /\ \A y \in T : \E x \in S : y = h[x]
  /\ \A x \in S : f[x] \in Int /\ g[h[x]] = f[x]

(* A sum may be taken over the images under an injection.                  *)
LEMMA SumReindex ==
  ASSUME NEW f, NEW g, NEW h, NEW S, NEW T, IsFiniteSet(S), Reindexes(h, S, T, f, g)
  PROVE  SumFunctionOnSet(g, T) = SumFunctionOnSet(f, S)
<1>. USE DEF Reindexes
<1>. DEFINE Image(U) == {h[x] : x \in U}
            C == {U \in SUBSET S : SumFunctionOnSet(g, Image(U)) = SumFunctionOnSet(f, U)}
<1>1. ASSUME NEW U \in SUBSET S, \A x \in U : U \ {x} \in C
      PROVE  U \in C
  <2>1. CASE U = {}
    <3>1. Image(U) = {}
      BY <2>1
    <3>. QED  BY <2>1, <3>1, SumEmpty
  <2>2. CASE U # {}
    <3>. PICK x \in U : TRUE
      BY <2>2
    <3>1. IsFiniteSet(U) /\ IsFiniteSet(Image(U))
      BY FS_Subset, FiniteImage
    <3>2. SumFunctionOnSet(f, U) = f[x] + SumFunctionOnSet(f, U \ {x})
      BY <3>1, SumRemove
    <3>3. h[x] \in Image(U) /\ \A z \in Image(U) : g[z] \in Int
      OBVIOUS
    <3>4. SumFunctionOnSet(g, Image(U)) = g[h[x]] + SumFunctionOnSet(g, Image(U) \ {h[x]})
      <4>. HIDE DEF Image
      <4>. QED  BY <3>1, <3>3, SumRemove
    <3>5. Image(U) \ {h[x]} = Image(U \ {x})
      OBVIOUS
    <3>6. SumFunctionOnSet(g, Image(U \ {x})) = SumFunctionOnSet(f, U \ {x})
      BY <1>1
    <3>7. SumFunctionOnSet(g, Image(U)) = SumFunctionOnSet(f, U)
      <4>. HIDE DEF Image
      <4>. QED  BY <3>2, <3>4, <3>5, <3>6
    <3>. QED  BY <3>7
  <2>. QED  BY <2>1, <2>2
<1>. HIDE DEF C
<1>2. S \in C
  BY <1>1, SetInduction
<1>3. T = Image(S)
  OBVIOUS
<1>. QED  BY <1>2, <1>3 DEF C

(* The sets A[k] are disjoint, finite and together T, and F has their sums. *)
Groups(A, K, T, f, F) ==
  /\ \A k, l \in K : k # l => A[k] \cap A[l] = {}
  /\ \A k \in K : A[k] \subseteq T
  /\ \A x \in T : \E k \in K : x \in A[k]
  /\ \A x \in T : f[x] \in Int
  /\ \A k \in K : IsFiniteSet(A[k]) /\ F[k] = SumFunctionOnSet(f, A[k])

(* A sum over disjoint groups is the sum of the sums of the groups.        *)
LEMMA SumOfSums ==
  ASSUME NEW f, NEW A, NEW F, NEW K, NEW T, IsFiniteSet(K), Groups(A, K, T, f, F)
  PROVE  IsFiniteSet(T) /\ SumFunctionOnSet(f, T) = SumFunctionOnSet(F, K)
<1>. USE DEF Groups
<1>. DEFINE All(U) == UNION {A[k] : k \in U}
            C == {U \in SUBSET K : /\ IsFiniteSet(All(U))
                                   /\ SumFunctionOnSet(f, All(U)) = SumFunctionOnSet(F, U)}
<1>0. \A k \in K : F[k] \in Int
  BY SumInt
<1>1. ASSUME NEW U \in SUBSET K, \A k \in U : U \ {k} \in C
      PROVE  U \in C
  <2>1. CASE U = {}
    <3>1. All(U) = {}
      BY <2>1
    <3>. QED  BY <2>1, <3>1, SumEmpty, FS_EmptySet
  <2>2. CASE U # {}
    <3>. PICK k \in U : TRUE
      BY <2>2
    <3>. DEFINE V == U \ {k}
    <3>1. IsFiniteSet(U) /\ \A l \in U : F[l] \in Int
      BY <1>0, FS_Subset
    <3>2. SumFunctionOnSet(F, U) = F[k] + SumFunctionOnSet(F, V)
      BY <3>1, SumRemove
    <3>3. IsFiniteSet(All(V)) /\ SumFunctionOnSet(f, All(V)) = SumFunctionOnSet(F, V)
      BY <1>1
    <3>4. All(U) = A[k] \cup All(V) /\ A[k] \cap All(V) = {}
      OBVIOUS
    <3>5. \A x \in A[k] \cup All(V) : f[x] \in Int
      OBVIOUS
    <3>6. IsFiniteSet(A[k]) /\ F[k] = SumFunctionOnSet(f, A[k])
      OBVIOUS
    <3>. HIDE DEF All, V
    <3>7. IsFiniteSet(All(U))
      <4>1. IsFiniteSet(A[k] \cup All(V))
        BY <3>3, <3>6, FS_Union
      <4>. QED  BY <4>1, <3>4
    <3>8. SumFunctionOnSet(f, A[k] \cup All(V))
            = SumFunctionOnSet(f, A[k]) + SumFunctionOnSet(f, All(V))
      BY <3>3, <3>4, <3>5, <3>6, SumUnion
    <3>9. SumFunctionOnSet(f, All(U)) = SumFunctionOnSet(F, U)
      BY <3>2, <3>3, <3>4, <3>6, <3>8
    <3>. QED  BY <3>7, <3>9 DEF All
  <2>. QED  BY <2>1, <2>2
<1>. HIDE DEF C
<1>2. K \in C
  BY <1>1, SetInduction
<1>3. T = All(K)
  OBVIOUS
<1>. QED  BY <1>2, <1>3 DEF C

(* Zeros add up to zero.                                                   *)
LEMMA SumZero ==
  ASSUME NEW f, NEW S, IsFiniteSet(S), \A x \in S : f[x] = 0
  PROVE  SumFunctionOnSet(f, S) = 0
<1>1. SumFunctionOnSet(f, S) = SumFunctionOnSet(f, S) + SumFunctionOnSet(f, S)
  BY SumPlus
<1>2. SumFunctionOnSet(f, S) \in Int
  BY SumInt
<1>. QED  BY <1>1, <1>2

(* What is zero need not be added.                                         *)
LEMMA SumRestrict ==
  ASSUME NEW f, NEW S, NEW T, IsFiniteSet(S), T \subseteq S,
         \A x \in T : f[x] \in Int, \A x \in S \ T : f[x] = 0
  PROVE  SumFunctionOnSet(f, S) = SumFunctionOnSet(f, T)
<1>1. IsFiniteSet(T) /\ IsFiniteSet(S \ T) /\ T \cap (S \ T) = {} /\ T \cup (S \ T) = S
  BY FS_Subset
<1>2. SumFunctionOnSet(f, T \cup (S \ T)) = SumFunctionOnSet(f, T) + SumFunctionOnSet(f, S \ T)
  BY <1>1, SumUnion
<1>3. SumFunctionOnSet(f, S \ T) = 0 /\ SumFunctionOnSet(f, T) \in Int
  BY <1>1, SumZero, SumInt
<1>. QED  BY <1>1, <1>2, <1>3

(* The sum of the negated values.                                          *)
LEMMA SumNegative ==
  ASSUME NEW f, NEW g, NEW S, IsFiniteSet(S), \A x \in S : f[x] \in Int /\ g[x] = -f[x]
  PROVE  SumFunctionOnSet(g, S) = -SumFunctionOnSet(f, S)
<1>. DEFINE h == [x \in S |-> 0]
<1>1. \A x \in S : g[x] \in Int /\ h[x] = f[x] + g[x]
  OBVIOUS
<1>2. SumFunctionOnSet(h, S) = SumFunctionOnSet(f, S) + SumFunctionOnSet(g, S)
  BY <1>1, SumPlus
<1>3. SumFunctionOnSet(h, S) = 0
  BY SumZero
<1>4. SumFunctionOnSet(f, S) \in Int /\ SumFunctionOnSet(g, S) \in Int
  BY <1>1, SumInt
<1>. QED  BY <1>2, <1>3, <1>4

(* Two disjoint sets that are together a third.                            *)
LEMMA SumSplit ==
  ASSUME NEW f, NEW S, NEW T, NEW U, IsFiniteSet(S), T \cup U = S, T \cap U = {},
         \A x \in S : f[x] \in Int
  PROVE  /\ SumFunctionOnSet(f, S) = SumFunctionOnSet(f, T) + SumFunctionOnSet(f, U)
         /\ SumFunctionOnSet(f, T) \in Int /\ SumFunctionOnSet(f, U) \in Int
<1>1. IsFiniteSet(T) /\ IsFiniteSet(U)
  BY FS_Subset
<1>2. SumFunctionOnSet(f, T \cup U) = SumFunctionOnSet(f, T) + SumFunctionOnSet(f, U)
  BY <1>1, SumUnion
<1>3. SumFunctionOnSet(f, T) \in Int /\ SumFunctionOnSet(f, U) \in Int
  BY <1>1, SumInt
<1>. QED  BY <1>2, <1>3
=============================================================================
