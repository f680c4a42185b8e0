---------------------------- MODULE SumTheorems ----------------------------
(***************************************************************************)
(* Facts about SumFunctionOnSet, the sum of a function over a finite set   *)
(* that Reconciliation states its accounts with.  The community module     *)
(* defines it by a recursive function over subsets that takes off an       *)
(* arbitrary element at a time; here it is shown that the recursion has a  *)
(* solution and that the order does not matter.  Induction on the size of  *)
(* the set is by a smallest subset that breaks the claim.                  *)
(***************************************************************************)
EXTENDS FiniteSetTheorems, TLAPS

(* The element that the library's recursion takes off next. *)
AnElement(S) == CHOOSE x \in S : TRUE

(* The recursion by which SumFunctionOnSet adds up: a value for every subset. *)
AddUp(h, f, S) ==
  [s \in SUBSET S |-> IF s = {} THEN 0 ELSE f[AnElement(s)] + h[s \ {AnElement(s)}]]

(* Such a value for every subset is a solution of the recursion. *)
Adds(h, f, S) == h = AddUp(h, f, S)

(* The choice the recursion makes is one of the set. *)
LEMMA AnElementIsIn ==
  ASSUME NEW S, S # {}
  PROVE  AnElement(S) \in S
BY DEF AnElement

(* Among finite sets of which some break a rule there is one all of whose     *)
(* proper subsets keep it.                                                    *)
LEMMA LeastBreach ==
  ASSUME NEW U, IsFiniteSet(U), NEW Breaches \in SUBSET SUBSET U, Breaches # {}
  PROVE  \E s \in Breaches : \A x \in s : s \ {x} \notin Breaches
<1> DEFINE sizes == {Cardinality(s) : s \in Breaches}
<1>1. \A s \in SUBSET U : IsFiniteSet(s) /\ Cardinality(s) \in Nat
  BY FS_Subset, FS_CardinalityType
<1>2. sizes \subseteq Nat /\ sizes # {}
  BY <1>1
<1> HIDE DEF sizes
<1>3. PICK k \in sizes : \A y \in sizes : ~(<<y, k>> \in OpToRel(<, Nat))
  BY <1>2, WFMin, NatLessThanWellFounded
<1>4. PICK s \in Breaches : Cardinality(s) = k
  BY <1>3 DEF sizes
<1>5. ASSUME NEW x \in s, s \ {x} \in Breaches PROVE FALSE
  <2>1. IsFiniteSet(s) /\ k \in Nat
    BY <1>1, <1>4
  <2>2. Cardinality(s \ {x}) = k - 1
    BY <1>4, <1>5, <2>1, FS_RemoveElement
  <2>3. Cardinality(s \ {x}) \in sizes
    BY <1>5 DEF sizes
  <2>4. k - 1 \in sizes /\ k - 1 \in Nat
    BY <1>2, <2>2, <2>3
  <2>5. k - 1 < k
    BY <2>1
  <2> QED BY <1>3, <2>1, <2>4, <2>5 DEF OpToRel
<1> QED BY <1>4, <1>5

(* The library's definition is that recursion, started at the whole set. *)
LEMMA SumUnfold ==
  ASSUME NEW f, NEW S
  PROVE  SumFunctionOnSet(f, S) = (CHOOSE h : h = AddUp(h, f, S))[S]
BY Zenon DEF SumFunctionOnSet, FoldFunctionOnSet, MapThenFoldSet, AddUp, AnElement

(* The recursion that adds the elements up one by one has a solution. *)
LEMMA SumExists ==
  ASSUME NEW f, NEW S, IsFiniteSet(S)
  PROVE  \E h : h = AddUp(h, f, S)
<1> DEFINE Upto(n) == {s \in SUBSET S : Cardinality(s) <= n}
           Next(h, s) == IF s = {} THEN 0 ELSE f[AnElement(s)] + h[s \ {AnElement(s)}]
           Solved(n) == \E h : h = [s \in Upto(n) |-> Next(h, s)]
           Open == {n \in Nat : ~Solved(n)}
<1>1. ASSUME NEW s \in SUBSET S
      PROVE  /\ IsFiniteSet(s) /\ Cardinality(s) \in Nat /\ Cardinality(s) <= Cardinality(S)
             /\ s # {} => /\ s \ {AnElement(s)} \in SUBSET S
                          /\ Cardinality(s \ {AnElement(s)}) = Cardinality(s) - 1
             /\ Cardinality(s) = 0 => s = {}
  <2>1. IsFiniteSet(s)
    BY FS_Subset
  <2>2. s # {} => AnElement(s) \in s
    BY AnElementIsIn
  <2>3. s # {} => Cardinality(s \ {AnElement(s)}) = Cardinality(s) - 1
    BY <2>1, <2>2, FS_RemoveElement
  <2> QED BY <2>1, <2>3, FS_Subset, FS_CardinalityType, FS_EmptySet
<1>2. Solved(0)
  <2> DEFINE h == [s \in Upto(0) |-> 0]
  <2>1. ASSUME NEW s \in Upto(0) PROVE s = {}
    <3>1. s \in SUBSET S /\ Cardinality(s) <= 0 /\ Cardinality(s) \in Nat
      BY <1>1
    <3>2. Cardinality(s) = 0
      BY <3>1
    <3> QED BY <1>1, <3>1, <3>2
  <2>2. h = [s \in Upto(0) |-> Next(h, s)]
    BY <2>1
  <2> QED BY <2>2
<1>3. ASSUME NEW n \in Nat, Solved(n) PROVE Solved(n + 1)
  <2>1. PICK h : h = [s \in Upto(n) |-> Next(h, s)]
    BY <1>3
  <2> DEFINE k == [s \in Upto(n + 1) |-> Next(h, s)]
  <2>2. ASSUME NEW s \in Upto(n + 1) PROVE k[s] = Next(k, s)
    <3>1. CASE s = {}
      BY <3>1
    <3>2. CASE s # {}
      <4> DEFINE t == s \ {AnElement(s)}
      <4>1. t \in Upto(n) /\ t \in Upto(n + 1)
        BY <1>1, <3>2
      <4>2. h[t] = Next(h, t) /\ k[t] = Next(h, t)
        BY <2>1, <4>1
      <4> QED BY <3>2, <4>2
    <3> QED BY <3>1, <3>2
  <2>3. k = [s \in Upto(n + 1) |-> Next(k, s)]
    BY <2>2
  <2> QED BY <2>3
<1> HIDE DEF Solved
<1>4. Open = {}
  <2> SUFFICES ASSUME Open # {} PROVE FALSE
    OBVIOUS
  <2>1. PICK n \in Open : \A y \in Open : ~(<<y, n>> \in OpToRel(<, Nat))
    BY WFMin, NatLessThanWellFounded
  <2>2. n # 0 /\ n \in Nat
    BY <1>2, <2>1
  <2>3. n - 1 \in Nat /\ n - 1 < n /\ n - 1 + 1 = n
    BY <2>2
  <2>4. n - 1 \notin Open
    BY <2>1, <2>2, <2>3 DEF OpToRel
  <2> QED BY <1>3, <2>1, <2>3, <2>4
<1>5. Solved(Cardinality(S))
  BY <1>1, <1>4
<1>6. Upto(Cardinality(S)) = SUBSET S
  BY <1>1
<1> QED BY <1>5, <1>6 DEF Solved, AddUp

(* So a sum is what some solution says of the whole set. *)
LEMMA SumEquation ==
  ASSUME NEW f, NEW S, IsFiniteSet(S)
  PROVE  \E g : SumFunctionOnSet(f, S) = g[S] /\ Adds(g, f, S)
<1> DEFINE g == CHOOSE h : h = AddUp(h, f, S)
<1>1. \E h : h = AddUp(h, f, S)
  BY SumExists
<1>2. SumFunctionOnSet(f, S) = g[S]
  BY SumUnfold
<1>3. g = AddUp(g, f, S)
  BY <1>1
<1> HIDE DEF g
<1> QED BY <1>2, <1>3 DEF Adds

(* Two ways of adding up agree where both are defined. *)
LEMMA AddsUnique ==
  ASSUME NEW f, NEW S, IsFiniteSet(S), NEW T \in SUBSET S,
         NEW g, Adds(g, f, S), NEW h, Adds(h, f, T)
  PROVE  g[T] = h[T]
<1> DEFINE Bad == {s \in SUBSET T : g[s] # h[s]}
<1>1. IsFiniteSet(T)
  BY FS_Subset
<1>2. Bad = {}
  <2> SUFFICES ASSUME Bad # {} PROVE FALSE
    OBVIOUS
  <2>1. PICK s \in Bad : \A x \in s : s \ {x} \notin Bad
    BY <1>1, LeastBreach
  <2>2. s # {}
    BY <2>1 DEF Adds, AddUp
  <2>3. AnElement(s) \in s
    BY <2>2, AnElementIsIn
  <2>4. g[s \ {AnElement(s)}] = h[s \ {AnElement(s)}]
    BY <2>1, <2>3
  <2>5. g[s] = h[s]
    BY <2>1, <2>2, <2>4 DEF Adds, AddUp
  <2> QED BY <2>1, <2>5
<1> QED BY <1>2

(* Nothing adds up to zero. *)
LEMMA SumEmpty == ASSUME NEW f PROVE SumFunctionOnSet(f, {}) = 0
<1>1. PICK g : SumFunctionOnSet(f, {}) = g[{}] /\ Adds(g, f, {})
  BY SumEquation, FS_EmptySet
<1> QED BY <1>1 DEF Adds, AddUp

(* The recursion, as an equation between sums. *)
LEMMA SumTakesAny ==
  ASSUME NEW f, NEW S, IsFiniteSet(S), S # {}
  PROVE  SumFunctionOnSet(f, S) = f[AnElement(S)] + SumFunctionOnSet(f, S \ {AnElement(S)})
<1> DEFINE T == S \ {AnElement(S)}
<1>1. IsFiniteSet(T) /\ T \in SUBSET S
  BY FS_RemoveElement
<1>2. PICK g : SumFunctionOnSet(f, S) = g[S] /\ Adds(g, f, S)
  BY SumEquation
<1>3. PICK h : SumFunctionOnSet(f, T) = h[T] /\ Adds(h, f, T)
  BY <1>1, SumEquation
<1>4. g[T] = h[T]
  BY <1>1, <1>2, <1>3, AddsUnique
<1>5. g[S] = f[AnElement(S)] + g[T]
  BY <1>2 DEF Adds, AddUp
<1> QED BY <1>2, <1>3, <1>4, <1>5

(* A sum of whole numbers is a whole number. *)
LEMMA SumInt ==
  ASSUME NEW f, NEW S, IsFiniteSet(S), \A x \in S : f[x] \in Int
  PROVE  SumFunctionOnSet(f, S) \in Int
<1> DEFINE Bad == {s \in SUBSET S : SumFunctionOnSet(f, s) \notin Int}
<1>2. Bad = {}
  <2> SUFFICES ASSUME Bad # {} PROVE FALSE
    OBVIOUS
  <2>1. PICK s \in Bad : \A x \in s : s \ {x} \notin Bad
    BY LeastBreach
  <2>2. s # {} /\ IsFiniteSet(s)
    <3>1. SumFunctionOnSet(f, {}) \in Int
      BY SumEmpty
    <3> QED BY <2>1, <3>1, FS_Subset
  <2>3. AnElement(s) \in s
    BY <2>2, AnElementIsIn
  <2>4. SumFunctionOnSet(f, s \ {AnElement(s)}) \in Int /\ f[AnElement(s)] \in Int
    BY <2>1, <2>3
  <2>5. SumFunctionOnSet(f, s) \in Int
    BY <2>2, <2>4, SumTakesAny
  <2> QED BY <2>1, <2>5
<1> QED BY <1>2

(* A sum of natural numbers is a natural number. *)
LEMMA SumNat ==
  ASSUME NEW f, NEW S, IsFiniteSet(S), \A x \in S : f[x] \in Nat
  PROVE  SumFunctionOnSet(f, S) \in Nat
<1> DEFINE Bad == {s \in SUBSET S : SumFunctionOnSet(f, s) \notin Nat}
<1>1. Bad = {}
  <2> SUFFICES ASSUME Bad # {} PROVE FALSE
    OBVIOUS
  <2>1. PICK s \in Bad : \A x \in s : s \ {x} \notin Bad
    BY LeastBreach
  <2>2. s # {} /\ IsFiniteSet(s)
    <3>1. SumFunctionOnSet(f, {}) \in Nat
      BY SumEmpty
    <3> QED BY <2>1, <3>1, FS_Subset
  <2>3. AnElement(s) \in s
    BY <2>2, AnElementIsIn
  <2>4. SumFunctionOnSet(f, s \ {AnElement(s)}) \in Nat /\ f[AnElement(s)] \in Nat
    BY <2>1, <2>3
  <2>5. SumFunctionOnSet(f, s) \in Nat
    BY <2>2, <2>4, SumTakesAny
  <2> QED BY <2>1, <2>5
<1> QED BY <1>1

(* Zeros add up to zero. *)
LEMMA SumZero ==
  ASSUME NEW f, NEW S, IsFiniteSet(S), \A x \in S : f[x] = 0
  PROVE  SumFunctionOnSet(f, S) = 0
<1> DEFINE Bad == {s \in SUBSET S : SumFunctionOnSet(f, s) # 0}
<1>1. Bad = {}
  <2> SUFFICES ASSUME Bad # {} PROVE FALSE
    OBVIOUS
  <2>1. PICK s \in Bad : \A x \in s : s \ {x} \notin Bad
    BY LeastBreach
  <2>2. s # {} /\ IsFiniteSet(s)
    BY <2>1, SumEmpty, FS_Subset
  <2>3. AnElement(s) \in s
    BY <2>2, AnElementIsIn
  <2>4. SumFunctionOnSet(f, s \ {AnElement(s)}) = 0 /\ f[AnElement(s)] = 0
    BY <2>1, <2>3
  <2>5. SumFunctionOnSet(f, s) = 0 + 0
    BY <2>2, <2>4, SumTakesAny
  <2> QED BY <2>1, <2>5
<1> QED BY <1>1

(* The order of adding up does not matter: any element may come off first. *)
LEMMA SumRemove ==
  ASSUME NEW f, NEW S, IsFiniteSet(S), \A x \in S : f[x] \in Int, NEW x \in S
  PROVE  SumFunctionOnSet(f, S) = f[x] + SumFunctionOnSet(f, S \ {x})
<1> DEFINE Sum(s) == SumFunctionOnSet(f, s)
           Bad == {s \in SUBSET S : \E y \in s : Sum(s) # f[y] + Sum(s \ {y})}
<1>2. Bad = {}
  <2> SUFFICES ASSUME Bad # {} PROVE FALSE
    OBVIOUS
  <2>1. PICK s \in Bad : \A y \in s : s \ {y} \notin Bad
    BY LeastBreach
  <2>2. PICK y \in s : Sum(s) # f[y] + Sum(s \ {y})
    BY <2>1
  <2> DEFINE a == AnElement(s)
  <2>3. s # {} /\ IsFiniteSet(s) /\ a \in s
    BY <2>1, <2>2, FS_Subset, AnElementIsIn
  <2>4. Sum(s) = f[a] + Sum(s \ {a})
    BY <2>3, SumTakesAny
  <2>5. y # a
    BY <2>2, <2>4
  <2> HIDE DEF a
  <2>6. Sum(s \ {a}) = f[y] + Sum((s \ {a}) \ {y})
    BY <2>1, <2>2, <2>3, <2>5
  <2>7. Sum(s \ {y}) = f[a] + Sum((s \ {y}) \ {a})
    BY <2>1, <2>2, <2>3, <2>5
  <2>8. (s \ {y}) \ {a} = (s \ {a}) \ {y}
    OBVIOUS
  <2>9. Sum((s \ {a}) \ {y}) \in Int
    <3>1. (s \ {a}) \ {y} \in SUBSET S
      BY <2>1
    <3> QED BY <3>1, FS_Subset, SumInt
  <2>10. f[a] \in Int /\ f[y] \in Int
    BY <2>1, <2>2, <2>3
  <2> HIDE DEF Sum
  <2>11. Sum(s) = f[a] + (f[y] + Sum((s \ {a}) \ {y}))
    BY <2>4, <2>6
  <2>12. f[y] + Sum(s \ {y}) = f[y] + (f[a] + Sum((s \ {a}) \ {y}))
    BY <2>7, <2>8
  <2>13. \A i, j, k \in Int : i + (j + k) = j + (i + k)
    OBVIOUS
  <2>14. Sum(s) = f[y] + Sum(s \ {y})
    BY <2>9, <2>10, <2>11, <2>12, <2>13
  <2> QED BY <2>2, <2>14
<1> QED BY <1>2

(* One more element adds its value. *)
LEMMA SumAdd ==
  ASSUME NEW f, NEW S, IsFiniteSet(S), NEW x, x \notin S,
         \A y \in S \cup {x} : f[y] \in Int
  PROVE  SumFunctionOnSet(f, S \cup {x}) = SumFunctionOnSet(f, S) + f[x]
<1>1. IsFiniteSet(S \cup {x}) /\ (S \cup {x}) \ {x} = S
  BY FS_AddElement
<1>2. SumFunctionOnSet(f, S) \in Int
  BY SumInt
<1>3. SumFunctionOnSet(f, S \cup {x}) = f[x] + SumFunctionOnSet(f, S)
  BY <1>1, SumRemove
<1> QED BY <1>2, <1>3

(* Functions that agree on a set have the same sum over it. *)
LEMMA SumSame ==
  ASSUME NEW f, NEW g, NEW S, IsFiniteSet(S), \A x \in S : f[x] = g[x]
  PROVE  SumFunctionOnSet(f, S) = SumFunctionOnSet(g, S)
<1> DEFINE Bad == {s \in SUBSET S : SumFunctionOnSet(f, s) # SumFunctionOnSet(g, s)}
<1>2. Bad = {}
  <2> SUFFICES ASSUME Bad # {} PROVE FALSE
    OBVIOUS
  <2>1. PICK s \in Bad : \A x \in s : s \ {x} \notin Bad
    BY LeastBreach
  <2>2. s # {} /\ IsFiniteSet(s)
    BY <2>1, SumEmpty, FS_Subset
  <2>3. AnElement(s) \in s
    BY <2>2, AnElementIsIn
  <2>4. SumFunctionOnSet(f, s \ {AnElement(s)}) = SumFunctionOnSet(g, s \ {AnElement(s)})
        /\ f[AnElement(s)] = g[AnElement(s)]
    BY <2>1, <2>3
  <2>5. SumFunctionOnSet(f, s) = SumFunctionOnSet(g, s)
    BY <2>2, <2>4, SumTakesAny
  <2> QED BY <2>1, <2>5
<1> QED BY <1>2

(* Replacing the value at one point changes the sum by the difference. *)
LEMMA SumChange ==
  ASSUME NEW f, NEW g, NEW S, IsFiniteSet(S), NEW x \in S,
         \A y \in S : f[y] \in Int /\ g[y] \in Int,
         \A y \in S : y # x => f[y] = g[y]
  PROVE  SumFunctionOnSet(g, S) = SumFunctionOnSet(f, S) + (g[x] - f[x])
<1> DEFINE T == S \ {x}
<1>1. IsFiniteSet(T)
  BY FS_RemoveElement
<1>2. SumFunctionOnSet(f, T) = SumFunctionOnSet(g, T) /\ SumFunctionOnSet(f, T) \in Int
  BY <1>1, SumSame, SumInt
<1>3. SumFunctionOnSet(f, S) = f[x] + SumFunctionOnSet(f, T)
  BY SumRemove
<1>4. SumFunctionOnSet(g, S) = g[x] + SumFunctionOnSet(g, T)
  BY SumRemove
<1> HIDE DEF T
<1> QED BY <1>2, <1>3, <1>4

(* A sum grows with its terms. *)
LEMMA SumGrows ==
  ASSUME NEW f, NEW g, NEW S, IsFiniteSet(S),
         \A x \in S : f[x] \in Int /\ g[x] \in Int /\ f[x] <= g[x]
  PROVE  SumFunctionOnSet(f, S) <= SumFunctionOnSet(g, S)
<1> DEFINE Bad == {s \in SUBSET S : ~(SumFunctionOnSet(f, s) <= SumFunctionOnSet(g, s))}
<1>1. Bad = {}
  <2> SUFFICES ASSUME Bad # {} PROVE FALSE
    OBVIOUS
  <2>1. PICK s \in Bad : \A x \in s : s \ {x} \notin Bad
    BY LeastBreach
  <2>2. s # {} /\ IsFiniteSet(s)
    <3>1. SumFunctionOnSet(f, {}) = 0 /\ SumFunctionOnSet(g, {}) = 0
      BY SumEmpty
    <3>2. SumFunctionOnSet(f, {}) <= SumFunctionOnSet(g, {})
      BY <3>1
    <3> QED BY <2>1, <3>2, FS_Subset
  <2> DEFINE a == AnElement(s)
             t == s \ {a}
  <2>3. a \in s /\ IsFiniteSet(t)
    BY <2>2, AnElementIsIn, FS_RemoveElement
  <2>4. f[a] \in Int /\ g[a] \in Int /\ f[a] <= g[a]
    BY <2>1, <2>3
  <2>5. SumFunctionOnSet(f, t) \in Int /\ SumFunctionOnSet(g, t) \in Int
    BY <2>1, <2>3, SumInt
  <2>6. SumFunctionOnSet(f, t) <= SumFunctionOnSet(g, t)
    BY <2>1, <2>3
  <2>7. /\ SumFunctionOnSet(f, s) = f[a] + SumFunctionOnSet(f, t)
        /\ SumFunctionOnSet(g, s) = g[a] + SumFunctionOnSet(g, t)
    BY <2>2, SumTakesAny
  <2>8. SumFunctionOnSet(f, s) <= SumFunctionOnSet(g, s)
    <3> HIDE DEF a, t
    <3> QED BY <2>4, <2>5, <2>6, <2>7
  <2> QED BY <2>1, <2>8
<1> QED BY <1>1

(* A sum of which at most k terms are not zero, and none above m, is at most  *)
(* k times m.                                                                 *)
LEMMA SumOfFew ==
  ASSUME NEW f, NEW S, IsFiniteSet(S), NEW m \in Nat,
         \A x \in S : f[x] \in Nat /\ f[x] <= m,
         NEW k \in Nat, Cardinality({x \in S : f[x] # 0}) <= k
  PROVE  SumFunctionOnSet(f, S) <= k * m
<1> DEFINE N(s) == {x \in s : f[x] # 0}
           Bad == {s \in SUBSET S : ~(SumFunctionOnSet(f, s) <= Cardinality(N(s)) * m)}
<1>0. \A s \in SUBSET S : IsFiniteSet(N(s)) /\ Cardinality(N(s)) \in Nat
  <2> SUFFICES ASSUME NEW s \in SUBSET S PROVE IsFiniteSet(N(s)) /\ Cardinality(N(s)) \in Nat
    OBVIOUS
  <2>1. N(s) \subseteq S
    OBVIOUS
  <2> HIDE DEF N
  <2> QED BY <2>1, FS_Subset, FS_CardinalityType
<1>1. Bad = {}
  <2> SUFFICES ASSUME Bad # {} PROVE FALSE
    OBVIOUS
  <2>1. PICK s \in Bad : \A x \in s : s \ {x} \notin Bad
    BY LeastBreach
  <2>2. s # {} /\ IsFiniteSet(s)
    <3>1. N({}) = {} /\ Cardinality({}) = 0 /\ 0 * m = 0
      BY FS_EmptySet
    <3>2. SumFunctionOnSet(f, {}) <= Cardinality(N({})) * m
      BY <3>1, SumEmpty
    <3> QED BY <2>1, <3>2, FS_Subset
  <2> DEFINE a == AnElement(s)
             t == s \ {a}
  <2>3. a \in s /\ IsFiniteSet(t) /\ t \in SUBSET S
    BY <2>1, <2>2, AnElementIsIn, FS_RemoveElement
  <2>4. f[a] \in Nat /\ f[a] <= m
    BY <2>1, <2>3
  <2>5. SumFunctionOnSet(f, t) \in Int
    BY <2>3, SumInt
  <2>6. SumFunctionOnSet(f, t) <= Cardinality(N(t)) * m
    BY <2>1, <2>3
  <2>7. SumFunctionOnSet(f, s) = f[a] + SumFunctionOnSet(f, t)
    BY <2>2, SumTakesAny
  <2>8. CASE f[a] = 0
    <3>1. N(t) = N(s)
      BY <2>3, <2>8
    <3>2. SumFunctionOnSet(f, s) = SumFunctionOnSet(f, t)
      BY <2>5, <2>7, <2>8
    <3>3. SumFunctionOnSet(f, s) <= Cardinality(N(s)) * m
      BY <2>6, <3>1, <3>2
    <3> QED BY <2>1, <3>3
  <2>9. CASE f[a] # 0
    <3>1. N(t) = N(s) \ {a} /\ a \in N(s) /\ s \in SUBSET S
      BY <2>1, <2>3, <2>9
    <3> DEFINE c == Cardinality(N(t))
               e == Cardinality(N(s))
    <3>2. c = e - 1 /\ c \in Nat /\ e \in Nat
      <4>1. IsFiniteSet(N(s)) /\ IsFiniteSet(N(t)) /\ c \in Nat /\ e \in Nat
        BY <1>0, <2>3, <3>1
      <4> HIDE DEF N, a, t
      <4> QED BY <3>1, <4>1, FS_RemoveElement
    <3>3. SumFunctionOnSet(f, s) <= e * m
      <4> HIDE DEF c, e, a, t
      <4>1. e * m = c * m + m /\ c * m \in Nat
        BY <3>2
      <4>2. SumFunctionOnSet(f, t) <= c * m
        BY <2>6 DEF c
      <4> QED BY <2>4, <2>5, <2>7, <4>1, <4>2
    <3> QED BY <2>1, <3>3
  <2> QED BY <2>8, <2>9
<1>2. SumFunctionOnSet(f, S) <= Cardinality(N(S)) * m
  BY <1>1
<1>3. Cardinality(N(S)) \in Nat /\ SumFunctionOnSet(f, S) \in Int
  BY <1>0, SumInt
<1>4. Cardinality(N(S)) * m <= k * m
  <2> DEFINE c == Cardinality(N(S))
  <2>1. c \in Nat /\ c <= k
    BY <1>3
  <2> HIDE DEF c
  <2>2. c * m <= k * m
    <3>1. k - c \in Nat
      BY <2>1
    <3>2. (k - c) * m \in Nat /\ k * m = c * m + (k - c) * m /\ c * m \in Nat
      BY <2>1, <3>1
    <3> QED BY <3>2
  <2> QED BY <2>2 DEF c
<1>5. Cardinality(N(S)) * m \in Int /\ k * m \in Int
  BY <1>3
<1> HIDE DEF N
<1> QED BY <1>2, <1>3, <1>4, <1>5
=============================================================================
