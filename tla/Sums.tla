-------------------------------- MODULE Sums --------------------------------
(***************************************************************************)
(* Sums over finite sets: what SumFunctionOnSet of the community modules   *)
(* adds up to. The induction of the library takes a property as an         *)
(* argument, which the provers cannot handle; here it is a set, and a      *)
(* smallest set of which a lemma does not hold leads to a contradiction.   *)
(***************************************************************************)
EXTENDS Integers, FiniteSets, Functions, FiniteSetTheorems, WellFoundedInduction, TLAPS

\* Among finite sets there is one that none of the others is part of.
LEMMA SmallestSet ==
  ASSUME NEW F, F # {}, \A s \in F : IsFiniteSet(s)
  PROVE  \E s \in F : \A t \in F : t \subseteq s => t = s
<1>. DEFINE S == UNION F
<1>1. IsWellFoundedOn(StrictSubsetOrdering(S), FiniteSubsetsOf(S))
  BY FS_StrictSubsetOrderingWellFounded
<1>2. F \subseteq FiniteSubsetsOf(S)
  BY DEF FiniteSubsetsOf
<1>3. PICK s \in F : \A t \in F : ~ (<<t, s>> \in StrictSubsetOrdering(S))
  BY <1>1, <1>2, WFMin
<1>. QED
  BY <1>3 DEF StrictSubsetOrdering

\* Some number of a set is the smallest.
LEMMA SmallestNumber ==
  ASSUME NEW S, S # {}, S \subseteq Nat
  PROVE  \E n \in S : \A m \in S : n <= m
<1>. DEFINE F == {0 .. n : n \in S}
<1>1. ASSUME NEW s \in F PROVE IsFiniteSet(s)
  <2>1. PICK n \in S : s = 0 .. n
    OBVIOUS
  <2>. QED
    BY <2>1, FS_Interval
<1>2. F # {}
  OBVIOUS
<1>3. PICK s \in F : \A t \in F : t \subseteq s => t = s
  <2>. HIDE DEF F
  <2>. QED
    BY <1>1, <1>2, SmallestSet
<1>4. PICK n \in S : s = 0 .. n
  BY <1>3
<1>5. ASSUME NEW m \in S, ~ (n <= m) PROVE FALSE
  <2>1. n \in Nat /\ m \in Nat
    OBVIOUS
  <2>2. 0 .. m \subseteq 0 .. n /\ 0 .. m # 0 .. n
    BY <1>5, <2>1
  <2>. QED
    BY <1>3, <1>4, <2>2
<1>. QED
  BY <1>5

\* Induction over the naturals, for a set of numbers.
LEMMA NatSetInduction ==
  ASSUME NEW T, 0 \in T, \A n \in Nat : n \in T => n + 1 \in T
  PROVE  Nat \subseteq T
<1>. DEFINE Missed == Nat \ T
           F == {0 .. n : n \in Missed}
<1>. SUFFICES ASSUME Missed # {} PROVE FALSE
  OBVIOUS
<1>1. ASSUME NEW s \in F PROVE s \subseteq Nat /\ IsFiniteSet(s)
  <2>1. PICK n \in Nat : s = 0 .. n
    OBVIOUS
  <2>. QED
    BY <2>1, FS_Interval
<1>2. PICK s \in F : \A t \in F : t \subseteq s => t = s
  <2>1. F # {}
    OBVIOUS
  <2>2. \A s \in F : IsFiniteSet(s)
    BY <1>1
  <2>. HIDE DEF F, Missed
  <2>. QED
    BY <2>1, <2>2, SmallestSet
<1>3. PICK n \in Missed : s = 0 .. n
  BY <1>2
<1>4. n # 0 /\ n - 1 \in Nat
  BY <1>3
<1>5. n - 1 \in T
  <2>. SUFFICES ASSUME n - 1 \in Missed PROVE FALSE
    BY <1>4
  <2>1. 0 .. n - 1 \subseteq s /\ n \in s /\ n \notin 0 .. n - 1
    BY <1>3, <1>4
  <2>2. 0 .. n - 1 \in F
    OBVIOUS
  <2>. QED
    BY <1>2, <2>1, <2>2
<1>. QED
  BY <1>3, <1>4, <1>5

\* The recursion of MapThenFoldSet, for sums.
Pick(s) == CHOOSE x \in s : TRUE
OneMore(f, g, s) == IF s = {} THEN 0 ELSE f[Pick(s)] + g[s \ {Pick(s)}]
Totals(f, S, g) == \A s \in SUBSET S : g[s] = OneMore(f, g, s)

\* There is a function that satisfies it: one for all sets of up to n elements, for every n.
LEMMA TotalExists ==
  ASSUME NEW S, IsFiniteSet(S), NEW f
  PROVE  \E g : g = [s \in SUBSET S |-> OneMore(f, g, s)]
<1>. DEFINE Upto(n) == {s \in SUBSET S : Cardinality(s) <= n}
            Good == {n \in Nat : \E g : /\ g = [s \in SUBSET S |-> g[s]]
                                        /\ \A s \in Upto(n) : g[s] = OneMore(f, g, s)}
<1>0. \A s \in SUBSET S : IsFiniteSet(s) /\ Cardinality(s) \in Nat
  BY FS_Subset, FS_CardinalityType
<1>1. 0 \in Good
  <2>1. \A s \in Upto(0) : s = {}
    BY <1>0, FS_EmptySet
  <2>. DEFINE g == [s \in SUBSET S |-> 0]
  <2>2. \A s \in Upto(0) : g[s] = OneMore(f, g, s)
    BY <2>1 DEF OneMore
  <2>. QED
    BY <2>2
<1>2. ASSUME NEW n \in Nat, n \in Good PROVE n + 1 \in Good
  <2>1. PICK g : /\ g = [s \in SUBSET S |-> g[s]]
                 /\ \A s \in Upto(n) : g[s] = OneMore(f, g, s)
    BY <1>2
  <2>. DEFINE h == [s \in SUBSET S |-> OneMore(f, g, s)]
  <2>2. ASSUME NEW s \in Upto(n + 1), s # {} PROVE h[s] = OneMore(f, h, s)
    <3>1. Pick(s) \in s
      BY <2>2 DEF Pick
    <3>2. s \ {Pick(s)} \in Upto(n)
      <4>1. Cardinality(s \ {Pick(s)}) = Cardinality(s) - 1
        BY <1>0, <3>1, FS_RemoveElement
      <4>. QED
        BY <4>1, <1>0
    <3>3. h[s \ {Pick(s)}] = g[s \ {Pick(s)}]
      BY <2>1, <3>2
    <3>. QED
      BY <2>2, <3>3 DEF OneMore
  <2>3. \A s \in Upto(n + 1) : h[s] = OneMore(f, h, s)
    BY <2>2 DEF OneMore
  <2>4. h = [s \in SUBSET S |-> h[s]]
    OBVIOUS
  <2>5. \E k : /\ k = [s \in SUBSET S |-> k[s]]
               /\ \A s \in Upto(n + 1) : k[s] = OneMore(f, k, s)
    <3>. HIDE DEF h, Upto
    <3>. QED
      BY <2>3, <2>4
  <2>6. n + 1 \in Nat
    OBVIOUS
  <2>. HIDE DEF Upto
  <2>. QED
    BY <2>5, <2>6, Zenon
<1>3. Cardinality(S) \in Good
  <2>1. Nat \subseteq Good
    <3>1. \A n \in Nat : n \in Good => n + 1 \in Good
      BY <1>2
    <3>. HIDE DEF Good
    <3>. QED
      BY <1>1, <3>1, NatSetInduction
  <2>. QED
    BY <2>1, <1>0
<1>4. PICK g : /\ g = [s \in SUBSET S |-> g[s]]
               /\ \A s \in Upto(Cardinality(S)) : g[s] = OneMore(f, g, s)
  BY <1>3
<1>5. \A s \in SUBSET S : s \in Upto(Cardinality(S))
  BY FS_Subset
<1>6. g = [s \in SUBSET S |-> OneMore(f, g, s)]
  BY <1>4, <1>5
<1>. QED
  BY <1>6

LEMMA SumUnfold ==
  ASSUME NEW S, IsFiniteSet(S), NEW f
  PROVE  \E g : Totals(f, S, g) /\ SumFunctionOnSet(f, S) = g[S]
<1>. DEFINE iter == CHOOSE g : g = [s \in SUBSET S |-> OneMore(f, g, s)]
<1>1. iter = [s \in SUBSET S |-> OneMore(f, iter, s)]
  BY TotalExists
<1>2. SumFunctionOnSet(f, S) = iter[S]
  BY DEF SumFunctionOnSet, FoldFunctionOnSet, MapThenFoldSet, OneMore, Pick
<1>3. Totals(f, S, iter)
  BY <1>1 DEF Totals
<1>. QED
  BY <1>2, <1>3

\* Two functions that satisfy the recursion agree on the sets that both are defined on.
LEMMA TotalUnique ==
  ASSUME NEW f, NEW S, NEW T, IsFiniteSet(S), T \subseteq S,
         NEW g, Totals(f, S, g), NEW h, Totals(f, T, h)
  PROVE  g[T] = h[T]
<1>. DEFINE F == {s \in SUBSET T : g[s] # h[s]}
<1>1. \A s \in F : IsFiniteSet(s)
  BY FS_Subset
<1>2. ASSUME F # {} PROVE FALSE
  <2>1. PICK s \in F : \A t \in F : t \subseteq s => t = s
    <3>. HIDE DEF F
    <3>. QED
      BY <1>1, <1>2, SmallestSet
  <2>2. g[s] = OneMore(f, g, s) /\ h[s] = OneMore(f, h, s)
    BY DEF Totals
  <2>3. s # {}
    BY <2>2 DEF OneMore
  <2>4. Pick(s) \in s
    BY <2>3 DEF Pick
  <2>5. g[s \ {Pick(s)}] = h[s \ {Pick(s)}]
    BY <2>1, <2>4
  <2>. QED
    BY <2>2, <2>3, <2>5 DEF OneMore
<1>. QED
  BY <1>2

LEMMA SumEmpty == ASSUME NEW f PROVE SumFunctionOnSet(f, {}) = 0
<1>1. PICK g : Totals(f, {}, g) /\ SumFunctionOnSet(f, {}) = g[{}]
  BY SumUnfold, FS_EmptySet
<1>. QED
  BY <1>1 DEF OneMore, Totals

LEMMA SumPick ==
  ASSUME NEW S, IsFiniteSet(S), S # {}, NEW f
  PROVE  /\ Pick(S) \in S
         /\ SumFunctionOnSet(f, S) = f[Pick(S)] + SumFunctionOnSet(f, S \ {Pick(S)})
<1>1. PICK g : Totals(f, S, g) /\ SumFunctionOnSet(f, S) = g[S]
  BY SumUnfold
<1>2. PICK T : T = S \ {Pick(S)}
  OBVIOUS
<1>3. IsFiniteSet(T) /\ T \subseteq S
  BY <1>2, FS_Subset
<1>4. PICK h : Totals(f, T, h) /\ SumFunctionOnSet(f, T) = h[T]
  BY <1>3, SumUnfold
<1>5. g[T] = h[T]
  BY <1>1, <1>3, <1>4, TotalUnique
<1>6. Pick(S) \in S
  BY DEF Pick
<1>7. g[S] = OneMore(f, g, S)
  BY <1>1 DEF Totals
<1>. QED
  BY <1>1, <1>2, <1>4, <1>5, <1>6, <1>7 DEF OneMore

\* A sum of integers is an integer.
LEMMA SumInt ==
  ASSUME NEW S, IsFiniteSet(S), NEW f, \A x \in S : f[x] \in Int
  PROVE  SumFunctionOnSet(f, S) \in Int
<1>. DEFINE F == {s \in SUBSET S : SumFunctionOnSet(f, s) \notin Int}
<1>1. \A s \in F : IsFiniteSet(s)
  BY FS_Subset
<1>2. ASSUME F # {} PROVE FALSE
  <2>1. PICK s \in F : \A t \in F : t \subseteq s => t = s
    <3>. HIDE DEF F
    <3>. QED
      BY <1>1, <1>2, SmallestSet
  <2>2. s # {}
    BY SumEmpty
  <2>3. Pick(s) \in s /\ SumFunctionOnSet(f, s) = f[Pick(s)] + SumFunctionOnSet(f, s \ {Pick(s)})
    BY <1>1, <2>2, SumPick
  <2>4. SumFunctionOnSet(f, s \ {Pick(s)}) \in Int
    BY <2>1, <2>3
  <2>. QED
    BY <2>3, <2>4
<1>. QED
  BY <1>2

\* Any element can be taken out first.
LEMMA SumRemove ==
  ASSUME NEW S, IsFiniteSet(S), NEW f, \A x \in S : f[x] \in Int, NEW x \in S
  PROVE  SumFunctionOnSet(f, S) = f[x] + SumFunctionOnSet(f, S \ {x})
<1>. DEFINE F == {s \in SUBSET S : \E y \in s : SumFunctionOnSet(f, s) # f[y] + SumFunctionOnSet(f, s \ {y})}
<1>1. \A s \in F : IsFiniteSet(s)
  BY FS_Subset
<1>2. ASSUME F # {} PROVE FALSE
  <2>1. PICK s \in F : \A t \in F : t \subseteq s => t = s
    <3>. HIDE DEF F
    <3>. QED
      BY <1>1, <1>2, SmallestSet
  <2>2. PICK y \in s : SumFunctionOnSet(f, s) # f[y] + SumFunctionOnSet(f, s \ {y})
    OBVIOUS
  <2>3. PICK p : p = Pick(s)
    OBVIOUS
  <2>4. p \in s /\ SumFunctionOnSet(f, s) = f[p] + SumFunctionOnSet(f, s \ {p})
    BY <1>1, <2>2, <2>3, SumPick
  <2>5. p # y
    BY <2>2, <2>4
  <2>6. SumFunctionOnSet(f, s \ {p}) = f[y] + SumFunctionOnSet(f, (s \ {p}) \ {y})
    BY <2>1, <2>4, <2>5
  <2>7. SumFunctionOnSet(f, s \ {y}) = f[p] + SumFunctionOnSet(f, (s \ {y}) \ {p})
    BY <2>1, <2>2, <2>4, <2>5
  <2>8. (s \ {y}) \ {p} = (s \ {p}) \ {y}
    OBVIOUS
  <2>9. SumFunctionOnSet(f, (s \ {p}) \ {y}) \in Int /\ f[p] \in Int /\ f[y] \in Int
    <3>1. IsFiniteSet((s \ {p}) \ {y}) /\ \A z \in (s \ {p}) \ {y} : f[z] \in Int
      BY <1>1, FS_Subset
    <3>. QED
      BY <2>4, <3>1, SumInt
  <2>. QED
    BY <2>2, <2>4, <2>6, <2>7, <2>8, <2>9
<1>. QED
  BY <1>2

\* A sum grows with what is added up; in particular, it depends on nothing else.
LEMMA SumMonotone ==
  ASSUME NEW S, IsFiniteSet(S), NEW f, NEW g,
         \A x \in S : f[x] \in Int /\ g[x] \in Int /\ f[x] <= g[x]
  PROVE  SumFunctionOnSet(f, S) <= SumFunctionOnSet(g, S)
<1>. DEFINE F == {s \in SUBSET S : ~ (SumFunctionOnSet(f, s) <= SumFunctionOnSet(g, s))}
<1>1. \A s \in F : IsFiniteSet(s)
  BY FS_Subset
<1>2. ASSUME F # {} PROVE FALSE
  <2>1. PICK s \in F : \A t \in F : t \subseteq s => t = s
    <3>. HIDE DEF F
    <3>. QED
      BY <1>1, <1>2, SmallestSet
  <2>2. s # {}
    BY SumEmpty
  <2>3. PICK p : p = Pick(s)
    OBVIOUS
  <2>4. /\ p \in s /\ SumFunctionOnSet(f, s) = f[p] + SumFunctionOnSet(f, s \ {p})
        /\ SumFunctionOnSet(g, s) = g[p] + SumFunctionOnSet(g, s \ {p})
    BY <1>1, <2>2, <2>3, SumPick
  <2>5. SumFunctionOnSet(f, s \ {p}) <= SumFunctionOnSet(g, s \ {p})
    BY <2>1, <2>4
  <2>6. SumFunctionOnSet(f, s \ {p}) \in Int /\ SumFunctionOnSet(g, s \ {p}) \in Int
    <3>1. IsFiniteSet(s \ {p}) /\ \A z \in s \ {p} : f[z] \in Int /\ g[z] \in Int
      BY <1>1, FS_Subset
    <3>. QED
      BY <3>1, SumInt
  <2>7. f[p] \in Int /\ g[p] \in Int /\ f[p] <= g[p]
    BY <2>4
  <2>. QED
    BY <2>4, <2>5, <2>6, <2>7
<1>. QED
  BY <1>2

LEMMA SumSame ==
  ASSUME NEW S, IsFiniteSet(S), NEW f, NEW g, \A x \in S : f[x] \in Int /\ g[x] = f[x]
  PROVE  SumFunctionOnSet(f, S) = SumFunctionOnSet(g, S)
<1>1. SumFunctionOnSet(f, S) <= SumFunctionOnSet(g, S)
  BY SumMonotone
<1>2. SumFunctionOnSet(g, S) <= SumFunctionOnSet(f, S)
  BY SumMonotone
<1>3. SumFunctionOnSet(f, S) \in Int /\ SumFunctionOnSet(g, S) \in Int
  BY SumInt
<1>. QED
  BY <1>1, <1>2, <1>3

LEMMA SumZero ==
  ASSUME NEW S, IsFiniteSet(S), NEW f, \A x \in S : f[x] = 0
  PROVE  SumFunctionOnSet(f, S) = 0
<1>. DEFINE F == {s \in SUBSET S : SumFunctionOnSet(f, s) # 0}
<1>1. \A s \in F : IsFiniteSet(s)
  BY FS_Subset
<1>2. ASSUME F # {} PROVE FALSE
  <2>1. PICK s \in F : \A t \in F : t \subseteq s => t = s
    <3>. HIDE DEF F
    <3>. QED
      BY <1>1, <1>2, SmallestSet
  <2>2. s # {}
    BY SumEmpty
  <2>3. Pick(s) \in s /\ SumFunctionOnSet(f, s) = f[Pick(s)] + SumFunctionOnSet(f, s \ {Pick(s)})
    BY <1>1, <2>2, SumPick
  <2>4. SumFunctionOnSet(f, s \ {Pick(s)}) = 0
    BY <2>1, <2>3
  <2>. QED
    BY <2>3, <2>4
<1>. QED
  BY <1>2

\* A sum of naturals is one, and no less than any part of it.
LEMMA SumNat ==
  ASSUME NEW S, IsFiniteSet(S), NEW f, \A x \in S : f[x] \in Nat
  PROVE  /\ SumFunctionOnSet(f, S) \in Nat
         /\ \A x \in S : f[x] <= SumFunctionOnSet(f, S)
<1>. DEFINE zero == [x \in S |-> 0]
<1>1. SumFunctionOnSet(zero, S) = 0
  BY SumZero
<1>2. \A T \in SUBSET S : SumFunctionOnSet(f, T) \in Nat
  <2>. SUFFICES ASSUME NEW T \in SUBSET S PROVE SumFunctionOnSet(f, T) \in Nat
    OBVIOUS
  <2>1. IsFiniteSet(T)
    BY FS_Subset
  <2>2. SumFunctionOnSet(zero, T) = 0
    BY <2>1, SumZero
  <2>3. SumFunctionOnSet(zero, T) <= SumFunctionOnSet(f, T)
    BY <2>1, SumMonotone
  <2>4. SumFunctionOnSet(f, T) \in Int
    BY <2>1, SumInt
  <2>. QED
    BY <2>2, <2>3, <2>4
<1>3. ASSUME NEW x \in S PROVE f[x] <= SumFunctionOnSet(f, S)
  <2>1. SumFunctionOnSet(f, S) = f[x] + SumFunctionOnSet(f, S \ {x})
    BY SumRemove
  <2>2. SumFunctionOnSet(f, S \ {x}) \in Nat
    BY <1>2
  <2>. QED
    BY <2>1, <2>2
<1>. QED
  BY <1>2, <1>3

\* What changes at one place changes the sum by as much.
LEMMA SumChange ==
  ASSUME NEW S, IsFiniteSet(S), NEW f, NEW g, NEW x \in S,
         \A y \in S : f[y] \in Int /\ g[y] \in Int, \A y \in S \ {x} : g[y] = f[y]
  PROVE  SumFunctionOnSet(g, S) = SumFunctionOnSet(f, S) - f[x] + g[x]
<1>0. IsFiniteSet(S \ {x})
  BY FS_Subset
<1>1. SumFunctionOnSet(f, S) = f[x] + SumFunctionOnSet(f, S \ {x})
  BY SumRemove
<1>2. SumFunctionOnSet(g, S) = g[x] + SumFunctionOnSet(g, S \ {x})
  BY SumRemove
<1>3. SumFunctionOnSet(f, S \ {x}) = SumFunctionOnSet(g, S \ {x})
  BY <1>0, SumSame
<1>4. SumFunctionOnSet(f, S \ {x}) \in Int
  BY <1>0, SumInt
<1>. QED
  BY <1>1, <1>2, <1>3, <1>4

\* A sum over a set is that over a part and that over the rest.
LEMMA SumSplit ==
  ASSUME NEW S, IsFiniteSet(S), NEW f, \A x \in S : f[x] \in Int, NEW T \in SUBSET S
  PROVE  SumFunctionOnSet(f, S) = SumFunctionOnSet(f, T) + SumFunctionOnSet(f, S \ T)
<1>. DEFINE F == {s \in SUBSET T :
                    SumFunctionOnSet(f, S) # SumFunctionOnSet(f, s) + SumFunctionOnSet(f, S \ s)}
<1>1. \A s \in SUBSET S : /\ IsFiniteSet(s) /\ IsFiniteSet(S \ s) /\ \A x \in s : f[x] \in Int
                          /\ \A x \in S \ s : f[x] \in Int
  BY FS_Subset
<1>2. \A s \in SUBSET S : SumFunctionOnSet(f, s) \in Int
  BY <1>1, SumInt
<1>3. ASSUME F # {} PROVE FALSE
  <2>1. PICK s \in F : \A t \in F : t \subseteq s => t = s
    <3>1. \A s \in F : IsFiniteSet(s)
      BY <1>1
    <3>. HIDE DEF F
    <3>. QED
      BY <1>3, <3>1, SmallestSet
  <2>2. /\ s \subseteq T
        /\ SumFunctionOnSet(f, S) # SumFunctionOnSet(f, s) + SumFunctionOnSet(f, S \ s)
    OBVIOUS
  <2>3. PICK y \in s : TRUE
    <3>1. ASSUME s = {} PROVE FALSE
      <4>1. SumFunctionOnSet(f, s) = 0 /\ S \ s = S /\ SumFunctionOnSet(f, S) \in Int
        BY <1>2, <3>1, SumEmpty
      <4>. HIDE DEF F
      <4>. QED
        BY <2>2, <4>1
    <3>. QED
      BY <3>1
  <2>4. SumFunctionOnSet(f, S) = SumFunctionOnSet(f, s \ {y}) + SumFunctionOnSet(f, S \ (s \ {y}))
    BY <2>1, <2>3
  <2>5. SumFunctionOnSet(f, s) = f[y] + SumFunctionOnSet(f, s \ {y})
    BY <1>1, <2>3, SumRemove
  <2>6. SumFunctionOnSet(f, S \ (s \ {y})) = f[y] + SumFunctionOnSet(f, S \ s)
    <3>1. PICK r : r = S \ (s \ {y})
      OBVIOUS
    <3>2. S \ s = r \ {y} /\ y \in r /\ IsFiniteSet(r) /\ \A x \in r : f[x] \in Int
      BY <1>1, <2>2, <2>3, <3>1
    <3>3. SumFunctionOnSet(f, r) = f[y] + SumFunctionOnSet(f, r \ {y})
      BY <3>2, SumRemove
    <3>. HIDE DEF F
    <3>. QED
      BY <3>1, <3>2, <3>3
  <2>7. SumFunctionOnSet(f, s \ {y}) \in Int /\ SumFunctionOnSet(f, S \ s) \in Int /\ f[y] \in Int
    BY <1>2, <2>2, <2>3
  <2>. HIDE DEF F
  <2>. QED
    BY <2>2, <2>4, <2>5, <2>6, <2>7
<1>. QED
  BY <1>3

\* The same values under other names have the same sum.
LEMMA SumRenamed ==
  ASSUME NEW S, IsFiniteSet(S), NEW h, \A x, y \in S : h[x] = h[y] => x = y,
         NEW f, NEW g, \A x \in S : f[x] \in Int /\ g[h[x]] = f[x]
  PROVE  /\ IsFiniteSet({h[x] : x \in S})
         /\ SumFunctionOnSet(g, {h[x] : x \in S}) = SumFunctionOnSet(f, S)
<1>. DEFINE To(s) == {h[x] : x \in s}
            F == {s \in SUBSET S : ~ (/\ IsFiniteSet(To(s))
                                      /\ SumFunctionOnSet(g, To(s)) = SumFunctionOnSet(f, s))}
<1>1. \A s \in SUBSET S : IsFiniteSet(s)
  BY FS_Subset
<1>2. ASSUME F # {} PROVE FALSE
  <2>1. PICK s \in F : \A t \in F : t \subseteq s => t = s
    <3>1. \A s \in F : IsFiniteSet(s)
      BY <1>1
    <3>. HIDE DEF F
    <3>. QED
      BY <1>2, <3>1, SmallestSet
  <2>2. ~ (IsFiniteSet(To(s)) /\ SumFunctionOnSet(g, To(s)) = SumFunctionOnSet(f, s))
    OBVIOUS
  <2>3. PICK y \in s : TRUE
    <3>1. ASSUME s = {} PROVE FALSE
      <4>1. SumFunctionOnSet(f, s) = 0 /\ SumFunctionOnSet(g, {}) = 0 /\ To(s) = {}
        BY <3>1, SumEmpty
      <4>2. IsFiniteSet({})
        BY FS_EmptySet
      <4>. HIDE DEF F, To
      <4>. QED
        BY <2>2, <4>1, <4>2
    <3>. QED
      BY <3>1
  <2>4. PICK r : r = s \ {y}
    OBVIOUS
  <2>5. IsFiniteSet(To(r)) /\ SumFunctionOnSet(g, To(r)) = SumFunctionOnSet(f, r)
    BY <2>1, <2>3, <2>4
  <2>6. To(s) = To(r) \cup {h[y]} /\ h[y] \notin To(r) /\ To(s) \ {h[y]} = To(r)
    BY <2>3, <2>4
  <2>7. IsFiniteSet(To(s)) /\ \A z \in To(s) : g[z] \in Int
    <3>1. IsFiniteSet(To(r) \cup {h[y]})
      <4>. HIDE DEF F, To
      <4>. QED
        BY <2>5, FS_AddElement
    <3>. QED
      BY <2>6, <3>1
  <2>8. SumFunctionOnSet(f, s) = f[y] + SumFunctionOnSet(f, r)
    BY <1>1, <2>3, <2>4, SumRemove
  <2>9. SumFunctionOnSet(g, To(s)) = g[h[y]] + SumFunctionOnSet(g, To(r))
    <3>1. h[y] \in To(s)
      BY <2>6
    <3>. HIDE DEF To
    <3>. QED
      BY <2>6, <2>7, <3>1, SumRemove
  <2>10. g[h[y]] = f[y]
    BY <2>3
  <2>. HIDE DEF F, To
  <2>. QED
    BY <2>2, <2>5, <2>7, <2>8, <2>9, <2>10
<1>. QED
  BY <1>2
=============================================================================
