------------------------------- MODULE SumProofs -------------------------------
(***************************************************************************)
(* Sums of a function over a finite set (SumFunctionOnSet of Functions).   *)
(***************************************************************************)
EXTENDS FiniteSetsExt, FiniteSetTheorems, TLAPS

-------------------------------------------------------------------------------
(* Induction, for properties given as the set of what has them *)

\* The naturals are all in a set that has 0 and the successors of its members.
LEMMA NaturalsReached ==
    ASSUME NEW T, 0 \in T, \A n \in Nat : n \in T => n + 1 \in T
    PROVE  Nat \subseteq T
<1> DEFINE missing == Nat \ T
           less == OpToRel(<, Nat)
<1> SUFFICES ASSUME missing # {} PROVE FALSE
  OBVIOUS
<1>1. IsWellFoundedOn(less, Nat) /\ missing \subseteq Nat
  BY NatLessThanWellFounded
<1> HIDE DEF less
<1>2. PICK n \in missing : \A m \in missing : <<m, n>> \notin less
  BY <1>1, WFMin
<1>3. n \in Nat /\ n # 0 /\ n - 1 \in Nat /\ n - 1 < n
  BY <1>2
<1>4. n - 1 \notin missing
  BY <1>2, <1>3 DEF less, OpToRel
<1>5. n - 1 \in T
  BY <1>3, <1>4
<1>6. (n - 1) + 1 \in T
  BY <1>3, <1>5
<1> QED
  BY <1>2, <1>3, <1>6

\* A set that loses one of its elements.
LEMMA OneLess ==
    ASSUME NEW s, IsFiniteSet(s), NEW x \in s
    PROVE  /\ IsFiniteSet(s \ {x})
           /\ Cardinality(s) \in Nat \ {0}
           /\ Cardinality(s \ {x}) = Cardinality(s) - 1
<1>1. Cardinality(s) \in Nat
  BY FS_CardinalityType
<1>2. Cardinality(s) # 0
  BY FS_EmptySet
<1>3. IsFiniteSet(s \ {x}) /\ Cardinality(s \ {x}) = IF x \in s THEN Cardinality(s) - 1 ELSE Cardinality(s)
  BY FS_RemoveElement
<1> QED
  BY <1>1, <1>2, <1>3

\* The subsets of a finite set are all in a set that has the empty one and whatever
\* is one element more than a member.
LEMMA SubsetsReached ==
    ASSUME NEW S, IsFiniteSet(S), NEW T, {} \in T,
           \A s \in SUBSET S : \A x \in S \ s : s \in T => s \cup {x} \in T
    PROVE  SUBSET S \subseteq T
<1> DEFINE sizes == {n \in Nat : \A s \in SUBSET S : Cardinality(s) = n => s \in T}
<1>1. 0 \in sizes
  BY FS_Subset, FS_EmptySet
<1>2. ASSUME NEW n \in Nat, n \in sizes PROVE n + 1 \in sizes
  <2> SUFFICES ASSUME NEW s \in SUBSET S, Cardinality(s) = n + 1 PROVE s \in T
    OBVIOUS
  <2>1. IsFiniteSet(s)
    BY FS_Subset
  <2>2. s # {}
    <3>1. Cardinality({}) = 0 /\ n + 1 # 0
      BY FS_EmptySet
    <3> QED
      BY <3>1
  <2>3. PICK x \in s : TRUE
    BY <2>2
  <2>4. Cardinality(s \ {x}) = n
    BY <2>1, OneLess
  <2>5. s \ {x} \in T /\ s \ {x} \in SUBSET S /\ x \in S \ (s \ {x})
    BY <1>2, <2>4
  <2>6. (s \ {x}) \cup {x} = s
    OBVIOUS
  <2> QED
    BY <2>5, <2>6
<1>3. Nat \subseteq sizes
  <2> HIDE DEF sizes
  <2> QED
    BY <1>1, <1>2, NaturalsReached
<1>4. ASSUME NEW s \in SUBSET S PROVE s \in T
  <2>1. Cardinality(s) \in Nat
    BY FS_Subset, FS_CardinalityType
  <2> QED
    BY <1>3, <2>1
<1> QED
  BY <1>4

-------------------------------------------------------------------------------
(* The recursive function behind a sum *)

Choice(s) == CHOOSE x \in s : TRUE

Iterates(f, S, iter) ==
    iter = [s \in SUBSET S |-> IF s = {} THEN 0 ELSE f[Choice(s)] + iter[s \ {Choice(s)}]]

\* What is chosen from a set is in it.
LEMMA ChoiceBelongs == ASSUME NEW s, s # {} PROVE Choice(s) \in s
BY DEF Choice

\* Such a function exists.
LEMMA IterExists ==
    ASSUME NEW f, NEW S, IsFiniteSet(S)
    PROVE  \E iter : Iterates(f, S, iter)
<1> DEFINE Small(n) == {s \in SUBSET S : Cardinality(s) <= n}
           Step(g, s) == IF s = {} THEN 0 ELSE f[Choice(s)] + g[s \ {Choice(s)}]
           T == {n \in Nat : \E g : g = [s \in Small(n) |-> Step(g, s)]}
<1>0. \A s \in SUBSET S : IsFiniteSet(s) /\ Cardinality(s) \in Nat
  BY FS_Subset, FS_CardinalityType
<1>1. \A s \in SUBSET S : s # {} =>
          /\ s \ {Choice(s)} \in SUBSET S
          /\ Cardinality(s \ {Choice(s)}) = Cardinality(s) - 1
          /\ Cardinality(s) >= 1
  BY <1>0, ChoiceBelongs, OneLess
<1>2. 0 \in T
  <2> DEFINE g == [s \in Small(0) |-> 0]
  <2>1. \A s \in Small(0) : s = {}
    BY <1>0, FS_EmptySet
  <2>2. g = [s \in Small(0) |-> Step(g, s)]
    BY <2>1
  <2> HIDE DEF g
  <2> QED
    BY <2>2
<1>3. ASSUME NEW n \in Nat, n \in T PROVE n + 1 \in T
  <2>1. PICK g : g = [s \in Small(n) |-> Step(g, s)]
    BY <1>3
  <2> DEFINE h == [s \in Small(n + 1) |-> Step(g, s)]
  <2>2. \A s \in Small(n + 1) : s # {} => s \ {Choice(s)} \in Small(n)
    BY <1>0, <1>1
  <2>3. \A s \in Small(n) : s \in Small(n + 1)
    BY <1>0
  <2>4. \A s \in Small(n) : h[s] = Step(g, s) /\ g[s] = Step(g, s)
    BY <2>1, <2>3
  <2>5. ASSUME NEW s \in Small(n + 1) PROVE h[s] = Step(h, s)
    <3>1. h[s] = Step(g, s)
      OBVIOUS
    <3>2. s # {} => h[s \ {Choice(s)}] = g[s \ {Choice(s)}]
      BY <2>2, <2>4
    <3> HIDE DEF h, Small
    <3> QED
      BY <3>1, <3>2
  <2>6. h = [s \in Small(n + 1) |-> Step(h, s)]
    <3>1. h = [s \in Small(n + 1) |-> h[s]]
      OBVIOUS
    <3> HIDE DEF h, Small, Step
    <3> QED
      BY <2>5, <3>1
  <2> HIDE DEF h, Small, Step
  <2>7. \E it : it = [s \in Small(n + 1) |-> Step(it, s)]
    BY <2>6
  <2> QED
    BY <2>7
<1>4. Nat \subseteq T
  <2> HIDE DEF T
  <2> QED
    BY <1>2, <1>3, NaturalsReached
<1>5. Cardinality(S) \in T
  BY <1>4, FS_CardinalityType
<1>6. Small(Cardinality(S)) = SUBSET S
  BY <1>0, FS_Subset
<1> QED
  BY <1>5, <1>6 DEF Iterates

\* A sum is the value of one.
LEMMA SumUnfold ==
    ASSUME NEW f, NEW S, NEW g, Iterates(f, S, g)
    PROVE  \E iter : Iterates(f, S, iter) /\ SumFunctionOnSet(f, S) = iter[S]
BY DEF SumFunctionOnSet, FoldFunctionOnSet, MapThenFoldSet, Iterates, Choice

\* All of them agree where their functions do.
LEMMA IterSame ==
    ASSUME NEW S, IsFiniteSet(S), NEW T \in SUBSET S, NEW f, NEW g, \A x \in T : f[x] = g[x],
           NEW i, Iterates(f, S, i), NEW j, Iterates(g, T, j)
    PROVE  i[T] = j[T]
<1> DEFINE sizes == {n \in Nat : \A s \in SUBSET T : Cardinality(s) = n => i[s] = j[s]}
<1>0. \A s \in SUBSET T : IsFiniteSet(s) /\ Cardinality(s) \in Nat
  BY FS_Subset, FS_CardinalityType
<1>1. 0 \in sizes
  <2> SUFFICES ASSUME NEW s \in SUBSET T, Cardinality(s) = 0 PROVE i[s] = j[s]
    OBVIOUS
  <2>1. s = {}
    BY <1>0, FS_EmptySet
  <2> QED
    BY <2>1 DEF Iterates
<1>2. ASSUME NEW n \in Nat, n \in sizes PROVE n + 1 \in sizes
  <2> SUFFICES ASSUME NEW s \in SUBSET T, Cardinality(s) = n + 1 PROVE i[s] = j[s]
    OBVIOUS
  <2>1. s # {}
    <3>1. Cardinality({}) = 0 /\ n + 1 # 0
      BY FS_EmptySet
    <3> QED
      BY <3>1
  <2>2. Choice(s) \in s
    BY <2>1, ChoiceBelongs
  <2>3. Cardinality(s \ {Choice(s)}) = n
    BY <1>0, <2>2, OneLess
  <2>4. i[s \ {Choice(s)}] = j[s \ {Choice(s)}]
    BY <1>2, <2>3
  <2>5. f[Choice(s)] = g[Choice(s)]
    BY <2>2
  <2> QED
    BY <2>1, <2>4, <2>5 DEF Iterates
<1>3. Nat \subseteq sizes
  <2> HIDE DEF sizes
  <2> QED
    BY <1>1, <1>2, NaturalsReached
<1> QED
  BY <1>0, <1>3

-------------------------------------------------------------------------------
(* Sums *)

\* The sum over nothing.
LEMMA SumEmpty == ASSUME NEW f PROVE SumFunctionOnSet(f, {}) = 0
<1>1. PICK g : Iterates(f, {}, g)
  BY IterExists, FS_EmptySet
<1>2. PICK iter : Iterates(f, {}, iter) /\ SumFunctionOnSet(f, {}) = iter[{}]
  BY <1>1, SumUnfold
<1> QED
  BY <1>2 DEF Iterates

\* Two functions that agree on a set have the same sum over it.
LEMMA SumSame ==
    ASSUME NEW S, IsFiniteSet(S), NEW f, NEW g, \A x \in S : f[x] = g[x]
    PROVE  SumFunctionOnSet(f, S) = SumFunctionOnSet(g, S)
<1>1. PICK i : Iterates(f, S, i) /\ SumFunctionOnSet(f, S) = i[S]
  BY IterExists, SumUnfold
<1>2. PICK j : Iterates(g, S, j) /\ SumFunctionOnSet(g, S) = j[S]
  BY IterExists, SumUnfold
<1> QED
  BY <1>1, <1>2, IterSame

\* A sum over the chosen element and the rest.
LEMMA SumChoice ==
    ASSUME NEW S, IsFiniteSet(S), S # {}, NEW f
    PROVE  SumFunctionOnSet(f, S) = f[Choice(S)] + SumFunctionOnSet(f, S \ {Choice(S)})
<1> DEFINE T == S \ {Choice(S)}
<1>1. PICK i : Iterates(f, S, i) /\ SumFunctionOnSet(f, S) = i[S]
  BY IterExists, SumUnfold
<1>2. PICK j : Iterates(f, T, j) /\ SumFunctionOnSet(f, T) = j[T]
  BY IterExists, SumUnfold, FS_Subset
<1>3. i[T] = j[T]
  BY <1>1, <1>2, IterSame
<1>4. i[S] = f[Choice(S)] + i[T]
  BY <1>1 DEF Iterates
<1> QED
  BY <1>1, <1>2, <1>3, <1>4

\* A sum of integers is an integer.
LEMMA SumInteger ==
    ASSUME NEW S, IsFiniteSet(S), NEW f, \A x \in S : f[x] \in Int
    PROVE  SumFunctionOnSet(f, S) \in Int
<1> DEFINE sizes == {n \in Nat : \A s \in SUBSET S : Cardinality(s) = n => SumFunctionOnSet(f, s) \in Int}
<1>0. \A s \in SUBSET S : IsFiniteSet(s) /\ Cardinality(s) \in Nat
  BY FS_Subset, FS_CardinalityType
<1>1. 0 \in sizes
  <2> SUFFICES ASSUME NEW s \in SUBSET S, Cardinality(s) = 0 PROVE SumFunctionOnSet(f, s) \in Int
    OBVIOUS
  <2>1. s = {}
    BY <1>0, FS_EmptySet
  <2> QED
    BY <2>1, SumEmpty
<1>2. ASSUME NEW n \in Nat, n \in sizes PROVE n + 1 \in sizes
  <2> SUFFICES ASSUME NEW s \in SUBSET S, Cardinality(s) = n + 1
               PROVE  SumFunctionOnSet(f, s) \in Int
    OBVIOUS
  <2>1. s # {}
    <3>1. Cardinality({}) = 0 /\ n + 1 # 0
      BY FS_EmptySet
    <3> QED
      BY <3>1
  <2>2. Choice(s) \in s
    BY <2>1, ChoiceBelongs
  <2>3. Cardinality(s \ {Choice(s)}) = n
    BY <1>0, <2>2, OneLess
  <2>4. SumFunctionOnSet(f, s \ {Choice(s)}) \in Int
    BY <1>2, <2>3
  <2>5. SumFunctionOnSet(f, s) = f[Choice(s)] + SumFunctionOnSet(f, s \ {Choice(s)})
    BY <1>0, <2>1, SumChoice
  <2> QED
    BY <2>2, <2>4, <2>5
<1>3. Nat \subseteq sizes
  <2> HIDE DEF sizes
  <2> QED
    BY <1>1, <1>2, NaturalsReached
<1> QED
  BY <1>0, <1>3

\* A sum over any element and the rest.
THEOREM SumRemove ==
    ASSUME NEW S, IsFiniteSet(S), NEW f, \A x \in S : f[x] \in Int, NEW x \in S
    PROVE  SumFunctionOnSet(f, S) = f[x] + SumFunctionOnSet(f, S \ {x})
<1> DEFINE Sum(s) == SumFunctionOnSet(f, s)
           sizes == {n \in Nat : \A s \in SUBSET S : \A y \in s :
                                     Cardinality(s) = n => Sum(s) = f[y] + Sum(s \ {y})}
<1>0. \A s \in SUBSET S : IsFiniteSet(s) /\ Cardinality(s) \in Nat /\ Sum(s) \in Int
  BY FS_Subset, FS_CardinalityType, SumInteger
<1>1. 0 \in sizes
  BY <1>0, FS_EmptySet
<1>2. ASSUME NEW n \in Nat, n \in sizes PROVE n + 1 \in sizes
  <2> SUFFICES ASSUME NEW s \in SUBSET S, NEW y \in s, Cardinality(s) = n + 1
               PROVE  Sum(s) = f[y] + Sum(s \ {y})
    OBVIOUS
  <2> DEFINE z == Choice(s)
             rest == s \ {y, z}
  <2>1. z \in s /\ Sum(s) = f[z] + Sum(s \ {z})
    BY <1>0, ChoiceBelongs, SumChoice
  <2>2. CASE y = z
    BY <2>1, <2>2
  <2>3. CASE y # z
    <3>1. Cardinality(s \ {z}) = n /\ Cardinality(s \ {y}) = n
      BY <1>0, <2>1, OneLess
    <3>2. /\ y \in s \ {z} /\ (s \ {z}) \ {y} = rest
          /\ z \in s \ {y} /\ (s \ {y}) \ {z} = rest
      BY <2>1, <2>3
    <3> HIDE DEF z, rest, Sum
    <3>3. Sum(s \ {z}) = f[y] + Sum(rest) /\ Sum(s \ {y}) = f[z] + Sum(rest)
      BY <1>2, <3>1, <3>2
    <3>4. Sum(rest) \in Int /\ f[y] \in Int /\ f[z] \in Int
      BY <1>0, <2>1 DEF rest
    <3> QED
      BY <2>1, <3>3, <3>4
  <2> QED
    BY <2>2, <2>3
<1>3. Nat \subseteq sizes
  <2> HIDE DEF sizes
  <2> QED
    BY <1>1, <1>2, NaturalsReached
<1> QED
  BY <1>0, <1>3

\* An element is added.
LEMMA SumAdd ==
    ASSUME NEW S, IsFiniteSet(S), NEW x, x \notin S, NEW f, \A y \in S \cup {x} : f[y] \in Int
    PROVE  SumFunctionOnSet(f, S \cup {x}) = f[x] + SumFunctionOnSet(f, S)
<1>1. IsFiniteSet(S \cup {x}) /\ x \in S \cup {x} /\ (S \cup {x}) \ {x} = S
  BY FS_AddElement
<1>2. SumFunctionOnSet(f, S \cup {x}) = f[x] + SumFunctionOnSet(f, (S \cup {x}) \ {x})
  BY <1>1, SumRemove
<1> QED
  BY <1>1, <1>2

\* What is nowhere less adds up to no less.
LEMMA SumMonotone ==
    ASSUME NEW S, IsFiniteSet(S), NEW f, NEW g,
           \A x \in S : f[x] \in Int /\ g[x] \in Int /\ f[x] <= g[x]
    PROVE  SumFunctionOnSet(f, S) <= SumFunctionOnSet(g, S)
<1> DEFINE T == {s \in SUBSET S : SumFunctionOnSet(f, s) <= SumFunctionOnSet(g, s)}
<1>1. {} \in T
  BY SumEmpty
<1>2. ASSUME NEW s \in SUBSET S, NEW x \in S \ s, s \in T PROVE s \cup {x} \in T
  <2>1. IsFiniteSet(s)
    BY FS_Subset
  <2>2. /\ SumFunctionOnSet(f, s) \in Int /\ SumFunctionOnSet(g, s) \in Int
        /\ SumFunctionOnSet(f, s \cup {x}) = f[x] + SumFunctionOnSet(f, s)
        /\ SumFunctionOnSet(g, s \cup {x}) = g[x] + SumFunctionOnSet(g, s)
    BY <2>1, SumAdd, SumInteger
  <2> QED
    BY <1>2, <2>2
<1>3. SUBSET S \subseteq T
  <2> HIDE DEF T
  <2> QED
    BY <1>1, <1>2, SubsetsReached
<1> QED
  BY <1>3

\* The sum of a difference.
LEMMA SumMinus ==
    ASSUME NEW S, IsFiniteSet(S), NEW f, NEW g, NEW h,
           \A x \in S : f[x] \in Int /\ g[x] \in Int /\ h[x] = f[x] - g[x]
    PROVE  SumFunctionOnSet(h, S) = SumFunctionOnSet(f, S) - SumFunctionOnSet(g, S)
<1> DEFINE T == {s \in SUBSET S : SumFunctionOnSet(h, s) =
                                      SumFunctionOnSet(f, s) - SumFunctionOnSet(g, s)}
<1>0. \A x \in S : h[x] \in Int
  OBVIOUS
<1>1. {} \in T
  BY SumEmpty
<1>2. ASSUME NEW s \in SUBSET S, NEW x \in S \ s, s \in T PROVE s \cup {x} \in T
  <2>1. IsFiniteSet(s)
    BY FS_Subset
  <2>2. /\ SumFunctionOnSet(f, s) \in Int /\ SumFunctionOnSet(g, s) \in Int
        /\ SumFunctionOnSet(f, s \cup {x}) = f[x] + SumFunctionOnSet(f, s)
        /\ SumFunctionOnSet(g, s \cup {x}) = g[x] + SumFunctionOnSet(g, s)
    BY <2>1, SumAdd, SumInteger
  <2>3. SumFunctionOnSet(h, s \cup {x}) = h[x] + SumFunctionOnSet(h, s)
    BY <1>0, <2>1, SumAdd
  <2>4. f[x] \in Int /\ g[x] \in Int /\ h[x] = f[x] - g[x]
    OBVIOUS
  <2> QED
    BY <1>2, <2>2, <2>3, <2>4
<1>3. SUBSET S \subseteq T
  <2> HIDE DEF T
  <2> QED
    BY <1>1, <1>2, SubsetsReached
<1> QED
  BY <1>3

\* The elements whose value is zero do not count.
LEMMA SumWithin ==
    ASSUME NEW S, IsFiniteSet(S), NEW T \in SUBSET S, NEW f, \A x \in S : f[x] \in Int,
           \A x \in S \ T : f[x] = 0
    PROVE  SumFunctionOnSet(f, S) = SumFunctionOnSet(f, T)
<1> DEFINE R == {s \in SUBSET (S \ T) : SumFunctionOnSet(f, T \cup s) = SumFunctionOnSet(f, T)}
<1>1. {} \in R
  <2>1. T \cup {} = T
    OBVIOUS
  <2> QED
    BY <2>1
<1>2. ASSUME NEW s \in SUBSET (S \ T), NEW x \in (S \ T) \ s, s \in R PROVE s \cup {x} \in R
  <2>1. T \cup s \in SUBSET S /\ x \notin T \cup s /\ (T \cup s) \cup {x} = T \cup (s \cup {x})
    OBVIOUS
  <2>2. IsFiniteSet(T \cup s)
    BY <2>1, FS_Subset
  <2>3. SumFunctionOnSet(f, T \cup s) \in Int
    BY <2>1, <2>2, SumInteger
  <2>4. SumFunctionOnSet(f, (T \cup s) \cup {x}) = f[x] + SumFunctionOnSet(f, T \cup s)
    BY <2>1, <2>2, SumAdd
  <2>5. f[x] = 0 /\ SumFunctionOnSet(f, T \cup s) = SumFunctionOnSet(f, T)
    BY <1>2
  <2>6. SumFunctionOnSet(f, (T \cup s) \cup {x}) = SumFunctionOnSet(f, T)
    BY <2>3, <2>4, <2>5
  <2>7. SumFunctionOnSet(f, T \cup (s \cup {x})) = SumFunctionOnSet(f, T)
    <3> DEFINE more == (T \cup s) \cup {x}
    <3>1. more = T \cup (s \cup {x})
      BY <2>1
    <3>2. SumFunctionOnSet(f, more) = SumFunctionOnSet(f, T)
      BY <2>6
    <3> HIDE DEF more
    <3> QED
      BY <3>1, <3>2
  <2>8. s \cup {x} \in SUBSET (S \ T)
    OBVIOUS
  <2> QED
    BY <2>7, <2>8
<1>3. IsFiniteSet(S \ T) /\ S \ T \in SUBSET (S \ T) /\ T \cup (S \ T) = S
  BY FS_Subset
<1>4. SUBSET (S \ T) \subseteq R
  <2> HIDE DEF R
  <2> QED
    BY <1>1, <1>2, <1>3, SubsetsReached
<1> QED
  BY <1>3, <1>4

\* A sum over a part is one over the whole, with nothing for the rest.
LEMMA SumOfPart ==
    ASSUME NEW S, IsFiniteSet(S), NEW T \in SUBSET S, NEW f, \A x \in T : f[x] \in Int,
           NEW g, \A x \in T : g[x] = f[x], \A x \in S \ T : g[x] = 0
    PROVE  SumFunctionOnSet(f, T) = SumFunctionOnSet(g, S)
<1>1. SumFunctionOnSet(f, T) = SumFunctionOnSet(g, T)
  BY FS_Subset, SumSame
<1>2. \A x \in S : g[x] \in Int
  OBVIOUS
<1>3. SumFunctionOnSet(g, S) = SumFunctionOnSet(g, T)
  BY <1>2, SumWithin
<1> QED
  BY <1>1, <1>3
=============================================================================
