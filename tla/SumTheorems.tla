------------------------------ MODULE SumTheorems ------------------------------
(***************************************************************************)
(* Sums over finite sets, as the community modules define them: what       *)
(* SumFunction adds up does not depend on the order in which the elements  *)
(* are chosen.  The induction behind it goes through the least element of  *)
(* a set of counterexamples, because the library's induction theorems take *)
(* a predicate as a parameter.                                             *)
(***************************************************************************)
EXTENDS Functions, FiniteSetTheorems, TLAPS

\* One step of the sum over s, where h has the sums over the subsets of s.
Body(f, s, h) == IF s = {} THEN 0 ELSE LET x == CHOOSE x \in s : TRUE IN f[x] + h[s \ {x}]

\* The sums over all subsets of S, as the recursive function of the community modules.
Table(f, S) == CHOOSE h : h = [s \in SUBSET S |-> Body(f, s, h)]

\* h has the sums over all subsets of S.
Computes(f, S, h) == \A s \in SUBSET S : h[s] = Body(f, s, h)

Small(S, n) == {s \in SUBSET S : Cardinality(s) <= n}

-----------------------------------------------------------------------------
\* Least elements.

\* A non-empty set of natural numbers has a least element.
LEMMA LeastNatural ==
  ASSUME NEW T \in SUBSET Nat, T # {}
  PROVE  \E m \in T : \A k \in T : m <= k
  <1> DEFINE R == {p \in Nat \X Nat : p[1] < p[2]}
  <1>1. IsWellFoundedOn(R, Nat)
    BY NatLessThanWellFounded DEF OpToRel
  <1> HIDE DEF R
  <1>2. PICK m \in T : \A k \in T : ~(<<k, m>> \in R)
    BY <1>1, WFMin
  <1>3. ASSUME NEW k \in T, k < m PROVE FALSE
    <2>1. <<k, m>> \in Nat \X Nat /\ <<k, m>>[1] < <<k, m>>[2]
      BY <1>3
    <2>2. <<k, m>> \in R
      BY <2>1 DEF R
    <2> QED
      BY <1>2, <2>2
  <1> QED
    BY <1>3

\* Induction over the subsets of a finite set: of the sets with a property one is such
\* that no set with one element less has it.
LEMMA LeastSubset ==
  ASSUME NEW S, IsFiniteSet(S), NEW T \in SUBSET (SUBSET S), T # {}
  PROVE  \E t \in T : \A x \in t : t \ {x} \notin T
  <1> DEFINE N == {Cardinality(t) : t \in T}
  <1>1. \A s \in SUBSET S : IsFiniteSet(s) /\ Cardinality(s) \in Nat
    BY FS_Subset, FS_CardinalityType
  <1>2. N \in SUBSET Nat /\ N # {}
    BY <1>1
  <1> HIDE DEF N
  <1>3. PICK m \in N : \A k \in N : m <= k
    BY <1>2, LeastNatural
  <1>4. PICK t \in T : m = Cardinality(t)
    BY <1>3 DEF N
  <1>5. ASSUME NEW x \in t, t \ {x} \in T PROVE FALSE
    <2>1. Cardinality(t \ {x}) = Cardinality(t) - 1
      BY <1>1, <1>4, FS_RemoveElement
    <2>2. Cardinality(t \ {x}) \in N
      BY <1>5 DEF N
    <2> QED
      BY <1>1, <1>3, <1>4, <2>1, <2>2
  <1> QED
    BY <1>5

-----------------------------------------------------------------------------
\* The table of sums.

\* A sum is an entry of the table of its set.
LEMMA SumIsTable == ASSUME NEW f, NEW S PROVE SumFunctionOnSet(f, S) = Table(f, S)[S]
  BY DEF SumFunctionOnSet, FoldFunctionOnSet, MapThenFoldSet, Table, Body

\* The recursive function exists: there is one over the sets of at most n elements for
\* every n.
LEMMA TableExists ==
  ASSUME NEW f, NEW S, IsFiniteSet(S)
  PROVE  \E h : h = [s \in SUBSET S |-> Body(f, s, h)]
  <1> DEFINE T == {n \in Nat : ~ \E h : h = [s \in Small(S, n) |-> Body(f, s, h)]}
  <1>0. \A s \in SUBSET S : /\ IsFiniteSet(s) /\ Cardinality(s) \in Nat
                            /\ Cardinality(s) <= Cardinality(S)
    BY FS_Subset, FS_CardinalityType
  <1>1. T = {}
    <2> SUFFICES ASSUME T # {} PROVE FALSE
      OBVIOUS
    <2>1. PICK m \in T : \A k \in T : m <= k
      BY LeastNatural
    <2>2. m # 0
      <3> SUFFICES ASSUME m = 0 PROVE FALSE
        OBVIOUS
      <3>1. \A s \in Small(S, 0) : s = {}
        BY <1>0, FS_EmptySet DEF Small
      <3> DEFINE h == [s \in Small(S, 0) |-> 0]
      <3>2. h = [s \in Small(S, 0) |-> Body(f, s, h)]
        BY <3>1 DEF Body
      <3> QED
        BY <2>1, <3>2
    <2>3. m \in Nat /\ m - 1 \in Nat /\ m - 1 \notin T
      BY <2>1, <2>2
    <2>4. PICK g : g = [s \in Small(S, m - 1) |-> Body(f, s, g)]
      BY <2>3
    <2> DEFINE h == [s \in Small(S, m) |-> Body(f, s, g)]
    <2>5. ASSUME NEW s \in Small(S, m) PROVE Body(f, s, h) = Body(f, s, g)
      <3>1. CASE s = {}
        BY <3>1 DEF Body
      <3>2. CASE s # {}
        <4> DEFINE x == CHOOSE x \in s : TRUE
        <4>1. x \in s
          BY <3>2
        <4>2. s \in SUBSET S /\ Cardinality(s) <= m
          BY DEF Small
        <4>3. Cardinality(s \ {x}) = Cardinality(s) - 1
          BY <1>0, <4>1, <4>2, FS_RemoveElement
        <4>4. s \ {x} \in Small(S, m - 1) /\ s \ {x} \in Small(S, m)
          BY <1>0, <2>3, <4>2, <4>3 DEF Small
        <4>5. h[s \ {x}] = Body(f, s \ {x}, g)
          BY <4>4
        <4>6. g[s \ {x}] = Body(f, s \ {x}, g)
          BY <2>4, <4>4
        <4> HIDE DEF x, h
        <4>7. h[s \ {x}] = g[s \ {x}]
          BY <4>5, <4>6
        <4>8. Body(f, s, h) = f[x] + h[s \ {x}] /\ Body(f, s, g) = f[x] + g[s \ {x}]
          BY <3>2 DEF Body, x
        <4> QED
          BY <4>7, <4>8
      <3> QED
        BY <3>1, <3>2
    <2>6. h = [s \in Small(S, m) |-> Body(f, s, h)]
      BY <2>5
    <2> QED
      BY <2>1, <2>6
  <1>2. Cardinality(S) \in Nat
    BY FS_CardinalityType
  <1>3. Small(S, Cardinality(S)) = SUBSET S
    BY <1>0 DEF Small
  <1> QED
    BY <1>1, <1>2, <1>3

\* The table satisfies the equation that defines it.
LEMMA TableEquation ==
  ASSUME NEW f, NEW S, IsFiniteSet(S), NEW s \in SUBSET S
  PROVE  Table(f, S)[s] = Body(f, s, Table(f, S))
  <1>1. Table(f, S) = [t \in SUBSET S |-> Body(f, t, Table(f, S))]
    BY TableExists DEF Table
  <1> QED
    BY <1>1

\* Tables of functions that agree on a set have the same entry for it.
LEMMA ComputesSame ==
  ASSUME NEW f, NEW g, NEW S, IsFiniteSet(S), \A x \in S : f[x] = g[x],
         NEW h, NEW k, Computes(f, S, h), Computes(g, S, k)
  PROVE  h[S] = k[S]
  <1> DEFINE T == {s \in SUBSET S : h[s] # k[s]}
  <1>1. T = {}
    <2> SUFFICES ASSUME T # {} PROVE FALSE
      OBVIOUS
    <2>1. PICK t \in T : \A x \in t : t \ {x} \notin T
      BY LeastSubset
    <2>2. t \in SUBSET S /\ h[t] = Body(f, t, h) /\ k[t] = Body(g, t, k)
      BY DEF Computes
    <2>3. CASE t = {}
      BY <2>2, <2>3 DEF Body
    <2>4. CASE t # {}
      <3> DEFINE x == CHOOSE x \in t : TRUE
      <3>1. x \in t
        BY <2>4
      <3>2. h[t \ {x}] = k[t \ {x}] /\ f[x] = g[x]
        BY <2>1, <2>2, <3>1
      <3>3. h[t] = f[x] + h[t \ {x}] /\ k[t] = g[x] + k[t \ {x}]
        BY <2>2, <2>4 DEF Body
      <3> QED
        BY <3>2, <3>3
    <2> QED
      BY <2>3, <2>4
  <1> QED
    BY <1>1

-----------------------------------------------------------------------------
\* What sums do.

\* Equal summands, equal sums.
LEMMA SumSame ==
  ASSUME NEW f, NEW g, NEW S, IsFiniteSet(S), \A x \in S : f[x] = g[x]
  PROVE  SumFunctionOnSet(f, S) = SumFunctionOnSet(g, S)
  <1>1. Computes(f, S, Table(f, S)) /\ Computes(g, S, Table(g, S))
    BY TableEquation DEF Computes
  <1> HIDE DEF Table
  <1> QED
    BY <1>1, ComputesSame, SumIsTable

\* The sum of a subset is the same in a smaller table.
LEMMA TableOfSubset ==
  ASSUME NEW f, NEW S, IsFiniteSet(S), NEW s \in SUBSET S
  PROVE  SumFunctionOnSet(f, s) = Table(f, S)[s]
  <1>1. IsFiniteSet(s)
    BY FS_Subset
  <1>2. Computes(f, s, Table(f, S)) /\ Computes(f, s, Table(f, s))
    BY <1>1, TableEquation DEF Computes
  <1> QED
    BY <1>1, <1>2, ComputesSame, SumIsTable

\* The sum over the empty set is zero.
LEMMA SumEmpty == ASSUME NEW f PROVE SumFunctionOnSet(f, {}) = 0
  BY FS_EmptySet, TableEquation, SumIsTable DEF Body

\* The sum over a set is the chosen element's summand and the sum over the rest.
LEMMA SumStep ==
  ASSUME NEW f, NEW S, IsFiniteSet(S), S # {}
  PROVE  LET x == CHOOSE x \in S : TRUE
         IN  x \in S /\ SumFunctionOnSet(f, S) = f[x] + SumFunctionOnSet(f, S \ {x})
  <1> DEFINE x == CHOOSE x \in S : TRUE
  <1>1. x \in S /\ S \ {x} \in SUBSET S /\ S \in SUBSET S
    OBVIOUS
  <1>2. Table(f, S)[S] = Body(f, S, Table(f, S))
    BY <1>1, TableEquation
  <1>3. Table(f, S)[S] = f[x] + Table(f, S)[S \ {x}]
    BY <1>2 DEF Body
  <1>4. /\ Table(f, S)[S] = SumFunctionOnSet(f, S)
        /\ Table(f, S)[S \ {x}] = SumFunctionOnSet(f, S \ {x})
    BY <1>1, TableOfSubset, SumIsTable
  <1> QED
    BY <1>1, <1>3, <1>4

\* The sum of integers is an integer.
LEMMA SumType ==
  ASSUME NEW f, NEW S, IsFiniteSet(S), \A x \in S : f[x] \in Int
  PROVE  SumFunctionOnSet(f, S) \in Int
  <1> DEFINE T == {s \in SUBSET S : SumFunctionOnSet(f, s) \notin Int}
  <1>1. T = {}
    <2> SUFFICES ASSUME T # {} PROVE FALSE
      OBVIOUS
    <2>1. PICK t \in T : \A x \in t : t \ {x} \notin T
      BY LeastSubset
    <2>0. SumFunctionOnSet(f, {}) \in Int
      BY SumEmpty
    <2>2. IsFiniteSet(t) /\ t \in SUBSET S /\ t # {}
      BY <2>0, FS_Subset
    <2>3. PICK x \in t : SumFunctionOnSet(f, t) = f[x] + SumFunctionOnSet(f, t \ {x})
      BY <2>2, SumStep
    <2>4. SumFunctionOnSet(f, t \ {x}) \in Int /\ f[x] \in Int
      BY <2>1, <2>2
    <2> QED
      BY <2>3, <2>4
  <1> QED
    BY <1>1

\* Any element can be taken out first.
LEMMA SumRemove ==
  ASSUME NEW f, NEW S, IsFiniteSet(S), \A x \in S : f[x] \in Int, NEW e \in S
  PROVE  SumFunctionOnSet(f, S) = f[e] + SumFunctionOnSet(f, S \ {e})
  <1> DEFINE Apart(s, d) == SumFunctionOnSet(f, s) = f[d] + SumFunctionOnSet(f, s \ {d})
             T == {s \in SUBSET S : \E d \in s : ~Apart(s, d)}
  <1>1. T = {}
    <2> SUFFICES ASSUME T # {} PROVE FALSE
      OBVIOUS
    <2>1. PICK t \in T : \A x \in t : t \ {x} \notin T
      BY LeastSubset
    <2>2. PICK d \in t : ~Apart(t, d)
      OBVIOUS
    <2>3. IsFiniteSet(t) /\ t \in SUBSET S /\ t # {}
      BY FS_Subset
    <2>4. PICK x \in t : Apart(t, x)
      <3>1. (CHOOSE x \in t : TRUE) \in t /\ Apart(t, CHOOSE x \in t : TRUE)
        BY <2>3, SumStep
      <3> QED
        BY <3>1
    <2>5. x # d
      BY <2>2, <2>4
    <2>6. \A y \in t, z \in t : y # z => Apart(t \ {y}, z)
      BY <2>1, <2>3
    <2>7. (t \ {x}) \ {d} = (t \ {d}) \ {x}
      OBVIOUS
    <2> DEFINE rest == SumFunctionOnSet(f, (t \ {x}) \ {d})
    <2>8. /\ SumFunctionOnSet(f, t \ {x}) = f[d] + rest
          /\ SumFunctionOnSet(f, t \ {d}) = f[x] + rest
      BY <2>5, <2>6, <2>7
    <2>9. rest \in Int /\ f[x] \in Int /\ f[d] \in Int
      <3>1. IsFiniteSet((t \ {x}) \ {d}) /\ (t \ {x}) \ {d} \in SUBSET S
        BY <2>3, FS_Subset
      <3> QED
        BY <2>3, <3>1, SumType
    <2> HIDE DEF rest
    <2> QED
      BY <2>2, <2>4, <2>8, <2>9
  <1> QED
    BY <1>1

\* A new element adds its summand.
LEMMA SumAdd ==
  ASSUME NEW f, NEW S, IsFiniteSet(S), NEW e, e \notin S, \A x \in S \cup {e} : f[x] \in Int
  PROVE  SumFunctionOnSet(f, S \cup {e}) = f[e] + SumFunctionOnSet(f, S)
  <1>1. IsFiniteSet(S \cup {e}) /\ (S \cup {e}) \ {e} = S
    BY FS_AddElement
  <1> QED
    BY <1>1, SumRemove

\* Where one summand changes, so does the sum, by as much.
LEMMA SumChange ==
  ASSUME NEW f, NEW g, NEW S, IsFiniteSet(S), NEW e \in S,
         \A x \in S : f[x] \in Int /\ g[x] \in Int,
         \A x \in S \ {e} : f[x] = g[x]
  PROVE  SumFunctionOnSet(g, S) = SumFunctionOnSet(f, S) + (g[e] - f[e])
  <1>1. IsFiniteSet(S \ {e})
    BY FS_Subset
  <1>2. SumFunctionOnSet(f, S) = f[e] + SumFunctionOnSet(f, S \ {e})
    BY SumRemove
  <1>3. SumFunctionOnSet(g, S) = g[e] + SumFunctionOnSet(g, S \ {e})
    BY SumRemove
  <1>4. SumFunctionOnSet(f, S \ {e}) = SumFunctionOnSet(g, S \ {e})
    BY <1>1, SumSame
  <1>5. SumFunctionOnSet(f, S \ {e}) \in Int
    BY <1>1, SumType
  <1> QED
    BY <1>2, <1>3, <1>4, <1>5

\* Summands that are not negative: a subset sums to no more.
LEMMA SumOfSubset ==
  ASSUME NEW f, NEW S, IsFiniteSet(S), \A x \in S : f[x] \in Nat, NEW R \in SUBSET S
  PROVE  SumFunctionOnSet(f, R) <= SumFunctionOnSet(f, S)
  <1> DEFINE T == {s \in SUBSET S : R \subseteq s
                     /\ ~(SumFunctionOnSet(f, R) <= SumFunctionOnSet(f, s))}
  <1>0. \A s \in SUBSET S : IsFiniteSet(s) /\ SumFunctionOnSet(f, s) \in Int
    BY FS_Subset, SumType
  <1>1. T = {}
    <2> SUFFICES ASSUME T # {} PROVE FALSE
      OBVIOUS
    <2>1. PICK t \in T : \A x \in t : t \ {x} \notin T
      <3>1. T \in SUBSET (SUBSET S)
        OBVIOUS
      <3> HIDE DEF T
      <3> QED
        BY <3>1, LeastSubset
    <2>2. t # R
      BY <1>0
    <2>3. PICK x \in t : x \notin R
      BY <2>2
    <2>4. SumFunctionOnSet(f, R) <= SumFunctionOnSet(f, t \ {x})
      BY <2>1, <2>3
    <2>5. SumFunctionOnSet(f, t) = f[x] + SumFunctionOnSet(f, t \ {x})
      BY <1>0, SumRemove
    <2>6. t \ {x} \in SUBSET S /\ x \in S
      OBVIOUS
    <2> QED
      BY <1>0, <2>4, <2>5, <2>6
  <1> QED
    BY <1>1

-----------------------------------------------------------------------------
\* The same for the sum of all values of a function.

\* The sum of integers is an integer.
LEMMA SumFunctionType ==
  ASSUME NEW f, IsFiniteSet(DOMAIN f), \A x \in DOMAIN f : f[x] \in Int
  PROVE  SumFunction(f) \in Int
  BY SumType DEF SumFunction

\* The empty sum is zero.
LEMMA SumFunctionEmpty == ASSUME NEW f, DOMAIN f = {} PROVE SumFunction(f) = 0
  BY SumEmpty DEF SumFunction

\* A function with one more value adds that value.
LEMMA SumFunctionExtend ==
  ASSUME NEW f, NEW g, NEW e, IsFiniteSet(DOMAIN f),
         e \notin DOMAIN f, DOMAIN g = DOMAIN f \cup {e},
         \A x \in DOMAIN g : g[x] \in Int, \A x \in DOMAIN f : g[x] = f[x]
  PROVE  SumFunction(g) = SumFunction(f) + g[e]
  <1>1. SumFunctionOnSet(g, DOMAIN g) = g[e] + SumFunctionOnSet(g, DOMAIN f)
    BY SumAdd
  <1>2. SumFunctionOnSet(g, DOMAIN f) = SumFunctionOnSet(f, DOMAIN f)
    BY SumSame
  <1>3. SumFunctionOnSet(f, DOMAIN f) \in Int /\ g[e] \in Int
    BY SumType
  <1> QED
    BY <1>1, <1>2, <1>3 DEF SumFunction

\* A function with one value changed sums to that much more or less.
LEMMA SumFunctionChange ==
  ASSUME NEW f, NEW g, NEW e \in DOMAIN f, IsFiniteSet(DOMAIN f), DOMAIN g = DOMAIN f,
         \A x \in DOMAIN f : f[x] \in Int /\ g[x] \in Int,
         \A x \in DOMAIN f \ {e} : f[x] = g[x]
  PROVE  SumFunction(g) = SumFunction(f) + (g[e] - f[e])
  BY SumChange DEF SumFunction

\* A function with fewer values, none of them negative, sums to no more.
LEMMA SumFunctionFewer ==
  ASSUME NEW f, NEW g, IsFiniteSet(DOMAIN f), \A x \in DOMAIN f : f[x] \in Nat,
         DOMAIN g \subseteq DOMAIN f, \A x \in DOMAIN g : g[x] = f[x]
  PROVE  SumFunction(g) <= SumFunction(f)
  <1>1. IsFiniteSet(DOMAIN g)
    BY FS_Subset
  <1>2. SumFunctionOnSet(g, DOMAIN g) = SumFunctionOnSet(f, DOMAIN g)
    BY <1>1, SumSame
  <1>3. SumFunctionOnSet(f, DOMAIN g) <= SumFunctionOnSet(f, DOMAIN f)
    BY SumOfSubset
  <1> QED
    BY <1>2, <1>3 DEF SumFunction

-----------------------------------------------------------------------------
\* A finite non-empty set of integers has a greatest element.
LEMMA Greatest ==
  ASSUME NEW S \in SUBSET Int, IsFiniteSet(S), S # {}
  PROVE  \E m \in S : \A x \in S : x <= m
  <1> DEFINE Bounded(s) == \E m \in s : \A x \in s : x <= m
             T == {s \in SUBSET S : s # {} /\ ~Bounded(s)}
  <1>1. T = {}
    <2> SUFFICES ASSUME T # {} PROVE FALSE
      OBVIOUS
    <2>1. PICK t \in T : \A x \in t : t \ {x} \notin T
      <3>1. T \in SUBSET (SUBSET S)
        OBVIOUS
      <3> HIDE DEF T
      <3> QED
        BY <3>1, LeastSubset
    <2>2. PICK x \in t : TRUE
      OBVIOUS
    <2>3. t \in SUBSET Int /\ x \in Int
      OBVIOUS
    <2>4. CASE t \ {x} = {}
      <3>1. \A y \in t : y <= x
        BY <2>3, <2>4
      <3> QED
        BY <3>1
    <2>5. CASE t \ {x} # {}
      <3>1. PICK m \in t \ {x} : \A y \in t \ {x} : y <= m
        BY <2>1, <2>5
      <3>2. CASE x <= m
        BY <2>3, <3>1, <3>2
      <3>3. CASE ~(x <= m)
        <4>1. \A y \in t : y <= x
          BY <2>3, <3>1, <3>3
        <4> QED
          BY <4>1
      <3> QED
        BY <3>2, <3>3
    <2> QED
      BY <2>4, <2>5
  <1> QED
    BY <1>1

\* A function on a finite set has finitely many values.
LEMMA FinitelyManyValues ==
  ASSUME NEW f, IsFiniteSet(DOMAIN f), f = [x \in DOMAIN f |-> f[x]]
  PROVE  IsFiniteSet({f[x] : x \in DOMAIN f})
  <1> DEFINE T == {f[x] : x \in DOMAIN f}
  <1>1. f \in Surjection(DOMAIN f, T)
    BY DEF Surjection
  <1> QED
    BY <1>1, FS_Surjection
=============================================================================
