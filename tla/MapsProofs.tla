------------------------------ MODULE MapsProofs ------------------------------
(***************************************************************************)
(* What the provers know of maps and sequences: writing and deleting keys, *)
(* appending and removing elements, and the total of a map over a finite   *)
(* set of keys.  The induction theorems of the library are stated for an   *)
(* operator, which no installed prover instantiates; each induction below  *)
(* is therefore the choice of a smallest counterexample, in a set.         *)
(***************************************************************************)
EXTENDS Maps, Integers, Sequences, FiniteSetTheorems, SequenceTheorems, TLAPS

-----------------------------------------------------------------------------
(* Maps.                                                                    *)

\* Writing a key of a map keeps it a map and adds no other key.
LEMMA PutMap ==
    ASSUME NEW D, NEW R, NEW m, IsMap(m, D, R), NEW k \in D, NEW v \in R
    PROVE  /\ IsMap(Put(m, k, v), D, R)
           /\ DOMAIN Put(m, k, v) = DOMAIN m \cup {k}
           /\ \A x \in DOMAIN m \cup {k} : Put(m, k, v)[x] = IF x = k THEN v ELSE m[x]
  BY DEF IsMap, Put

\* Deleting keys of a map keeps it a map and leaves the other keys alone.
LEMMA WithoutMap ==
    ASSUME NEW D, NEW R, NEW m, IsMap(m, D, R), NEW K
    PROVE  /\ IsMap(Without(m, K), D, R)
           /\ DOMAIN Without(m, K) = DOMAIN m \ K
           /\ \A x \in DOMAIN m \ K : Without(m, K)[x] = m[x]
  BY DEF IsMap, Without, Restrict

\* Selecting keys of a map keeps it a map.
LEMMA RestrictMap ==
    ASSUME NEW D, NEW R, NEW Q, NEW m, IsMap(m, D, R), NEW K \in SUBSET DOMAIN m,
           \A x \in K : m[x] \in Q
    PROVE  /\ IsMap(Restrict(m, K), D, Q)
           /\ DOMAIN Restrict(m, K) = K
           /\ \A x \in K : Restrict(m, K)[x] = m[x]
  BY DEF IsMap, Restrict

\* The empty map is a map.
LEMMA EmptyIsMap == ASSUME NEW D, NEW R PROVE IsMap(EmptyMap, D, R) /\ DOMAIN EmptyMap = {}
  BY DEF IsMap, EmptyMap

\* Changing the value of a key that is present keeps a map and its keys.
LEMMA ExceptMap ==
    ASSUME NEW D, NEW R, NEW m, IsMap(m, D, R), NEW k \in DOMAIN m, NEW v \in R
    PROVE  /\ IsMap([m EXCEPT ![k] = v], D, R)
           /\ DOMAIN [m EXCEPT ![k] = v] = DOMAIN m
  BY DEF IsMap

-----------------------------------------------------------------------------
(* Smallest elements.                                                       *)

\* A set of natural numbers that is not empty has a smallest element.
LEMMA LeastNat ==
    ASSUME NEW T \in SUBSET Nat, T # {}
    PROVE  \E m \in T : \A n \in T : m <= n
<1> DEFINE R == OpToRel(<, Nat)
<1>1. \A m, n \in Nat : n < m => <<n, m>> \in R
    BY DEF OpToRel
<1>2. IsWellFoundedOn(R, Nat)
    BY NatLessThanWellFounded
<1> HIDE DEF R
<1>3. PICK m \in T : \A n \in T : ~ (<<n, m>> \in R)
    BY <1>2, WFMin
<1>4. \A n \in T : ~ (n < m)
    BY <1>1, <1>3
<1>5. \A n \in T : m <= n
    BY <1>4
<1> QED BY <1>5

\* A set of finite sets that is not empty has an element with no other below.
LEMMA LeastSubset ==
    ASSUME NEW S, IsFiniteSet(S), NEW T \in SUBSET SUBSET S, T # {}
    PROVE  \E U \in T : \A V \in T : V \subseteq U => V = U
<1>1. IsWellFoundedOn(StrictSubsetOrdering(S), SUBSET S)
    BY FS_StrictSubsetOrderingWellFounded, FS_FiniteSubsetsOfFinite
<1>2. \E U \in T : \A V \in T : ~ (<<V, U>> \in StrictSubsetOrdering(S))
    BY <1>1, WFMin
<1>3. \A U, V \in SUBSET S :
          V \subseteq U /\ V # U => <<V, U>> \in StrictSubsetOrdering(S)
    BY DEF StrictSubsetOrdering
<1> QED BY <1>2, <1>3

-----------------------------------------------------------------------------
(* The recursive function behind the sum.                                   *)

First(s) == CHOOSE x \in s : TRUE
Unfolds(g, f, s) == g[s] = IF s = {} THEN 0 ELSE f[First(s)] + g[s \ {First(s)}]
Table(f, S) ==
    CHOOSE g : g = [s \in SUBSET S |-> IF s = {} THEN 0
                                       ELSE f[First(s)] + g[s \ {First(s)}]]

LEMMA FirstIn == ASSUME NEW s, s # {} PROVE First(s) \in s
BY DEF First

LEMMA SumIsInTable == ASSUME NEW f, NEW S PROVE SumOver(f, S) = Table(f, S)[S]
BY DEF SumOver, MapThenSumSet, MapThenFoldSet, Table, First

\* For every bound on the size of its arguments there is a table.
LEMMA TableUpTo ==
    ASSUME NEW f, NEW S, IsFiniteSet(S), NEW n \in Nat
    PROVE  \E g : /\ g = [s \in SUBSET S |-> g[s]]
                  /\ \A s \in SUBSET S : Cardinality(s) <= n => Unfolds(g, f, s)
<1> DEFINE Good(m) == \E g : /\ g = [s \in SUBSET S |-> g[s]]
                             /\ \A s \in SUBSET S : Cardinality(s) <= m => Unfolds(g, f, s)
           Bad == { m \in Nat : ~Good(m) }
<1>a. \A s \in SUBSET S : IsFiniteSet(s) /\ Cardinality(s) \in Nat
    BY FS_Subset, FS_CardinalityType
<1>b. \A s \in SUBSET S : s # {} =>
          /\ s \ {First(s)} \in SUBSET S
          /\ Cardinality(s \ {First(s)}) = Cardinality(s) - 1
          /\ Cardinality(s) # 0
    BY <1>a, FirstIn, FS_RemoveElement, FS_EmptySet
<1>1. Good(0)
    <2> DEFINE z == [s \in SUBSET S |-> 0]
    <2>1. \A s \in SUBSET S : Cardinality(s) <= 0 => s = {}
        <3>1. ASSUME NEW s \in SUBSET S, Cardinality(s) <= 0 PROVE s = {}
            <4>1. Cardinality(s) = 0  BY <1>a, <3>1
            <4> QED BY <4>1, <1>a, FS_EmptySet
        <3> QED BY <3>1
    <2>2. z = [s \in SUBSET S |-> z[s]]  OBVIOUS
    <2>3. \A s \in SUBSET S : Cardinality(s) <= 0 => Unfolds(z, f, s)
        BY <2>1 DEF Unfolds
    <2> QED BY <2>2, <2>3
<1>2. ASSUME NEW m \in Nat, Good(m) PROVE Good(m + 1)
    <2>1. PICK g : /\ g = [s \in SUBSET S |-> g[s]]
                   /\ \A s \in SUBSET S : Cardinality(s) <= m => Unfolds(g, f, s)
        BY <1>2
    <2> DEFINE h == [s \in SUBSET S |->
                        IF Cardinality(s) <= m THEN g[s]
                        ELSE f[First(s)] + g[s \ {First(s)}]]
    <2>2. h = [s \in SUBSET S |-> h[s]]  OBVIOUS
    <2>3. ASSUME NEW s \in SUBSET S, Cardinality(s) <= m + 1 PROVE Unfolds(h, f, s)
        <3>1. CASE s = {}
            <4>1. Cardinality(s) <= m  BY <3>1, FS_EmptySet
            <4>2. h[s] = g[s]  BY <4>1
            <4> QED BY <4>1, <4>2, <2>1, <3>1 DEF Unfolds
        <3>2. CASE s # {}
            <4> DEFINE t == s \ {First(s)}
            <4>1. t \in SUBSET S /\ Cardinality(t) <= m
                BY <3>2, <1>a, <1>b, <2>3
            <4>2. h[t] = g[t]  BY <4>1
            <4>3. h[s] = f[First(s)] + g[t]
                <5>1. CASE Cardinality(s) <= m
                    BY <5>1, <2>1, <3>2 DEF Unfolds
                <5>2. CASE ~(Cardinality(s) <= m)
                    BY <5>2
                <5> QED BY <5>1, <5>2
            <4> QED BY <4>2, <4>3, <3>2 DEF Unfolds
        <3> QED BY <3>1, <3>2
    <2> QED BY <2>2, <2>3
<1>3. Bad = {}
    <2> SUFFICES ASSUME Bad # {} PROVE FALSE  OBVIOUS
    <2> HIDE DEF Good
    <2>1. PICK m \in Bad : \A k \in Bad : m <= k
        BY LeastNat
    <2>2. m \in Nat /\ m # 0 /\ ~Good(m)  BY <1>1
    <2>3. m - 1 \in Nat /\ m - 1 \notin Bad  BY <2>1, <2>2
    <2> QED BY <1>2, <2>2, <2>3
<1> QED BY <1>3

\* The table of a finite set has the value that defines it.
LEMMA TableUnfolds ==
    ASSUME NEW f, NEW S, IsFiniteSet(S)
    PROVE  \A s \in SUBSET S : Unfolds(Table(f, S), f, s)
<1>1. \A s \in SUBSET S : Cardinality(s) \in Nat /\ Cardinality(s) <= Cardinality(S)
    BY FS_Subset, FS_CardinalityType
<1>2. PICK g : /\ g = [s \in SUBSET S |-> g[s]]
               /\ \A s \in SUBSET S : Cardinality(s) <= Cardinality(S) => Unfolds(g, f, s)
    BY <1>1, TableUpTo, FS_CardinalityType
<1>3. g = [s \in SUBSET S |-> IF s = {} THEN 0 ELSE f[First(s)] + g[s \ {First(s)}]]
    BY <1>1, <1>2 DEF Unfolds
<1>4. Table(f, S) = [s \in SUBSET S |->
            IF s = {} THEN 0 ELSE f[First(s)] + Table(f, S)[s \ {First(s)}]]
    BY <1>3 DEF Table
<1> QED BY <1>4 DEF Unfolds

\* Two tables agree where both are defined.
LEMMA TablesAgree ==
    ASSUME NEW f, NEW S, IsFiniteSet(S), NEW T \in SUBSET S
    PROVE  Table(f, S)[T] = Table(f, T)[T]
<1> DEFINE Bad == { s \in SUBSET T : Table(f, S)[s] # Table(f, T)[s] }
<1>1. IsFiniteSet(T)  BY FS_Subset
<1>2. Bad = {}
    <2> SUFFICES ASSUME Bad # {} PROVE FALSE  OBVIOUS
    <2>0. Bad \in SUBSET SUBSET T  OBVIOUS
    <2>1. PICK s \in Bad : \A t \in Bad : t \subseteq s => t = s
        <3> HIDE DEF Bad
        <3> QED BY <1>1, <2>0, LeastSubset
    <2>2. Unfolds(Table(f, S), f, s) /\ Unfolds(Table(f, T), f, s)
        BY <1>1, TableUnfolds
    <2>3. CASE s = {}
        BY <2>2, <2>3 DEF Unfolds
    <2>4. CASE s # {}
        <3> DEFINE t == s \ {First(s)}
        <3>1. t \subseteq s /\ t # s /\ t \in SUBSET T  BY <2>4, FirstIn
        <3>2. Table(f, S)[t] = Table(f, T)[t]  BY <2>1, <3>1
        <3> QED BY <2>2, <2>4, <3>2 DEF Unfolds
    <2> QED BY <2>3, <2>4
<1> QED BY <1>2

-----------------------------------------------------------------------------
(* Sums.                                                                    *)

\* The sum over a finite set, by the element the fold takes first.
LEMMA SumUnfolds ==
    ASSUME NEW f, NEW S, IsFiniteSet(S)
    PROVE  SumOver(f, S) = IF S = {} THEN 0 ELSE f[First(S)] + SumOver(f, S \ {First(S)})
<1>1. Unfolds(Table(f, S), f, S)  BY TableUnfolds
<1>2. CASE S = {}  BY <1>1, <1>2, SumIsInTable DEF Unfolds
<1>3. CASE S # {}
    <2>1. Table(f, S)[S \ {First(S)}] = SumOver(f, S \ {First(S)})
        BY TablesAgree, SumIsInTable
    <2> QED BY <1>1, <1>3, <2>1, SumIsInTable DEF Unfolds
<1> QED BY <1>2, <1>3

LEMMA SumEmpty == ASSUME NEW f PROVE SumOver(f, {}) = 0
BY SumUnfolds, FS_EmptySet

\* A sum of integers is one.
LEMMA SumInt ==
    ASSUME NEW f, NEW S, IsFiniteSet(S), \A x \in S : f[x] \in Int
    PROVE  SumOver(f, S) \in Int
<1> DEFINE Bad == { s \in SUBSET S : SumOver(f, s) \notin Int }
<1>1. Bad = {}
    <2> SUFFICES ASSUME Bad # {} PROVE FALSE  OBVIOUS
    <2>0. Bad \in SUBSET SUBSET S  OBVIOUS
    <2>1. PICK s \in Bad : \A t \in Bad : t \subseteq s => t = s
        <3> HIDE DEF Bad
        <3> QED BY <2>0, LeastSubset
    <2>2. s \in SUBSET S /\ IsFiniteSet(s)  BY FS_Subset
    <2>3. s # {}  BY <2>2, SumEmpty
    <2> DEFINE t == s \ {First(s)}
    <2>4. First(s) \in S /\ t \subseteq s /\ t # s /\ t \in SUBSET S
        BY <2>2, <2>3, FirstIn
    <2>5. SumOver(f, t) \in Int  BY <2>1, <2>4
    <2>6. SumOver(f, s) = f[First(s)] + SumOver(f, t)  BY <2>2, <2>3, SumUnfolds
    <2>7. SumOver(f, s) \in Int  BY <2>4, <2>5, <2>6
    <2> QED BY <2>7
<1> QED BY <1>1

\* The sum over a set is any one of its elements and the sum over the others.
LEMMA SumRemove ==
    ASSUME NEW f, NEW S, IsFiniteSet(S), \A x \in S : f[x] \in Int, NEW y \in S
    PROVE  SumOver(f, S) = f[y] + SumOver(f, S \ {y})
<1> DEFINE Bad == { s \in SUBSET S :
                      \E z \in s : SumOver(f, s) # f[z] + SumOver(f, s \ {z}) }
<1>1. Bad = {}
    <2> SUFFICES ASSUME Bad # {} PROVE FALSE  OBVIOUS
    <2>0. Bad \in SUBSET SUBSET S  OBVIOUS
    <2>1. PICK s \in Bad : \A t \in Bad : t \subseteq s => t = s
        <3> HIDE DEF Bad
        <3> QED BY <2>0, LeastSubset
    <2>2. PICK z \in s : SumOver(f, s) # f[z] + SumOver(f, s \ {z})  OBVIOUS
    <2>3. s \in SUBSET S /\ s # {}  BY <2>2
    <2>4. \A t \in SUBSET s : IsFiniteSet(t) /\ SumOver(f, t) \in Int
        BY <2>3, FS_Subset, SumInt
    <2> DEFINE x == First(s)
               u == s \ {x}
               v == s \ {z}
               w == (s \ {x}) \ {z}
    <2>5. x \in s  BY <2>3, FirstIn
    <2>6. SumOver(f, s) = f[x] + SumOver(f, u)  BY <2>3, <2>4, SumUnfolds
    <2>7. x # z  BY <2>2, <2>6
    <2> HIDE DEF x
    <2>8. SumOver(f, u) = f[z] + SumOver(f, w)
        <3>1. u \in SUBSET S /\ u \subseteq s /\ u # s /\ z \in u  BY <2>3, <2>5, <2>7
        <3>2. u \notin Bad  BY <2>1, <3>1
        <3> QED BY <3>1, <3>2
    <2>9. SumOver(f, v) = f[x] + SumOver(f, w)
        <3>1. v \in SUBSET S /\ v \subseteq s /\ v # s /\ x \in v  BY <2>3, <2>5, <2>7
        <3>2. v \notin Bad  BY <2>1, <3>1
        <3>3. v \ {x} = w  OBVIOUS
        <3> QED BY <3>1, <3>2, <3>3
    <2>10. f[x] \in Int /\ f[z] \in Int /\ SumOver(f, w) \in Int
        BY <2>3, <2>4, <2>5
    <2>11. SumOver(f, s) = f[z] + SumOver(f, v)
        BY <2>6, <2>8, <2>9, <2>10
    <2> QED BY <2>2, <2>11
<1> QED BY <1>1

LEMMA SumAdd ==
    ASSUME NEW f, NEW S, IsFiniteSet(S), NEW y, y \notin S,
           \A x \in S \cup {y} : f[x] \in Int
    PROVE  SumOver(f, S \cup {y}) = f[y] + SumOver(f, S)
<1>1. IsFiniteSet(S \cup {y})  BY FS_AddElement
<1>2. (S \cup {y}) \ {y} = S  OBVIOUS
<1> QED BY <1>1, <1>2, SumRemove

\* Sums over the same keys compare like the values.
LEMMA SumMonotone ==
    ASSUME NEW f, NEW g, NEW S, IsFiniteSet(S),
           \A x \in S : f[x] \in Int /\ g[x] \in Int /\ f[x] <= g[x]
    PROVE  SumOver(f, S) <= SumOver(g, S)
<1> DEFINE Bad == { s \in SUBSET S : ~ (SumOver(f, s) <= SumOver(g, s)) }
<1>1. Bad = {}
    <2> SUFFICES ASSUME Bad # {} PROVE FALSE  OBVIOUS
    <2>0. Bad \in SUBSET SUBSET S  OBVIOUS
    <2>1. PICK s \in Bad : \A t \in Bad : t \subseteq s => t = s
        <3> HIDE DEF Bad
        <3> QED BY <2>0, LeastSubset
    <2>2. s \in SUBSET S /\ IsFiniteSet(s)  BY FS_Subset
    <2>3. s # {}  BY <2>2, SumEmpty
    <2> DEFINE t == s \ {First(s)}
    <2>4. First(s) \in s /\ t \subseteq s /\ t # s /\ t \in SUBSET S /\ IsFiniteSet(t)
        BY <2>2, <2>3, FirstIn, FS_Subset
    <2>5. SumOver(f, t) <= SumOver(g, t)  BY <2>1, <2>4
    <2>6. /\ SumOver(f, s) = f[First(s)] + SumOver(f, t)
          /\ SumOver(g, s) = g[First(s)] + SumOver(g, t)
        BY <2>2, <2>3, SumUnfolds
    <2>7. SumOver(f, t) \in Int /\ SumOver(g, t) \in Int
        BY <2>4, SumInt
    <2>8. f[First(s)] \in Int /\ g[First(s)] \in Int /\ f[First(s)] <= g[First(s)]
        BY <2>2, <2>4
    <2> HIDE DEF t
    <2>9. SumOver(f, s) <= SumOver(g, s)
        BY <2>5, <2>6, <2>7, <2>8
    <2> QED BY <2>9
<1> QED BY <1>1

\* Maps that agree on the keys have the same sum.
LEMMA SumSame ==
    ASSUME NEW f, NEW g, NEW S, IsFiniteSet(S),
           \A x \in S : f[x] \in Int /\ f[x] = g[x]
    PROVE  SumOver(f, S) = SumOver(g, S)
<1>1. SumOver(f, S) <= SumOver(g, S) /\ SumOver(g, S) <= SumOver(f, S)
    BY SumMonotone
<1>2. SumOver(f, S) \in Int /\ SumOver(g, S) \in Int
    BY SumInt
<1> QED BY <1>1, <1>2

\* A sum of natural numbers is one, and none of them exceeds it.
LEMMA SumNat ==
    ASSUME NEW f, NEW S, IsFiniteSet(S), \A x \in S : f[x] \in Nat
    PROVE  SumOver(f, S) \in Nat /\ \A x \in S : f[x] <= SumOver(f, S)
<1>1. \A T \in SUBSET S : SumOver(f, T) \in Nat
    <2> SUFFICES ASSUME NEW T \in SUBSET S PROVE SumOver(f, T) \in Nat  OBVIOUS
    <2> DEFINE Bad == { s \in SUBSET S : SumOver(f, s) \notin Nat }
    <2>1. Bad = {}
        <3> SUFFICES ASSUME Bad # {} PROVE FALSE  OBVIOUS
        <3>0. Bad \in SUBSET SUBSET S  OBVIOUS
        <3>1. PICK s \in Bad : \A t \in Bad : t \subseteq s => t = s
            <4> HIDE DEF Bad
            <4> QED BY <3>0, LeastSubset
        <3>2. s \in SUBSET S /\ IsFiniteSet(s)  BY FS_Subset
        <3>3. s # {}  BY <3>2, SumEmpty
        <3> DEFINE t == s \ {First(s)}
        <3>4. First(s) \in s /\ t \subseteq s /\ t # s /\ t \in SUBSET S
            BY <3>2, <3>3, FirstIn
        <3>5. SumOver(f, t) \in Nat  BY <3>1, <3>4
        <3>6. SumOver(f, s) = f[First(s)] + SumOver(f, t)
            BY <3>2, <3>3, SumUnfolds
        <3>7. SumOver(f, s) \in Nat  BY <3>2, <3>4, <3>5, <3>6
        <3> QED BY <3>7
    <2> QED BY <2>1
<1>2. ASSUME NEW x \in S PROVE f[x] <= SumOver(f, S)
    <2>1. SumOver(f, S) = f[x] + SumOver(f, S \ {x})  BY SumRemove
    <2>2. SumOver(f, S \ {x}) \in Nat  BY <1>1
    <2> QED BY <2>1, <2>2
<1> QED BY <1>1, <1>2

\* More keys give no smaller sum.
LEMMA SumSubset ==
    ASSUME NEW f, NEW S, IsFiniteSet(S), \A x \in S : f[x] \in Nat,
           NEW T \in SUBSET S
    PROVE  SumOver(f, T) <= SumOver(f, S)
<1> DEFINE Bad == { s \in SUBSET S : T \subseteq s /\ ~ (SumOver(f, T) <= SumOver(f, s)) }
<1>1. Bad = {}
    <2> SUFFICES ASSUME Bad # {} PROVE FALSE  OBVIOUS
    <2>0. Bad \in SUBSET SUBSET S  OBVIOUS
    <2>1. PICK s \in Bad : \A t \in Bad : t \subseteq s => t = s
        <3> HIDE DEF Bad
        <3> QED BY <2>0, LeastSubset
    <2>2. s \in SUBSET S /\ IsFiniteSet(s) /\ T \subseteq s /\ IsFiniteSet(T)
        BY FS_Subset
    <2>3. SumOver(f, T) \in Nat  BY <2>2, SumNat
    <2>4. PICK y \in s : y \notin T  BY <2>2, <2>3
    <2>5. SumOver(f, s) = f[y] + SumOver(f, s \ {y})  BY <2>2, SumRemove
    <2>6. SumOver(f, T) <= SumOver(f, s \ {y})  BY <2>1, <2>2, <2>4
    <2>7. SumOver(f, s \ {y}) \in Nat /\ f[y] \in Nat
        BY <2>2, SumNat, FS_Subset
    <2>8. SumOver(f, T) <= SumOver(f, s)  BY <2>3, <2>5, <2>6, <2>7
    <2> QED BY <2>8
<1> QED BY <1>1

\* Sums over the same keys add up like the values.
LEMMA SumPlus ==
    ASSUME NEW f, NEW g, NEW h, NEW S, IsFiniteSet(S),
           \A x \in S : f[x] \in Int /\ g[x] \in Int /\ h[x] = f[x] + g[x]
    PROVE  SumOver(h, S) = SumOver(f, S) + SumOver(g, S)
<1> DEFINE Bad == { s \in SUBSET S : SumOver(h, s) # SumOver(f, s) + SumOver(g, s) }
<1>1. Bad = {}
    <2> SUFFICES ASSUME Bad # {} PROVE FALSE  OBVIOUS
    <2>0. Bad \in SUBSET SUBSET S  OBVIOUS
    <2>1. PICK s \in Bad : \A t \in Bad : t \subseteq s => t = s
        <3> HIDE DEF Bad
        <3> QED BY <2>0, LeastSubset
    <2>2. s \in SUBSET S /\ IsFiniteSet(s)  BY FS_Subset
    <2>3. s # {}
        <3>1. SumOver(f, {}) = 0 /\ SumOver(g, {}) = 0 /\ SumOver(h, {}) = 0  BY SumEmpty
        <3>2. {} \notin Bad  BY <3>1
        <3> QED BY <3>2
    <2> DEFINE t == s \ {First(s)}
    <2>4. First(s) \in s /\ t \subseteq s /\ t # s /\ t \in SUBSET S /\ IsFiniteSet(t)
        BY <2>2, <2>3, FirstIn, FS_Subset
    <2>5. SumOver(h, t) = SumOver(f, t) + SumOver(g, t)  BY <2>1, <2>4
    <2>6. /\ SumOver(f, s) = f[First(s)] + SumOver(f, t)
          /\ SumOver(g, s) = g[First(s)] + SumOver(g, t)
          /\ SumOver(h, s) = h[First(s)] + SumOver(h, t)
        BY <2>2, <2>3, SumUnfolds
    <2>7. SumOver(f, t) \in Int /\ SumOver(g, t) \in Int
        BY <2>4, SumInt
    <2>8. f[First(s)] \in Int /\ g[First(s)] \in Int /\ h[First(s)] = f[First(s)] + g[First(s)]
        BY <2>2, <2>4
    <2> HIDE DEF t
    <2>9. SumOver(h, s) = SumOver(f, s) + SumOver(g, s)
        BY <2>5, <2>6, <2>7, <2>8
    <2> QED BY <2>9
<1> QED BY <1>1

\* Keys with the value 0 add nothing.
LEMMA SumSupport ==
    ASSUME NEW f, NEW S, IsFiniteSet(S), NEW T \in SUBSET S,
           \A x \in S : f[x] \in Int /\ (x \notin T => f[x] = 0)
    PROVE  SumOver(f, S) = SumOver(f, T)
<1> DEFINE Bad == { s \in SUBSET S : T \subseteq s /\ SumOver(f, s) # SumOver(f, T) }
<1>1. Bad = {}
    <2> SUFFICES ASSUME Bad # {} PROVE FALSE  OBVIOUS
    <2>0. Bad \in SUBSET SUBSET S  OBVIOUS
    <2>1. PICK s \in Bad : \A t \in Bad : t \subseteq s => t = s
        <3> HIDE DEF Bad
        <3> QED BY <2>0, LeastSubset
    <2>2. s \in SUBSET S /\ IsFiniteSet(s) /\ T \subseteq s  BY FS_Subset
    <2>3. PICK y \in s : y \notin T  BY <2>2
    <2>4. SumOver(f, s) = f[y] + SumOver(f, s \ {y})  BY <2>2, SumRemove
    <2>5. SumOver(f, s \ {y}) = SumOver(f, T)  BY <2>1, <2>2, <2>3
    <2>6. SumOver(f, s \ {y}) \in Int /\ f[y] = 0
        BY <2>2, <2>3, SumInt, FS_Subset
    <2>7. SumOver(f, s) = SumOver(f, T)  BY <2>4, <2>5, <2>6
    <2> QED BY <2>7
<1> QED BY <1>1

\* A key less, or an entry of zero more, does not raise the sum of a map.
LEMMA SumWithout ==
    ASSUME NEW m, IsFiniteSet(DOMAIN m), \A j \in DOMAIN m : m[j] \in Nat, NEW K
    PROVE  SumOver(Without(m, K), DOMAIN Without(m, K)) <= SumOver(m, DOMAIN m)
  <1>1. /\ DOMAIN Without(m, K) = DOMAIN m \ K
        /\ \A j \in DOMAIN m \ K : Without(m, K)[j] = m[j]
    BY DEF Without, Restrict
  <1>2. IsFiniteSet(DOMAIN m \ K)
    BY FS_Subset
  <1>3. SumOver(Without(m, K), DOMAIN m \ K) = SumOver(m, DOMAIN m \ K)
    BY <1>1, <1>2, SumSame
  <1>4. SumOver(m, DOMAIN m \ K) <= SumOver(m, DOMAIN m)
    BY SumSubset
  <1> QED BY <1>1, <1>3, <1>4

LEMMA SumPutZero ==
    ASSUME NEW m, IsFiniteSet(DOMAIN m), \A j \in DOMAIN m : m[j] \in Nat,
           NEW k, k \notin DOMAIN m
    PROVE  SumOver(Put(m, k, 0), DOMAIN Put(m, k, 0)) = SumOver(m, DOMAIN m)
  <1>1. /\ DOMAIN Put(m, k, 0) = DOMAIN m \cup {k} /\ Put(m, k, 0)[k] = 0
        /\ \A j \in DOMAIN m : Put(m, k, 0)[j] = m[j]
    BY DEF Put
  <1>2. SumOver(Put(m, k, 0), DOMAIN m \cup {k}) = 0 + SumOver(Put(m, k, 0), DOMAIN m)
    BY <1>1, SumAdd
  <1>3. SumOver(Put(m, k, 0), DOMAIN m) = SumOver(m, DOMAIN m)
    BY <1>1, SumSame
  <1>4. SumOver(m, DOMAIN m) \in Int
    BY SumInt
  <1> QED BY <1>1, <1>2, <1>3, <1>4

\* A sum of one value.
LEMMA SumSingle == ASSUME NEW f, NEW x, f[x] \in Int PROVE SumOver(f, {x}) = f[x]
  <1>1. IsFiniteSet({x}) /\ {x} \ {x} = {}
    BY FS_Singleton
  <1>2. SumOver(f, {x}) = f[x] + SumOver(f, {x} \ {x})
    BY <1>1, SumRemove
  <1>3. SumOver(f, {x} \ {x}) = 0
    BY <1>1, SumEmpty
  <1> QED BY <1>2, <1>3

\* A sum changes with one of its values, by as much.
LEMMA SumChange ==
    ASSUME NEW f, NEW g, NEW S, IsFiniteSet(S), NEW y \in S, g[y] \in Int,
           \A x \in S : f[x] \in Int /\ (x # y => g[x] = f[x])
    PROVE  SumOver(g, S) = SumOver(f, S) + (g[y] - f[y])
  <1>1. \A x \in S : g[x] \in Int
    OBVIOUS
  <1>2. SumOver(f, S) = f[y] + SumOver(f, S \ {y}) /\ SumOver(g, S) = g[y] + SumOver(g, S \ {y})
    BY <1>1, SumRemove
  <1>3. IsFiniteSet(S \ {y}) /\ \A x \in S \ {y} : f[x] \in Int /\ f[x] = g[x]
    BY FS_Subset
  <1>4. SumOver(f, S \ {y}) = SumOver(g, S \ {y}) /\ SumOver(f, S \ {y}) \in Int
    BY <1>3, SumSame, SumInt
  <1> QED BY <1>2, <1>4

\* Values that are looked up through b, which is injective, sum up to the values.
LEMMA SumReindex ==
    ASSUME NEW f, NEW g, NEW b, NEW S, IsFiniteSet(S),
           \A k \in S : f[b[k]] \in Int /\ g[k] = f[b[k]],
           \A k, l \in S : b[k] = b[l] => k = l
    PROVE  IsFiniteSet({ b[k] : k \in S }) /\ SumOver(g, S) = SumOver(f, { b[k] : k \in S })
  <1> DEFINE Good(s) == /\ IsFiniteSet({ b[k] : k \in s })
                        /\ SumOver(g, s) = SumOver(f, { b[k] : k \in s })
             Bad == { s \in SUBSET S : ~Good(s) }
  <1>1. Bad = {}
    <2> SUFFICES ASSUME Bad # {} PROVE FALSE
      OBVIOUS
    <2>1. Bad \in SUBSET SUBSET S
      OBVIOUS
    <2>2. PICK s \in Bad : \A t \in Bad : t \subseteq s => t = s
      <3> HIDE DEF Bad
      <3> QED BY <2>1, LeastSubset
    <2>3. s \in SUBSET S /\ IsFiniteSet(s)
      BY FS_Subset
    <2>4. s # {}
      <3>1. { b[k] : k \in {} } = {}
        OBVIOUS
      <3>2. SumOver(g, {}) = 0 /\ SumOver(f, {}) = 0
        BY SumEmpty
      <3>3. Good({})
        BY <3>1, <3>2, FS_EmptySet
      <3> QED BY <3>3
    <2>5. PICK y \in s : TRUE
      BY <2>4
    <2> DEFINE t == s \ {y}
               B == { b[k] : k \in t }
    <2>6. t \subseteq s /\ t # s /\ t \in SUBSET S /\ y \in S
      BY <2>3, <2>5
    <2>7. Good(t)
      <3> HIDE DEF Good
      <3> QED BY <2>2, <2>6
    <2>8. IsFiniteSet(B) /\ SumOver(g, t) = SumOver(f, B)
      BY <2>7
    <2>9. { b[k] : k \in s } = B \cup {b[y]} /\ b[y] \notin B
      BY <2>3, <2>6
    <2>10. \A x \in B \cup {b[y]} : f[x] \in Int
      BY <2>6
    <2>11. \A k \in s : g[k] \in Int
      BY <2>3
    <2>12. SumOver(g, s) = g[y] + SumOver(g, t)
      BY <2>3, <2>11, SumRemove
    <2> HIDE DEF B, t
    <2>13. IsFiniteSet(B \cup {b[y]}) /\ SumOver(f, B \cup {b[y]}) = f[b[y]] + SumOver(f, B)
      BY <2>8, <2>9, <2>10, SumAdd, FS_AddElement
    <2>14. g[y] = f[b[y]]
      BY <2>6
    <2>15. Good(s)
      BY <2>8, <2>9, <2>12, <2>13, <2>14
    <2> QED BY <2>2, <2>15
  <1>2. Good(S)
    BY <1>1
  <1> QED BY <1>2

\* The same, where b maps S to all of T.
Renames(b, S, T) ==
    /\ \A k \in S : b[k] \in T
    /\ \A x \in T : \E k \in S : b[k] = x
    /\ \A k, l \in S : b[k] = b[l] => k = l

LEMMA SumThrough ==
    ASSUME NEW f, NEW g, NEW b, NEW S, IsFiniteSet(S), NEW T, Renames(b, S, T),
           \A k \in S : f[b[k]] \in Int /\ g[k] = f[b[k]]
    PROVE  IsFiniteSet(T) /\ SumOver(g, S) = SumOver(f, T)
  <1>1. IsFiniteSet({ b[k] : k \in S }) /\ SumOver(g, S) = SumOver(f, { b[k] : k \in S })
    <2>1. (\A k \in S : f[b[k]] \in Int /\ g[k] = f[b[k]]) /\ (\A k, l \in S : b[k] = b[l] => k = l)
      BY DEF Renames
    <2> QED BY ONLY IsFiniteSet(S), <2>1, SumReindex
  <1>2. { b[k] : k \in S } = T
    BY DEF Renames
  <1> QED BY <1>1, <1>2

\* The elements of P are counted by counting those that class maps to each of J.
Tallies(count, class, P, J) ==
    /\ \A p \in P : class[p] \in J
    /\ \A j \in J : count[j] = Cardinality({ p \in P : class[p] = j })

LEMMA SumOfCounts ==
    ASSUME NEW P, IsFiniteSet(P), NEW J, IsFiniteSet(J), NEW class, NEW count,
           Tallies(count, class, P, J)
    PROVE  SumOver(count, J) = Cardinality(P)
  <1>0. /\ \A p \in P : class[p] \in J
        /\ \A j \in J : count[j] = Cardinality({ p \in P : class[p] = j })
    BY DEF Tallies
  <1> DEFINE Counts(s) == [j \in J |-> Cardinality({ p \in s : class[p] = j })]
             Good(s) == SumOver(Counts(s), J) = Cardinality(s)
             Bad == { s \in SUBSET P : ~Good(s) }
  <1>1. ASSUME NEW s \in SUBSET P
        PROVE  /\ IsFiniteSet(s) /\ Cardinality(s) \in Nat
               /\ \A j \in J : IsFiniteSet({ p \in s : class[p] = j }) /\ Counts(s)[j] \in Nat
    <2>1. IsFiniteSet(s)
      BY FS_Subset
    <2>2. \A j \in J : IsFiniteSet({ p \in s : class[p] = j })
      BY <2>1, FS_Subset
    <2> QED BY <2>1, <2>2, FS_CardinalityType
  <1>2. Bad = {}
    <2> SUFFICES ASSUME Bad # {} PROVE FALSE
      OBVIOUS
    <2>1. Bad \in SUBSET SUBSET P
      OBVIOUS
    <2>2. PICK s \in Bad : \A t \in Bad : t \subseteq s => t = s
      <3> HIDE DEF Bad
      <3> QED BY <2>1, LeastSubset
    <2>3. s \in SUBSET P
      OBVIOUS
    <2>4. s # {}
      <3>1. Cardinality({}) = 0 /\ \A j \in J : { p \in {} : class[p] = j } = {}
        BY FS_EmptySet
      <3>2. \A j \in J : Counts({})[j] = 0
        BY <3>1
      <3>3. SumOver(Counts({}), J) = SumOver(Counts({}), {})
        <4> HIDE DEF Counts
        <4> QED BY <3>2, SumSupport
      <3>4. Good({})
        BY <3>1, <3>3, SumEmpty
      <3> QED BY <3>4
    <2>5. PICK y \in s : TRUE
      BY <2>4
    <2> DEFINE t == s \ {y}
               i == class[y]
               f == Counts(t)
               g == Counts(s)
    <2>6. t \subseteq s /\ t # s /\ t \in SUBSET P /\ y \in P /\ i \in J
      BY <1>0, <2>3, <2>5
    <2>7. Good(t)
      <3> HIDE DEF Good
      <3> QED BY <2>2, <2>6
    <2>8. \A j \in J : f[j] \in Nat /\ g[j] \in Nat
      BY <1>1, <2>3, <2>6
    <2>9. \A j \in J : j # i => g[j] = f[j]
      <3>1. \A j \in J : j # i => { p \in s : class[p] = j } = { p \in t : class[p] = j }
        OBVIOUS
      <3> QED BY <3>1
    <2>10. g[i] = f[i] + 1
      <3>1. { p \in s : class[p] = i } = { p \in t : class[p] = i } \cup {y}
        OBVIOUS
      <3>2. y \notin { p \in t : class[p] = i } /\ IsFiniteSet({ p \in t : class[p] = i })
        BY <1>1, <2>6
      <3>3. Cardinality({ p \in t : class[p] = i } \cup {y}) = Cardinality({ p \in t : class[p] = i }) + 1
        BY <3>2, FS_AddElement
      <3> QED BY <2>6, <3>1, <3>3
    <2>11. Cardinality(s) = Cardinality(t) + 1
      <3>1. Cardinality(t) = Cardinality(s) - 1
        BY <1>1, <2>3, FS_RemoveElement
      <3> QED BY <1>1, <2>3, <3>1
    <2>12. SumOver(f, J) = Cardinality(t)
      BY <2>7
    <2> HIDE DEF f, g, t, i
    <2>13. SumOver(g, J) = SumOver(f, J) + (g[i] - f[i])
      BY <2>6, <2>8, <2>9, SumChange
    <2>14. SumOver(g, J) = Cardinality(s)
      BY <1>1, <2>6, <2>8, <2>10, <2>11, <2>12, <2>13
    <2>15. Good(s)
      BY <2>14 DEF g
    <2> QED BY <2>2, <2>15
  <1>3. SumOver(Counts(P), J) = Cardinality(P)
    BY <1>2
  <1>4. \A j \in J : count[j] \in Int /\ count[j] = Counts(P)[j]
    BY <1>0, <1>1
  <1> HIDE DEF Counts
  <1>5. SumOver(count, J) = SumOver(Counts(P), J)
    BY <1>4, SumSame
  <1> QED BY <1>3, <1>5

\* Of finitely many numbers one is the greatest.
LEMMA GreatestOf ==
    ASSUME NEW f, NEW S, IsFiniteSet(S), S # {}, \A x \in S : f[x] \in Int
    PROVE  \E m \in S : \A x \in S : f[x] <= f[m]
  <1> DEFINE Good(s) == \E m \in s : \A x \in s : f[x] <= f[m]
             Bad == { s \in SUBSET S : s # {} /\ ~Good(s) }
  <1>1. Bad = {}
    <2> SUFFICES ASSUME Bad # {} PROVE FALSE
      OBVIOUS
    <2>1. Bad \in SUBSET SUBSET S
      OBVIOUS
    <2>2. PICK s \in Bad : \A t \in Bad : t \subseteq s => t = s
      <3> HIDE DEF Bad
      <3> QED BY <2>1, LeastSubset
    <2>3. PICK y \in s : TRUE
      OBVIOUS
    <2> DEFINE t == s \ {y}
    <2>4. t \subseteq s /\ t # s /\ t \in SUBSET S /\ s \in SUBSET S
      BY <2>3
    <2>5. CASE t = {}
      <3>1. s = {y} /\ f[y] <= f[y]
        BY <2>3, <2>4, <2>5
      <3>2. Good(s)
        BY <3>1
      <3> QED BY <2>2, <3>2
    <2>6. CASE t # {}
      <3>1. Good(t)
        <4> HIDE DEF Good
        <4> QED BY <2>2, <2>4, <2>6
      <3>2. PICK m \in t : \A x \in t : f[x] <= f[m]
        BY <3>1
      <3>3. f[m] \in Int /\ f[y] \in Int /\ m \in s /\ \A x \in s : f[x] \in Int
        BY <2>3, <2>4, <3>2
      <3>4. CASE f[y] <= f[m]
        <4>1. \A x \in s : f[x] <= f[m]
          BY <3>2, <3>4
        <4>2. Good(s)
          BY <3>3, <4>1
        <4> QED BY <2>2, <4>2
      <3>5. CASE ~(f[y] <= f[m])
        <4>1. \A x \in t : f[x] <= f[y]
          BY <2>4, <3>2, <3>3, <3>5
        <4>2. \A x \in s : f[x] <= f[y]
          BY <3>3, <4>1
        <4>3. Good(s)
          BY <2>3, <4>2
        <4> QED BY <2>2, <4>3
      <3> QED BY <3>4, <3>5
    <2> QED BY <2>5, <2>6
  <1>2. Good(S)
    BY <1>1
  <1> QED BY <1>2

\* A function from 1..n that lists n elements without a repetition lists them all.
LEMMA Enumerates ==
    ASSUME NEW S, IsFiniteSet(S), NEW o \in [1..Cardinality(S) -> S],
           \A i, k \in 1..Cardinality(S) : i # k => o[i] # o[k]
    PROVE  /\ o \in Seq(S) /\ Len(o) = Cardinality(S) /\ DOMAIN o = 1..Cardinality(S)
           /\ Cardinality(S) \in Nat
           /\ \A x \in S : \E i \in 1..Cardinality(S) : o[i] = x
           /\ { o[i] : i \in 1..Cardinality(S) } = S
  <1> DEFINE n == Cardinality(S)
  <1>1. n \in Nat
    BY FS_CardinalityType
  <1> HIDE DEF n
  <1>2. o \in Seq(S) /\ Len(o) = n /\ DOMAIN o = 1..n
    BY <1>1 DEF n
  <1>3. o \in Injection(1..n, S) /\ IsFiniteSet(1..n) /\ Cardinality(1..n) = n
    <2>1. o \in Injection(1..n, S)
      BY DEF Injection, IsInjective, n
    <2>2. 1 \in Int /\ n \in Int
      BY <1>1
    <2>3. IsFiniteSet(1..n) /\ Cardinality(1..n) = IF 1 > n THEN 0 ELSE n - 1 + 1
      BY <2>2, FS_Interval
    <2> QED BY <1>1, <2>1, <2>3
  <1>4. o \in Surjection(1..n, S)
    BY <1>3, FS_Injection DEF n
  <1>5. \A x \in S : \E i \in 1..n : o[i] = x
    BY <1>4 DEF Surjection
  <1>6. { o[i] : i \in 1..n } = S
    BY <1>5 DEF n
  <1> QED BY <1>1, <1>2, <1>5, <1>6 DEF n

-----------------------------------------------------------------------------
(* Sequences.                                                               *)

\* What is left of a sequence was in it.
LEMMA RangeTail ==
    ASSUME NEW S, NEW s \in Seq(S), s # <<>>
    PROVE  Range(Tail(s)) \subseteq Range(s) /\ Head(s) \in Range(s)
  <1>1. /\ Tail(s) \in Seq(S) /\ Len(Tail(s)) = Len(s) - 1
        /\ \A i \in 1..Len(Tail(s)) : Tail(s)[i] = s[i + 1]
        /\ Head(s) = s[1] /\ Len(s) \in Nat \ {0}
    BY HeadTailProperties, EmptySeq
  <1> QED BY <1>1, LenProperties DEF Range

\* Appending adds one element.
LEMMA RangeAppend ==
    ASSUME NEW S, NEW s \in Seq(S), NEW e \in S
    PROVE  Range(Append(s, e)) \subseteq Range(s) \cup {e}
  <1>1. /\ Append(s, e) \in Seq(S) /\ Len(Append(s, e)) = Len(s) + 1
        /\ \A i \in 1..Len(s) : Append(s, e)[i] = s[i]
        /\ Append(s, e)[Len(s) + 1] = e
    BY AppendProperties
  <1> QED BY <1>1, LenProperties DEF Range

\* A part of a sequence holds elements of it.
LEMMA RangeSuffix ==
    ASSUME NEW S, NEW s \in Seq(S), NEW n \in 0..Len(s)
    PROVE  Range(SubSeq(s, n + 1, Len(s))) \subseteq Range(s)
  <1>1. Len(s) \in Nat /\ DOMAIN s = 1..Len(s)
    BY LenProperties
  <1>2. \A i \in (n + 1)..Len(s) : s[i] \in S
    BY <1>1, ElementOfSeq
  <1> DEFINE t == SubSeq(s, n + 1, Len(s))
  <1>3. /\ t \in Seq(S)
        /\ Len(t) = IF n + 1 <= Len(s) THEN Len(s) - (n + 1) + 1 ELSE 0
        /\ \A i \in 1..(Len(s) - (n + 1) + 1) : t[i] = s[(n + 1) + i - 1]
    <2>1. n + 1 \in Int /\ Len(s) \in Int
      BY <1>1
    <2> QED BY <1>2, <2>1, SubSeqProperties
  <1>4. DOMAIN t = 1..Len(t)
    BY <1>3, LenProperties
  <1> HIDE DEF t
  <1>5. \A i \in DOMAIN t : (n + 1) + i - 1 \in DOMAIN s /\ t[i] = s[(n + 1) + i - 1]
    <2>1. n \in Nat /\ n <= Len(s) /\ Len(s) \in Nat
      BY <1>1
    <2>2. Len(t) = Len(s) - n
      BY <1>3, <2>1
    <2>3. \A i \in 1..(Len(s) - n) : /\ i \in 1..(Len(s) - (n + 1) + 1)
                                     /\ (n + 1) + i - 1 \in 1..Len(s)
      BY <2>1
    <2> QED BY <1>1, <1>3, <1>4, <2>2, <2>3
  <1> QED BY <1>5 DEF Range, t

\* Appending keeps what is there and adds one element.
LEMMA RangeAppendExact ==
    ASSUME NEW S, NEW s \in Seq(S), NEW e \in S
    PROVE  Range(Append(s, e)) = Range(s) \cup {e}
  <1>1. /\ Append(s, e) \in Seq(S) /\ Len(Append(s, e)) = Len(s) + 1
        /\ \A i \in 1..Len(s) : Append(s, e)[i] = s[i]
        /\ Append(s, e)[Len(s) + 1] = e
    BY AppendProperties
  <1>2. Range(s) \cup {e} \subseteq Range(Append(s, e))
    BY <1>1, LenProperties DEF Range
  <1> QED BY <1>2, RangeAppend

\* A sequence is its head and its tail.
LEMMA RangeHeadTail ==
    ASSUME NEW S, NEW s \in Seq(S), s # <<>>
    PROVE  Range(s) = {Head(s)} \cup Range(Tail(s))
  <1>1. /\ Tail(s) \in Seq(S) /\ Len(Tail(s)) = Len(s) - 1
        /\ \A i \in 1..Len(Tail(s)) : Tail(s)[i] = s[i + 1]
        /\ Head(s) = s[1] /\ Len(s) \in Nat \ {0}
    BY HeadTailProperties, EmptySeq
  <1>2. ASSUME NEW i \in 1..Len(s), i # 1 PROVE s[i] \in Range(Tail(s))
    <2>1. i - 1 \in 1..Len(Tail(s)) /\ (i - 1) + 1 = i
      BY <1>1, <1>2
    <2>2. i - 1 \in DOMAIN Tail(s) /\ Tail(s)[i - 1] = s[i]
      BY <1>1, <2>1, LenProperties
    <2> QED BY <2>2 DEF Range
  <1>3. Range(s) \subseteq {Head(s)} \cup Range(Tail(s))
    BY <1>1, <1>2, LenProperties DEF Range
  <1> QED BY <1>3, RangeTail

\* The elements of two sequences, one after the other.
LEMMA ConcatParts ==
    ASSUME NEW S, NEW s \in Seq(S), NEW t \in Seq(S)
    PROVE  /\ s \o t \in Seq(S) /\ Len(s \o t) = Len(s) + Len(t)
           /\ \A i \in 1..Len(s) : (s \o t)[i] = s[i]
           /\ \A i \in 1..Len(t) : (s \o t)[Len(s) + i] = t[i]
  <1>1. /\ s \o t \in Seq(S) /\ Len(s \o t) = Len(s) + Len(t)
        /\ \A i \in 1..(Len(s) + Len(t)) : (s \o t)[i] = IF i <= Len(s) THEN s[i] ELSE t[i - Len(s)]
    BY ConcatProperties
  <1>2. Len(s) \in Nat /\ Len(t) \in Nat
    OBVIOUS
  <1>3. ASSUME NEW i \in 1..Len(s) PROVE (s \o t)[i] = s[i]
    BY <1>1, <1>2
  <1>4. ASSUME NEW i \in 1..Len(t) PROVE (s \o t)[Len(s) + i] = t[i]
    <2> DEFINE k == Len(s) + i
    <2>1. k \in 1..(Len(s) + Len(t)) /\ ~(k <= Len(s)) /\ k - Len(s) = i
      BY <1>2
    <2> HIDE DEF k
    <2>2. (s \o t)[k] = t[i]
      BY <1>1, <2>1
    <2> QED BY <2>2 DEF k
  <1> QED BY <1>1, <1>3, <1>4
=============================================================================
