-------------------------- MODULE AlgorithmsProofs ---------------------------
(***************************************************************************)
(* Theorems about Algorithms, for any requests: no algorithm gives away    *)
(* more GPUs than there are, jobs come in the order of their algorithm, no *)
(* GPU is left that a job can use, an algorithm panics for known reasons,  *)
(* FfDLOptimizer finds the highest throughput and ElasticTiresias awards   *)
(* GPUs where they gain most.                                              *)
(***************************************************************************)
EXTENDS Algorithms, MapsProofs

-----------------------------------------------------------------------------
(* Sorting.                                                                 *)

\* A total order of S, and what comes up to an element.
Orders(L, S) ==
    /\ \A x \in S : <<x, x>> \in L
    /\ \A x, y \in S : <<x, y>> \in L /\ <<y, x>> \in L => x = y
    /\ \A x, y, z \in S : <<x, y>> \in L /\ <<y, z>> \in L => <<x, z>> \in L
    /\ \A x, y \in S : <<x, y>> \in L \/ <<y, x>> \in L
UpTo(L, S, x) == { y \in S : <<y, x>> \in L }

\* In a total order of a finite set, every place is taken by one element.
LEMMA Ranking ==
    ASSUME NEW S, IsFiniteSet(S), NEW L, Orders(L, S)
    PROVE  /\ \A x \in S : Cardinality(UpTo(L, S, x)) \in 1..Cardinality(S)
           /\ \A x, y \in S : Cardinality(UpTo(L, S, x)) = Cardinality(UpTo(L, S, y)) => x = y
           /\ \A n \in 1..Cardinality(S) : \E x \in S : Cardinality(UpTo(L, S, x)) = n
  <1> DEFINE upto(x) == UpTo(L, S, x)
             n == Cardinality(S)
             r == [x \in S |-> Cardinality(upto(x))]
  <1>1. \A x \in S : upto(x) \subseteq S /\ x \in upto(x)
    BY DEF Orders, UpTo
  <1>2. n \in Nat
    BY FS_CardinalityType
  <1>3. \A x \in S : IsFiniteSet(upto(x)) /\ Cardinality(upto(x)) \in Nat /\ Cardinality(upto(x)) <= n
    <2> SUFFICES ASSUME NEW x \in S
                 PROVE  IsFiniteSet(upto(x)) /\ Cardinality(upto(x)) \in Nat /\ Cardinality(upto(x)) <= n
      OBVIOUS
    <2>1. upto(x) \subseteq S
      BY <1>1
    <2> HIDE DEF upto
    <2> QED BY <2>1, FS_Subset, FS_CardinalityType
  <1>4. \A x \in S : Cardinality(upto(x)) # 0
    <2> SUFFICES ASSUME NEW x \in S PROVE Cardinality(upto(x)) # 0
      OBVIOUS
    <2>1. upto(x) # {} /\ IsFiniteSet(upto(x))
      BY <1>1, <1>3
    <2> HIDE DEF upto
    <2> QED BY <2>1, FS_EmptySet
  <1>5. ASSUME NEW x \in S, NEW y \in S, Cardinality(upto(x)) = Cardinality(upto(y)), <<x, y>> \in L
        PROVE  x = y
    <2>1. upto(x) \subseteq upto(y)
      BY <1>5 DEF Orders, UpTo
    <2>2. upto(x) = upto(y)
      <3>1. IsFiniteSet(upto(y))
        BY <1>3
      <3> HIDE DEF upto
      <3> QED BY <1>5, <2>1, <3>1, FS_Subset
    <2>3. y \in upto(x)
      BY <1>1, <2>2
    <2> QED BY <1>5, <2>3 DEF Orders, UpTo
  <1>6. \A x, y \in S : Cardinality(upto(x)) = Cardinality(upto(y)) => x = y
    <2>1. \A x, y \in S : <<x, y>> \in L \/ <<y, x>> \in L
      BY DEF Orders
    <2> HIDE DEF upto
    <2> QED BY <1>5, <2>1
  <1>7. \A x \in S : r[x] \in 1..n /\ r[x] = Cardinality(upto(x))
    <2> HIDE DEF upto, n
    <2> QED BY <1>2, <1>3, <1>4
  <1>8. r \in Injection(S, 1..n)
    <2> HIDE DEF upto, n
    <2> QED BY <1>6, <1>7 DEF Injection, IsInjective
  <1>9. IsFiniteSet(1..n) /\ Cardinality(1..n) = n
    <2> HIDE DEF n
    <2>1. 1 \in Int /\ n \in Int
      BY <1>2
    <2>2. IsFiniteSet(1..n) /\ Cardinality(1..n) = IF 1 > n THEN 0 ELSE n - 1 + 1
      BY <2>1, FS_Interval
    <2> QED BY <1>2, <2>2
  <1>10. r \in Surjection(S, 1..n)
    <2>1. Cardinality(S) = Cardinality(1..n)
      BY <1>9
    <2> HIDE DEF r, n
    <2> QED BY <1>8, <1>9, <2>1, FS_Injection
  <1>11. \A k \in 1..n : \E x \in S : r[x] = k
    <2> HIDE DEF r, n
    <2> QED BY <1>10 DEF Surjection
  <1> QED BY <1>6, <1>7, <1>11

\* A permutation of seq.
Permutes(b, t, seq) ==
    /\ b \in [1..Len(seq) -> 1..Len(seq)]
    /\ \A k, l \in 1..Len(seq) : b[k] = b[l] => k = l
    /\ \A l \in 1..Len(seq) : \E k \in 1..Len(seq) : b[k] = l
    /\ DOMAIN t = 1..Len(seq)
    /\ \A k \in 1..Len(seq) : t[k] = seq[b[k]]

\* Every place is that of an element.
PlacesTaken(seq, key, minor) ==
    \A n \in 1..Len(seq) : \E k \in 1..Len(seq) : PlaceOf(seq, key, minor, k) = n

\* Sorting permutes, and every place is that of one element.
LEMMA SortedPermutes ==
    ASSUME NEW S, NEW seq \in Seq(S), NEW key, NEW minor,
           \A x \in S : key[x] \in Int /\ minor[x] \in Int
    PROVE  /\ \E b : Permutes(b, Sorted(seq, key, minor), seq)
           /\ PlacesTaken(seq, key, minor)
  <1> DEFINE D == 1..Len(seq)
             major(k) == key[seq[k]]
             less(k) == minor[seq[k]]
             L == { p \in D \X D : \/ major(p[1]) < major(p[2])
                                   \/ major(p[1]) = major(p[2]) /\ less(p[1]) < less(p[2])
                                   \/ major(p[1]) = major(p[2]) /\ less(p[1]) = less(p[2]) /\ p[1] <= p[2] }
             b == [n \in D |-> CHOOSE k \in D : PlaceOf(seq, key, minor, k) = n]
  <1>1. Len(seq) \in Nat /\ DOMAIN seq = D /\ \A k \in D : seq[k] \in S
    BY LenProperties
  <1>2. \A k \in D : major(k) \in Int /\ less(k) \in Int /\ k \in Int
    BY <1>1
  <1>3. IsFiniteSet(D) /\ Cardinality(D) = Len(seq)
    <2>1. 1 \in Int /\ Len(seq) \in Int
      BY <1>1
    <2>2. IsFiniteSet(D) /\ Cardinality(D) = IF 1 > Len(seq) THEN 0 ELSE Len(seq) - 1 + 1
      BY <2>1, FS_Interval
    <2> QED BY <1>1, <2>2
  <1>4. \A k, l \in D : <<k, l>> \in L <=> \/ major(k) < major(l)
                                           \/ major(k) = major(l) /\ less(k) < less(l)
                                           \/ major(k) = major(l) /\ less(k) = less(l) /\ k <= l
    OBVIOUS
  <1> HIDE DEF L
  <1>5. \A k \in D : UpTo(L, D, k) = { l \in DOMAIN seq :
                       \/ major(l) < major(k)
                       \/ major(l) = major(k) /\ less(l) < less(k)
                       \/ major(l) = major(k) /\ less(l) = less(k) /\ l <= k }
    BY <1>1, <1>4 DEF UpTo
  <1>6. \A k \in D : PlaceOf(seq, key, minor, k) = Cardinality(UpTo(L, D, k))
    BY <1>5 DEF PlaceOf
  <1> HIDE DEF major, less, D
  <1>7. /\ \A k \in D : <<k, k>> \in L
        /\ \A k, l \in D : <<k, l>> \in L /\ <<l, k>> \in L => k = l
        /\ \A k, l \in D : <<k, l>> \in L \/ <<l, k>> \in L
    BY <1>2, <1>4
  <1>8. \A k, l, m \in D : <<k, l>> \in L /\ <<l, m>> \in L => <<k, m>> \in L
    BY <1>2, <1>4
  <1>9. /\ \A k \in D : Cardinality(UpTo(L, D, k)) \in 1..Cardinality(D)
        /\ \A n \in 1..Cardinality(D) : \E k \in D : Cardinality(UpTo(L, D, k)) = n
    <2>1. Orders(L, D)
      BY <1>7, <1>8 DEF Orders
    <2> QED BY <1>3, <2>1, Ranking
  <1>10. \A n \in D : \E k \in D : PlaceOf(seq, key, minor, k) = n
    <2>1. D = 1..Cardinality(D)
      BY <1>3 DEF D
    <2> QED BY <1>6, <1>9, <2>1
  <1>11. \A n \in D : b[n] \in D /\ PlaceOf(seq, key, minor, b[n]) = n
    BY <1>10
  <1>12. \A k \in D : PlaceOf(seq, key, minor, k) \in D
    BY <1>3, <1>6, <1>9 DEF D
  <1>13. DOMAIN Sorted(seq, key, minor) = D /\ \A n \in D : Sorted(seq, key, minor)[n] = seq[b[n]]
    BY <1>1 DEF Sorted
  <1>14. \A k, l \in D : b[k] = b[l] => k = l
    <2> HIDE DEF b
    <2> QED BY <1>11
  <1>15. b \in [D -> D]
    BY <1>11
  <1> HIDE DEF b
  <1>16. b \in Injection(D, D)
    BY <1>14, <1>15 DEF Injection, IsInjective
  <1>17. b \in Surjection(D, D)
    BY <1>3, <1>16, FS_Injection
  <1>18. \A l \in D : \E k \in D : b[k] = l
    BY <1>17 DEF Surjection
  <1>19. Permutes(b, Sorted(seq, key, minor), seq)
    BY <1>13, <1>14, <1>15, <1>18 DEF Permutes, D
  <1>20. PlacesTaken(seq, key, minor)
    BY <1>10 DEF D, PlacesTaken
  <1> QED BY <1>19, <1>20


\* A sequence without repetition.
Distinct(s) == \A k, l \in DOMAIN s : s[k] = s[l] => k = l

\* A permutation has the elements of the sequence.
LEMMA PermutedSeq ==
    ASSUME NEW S, NEW seq \in Seq(S), NEW t, NEW b, Permutes(b, t, seq), t = [n \in DOMAIN t |-> t[n]]
    PROVE  /\ t \in Seq(S) /\ Len(t) = Len(seq) /\ DOMAIN t = 1..Len(seq)
           /\ Range(t) = Range(seq)
           /\ Distinct(seq) => Distinct(t)
  <1>1. Len(seq) \in Nat /\ DOMAIN seq = 1..Len(seq) /\ \A k \in 1..Len(seq) : seq[k] \in S
    BY LenProperties
  <1>2. \A k \in 1..Len(seq) : b[k] \in 1..Len(seq) /\ t[k] = seq[b[k]]
    BY DEF Permutes
  <1>3. t \in [1..Len(seq) -> S]
    BY <1>1, <1>2 DEF Permutes
  <1>4. t \in Seq(S) /\ Len(t) = Len(seq) /\ DOMAIN t = 1..Len(seq)
    BY <1>1, <1>3
  <1>5. Range(t) = Range(seq)
    <2>1. Range(t) = { t[k] : k \in 1..Len(seq) } /\ Range(seq) = { seq[k] : k \in 1..Len(seq) }
      BY <1>1, <1>4 DEF Range
    <2>2. \A k \in 1..Len(seq) : \E l \in 1..Len(seq) : seq[k] = t[l]
      BY <1>2 DEF Permutes
    <2>3. \A k \in 1..Len(seq) : \E l \in 1..Len(seq) : t[k] = seq[l]
      BY <1>2
    <2> QED BY ONLY <2>1, <2>2, <2>3
  <1>6. Distinct(seq) => Distinct(t)
    BY <1>1, <1>2, <1>4 DEF Distinct, Permutes
  <1> QED BY <1>4, <1>5, <1>6

LEMMA SortedSeq ==
    ASSUME NEW S, NEW seq \in Seq(S), NEW key, NEW minor,
           \A x \in S : key[x] \in Int /\ minor[x] \in Int
    PROVE  /\ Sorted(seq, key, minor) \in Seq(S) /\ Len(Sorted(seq, key, minor)) = Len(seq)
           /\ DOMAIN Sorted(seq, key, minor) = 1..Len(seq)
           /\ Range(Sorted(seq, key, minor)) = Range(seq)
           /\ Distinct(seq) => Distinct(Sorted(seq, key, minor))
  <1> DEFINE t == Sorted(seq, key, minor)
  <1>1. PICK b : Permutes(b, t, seq)
    BY SortedPermutes
  <1>2. t = [n \in DOMAIN t |-> t[n]]
    BY DEF Sorted
  <1> HIDE DEF t
  <1>3. /\ t \in Seq(S) /\ Len(t) = Len(seq) /\ DOMAIN t = 1..Len(seq)
        /\ Range(t) = Range(seq)
        /\ Distinct(seq) => Distinct(t)
    BY <1>1, <1>2, PermutedSeq
  <1> QED BY <1>3 DEF t

\* The first of a sorted sequence has the least key.
LEMMA SortedHead ==
    ASSUME NEW S, NEW seq \in Seq(S), seq # <<>>, NEW key, NEW minor,
           \A x \in S : key[x] \in Int /\ minor[x] \in Int
    PROVE  \A x \in Range(seq) : key[Head(Sorted(seq, key, minor))] <= key[x]
  <1>1. Len(seq) \in Nat \ {0} /\ DOMAIN seq = 1..Len(seq) /\ \A k \in 1..Len(seq) : seq[k] \in S
    BY EmptySeq, LenProperties
  <1>2. 1 \in 1..Len(seq)
    BY <1>1
  <1>3. PlacesTaken(seq, key, minor)
    <2>1. /\ \E b : Permutes(b, Sorted(seq, key, minor), seq)
          /\ PlacesTaken(seq, key, minor)
      BY SortedPermutes
    <2> QED BY <2>1
  <1> DEFINE t == Sorted(seq, key, minor)
             b == CHOOSE k \in DOMAIN seq : PlaceOf(seq, key, minor, k) = 1
             U == { l \in DOMAIN seq :
                       \/ key[seq[l]] < key[seq[b]]
                       \/ key[seq[l]] = key[seq[b]] /\ minor[seq[l]] < minor[seq[b]]
                       \/ key[seq[l]] = key[seq[b]] /\ minor[seq[l]] = minor[seq[b]] /\ l <= b }
  <1>4. b \in 1..Len(seq) /\ PlaceOf(seq, key, minor, b) = 1
    BY <1>1, <1>2, <1>3 DEF PlacesTaken
  <1>5. Head(t) = seq[b]
    <2>1. t \in Seq(S) /\ Len(t) = Len(seq)
      BY SortedSeq
    <2>2. t[1] = seq[b]
      BY <1>1, <1>2 DEF Sorted
    <2> HIDE DEF t
    <2>3. t # <<>>
      BY <1>1, <2>1, EmptySeq
    <2> QED BY <2>1, <2>2, <2>3, HeadTailProperties
  <1> HIDE DEF b
  <1>6. Cardinality(U) = 1
    BY <1>4 DEF PlaceOf
  <1>7. IsFiniteSet(U) /\ b \in U
    <2>1. IsFiniteSet(1..Len(seq))
      <3>1. 1 \in Int /\ Len(seq) \in Int
        BY <1>1
      <3> QED BY <3>1, FS_Interval
    <2>2. U \subseteq 1..Len(seq)
      BY <1>1
    <2>3. b \in U
      BY <1>1, <1>4
    <2> HIDE DEF U
    <2> QED BY <2>1, <2>2, <2>3, FS_Subset
  <1>8. U = {b}
    <2> HIDE DEF U
    <2>1. \E x : U = {x}
      BY <1>6, <1>7, FS_Singleton
    <2> QED BY <1>7, <2>1
  <1>9. ASSUME NEW l \in 1..Len(seq) PROVE key[seq[b]] <= key[seq[l]]
    <2>1. key[seq[b]] \in Int /\ key[seq[l]] \in Int
      BY <1>1, <1>4
    <2>2. CASE l = b
      BY <2>1, <2>2
    <2>3. CASE l # b
      <3>1. l \notin U
        BY <1>8, <2>3
      <3>2. ~(key[seq[l]] < key[seq[b]])
        BY <1>1, <3>1
      <3> QED BY <2>1, <3>2
    <2> QED BY <2>2, <2>3
  <1> QED BY <1>1, <1>5, <1>9 DEF t, Range

\* Any set of numbers can be listed.
LEMMA ListedSeq ==
    ASSUME NEW S, IsFiniteSet(S), S \subseteq Nat
    PROVE  Listed(S) \in Seq(S) /\ Distinct(Listed(S)) /\ Range(Listed(S)) = S
  <1> DEFINE L == { p \in S \X S : p[1] <= p[2] }
             n == Cardinality(S)
             t == Listed(S)
  <1>1. n \in Nat
    BY FS_CardinalityType
  <1>2. \A x, y \in S : <<x, y>> \in L <=> x <= y
    OBVIOUS
  <1>3. \A x \in S : UpTo(L, S, x) = { k \in S : k <= x }
    BY <1>2 DEF UpTo
  <1> HIDE DEF L
  <1>4. Orders(L, S)
    BY <1>2 DEF Orders
  <1>5. \A k \in 1..n : \E x \in S : Cardinality(UpTo(L, S, x)) = k
    <2>1. /\ \A x \in S : Cardinality(UpTo(L, S, x)) \in 1..Cardinality(S)
          /\ \A x, y \in S : Cardinality(UpTo(L, S, x)) = Cardinality(UpTo(L, S, y)) => x = y
          /\ \A k \in 1..Cardinality(S) : \E x \in S : Cardinality(UpTo(L, S, x)) = k
      <3>1. IsFiniteSet(S)
        OBVIOUS
      <3> HIDE DEF n, t
      <3> QED BY ONLY <1>4, <3>1, Ranking
    <2> QED BY <2>1
  <1>6. \A k \in 1..n : \E x \in S : Cardinality({ i \in S : i <= x }) = k
    BY <1>3, <1>5
  <1>7. \A k \in 1..n : t[k] \in S /\ Cardinality({ i \in S : i <= t[k] }) = k
    BY <1>6 DEF Listed
  <1>8. DOMAIN t = 1..n /\ t = [k \in DOMAIN t |-> t[k]]
    <2>1. DOMAIN t = 1..n
      BY DEF Listed
    <2>2. Listed(S) = [k \in DOMAIN Listed(S) |-> Listed(S)[k]]
      BY ONLY DEF Listed
    <2> QED BY <2>1, <2>2
  <1> HIDE DEF n, t
  <1>9. t \in [1..n -> S] /\ \A k, l \in 1..n : k # l => t[k] # t[l]
    BY <1>7, <1>8
  <1>10. t \in Seq(S) /\ Len(t) = n /\ DOMAIN t = 1..n /\ { t[k] : k \in 1..n } = S
    BY <1>9, Enumerates DEF n
  <1>11. Distinct(t) /\ Range(t) = S
    BY <1>9, <1>10 DEF Distinct, Range
  <1> QED BY <1>10, <1>11 DEF t

\* Removing an element leaves the others.
LEMMA RemovedSeq ==
    ASSUME NEW S, queue \in Seq(S), Distinct(queue), NEW i \in Range(queue)
    PROVE  /\ Removed(i) \in Seq(S) /\ Distinct(Removed(i))
           /\ Range(Removed(i)) = Range(queue) \ {i}
  <1> DEFINE k == CHOOSE k \in DOMAIN queue : queue[k] = i
             n == Len(queue)
             t == Removed(i)
  <1>1. n \in Nat /\ DOMAIN queue = 1..n /\ \A l \in 1..n : queue[l] \in S
    BY LenProperties
  <1>2. k \in 1..n /\ queue[k] = i
    BY <1>1 DEF Range
  <1>3. t = SubSeq(queue, 1, k - 1) \o SubSeq(queue, k + 1, n)
    BY DEF Removed, RemoveAt
  <1> HIDE DEF k, n, t
  <1>4. /\ SubSeq(queue, 1, k - 1) \in Seq(S) /\ Len(SubSeq(queue, 1, k - 1)) = k - 1
        /\ \A l \in 1..(k - 1) : SubSeq(queue, 1, k - 1)[l] = queue[l]
    <2>1. \A l \in 1..(k - 1) : queue[l] \in S
      BY <1>1, <1>2
    <2>2. 1 \in Int /\ k - 1 \in Int
      BY <1>2
    <2>3. /\ SubSeq(queue, 1, k - 1) \in Seq(S)
          /\ Len(SubSeq(queue, 1, k - 1)) = IF 1 <= k - 1 THEN (k - 1) - 1 + 1 ELSE 0
          /\ \A l \in 1..((k - 1) - 1 + 1) : SubSeq(queue, 1, k - 1)[l] = queue[1 + l - 1]
      BY <2>1, <2>2, SubSeqProperties
    <2> QED BY <1>1, <1>2, <2>3
  <1>5. /\ SubSeq(queue, k + 1, n) \in Seq(S) /\ Len(SubSeq(queue, k + 1, n)) = n - k
        /\ \A l \in 1..(n - k) : SubSeq(queue, k + 1, n)[l] = queue[k + l]
    <2>1. \A l \in (k + 1)..n : queue[l] \in S
      BY <1>1, <1>2
    <2>2. k + 1 \in Int /\ n \in Int
      BY <1>1, <1>2
    <2>3. /\ SubSeq(queue, k + 1, n) \in Seq(S)
          /\ Len(SubSeq(queue, k + 1, n)) = IF k + 1 <= n THEN n - (k + 1) + 1 ELSE 0
          /\ \A l \in 1..(n - (k + 1) + 1) : SubSeq(queue, k + 1, n)[l] = queue[(k + 1) + l - 1]
      BY <2>1, <2>2, SubSeqProperties
    <2> QED BY <1>1, <1>2, <2>3
  <1> DEFINE s1 == SubSeq(queue, 1, k - 1)
             s2 == SubSeq(queue, k + 1, n)
  <1> HIDE DEF s1, s2
  <1>6. /\ t \in Seq(S) /\ Len(t) = n - 1
        /\ \A l \in 1..(k - 1) : t[l] = queue[l]
        /\ \A l \in 1..(n - k) : t[(k - 1) + l] = queue[k + l]
    <2>1. /\ s1 \in Seq(S) /\ Len(s1) = k - 1 /\ (\A l \in 1..(k - 1) : s1[l] = queue[l])
          /\ s2 \in Seq(S) /\ Len(s2) = n - k /\ (\A l \in 1..(n - k) : s2[l] = queue[k + l])
          /\ t = s1 \o s2
      BY <1>3, <1>4, <1>5 DEF s1, s2
    <2>2. /\ s1 \o s2 \in Seq(S) /\ Len(s1 \o s2) = Len(s1) + Len(s2)
          /\ \A l \in 1..Len(s1) : (s1 \o s2)[l] = s1[l]
          /\ \A l \in 1..Len(s2) : (s1 \o s2)[Len(s1) + l] = s2[l]
      <3>1. s1 \in Seq(S) /\ s2 \in Seq(S)
        BY <2>1
      <3> QED BY ONLY <3>1, ConcatParts
    <2>3. n \in Nat /\ k \in 1..n
      BY <1>1, <1>2
    <2>4. t \in Seq(S) /\ Len(t) = n - 1 /\ \A l \in 1..(k - 1) : t[l] = queue[l]
      BY ONLY <2>1, <2>2, <2>3
    <2>5. \A l \in 1..(n - k) : t[(k - 1) + l] = queue[k + l]
      BY ONLY <2>1, <2>2
    <2> QED BY ONLY <2>4, <2>5
  <1> DEFINE from(l) == IF l <= k - 1 THEN l ELSE l + 1
  <1>7. DOMAIN t = 1..(n - 1)
    BY <1>6, LenProperties
  <1>8. \A l \in 1..(n - 1) : from(l) \in 1..n /\ from(l) # k /\ t[l] = queue[from(l)]
    <2> SUFFICES ASSUME NEW l \in 1..(n - 1) PROVE from(l) \in 1..n /\ from(l) # k /\ t[l] = queue[from(l)]
      OBVIOUS
    <2>1. CASE l <= k - 1
      BY <1>1, <1>2, <1>6, <2>1
    <2>2. CASE ~(l <= k - 1)
      <3>1. l - (k - 1) \in 1..(n - k) /\ l = (k - 1) + (l - (k - 1)) /\ l + 1 = k + (l - (k - 1))
        BY <1>1, <1>2, <2>2
      <3>2. t[l] = queue[l + 1]
        <4> DEFINE m == l - (k - 1)
        <4>1. m \in 1..(n - k) /\ l = (k - 1) + m /\ l + 1 = k + m
          BY <3>1
        <4> HIDE DEF m
        <4> QED BY <1>6, <4>1
      <3> QED BY <1>1, <1>2, <2>2, <3>2
    <2> QED BY <2>1, <2>2
  <1>9. \A l \in 1..n : l # k => \E m \in 1..(n - 1) : from(m) = l
    <2> SUFFICES ASSUME NEW l \in 1..n, l # k PROVE \E m \in 1..(n - 1) : from(m) = l
      OBVIOUS
    <2>1. CASE l < k
      <3>1. l \in 1..(n - 1) /\ from(l) = l
        BY <1>1, <1>2, <2>1
      <3> QED BY <3>1
    <2>2. CASE l > k
      <3>1. l - 1 \in 1..(n - 1) /\ from(l - 1) = l
        BY <1>1, <1>2, <2>2
      <3> QED BY <3>1
    <2> QED BY <1>1, <1>2, <2>1, <2>2
  <1>10. \A l, m \in 1..(n - 1) : from(l) = from(m) => l = m
    BY <1>1, <1>2
  <1> HIDE DEF from
  <1>11. \A l \in 1..n : queue[l] = i => l = k
    BY <1>1, <1>2 DEF Distinct
  <1>12. Distinct(t)
    BY <1>1, <1>7, <1>8, <1>10 DEF Distinct
  <1>13. Range(t) = { t[l] : l \in 1..(n - 1) } /\ Range(queue) = { queue[l] : l \in 1..n }
    BY <1>1, <1>7 DEF Range
  <1>14. Range(t) = Range(queue) \ {i}
    <2>1. \A x \in Range(t) : x \in Range(queue) /\ x # i
      BY <1>8, <1>11, <1>13
    <2>2. \A x \in Range(queue) : x # i => x \in Range(t)
      BY <1>2, <1>8, <1>9, <1>13
    <2> QED BY <2>1, <2>2
  <1> QED BY <1>6, <1>12, <1>14 DEF t

-----------------------------------------------------------------------------
(* Jobs and their order.                                                    *)

\* The requests that the theorems are about: panics apart, they promise nothing of the
\* others.
Good(r) == r \in Requests /\ WellFormed(r)

\* What every request is known to be.
LEMMA JobFacts ==
    ASSUME Good(request)
    PROVE  /\ algorithm \in Names /\ request.total \in Nat
           /\ Len(jobs) \in Nat /\ Ids = 1..Len(jobs) /\ IsFiniteSet(Ids)
           /\ \A i \in Ids : IsJob(jobs[i])
           /\ Queued = Ids
           /\ \A i \in Ids : /\ jobs[i].min \in Nat \ {0} /\ jobs[i].num \in Nat \ {0}
                             /\ jobs[i].max \in Nat \ {0}
                             /\ jobs[i].min <= jobs[i].num /\ jobs[i].num <= jobs[i].max
                             /\ jobs[i].priority \in {0, 1}
                             /\ jobs[i].submitted \in Nat /\ jobs[i].started \in Nat
                             /\ jobs[i].remaining \in Nat
                             /\ Portion(i) \in Nat \ {0}
                             /\ jobs[i].min <= Portion(i) /\ Portion(i) <= jobs[i].max
  <1>1. IsRequest(request) /\ WellFormed(request)
    BY RequestsAssumption DEF Good
  <1>2. /\ algorithm \in Names /\ request.total \in Nat
        /\ jobs \in Seq(Range(jobs)) /\ \A i \in Ids : IsJob(jobs[i])
    BY <1>1 DEF IsRequest, algorithm, jobs, Ids
  <1>3. Len(jobs) \in Nat /\ Ids = 1..Len(jobs)
    BY <1>2, LenProperties DEF Ids
  <1>4. IsFiniteSet(Ids)
    <2>1. 1 \in Int /\ Len(jobs) \in Int
      BY <1>3
    <2> QED BY <1>3, <2>1, FS_Interval
  <1>5. \A i \in Ids : /\ jobs[i].min \in Nat \ {0} /\ jobs[i].num \in Nat \ {0}
                       /\ jobs[i].max \in Nat \ {0}
                       /\ jobs[i].min <= jobs[i].num /\ jobs[i].num <= jobs[i].max
                       /\ jobs[i].priority \in {0, 1}
                       /\ jobs[i].submitted \in Nat /\ jobs[i].started \in Nat
                       /\ jobs[i].remaining \in Nat
    <2>1. \A i \in Ids : /\ 1 <= jobs[i].min /\ jobs[i].min <= jobs[i].num
                         /\ jobs[i].num <= jobs[i].max /\ jobs[i].priority \in {0, 1}
      BY <1>1 DEF WellFormed, jobs, Ids
    <2>2. \A i \in Ids : /\ {jobs[i].min, jobs[i].num, jobs[i].max} \subseteq Int
                         /\ jobs[i].submitted \in Nat /\ jobs[i].started \in Nat
                         /\ jobs[i].remaining \in Nat
      BY <1>2 DEF IsJob
    <2> QED BY <2>1, <2>2
  <1>6. \A i \in Ids : /\ Portion(i) \in Nat \ {0}
                       /\ jobs[i].min <= Portion(i) /\ Portion(i) <= jobs[i].max
    BY <1>5 DEF Portion
  <1>7. Queued = Ids
    BY <1>5 DEF Queued
  <1> QED BY <1>2, <1>3, <1>4, <1>5, <1>6, <1>7

\* The jobs are considered in some order, each once.
LEMMA ArrangedFacts ==
    ASSUME Good(request)
    PROVE  /\ Arranged \in Seq(Ids) /\ Len(Arranged) = Len(jobs) /\ DOMAIN Arranged = 1..Len(jobs)
           /\ Range(Arranged) = Ids /\ Distinct(Arranged)
  <1>1. AsGiven \in Seq(Ids) /\ Len(AsGiven) = Len(jobs) /\ Distinct(AsGiven) /\ Range(AsGiven) = Ids
    <2>1. AsGiven = [i \in Ids |-> i] /\ Len(jobs) \in Nat /\ Ids = 1..Len(jobs)
      BY JobFacts DEF AsGiven
    <2>2. AsGiven \in Seq(Ids) /\ Len(AsGiven) = Len(jobs)
      BY <2>1
    <2> QED BY <2>1, <2>2 DEF Distinct, Range
  <1>2. ASSUME NEW key, NEW minor, \A i \in Ids : key[i] \in Int /\ minor[i] \in Int,
               Arranged = Sorted(AsGiven, key, minor)
        PROVE  /\ Arranged \in Seq(Ids) /\ Len(Arranged) = Len(jobs) /\ DOMAIN Arranged = 1..Len(jobs)
               /\ Range(Arranged) = Ids /\ Distinct(Arranged)
    <2>1. /\ Sorted(AsGiven, key, minor) \in Seq(Ids) /\ Len(Sorted(AsGiven, key, minor)) = Len(AsGiven)
          /\ DOMAIN Sorted(AsGiven, key, minor) = 1..Len(AsGiven)
          /\ Range(Sorted(AsGiven, key, minor)) = Range(AsGiven)
          /\ Distinct(AsGiven) => Distinct(Sorted(AsGiven, key, minor))
      BY <1>1, <1>2, SortedSeq
    <2> QED BY <1>1, <1>2, <2>1
  <1>3. \A i \in Ids : /\ BySubmission[i] \in Int /\ ByRemaining[i] \in Int
                       /\ ByStart[i] \in Int /\ ByPriority[i] \in Int
    BY JobFacts DEF BySubmission, ByRemaining, ByStart, ByPriority
  <1>4. \/ Arranged = Sorted(AsGiven, BySubmission, BySubmission)
        \/ Arranged = Sorted(AsGiven, ByRemaining, ByRemaining)
        \/ Arranged = Sorted(AsGiven, ByPriority, ByStart)
    <2>1. algorithm \in Names
      BY JobFacts
    <2> QED BY <2>1 DEF Arranged, Names
  <1>5. CASE Arranged = Sorted(AsGiven, BySubmission, BySubmission)
    BY <1>2, <1>3, <1>5
  <1>6. CASE Arranged = Sorted(AsGiven, ByRemaining, ByRemaining)
    BY <1>2, <1>3, <1>6
  <1>7. CASE Arranged = Sorted(AsGiven, ByPriority, ByStart)
    BY <1>2, <1>3, <1>7
  <1> QED BY <1>4, <1>5, <1>6, <1>7

\* The smaller of two numbers, and the greatest of finitely many.
LEMMA MinOfTwo ==
    ASSUME NEW a \in Int, NEW b \in Int
    PROVE  Min({a, b}) = IF a <= b THEN a ELSE b
  <1>1. \E x \in {a, b} : \A y \in {a, b} : x <= y
    OBVIOUS
  <1>2. Min({a, b}) \in {a, b} /\ \A y \in {a, b} : Min({a, b}) <= y
    BY <1>1 DEF Min
  <1> QED BY <1>2

LEMMA MaxOfSome ==
    ASSUME NEW S, IsFiniteSet(S), S # {}, S \subseteq Int
    PROVE  Max(S) \in S /\ \A x \in S : x <= Max(S)
  <1> DEFINE f == [x \in S |-> x]
  <1>1. \A x \in S : f[x] \in Int /\ f[x] = x
    OBVIOUS
  <1> HIDE DEF f
  <1>2. \E m \in S : \A x \in S : f[x] <= f[m]
    BY <1>1, GreatestOf
  <1>3. \E m \in S : \A x \in S : m >= x
    BY <1>1, <1>2
  <1>4. Max(S) \in S /\ \A x \in S : Max(S) >= x
    BY <1>3 DEF Max
  <1> QED BY <1>4

LEMMA LeastOfSome ==
    ASSUME NEW S \in SUBSET Nat, S # {}
    PROVE  Min(S) \in S /\ \A x \in S : Min(S) <= x
  <1>1. \E m \in S : \A x \in S : m <= x
    BY LeastNat
  <1> QED BY <1>1 DEF Min

\* The feasible jobs are no more than there are GPUs.
LEMMA FeasibleFacts ==
    ASSUME Good(request)
    PROVE  /\ Feasible \in Seq(Ids) /\ Distinct(Feasible)
           /\ Len(Feasible) <= request.total
           /\ Len(jobs) > 0 /\ request.total > 0 => Len(Feasible) > 0
  <1> DEFINE n == Min({Len(jobs), request.total})
  <1>1. Len(jobs) \in Nat /\ request.total \in Nat
    BY JobFacts
  <1>2. /\ n \in Nat /\ n <= request.total /\ n <= Len(jobs)
        /\ Len(jobs) > 0 /\ request.total > 0 => n > 0
    <2>1. n = IF Len(jobs) <= request.total THEN Len(jobs) ELSE request.total
      BY <1>1, MinOfTwo
    <2> HIDE DEF n
    <2> QED BY <1>1, <2>1
  <1>3. Feasible = SubSeq(Arranged, 1, n)
    BY DEF Feasible
  <1> HIDE DEF n
  <1>4. /\ Arranged \in Seq(Ids) /\ Len(Arranged) = Len(jobs) /\ DOMAIN Arranged = 1..Len(jobs)
        /\ Range(Arranged) = Ids /\ Distinct(Arranged)
    BY ArrangedFacts
  <1>5. \A k \in 1..Len(jobs) : Arranged[k] \in Ids
    BY <1>4
  <1>6. Feasible \in Seq(Ids) /\ Len(Feasible) = n /\ \A k \in 1..n : Feasible[k] = Arranged[k]
    <2>1. 1 \in Int /\ n \in Int /\ \A k \in 1..n : Arranged[k] \in Ids
      BY <1>1, <1>2, <1>5
    <2>2. /\ SubSeq(Arranged, 1, n) \in Seq(Ids)
          /\ Len(SubSeq(Arranged, 1, n)) = IF 1 <= n THEN n - 1 + 1 ELSE 0
          /\ \A k \in 1..(n - 1 + 1) : SubSeq(Arranged, 1, n)[k] = Arranged[1 + k - 1]
      BY <2>1, SubSeqProperties
    <2> QED BY <1>2, <1>3, <2>2
  <1>7. DOMAIN Feasible = 1..n
    BY <1>6, LenProperties
  <1>8. Distinct(Feasible)
    BY <1>1, <1>2, <1>4, <1>6, <1>7 DEF Distinct
  <1> QED BY <1>2, <1>6, <1>8

-----------------------------------------------------------------------------
(* What the loops look at.                                                  *)

\* A throughput that is not known is zero, those up to the maximum are positive.
LEMMA Speedups ==
    ASSUME Good(request), NEW i \in Ids
    PROVE  /\ \A n : At(jobs[i].speedup, n) \in Nat
           /\ \A n \in 1..(jobs[i].max + 1) : At(jobs[i].speedup, n) > 0
  <1> DEFINE sp == jobs[i].speedup
             m == jobs[i].max
  <1>1. /\ 0..(m + 1) \subseteq DOMAIN sp
        /\ sp[0] = 0 /\ \A n \in DOMAIN sp \ {0} : sp[n] \in Nat \ {0}
        /\ m \in Nat \ {0}
    BY JobFacts DEF IsJob
  <1> HIDE DEF sp, m
  <1>2. \A n : At(sp, n) \in Nat
    <2> TAKE n
    <2>1. CASE n \in DOMAIN sp /\ n # 0
      BY <1>1, <2>1 DEF At
    <2>2. CASE n \notin DOMAIN sp
      BY <2>2 DEF At
    <2>3. CASE n = 0
      BY <1>1, <2>3 DEF At
    <2> QED BY <2>1, <2>2, <2>3
  <1>3. \A n \in 1..(m + 1) : At(sp, n) > 0
    BY <1>1 DEF At
  <1> QED BY <1>2, <1>3 DEF sp, m

LEMMA GainInt ==
    ASSUME Good(request), NEW i \in Ids
    PROVE  Gain(i) \in Int
  <1> DEFINE sp == jobs[i].speedup
             m == jobs[i].min
  <1>1. \A n : At(sp, n) \in Nat
    BY Speedups
  <1>2. m \in Nat \ {0}
    BY JobFacts
  <1>3. Gain(i) = IF result[i] = 0 THEN (12 * At(sp, m)) \div m
                                   ELSE 12 * (At(sp, result[i] + 1) - At(sp, result[i]))
    <2>1. m > 0 /\ ~(m <= 0)
      BY <1>2
    <2>2. CASE result[i] = 0
      BY <2>1, <2>2 DEF Gain
    <2>3. CASE result[i] # 0
      BY <2>3 DEF Gain
    <2> QED BY <2>2, <2>3
  <1> HIDE DEF sp, m
  <1>4. At(sp, m) \in Nat
    BY <1>1
  <1>5. (12 * At(sp, m)) \div m \in Int
    <2> DEFINE a == 12 * At(sp, m)
    <2>1. a \in Int
      BY <1>4
    <2> HIDE DEF a
    <2>2. a \div m \in Int
      BY <1>2, <2>1
    <2> QED BY <2>2 DEF a
  <1>6. 12 * (At(sp, result[i] + 1) - At(sp, result[i])) \in Int
    <2>1. At(sp, result[i] + 1) \in Int /\ At(sp, result[i]) \in Int
      BY <1>1
    <2> QED BY <2>1
  <1> QED BY <1>3, <1>5, <1>6

\* Ranking the jobs of the queue leaves them the same.
LEMMA RankedFacts ==
    ASSUME Good(request), queue \in Seq(Ids)
    PROVE  /\ Ranked \in Seq(Ids) /\ Len(Ranked) = Len(queue) /\ DOMAIN Ranked = 1..Len(queue)
           /\ Range(Ranked) = Range(queue)
           /\ Distinct(queue) => Distinct(Ranked)
           /\ queue # <<>> => \A k \in Range(queue) : Gain(k) <= Gain(Head(Ranked))
  <1> DEFINE key == [i \in Ids |-> -Gain(i)]
  <1>1. \A i \in Ids : key[i] \in Int /\ ByPriority[i] \in Int
    BY GainInt, JobFacts DEF ByPriority
  <1>2. Ranked = Sorted(queue, key, ByPriority)
    BY DEF Ranked
  <1> HIDE DEF key
  <1>3. /\ Sorted(queue, key, ByPriority) \in Seq(Ids)
        /\ Len(Sorted(queue, key, ByPriority)) = Len(queue)
        /\ DOMAIN Sorted(queue, key, ByPriority) = 1..Len(queue)
        /\ Range(Sorted(queue, key, ByPriority)) = Range(queue)
        /\ Distinct(queue) => Distinct(Sorted(queue, key, ByPriority))
    BY <1>1, SortedSeq
  <1>4. ASSUME queue # <<>>, NEW k \in Range(queue) PROVE Gain(k) <= Gain(Head(Ranked))
    <2>1. key[Head(Sorted(queue, key, ByPriority))] <= key[k]
      BY <1>1, <1>4, SortedHead
    <2>2. k \in Ids /\ Head(Ranked) \in Ids
      <3>1. Len(queue) \in Nat \ {0} /\ DOMAIN queue = 1..Len(queue)
        BY <1>4, EmptySeq, LenProperties
      <3>2. Ranked \in Seq(Ids) /\ Ranked # <<>>
        BY <1>2, <1>3, <3>1, EmptySeq
      <3>3. \A l \in 1..Len(queue) : queue[l] \in Ids
        BY <3>1, ElementOfSeq
      <3> QED BY <1>4, <3>1, <3>2, <3>3, HeadTailProperties DEF Range
    <2>3. Gain(k) \in Int /\ Gain(Head(Ranked)) \in Int
      BY <2>2, GainInt
    <2>4. -Gain(Head(Ranked)) <= -Gain(k)
      BY <1>2, <2>1, <2>2 DEF key
    <2> QED BY <2>3, <2>4
  <1> QED BY <1>2, <1>3, <1>4

\* Without its head, a sequence has one element less.
LEMMA DistinctTail ==
    ASSUME NEW S, NEW s \in Seq(S), s # <<>>, Distinct(s)
    PROVE  /\ Head(s) \in S /\ Tail(s) \in Seq(S) /\ Distinct(Tail(s))
           /\ Range(Tail(s)) = Range(s) \ {Head(s)} /\ Head(s) \in Range(s)
  <1>1. /\ Len(s) \in Nat \ {0} /\ Head(s) = s[1] /\ Tail(s) \in Seq(S) /\ Len(Tail(s)) = Len(s) - 1
        /\ \A k \in 1..Len(Tail(s)) : Tail(s)[k] = s[k + 1]
    BY HeadTailProperties, EmptySeq
  <1>2. DOMAIN s = 1..Len(s) /\ DOMAIN Tail(s) = 1..(Len(s) - 1) /\ Head(s) \in S
    BY <1>1, LenProperties
  <1>3. \A k \in 1..(Len(s) - 1) : k + 1 \in 1..Len(s) /\ Tail(s)[k] = s[k + 1]
    BY <1>1
  <1>4. \A k, l \in 1..Len(s) : s[k] = s[l] => k = l
    BY <1>2 DEF Distinct
  <1>5. Distinct(Tail(s))
    <2>1. \A k, l \in 1..(Len(s) - 1) : Tail(s)[k] = Tail(s)[l] => k = l
      BY <1>1, <1>3, <1>4
    <2> QED BY <1>2, <2>1 DEF Distinct
  <1>6. Range(Tail(s)) = Range(s) \ {Head(s)}
    <2>1. Range(s) = {Head(s)} \cup Range(Tail(s))
      BY RangeHeadTail
    <2>2. Head(s) \notin Range(Tail(s))
      <3>1. \A k \in 1..(Len(s) - 1) : Tail(s)[k] # Head(s)
        BY <1>1, <1>3, <1>4
      <3> QED BY <1>2, <3>1 DEF Range
    <2> QED BY <2>1, <2>2
  <1>7. Head(s) \in Range(s)
    BY <1>1, <1>2 DEF Range
  <1> QED BY <1>1, <1>2, <1>5, <1>6, <1>7

\* Without its last element, a sequence has one element less.
LEMMA DistinctFront ==
    ASSUME NEW S, NEW s \in Seq(S), s # <<>>, Distinct(s)
    PROVE  /\ Last(s) \in S /\ Front(s) \in Seq(S) /\ Distinct(Front(s))
           /\ Range(Front(s)) = Range(s) \ {Last(s)} /\ Last(s) \in Range(s)
           /\ Len(Front(s)) = Len(s) - 1
  <1>1. Len(s) \in Nat \ {0} /\ DOMAIN s = 1..Len(s) /\ \A k \in 1..Len(s) : s[k] \in S
    BY LenProperties, EmptySeq
  <1>2. Last(s) = s[Len(s)]
    BY DEF Last
  <1>3. /\ Front(s) \in Seq(S) /\ Len(Front(s)) = Len(s) - 1
        /\ \A k \in 1..(Len(s) - 1) : Front(s)[k] = s[k]
    <2>1. 1 \in Int /\ Len(s) - 1 \in Int /\ \A k \in 1..(Len(s) - 1) : s[k] \in S
      BY <1>1
    <2>2. /\ SubSeq(s, 1, Len(s) - 1) \in Seq(S)
          /\ Len(SubSeq(s, 1, Len(s) - 1)) = IF 1 <= Len(s) - 1 THEN (Len(s) - 1) - 1 + 1 ELSE 0
          /\ \A k \in 1..((Len(s) - 1) - 1 + 1) : SubSeq(s, 1, Len(s) - 1)[k] = s[1 + k - 1]
      BY <2>1, SubSeqProperties
    <2>3. Front(s) = SubSeq(s, 1, Len(s) - 1)
      BY DEF Front
    <2> QED BY <1>1, <2>2, <2>3
  <1>4. DOMAIN Front(s) = 1..(Len(s) - 1)
    BY <1>3, LenProperties
  <1>5. \A k, l \in 1..Len(s) : s[k] = s[l] => k = l
    BY <1>1 DEF Distinct
  <1>6. Distinct(Front(s))
    <2>1. \A k, l \in 1..(Len(s) - 1) : Front(s)[k] = Front(s)[l] => k = l
      BY <1>1, <1>3, <1>5
    <2> QED BY <1>4, <2>1 DEF Distinct
  <1>7. Range(Front(s)) = Range(s) \ {Last(s)}
    <2>1. Range(Front(s)) = { Front(s)[k] : k \in 1..(Len(s) - 1) } /\ Range(s) = { s[k] : k \in 1..Len(s) }
      BY <1>1, <1>4 DEF Range
    <2>2. \A k \in 1..(Len(s) - 1) : Front(s)[k] = s[k] /\ k \in 1..Len(s) /\ s[k] # s[Len(s)]
      BY <1>1, <1>3, <1>5
    <2>3. \A k \in 1..Len(s) : k \in 1..(Len(s) - 1) \/ k = Len(s)
      <3>1. Len(s) \in Nat
        BY <1>1
      <3> QED BY ONLY <3>1
    <2> QED BY <1>2, <2>1, <2>2, <2>3
  <1>8. Last(s) \in S /\ Last(s) \in Range(s)
    BY <1>1, <1>2 DEF Range
  <1> QED BY <1>3, <1>6, <1>7, <1>8

\* AFS-L serves one of the jobs of its queue.  The function that goes through the
\* queue is there for every length, or there were a shortest without.
LEMMA TopFacts ==
    ASSUME Good(request), queue \in Seq(Ids), queue # <<>>
    PROVE  TopPriority \in Range(queue) /\ TopPriority \in Ids
  <1> DEFINE m == Len(queue)
             Step(g, n) == g[n] = IF n = 1 THEN queue[1] ELSE Preferred(queue[n])[g[n - 1]]
             Filled(l) == \E g : \A n \in 1..l : Step(g, n)
             Bad == { l \in Nat : ~Filled(l) }
  <1>1. m \in Nat \ {0} /\ DOMAIN queue = 1..m /\ \A k \in 1..m : queue[k] \in Ids
    BY LenProperties, EmptySeq
  <1>2. \A i, k \in Ids : Preferred(k)[i] \in {i, k}
    BY DEF Preferred
  <1>3. Bad = {}
    <2> SUFFICES ASSUME Bad # {} PROVE FALSE
      OBVIOUS
    <2>1. PICK l \in Bad : \A k \in Bad : l <= k
      <3>1. Bad \in SUBSET Nat
        OBVIOUS
      <3> HIDE DEF Bad
      <3> QED BY <3>1, LeastNat
    <2>2. l \in Nat /\ ~Filled(l)
      BY <2>1
    <2>3. CASE l = 0
      <3>1. 1..l = {}
        BY <2>3
      <3> QED BY <2>2, <3>1
    <2>4. CASE l # 0
      <3>1. l - 1 \in Nat /\ ~(l <= l - 1)
        BY <2>2, <2>4
      <3>2. Filled(l - 1)
        BY <2>1, <3>1
      <3>3. PICK g : \A n \in 1..(l - 1) : Step(g, n)
        BY <3>2
      <3> DEFINE v == IF l = 1 THEN queue[1] ELSE Preferred(queue[l])[g[l - 1]]
                 h == [n \in 1..l |-> IF n = l THEN v ELSE g[n]]
      <3>4. \A n \in 1..l : h[n] = IF n = l THEN v ELSE g[n]
        OBVIOUS
      <3> HIDE DEF h
      <3>5. \A n \in 1..l : Step(h, n)
        <4> SUFFICES ASSUME NEW n \in 1..l PROVE Step(h, n)
          OBVIOUS
        <4>1. CASE n = l
          <5>1. h[n] = v
            BY <3>4, <4>1
          <5>2. l # 1 => h[l - 1] = g[l - 1]
            <6>1. l # 1 => l - 1 \in 1..l /\ l - 1 # l
              BY <2>2, <2>4
            <6> QED BY <3>4, <6>1
          <5> QED BY <4>1, <5>1, <5>2
        <4>2. CASE n # l
          <5>1. n \in 1..(l - 1) /\ h[n] = g[n]
            BY <2>2, <3>4, <4>2
          <5>2. n # 1 => h[n - 1] = g[n - 1]
            <6>1. n # 1 => n - 1 \in 1..l /\ n - 1 # l
              <7>1. l \in Nat /\ n \in 1..(l - 1)
                BY <2>2, <5>1
              <7> QED BY ONLY <7>1
            <6> QED BY <3>4, <6>1
          <5> QED BY <3>3, <5>1, <5>2
        <4> QED BY <4>1, <4>2
      <3> QED BY <2>2, <3>5
    <2> QED BY <2>3, <2>4
  <1>4. PICK g : \A n \in 1..m : Step(g, n)
    <2>1. m \in Nat
      BY <1>1
    <2> HIDE DEF m
    <2> QED BY <1>3, <2>1
  <1> DEFINE h == [n \in 1..m |-> g[n]]
  <1>5. h = [n \in 1..m |-> IF n = 1 THEN queue[1] ELSE Preferred(queue[n])[h[n - 1]]]
    <2>1. \A n \in 1..m : h[n] = IF n = 1 THEN queue[1] ELSE Preferred(queue[n])[h[n - 1]]
      <3> TAKE n \in 1..m
      <3>1. n # 1 => h[n - 1] = g[n - 1]
        <4>1. n # 1 => n - 1 \in 1..m
          BY <1>1
        <4> QED BY <4>1
      <3>2. h[n] = g[n]
        OBVIOUS
      <3> HIDE DEF h
      <3> QED BY <1>4, <3>1, <3>2
    <2>2. h = [n \in 1..m |-> h[n]]
      OBVIOUS
    <2> HIDE DEF h
    <2> QED BY <2>1, <2>2
  <1> HIDE DEF h
  <1> DEFINE top == CHOOSE f : f = [n \in 1..m |-> IF n = 1 THEN queue[1] ELSE Preferred(queue[n])[f[n - 1]]]
  <1>6. top = [n \in 1..m |-> IF n = 1 THEN queue[1] ELSE Preferred(queue[n])[top[n - 1]]]
    BY <1>5
  <1>7. TopPriority = top[m]
    BY DEF TopPriority
  <1> HIDE DEF top
  <1>8. \A n \in 1..m : top[n] = IF n = 1 THEN queue[1] ELSE Preferred(queue[n])[top[n - 1]]
    BY <1>6
  <1> DEFINE Off == { n \in 1..m : top[n] \notin Range(queue) }
  <1>9. Range(queue) = { queue[k] : k \in 1..m } /\ Range(queue) \subseteq Ids
    BY <1>1 DEF Range
  <1>10. Off = {}
    <2> SUFFICES ASSUME Off # {} PROVE FALSE
      OBVIOUS
    <2>1. PICK n \in Off : \A k \in Off : n <= k
      <3>1. Off \in SUBSET Nat
        OBVIOUS
      <3> HIDE DEF Off
      <3> QED BY <3>1, LeastNat
    <2>2. n \in 1..m /\ top[n] \notin Range(queue)
      BY <2>1
    <2>3. CASE n = 1
      BY <1>8, <1>9, <2>2, <2>3
    <2>4. CASE n # 1
      <3>1. n - 1 \in 1..m /\ ~(n <= n - 1)
        BY <1>1, <2>2, <2>4
      <3>2. top[n - 1] \in Range(queue)
        BY <2>1, <3>1
      <3>3. queue[n] \in Range(queue)
        BY <1>9, <2>2
      <3>4. top[n] = Preferred(queue[n])[top[n - 1]]
        BY <1>8, <2>2, <2>4
      <3>5. Preferred(queue[n])[top[n - 1]] \in {top[n - 1], queue[n]}
        BY <1>2, <1>9, <3>2, <3>3
      <3> QED BY <2>2, <3>2, <3>3, <3>4, <3>5
    <2> QED BY <2>3, <2>4
  <1>11. m \in 1..m
    BY <1>1
  <1> QED BY <1>7, <1>9, <1>10, <1>11

\* What a row of the table holds.
LEMMA RowFacts ==
    ASSUME Good(request), NEW row \in [0..request.total -> Int], NEW i \in Ids
    PROVE  /\ Row(row, i) \in [0..request.total -> Int]
           /\ \A k \in 0..request.total : \A g \in (1..k) \cap (1..jobs[i].max) :
                 row[k - g] + At(jobs[i].speedup, g) <= Row(row, i)[k]
           /\ \A k \in 0..request.total :
                 \/ Row(row, i)[k] = NoSolution
                 \/ \E g \in (1..k) \cap (1..jobs[i].max) :
                       Row(row, i)[k] = row[k - g] + At(jobs[i].speedup, g)
  <1>1. request.total \in Nat /\ jobs[i].max \in Nat
    BY JobFacts
  <1>2. ASSUME NEW k \in 0..request.total
        PROVE  /\ Row(row, i)[k] \in Int
               /\ \A g \in (1..k) \cap (1..jobs[i].max) :
                     row[k - g] + At(jobs[i].speedup, g) <= Row(row, i)[k]
               /\ \/ Row(row, i)[k] = NoSolution
                  \/ \E g \in (1..k) \cap (1..jobs[i].max) :
                        Row(row, i)[k] = row[k - g] + At(jobs[i].speedup, g)
    <2> DEFINE G == (1..k) \cap (1..jobs[i].max)
               v(g) == row[k - g] + At(jobs[i].speedup, g)
               V == { v(g) : g \in G }
    <2>1. Row(row, i)[k] = Max({NoSolution} \cup V)
      BY DEF Row
    <2>2. \A g \in G : v(g) \in Int
      <3> SUFFICES ASSUME NEW g \in G PROVE v(g) \in Int
        OBVIOUS
      <3>1. k - g \in 0..request.total
        BY <1>1
      <3>2. At(jobs[i].speedup, g) \in Nat
        BY Speedups
      <3> QED BY <3>1, <3>2
    <2>3. IsFiniteSet(V)
      <3>1. IsFiniteSet(1..k)
        <4>1. 1 \in Int /\ k \in Int
          OBVIOUS
        <4> QED BY <4>1, FS_Interval
      <3>2. IsFiniteSet(G)
        BY <3>1, FS_Subset
      <3> DEFINE f == [g \in G |-> v(g)]
      <3>3. V = { f[g] : g \in G }
        OBVIOUS
      <3> HIDE DEF f, V, G, v
      <3>4. IsFiniteSet({ f[g] : g \in G })
        <4> DEFINE T == { f[g] : g \in G }
        <4>1. f \in Surjection(G, T)
          BY DEF Surjection, f
        <4> HIDE DEF T
        <4>2. IsFiniteSet(T)
          BY <3>2, <4>1, FS_Surjection
        <4> QED BY <4>2 DEF T
      <3> QED BY <3>3, <3>4
    <2> HIDE DEF v, G
    <2>4. V \subseteq Int
      BY <2>2
    <2> HIDE DEF V
    <2> DEFINE W == {NoSolution} \cup V
    <2>5. IsFiniteSet(W) /\ W # {} /\ W \subseteq Int
      <3>1. IsFiniteSet({NoSolution})
        BY FS_Singleton
      <3>2. IsFiniteSet(W)
        BY <2>3, <3>1, FS_Union
      <3> QED BY <2>4, <3>2 DEF NoSolution
    <2> HIDE DEF W
    <2>6. Max(W) \in W /\ \A x \in W : x <= Max(W)
      BY <2>5, MaxOfSome
    <2>7. Row(row, i)[k] = Max(W)
      BY <2>1 DEF W
    <2>8. \A g \in G : v(g) \in W
      BY DEF W, V
    <2>9. \A g \in G : v(g) <= Row(row, i)[k]
      BY <2>6, <2>7, <2>8
    <2>10. Row(row, i)[k] = NoSolution \/ \E g \in G : Row(row, i)[k] = v(g)
      BY <2>6, <2>7 DEF W, V
    <2> QED BY <2>5, <2>6, <2>7, <2>9, <2>10 DEF v, G
  <1>3. Row(row, i) = [k \in 0..request.total |-> Row(row, i)[k]]
    BY DEF Row
  <1>4. Row(row, i) \in [0..request.total -> Int]
    BY <1>2, <1>3
  <1> QED BY <1>2, <1>4

\* What is taken for a job in the end is there, and at most its maximum.
LEMMA SolFacts ==
    ASSUME Good(request), NEW j, NEW k \in Nat, NEW i \in Ids
    PROVE  SOL(j, k, i) \in Nat /\ SOL(j, k, i) <= k /\ SOL(j, k, i) <= jobs[i].max
  <1> DEFINE best == { g \in (1..k) \cap (1..jobs[i].max) :
                         /\ table[j + 1][k] > NoSolution
                         /\ table[j + 1][k] = table[j][k - g] + At(jobs[i].speedup, g) }
  <1>1. SOL(j, k, i) = IF best = {} THEN 0 ELSE Min(best)
    BY DEF SOL
  <1>2. best \subseteq (1..k) \cap (1..jobs[i].max) /\ jobs[i].max \in Nat
    BY JobFacts
  <1> HIDE DEF best
  <1>3. CASE best = {}
    BY <1>1, <1>2, <1>3
  <1>4. CASE best # {}
    <2>1. best \in SUBSET Nat
      BY <1>2
    <2>2. Min(best) \in best
      BY <1>4, <2>1, LeastOfSome
    <2>3. SOL(j, k, i) \in 1..k /\ SOL(j, k, i) \in 1..jobs[i].max
      BY <1>1, <1>2, <1>4, <2>2
    <2> QED BY ONLY <1>2, <2>3, k \in Nat
  <1> QED BY <1>3, <1>4

-----------------------------------------------------------------------------
(* No algorithm gives away more than there is.                              *)

\* How many jobs the loop over the basic portions has visited.
Visited == Len(jobs) - Len(queue)

\* Who gets where.
Phases ==
    /\ pc = "basic" => algorithm \notin {"AFS-L", "FfDLOptimizer"}
    /\ pc = "share" => Elastic
    /\ pc \in {"compact", "gain"} => algorithm = "ElasticTiresias"
    /\ pc = "top" => algorithm = "AFS-L"
    /\ pc \in {"optimize", "backtrack"} => algorithm = "FfDLOptimizer"

\* Nothing is given before a loop gives it.
Idle == pc \in {"start", "optimize"} => \A i \in Ids : result[i] = 0

\* The jobs that the first loop has yet to visit are the last of the order, and
\* have nothing.
InOrder ==
    pc = "basic" =>
        /\ Len(queue) <= Len(jobs)
        /\ \A k \in 1..Len(queue) : queue[k] = Arranged[Visited + k]
        /\ \A k \in 1..Len(jobs) : k > Visited => result[Arranged[k]] = 0

\* The first loop gives a job its portion or nothing.
Rigid == algorithm \in {"FIFO", "SRJF", "Tiresias"}
Portions ==
    pc \in {"basic", "compact"} \/ (pc \in {"validate", "done"} /\ Rigid) =>
        \A i \in Ids : result[i] \in {0, Portion(i)}

\* Where jobs leave the queue out of order, no job is in it twice.
Once == pc \in {"top", "gain", "optimize", "backtrack"} => Distinct(queue)

\* FfDLOptimizer goes back over jobs that have nothing.
Chosen ==
    /\ pc \in {"optimize", "backtrack"} => \A i \in Range(queue) : result[i] = 0
    /\ pc = "optimize" => table # <<>>

\* The variables have their types; what has been given is at most the total.
Typed ==
    /\ Good(request)
    /\ result \in [Ids -> Nat]
    /\ queue \in Seq(Ids)
    /\ satisfied \subseteq Ids
    /\ table \in Seq([0..request.total -> Int])
    /\ Free \in Nat
    /\ pc \in {"start", "basic", "share", "compact", "gain", "top", "optimize",
               "backtrack", "validate", "done", "panicked"}

RoomInv == Typed /\ Phases /\ Idle /\ InOrder /\ Portions /\ Once /\ Chosen

\* What depends on the request only stays the same.
LEMMA Same ==
    ASSUME request' = request
    PROVE  /\ jobs' = jobs /\ Ids' = Ids /\ algorithm' = algorithm /\ Elastic' = Elastic /\ Rigid' = Rigid
           /\ Arranged' = Arranged /\ Feasible' = Feasible
           /\ \A i : Portion(i)' = Portion(i)
  <1>1. jobs' = jobs /\ Ids' = Ids /\ algorithm' = algorithm
    BY DEF jobs, Ids, algorithm
  <1>2. Elastic' = Elastic /\ Rigid' = Rigid /\ \A i : Portion(i)' = Portion(i)
    BY <1>1 DEF Elastic, Rigid, Portion
  <1>3. Arranged' = Arranged
    BY <1>1 DEF Arranged, AsGiven, Queued, BySubmission, ByRemaining, ByStart, ByPriority
  <1>4. Feasible' = Feasible
    BY <1>1, <1>3 DEF Feasible
  <1> QED BY <1>1, <1>2, <1>3, <1>4

LEMMA GoodKept ==
    ASSUME request' = request
    PROVE  (Good(request)' <=> Good(request)) /\ (WellFormed(request)' <=> WellFormed(request))
  BY DEF Good, WellFormed

LEMMA RequestKept == ASSUME [Next]_vars PROVE request' = request
  BY DEF Next, vars, Arrange, Basic, EndBasic, NextRound, Share, EndShare, Compact, Award, EndGain,
         TakeOne, EndTop, FillRow, EndTable, Backtrack, EndBacktrack, Validate

LEMMA FreeSame == ASSUME request' = request, result' = result PROVE Free' = Free
  BY DEF Free, Allocated, Ids, jobs

\* What a job is given is free no more.
LEMMA GiveFacts ==
    ASSUME Good(request), request' = request, result \in [Ids -> Nat],
           NEW i \in Ids, NEW n \in Nat, Give(i, n)
    PROVE  /\ result' \in [Ids -> Nat] /\ result'[i] = n
           /\ \A k \in Ids : k # i => result'[k] = result[k]
           /\ Free \in Int /\ Free' = Free - (n - result[i])
  <1>1. /\ result' \in [Ids -> Nat] /\ result'[i] = n
        /\ \A k \in Ids : k # i => result'[k] = result[k]
    BY DEF Give
  <1>2. IsFiniteSet(Ids) /\ request.total \in Nat
    BY JobFacts
  <1>3. \A k \in Ids : result[k] \in Int /\ (k # i => result'[k] = result[k])
    BY <1>1
  <1>4. result'[i] \in Int
    BY <1>1
  <1>5. SumOver(result', Ids) = SumOver(result, Ids) + (result'[i] - result[i])
    BY <1>2, <1>3, <1>4, SumChange
  <1>6. SumOver(result, Ids) \in Int
    BY <1>2, <1>3, SumInt
  <1>7. Free = request.total - SumOver(result, Ids) /\ Free' = request.total - SumOver(result', Ids)
    BY Same DEF Free, Allocated
  <1>8. result[i] \in Int /\ n \in Int
    BY <1>1
  <1> QED BY <1>1, <1>2, <1>5, <1>6, <1>7, <1>8

LEMMA RoomInit == Init /\ WellFormed(request) => RoomInv
  <1> SUFFICES ASSUME Init, WellFormed(request) PROVE RoomInv
    OBVIOUS
  <1>1. Good(request)
    BY DEF Init, Good
  <1>2. request.total \in Nat /\ IsFiniteSet(Ids)
    BY <1>1, JobFacts
  <1>3. result = [i \in Ids |-> 0]
    BY DEF Init
  <1>4. SumOver(result, Ids) = 0
    <2>1. \A i \in Ids : result[i] \in Int /\ (i \notin {} => result[i] = 0)
      BY <1>3
    <2>2. {} \in SUBSET Ids
      OBVIOUS
    <2>3. SumOver(result, Ids) = SumOver(result, {})
      BY <1>2, <2>1, <2>2, SumSupport
    <2> QED BY <2>3, SumEmpty
  <1>5. Free = request.total
    BY <1>2, <1>4 DEF Free, Allocated
  <1>6. <<>> \in Seq(Ids) /\ <<>> \in Seq([0..request.total -> Int])
    OBVIOUS
  <1>7. Typed
    BY <1>1, <1>2, <1>3, <1>5, <1>6 DEF Typed, Init
  <1> QED BY <1>3, <1>7 DEF RoomInv, Phases, Idle, InOrder, Portions, Once, Chosen, Init

\* The beginning of Schedule.
LEMMA RoomArrange == RoomInv /\ Arrange => RoomInv'
  <1> SUFFICES ASSUME RoomInv, Arrange PROVE RoomInv'
    OBVIOUS
  <1>1. Typed /\ Idle /\ pc = "start"
    BY DEF RoomInv, Arrange
  <1>2. Good(request) /\ \A i \in Ids : result[i] = 0
    BY <1>1 DEF Typed, Idle
  <1>3. request' = request /\ result' = result /\ satisfied' = satisfied
    BY DEF Arrange
  <1>4. /\ jobs' = jobs /\ Ids' = Ids /\ algorithm' = algorithm /\ Elastic' = Elastic /\ Rigid' = Rigid
        /\ Arranged' = Arranged /\ Feasible' = Feasible /\ \A i : Portion(i)' = Portion(i)
    BY <1>3, Same
  <1>5. /\ Arranged \in Seq(Ids) /\ Len(Arranged) = Len(jobs) /\ DOMAIN Arranged = 1..Len(jobs)
        /\ Range(Arranged) = Ids /\ Distinct(Arranged)
    BY <1>2, ArrangedFacts
  <1>6. Feasible \in Seq(Ids) /\ Distinct(Feasible)
    BY <1>2, FeasibleFacts
  <1>7. algorithm \in Names /\ request.total \in Nat /\ Len(jobs) \in Nat
    BY <1>2, JobFacts
  <1>8. /\ queue' = IF algorithm = "FfDLOptimizer" THEN Feasible ELSE Arranged
        /\ table' = IF algorithm = "FfDLOptimizer" THEN <<[k \in 0..request.total |-> 0]>> ELSE <<>>
        /\ pc' = "panicked" \/ (algorithm = "FfDLOptimizer" /\ pc' \in {"done", "optimize"})
           \/ (algorithm = "AFS-L" /\ pc' = "top")
           \/ (algorithm \notin {"AFS-L", "FfDLOptimizer"} /\ pc' = "basic")
    BY DEF Arrange
  <1>9. Typed'
    <2>1. queue' \in Seq(Ids)
      BY <1>5, <1>6, <1>8
    <2>2. table' \in Seq([0..request.total -> Int])
      <3> DEFINE zero == [k \in 0..request.total |-> 0]
                 R == [0..request.total -> Int]
      <3>1. zero \in R
        OBVIOUS
      <3>2. table' = <<zero>> \/ table' = <<>>
        BY <1>8
      <3> HIDE DEF zero, R
      <3>3. <<zero>> \in Seq(R) /\ <<>> \in Seq(R)
        BY ONLY <3>1
      <3>4. table' \in Seq(R)
        BY ONLY <3>2, <3>3
      <3> QED BY <3>4 DEF R
    <2>3. Free' = Free
      BY <1>3, FreeSame
    <2> QED BY <1>1, <1>3, <1>4, <1>8, <2>1, <2>2, <2>3 DEF Typed
  <1>10. Phases'
    BY <1>4, <1>8 DEF Phases
  <1>11. Idle' /\ Portions'
    BY <1>2, <1>3, <1>4, <1>8 DEF Idle, Portions, Rigid
  <1>12. InOrder'
    <2> SUFFICES ASSUME pc' = "basic"
                 PROVE  /\ Len(queue') <= Len(jobs)
                        /\ \A k \in 1..Len(queue') : queue'[k] = Arranged[(Len(jobs) - Len(queue')) + k]
                        /\ \A k \in 1..Len(jobs) : k > Len(jobs) - Len(queue') => result[Arranged[k]] = 0
      BY <1>3, <1>4 DEF InOrder, Visited
    <2>1. queue' = Arranged
      BY <1>8
    <2>2. Len(jobs) - Len(queue') = 0
      BY <1>5, <1>7, <2>1
    <2>3. \A k \in 1..Len(jobs) : result[Arranged[k]] = 0 /\ 0 + k = k
      BY <1>2, <1>5
    <2> QED BY <1>5, <1>7, <2>1, <2>2, <2>3
  <1>13. Once' /\ Chosen'
    <2> SUFFICES ASSUME pc' \in {"top", "optimize", "backtrack"}
                 PROVE  /\ Distinct(queue')
                        /\ pc' # "top" => (\A i \in Range(queue') : result[i] = 0) /\ table' # <<>>
      BY <1>3, <1>8 DEF Once, Chosen
    <2>0. CASE pc' = "top"
      BY <1>5, <1>8, <2>0
    <2>1. pc' # "top" => queue' = Feasible /\ table' # <<>>
      BY <1>8
    <2>2. Range(Feasible) \subseteq Ids
      BY <1>6 DEF Range
    <2> QED BY <1>2, <1>6, <2>0, <2>1, <2>2
  <1> QED BY <1>9, <1>10, <1>11, <1>12, <1>13 DEF RoomInv

\* The next job is the next in the order, and has nothing.
LEMMA NextInOrder ==
    ASSUME RoomInv, pc = "basic", queue # <<>>
    PROVE  /\ Visited \in Nat /\ Visited + 1 \in 1..Len(jobs) /\ Len(queue) \in Nat \ {0}
           /\ Head(queue) = Arranged[Visited + 1] /\ Head(queue) \in Ids /\ result[Head(queue)] = 0
           /\ Tail(queue) \in Seq(Ids) /\ Len(Tail(queue)) = Len(queue) - 1
           /\ \A k \in 1..Len(Tail(queue)) : Tail(queue)[k] = Arranged[(Visited + 1) + k]
           /\ Len(jobs) - Len(Tail(queue)) = Visited + 1
  <1>1. Good(request) /\ queue \in Seq(Ids)
    BY DEF RoomInv, Typed
  <1>2. Len(jobs) \in Nat
    BY <1>1, JobFacts
  <1>3. /\ Len(queue) \in Nat \ {0} /\ Head(queue) = queue[1] /\ Head(queue) \in Ids
        /\ Tail(queue) \in Seq(Ids) /\ Len(Tail(queue)) = Len(queue) - 1
        /\ \A k \in 1..Len(Tail(queue)) : Tail(queue)[k] = queue[k + 1]
    BY <1>1, HeadTailProperties, EmptySeq
  <1>4. /\ Len(queue) <= Len(jobs)
        /\ \A k \in 1..Len(queue) : queue[k] = Arranged[Visited + k]
        /\ \A k \in 1..Len(jobs) : k > Visited => result[Arranged[k]] = 0
    BY DEF RoomInv, InOrder
  <1>5. Visited \in Nat /\ Visited + 1 \in 1..Len(jobs) /\ Len(jobs) - Len(Tail(queue)) = Visited + 1
    BY <1>2, <1>3, <1>4 DEF Visited
  <1>6. 1 \in 1..Len(queue)
    BY <1>3
  <1>7. Head(queue) = Arranged[Visited + 1] /\ result[Head(queue)] = 0
    BY <1>3, <1>4, <1>5, <1>6
  <1>8. \A k \in 1..Len(Tail(queue)) : Tail(queue)[k] = Arranged[(Visited + 1) + k]
    <2> SUFFICES ASSUME NEW k \in 1..Len(Tail(queue)) PROVE Tail(queue)[k] = Arranged[(Visited + 1) + k]
      OBVIOUS
    <2>1. k + 1 \in 1..Len(queue) /\ (Visited + 1) + k = Visited + (k + 1)
      BY <1>3, <1>5
    <2> QED BY <1>3, <1>4, <2>1
  <1> QED BY <1>3, <1>5, <1>7, <1>8

\* A job gets its portion, or nothing.
LEMMA RoomBasic == RoomInv /\ Basic => RoomInv'
  <1> SUFFICES ASSUME RoomInv, Basic PROVE RoomInv'
    OBVIOUS
  <1> DEFINE i == Head(queue)
             p == Portion(i)
  <1>1. Typed /\ Phases /\ Portions /\ InOrder /\ pc = "basic" /\ queue # <<>>
    BY DEF RoomInv, Basic
  <1>2. /\ request' = request /\ table' = table /\ pc' = pc /\ queue' = Tail(queue)
        /\ satisfied' \subseteq satisfied \cup {i}
        /\ (Free >= p /\ Give(i, p)) \/ result' = result
    BY DEF Basic, Fits
  <1>3. /\ jobs' = jobs /\ Ids' = Ids /\ algorithm' = algorithm /\ Elastic' = Elastic /\ Rigid' = Rigid
        /\ Arranged' = Arranged /\ Feasible' = Feasible /\ \A k : Portion(k)' = Portion(k)
    BY <1>2, Same
  <1>4. /\ Visited \in Nat /\ Visited + 1 \in 1..Len(jobs) /\ Len(queue) \in Nat \ {0}
        /\ i = Arranged[Visited + 1] /\ i \in Ids /\ result[i] = 0
        /\ Tail(queue) \in Seq(Ids) /\ Len(Tail(queue)) = Len(queue) - 1
        /\ \A k \in 1..Len(Tail(queue)) : Tail(queue)[k] = Arranged[(Visited + 1) + k]
        /\ Len(jobs) - Len(Tail(queue)) = Visited + 1
    BY <1>1, NextInOrder
  <1>5. Good(request) /\ result \in [Ids -> Nat] /\ Free \in Nat
    BY <1>1 DEF Typed
  <1>6. /\ Arranged \in Seq(Ids) /\ Len(Arranged) = Len(jobs) /\ DOMAIN Arranged = 1..Len(jobs)
        /\ Range(Arranged) = Ids /\ Distinct(Arranged)
    BY <1>5, ArrangedFacts
  <1>7. p \in Nat
    BY <1>4, <1>5, JobFacts
  <1>8. /\ result' \in [Ids -> Nat] /\ Free' \in Nat
        /\ \A k \in Ids : k # i => result'[k] = result[k]
        /\ result'[i] \in {0, p}
    <2>1. CASE Free >= p /\ Give(i, p)
      <3> HIDE DEF i, p
      <3>1. /\ result' \in [Ids -> Nat] /\ result'[i] = p
            /\ \A k \in Ids : k # i => result'[k] = result[k]
            /\ Free \in Int /\ Free' = Free - (p - result[i])
        BY <1>2, <1>4, <1>5, <1>7, <2>1, GiveFacts
      <3> QED BY <1>4, <1>5, <1>7, <2>1, <3>1
    <2>2. CASE result' = result
      BY <1>2, <1>4, <1>5, <2>2, FreeSame
    <2> QED BY <1>2, <2>1, <2>2
  <1>9. Typed'
    BY <1>1, <1>2, <1>3, <1>4, <1>8 DEF Typed
  <1>10. Phases' /\ Idle' /\ Once' /\ Chosen'
    BY <1>1, <1>2, <1>3 DEF Phases, Idle, Once, Chosen
  <1>11. Portions'
    <2>1. \A k \in Ids : result[k] \in {0, Portion(k)}
      BY <1>1 DEF Portions
    <2>2. \A k \in Ids : result'[k] \in {0, Portion(k)}
      BY <1>8, <2>1
    <2> QED BY <1>3, <2>2 DEF Portions
  <1>12. InOrder'
    <2>1. Visited' = Visited + 1
      BY <1>2, <1>3, <1>4 DEF Visited
    <2>2. Len(Tail(queue)) <= Len(jobs)
      BY <1>4
    <2>3. \A k \in 1..Len(jobs) : k > Visited + 1 => result'[Arranged[k]] = 0
      <3> SUFFICES ASSUME NEW k \in 1..Len(jobs), k > Visited + 1 PROVE result'[Arranged[k]] = 0
        OBVIOUS
      <3>1. k > Visited /\ k # Visited + 1
        BY <1>4
      <3>2. result[Arranged[k]] = 0
        BY <1>1, <3>1 DEF InOrder
      <3>3. Arranged[k] # i /\ Arranged[k] \in Ids
        BY <1>4, <1>6, <3>1 DEF Distinct
      <3> QED BY <1>8, <3>2, <3>3
    <2> QED BY <1>2, <1>3, <1>4, <2>1, <2>2, <2>3 DEF InOrder
  <1> QED BY <1>9, <1>10, <1>11, <1>12 DEF RoomInv

LEMMA RoomEndBasic == RoomInv /\ EndBasic => RoomInv'
  <1> SUFFICES ASSUME RoomInv, EndBasic PROVE RoomInv'
    OBVIOUS
  <1>1. Typed /\ Phases /\ Portions /\ pc = "basic"
    BY DEF RoomInv, EndBasic
  <1>2. /\ request' = request /\ result' = result /\ queue' = queue
        /\ satisfied' = satisfied /\ table' = table
        /\ \/ Elastic /\ pc' = "share"
           \/ algorithm = "ElasticTiresias" /\ pc' = "compact"
           \/ algorithm # "ElasticTiresias" /\ pc' = "validate"
    BY DEF EndBasic
  <1>3. /\ jobs' = jobs /\ Ids' = Ids /\ algorithm' = algorithm /\ Elastic' = Elastic /\ Rigid' = Rigid
        /\ Arranged' = Arranged /\ Feasible' = Feasible /\ \A k : Portion(k)' = Portion(k)
    BY <1>2, Same
  <1>4. Free' = Free
    BY <1>2, FreeSame
  <1>5. Typed'
    BY <1>1, <1>2, <1>3, <1>4 DEF Typed
  <1>6. Phases' /\ Idle' /\ InOrder' /\ Once' /\ Chosen'
    BY <1>1, <1>2, <1>3 DEF Phases, Idle, InOrder, Once, Chosen
  <1>7. Portions'
    BY <1>1, <1>2, <1>3 DEF Portions
  <1> QED BY <1>5, <1>6, <1>7 DEF RoomInv

\* A step that gives nothing and leaves the loop over the portions.
LEMMA RoomQuiet ==
    ASSUME RoomInv, request' = request, result' = result, satisfied' = satisfied, table' = table,
           queue' \in Seq(Ids), pc' \in {"share", "backtrack", "validate", "done", "panicked"},
           pc' = "share" => Elastic,
           pc' = "backtrack" => pc = "optimize" /\ queue' = queue,
           pc' \in {"validate", "done"} =>
              \/ Elastic \/ pc = "validate"
              \/ algorithm \in {"AFS-L", "FfDLOptimizer", "ElasticTiresias"}
    PROVE  RoomInv'
  <1>1. Typed /\ Phases /\ Portions /\ Once /\ Chosen
    BY DEF RoomInv
  <1>3. /\ jobs' = jobs /\ Ids' = Ids /\ algorithm' = algorithm /\ Elastic' = Elastic /\ Rigid' = Rigid
        /\ Arranged' = Arranged /\ Feasible' = Feasible /\ \A k : Portion(k)' = Portion(k)
    BY Same
  <1>4. Free' = Free
    BY FreeSame
  <1>5. Typed'
    BY <1>1, <1>3, <1>4 DEF Typed
  <1>6. Phases' /\ Idle' /\ InOrder' /\ Once' /\ Chosen'
    BY <1>1, <1>3 DEF Phases, Idle, InOrder, Once, Chosen
  <1>7. Portions'
    BY <1>1, <1>3 DEF Portions, Elastic, Rigid
  <1> QED BY <1>5, <1>6, <1>7 DEF RoomInv

\* The steps that end a loop or start another round, and the last one.
LEMMA RoomEnds ==
    RoomInv /\ (NextRound \/ EndShare \/ EndGain \/ EndTop \/ EndTable \/ EndBacktrack \/ Validate) => RoomInv'
  <1> SUFFICES ASSUME RoomInv,
                      NextRound \/ EndShare \/ EndGain \/ EndTop \/ EndTable \/ EndBacktrack \/ Validate
               PROVE  RoomInv'
    OBVIOUS
  <1>1. Typed /\ Phases /\ queue \in Seq(Ids) /\ Good(request)
    BY DEF RoomInv, Typed
  <1>2. Arranged \in Seq(Ids)
    BY <1>1, ArrangedFacts
  <1>3. request' = request /\ result' = result /\ satisfied' = satisfied /\ table' = table
    BY DEF NextRound, EndShare, EndGain, EndTop, EndTable, EndBacktrack, Validate
  <1>4. queue' = queue \/ queue' = Arranged
    BY DEF NextRound, EndShare, EndGain, EndTop, EndTable, EndBacktrack, Validate
  <1>5. \/ pc = "share" /\ pc' = "share"
        \/ pc \in {"share", "gain", "top", "backtrack"} /\ pc' = "validate"
        \/ pc = "optimize" /\ queue' = queue /\ pc' \in {"backtrack", "panicked"}
        \/ pc = "validate" /\ pc' \in {"done", "panicked"}
    BY DEF NextRound, EndShare, EndGain, EndTop, EndTable, EndBacktrack, Validate
  <1>6. queue' \in Seq(Ids)
    BY <1>1, <1>2, <1>4
  <1>7. /\ pc' \in {"share", "backtrack", "validate", "done", "panicked"}
        /\ pc' = "share" => Elastic
        /\ pc' = "backtrack" => pc = "optimize" /\ queue' = queue
        /\ pc' \in {"validate", "done"} =>
              \/ Elastic \/ pc = "validate"
              \/ algorithm \in {"AFS-L", "FfDLOptimizer", "ElasticTiresias"}
    BY <1>1, <1>5 DEF Phases
  <1> QED BY <1>3, <1>6, <1>7, RoomQuiet

\* A step that gives one job some more, in one of the later loops.
LEMMA RoomGive ==
    ASSUME RoomInv, request' = request, table' = table, pc' = pc, pc \in {"share", "gain", "top"},
           satisfied' \subseteq Ids, queue' \in Seq(Ids), pc # "share" => Distinct(queue'),
           NEW i \in Ids, NEW n \in Nat, Give(i, n), n - result[i] <= Free
    PROVE  RoomInv'
  <1>1. Typed /\ Phases /\ Portions /\ Once /\ Chosen
    BY DEF RoomInv
  <1>2. Good(request) /\ result \in [Ids -> Nat] /\ Free \in Nat
    BY <1>1 DEF Typed
  <1>3. /\ jobs' = jobs /\ Ids' = Ids /\ algorithm' = algorithm /\ Elastic' = Elastic /\ Rigid' = Rigid
        /\ Arranged' = Arranged /\ Feasible' = Feasible /\ \A k : Portion(k)' = Portion(k)
    BY Same
  <1>4. /\ result' \in [Ids -> Nat] /\ result'[i] = n
        /\ \A k \in Ids : k # i => result'[k] = result[k]
        /\ Free \in Int /\ Free' = Free - (n - result[i])
    BY <1>2, GiveFacts
  <1>5. Free' \in Nat
    BY <1>2, <1>4
  <1>6. Typed'
    BY <1>1, <1>3, <1>4, <1>5 DEF Typed
  <1>7. Phases' /\ Idle' /\ InOrder' /\ Once' /\ Chosen' /\ Portions'
    BY <1>1, <1>3 DEF Phases, Idle, InOrder, Once, Chosen, Portions
  <1> QED BY <1>6, <1>7 DEF RoomInv

\* A step of the later loops that gives nothing.
LEMMA RoomSkip ==
    ASSUME RoomInv, request' = request, table' = table, pc' = pc, pc \in {"share", "gain", "top"},
           satisfied' \subseteq Ids, queue' \in Seq(Ids), pc # "share" => Distinct(queue'), result' = result
    PROVE  RoomInv'
  <1>1. Typed /\ Phases /\ Portions /\ Once /\ Chosen
    BY DEF RoomInv
  <1>3. /\ jobs' = jobs /\ Ids' = Ids /\ algorithm' = algorithm /\ Elastic' = Elastic /\ Rigid' = Rigid
        /\ Arranged' = Arranged /\ Feasible' = Feasible /\ \A k : Portion(k)' = Portion(k)
    BY Same
  <1>4. Free' = Free
    BY FreeSame
  <1>6. Typed'
    BY <1>1, <1>3, <1>4 DEF Typed
  <1>7. Phases' /\ Idle' /\ InOrder' /\ Once' /\ Chosen' /\ Portions'
    BY <1>1, <1>3 DEF Phases, Idle, InOrder, Once, Chosen, Portions
  <1> QED BY <1>6, <1>7 DEF RoomInv

LEMMA RoomShare == RoomInv /\ Share => RoomInv'
  <1> SUFFICES ASSUME RoomInv, Share PROVE RoomInv'
    OBVIOUS
  <1> DEFINE i == Head(queue)
  <1>1. /\ Typed /\ request' = request /\ table' = table /\ pc' = pc /\ pc = "share" /\ Free > 0
        /\ queue # <<>> /\ queue' = Tail(queue) /\ satisfied' \subseteq satisfied \cup {i}
        /\ Give(i, result[i] + 1) \/ result' = result
    BY DEF RoomInv, Share
  <1>2. queue \in Seq(Ids) /\ result \in [Ids -> Nat] /\ Free \in Nat /\ satisfied \subseteq Ids
    BY <1>1 DEF Typed
  <1>3. i \in Ids /\ queue' \in Seq(Ids)
    BY <1>1, <1>2, HeadTailProperties
  <1>4. satisfied' \subseteq Ids
    BY <1>1, <1>2, <1>3
  <1> HIDE DEF i
  <1>5. CASE Give(i, result[i] + 1)
    <2>1. result[i] + 1 \in Nat /\ (result[i] + 1) - result[i] <= Free
      BY <1>1, <1>2, <1>3
    <2> QED BY <1>1, <1>3, <1>4, <1>5, <2>1, RoomGive
  <1>6. CASE result' = result
    BY <1>1, <1>3, <1>4, <1>6, RoomSkip
  <1> QED BY <1>1, <1>5, <1>6

LEMMA RoomTakeOne == RoomInv /\ TakeOne => RoomInv'
  <1> SUFFICES ASSUME RoomInv, TakeOne PROVE RoomInv'
    OBVIOUS
  <1> DEFINE i == TopPriority
  <1>1. /\ Typed /\ request' = request /\ table' = table /\ pc' = pc /\ pc = "top" /\ Free > 0
        /\ queue # <<>> /\ satisfied' = satisfied
        /\ Give(i, result[i] + 1)
        /\ queue' = IF Leaves(i, result[i] + 1) THEN Removed(i) ELSE queue
    BY DEF RoomInv, TakeOne
  <1>2. /\ queue \in Seq(Ids) /\ result \in [Ids -> Nat] /\ Free \in Nat /\ satisfied \subseteq Ids
        /\ Good(request)
    BY <1>1 DEF Typed
  <1>3. i \in Ids /\ i \in Range(queue)
    BY <1>1, <1>2, TopFacts
  <1> HIDE DEF i
  <1>4. Distinct(queue)
    BY <1>1 DEF RoomInv, Once
  <1>7. Removed(i) \in Seq(Ids) /\ Distinct(Removed(i))
    BY <1>2, <1>3, <1>4, RemovedSeq
  <1>5. queue' \in Seq(Ids) /\ Distinct(queue')
    BY <1>1, <1>2, <1>4, <1>7
  <1>6. result[i] + 1 \in Nat /\ (result[i] + 1) - result[i] <= Free
    BY <1>1, <1>2, <1>3
  <1> QED BY <1>1, <1>2, <1>3, <1>5, <1>6, RoomGive

\* Compaction takes workers away, and none of a job with its minimum.
LEMMA CompactFacts ==
    ASSUME RoomInv, Compact
    PROVE  /\ Good(request) /\ request' = request /\ table' = table /\ satisfied' = satisfied
           /\ pc = "compact" /\ pc' = "gain" /\ algorithm = "ElasticTiresias"
           /\ \A i \in Ids : result[i] \in {0, jobs[i].num}
           /\ \A i \in Ids : result'[i] = IF i \in Compacted THEN jobs[i].min ELSE result[i]
           /\ \A i \in Ids : i \in Compacted => result[i] = jobs[i].num /\ jobs[i].priority >= 1
           /\ result' \in [Ids -> Nat] /\ Free' \in Nat
           /\ queue' \in Seq(Ids) /\ Distinct(queue')
           /\ Range(queue') = { i \in Ids : result'[i] < jobs[i].max /\ Free' >= jobs[i].min }
  <1> DEFINE compacted == [i \in Ids |-> IF i \in Compacted THEN jobs[i].min ELSE result[i]]
             free == request.total - SumOver(compacted, Ids)
             S == { i \in Ids : compacted[i] < jobs[i].max /\ free >= jobs[i].min }
  <1>1. /\ Typed /\ Phases /\ Portions /\ request' = request /\ table' = table
        /\ satisfied' = satisfied /\ pc = "compact" /\ pc' = "gain"
        /\ result' = compacted /\ queue' = Listed(S)
    BY DEF RoomInv, Compact
  <1>2. Good(request) /\ result \in [Ids -> Nat] /\ Free \in Nat
    BY <1>1 DEF Typed
  <1>3. algorithm = "ElasticTiresias" /\ \A i \in Ids : result[i] \in {0, jobs[i].num}
    BY <1>1 DEF Phases, Portions, Portion
  <1>4. IsFiniteSet(Ids) /\ request.total \in Nat /\ Ids = 1..Len(jobs) /\ Len(jobs) \in Nat
        /\ \A i \in Ids : jobs[i].min \in Nat /\ jobs[i].num \in Nat /\ jobs[i].min <= jobs[i].num
    BY <1>2, JobFacts
  <1>5. \A i \in Ids : i \in Compacted => result[i] = jobs[i].num /\ jobs[i].priority >= 1
    BY <1>3 DEF Compacted
  <1>6. \A i \in Ids : compacted[i] = IF i \in Compacted THEN jobs[i].min ELSE result[i]
    OBVIOUS
  <1>7. \A i \in Ids : compacted[i] \in Nat /\ result[i] \in Nat /\ compacted[i] <= result[i]
    BY <1>2, <1>4, <1>5, <1>6
  <1>8. compacted \in [Ids -> Nat]
    BY <1>7
  <1>9. /\ jobs' = jobs /\ Ids' = Ids /\ algorithm' = algorithm
    BY <1>1, Same
  <1> HIDE DEF compacted
  <1>10. \A i \in Ids : compacted[i] \in Int /\ result[i] \in Int /\ compacted[i] <= result[i]
    BY <1>7
  <1>11. SumOver(compacted, Ids) <= SumOver(result, Ids)
    BY <1>4, <1>10, SumMonotone
  <1>12. SumOver(compacted, Ids) \in Int /\ SumOver(result, Ids) \in Int
    BY <1>4, <1>10, SumInt
  <1>13. Free' = free /\ Free = request.total - SumOver(result, Ids)
    BY <1>1, <1>9 DEF Free, Allocated
  <1>14. Free' \in Nat
    BY <1>2, <1>4, <1>11, <1>12, <1>13
  <1>15. S \subseteq Ids /\ IsFiniteSet(S) /\ S \subseteq Nat
    <2>1. S \subseteq Ids
      OBVIOUS
    <2>2. Ids \subseteq Nat
      BY <1>4
    <2> HIDE DEF S
    <2> QED BY <1>4, <2>1, <2>2, FS_Subset
  <1>16. S = { i \in Ids : result'[i] < jobs[i].max /\ Free' >= jobs[i].min }
    BY <1>1, <1>13
  <1> HIDE DEF S, free
  <1>17. Listed(S) \in Seq(S) /\ Distinct(Listed(S)) /\ Range(Listed(S)) = S
    BY <1>15, ListedSeq
  <1>18. Listed(S) \in Seq(Ids)
    BY <1>15, <1>17, SeqMonotonic
  <1> QED BY <1>1, <1>2, <1>3, <1>5, <1>6, <1>8, <1>14, <1>16, <1>17, <1>18

LEMMA RoomCompact == RoomInv /\ Compact => RoomInv'
  <1> SUFFICES ASSUME RoomInv, Compact PROVE RoomInv'
    OBVIOUS
  <1>1. /\ Good(request) /\ request' = request /\ table' = table /\ satisfied' = satisfied
        /\ pc' = "gain" /\ algorithm = "ElasticTiresias"
        /\ result' \in [Ids -> Nat] /\ Free' \in Nat
        /\ queue' \in Seq(Ids) /\ Distinct(queue')
    BY CompactFacts
  <1>2. Typed
    BY DEF RoomInv
  <1>3. jobs' = jobs /\ Ids' = Ids /\ algorithm' = algorithm
    BY <1>1, Same
  <1>4. Typed'
    BY <1>1, <1>2, <1>3 DEF Typed
  <1>5. Phases' /\ Idle' /\ InOrder' /\ Once' /\ Chosen' /\ Portions'
    BY <1>1, <1>3 DEF Phases, Idle, InOrder, Once, Chosen, Portions
  <1> QED BY <1>4, <1>5 DEF RoomInv

\* The step of the loop over the gains: one of the jobs of the queue gets its
\* minimum or another worker, and leaves the queue with its maximum, or it is
\* given up.
\* Every gain is a number.
LEMMA OneRanking ==
    ASSUME Good(request), queue \in Seq(Ids), result \in [Ids -> Nat]
    PROVE  Rankings = {Ranked}
  <1>1. \A i \in Range(queue) : i \in Ids
    BY DEF Range
  <1>2. \A i \in Ids : ~Undefined(i)
    BY JobFacts DEF Undefined
  <1> QED BY <1>1, <1>2 DEF Rankings

LEMMA AwardFacts ==
    ASSUME RoomInv, Award
    PROVE  \E i \in Range(queue) :
             /\ i \in Ids
             /\ Good(request) /\ request' = request /\ table' = table /\ pc' = pc /\ pc = "gain"
             /\ satisfied' = satisfied
             /\ queue' \in Seq(Ids) /\ Distinct(queue')
             /\ Free > 0 /\ \A k \in Range(queue) : Gain(k) <= Gain(i)
             /\ \/ /\ result[i] = 0 /\ Free >= jobs[i].min /\ Give(i, jobs[i].min)
                   /\ Range(queue') = Range(queue)
                \/ /\ result[i] = 0 /\ Free < jobs[i].min
                   /\ result' = result /\ Range(queue') = Range(queue) \ {i}
                \/ /\ result[i] > 0 /\ Free > 0 /\ Give(i, result[i] + 1)
                   /\ Range(queue') = IF Leaves(i, result[i] + 1) THEN Range(queue) \ {i} ELSE Range(queue)
  <1> DEFINE i == Head(Ranked)
  <1>1. /\ Typed /\ pc = "gain" /\ Distinct(queue) /\ queue # <<>> /\ Free > 0
        /\ request' = request /\ satisfied' = satisfied /\ table' = table /\ pc' = pc
        /\ \/ result[i] = 0 /\ Free >= jobs[i].min /\ Give(i, jobs[i].min) /\ queue' = Ranked
           \/ result[i] = 0 /\ Free < jobs[i].min /\ result' = result /\ queue' = Tail(Ranked)
           \/ /\ result[i] > 0 /\ Give(i, result[i] + 1)
              /\ queue' = IF Leaves(i, result[i] + 1) THEN Tail(Ranked) ELSE Ranked
    <2>1. Typed /\ pc = "gain" /\ Distinct(queue)
      BY DEF RoomInv, Once, Award
    <2>2. Good(request) /\ queue \in Seq(Ids) /\ result \in [Ids -> Nat]
      BY <2>1 DEF Typed
    <2>3. Rankings = {Ranked}
      BY <2>2, OneRanking
    <2>4. Ranked # <<>> => queue # <<>>
      <3>1. Ranked \in Seq(Ids) /\ Len(Ranked) = Len(queue)
        BY <2>2, RankedFacts
      <3> QED BY <2>2, <3>1, EmptySeq
    <2>5. /\ MoreGain(Ranked) /\ request' = request /\ satisfied' = satisfied
          /\ table' = table /\ pc' = pc
          /\ \/ result[i] = 0 /\ Free >= jobs[i].min /\ Give(i, jobs[i].min) /\ queue' = Ranked
             \/ result[i] = 0 /\ Free < jobs[i].min /\ result' = result /\ queue' = Tail(Ranked)
             \/ /\ result[i] # 0 /\ Give(i, result[i] + 1)
                /\ queue' = IF Leaves(i, result[i] + 1) THEN Tail(Ranked) ELSE Ranked
      BY <2>3 DEF Award, GiveUp
    <2>6. Ranked # <<>> /\ Free > 0
      BY <2>5 DEF MoreGain
    <2>7. i \in Ids
      BY <2>2, <2>6, RankedFacts, HeadTailProperties
    <2>8. result[i] \in Nat
      BY <2>2, <2>7
    <2> HIDE DEF i
    <2> QED BY <2>1, <2>4, <2>5, <2>6, <2>8
  <1>2. Good(request) /\ queue \in Seq(Ids)
    BY <1>1 DEF Typed
  <1>3. /\ Ranked \in Seq(Ids) /\ Len(Ranked) = Len(queue) /\ Range(Ranked) = Range(queue)
        /\ Distinct(Ranked) /\ \A k \in Range(queue) : Gain(k) <= Gain(i)
    BY <1>1, <1>2, RankedFacts
  <1>4. Ranked # <<>>
    <2>1. Len(queue) \in Nat \ {0}
      BY <1>1, <1>2, EmptySeq, LenProperties
    <2> QED BY <1>3, <2>1, EmptySeq
  <1>5. /\ i \in Ids /\ Tail(Ranked) \in Seq(Ids) /\ Distinct(Tail(Ranked))
        /\ Range(Tail(Ranked)) = Range(Ranked) \ {i} /\ i \in Range(Ranked)
    BY <1>3, <1>4, DistinctTail
  <1> HIDE DEF i
  <1> QED BY <1>1, <1>2, <1>3, <1>5

LEMMA RoomAward == RoomInv /\ Award => RoomInv'
  <1> SUFFICES ASSUME RoomInv, Award PROVE RoomInv'
    OBVIOUS
  <1>1. PICK i \in Range(queue) :
             /\ i \in Ids
             /\ Good(request) /\ request' = request /\ table' = table /\ pc' = pc /\ pc = "gain"
             /\ satisfied' = satisfied
             /\ queue' \in Seq(Ids) /\ Distinct(queue')
             /\ Free > 0 /\ \A k \in Range(queue) : Gain(k) <= Gain(i)
             /\ \/ /\ result[i] = 0 /\ Free >= jobs[i].min /\ Give(i, jobs[i].min)
                   /\ Range(queue') = Range(queue)
                \/ /\ result[i] = 0 /\ Free < jobs[i].min
                   /\ result' = result /\ Range(queue') = Range(queue) \ {i}
                \/ /\ result[i] > 0 /\ Free > 0 /\ Give(i, result[i] + 1)
                   /\ Range(queue') = IF Leaves(i, result[i] + 1) THEN Range(queue) \ {i} ELSE Range(queue)
    BY AwardFacts
  <1>2. satisfied \subseteq Ids /\ result \in [Ids -> Nat] /\ Free \in Nat
    BY DEF RoomInv, Typed
  <1>3. jobs[i].min \in Nat /\ result[i] \in Nat
    BY <1>1, <1>2, JobFacts
  <1>4. CASE result[i] = 0 /\ Free >= jobs[i].min /\ Give(i, jobs[i].min)
    <2>1. jobs[i].min - result[i] <= Free
      BY <1>2, <1>3, <1>4
    <2> QED BY <1>1, <1>2, <1>3, <1>4, <2>1, RoomGive
  <1>5. CASE result' = result
    BY <1>1, <1>2, <1>5, RoomSkip
  <1>6. CASE result[i] > 0 /\ Free > 0 /\ Give(i, result[i] + 1)
    <2>1. result[i] + 1 \in Nat /\ (result[i] + 1) - result[i] <= Free
      BY <1>2, <1>3, <1>6
    <2> QED BY <1>1, <1>2, <1>6, <2>1, RoomGive
  <1> QED BY <1>1, <1>4, <1>5, <1>6

\* FfDLOptimizer fills a row of its table.
LEMMA FillFacts ==
    ASSUME RoomInv, FillRow
    PROVE  /\ Good(request) /\ request' = request /\ result' = result /\ queue' = queue
           /\ satisfied' = satisfied /\ pc' = pc /\ pc = "optimize"
           /\ Len(table) \in Nat \ {0} /\ Len(table) \in 1..Len(queue)
           /\ queue[Len(table)] \in Ids
           /\ table[Len(table)] \in [0..request.total -> Int]
           /\ table' \in Seq([0..request.total -> Int]) /\ Len(table') = Len(table) + 1
           /\ \A j \in 1..Len(table) : table'[j] = table[j]
           /\ table'[Len(table) + 1] = Row(table[Len(table)], queue[Len(table)])
  <1> DEFINE R == [0..request.total -> Int]
             n == Len(table)
             new == Row(table[n], queue[n])
  <1>1. /\ request' = request /\ result' = result /\ queue' = queue
        /\ satisfied' = satisfied /\ pc' = pc /\ pc = "optimize"
        /\ Len(table) <= Len(queue) /\ table # <<>>
        /\ table' = Append(table, new)
    BY DEF RoomInv, Chosen, FillRow, Last
  <1>2. Good(request) /\ table \in Seq(R) /\ queue \in Seq(Ids)
    BY DEF RoomInv, Typed
  <1>3. n \in Nat \ {0} /\ Len(queue) \in Nat
    BY <1>1, <1>2, EmptySeq, LenProperties
  <1>4. n \in 1..n /\ n \in 1..Len(queue)
    BY <1>1, <1>3
  <1>5. table[n] \in R /\ queue[n] \in Ids
    <2>1. table[n] \in R
      <3> HIDE DEF R, n
      <3>1. n \in 1..Len(table)
        BY <1>4 DEF n
      <3> QED BY <1>2, <3>1, ElementOfSeq
    <2>2. queue[n] \in Ids
      <3> HIDE DEF n
      <3> QED BY <1>2, <1>4, ElementOfSeq
    <2> QED BY <2>1, <2>2
  <1>6. new \in R
    <2> DEFINE row == table[n]
               i == queue[n]
    <2>1. row \in [0..request.total -> Int] /\ i \in Ids
      BY <1>5
    <2> HIDE DEF row, i
    <2>2. Row(row, i) \in [0..request.total -> Int]
      BY <1>2, <2>1, RowFacts
    <2> QED BY <2>2 DEF row, i
  <1> HIDE DEF R, n, new
  <1>7. /\ table' \in Seq(R) /\ Len(table') = Len(table) + 1
        /\ \A j \in 1..Len(table) : table'[j] = table[j]
        /\ table'[Len(table) + 1] = new
    BY <1>1, <1>2, <1>6, AppendProperties
  <1> QED BY <1>1, <1>2, <1>3, <1>4, <1>5, <1>7 DEF R, n, new

LEMMA RoomFillRow == RoomInv /\ FillRow => RoomInv'
  <1> SUFFICES ASSUME RoomInv, FillRow PROVE RoomInv'
    OBVIOUS
  <1>1. /\ Good(request) /\ request' = request /\ result' = result /\ queue' = queue
        /\ satisfied' = satisfied /\ pc' = pc /\ pc = "optimize"
        /\ Len(table) \in Nat \ {0} /\ Len(table') = Len(table) + 1
        /\ table' \in Seq([0..request.total -> Int])
    BY FillFacts
  <1>2. Typed /\ Phases /\ Idle /\ Once /\ Chosen
    BY DEF RoomInv
  <1>3. /\ jobs' = jobs /\ Ids' = Ids /\ algorithm' = algorithm
    BY <1>1, Same
  <1>4. Free' = Free
    BY <1>1, FreeSame
  <1>5. Typed'
    BY <1>1, <1>2, <1>3, <1>4 DEF Typed
  <1>6. table' # <<>>
    BY <1>1, EmptySeq
  <1>7. Phases' /\ Idle' /\ InOrder' /\ Once' /\ Chosen' /\ Portions'
    BY <1>1, <1>2, <1>3, <1>6 DEF Phases, Idle, InOrder, Once, Chosen, Portions
  <1> QED BY <1>5, <1>7 DEF RoomInv

\* It goes back over the last of its jobs.
LEMMA BacktrackFacts ==
    ASSUME RoomInv, Backtrack
    PROVE  \E i \in Range(queue), n \in Nat :
             /\ i \in Ids /\ result[i] = 0 /\ n <= Free /\ n <= jobs[i].max /\ Give(i, n)
             /\ Good(request) /\ request' = request /\ table' = table
             /\ satisfied' = satisfied /\ pc' = pc /\ pc = "backtrack"
             /\ queue' \in Seq(Ids) /\ Distinct(queue') /\ Range(queue') = Range(queue) \ {i}
  <1> DEFINE i == Last(queue)
             n == SOL(Len(queue), Free, i)
  <1>1. /\ request' = request /\ table' = table /\ queue # <<>> /\ Distinct(queue)
        /\ satisfied' = satisfied /\ pc' = pc /\ pc = "backtrack"
        /\ Give(i, n) /\ queue' = Front(queue)
    BY DEF RoomInv, Once, Backtrack
  <1>2. Good(request) /\ queue \in Seq(Ids) /\ Free \in Nat
    BY DEF RoomInv, Typed
  <1>3. /\ i \in Ids /\ Front(queue) \in Seq(Ids) /\ Distinct(Front(queue))
        /\ Range(Front(queue)) = Range(queue) \ {i} /\ i \in Range(queue)
    BY <1>1, <1>2, DistinctFront
  <1>4. result[i] = 0
    BY <1>1, <1>3 DEF RoomInv, Chosen
  <1> HIDE DEF i
  <1>5. n \in Nat /\ n <= Free /\ n <= jobs[i].max
    BY <1>2, <1>3, SolFacts
  <1> HIDE DEF n
  <1> QED BY <1>1, <1>2, <1>3, <1>4, <1>5

LEMMA RoomBacktrack == RoomInv /\ Backtrack => RoomInv'
  <1> SUFFICES ASSUME RoomInv, Backtrack PROVE RoomInv'
    OBVIOUS
  <1>1. PICK i \in Range(queue), n \in Nat :
             /\ i \in Ids /\ result[i] = 0 /\ n <= Free /\ n <= jobs[i].max /\ Give(i, n)
             /\ Good(request) /\ request' = request /\ table' = table
             /\ satisfied' = satisfied /\ pc' = pc /\ pc = "backtrack"
             /\ queue' \in Seq(Ids) /\ Distinct(queue') /\ Range(queue') = Range(queue) \ {i}
    BY BacktrackFacts
  <1>2. Typed /\ Phases /\ Idle /\ Once /\ Chosen
    BY DEF RoomInv
  <1>3. result \in [Ids -> Nat] /\ Free \in Nat /\ queue \in Seq(Ids)
    BY <1>2 DEF Typed
  <1>4. /\ jobs' = jobs /\ Ids' = Ids /\ algorithm' = algorithm
    BY <1>1, Same
  <1>5. /\ result' \in [Ids -> Nat] /\ result'[i] = n
        /\ \A k \in Ids : k # i => result'[k] = result[k]
        /\ Free \in Int /\ Free' = Free - (n - result[i])
    BY <1>1, <1>3, GiveFacts
  <1>6. Free' \in Nat
    BY <1>1, <1>3, <1>5
  <1>7. Typed'
    BY <1>1, <1>2, <1>4, <1>5, <1>6 DEF Typed
  <1>8. Phases' /\ Idle' /\ InOrder' /\ Once' /\ Portions'
    BY <1>1, <1>2, <1>4 DEF Phases, Idle, InOrder, Once, Portions
  <1>9. Chosen'
    <2>1. Range(queue) \subseteq Ids
      BY <1>3, LenProperties, ElementOfSeq DEF Range
    <2>2. \A k \in Range(queue) : result[k] = 0
      BY <1>1, <1>2 DEF Chosen
    <2>3. \A k \in Range(queue') : result'[k] = 0
      BY <1>1, <1>5, <2>1, <2>2
    <2> QED BY <1>1, <2>3 DEF Chosen
  <1> QED BY <1>7, <1>8, <1>9 DEF RoomInv

LEMMA RoomNext == RoomInv /\ [Next]_vars => RoomInv'
  <1> SUFFICES ASSUME RoomInv, [Next]_vars PROVE RoomInv'
    OBVIOUS
  <1>1. CASE Arrange
    BY <1>1, RoomArrange
  <1>2. CASE Basic \/ EndBasic
    BY <1>2, RoomBasic, RoomEndBasic
  <1>3. CASE NextRound \/ EndShare \/ EndGain \/ EndTop \/ EndTable \/ EndBacktrack \/ Validate
    BY <1>3, RoomEnds
  <1>4. CASE Share
    BY <1>4, RoomShare
  <1>5. CASE Compact \/ Award
    BY <1>5, RoomCompact, RoomAward
  <1>6. CASE TakeOne
    BY <1>6, RoomTakeOne
  <1>7. CASE FillRow \/ Backtrack
    BY <1>7, RoomFillRow, RoomBacktrack
  <1>8. CASE UNCHANGED vars
    <2>1. request' = request /\ result' = result /\ queue' = queue /\ satisfied' = satisfied
          /\ table' = table /\ pc' = pc
      BY <1>8 DEF vars
    <2>2. /\ jobs' = jobs /\ Ids' = Ids /\ algorithm' = algorithm /\ Elastic' = Elastic /\ Rigid' = Rigid
          /\ Arranged' = Arranged /\ Feasible' = Feasible /\ \A k : Portion(k)' = Portion(k)
      BY <2>1, Same
    <2>3. Free' = Free
      BY <2>1, FreeSame
    <2>4. Typed'
      BY <2>1, <2>2, <2>3 DEF RoomInv, Typed
    <2>5. Phases' /\ Idle' /\ InOrder' /\ Once' /\ Chosen' /\ Portions'
      BY <2>1, <2>2 DEF RoomInv, Phases, Idle, InOrder, Visited, Once, Chosen, Portions
    <2> QED BY <2>4, <2>5 DEF RoomInv
  <1> QED BY <1>1, <1>2, <1>3, <1>4, <1>5, <1>6, <1>7, <1>8 DEF Next

\* With a well formed request an algorithm never gives away more GPUs than the scheduler
\* has: what it has given to all jobs is at most the total, at each of its steps.  The
\* variables have their types, too.
THEOREM AllocatesWithinTotal == Spec => []TypeOK
  <1> DEFINE I == request \in Requests /\ (WellFormed(request) => RoomInv)
  <1>1. Init => I
    BY RoomInit DEF Init
  <1>2. I /\ [Next]_vars => I'
    BY RoomNext, RequestKept, GoodKept
  <1>3. I => TypeOK
    BY DEF RoomInv, Typed, TypeOK
  <1> QED BY <1>1, <1>2, <1>3, PTL DEF Spec

-----------------------------------------------------------------------------
(* Who waits for whom.                                                      *)

\* The portions of the jobs before i that have GPUs leave too few for i.
PortionOf == [k \in Ids |-> Portion(k)]
Starved(i) ==
    SumOver(PortionOf, { k \in Before(i) : result[k] > 0 }) + Portion(i) > request.total

\* Starved jobs are all that the first loop leaves without.
Waiting ==
    /\ pc = "basic" =>
          \A k \in 1..Len(jobs) : k <= Visited /\ result[Arranged[k]] = 0 => Starved(Arranged[k])
    /\ pc \in {"share", "validate", "done"} /\ (Elastic \/ Rigid) =>
          \A i \in Ids : result[i] = 0 => Starved(i)

LEMMA BeforeFacts ==
    ASSUME Good(request)
    PROVE  /\ \A n \in 1..Len(jobs) : Before(Arranged[n]) = { Arranged[k] : k \in 1..(n - 1) }
           /\ \A i \in Ids : Before(i) \subseteq Ids
  <1>1. /\ Arranged \in Seq(Ids) /\ Len(Arranged) = Len(jobs) /\ DOMAIN Arranged = 1..Len(jobs)
        /\ Range(Arranged) = Ids /\ Distinct(Arranged) /\ Len(jobs) \in Nat
    BY ArrangedFacts, JobFacts
  <1>2. \A n \in 1..Len(jobs) : Before(Arranged[n]) = { Arranged[k] : k \in 1..(n - 1) }
    <2> SUFFICES ASSUME NEW n \in 1..Len(jobs)
                 PROVE  Before(Arranged[n]) = { Arranged[k] : k \in 1..(n - 1) }
      OBVIOUS
    <2> DEFINE at == CHOOSE k \in DOMAIN Arranged : Arranged[k] = Arranged[n]
    <2>1. at = n
      BY <1>1 DEF Distinct
    <2>2. Before(Arranged[n]) = { Arranged[k] : k \in 1..(at - 1) }
      BY DEF Before
    <2> HIDE DEF at
    <2> QED BY <2>1, <2>2
  <1>3. \A n \in 1..Len(jobs) : Before(Arranged[n]) \subseteq Ids
    <2>1. \A k \in 1..Len(jobs) : Arranged[k] \in Ids
      BY <1>1, ElementOfSeq
    <2> TAKE n \in 1..Len(jobs)
    <2>2. \A k \in 1..(n - 1) : k \in 1..Len(jobs)
      BY <1>1
    <2>3. Before(Arranged[n]) = { Arranged[k] : k \in 1..(n - 1) }
      BY <1>2
    <2> QED BY ONLY <2>1, <2>2, <2>3
  <1>4. \A i \in Ids : \E n \in 1..Len(jobs) : Arranged[n] = i
    BY <1>1 DEF Range
  <1>5. \A i \in Ids : Before(i) \subseteq Ids
    BY <1>3, <1>4
  <1> QED BY <1>2, <1>5

\* A starved job stays starved while no job loses all its GPUs.
LEMMA StarvedKept ==
    ASSUME Good(request), request' = request,
           \A k \in Ids : result[k] > 0 => result'[k] > 0,
           NEW i \in Ids, Starved(i)
    PROVE  Starved(i)'
  <1> DEFINE E == { k \in Before(i) : result[k] > 0 }
             F == { k \in Before(i) : result'[k] > 0 }
  <1>1. Before(i) \subseteq Ids
    BY BeforeFacts
  <1>2. E \in SUBSET F /\ F \subseteq Ids
    BY <1>1
  <1>3. IsFiniteSet(Ids) /\ \A k \in Ids : PortionOf[k] \in Nat
    BY JobFacts DEF PortionOf
  <1>4. /\ jobs' = jobs /\ Ids' = Ids /\ Arranged' = Arranged /\ \A k : Portion(k)' = Portion(k)
    BY Same
  <1>5. Before(i)' = Before(i) /\ PortionOf' = PortionOf
    BY <1>4 DEF Before, PortionOf
  <1>6. SumOver(PortionOf, E) + Portion(i) > request.total
    BY DEF Starved
  <1>7. Starved(i)' <=> SumOver(PortionOf, F) + Portion(i) > request.total
    BY <1>4, <1>5 DEF Starved
  <1> HIDE DEF E, F
  <1>8. IsFiniteSet(F) /\ IsFiniteSet(E) /\ \A k \in F : PortionOf[k] \in Nat
    BY <1>2, <1>3, FS_Subset
  <1>9. SumOver(PortionOf, E) <= SumOver(PortionOf, F)
    BY <1>2, <1>8, SumSubset
  <1>10. SumOver(PortionOf, E) \in Int /\ SumOver(PortionOf, F) \in Int
    <2>1. (\A k \in F : PortionOf[k] \in Int) /\ \A k \in E : PortionOf[k] \in Int
      BY <1>2, <1>8
    <2> QED BY <1>8, <2>1, SumInt
  <1>11. Portion(i) \in Int /\ request.total \in Int
    BY JobFacts
  <1> QED BY <1>6, <1>7, <1>9, <1>10, <1>11

\* The job that does not fit is starved.
LEMMA NoFitStarves ==
    ASSUME RoomInv, pc = "basic", queue # <<>>, ~Fits(Head(queue))
    PROVE  Starved(Head(queue))
  <1> DEFINE i == Head(queue)
             E == { k \in Before(i) : result[k] > 0 }
  <1>1. Good(request) /\ result \in [Ids -> Nat]
    BY DEF RoomInv, Typed
  <1>2. /\ Visited \in Nat /\ Visited + 1 \in 1..Len(jobs)
        /\ i = Arranged[Visited + 1] /\ i \in Ids
    BY NextInOrder
  <1>3. /\ Range(Arranged) = Ids /\ DOMAIN Arranged = 1..Len(jobs)
    BY <1>1, ArrangedFacts
  <1>4. /\ \A k \in 1..Len(jobs) : k > Visited => result[Arranged[k]] = 0
        /\ \A k \in Ids : result[k] \in {0, Portion(k)}
    BY DEF RoomInv, InOrder, Portions
  <1>5. Before(i) = { Arranged[k] : k \in 1..Visited }
    <2>1. Before(Arranged[Visited + 1]) = { Arranged[k] : k \in 1..((Visited + 1) - 1) }
      BY <1>1, <1>2, BeforeFacts
    <2>2. (Visited + 1) - 1 = Visited
      BY <1>2
    <2> HIDE DEF i
    <2> QED BY <1>2, <2>1, <2>2
  <1>6. Before(i) \subseteq Ids
    BY <1>1, <1>2, BeforeFacts
  <1>7. \A x \in Ids : x \notin E => result[x] = 0
    <2> SUFFICES ASSUME NEW x \in Ids, x \notin E PROVE result[x] = 0
      OBVIOUS
    <2>1. PICK m \in 1..Len(jobs) : Arranged[m] = x
      BY <1>3 DEF Range
    <2>2. CASE m > Visited
      BY <1>4, <2>1, <2>2
    <2>3. CASE ~(m > Visited)
      <3>1. m \in 1..Visited
        BY <1>2, <2>3
      <3>2. x \in Before(i)
        BY <1>5, <2>1, <3>1
      <3>3. ~(result[x] > 0) /\ result[x] \in Nat
        BY <1>1, <3>2
      <3> QED BY <3>3
    <2> QED BY <2>2, <2>3
  <1>8. \A x \in E : result[x] \in Int /\ result[x] = PortionOf[x]
    BY <1>1, <1>4, <1>6 DEF PortionOf
  <1>9. E \in SUBSET Ids /\ IsFiniteSet(Ids) /\ request.total \in Nat /\ Portion(i) \in Nat
    BY <1>1, <1>2, <1>6, JobFacts
  <1>10. Starved(i) <=> SumOver(PortionOf, E) + Portion(i) > request.total
    BY DEF Starved
  <1>11. Free < Portion(i)
    <2>1. ~(Free >= Portion(i)) /\ Free \in Nat
      BY DEF Fits, RoomInv, Typed
    <2> HIDE DEF i
    <2> QED BY <1>9, <2>1
  <1> HIDE DEF E, i
  <1>12. SumOver(result, Ids) = SumOver(result, E)
    <2>1. \A x \in Ids : result[x] \in Int /\ (x \notin E => result[x] = 0)
      BY <1>1, <1>7
    <2> QED BY <1>9, <2>1, SumSupport
  <1>13. IsFiniteSet(E)
    BY <1>9, FS_Subset
  <1>14. SumOver(result, E) = SumOver(PortionOf, E)
    BY <1>8, <1>13, SumSame
  <1>15. SumOver(result, E) \in Int
    BY <1>8, <1>13, SumInt
  <1>16. Free = request.total - SumOver(result, Ids)
    BY DEF Free, Allocated
  <1>17. Starved(i)
    BY <1>9, <1>10, <1>11, <1>12, <1>14, <1>15, <1>16
  <1> QED BY <1>17 DEF i

LEMMA WaitingNext == RoomInv /\ RoomInv' /\ Waiting /\ [Next]_vars => Waiting'
  <1> SUFFICES ASSUME RoomInv, RoomInv', Waiting, [Next]_vars PROVE Waiting'
    OBVIOUS
  <1>1. Good(request) /\ result \in [Ids -> Nat] /\ Phases /\ Phases'
    BY DEF RoomInv, Typed
  <1>2. request' = request
    BY RequestKept
  <1>3. /\ jobs' = jobs /\ Ids' = Ids /\ algorithm' = algorithm /\ Elastic' = Elastic /\ Rigid' = Rigid
        /\ Arranged' = Arranged /\ Feasible' = Feasible /\ \A k : Portion(k)' = Portion(k)
    BY <1>2, Same
  <1>4. /\ Arranged \in Seq(Ids) /\ Len(Arranged) = Len(jobs) /\ DOMAIN Arranged = 1..Len(jobs)
        /\ Range(Arranged) = Ids /\ Distinct(Arranged) /\ Len(jobs) \in Nat
    BY <1>1, ArrangedFacts, JobFacts
  <1>5. ASSUME result' = result, NEW i \in Ids, Starved(i) PROVE Starved(i)'
    BY <1>1, <1>2, <1>5, StarvedKept
  <1>6. CASE Basic
    <2> DEFINE i == Head(queue)
    <2>1. /\ pc = "basic" /\ pc' = "basic" /\ queue # <<>> /\ queue' = Tail(queue)
          /\ (Fits(i) /\ Give(i, Portion(i))) \/ (~Fits(i) /\ result' = result)
      BY <1>6 DEF Basic
    <2>2. /\ Visited \in Nat /\ Visited + 1 \in 1..Len(jobs)
          /\ i = Arranged[Visited + 1] /\ i \in Ids /\ result[i] = 0
          /\ Len(jobs) - Len(Tail(queue)) = Visited + 1
      BY <2>1, NextInOrder
    <2>3. Visited' = Visited + 1
      BY <1>3, <2>1, <2>2 DEF Visited
    <2>4. Portion(i) > 0 /\ Portion(i) \in Nat
      <3> HIDE DEF i
      <3>1. Portion(i) \in Nat \ {0}
        BY <1>1, <2>2, JobFacts
      <3> QED BY <3>1
    <2>5. ~Fits(i) => Starved(i)
      BY <2>1, NoFitStarves
    <2> HIDE DEF i
    <2>6. /\ \A k \in Ids : k # i => result'[k] = result[k]
          /\ result'[i] = 0 => ~Fits(i)
      <3>1. CASE Fits(i) /\ Give(i, Portion(i))
        <4>1. result'[i] = Portion(i) /\ \A k \in Ids : k # i => result'[k] = result[k]
          BY <1>1, <2>2, <3>1 DEF Give
        <4> QED BY <2>4, <4>1
      <3>2. CASE ~Fits(i) /\ result' = result
        BY <3>2
      <3> QED BY <2>1, <3>1, <3>2
    <2>7. \A k \in Ids : result[k] > 0 => result'[k] > 0
      BY <2>2, <2>6
    <2>8. ASSUME NEW k \in 1..Len(jobs), k <= Visited + 1, result'[Arranged[k]] = 0
          PROVE  Starved(Arranged[k])'
      <3>1. Arranged[k] \in Ids
        BY <1>4, ElementOfSeq
      <3>2. Starved(Arranged[k])
        <4>1. CASE k = Visited + 1
          BY <2>2, <2>5, <2>6, <2>8, <4>1
        <4>2. CASE k # Visited + 1
          <5>1. k <= Visited
            BY <2>2, <2>8, <4>2
          <5>2. Arranged[k] # i
            BY <1>4, <2>2, <4>2 DEF Distinct
          <5>3. result[Arranged[k]] = 0
            BY <2>6, <2>8, <3>1, <5>2
          <5> QED BY <2>1, <5>1, <5>3 DEF Waiting
        <4> QED BY <4>1, <4>2
      <3> DEFINE x == Arranged[k]
      <3>3. x \in Ids /\ Starved(x) /\ x' = x
        BY <1>3, <3>1, <3>2
      <3> HIDE DEF x
      <3>4. \A y \in Ids : Starved(y) => Starved(y)'
        BY <1>1, <1>2, <2>7, StarvedKept
      <3>5. Starved(x)'
        BY <3>3, <3>4
      <3> QED BY <3>5 DEF x
    <2> QED BY <1>3, <2>1, <2>3, <2>8 DEF Waiting
  <1>7. CASE EndBasic
    <2>1. pc = "basic" /\ queue = <<>> /\ result' = result /\ pc' # "basic"
      BY <1>7 DEF EndBasic
    <2>2. Visited = Len(jobs)
      BY <1>4, <2>1, EmptySeq DEF Visited
    <2>3. \A i \in Ids : result[i] = 0 => Starved(i)
      <3> SUFFICES ASSUME NEW i \in Ids, result[i] = 0 PROVE Starved(i)
        OBVIOUS
      <3>1. PICK k \in 1..Len(jobs) : Arranged[k] = i
        BY <1>4 DEF Range
      <3>2. k <= Visited
        BY <1>4, <2>2
      <3> QED BY <2>1, <3>1, <3>2 DEF Waiting
    <2> QED BY <1>3, <1>5, <2>1, <2>3 DEF Waiting
  <1>8. CASE Share
    <2> DEFINE i == Head(queue)
    <2>1. /\ pc = "share" /\ pc' = "share" /\ queue # <<>>
          /\ Give(i, result[i] + 1) \/ result' = result
      BY <1>8 DEF Share
    <2>2. i \in Ids
      BY <2>1, HeadTailProperties DEF RoomInv, Typed
    <2> HIDE DEF i
    <2>3. \A k \in Ids : /\ result[k] > 0 => result'[k] > 0
                         /\ result'[k] = 0 => result[k] = 0
      <3>1. CASE Give(i, result[i] + 1)
        <4>1. result'[i] = result[i] + 1 /\ \A k \in Ids : k # i => result'[k] = result[k]
          BY <1>1, <2>2, <3>1 DEF Give
        <4> QED BY <1>1, <2>2, <4>1
      <3>2. CASE result' = result
        BY <3>2
      <3> QED BY <2>1, <3>1, <3>2
    <2>4. \A k \in Ids : Starved(k) => Starved(k)'
      BY <1>1, <1>2, <2>3, StarvedKept
    <2>5. Elastic /\ \A k \in Ids : result[k] = 0 => Starved(k)
      BY <1>1, <2>1 DEF Phases, Waiting
    <2> QED BY <1>3, <2>1, <2>3, <2>4, <2>5 DEF Waiting
  <1>9. CASE NextRound \/ EndShare \/ Validate \/ UNCHANGED vars
    <2>1. /\ result' = result
          /\ \/ pc = "share" /\ pc' \in {"share", "validate"}
             \/ pc = "validate" /\ pc' \in {"done", "panicked"}
             \/ pc' = pc /\ queue' = queue
      BY <1>9 DEF NextRound, EndShare, Validate, vars
    <2>2. \A k \in Ids : Starved(k) => Starved(k)'
      BY <1>5, <2>1
    <2>3. pc' = "basic" => Visited' = Visited
      BY <1>3, <2>1 DEF Visited
    <2>4. \A k \in 1..Len(jobs) : Starved(Arranged[k]) => Starved(Arranged[k])'
      <3> TAKE k \in 1..Len(jobs)
      <3> DEFINE x == Arranged[k]
      <3>1. x \in Ids /\ x' = x
        BY <1>3, <1>4, ElementOfSeq
      <3> HIDE DEF x
      <3>2. Starved(x) => Starved(x)'
        BY <2>2, <3>1
      <3> QED BY <3>2 DEF x
    <2> QED BY <1>3, <2>1, <2>2, <2>3, <2>4 DEF Waiting
  <1>10. CASE Arrange
    <2>1. /\ pc' # "basic" => ~(pc' \in {"share", "validate", "done"} /\ (Elastic \/ Rigid))
          /\ pc' = "basic" => queue' = Arranged
      BY <1>10 DEF Arrange, Elastic, Rigid
    <2>2. pc' = "basic" => Visited' = 0
      BY <1>3, <1>4, <2>1 DEF Visited
    <2>3. pc' = "basic" => \A k \in 1..Len(jobs) : ~(k <= Visited')
      BY <1>4, <2>2
    <2> QED BY <1>3, <2>1, <2>3 DEF Waiting
  <1>11. CASE Compact \/ Award \/ EndGain \/ TakeOne \/ EndTop \/ FillRow \/ EndTable \/ Backtrack \/ EndBacktrack
    <2>1. pc \in {"compact", "gain", "top", "optimize", "backtrack"} /\ pc' # "basic"
      BY <1>11 DEF Compact, Award, EndGain, TakeOne, EndTop, FillRow, EndTable, Backtrack, EndBacktrack
    <2>2. ~(Elastic \/ Rigid)
      BY <1>1, <2>1 DEF Phases, Elastic, Rigid
    <2> QED BY <1>3, <2>1, <2>2 DEF Waiting
  <1> QED BY <1>6, <1>7, <1>8, <1>9, <1>10, <1>11 DEF Next

\* A job of a well formed request that an allocation of FIFO, SRJF, Tiresias, ElasticFIFO or ElasticSRJF
\* leaves without GPUs did not fit beside the jobs before it that have some.
THEOREM StarvedByEarlier == Spec => []StarvedByEarlierOnly
  <1> DEFINE I == WellFormed(request) => RoomInv /\ Waiting
  <1>1. Init => I
    BY RoomInit DEF Init, Waiting
  <1>2. I /\ [Next]_vars => I'
    BY RoomNext, WaitingNext, RequestKept, GoodKept
  <1>3. I => StarvedByEarlierOnly
    <2> SUFFICES ASSUME RoomInv, Waiting, pc = "done",
                        algorithm \notin {"ElasticTiresias", "AFS-L", "FfDLOptimizer"},
                        NEW i \in Ids, result[i] = 0
                 PROVE  SumOver([k \in Ids |-> Portion(k)], { k \in Before(i) : result[k] > 0 })
                            + Portion(i) > request.total
      BY DEF StarvedByEarlierOnly
    <2>1. algorithm \in Names
      BY JobFacts DEF RoomInv, Typed
    <2>2. Elastic \/ Rigid
      BY <2>1 DEF Names, Elastic, Rigid
    <2>3. Starved(i)
      BY <2>2 DEF Waiting
    <2> QED BY <2>3 DEF Starved, PortionOf
  <1> QED BY <1>1, <1>2, <1>3, PTL DEF Spec

-----------------------------------------------------------------------------
(* What stays unused.                                                       *)

\* In the elastic variants of FIFO and SRJF a satisfied job has its maximum or
\* waits for more than what is left; the loop ends without GPUs or with all
\* satisfied.
Content ==
    /\ Elastic => \A i \in satisfied :
                     result[i] = jobs[i].max \/ result[i] + Free < jobs[i].min
    /\ pc = "start" => satisfied = {}
    /\ pc \in {"validate", "done"} /\ Elastic => Free = 0 \/ satisfied = Ids

\* AFS-L loses sight of no job below its maximum.
Watched ==
    algorithm = "AFS-L" =>
        /\ \A i \in Ids : result[i] <= jobs[i].max
        /\ pc = "top" => Range(queue) = { i \in Ids : result[i] < jobs[i].max }
        /\ pc \in {"validate", "done"} => Free = 0 \/ \A i \in Ids : result[i] = jobs[i].max

\* Allocations are validated.
Validated == pc = "done" /\ algorithm # "FfDLOptimizer" => Valid

LEMMA ContentNext == RoomInv /\ Content /\ [Next]_vars => Content'
  <1> SUFFICES ASSUME RoomInv, Content, [Next]_vars PROVE Content'
    OBVIOUS
  <1>1. /\ Good(request) /\ result \in [Ids -> Nat] /\ Free \in Nat /\ satisfied \subseteq Ids
        /\ Phases
    BY DEF RoomInv, Typed
  <1>2. request' = request
    BY RequestKept
  <1>3. /\ jobs' = jobs /\ Ids' = Ids /\ algorithm' = algorithm /\ Elastic' = Elastic
    BY <1>2, Same
  <1>4. \A i \in Ids : jobs[i].min \in Nat /\ jobs[i].max \in Nat
    BY <1>1, JobFacts
  <1>5. CASE Basic
    <2> DEFINE i == Head(queue)
    <2>1. /\ pc = "basic" /\ pc' = "basic" /\ queue # <<>>
          /\ \/ /\ Fits(i) /\ Give(i, Portion(i))
                /\ satisfied' = satisfied \/ (satisfied' = satisfied \cup {i} /\ Portion(i) = jobs[i].max)
             \/ ~Fits(i) /\ result' = result /\ satisfied' \subseteq satisfied \cup {i}
      BY <1>5 DEF Basic
    <2>2. i \in Ids /\ result[i] = 0
      BY <2>1, NextInOrder
    <2> HIDE DEF i
    <2>3. Portion(i) \in Nat /\ (Elastic => Portion(i) = jobs[i].min)
      BY <1>1, <2>2, JobFacts DEF Portion, Elastic
    <2>4. ASSUME Elastic, NEW k \in satisfied'
          PROVE  result'[k] = jobs[k].max \/ result'[k] + Free' < jobs[k].min
      <3>1. CASE Fits(i) /\ Give(i, Portion(i))
        <4>1. /\ result' \in [Ids -> Nat] /\ result'[i] = Portion(i)
              /\ \A x \in Ids : x # i => result'[x] = result[x]
              /\ Free \in Int /\ Free' = Free - (Portion(i) - result[i])
          BY <1>1, <1>2, <2>2, <2>3, <3>1, GiveFacts
        <4>2. Free' = Free - Portion(i) /\ Free >= Portion(i)
          BY <2>2, <2>3, <3>1, <4>1 DEF Fits
        <4>3. CASE k # i
          <5>1. k \in satisfied /\ k \in Ids
            BY <1>1, <2>1, <3>1, <4>3
          <5>2. result[k] = jobs[k].max \/ result[k] + Free < jobs[k].min
            BY <2>4, <5>1 DEF Content
          <5>3. result[k] \in Nat /\ jobs[k].min \in Nat /\ result'[k] = result[k]
            BY <1>1, <1>4, <4>1, <4>3, <5>1
          <5> QED BY <1>1, <2>3, <4>2, <5>2, <5>3
        <4>4. CASE k = i
          <5>1. CASE k \in satisfied
            <6>1. 0 = jobs[i].max \/ 0 + Free < jobs[i].min
              BY <2>2, <2>4, <4>4, <5>1 DEF Content
            <6>2. jobs[i].max \in Nat \ {0}
              BY <1>1, <2>2, JobFacts
            <6>3. Free >= jobs[i].min
              BY <2>3, <2>4, <4>2
            <6>4. jobs[i].min \in Nat
              BY <1>4, <2>2
            <6> QED BY <1>1, <6>1, <6>2, <6>3, <6>4
          <5>2. CASE k \notin satisfied
            <6>1. Portion(i) = jobs[i].max
              BY <2>1, <3>1, <4>4, <5>2
            <6> QED BY <4>1, <4>4, <6>1
          <5> QED BY <5>1, <5>2
        <4> QED BY <4>3, <4>4
      <3>2. CASE ~Fits(i) /\ result' = result
        <4>1. Free' = Free
          BY <1>2, <3>2, FreeSame
        <4>2. CASE k \in satisfied
          BY <2>4, <3>2, <4>1, <4>2 DEF Content
        <4>3. CASE k \notin satisfied
          <5>1. k = i
            BY <2>1, <3>2, <4>3
          <5>2. Free < jobs[i].min
            BY <1>1, <2>3, <2>4, <3>2 DEF Fits
          <5>3. result'[k] + Free' = Free
            BY <1>1, <2>2, <3>2, <4>1, <5>1
          <5> QED BY <5>1, <5>2, <5>3
        <4> QED BY <4>2, <4>3
      <3> QED BY <2>1, <3>1, <3>2
    <2> QED BY <1>3, <2>1, <2>4 DEF Content
  <1>6. CASE Share
    <2> DEFINE i == Head(queue)
    <2>1. /\ pc = "share" /\ pc' = "share" /\ queue # <<>> /\ Free > 0
          /\ \/ /\ Wants(i) /\ Give(i, result[i] + 1)
                /\ satisfied' = IF result[i] + 1 = jobs[i].max THEN satisfied \cup {i} ELSE satisfied
             \/ result' = result /\ satisfied' = satisfied
      BY <1>6 DEF Share
    <2>2. i \in Ids
      BY <2>1, HeadTailProperties DEF RoomInv, Typed
    <2> HIDE DEF i
    <2>3. ASSUME Elastic, NEW k \in satisfied'
          PROVE  result'[k] = jobs[k].max \/ result'[k] + Free' < jobs[k].min
      <3>1. CASE Wants(i) /\ Give(i, result[i] + 1)
        <4>1. result[i] \in Nat /\ result[i] + 1 \in Nat
          BY <1>1, <2>2
        <4>2. /\ result' \in [Ids -> Nat] /\ result'[i] = result[i] + 1
              /\ \A x \in Ids : x # i => result'[x] = result[x]
              /\ Free \in Int /\ Free' = Free - ((result[i] + 1) - result[i])
          BY <1>1, <1>2, <2>2, <3>1, <4>1, GiveFacts
        <4>3. Free' = Free - 1
          BY <4>1, <4>2
        <4>4. satisfied' \subseteq satisfied \cup {i} /\ (i \in satisfied' \ satisfied => result[i] + 1 = jobs[i].max)
          BY <2>1, <3>1
        <4>5. CASE k # i
          <5>1. k \in satisfied /\ k \in Ids
            BY <1>1, <4>4, <4>5
          <5>2. result[k] = jobs[k].max \/ result[k] + Free < jobs[k].min
            BY <2>3, <5>1 DEF Content
          <5>3. result[k] \in Nat /\ jobs[k].min \in Nat /\ result'[k] = result[k]
            BY <1>1, <1>4, <4>2, <4>5, <5>1
          <5> QED BY <1>1, <4>3, <5>2, <5>3
        <4>6. CASE k = i
          <5>1. CASE i \in satisfied
            <6>1. result[i] < jobs[i].max
              BY <3>1, <5>1 DEF Wants
            <6>2. result[i] = jobs[i].max \/ result[i] + Free < jobs[i].min
              BY <2>3, <5>1 DEF Content
            <6>3. jobs[i].min \in Nat /\ jobs[i].max \in Nat
              BY <1>4, <2>2
            <6> QED BY <1>1, <4>1, <4>2, <4>3, <4>6, <6>1, <6>2, <6>3
          <5>2. CASE i \notin satisfied
            BY <4>2, <4>4, <4>6, <5>2
          <5> QED BY <5>1, <5>2
        <4> QED BY <4>5, <4>6
      <3>2. CASE result' = result /\ satisfied' = satisfied
        <4>1. Free' = Free
          BY <1>2, <3>2, FreeSame
        <4> QED BY <2>3, <3>2, <4>1 DEF Content
      <3> QED BY <2>1, <3>1, <3>2
    <2> QED BY <1>3, <2>1, <2>3 DEF Content
  <1>7. CASE Compact \/ Award \/ TakeOne \/ Backtrack
    <2>1. pc \in {"compact", "gain", "top", "backtrack"} /\ pc' \in {"gain", "top", "backtrack"}
      BY <1>7 DEF Compact, Award, TakeOne, Backtrack
    <2>2. ~Elastic
      BY <1>1, <2>1 DEF Phases, Elastic
    <2> QED BY <1>3, <2>1, <2>2 DEF Content
  <1>8. CASE \/ Arrange \/ EndBasic \/ NextRound \/ EndShare \/ EndGain \/ EndTop \/ FillRow
             \/ EndTable \/ EndBacktrack \/ Validate \/ UNCHANGED vars
    <2>1. result' = result /\ satisfied' = satisfied
      BY <1>8 DEF vars, Arrange, EndBasic, NextRound, EndShare, EndGain, EndTop, FillRow, EndTable,
                  EndBacktrack, Validate
    <2>2. Free' = Free
      BY <1>2, <2>1, FreeSame
    <2>3. pc' = "start" => pc = "start"
      BY <1>8 DEF vars, Arrange, EndBasic, NextRound, EndShare, EndGain, EndTop, FillRow, EndTable,
                  EndBacktrack, Validate
    <2>4. pc' \in {"validate", "done"} /\ Elastic =>
             pc \in {"validate", "done"} \/ Free = 0 \/ satisfied = Ids
      BY <1>1, <1>8 DEF vars, Arrange, EndBasic, NextRound, EndShare, EndGain, EndTop, FillRow, EndTable,
                  EndBacktrack, Validate, AllSatisfied, Phases, Elastic
    <2> QED BY <1>3, <2>1, <2>2, <2>3, <2>4 DEF Content
  <1> QED BY <1>5, <1>6, <1>7, <1>8 DEF Next

\* AFS-L gives the next GPU to a job of its queue, which leaves it with its maximum.
LEMMA TakeOneFacts ==
    ASSUME RoomInv, TakeOne
    PROVE  \E i \in Range(queue) :
             /\ i \in Ids /\ pc = "top" /\ pc' = "top"
             /\ result'[i] = result[i] + 1 /\ \A k \in Ids : k # i => result'[k] = result[k]
             /\ Range(queue') = IF result[i] + 1 >= jobs[i].max THEN Range(queue) \ {i} ELSE Range(queue)
  <1> DEFINE i == TopPriority
  <1>1. /\ pc' = pc /\ pc = "top" /\ queue # <<>> /\ Distinct(queue) /\ Give(i, result[i] + 1)
        /\ queue' = IF result[i] + 1 >= jobs[i].max THEN Removed(i) ELSE queue
    BY DEF RoomInv, Once, TakeOne, Leaves
  <1>2. queue \in Seq(Ids) /\ result \in [Ids -> Nat] /\ Good(request)
    BY DEF RoomInv, Typed
  <1>3. i \in Ids /\ i \in Range(queue)
    BY <1>1, <1>2, TopFacts
  <1> HIDE DEF i
  <1>4. Range(Removed(i)) = Range(queue) \ {i}
    BY <1>1, <1>2, <1>3, RemovedSeq
  <1>5. result'[i] = result[i] + 1 /\ \A k \in Ids : k # i => result'[k] = result[k]
    BY <1>1, <1>2, <1>3 DEF Give
  <1> QED BY <1>1, <1>3, <1>4, <1>5

LEMMA WatchedNext == RoomInv /\ Watched /\ [Next]_vars => Watched'
  <1> SUFFICES ASSUME RoomInv, Watched, [Next]_vars PROVE Watched'
    OBVIOUS
  <1>0. algorithm' = algorithm
    BY RequestKept, Same
  <1> SUFFICES ASSUME algorithm = "AFS-L" PROVE Watched'
    BY <1>0 DEF Watched
  <1>1. Good(request) /\ result \in [Ids -> Nat] /\ queue \in Seq(Ids) /\ Phases
    BY DEF RoomInv, Typed
  <1>2. request' = request
    BY RequestKept
  <1>3. /\ jobs' = jobs /\ Ids' = Ids /\ algorithm' = algorithm
    BY <1>2, Same
  <1>4. \A i \in Ids : jobs[i].max \in Nat \ {0} /\ result[i] \in Nat
    BY <1>1, JobFacts
  <1>5. \A i \in Ids : result[i] <= jobs[i].max
    BY DEF Watched
  <1>6. CASE TakeOne
    <2>1. PICK i \in Range(queue) :
             /\ i \in Ids /\ pc = "top" /\ pc' = "top"
             /\ result'[i] = result[i] + 1 /\ \A k \in Ids : k # i => result'[k] = result[k]
             /\ Range(queue') = IF result[i] + 1 >= jobs[i].max THEN Range(queue) \ {i} ELSE Range(queue)
      BY <1>6, TakeOneFacts
    <2>2. Range(queue) = { k \in Ids : result[k] < jobs[k].max }
      BY <2>1 DEF Watched
    <2>3. result[i] < jobs[i].max /\ result[i] \in Nat /\ jobs[i].max \in Nat
      BY <1>4, <2>1, <2>2
    <2>4. \A k \in Ids : result'[k] <= jobs[k].max
      BY <1>5, <2>1, <2>3
    <2>5. \A k \in Ids : k \in Range(queue') <=> result'[k] < jobs[k].max
      BY <2>1, <2>2, <2>3
    <2>6. Range(queue') \subseteq Ids
      BY <2>1, <2>2
    <2> QED BY <1>3, <2>1, <2>4, <2>5, <2>6 DEF Watched
  <1>7. CASE Arrange
    <2>1. /\ queue' = Arranged /\ result' = result /\ pc' \in {"top", "panicked"} /\ pc = "start"
      BY <1>7 DEF Arrange
    <2>2. \A i \in Ids : result[i] = 0
      BY <2>1 DEF RoomInv, Idle
    <2>3. Range(queue') = Ids
      BY <1>1, <2>1, ArrangedFacts
    <2>4. \A i \in Ids : result[i] < jobs[i].max
      BY <1>4, <2>2
    <2> QED BY <1>3, <1>5, <2>1, <2>3, <2>4 DEF Watched
  <1>8. CASE EndTop
    <2>1. result' = result /\ pc' = "validate" /\ pc = "top" /\ (queue = <<>> \/ Free = 0)
      BY <1>8 DEF EndTop
    <2>2. Free' = Free
      BY <1>2, <2>1, FreeSame
    <2>3. queue = <<>> => Range(queue) = {}
      <3>1. queue = <<>> => Len(queue) = 0 /\ DOMAIN queue = 1..Len(queue)
        BY <1>1, EmptySeq, LenProperties
      <3>2. queue = <<>> => DOMAIN queue = {}
        BY <3>1
      <3> QED BY <3>2 DEF Range
    <2>4. queue = <<>> => \A i \in Ids : result[i] = jobs[i].max
      <3>1. queue = <<>> => \A i \in Ids : ~(result[i] < jobs[i].max)
        BY <2>1, <2>3 DEF Watched
      <3> QED BY <1>4, <1>5, <3>1
    <2> QED BY <1>3, <1>5, <2>1, <2>2, <2>4 DEF Watched
  <1>9. CASE Validate \/ UNCHANGED vars
    <2>1. /\ result' = result /\ queue' = queue
          /\ pc' = pc \/ (pc = "validate" /\ pc' \in {"done", "panicked"})
      BY <1>9 DEF Validate, vars
    <2>2. Free' = Free
      BY <1>2, <2>1, FreeSame
    <2> QED BY <1>3, <2>1, <2>2 DEF Watched
  <1>10. CASE \/ Basic \/ EndBasic \/ NextRound \/ Share \/ EndShare \/ Compact \/ Award \/ EndGain
              \/ FillRow \/ EndTable \/ Backtrack \/ EndBacktrack
    <2>1. pc \in {"basic", "share", "compact", "gain", "optimize", "backtrack"}
      BY <1>10 DEF Basic, EndBasic, NextRound, Share, EndShare, Compact, Award, EndGain,
           FillRow, EndTable, Backtrack, EndBacktrack
    <2> QED BY <1>1, <2>1 DEF Phases, Elastic
  <1> QED BY <1>6, <1>7, <1>8, <1>9, <1>10 DEF Next

LEMMA ValidatedNext == Validated /\ [Next]_vars => Validated'
  <1> SUFFICES ASSUME Validated, [Next]_vars PROVE Validated'
    OBVIOUS
  <1>1. request' = request
    BY RequestKept
  <1>2. jobs' = jobs /\ Ids' = Ids /\ algorithm' = algorithm
    BY <1>1, Same
  <1>3. result' = result => Valid' = Valid
    BY <1>1, <1>2 DEF Valid, Allocated, Queued
  <1>4. CASE UNCHANGED vars
    BY <1>2, <1>3, <1>4 DEF Validated, vars
  <1>5. CASE Validate
    BY <1>2, <1>3, <1>5 DEF Validated, Validate
  <1>6. CASE Arrange
    BY <1>2, <1>6 DEF Validated, Arrange
  <1>7. CASE \/ Basic \/ EndBasic \/ NextRound \/ Share \/ EndShare \/ Compact \/ Award \/ EndGain
             \/ TakeOne \/ EndTop \/ FillRow \/ EndTable \/ Backtrack \/ EndBacktrack
    <2>1. pc' # "done"
      BY <1>7 DEF Basic, EndBasic, NextRound, Share, EndShare, Compact, Award, EndGain,
           TakeOne, EndTop, FillRow, EndTable, Backtrack, EndBacktrack
    <2> QED BY <2>1 DEF Validated
  <1> QED BY <1>4, <1>5, <1>6, <1>7 DEF Next

\* ElasticFIFO, ElasticSRJF and AFS-L leave GPUs unused only if every job of a well
\* formed request has its maximum or waits with a minimum that exceeds what is left.
THEOREM ConservesWork == Spec => []WorkConserving
  <1> DEFINE I == WellFormed(request) => RoomInv /\ Content /\ Watched /\ Validated
  <1>1. Init => I
    <2> SUFFICES ASSUME Init, WellFormed(request) PROVE Content /\ Watched /\ Validated
      BY RoomInit
    <2>1. Good(request) /\ pc = "start" /\ satisfied = {} /\ \A i \in Ids : result[i] = 0
      BY DEF Init, Good
    <2>2. \A i \in Ids : result[i] <= jobs[i].max
      BY <2>1, JobFacts
    <2> QED BY <2>1, <2>2 DEF Content, Watched, Validated
  <1>2. I /\ [Next]_vars => I'
    BY RoomNext, ContentNext, WatchedNext, ValidatedNext, RequestKept, GoodKept
  <1>3. I => WorkConserving
    <2> SUFFICES ASSUME RoomInv, Content, Watched, Validated, pc = "done",
                        algorithm \in {"ElasticFIFO", "ElasticSRJF", "AFS-L"}, Free # 0, NEW i \in Ids
                 PROVE  \/ result[i] = jobs[i].max
                        \/ result[i] = 0 /\ Free < jobs[i].min /\ Elastic
      BY DEF WorkConserving
    <2>1. Good(request) /\ result \in [Ids -> Nat] /\ Free \in Nat
      BY DEF RoomInv, Typed
    <2>2. CASE algorithm = "AFS-L"
      BY <2>2 DEF Watched
    <2>3. CASE Elastic
      <3>1. result[i] = jobs[i].max \/ result[i] + Free < jobs[i].min
        BY <2>3 DEF Content
      <3>2. result[i] > 0 => result[i] \in jobs[i].min .. jobs[i].max
        BY <2>1, <2>3, JobFacts DEF Validated, Valid, Elastic
      <3>3. result[i] \in Nat /\ jobs[i].min \in Nat /\ jobs[i].max \in Nat
        BY <2>1, JobFacts
      <3> QED BY <2>1, <2>3, <3>1, <3>2, <3>3
    <2> QED BY <2>2, <2>3 DEF Elastic
  <1> QED BY <1>1, <1>2, <1>3, PTL DEF Spec

\* No step takes a GPU from a job of the first queue of a well formed request.
THEOREM FirstQueueKeepsItsGPUs == Spec => FirstQueueKeeps
  <1> DEFINE I == WellFormed(request) => RoomInv
             Keeps == WellFormed(request) =>
                          \A i \in Ids : jobs[i].priority = 0 => result'[i] >= result[i]
  <1>1. I /\ [Next]_vars => [Keeps]_vars
    <2> SUFFICES ASSUME RoomInv, Next, NEW i \in Ids, jobs[i].priority = 0
                 PROVE  result'[i] >= result[i]
      OBVIOUS
    <2>1. Good(request) /\ result \in [Ids -> Nat] /\ queue \in Seq(Ids)
      BY DEF RoomInv, Typed
    <2>2. result' = result => result'[i] >= result[i]
      BY <2>1
    <2>3. ASSUME NEW k \in Ids, NEW n \in Nat, n >= result[k], Give(k, n) PROVE result'[i] >= result[i]
      <3>1. result'[i] = IF i = k THEN n ELSE result[i]
        BY <2>1, <2>3 DEF Give
      <3> QED BY <2>1, <2>3, <3>1
    <2>4. CASE Basic
      <3> DEFINE k == Head(queue)
                 n == Portion(k)
      <3>1. pc = "basic" /\ queue # <<>> /\ (Give(k, n) \/ result' = result)
        BY <2>4 DEF Basic
      <3>2. k \in Ids /\ result[k] = 0
        BY <3>1, NextInOrder
      <3> HIDE DEF k
      <3>3. n \in Nat
        BY <2>1, <3>2, JobFacts
      <3>4. n >= result[k]
        BY <3>2, <3>3
      <3> HIDE DEF n
      <3> QED BY <2>2, <2>3, <3>1, <3>2, <3>3, <3>4
    <2>5. CASE Share
      <3> DEFINE k == Head(queue)
                 n == result[k] + 1
      <3>1. queue # <<>> /\ (Give(k, n) \/ result' = result)
        BY <2>5 DEF Share
      <3>2. k \in Ids
        BY <2>1, <3>1, HeadTailProperties
      <3> HIDE DEF k
      <3>3. n \in Nat /\ n >= result[k]
        BY <2>1, <3>2
      <3> HIDE DEF n
      <3> QED BY <2>2, <2>3, <3>1, <3>2, <3>3
    <2>6. CASE Compact
      <3>1. /\ result'[i] = IF i \in Compacted THEN jobs[i].min ELSE result[i]
            /\ i \in Compacted => jobs[i].priority >= 1
        BY <2>6, CompactFacts
      <3>2. i \notin Compacted
        BY <3>1
      <3> QED BY <2>1, <3>1, <3>2
    <2>7. CASE Award
      <3>1. PICK k \in Range(queue) :
             /\ k \in Ids
             /\ \/ result[k] = 0 /\ Give(k, jobs[k].min)
                \/ result' = result
                \/ Give(k, result[k] + 1)
        BY <2>7, AwardFacts
      <3>2. jobs[k].min \in Nat /\ result[k] \in Nat
        BY <2>1, <3>1, JobFacts
      <3>3. CASE result[k] = 0 /\ Give(k, jobs[k].min)
        <4>1. jobs[k].min >= result[k]
          BY <3>2, <3>3
        <4> QED BY <2>3, <3>1, <3>2, <3>3, <4>1
      <3>4. CASE Give(k, result[k] + 1)
        <4>1. result[k] + 1 \in Nat /\ result[k] + 1 >= result[k]
          BY <3>2
        <4> QED BY <2>3, <3>1, <3>4, <4>1
      <3> QED BY <2>2, <3>1, <3>3, <3>4
    <2>8. CASE TakeOne
      <3>1. PICK k \in Range(queue) :
             /\ k \in Ids
             /\ result'[k] = result[k] + 1 /\ \A x \in Ids : x # k => result'[x] = result[x]
        BY <2>8, TakeOneFacts
      <3>2. result[k] \in Nat /\ result[i] \in Nat
        BY <2>1, <3>1
      <3> QED BY <3>1, <3>2
    <2>9. CASE Backtrack
      <3>1. PICK k \in Range(queue), n \in Nat : k \in Ids /\ result[k] = 0 /\ Give(k, n)
        BY <2>9, BacktrackFacts
      <3>2. n >= result[k]
        BY <3>1
      <3> QED BY <2>3, <3>1, <3>2
    <2>10. CASE \/ Arrange \/ EndBasic \/ NextRound \/ EndShare \/ EndGain \/ EndTop \/ FillRow
                \/ EndTable \/ EndBacktrack \/ Validate
      <3>1. result' = result
        BY <2>10 DEF Arrange, EndBasic, NextRound, EndShare, EndGain, EndTop, FillRow, EndTable,
                     EndBacktrack, Validate
      <3> QED BY <2>2, <3>1
    <2> QED BY <2>4, <2>5, <2>6, <2>7, <2>8, <2>9, <2>10 DEF Next
  <1>2. Init => I
    BY RoomInit
  <1>3. I /\ [Next]_vars => I'
    BY RoomNext, RequestKept, GoodKept
  <1>4. Spec => [][Keeps]_vars
    BY <1>1, <1>2, <1>3, PTL DEF Spec
  <1> QED BY <1>4 DEF FirstQueueKeeps

-----------------------------------------------------------------------------
(* Which requests let no algorithm panic.                                   *)

\* No job has more than its maximum, or some GPUs and less than its minimum; no job
\* that is to get another one has its maximum.
Bounded ==
    /\ pc # "panicked"
    /\ \A i \in Ids : result[i] <= jobs[i].max /\ (result[i] > 0 => result[i] >= jobs[i].min)
    /\ Elastic => \A i \in Ids : i \notin satisfied => result[i] < jobs[i].max
    /\ pc = "gain" => \A i \in Range(queue) : result[i] < jobs[i].max

\* The table has a solution for as many GPUs as there are jobs.
PositiveRow(row, j, total) == \A k \in 0..total : k >= j => row[k] >= 0 /\ (j > 0 => row[k] > 0)
Solvable ==
    pc = "optimize" =>
        /\ Len(queue) \in 1..request.total
        /\ \A j \in 1..Len(table) : PositiveRow(table[j], j - 1, request.total)

\* What is known of a request whose bounds no algorithm overlooks.
LEMMA KeptBounds ==
    ASSUME Good(request), ~BoundsOverlooked(request)
    PROVE  /\ \/ algorithm \in {"FIFO", "SRJF", "Tiresias", "ElasticTiresias"}
              \/ \A i \in Ids : jobs[i].min = 1
           /\ algorithm \in {"ElasticSRJF", "ElasticTiresias"} => \A i \in Ids : jobs[i].min < jobs[i].max
           /\ algorithm = "FfDLOptimizer" => request.total > 0
  <1>1. algorithm \in Names
    BY JobFacts
  <1>2. \A i \in Ids : jobs[i].min \in Nat \ {0} /\ jobs[i].max \in Nat /\ jobs[i].min <= jobs[i].max
    BY JobFacts
  <1>3. request.total \in Nat
    BY JobFacts
  <1>4. \A i \in Ids : /\ algorithm \in {"ElasticFIFO", "ElasticSRJF", "AFS-L", "FfDLOptimizer"} =>
                           ~(jobs[i].min > 1)
                       /\ algorithm \in {"ElasticSRJF", "ElasticTiresias"} => jobs[i].min # jobs[i].max
    BY DEF BoundsOverlooked, algorithm, jobs, Ids
  <1>5. algorithm = "FfDLOptimizer" => request.total # 0
    BY DEF BoundsOverlooked, algorithm
  <1> QED BY <1>1, <1>2, <1>3, <1>4, <1>5 DEF Names

LEMMA SolvableNext ==
    ASSUME RoomInv, ~BoundsOverlooked(request), Solvable, [Next]_vars
    PROVE  Solvable'
  <1>1. Good(request)
    BY DEF RoomInv, Typed
  <1>2. request' = request
    BY RequestKept
  <1>3. /\ jobs' = jobs /\ Ids' = Ids /\ algorithm' = algorithm
    BY <1>2, Same
  <1>4. request.total \in Nat /\ Len(jobs) \in Nat
    BY <1>1, JobFacts
  <1>5. CASE FillRow
    <2> DEFINE n == Len(table)
               row == table[n]
               i == queue[n]
    <2>1. /\ queue' = queue /\ pc' = pc /\ pc = "optimize" /\ i \in Ids
          /\ n \in Nat \ {0} /\ Len(table') = n + 1
          /\ row \in [0..request.total -> Int]
          /\ \A j \in 1..n : table'[j] = table[j]
          /\ table'[n + 1] = Row(row, i)
      BY <1>5, FillFacts
    <2>2. Len(queue) \in 1..request.total /\ \A j \in 1..n : PositiveRow(table[j], j - 1, request.total)
      BY <2>1 DEF Solvable
    <2>3. PositiveRow(row, n - 1, request.total)
      BY <2>1, <2>2
    <2> HIDE DEF n, row, i
    <2>4. ASSUME NEW k \in 0..request.total, k >= n PROVE Row(row, i)[k] > 0
      <3>1. 1 \in (1..k) \cap (1..jobs[i].max) /\ 1 \in 1..(jobs[i].max + 1)
        <4>1. jobs[i].max \in Nat \ {0}
          BY <1>1, <2>1, JobFacts
        <4> QED BY <2>1, <2>4, <4>1
      <3>2. row[k - 1] + At(jobs[i].speedup, 1) <= Row(row, i)[k] /\ Row(row, i)[k] \in Int
        BY <1>1, <2>1, <3>1, RowFacts
      <3>3. At(jobs[i].speedup, 1) \in Nat /\ At(jobs[i].speedup, 1) > 0
        BY <1>1, <2>1, <3>1, Speedups
      <3>4. k - 1 \in 0..request.total /\ k - 1 >= n - 1
        BY <1>4, <2>1, <2>4
      <3>5. row[k - 1] >= 0 /\ row[k - 1] \in Int
        BY <2>1, <2>3, <3>4 DEF PositiveRow
      <3> DEFINE a == row[k - 1]
                 b == At(jobs[i].speedup, 1)
                 c == Row(row, i)[k]
      <3>6. a + b <= c /\ a \in Int /\ b \in Int /\ c \in Int /\ a >= 0 /\ b > 0
        BY <3>2, <3>3, <3>5
      <3> HIDE DEF a, b, c
      <3>7. c > 0
        BY <3>6
      <3> QED BY <3>7 DEF c
    <2>5. PositiveRow(Row(row, i), n, request.total)
      <3>1. \A k \in 0..request.total : Row(row, i)[k] \in Int
        BY <1>1, <2>1, RowFacts
      <3> QED BY <2>4, <3>1 DEF PositiveRow
    <2>6. \A j \in 1..(n + 1) : PositiveRow(table'[j], j - 1, request.total)
      <3> SUFFICES ASSUME NEW j \in 1..(n + 1) PROVE PositiveRow(table'[j], j - 1, request.total)
        OBVIOUS
      <3>1. CASE j = n + 1
        <4>1. j - 1 = n
          BY <2>1, <3>1
        <4> QED BY <2>1, <2>5, <3>1, <4>1
      <3>2. CASE j # n + 1
        <4>1. j \in 1..n
          BY <2>1, <3>2
        <4> QED BY <2>1, <2>2, <4>1 DEF n
      <3> QED BY <3>1, <3>2
    <2>7. \A j \in 1..Len(table') : PositiveRow(table'[j], j - 1, request.total)
      BY <2>1, <2>6
    <2> QED BY <1>2, <2>1, <2>2, <2>7 DEF Solvable
  <1>6. CASE Arrange
    <2> SUFFICES ASSUME pc' = "optimize" PROVE Solvable'
      BY DEF Solvable
    <2>1. algorithm = "FfDLOptimizer" /\ jobs # <<>> /\ queue' = Feasible
      BY <1>6 DEF Arrange
    <2> DEFINE zero == [k \in 0..request.total |-> 0]
    <2>2. table' = <<zero>>
      BY <1>6, <2>1 DEF Arrange
    <2>3. request.total > 0
      BY <1>1, <2>1, KeptBounds
    <2>4. Len(jobs) > 0
      <3>1. jobs \in Seq(Range(jobs))
        BY <1>1, RequestsAssumption DEF Good, IsRequest, jobs
      <3>2. Len(jobs) \in Nat \ {0}
        BY <2>1, <3>1, EmptySeq
      <3> QED BY <3>2
    <2>5. Len(queue') \in 1..request.total
      <3>1. /\ Feasible \in Seq(Ids)
            /\ Len(Feasible) <= request.total
            /\ Len(jobs) > 0 /\ request.total > 0 => Len(Feasible) > 0
        BY <1>1, FeasibleFacts
      <3>2. Len(Feasible) \in Nat
        BY <3>1, LenProperties
      <3> QED BY <1>4, <2>1, <2>3, <2>4, <3>1, <3>2
    <2>6. \A k \in 0..request.total : zero[k] = 0
      OBVIOUS
    <2> HIDE DEF zero
    <2>7. PositiveRow(zero, 0, request.total)
      BY <2>6 DEF PositiveRow
    <2>8. Len(table') = 1 /\ table'[1] = zero
      BY <2>2
    <2>9. \A j \in 1..Len(table') : PositiveRow(table'[j], j - 1, request.total)
      <3>1. \A j \in 1..Len(table') : j = 1 /\ j - 1 = 0
        BY <2>8
      <3> QED BY <2>7, <2>8, <3>1
    <2> QED BY <1>2, <2>5, <2>9 DEF Solvable
  <1>7. CASE UNCHANGED vars
    BY <1>2, <1>7 DEF Solvable, vars
  <1>8. CASE \/ Basic \/ EndBasic \/ NextRound \/ Share \/ EndShare \/ Compact \/ Award \/ EndGain
             \/ TakeOne \/ EndTop \/ EndTable \/ Backtrack \/ EndBacktrack \/ Validate
    <2>1. pc' # "optimize"
      BY <1>8 DEF Basic, EndBasic, NextRound, Share, EndShare, Compact, Award, EndGain,
             TakeOne, EndTop, EndTable, Backtrack, EndBacktrack, Validate
    <2> QED BY <2>1 DEF Solvable
  <1> QED BY <1>5, <1>6, <1>7, <1>8 DEF Next

LEMMA BoundedNext ==
    ASSUME NeedsInfo => request.info, RoomInv, ~BoundsOverlooked(request), Content', Watched', Bounded, Solvable, [Next]_vars
    PROVE  Bounded'
  <1>1. /\ Good(request) /\ result \in [Ids -> Nat] /\ queue \in Seq(Ids) /\ Free \in Nat
        /\ satisfied \subseteq Ids /\ Phases
    BY DEF RoomInv, Typed
  <1>2. request' = request
    BY RequestKept
  <1>3. /\ jobs' = jobs /\ Ids' = Ids /\ algorithm' = algorithm /\ Elastic' = Elastic
    BY <1>2, Same
  <1>4. \A i \in Ids : /\ jobs[i].min \in Nat \ {0} /\ jobs[i].max \in Nat \ {0} /\ result[i] \in Nat
                       /\ jobs[i].min <= jobs[i].max
                       /\ Portion(i) \in Nat /\ jobs[i].min <= Portion(i) /\ Portion(i) <= jobs[i].max
    BY <1>1, JobFacts
  <1>5. /\ pc # "panicked"
        /\ \A i \in Ids : result[i] <= jobs[i].max /\ (result[i] > 0 => result[i] >= jobs[i].min)
        /\ Elastic => \A i \in Ids : i \notin satisfied => result[i] < jobs[i].max
        /\ pc = "gain" => \A i \in Range(queue) : result[i] < jobs[i].max
    BY DEF Bounded
  <1>6. /\ \/ algorithm \in {"FIFO", "SRJF", "Tiresias", "ElasticTiresias"}
           \/ \A i \in Ids : jobs[i].min = 1
        /\ algorithm \in {"ElasticSRJF", "ElasticTiresias"} => \A i \in Ids : jobs[i].min < jobs[i].max
    BY <1>1, KeptBounds
  <1>7. CASE Basic
    <2> DEFINE i == Head(queue)
    <2>1. /\ pc = "basic" /\ pc' = "basic" /\ queue # <<>> /\ satisfied \subseteq satisfied'
          /\ \/ /\ Give(i, Portion(i))
                /\ algorithm = "ElasticFIFO" /\ Portion(i) = jobs[i].max => i \in satisfied'
             \/ result' = result
      BY <1>7 DEF Basic
    <2>2. i \in Ids /\ result[i] = 0
      BY <2>1, NextInOrder
    <2> HIDE DEF i
    <2>3. CASE Give(i, Portion(i))
      <3>1. result'[i] = Portion(i) /\ \A k \in Ids : k # i => result'[k] = result[k]
        BY <1>1, <2>2, <2>3 DEF Give
      <3>2. \A k \in Ids : result'[k] <= jobs[k].max /\ (result'[k] > 0 => result'[k] >= jobs[k].min)
        BY <1>4, <1>5, <2>2, <3>1
      <3>3. Elastic /\ i \notin satisfied' => Portion(i) < jobs[i].max
        <4>1. algorithm = "ElasticFIFO" /\ i \notin satisfied' => Portion(i) # jobs[i].max
          <5>1. CASE result' = result
            <6>1. Portion(i) = 0
              BY <2>2, <3>1, <5>1
            <6> QED BY <1>4, <2>2, <6>1
          <5> QED BY <2>1, <5>1
        <4>2. algorithm = "ElasticSRJF" => Portion(i) = jobs[i].min /\ jobs[i].min < jobs[i].max
          BY <1>6, <2>2 DEF Portion
        <4>3. Portion(i) \in Nat /\ jobs[i].max \in Nat /\ Portion(i) <= jobs[i].max
          BY <1>4, <2>2
        <4> QED BY <4>1, <4>2, <4>3 DEF Elastic
      <3>4. Elastic => \A k \in Ids : k \notin satisfied' => result'[k] < jobs[k].max
        BY <1>5, <2>1, <3>1, <3>3
      <3> QED BY <1>3, <2>1, <3>2, <3>4 DEF Bounded
    <2>4. CASE result' = result
      BY <1>3, <1>5, <2>1, <2>4 DEF Bounded
    <2> QED BY <2>1, <2>3, <2>4
  <1>8. CASE Share
    <2> DEFINE i == Head(queue)
    <2>1. /\ pc = "share" /\ pc' = "share" /\ queue # <<>>
          /\ \/ /\ Give(i, result[i] + 1)
                /\ satisfied' = IF result[i] + 1 = jobs[i].max THEN satisfied \cup {i} ELSE satisfied
             \/ result' = result /\ satisfied' = satisfied
      BY <1>8 DEF Share
    <2>2. i \in Ids
      BY <1>1, <2>1, HeadTailProperties
    <2>3. Elastic
      BY <1>1, <2>1 DEF Phases
    <2> HIDE DEF i
    <2>4. CASE /\ Give(i, result[i] + 1)
               /\ satisfied' = IF result[i] + 1 = jobs[i].max THEN satisfied \cup {i} ELSE satisfied
      <3>1. result'[i] = result[i] + 1 /\ \A k \in Ids : k # i => result'[k] = result[k]
        BY <1>1, <2>2, <2>4 DEF Give
      <3>2. \A k \in Ids : k \notin satisfied' => result'[k] < jobs[k].max
        <4>1. i \notin satisfied' => result[i] < jobs[i].max /\ result[i] + 1 # jobs[i].max
          BY <1>5, <2>2, <2>3, <2>4
        <4>2. result[i] \in Nat /\ jobs[i].max \in Nat
          BY <1>4, <2>2
        <4>3. i \notin satisfied' => result'[i] < jobs[i].max
          BY <3>1, <4>1, <4>2
        <4>4. \A k \in Ids : k # i /\ k \notin satisfied' => k \notin satisfied
          BY <2>4
        <4> QED BY <1>5, <2>3, <3>1, <4>3, <4>4
      <3>3. \A k \in satisfied' : result'[k] = jobs[k].max \/ result'[k] + Free' < jobs[k].min
        BY <1>3, <2>3 DEF Content
      <3>4. Free' \in Nat
        BY RoomNext DEF RoomInv, Typed
      <3>5. \A k \in Ids : result'[k] \in Nat
        BY <1>4, <2>2, <3>1
      <3>6. \A k \in Ids : result'[k] <= jobs[k].max
        <4> SUFFICES ASSUME NEW k \in Ids PROVE result'[k] <= jobs[k].max
          OBVIOUS
        <4>1. jobs[k].max \in Nat /\ jobs[k].min \in Nat /\ jobs[k].min <= jobs[k].max /\ result'[k] \in Nat
          BY <1>4, <3>5
        <4>2. CASE k \in satisfied'
          BY <3>3, <3>4, <4>1, <4>2
        <4>3. CASE k \notin satisfied'
          BY <3>2, <4>1, <4>3
        <4> QED BY <4>2, <4>3
      <3>7. \A k \in Ids : result'[k] > 0 => result'[k] >= jobs[k].min
        <4>1. \A k \in Ids : jobs[k].min = 1
          BY <1>6, <2>3 DEF Elastic
        <4> QED BY <3>5, <4>1
      <3> QED BY <1>3, <2>1, <3>2, <3>6, <3>7 DEF Bounded
    <2>5. CASE result' = result /\ satisfied' = satisfied
      BY <1>3, <1>5, <2>1, <2>5 DEF Bounded
    <2> QED BY <2>1, <2>4, <2>5
  <1>9. CASE Compact
    <2>1. /\ pc' = "gain" /\ algorithm = "ElasticTiresias"
          /\ \A i \in Ids : result'[i] = IF i \in Compacted THEN jobs[i].min ELSE result[i]
          /\ Range(queue') = { i \in Ids : result'[i] < jobs[i].max /\ Free' >= jobs[i].min }
      BY <1>9, CompactFacts
    <2>2. \A i \in Ids : result'[i] <= jobs[i].max /\ (result'[i] > 0 => result'[i] >= jobs[i].min)
      BY <1>4, <1>5, <2>1
    <2> QED BY <1>3, <2>1, <2>2 DEF Bounded, Elastic
  <1>10. CASE Award
    <2>1. PICK i \in Range(queue) :
             /\ i \in Ids /\ pc' = pc /\ pc = "gain"
             /\ \/ /\ result[i] = 0 /\ Give(i, jobs[i].min) /\ Range(queue') = Range(queue)
                \/ result' = result /\ Range(queue') = Range(queue) \ {i}
                \/ /\ result[i] > 0 /\ Give(i, result[i] + 1)
                   /\ Range(queue') = IF Leaves(i, result[i] + 1) THEN Range(queue) \ {i} ELSE Range(queue)
      BY <1>10, AwardFacts
    <2>2. algorithm = "ElasticTiresias" /\ ~Elastic
      BY <1>1, <2>1 DEF Phases, Elastic
    <2>3. /\ jobs[i].min \in Nat \ {0} /\ jobs[i].max \in Nat /\ result[i] \in Nat
          /\ jobs[i].min < jobs[i].max /\ result[i] < jobs[i].max
      BY <1>4, <1>5, <1>6, <2>1, <2>2
    <2>4. \A k \in Range(queue) : k \in Ids /\ result[k] < jobs[k].max
      BY <1>1, <1>5, <2>1, LenProperties, ElementOfSeq DEF Range
    <2>5. CASE result[i] = 0 /\ Give(i, jobs[i].min) /\ Range(queue') = Range(queue)
      <3>1. result'[i] = jobs[i].min /\ \A k \in Ids : k # i => result'[k] = result[k]
        BY <1>1, <2>1, <2>5 DEF Give
      <3>2. \A k \in Ids : result'[k] <= jobs[k].max /\ (result'[k] > 0 => result'[k] >= jobs[k].min)
        BY <1>5, <2>3, <3>1
      <3>3. \A k \in Range(queue') : result'[k] < jobs[k].max
        BY <2>3, <2>4, <2>5, <3>1
      <3> QED BY <1>3, <2>1, <2>2, <3>2, <3>3 DEF Bounded
    <2>6. CASE result' = result /\ Range(queue') = Range(queue) \ {i}
      BY <1>3, <1>5, <2>1, <2>2, <2>4, <2>6 DEF Bounded
    <2>7. CASE /\ result[i] > 0 /\ Give(i, result[i] + 1)
               /\ Range(queue') = IF Leaves(i, result[i] + 1) THEN Range(queue) \ {i} ELSE Range(queue)
      <3>1. result'[i] = result[i] + 1 /\ \A k \in Ids : k # i => result'[k] = result[k]
        BY <1>1, <2>1, <2>7 DEF Give
      <3>2. result'[i] <= jobs[i].max /\ result'[i] >= jobs[i].min
        <4>1. result[i] >= jobs[i].min
          BY <1>5, <2>1, <2>7
        <4> QED BY <2>3, <3>1, <4>1
      <3>3. \A k \in Ids : result'[k] <= jobs[k].max /\ (result'[k] > 0 => result'[k] >= jobs[k].min)
        BY <1>5, <3>1, <3>2
      <3>4. \A k \in Range(queue') : result'[k] < jobs[k].max
        <4>1. ~Leaves(i, result[i] + 1) => result[i] + 1 < jobs[i].max
          BY <2>3 DEF Leaves
        <4> QED BY <2>4, <2>7, <3>1, <4>1
      <3> QED BY <1>3, <2>1, <2>2, <3>3, <3>4 DEF Bounded
    <2> QED BY <2>1, <2>5, <2>6, <2>7
  <1>11. CASE TakeOne
    <2>1. pc = "top" /\ pc' = "top"
      BY <1>11 DEF TakeOne
    <2>2. algorithm = "AFS-L" /\ ~Elastic
      BY <1>1, <2>1 DEF Phases, Elastic
    <2>3. \A i \in Ids : result'[i] <= jobs[i].max
      BY <1>3, <2>2 DEF Watched
    <2>4. \A i \in Ids : result'[i] \in Nat /\ jobs[i].min = 1
      BY <1>3, <1>6, <2>2, RoomNext DEF RoomInv, Typed
    <2> QED BY <1>3, <2>1, <2>2, <2>3, <2>4 DEF Bounded
  <1>12. CASE Backtrack
    <2>1. PICK i \in Range(queue), n \in Nat :
             i \in Ids /\ result[i] = 0 /\ n <= jobs[i].max /\ Give(i, n) /\ pc' = pc /\ pc = "backtrack"
      BY <1>12, BacktrackFacts
    <2>2. algorithm = "FfDLOptimizer" /\ ~Elastic
      BY <1>1, <2>1 DEF Phases, Elastic
    <2>3. result'[i] = n /\ \A k \in Ids : k # i => result'[k] = result[k]
      BY <1>1, <2>1 DEF Give
    <2>4. \A k \in Ids : result'[k] <= jobs[k].max /\ (result'[k] > 0 => result'[k] >= jobs[k].min)
      BY <1>5, <1>6, <2>1, <2>2, <2>3
    <2> QED BY <1>3, <2>1, <2>2, <2>4 DEF Bounded
  <1>13. CASE Arrange \/ EndBasic \/ NextRound \/ EndShare \/ EndGain \/ EndTop \/ FillRow \/ EndBacktrack \/ UNCHANGED vars
    <2>1. result' = result /\ satisfied' = satisfied
      BY <1>13 DEF vars, Arrange, EndBasic, NextRound, EndShare, EndGain, EndTop, FillRow, EndBacktrack
    <2>2. pc' # "panicked" /\ (pc' = "gain" => pc = "gain" /\ queue' = queue)
      BY <1>5, <1>13 DEF vars, Arrange, EndBasic, NextRound, EndShare, EndGain, EndTop, FillRow, EndBacktrack
    <2> QED BY <1>3, <1>5, <2>1, <2>2 DEF Bounded
  <1>14. CASE EndTable
    <2> DEFINE n == Len(table)
               row == table[n]
    <2>1. /\ pc = "optimize" /\ n = Len(queue) + 1
          /\ result' = result /\ satisfied' = satisfied
          /\ pc' = IF row[request.total] > 0 THEN "backtrack" ELSE "panicked"
      BY <1>14 DEF EndTable, Last
    <2>2. Len(queue) \in 1..request.total /\ \A j \in 1..n : PositiveRow(table[j], j - 1, request.total)
      BY <2>1 DEF Solvable
    <2>3. request.total \in Nat
      BY <1>1, JobFacts
    <2>4. n \in 1..n /\ n - 1 > 0 /\ request.total >= n - 1 /\ request.total \in 0..request.total
      BY <2>1, <2>2, <2>3
    <2>5. PositiveRow(row, n - 1, request.total)
      BY <2>2, <2>4
    <2> HIDE DEF n, row
    <2>6. row[request.total] > 0
      BY <2>4, <2>5 DEF PositiveRow
    <2> QED BY <1>3, <1>5, <2>1, <2>6 DEF Bounded
  <1>15. CASE Validate
    <2>1. pc = "validate" /\ result' = result /\ satisfied' = satisfied
          /\ pc' = IF Valid THEN "done" ELSE "panicked"
      BY <1>15 DEF Validate
    <2>2. Allocated <= request.total
      <3>1. IsFiniteSet(Ids) /\ request.total \in Int /\ \A i \in Ids : result[i] \in Int
        BY <1>1, <1>4, JobFacts
      <3>2. Allocated \in Int
        BY <3>1, SumInt DEF Allocated
      <3>3. request.total - Allocated >= 0
        BY <1>1 DEF Free
      <3> QED BY <3>1, <3>2, <3>3
    <2>3. \A i \in Ids : result[i] > 0 => result[i] \in jobs[i].min .. jobs[i].max
      BY <1>4, <1>5
    <2>4. Valid
      BY <1>1, <2>2, <2>3, JobFacts DEF Valid
    <2> QED BY <1>3, <1>5, <2>1, <2>4 DEF Bounded
  <1> QED BY <1>7, <1>8, <1>9, <1>10, <1>11, <1>12, <1>13, <1>14, <1>15 DEF Next

\* Whatever a scheduler sends, the allocator panics only for the reasons that the
\* property names: neither where an algorithm finds no solution nor in validateResult
\* for any other.
THEOREM PanicsHaveReasons == Spec => []PanicsAreExplained
  <1> DEFINE Ok == (NeedsInfo => request.info) /\ WellFormed(request) /\ ~BoundsOverlooked(request)
             Inv == RoomInv /\ Content /\ Watched /\ Bounded /\ Solvable
             I == Ok => Inv
  <1>1. Init => I
    <2> SUFFICES ASSUME Init, WellFormed(request) PROVE Content /\ Watched /\ Bounded /\ Solvable
      BY RoomInit
    <2>1. Good(request) /\ pc = "start" /\ satisfied = {} /\ \A i \in Ids : result[i] = 0
      BY DEF Init, Good
    <2>2. \A i \in Ids : result[i] <= jobs[i].max /\ result[i] < jobs[i].max /\ ~(result[i] > 0)
      BY <2>1, JobFacts
    <2> QED BY <2>1, <2>2 DEF Content, Watched, Bounded, Solvable
  <1>2. I /\ [Next]_vars => I'
    <2> SUFFICES ASSUME NeedsInfo => request.info, ~BoundsOverlooked(request), Inv, [Next]_vars PROVE Inv'
      <3>1. [Next]_vars => (Ok' <=> Ok)
        BY RequestKept, GoodKept, Same DEF NeedsInfo, BoundsOverlooked
      <3> QED BY <3>1
    <2>1. RoomInv'
      BY RoomNext
    <2>2. Content' /\ Watched'
      BY ContentNext, WatchedNext
    <2>3. Solvable'
      BY SolvableNext
    <2>4. Bounded'
      BY <2>2, BoundedNext
    <2> QED BY <2>1, <2>2, <2>3, <2>4
  <1>3. I => PanicsAreExplained
    BY DEF Bounded, PanicsAreExplained
  <1> QED BY <1>1, <1>2, <1>3, PTL DEF Spec

-----------------------------------------------------------------------------
(* FfDLOptimizer finds the highest throughput.                              *)

\* The mark of a missing solution, -10000, is lower than any sum of throughputs can
\* make up for.
Outweighs(w, r) ==
    /\ w \in [DOMAIN r.jobs -> Nat]
    /\ \A i \in DOMAIN r.jobs : \A g \in 1..r.jobs[i].max : At(r.jobs[i].speedup, g) <= w[i]
    /\ SumOver(w, DOMAIN r.jobs) < 10000
Modest(r) == \E w : Outweighs(w, r)
Weight == CHOOSE w : Outweighs(w, request)

FirstJobs(j) == { Feasible[l] : l \in 1..j }

\* An allocation of k GPUs to jobs S, at least one for each.
Serves(a, S, k) ==
    /\ a \in [S -> 1..request.total]
    /\ \A i \in S : a[i] <= jobs[i].max
    /\ SumOver(a, S) <= k

\* The row tells of each number of GPUs the most throughput of the first j jobs, or
\* that there are too few.
Best(row, j) ==
    /\ \A k \in 0..request.total : \A a : Serves(a, FirstJobs(j), k) => Throughput(a) <= row[k]
    /\ \A k \in 0..request.total : k >= j => row[k] >= 0
    /\ \A k \in 0..request.total : k < j => row[k] <= NoSolution + SumOver(Weight, FirstJobs(j))

LEMMA FirstJobsFacts ==
    ASSUME Good(request)
    PROVE  /\ FirstJobs(0) = {} /\ Len(Feasible) \in Nat
           /\ \A j \in 1..Len(Feasible) :
                 /\ Feasible[j] \in Ids /\ Feasible[j] \notin FirstJobs(j - 1)
                 /\ FirstJobs(j) = FirstJobs(j - 1) \cup {Feasible[j]}
           /\ \A j \in 0..Len(Feasible) : FirstJobs(j) \subseteq Ids /\ IsFiniteSet(FirstJobs(j))
           /\ FirstJobs(Len(Feasible)) = Range(Feasible)
  <1> DEFINE n == Len(Feasible)
  <1>1. Feasible \in Seq(Ids) /\ Distinct(Feasible)
    BY FeasibleFacts
  <1>2. n \in Nat /\ DOMAIN Feasible = 1..n /\ \A j \in 1..n : Feasible[j] \in Ids
    BY <1>1, LenProperties, ElementOfSeq
  <1>3. \A k, l \in 1..n : Feasible[k] = Feasible[l] => k = l
    BY <1>1, <1>2 DEF Distinct
  <1> HIDE DEF n
  <1>4. FirstJobs(0) = {}
    <2>1. 1..0 = {}
      OBVIOUS
    <2> QED BY <2>1 DEF FirstJobs
  <1>5. ASSUME NEW j \in 1..n
        PROVE  Feasible[j] \notin FirstJobs(j - 1) /\ FirstJobs(j) = FirstJobs(j - 1) \cup {Feasible[j]}
    <2>1. \A l \in 1..(j - 1) : l \in 1..n /\ l # j
      BY <1>2
    <2>2. Feasible[j] \notin FirstJobs(j - 1)
      BY <1>3, <2>1 DEF FirstJobs
    <2>3. 1..j = (1..(j - 1)) \cup {j}
      <3>1. j \in Nat \ {0}
        BY <1>2
      <3> QED BY ONLY <3>1
    <2>4. { Feasible[l] : l \in (1..(j - 1)) \cup {j} } = { Feasible[l] : l \in 1..(j - 1) } \cup {Feasible[j]}
      OBVIOUS
    <2> QED BY <2>2, <2>3, <2>4 DEF FirstJobs
  <1>6. ASSUME NEW j \in 0..n PROVE FirstJobs(j) \subseteq Ids /\ IsFiniteSet(FirstJobs(j))
    <2>1. \A l \in 1..j : l \in 1..n
      BY <1>2
    <2>2. FirstJobs(j) \subseteq Ids
      BY <1>2, <2>1 DEF FirstJobs
    <2>3. IsFiniteSet(Ids)
      BY JobFacts
    <2> QED BY <2>2, <2>3, FS_Subset
  <1>7. FirstJobs(n) = Range(Feasible)
    BY <1>2 DEF FirstJobs, Range
  <1> QED BY <1>2, <1>4, <1>5, <1>6, <1>7 DEF n

LEMMA WeightFacts ==
    ASSUME Good(request), Modest(request)
    PROVE  /\ \A i \in Ids : Weight[i] \in Nat /\ \A g \in 1..jobs[i].max : At(jobs[i].speedup, g) <= Weight[i]
           /\ \A j \in 0..Len(Feasible) : SumOver(Weight, FirstJobs(j)) \in Nat
                                          /\ SumOver(Weight, FirstJobs(j)) < 10000
           /\ \A j \in 1..Len(Feasible) :
                 SumOver(Weight, FirstJobs(j)) = Weight[Feasible[j]] + SumOver(Weight, FirstJobs(j - 1))
  <1>1. Outweighs(Weight, request)
    BY DEF Modest, Weight
  <1>2. /\ \A i \in Ids : Weight[i] \in Nat /\ \A g \in 1..jobs[i].max : At(jobs[i].speedup, g) <= Weight[i]
        /\ SumOver(Weight, Ids) < 10000
    BY <1>1 DEF Outweighs, Ids, jobs
  <1>3. IsFiniteSet(Ids)
    BY JobFacts
  <1>4. /\ Len(Feasible) \in Nat
        /\ \A j \in 1..Len(Feasible) :
                 /\ Feasible[j] \in Ids /\ Feasible[j] \notin FirstJobs(j - 1)
                 /\ FirstJobs(j) = FirstJobs(j - 1) \cup {Feasible[j]}
        /\ \A j \in 0..Len(Feasible) : FirstJobs(j) \subseteq Ids /\ IsFiniteSet(FirstJobs(j))
    BY FirstJobsFacts
  <1>5. ASSUME NEW j \in 0..Len(Feasible)
        PROVE  SumOver(Weight, FirstJobs(j)) \in Nat /\ SumOver(Weight, FirstJobs(j)) < 10000
    <2> DEFINE F == FirstJobs(j)
    <2>1. F \in SUBSET Ids /\ IsFiniteSet(F)
      BY <1>4
    <2> HIDE DEF F
    <2>2. SumOver(Weight, F) <= SumOver(Weight, Ids)
      BY <1>2, <1>3, <2>1, SumSubset
    <2>3. SumOver(Weight, F) \in Nat
      BY <1>2, <2>1, SumNat
    <2>4. SumOver(Weight, Ids) \in Nat
      BY <1>2, <1>3, SumNat
    <2>5. SumOver(Weight, F) < 10000
      BY <1>2, <2>2, <2>3, <2>4
    <2> QED BY <2>3, <2>5 DEF F
  <1>6. ASSUME NEW j \in 1..Len(Feasible)
        PROVE  SumOver(Weight, FirstJobs(j)) = Weight[Feasible[j]] + SumOver(Weight, FirstJobs(j - 1))
    <2> DEFINE F == FirstJobs(j - 1)
               i == Feasible[j]
    <2>1. j - 1 \in 0..Len(Feasible)
      BY <1>4
    <2>2. i \in Ids /\ i \notin F /\ FirstJobs(j) = F \cup {i} /\ F \subseteq Ids /\ IsFiniteSet(F)
      BY <1>4, <2>1
    <2> HIDE DEF F, i
    <2>3. \A x \in F \cup {i} : Weight[x] \in Int
      BY <1>2, <2>2
    <2>4. SumOver(Weight, F \cup {i}) = Weight[i] + SumOver(Weight, F)
      BY <2>2, <2>3, SumAdd
    <2> QED BY <2>2, <2>4 DEF F, i
  <1> QED BY <1>2, <1>5, <1>6

\* Without jobs there is no throughput.
LEMMA BestFirst ==
    ASSUME Good(request), NEW row, \A k \in 0..request.total : row[k] = 0
    PROVE  Best(row, 0)
  <1>1. FirstJobs(0) = {}
    BY FirstJobsFacts
  <1>2. ASSUME NEW k, NEW a, Serves(a, {}, k) PROVE Throughput(a) = 0
    <2>1. DOMAIN a = {}
      BY <1>2 DEF Serves
    <2> DEFINE f == [i \in DOMAIN a |-> At(jobs[i].speedup, a[i])]
    <2>2. Throughput(a) = SumOver(f, {})
      BY <2>1 DEF Throughput
    <2> HIDE DEF f
    <2> QED BY <2>2, SumEmpty
  <1>3. \A k \in 0..request.total : row[k] >= 0 /\ ~(k < 0)
    BY JobFacts
  <1>4. \A k \in 0..request.total : \A a : Serves(a, FirstJobs(0), k) => Throughput(a) <= row[k]
    BY <1>1, <1>2
  <1> QED BY <1>3, <1>4 DEF Best

\* One job more: its GPUs and those of the jobs before it.
LEMMA ServesOneMore ==
    ASSUME Good(request), NEW F, F \subseteq Ids, IsFiniteSet(F), NEW i \in Ids, i \notin F,
           NEW k \in 0..request.total, NEW a, Serves(a, F \cup {i}, k)
    PROVE  /\ a[i] \in (1..k) \cap (1..jobs[i].max)
           /\ k - a[i] \in 0..request.total
           /\ Serves(Restrict(a, F), F, k - a[i])
           /\ Throughput(a) = At(jobs[i].speedup, a[i]) + Throughput(Restrict(a, F))
           /\ Throughput(Restrict(a, F)) \in Int
  <1> DEFINE b == Restrict(a, F)
             fa == [x \in F \cup {i} |-> At(jobs[x].speedup, a[x])]
             fb == [x \in F |-> At(jobs[x].speedup, b[x])]
  <1>0. b = [x \in F |-> a[x]]
    BY DEF Restrict
  <1> HIDE DEF b
  <1>1. /\ request.total \in Nat
        /\ \A x \in Ids : jobs[x].max \in Nat \ {0}
    BY JobFacts
  <1>2. /\ a \in [F \cup {i} -> 1..request.total]
        /\ \A x \in F \cup {i} : a[x] <= jobs[x].max
        /\ SumOver(a, F \cup {i}) <= k
    BY DEF Serves
  <1>3. \A x \in F \cup {i} : a[x] \in Nat /\ a[x] \in Int /\ a[x] \in 1..request.total
    BY <1>1, <1>2
  <1>4. SumOver(a, F \cup {i}) = a[i] + SumOver(a, F)
    BY <1>3, SumAdd
  <1>5. SumOver(a, F) \in Nat
    BY <1>3, SumNat
  <1>6. SumOver(a, F) = SumOver(b, F)
    <2>1. \A x \in F : a[x] \in Int /\ a[x] = b[x]
      BY <1>0, <1>3
    <2> QED BY <2>1, SumSame
  <1>7. a[i] \in (1..k) \cap (1..jobs[i].max) /\ k - a[i] \in 0..request.total
        /\ SumOver(b, F) <= k - a[i]
    <2>1. a[i] \in 1..request.total /\ a[i] <= jobs[i].max /\ a[i] + SumOver(a, F) <= k
      BY <1>2, <1>3, <1>4
    <2> QED BY <1>1, <1>5, <1>6, <2>1
  <1>8. Serves(b, F, k - a[i])
    BY <1>0, <1>2, <1>7 DEF Serves
  <1>9. /\ \A x \in F \cup {i} : fa[x] \in Int
        /\ \A x \in F : fa[x] = fb[x] /\ fa[x] \in Int
        /\ fa[i] = At(jobs[i].speedup, a[i])
    <2>1. \A x \in F \cup {i} : x \in Ids /\ a[x] \in Nat
      BY <1>3
    <2>2. \A x \in F \cup {i} : At(jobs[x].speedup, a[x]) \in Int
      BY <2>1, Speedups
    <2> QED BY <1>0, <2>2
  <1>10. Throughput(a) = SumOver(fa, F \cup {i})
    <2>1. DOMAIN a = F \cup {i}
      BY <1>2
    <2> QED BY <2>1 DEF Throughput
  <1>11. Throughput(b) = SumOver(fb, F)
    <2>1. DOMAIN b = F
      BY <1>0
    <2> QED BY <2>1 DEF Throughput
  <1> HIDE DEF fa, fb
  <1>12. SumOver(fa, F \cup {i}) = fa[i] + SumOver(fa, F)
    BY <1>9, SumAdd
  <1>13. SumOver(fa, F) = SumOver(fb, F)
    BY <1>9, SumSame
  <1>14. SumOver(fa, F) \in Int
    BY <1>9, SumInt
  <1> QED BY <1>7, <1>8, <1>9, <1>10, <1>11, <1>12, <1>13, <1>14 DEF b

\* From a row that tells the most throughput to the next.
LEMMA BestRow ==
    ASSUME Good(request), Modest(request), NEW j \in 1..Len(Feasible),
           NEW row \in [0..request.total -> Int], Best(row, j - 1)
    PROVE  Best(Row(row, Feasible[j]), j)
  <1> DEFINE F == FirstJobs(j - 1)
             i == Feasible[j]
             new == Row(row, i)
             W == SumOver(Weight, F)
  <1>1. /\ request.total \in Nat
        /\ \A x \in Ids : jobs[x].max \in Nat \ {0}
    BY JobFacts
  <1>2. /\ Len(Feasible) \in Nat /\ j - 1 \in 0..Len(Feasible)
        /\ i \in Ids /\ i \notin F /\ FirstJobs(j) = F \cup {i}
        /\ F \subseteq Ids /\ IsFiniteSet(F)
    <2>1. Len(Feasible) \in Nat
      BY FirstJobsFacts
    <2>2. j - 1 \in 0..Len(Feasible)
      BY <2>1
    <2> QED BY <2>1, <2>2, FirstJobsFacts
  <1>3. /\ \A g \in 1..jobs[i].max : At(jobs[i].speedup, g) <= Weight[i]
        /\ Weight[i] \in Nat /\ W \in Nat
        /\ SumOver(Weight, FirstJobs(j)) = Weight[i] + W
    <2>0. /\ \A x \in Ids : Weight[x] \in Nat /\ \A g \in 1..jobs[x].max : At(jobs[x].speedup, g) <= Weight[x]
          /\ \A l \in 0..Len(Feasible) : SumOver(Weight, FirstJobs(l)) \in Nat
                                          /\ SumOver(Weight, FirstJobs(l)) < 10000
          /\ \A l \in 1..Len(Feasible) :
                 SumOver(Weight, FirstJobs(l)) = Weight[Feasible[l]] + SumOver(Weight, FirstJobs(l - 1))
      BY WeightFacts
    <2>1. Weight[i] \in Nat /\ \A g \in 1..jobs[i].max : At(jobs[i].speedup, g) <= Weight[i]
      <3>1. i \in Ids
        BY <1>2
      <3> HIDE DEF i
      <3> QED BY <2>0, <3>1
    <2>2. W \in Nat
      <3> DEFINE l == j - 1
      <3>1. l \in 0..Len(Feasible)
        BY <1>2
      <3> HIDE DEF l
      <3>2. SumOver(Weight, FirstJobs(l)) \in Nat
        BY <2>0, <3>1
      <3> QED BY <3>2 DEF l
    <2>3. SumOver(Weight, FirstJobs(j)) = Weight[i] + W
      BY <2>0
    <2> QED BY <2>1, <2>2, <2>3
  <1>4. /\ new \in [0..request.total -> Int]
        /\ \A k \in 0..request.total : \A g \in (1..k) \cap (1..jobs[i].max) :
                 row[k - g] + At(jobs[i].speedup, g) <= new[k]
        /\ \A k \in 0..request.total :
                 \/ new[k] = NoSolution
                 \/ \E g \in (1..k) \cap (1..jobs[i].max) :
                       new[k] = row[k - g] + At(jobs[i].speedup, g)
    BY <1>2, RowFacts
  <1>5. \A g : At(jobs[i].speedup, g) \in Nat
    BY <1>2, Speedups
  <1>6. /\ \A k \in 0..request.total : \A a : Serves(a, F, k) => Throughput(a) <= row[k]
        /\ \A k \in 0..request.total : k >= j - 1 => row[k] >= 0
        /\ \A k \in 0..request.total : k < j - 1 => row[k] <= NoSolution + W
    BY DEF Best
  <1> HIDE DEF F, i, new, W
  <1>7. ASSUME NEW k \in 0..request.total, NEW a, Serves(a, F \cup {i}, k)
        PROVE  Throughput(a) <= new[k]
    <2> DEFINE g == a[i]
               b == Restrict(a, F)
    <2>1. /\ g \in (1..k) \cap (1..jobs[i].max)
          /\ k - g \in 0..request.total
          /\ Serves(b, F, k - g)
          /\ Throughput(a) = At(jobs[i].speedup, g) + Throughput(b)
          /\ Throughput(b) \in Int
      BY <1>2, <1>7, ServesOneMore
    <2> HIDE DEF g, b
    <2>2. Throughput(b) <= row[k - g] /\ row[k - g] \in Int
      BY <1>6, <2>1
    <2>3. row[k - g] + At(jobs[i].speedup, g) <= new[k] /\ new[k] \in Int
      BY <1>4, <2>1
    <2>4. At(jobs[i].speedup, g) \in Nat
      BY <1>5
    <2> DEFINE p == row[k - g]
               q == At(jobs[i].speedup, g)
               r == new[k]
    <2> HIDE DEF p, q, r
    <2>5. Throughput(b) <= p /\ p + q <= r /\ Throughput(a) = q + Throughput(b)
          /\ p \in Int /\ q \in Nat /\ r \in Int /\ Throughput(b) \in Int
      BY <2>1, <2>2, <2>3, <2>4 DEF p, q, r
    <2>6. Throughput(a) <= r
      BY ONLY <2>5
    <2> QED BY <2>6 DEF r
  <1>8. ASSUME NEW k \in 0..request.total, k >= j PROVE new[k] >= 0
    <2>1. 1 \in (1..k) \cap (1..jobs[i].max) /\ k - 1 \in 0..request.total /\ k - 1 >= j - 1
      BY <1>1, <1>2, <1>8
    <2>2. row[k - 1] >= 0 /\ row[k - 1] \in Int
      BY <1>6, <2>1
    <2>3. row[k - 1] + At(jobs[i].speedup, 1) <= new[k] /\ new[k] \in Int
      BY <1>4, <2>1
    <2>4. At(jobs[i].speedup, 1) \in Nat
      BY <1>5
    <2> DEFINE p == row[k - 1]
               q == At(jobs[i].speedup, 1)
               r == new[k]
    <2> HIDE DEF p, q, r
    <2>5. p >= 0 /\ p + q <= r /\ p \in Int /\ q \in Nat /\ r \in Int
      BY <2>2, <2>3, <2>4 DEF p, q, r
    <2>6. r >= 0
      BY ONLY <2>5
    <2> QED BY <2>6 DEF r
  <1>9. ASSUME NEW k \in 0..request.total, k < j PROVE new[k] <= NoSolution + (Weight[i] + W)
    <2>1. CASE new[k] = NoSolution
      BY <1>3, <2>1 DEF NoSolution
    <2>2. CASE new[k] # NoSolution
      <3>1. PICK g \in (1..k) \cap (1..jobs[i].max) : new[k] = row[k - g] + At(jobs[i].speedup, g)
        BY <1>4, <2>2
      <3>2. k - g \in 0..request.total /\ k - g < j - 1
        BY <1>1, <1>2, <1>9
      <3>3. row[k - g] <= NoSolution + W /\ row[k - g] \in Int
        BY <1>6, <3>2
      <3>4. At(jobs[i].speedup, g) <= Weight[i] /\ At(jobs[i].speedup, g) \in Nat
        BY <1>3, <1>5
      <3> QED BY <1>3, <3>1, <3>3, <3>4 DEF NoSolution
    <2> QED BY <2>1, <2>2
  <1>10. FirstJobs(j) = F \cup {i} /\ SumOver(Weight, FirstJobs(j)) = Weight[i] + W
    BY <1>2, <1>3
  <1>11. Best(new, j)
    BY <1>7, <1>8, <1>9, <1>10 DEF Best
  <1> QED BY <1>11 DEF new, i

\* The table has a row for each number of jobs so far, each made from the one before.
Tabulated ==
    pc \in {"optimize", "backtrack"} =>
        /\ pc = "optimize" => queue = Feasible
        /\ pc = "backtrack" => Len(table) = Len(Feasible) + 1
        /\ \A k \in 0..request.total : table[1][k] = 0
        /\ \A j \in 1..Len(table) : \A row : row = table[j] => Best(row, j - 1)
        /\ \A j \in 2..Len(table) : \A row : row = table[j - 1] => table[j] = Row(row, Feasible[j - 1])

\* The way back has given each of the last jobs its part of the throughput, and the
\* rest is still in the table.
Feasibly == algorithm = "FfDLOptimizer" /\ jobs # <<>>
Unequalled == \A a : Serves(a, Range(Feasible), request.total) => Throughput(a) <= Throughput(result)
Traced ==
    /\ pc \in {"backtrack", "validate", "done"} /\ Feasibly =>
        /\ Len(queue) <= Len(Feasible) /\ Len(queue) <= Free
        /\ \A l \in 1..Len(queue) : queue[l] = Feasible[l]
        /\ \A l \in 1..Len(Feasible) : l > Len(queue) =>
              result[Feasible[l]] \in 1..jobs[Feasible[l]].max
    /\ pc = "backtrack" =>
          table[Len(queue) + 1][Free] + Throughput(result) = table[Len(Feasible) + 1][request.total]
    /\ pc \in {"validate", "done"} /\ Feasibly => queue = <<>> /\ Unequalled

\* What depends on the request only stays the same.
LEMMA BestSame ==
    ASSUME request' = request
    PROVE  /\ \A row, j : Best(row, j)' <=> Best(row, j)
           /\ \A row, i : Row(row, i)' = Row(row, i)
           /\ \A a : Throughput(a)' = Throughput(a)
           /\ \A a, S, k : Serves(a, S, k)' <=> Serves(a, S, k)
  <1>1. jobs' = jobs /\ Feasible' = Feasible
    BY Same
  <1>2. \A row, i : Row(row, i)' = Row(row, i)
    BY <1>1 DEF Row
  <1>3. \A a : Throughput(a)' = Throughput(a)
    BY <1>1 DEF Throughput
  <1>4. \A a, S, k : Serves(a, S, k)' <=> Serves(a, S, k)
    BY <1>1 DEF Serves
  <1>5. Weight' = Weight
    BY DEF Weight
  <1>6. \A j : FirstJobs(j)' = FirstJobs(j)
    BY <1>1 DEF FirstJobs
  <1>7. \A row, j : Best(row, j)' <=> Best(row, j)
    BY <1>3, <1>4, <1>5, <1>6 DEF Best
  <1> QED BY <1>2, <1>3, <1>4, <1>7

LEMMA TabulatedNext ==
    ASSUME RoomInv, Modest(request), Tabulated, [Next]_vars
    PROVE  Tabulated'
  <1>1. Good(request) /\ request' = request
    BY RequestKept DEF RoomInv, Typed
  <1>2. Feasible' = Feasible
    BY <1>1, Same
  <1>3. \A row, j : Best(row, j)' <=> Best(row, j)
    BY <1>1, BestSame
  <1>4. \A row, i : Row(row, i)' = Row(row, i)
    BY <1>1, BestSame
  <1>5. CASE Arrange
    <2> SUFFICES ASSUME pc' \in {"optimize", "backtrack"} PROVE Tabulated'
      BY DEF Tabulated
    <2>1. pc' = "optimize" /\ algorithm = "FfDLOptimizer" /\ queue' = Feasible
      BY <1>5 DEF Arrange
    <2> DEFINE zero == [k \in 0..request.total |-> 0]
    <2>2. table' = <<zero>>
      BY <1>5, <2>1 DEF Arrange
    <2>3. \A k \in 0..request.total : zero[k] = 0
      OBVIOUS
    <2> HIDE DEF zero
    <2>4. Best(zero, 0)
      BY <1>1, <2>3, BestFirst
    <2>5. Len(table') = 1 /\ table'[1] = zero
      BY <2>2
    <2>6. \A j \in 1..Len(table') : \A row : row = table'[j] => Best(row, j - 1)
      <3>1. \A j \in 1..Len(table') : j = 1 /\ j - 1 = 0
        BY <2>5
      <3> QED BY <2>4, <2>5, <3>1
    <2>7. \A j \in 2..Len(table') : FALSE
      BY <2>5
    <2> QED BY <1>1, <1>2, <1>3, <2>1, <2>3, <2>5, <2>6, <2>7 DEF Tabulated
  <1>6. CASE FillRow
    <2> DEFINE n == Len(table)
               last == table[n]
               i == queue[n]
    <2>1. /\ queue' = queue /\ pc' = pc /\ pc = "optimize" /\ i \in Ids
          /\ n \in Nat \ {0} /\ n \in 1..Len(queue) /\ Len(table') = n + 1
          /\ last \in [0..request.total -> Int]
          /\ \A j \in 1..n : table'[j] = table[j]
          /\ table'[n + 1] = Row(last, i)
      BY <1>6, FillFacts
    <2>2. /\ queue = Feasible
          /\ \A k \in 0..request.total : table[1][k] = 0
          /\ \A j \in 1..n : \A row : row = table[j] => Best(row, j - 1)
          /\ \A j \in 2..n : \A row : row = table[j - 1] => table[j] = Row(row, Feasible[j - 1])
      BY <2>1 DEF Tabulated
    <2>3. n \in 1..Len(Feasible) /\ i = Feasible[n]
      BY <2>1, <2>2
    <2>4. Best(last, n - 1)
      BY <2>1, <2>2
    <2> HIDE DEF n, last
    <2>5. Best(Row(last, Feasible[n]), n)
      BY <1>1, <2>1, <2>3, <2>4, BestRow
    <2>6. \A j \in 1..(n + 1) : \A row : row = table'[j] => Best(row, j - 1)
      <3> SUFFICES ASSUME NEW j \in 1..(n + 1), NEW row, row = table'[j] PROVE Best(row, j - 1)
        OBVIOUS
      <3>1. CASE j = n + 1
        <4>1. j - 1 = n
          BY <2>1, <3>1
        <4> QED BY <2>1, <2>3, <2>5, <3>1, <4>1
      <3>2. CASE j # n + 1
        <4>1. j \in 1..n
          BY <2>1, <3>2
        <4> QED BY <2>1, <2>2, <4>1
      <3> QED BY <3>1, <3>2
    <2>7. \A j \in 2..(n + 1) : \A row : row = table'[j - 1] => table'[j] = Row(row, Feasible[j - 1])
      <3> SUFFICES ASSUME NEW j \in 2..(n + 1), NEW row, row = table'[j - 1]
                   PROVE  table'[j] = Row(row, Feasible[j - 1])
        OBVIOUS
      <3>1. j - 1 \in 1..n
        BY <2>1
      <3>2. row = table[j - 1]
        BY <2>1, <3>1
      <3>3. CASE j = n + 1
        <4>1. j - 1 = n
          BY <2>1, <3>3
        <4> QED BY <2>1, <2>3, <3>2, <3>3, <4>1 DEF last
      <3>4. CASE j # n + 1
        <4>1. j \in 1..n /\ j \in 2..n
          BY <2>1, <3>4
        <4> QED BY <2>1, <2>2, <3>2, <4>1
      <3> QED BY <3>3, <3>4
    <2>8. \A k \in 0..request.total : table'[1][k] = 0
      <3>1. 1 \in 1..n
        BY <2>1
      <3> QED BY <2>1, <2>2, <3>1
    <2> QED BY <1>1, <1>2, <1>3, <1>4, <2>1, <2>2, <2>6, <2>7, <2>8 DEF Tabulated
  <1>7. CASE EndTable
    <2>1. /\ table' = table /\ pc = "optimize"
          /\ Len(table) = Len(queue) + 1 /\ pc' # "optimize"
      BY <1>7 DEF EndTable
    <2> QED BY <1>1, <1>2, <1>3, <1>4, <2>1 DEF Tabulated
  <1>8. CASE Backtrack
    BY <1>1, <1>2, <1>3, <1>4, <1>8 DEF Tabulated, Backtrack
  <1>9. CASE UNCHANGED vars
    BY <1>1, <1>2, <1>3, <1>4, <1>9 DEF Tabulated, vars
  <1>10. CASE \/ Basic \/ EndBasic \/ NextRound \/ Share \/ EndShare \/ Compact \/ Award \/ EndGain
              \/ TakeOne \/ EndTop \/ EndBacktrack \/ Validate
    <2>1. pc' \notin {"optimize", "backtrack"}
      BY <1>10 DEF Basic, EndBasic, NextRound, Share, EndShare, Compact, Award, EndGain,
             TakeOne, EndTop, EndBacktrack, Validate
    <2> QED BY <2>1 DEF Tabulated
  <1> QED BY <1>5, <1>6, <1>7, <1>8, <1>9, <1>10 DEF Next

\* The throughput grows by that of the job that is given its GPUs.
LEMMA ThroughputGrows ==
    ASSUME Good(request), NEW f \in [Ids -> Nat], NEW g \in [Ids -> Nat], NEW i \in Ids,
           f[i] = 0, \A k \in Ids : k # i => g[k] = f[k]
    PROVE  /\ Throughput(g) = Throughput(f) + At(jobs[i].speedup, g[i])
           /\ Throughput(f) \in Int
  <1> DEFINE vf == [k \in Ids |-> At(jobs[k].speedup, f[k])]
             vg == [k \in Ids |-> At(jobs[k].speedup, g[k])]
  <1>1. Throughput(f) = SumOver(vf, Ids) /\ Throughput(g) = SumOver(vg, Ids)
    <2>1. DOMAIN f = Ids /\ DOMAIN g = Ids
      OBVIOUS
    <2> QED BY <2>1 DEF Throughput
  <1>2. \A k \in Ids : vf[k] \in Int /\ vg[k] \in Int /\ (k # i => vg[k] = vf[k])
    <2>1. \A k \in Ids : At(jobs[k].speedup, f[k]) \in Int /\ At(jobs[k].speedup, g[k]) \in Int
      BY Speedups
    <2> QED BY <2>1
  <1>3. vf[i] = 0 /\ vg[i] = At(jobs[i].speedup, g[i])
    <2>1. jobs[i].speedup[0] = 0
      BY JobFacts DEF IsJob
    <2>2. At(jobs[i].speedup, 0) = 0
      BY <2>1 DEF At
    <2> QED BY <2>2
  <1>4. IsFiniteSet(Ids)
    BY JobFacts
  <1> HIDE DEF vf, vg
  <1>5. SumOver(vg, Ids) = SumOver(vf, Ids) + (vg[i] - vf[i])
    BY <1>2, <1>4, SumChange
  <1>6. SumOver(vf, Ids) \in Int
    BY <1>2, <1>4, SumInt
  <1> QED BY <1>1, <1>2, <1>3, <1>5, <1>6

\* Without any GPU there is no throughput.
LEMMA ThroughputOfNone ==
    ASSUME Good(request), NEW f, f \in [Ids -> Nat], \A i \in Ids : f[i] = 0
    PROVE  Throughput(f) = 0
  <1> DEFINE vf == [k \in Ids |-> At(jobs[k].speedup, f[k])]
  <1>1. Throughput(f) = SumOver(vf, Ids)
    <2>1. DOMAIN f = Ids
      OBVIOUS
    <2> QED BY <2>1 DEF Throughput
  <1>2. \A k \in Ids : vf[k] \in Int /\ (k \notin {} => vf[k] = 0)
    <2>1. \A k \in Ids : jobs[k].speedup[0] = 0
      BY JobFacts DEF IsJob
    <2>2. \A k \in Ids : At(jobs[k].speedup, 0) = 0
      BY <2>1 DEF At
    <2> QED BY <2>2
  <1>3. IsFiniteSet(Ids) /\ {} \in SUBSET Ids
    BY JobFacts
  <1> HIDE DEF vf
  <1>4. SumOver(vf, Ids) = SumOver(vf, {})
    BY <1>2, <1>3, SumSupport
  <1> QED BY <1>1, <1>4, SumEmpty

\* An entry that counts enough GPUs is made up of the entry before it.
LEMMA SolSolves ==
    ASSUME Good(request), Modest(request), NEW j \in 1..Len(Feasible),
           NEW row \in [0..request.total -> Int], row = table[j], Best(row, j - 1),
           table[j + 1] = Row(row, Feasible[j]), NEW k \in 0..request.total, k >= j
    PROVE  LET n == SOL(j, k, Feasible[j]) IN
           /\ n \in (1..k) \cap (1..jobs[Feasible[j]].max)
           /\ table[j + 1][k] = table[j][k - n] + At(jobs[Feasible[j]].speedup, n)
           /\ k - n \in 0..request.total /\ k - n >= j - 1
  <1> DEFINE i == Feasible[j]
             n == SOL(j, k, i)
             new == Row(row, i)
             W == SumOver(Weight, FirstJobs(j - 1))
             best == { g \in (1..k) \cap (1..jobs[i].max) :
                         /\ table[j + 1][k] > NoSolution
                         /\ table[j + 1][k] = table[j][k - g] + At(jobs[i].speedup, g) }
  <1>1. Len(Feasible) \in Nat /\ i \in Ids /\ request.total \in Nat
    BY FirstJobsFacts, JobFacts
  <1>2. Best(new, j)
    BY BestRow
  <1>3. new[k] >= 0
    BY <1>2 DEF Best
  <1>4. \/ new[k] = NoSolution
        \/ \E g \in (1..k) \cap (1..jobs[i].max) : new[k] = row[k - g] + At(jobs[i].speedup, g)
    BY <1>1, RowFacts
  <1>5. new[k] \in Int
    BY <1>1, RowFacts
  <1>6. best # {}
    <2>1. new[k] # NoSolution /\ new[k] > NoSolution
      BY <1>3, <1>5 DEF NoSolution
    <2> QED BY <1>4, <2>1
  <1>7. n = Min(best)
    BY <1>6 DEF SOL
  <1>8. best \in SUBSET Nat
    OBVIOUS
  <1>9. n \in best
    <2> HIDE DEF best, n
    <2> QED BY <1>6, <1>7, <1>8, LeastOfSome
  <1>10. /\ n \in (1..k) \cap (1..jobs[i].max)
         /\ new[k] = row[k - n] + At(jobs[i].speedup, n)
    BY <1>9
  <1> HIDE DEF n, best
  <1>11. k - n \in 0..request.total
    BY <1>1, <1>10
  <1>12. Weight[i] \in Nat /\ \A g \in 1..jobs[i].max : At(jobs[i].speedup, g) <= Weight[i]
    BY <1>1, WeightFacts
  <1>13. W \in Nat /\ Weight[i] + W < 10000
    <2>1. j - 1 \in 0..Len(Feasible) /\ j \in 0..Len(Feasible)
      BY <1>1
    <2>2. /\ \A l \in 0..Len(Feasible) : SumOver(Weight, FirstJobs(l)) \in Nat
                                          /\ SumOver(Weight, FirstJobs(l)) < 10000
          /\ \A l \in 1..Len(Feasible) :
                 SumOver(Weight, FirstJobs(l)) = Weight[Feasible[l]] + SumOver(Weight, FirstJobs(l - 1))
      BY WeightFacts
    <2>3. SumOver(Weight, FirstJobs(j)) = Weight[i] + W /\ SumOver(Weight, FirstJobs(j)) < 10000
      BY <2>1, <2>2
    <2>4. W \in Nat
      <3> DEFINE l == j - 1
      <3>1. l \in 0..Len(Feasible)
        BY <2>1
      <3> HIDE DEF l
      <3>2. SumOver(Weight, FirstJobs(l)) \in Nat
        BY <2>2, <3>1
      <3> QED BY <3>2 DEF l
    <2> QED BY <2>3, <2>4
  <1> HIDE DEF W, i, new
  <1>14. k - n >= j - 1
    <2> SUFFICES ASSUME k - n < j - 1 PROVE FALSE
      BY <1>1, <1>10
    <2>1. row[k - n] <= NoSolution + W /\ row[k - n] \in Int
      BY <1>11 DEF Best, W
    <2>2. At(jobs[i].speedup, n) <= Weight[i] /\ At(jobs[i].speedup, n) \in Nat
      BY <1>1, <1>10, <1>12, Speedups
    <2> DEFINE p == row[k - n]
               q == At(jobs[i].speedup, n)
               r == new[k]
               w == Weight[i]
    <2> HIDE DEF p, q, r, w
    <2>3. /\ p <= -10000 + W /\ p \in Int /\ q <= w /\ q \in Nat /\ w \in Nat /\ r = p + q /\ r >= 0
          /\ W \in Nat /\ w + W < 10000
      BY <1>3, <1>10, <1>12, <1>13, <2>1, <2>2 DEF p, q, r, w, NoSolution, i, new
    <2> QED BY ONLY <2>3
  <1> QED BY <1>10, <1>11, <1>14 DEF n, i, new

LEMMA TracedBacktrack ==
    ASSUME RoomInv, RoomInv', Modest(request), Tabulated, Traced, Backtrack
    PROVE  Traced'
  <1> DEFINE m == Len(queue)
             i == Feasible[m]
             n == SOL(m, Free, i)
             row == table[m]
             total == table[Len(Feasible) + 1][request.total]
  <1>1. /\ Good(request) /\ request' = request /\ table' = table
        /\ pc' = pc /\ pc = "backtrack" /\ queue # <<>>
        /\ Give(Last(queue), SOL(m, Free, Last(queue))) /\ queue' = Front(queue)
    BY DEF RoomInv, Typed, Backtrack
  <1>2. /\ Feasible' = Feasible /\ jobs' = jobs /\ Ids' = Ids /\ algorithm' = algorithm
        /\ \A a : Throughput(a)' = Throughput(a)
    BY <1>1, Same, BestSame
  <1>3. /\ queue \in Seq(Ids) /\ result \in [Ids -> Nat] /\ result' \in [Ids -> Nat]
        /\ Free \in Nat /\ table \in Seq([0..request.total -> Int])
    BY <1>1, <1>2 DEF RoomInv, Typed
  <1>4. m \in Nat \ {0} /\ m \in 1..m /\ Last(queue) = queue[m]
    BY <1>1, <1>3, EmptySeq, LenProperties DEF Last
  <1>5. /\ Len(queue') = m - 1 /\ \A l \in 1..(m - 1) : queue'[l] = queue[l]
    <2>1. queue' = SubSeq(queue, 1, m - 1)
      BY <1>1 DEF Front
    <2>2. m - 1 \in Int /\ m - 1 <= m /\ 1 \in 1..(m + 1)
      BY <1>4
    <2>3. 1 \in 1..(Len(queue) + 1) /\ m - 1 \in 0..Len(queue)
      BY <1>4
    <2> HIDE DEF m
    <2>4. Len(queue') = m - 1
      BY <1>3, <1>4, <2>1, <2>3, SubSeqProperties
    <2>5. \A l \in 1..(m - 1) : queue'[l] = queue[l]
      BY <1>3, <1>4, <2>1, <2>3, SubSeqProperties
    <2> QED BY <2>4, <2>5
  <1>6. algorithm = "FfDLOptimizer" /\ Feasibly
    <2>1. algorithm = "FfDLOptimizer"
      BY <1>1 DEF RoomInv, Phases
    <2>2. jobs # <<>>
      <3>1. queue[m] \in Ids
        BY <1>3, <1>4, ElementOfSeq
      <3> QED BY <3>1 DEF Ids
    <2> QED BY <2>1, <2>2 DEF Feasibly
  <1>7. /\ m <= Len(Feasible) /\ m <= Free
        /\ \A l \in 1..m : queue[l] = Feasible[l]
        /\ \A l \in 1..Len(Feasible) : l > m => result[Feasible[l]] \in 1..jobs[Feasible[l]].max
        /\ table[m + 1][Free] + Throughput(result) = total
    BY <1>1, <1>6 DEF Traced
  <1>8. Len(Feasible) \in Nat /\ m \in 1..Len(Feasible) /\ i \in Ids /\ Last(queue) = i
    <2>1. Len(Feasible) \in Nat
      BY <1>1, FirstJobsFacts
    <2>2. m \in 1..Len(Feasible)
      BY <1>4, <1>7, <2>1
    <2>3. i \in Ids
      BY <1>1, <2>2, FirstJobsFacts
    <2> QED BY <1>4, <1>7, <2>1, <2>2, <2>3
  <1>9. Len(table) = Len(Feasible) + 1 /\ m \in 1..Len(table) /\ m + 1 \in 2..Len(table) /\ m + 1 \in 1..Len(table)
    BY <1>1, <1>8 DEF Tabulated
  <1>10. /\ row \in [0..request.total -> Int] /\ Best(row, m - 1)
         /\ table[m + 1] = Row(row, i)
    <2>1. row \in [0..request.total -> Int]
      <3> HIDE DEF m
      <3> QED BY <1>3, <1>9, ElementOfSeq
    <2>2. Best(row, m - 1)
      BY <1>1, <1>9 DEF Tabulated
    <2>3. table[m + 1] = Row(row, i)
      <3>1. \A j \in 2..Len(table) : \A r : r = table[j - 1] => table[j] = Row(r, Feasible[j - 1])
        BY <1>1 DEF Tabulated
      <3>2. (m + 1) - 1 = m
        BY <1>4
      <3> HIDE DEF m
      <3> QED BY <1>9, <3>1, <3>2
    <2> QED BY <2>1, <2>2, <2>3
  <1>11. Free \in 0..request.total
    <2>1. Free <= request.total
      <3>1. SumOver(result, Ids) \in Nat
        BY <1>1, <1>3, JobFacts, SumNat
      <3>2. request.total \in Nat
        BY <1>1, JobFacts
      <3> QED BY <3>1, <3>2 DEF Free, Allocated
    <2> QED BY <1>1, <1>3, <2>1, JobFacts
  <1> HIDE DEF m, row
  <1>12. /\ n \in (1..Free) \cap (1..jobs[i].max)
         /\ table[m + 1][Free] = table[m][Free - n] + At(jobs[i].speedup, n)
         /\ Free - n \in 0..request.total /\ Free - n >= m - 1
    BY <1>1, <1>7, <1>8, <1>10, <1>11, SolSolves DEF row
  <1>13. Give(i, n)
    BY <1>1, <1>8
  <1>14. result[i] = 0
    <2>1. i \in Range(queue)
      <3>1. DOMAIN queue = 1..m
        BY <1>3, LenProperties DEF m
      <3> QED BY <1>4, <1>7, <3>1 DEF Range
    <2> QED BY <1>1, <2>1 DEF RoomInv, Chosen
  <1>15. n \in Nat /\ jobs[i].max \in Nat
    BY <1>1, <1>8, <1>12, JobFacts
  <1> HIDE DEF n, i
  <1>16. /\ result'[i] = n /\ \A k \in Ids : k # i => result'[k] = result[k]
         /\ Free' = Free - (n - result[i])
    BY <1>1, <1>3, <1>8, <1>13, <1>15, GiveFacts
  <1>17. Free' = Free - n
    BY <1>3, <1>14, <1>15, <1>16
  <1>18. Throughput(result') = Throughput(result) + At(jobs[i].speedup, n) /\ Throughput(result) \in Int
    <2> DEFINE f == result
               g == result'
    <2>1. /\ f \in [Ids -> Nat] /\ g \in [Ids -> Nat] /\ f[i] = 0 /\ g[i] = n
          /\ \A k \in Ids : k # i => g[k] = f[k]
      BY <1>3, <1>14, <1>16
    <2> HIDE DEF f, g
    <2>2. Throughput(g) = Throughput(f) + At(jobs[i].speedup, g[i]) /\ Throughput(f) \in Int
      BY <1>1, <1>8, <2>1, ThroughputGrows
    <2> QED BY <2>1, <2>2 DEF f, g
  <1>19. table[m][Free - n] + Throughput(result') = total
    <2>1. table[m][Free - n] \in Int
      BY <1>10, <1>12 DEF row
    <2>2. At(jobs[i].speedup, n) \in Int
      BY <1>1, <1>8, Speedups
    <2> DEFINE p == table[m][Free - n]
               q == At(jobs[i].speedup, n)
               r == table[m + 1][Free]
               s == Throughput(result)
               t == Throughput(result')
    <2> HIDE DEF p, q, r, s, t, total
    <2>3. r = p + q /\ r + s = total /\ t = s + q /\ p \in Int /\ q \in Int /\ s \in Int
      BY <1>7, <1>12, <1>18, <2>1, <2>2 DEF p, q, r, s, t
    <2>4. p + t = total
      BY ONLY <2>3
    <2> QED BY <2>4 DEF p, t
  <1>20. \A l \in 1..Len(Feasible) : l > m - 1 => result'[Feasible[l]] \in 1..jobs[Feasible[l]].max
    <2> SUFFICES ASSUME NEW l \in 1..Len(Feasible), l > m - 1
                 PROVE  result'[Feasible[l]] \in 1..jobs[Feasible[l]].max
      OBVIOUS
    <2>1. CASE l = m
      BY <1>12, <1>15, <1>16, <2>1 DEF i
    <2>2. CASE l # m
      <3>1. l > m
        BY <1>4, <1>8, <2>2
      <3>2. Feasible[l] # Feasible[m]
        <4>1. /\ Feasible[l] \notin FirstJobs(l - 1)
              /\ m \in 1..(l - 1)
          BY <1>1, <1>4, <1>8, <3>1, FirstJobsFacts
        <4> QED BY <4>1 DEF FirstJobs
      <3>3. Feasible[l] \in Ids
        BY <1>1, FirstJobsFacts
      <3>4. result'[Feasible[l]] = result[Feasible[l]]
        BY <1>16, <3>2, <3>3 DEF i
      <3> QED BY <1>7, <3>1, <3>4
    <2> QED BY <2>1, <2>2
  <1>21. Len(queue') <= Len(Feasible) /\ Len(queue') <= Free'
    BY <1>4, <1>5, <1>8, <1>12, <1>17 DEF m
  <1>22. \A l \in 1..Len(queue') : queue'[l] = Feasible[l]
    BY <1>4, <1>5, <1>7 DEF m
  <1>23. table'[Len(queue') + 1][Free'] + Throughput(result') = table'[Len(Feasible) + 1][request.total]
    <2>1. Len(queue') + 1 = m
      BY <1>4, <1>5 DEF m
    <2> QED BY <1>1, <1>17, <1>19, <2>1 DEF total
  <1>24. Throughput(result)' = Throughput(result')
    BY <1>2 DEF Throughput
  <1>25. \A l \in 1..Len(Feasible) : l > Len(queue') => result'[Feasible[l]] \in 1..jobs[Feasible[l]].max
    BY <1>5, <1>20 DEF m
  <1> QED BY <1>1, <1>2, <1>21, <1>22, <1>23, <1>24, <1>25 DEF Traced

LEMMA TracedNext ==
    ASSUME RoomInv, RoomInv', Modest(request), Tabulated, Traced, [Next]_vars
    PROVE  Traced'
  <1>1. Good(request) /\ request' = request
    BY RequestKept DEF RoomInv, Typed
  <1>2. /\ Feasible' = Feasible /\ jobs' = jobs /\ Ids' = Ids /\ algorithm' = algorithm
        /\ \A a : Throughput(a)' = Throughput(a)
        /\ \A a, S, k : Serves(a, S, k)' <=> Serves(a, S, k)
    BY <1>1, Same, BestSame
  <1>3. Feasibly' = Feasibly
    BY <1>2 DEF Feasibly
  <1>4. ASSUME result' = result PROVE Throughput(result)' = Throughput(result) /\ Unequalled' = Unequalled
    <2>1. Throughput(result)' = Throughput(result)
      BY <1>2, <1>4 DEF Throughput
    <2> QED BY <1>1, <1>2, <2>1 DEF Unequalled
  <1>5. CASE EndTable
    <2> SUFFICES ASSUME pc' = "backtrack" PROVE Traced'
      BY <1>5 DEF EndTable, Traced
    <2>1. /\ pc = "optimize" /\ result' = result /\ queue' = queue /\ table' = table
          /\ Len(table) = Len(queue) + 1
      BY <1>5 DEF EndTable
    <2>2. queue = Feasible
      BY <2>1 DEF Tabulated
    <2>3. \A i \in Ids : result[i] = 0
      BY <2>1 DEF RoomInv, Idle
    <2>4. result \in [Ids -> Nat] /\ request.total \in Nat /\ IsFiniteSet(Ids)
      BY <1>1, JobFacts DEF RoomInv, Typed
    <2>5. Throughput(result) = 0
      BY <1>1, <2>3, <2>4, ThroughputOfNone
    <2>6. Free = request.total
      <3>1. \A i \in Ids : result[i] \in Int /\ (i \notin {} => result[i] = 0)
        BY <2>3, <2>4
      <3>2. {} \in SUBSET Ids
        OBVIOUS
      <3>3. SumOver(result, Ids) = SumOver(result, {})
        BY <2>4, <3>1, <3>2, SumSupport
      <3>4. SumOver(result, Ids) = 0
        BY <3>3, SumEmpty
      <3> QED BY <2>4, <3>4 DEF Free, Allocated
    <2>7. Free' = Free
      BY <1>1, <2>1, FreeSame
    <2>8. Len(Feasible) <= request.total /\ Len(Feasible) \in Nat
      BY <1>1, FeasibleFacts, FirstJobsFacts
    <2>9. table[Len(Feasible) + 1][request.total] \in Int
      <3> DEFINE R == [0..request.total -> Int]
                 n == Len(Feasible) + 1
      <3>1. table \in Seq(R)
        BY DEF RoomInv, Typed
      <3>2. n \in 1..Len(table)
        BY <2>1, <2>2, <2>8
      <3>3. request.total \in 0..request.total
        BY <2>4
      <3> HIDE DEF n
      <3>4. table[n] \in R
        <4> HIDE DEF R
        <4> QED BY <3>1, <3>2, ElementOfSeq
      <3>5. table[n][request.total] \in Int
        BY <3>3, <3>4
      <3> QED BY <3>5 DEF n
    <2>10. table[Len(Feasible) + 1][request.total] + 0 = table[Len(Feasible) + 1][request.total]
      BY <2>9
    <2>11. Throughput(result)' = 0
      BY <1>4, <2>1, <2>5
    <2>12. \A l \in 1..Len(Feasible) : ~(l > Len(Feasible))
      BY <2>8
    <2> QED BY <1>1, <1>2, <2>1, <2>2, <2>6, <2>7, <2>8, <2>10, <2>11, <2>12 DEF Traced
  <1>6. CASE Backtrack
    BY <1>6, TracedBacktrack
  <1>7. CASE EndBacktrack
    <2>1. /\ pc = "backtrack" /\ queue = <<>> /\ pc' = "validate"
          /\ result' = result /\ queue' = queue /\ table' = table
      BY <1>7 DEF EndBacktrack
    <2>2. Free' = Free
      BY <1>1, <2>1, FreeSame
    <2> SUFFICES ASSUME Feasibly PROVE Traced'
      BY <1>3, <2>1 DEF Traced
    <2>3. /\ Len(queue) <= Len(Feasible) /\ Len(queue) <= Free
          /\ \A l \in 1..Len(queue) : queue[l] = Feasible[l]
          /\ \A l \in 1..Len(Feasible) : l > Len(queue) =>
                result[Feasible[l]] \in 1..jobs[Feasible[l]].max
          /\ table[Len(queue) + 1][Free] + Throughput(result) = table[Len(Feasible) + 1][request.total]
      BY <2>1 DEF Traced
    <2>4. Len(queue) = 0
      BY <2>1
    <2>5. /\ Len(table) = Len(Feasible) + 1
          /\ \A k \in 0..request.total : table[1][k] = 0
          /\ \A j \in 1..Len(table) : \A row : row = table[j] => Best(row, j - 1)
      BY <2>1 DEF Tabulated
    <2>6. Free \in 0..request.total
      <3>1. result \in [Ids -> Nat] /\ Free \in Nat
        BY DEF RoomInv, Typed
      <3>2. SumOver(result, Ids) \in Nat
        BY <1>1, <3>1, JobFacts, SumNat
      <3>3. request.total \in Nat
        BY <1>1, JobFacts
      <3> QED BY <3>1, <3>2, <3>3 DEF Free, Allocated
    <2>7. Throughput(result) \in Int
      <3> DEFINE v == [k \in Ids |-> At(jobs[k].speedup, result[k])]
      <3>1. result \in [Ids -> Nat]
        BY DEF RoomInv, Typed
      <3>2. Throughput(result) = SumOver(v, Ids)
        <4>1. DOMAIN result = Ids
          BY <3>1
        <4> QED BY <4>1 DEF Throughput
      <3>3. \A k \in Ids : v[k] \in Int
        <4>1. \A k \in Ids : At(jobs[k].speedup, result[k]) \in Int
          BY <1>1, Speedups
        <4> QED BY <4>1
      <3> HIDE DEF v
      <3>4. SumOver(v, Ids) \in Int
        BY <1>1, <3>3, JobFacts, SumInt
      <3> QED BY <3>2, <3>4
    <2>8. Throughput(result) = table[Len(Feasible) + 1][request.total]
      <3>1. table[Len(queue) + 1][Free] = 0
        BY <2>4, <2>5, <2>6
      <3> QED BY <2>3, <2>7, <3>1
    <2>9. Unequalled
      <3> DEFINE n == Len(Feasible)
      <3>1. n \in Nat /\ FirstJobs(n) = Range(Feasible) /\ request.total \in 0..request.total
        BY <1>1, FirstJobsFacts, JobFacts
      <3>2. n + 1 \in 1..Len(table) /\ (n + 1) - 1 = n
        BY <2>5, <3>1
      <3>3. \A row : row = table[n + 1] => Best(row, n)
        BY <2>5, <3>2
      <3>4. \A a : Serves(a, FirstJobs(n), request.total) => Throughput(a) <= table[n + 1][request.total]
        BY <3>1, <3>3 DEF Best
      <3> QED BY <2>8, <3>1, <3>4 DEF Unequalled
    <2>10. Unequalled'
      BY <1>4, <2>1, <2>9
    <2> QED BY <1>2, <2>1, <2>2, <2>3, <2>10 DEF Traced
  <1>8. CASE Validate \/ UNCHANGED vars
    <2>1. /\ result' = result /\ queue' = queue /\ table' = table
          /\ pc' = pc \/ (pc = "validate" /\ pc' \in {"done", "panicked"})
      BY <1>8 DEF Validate, vars
    <2>2. Free' = Free
      BY <1>1, <2>1, FreeSame
    <2>3. Throughput(result)' = Throughput(result) /\ Unequalled' = Unequalled
      BY <1>4, <2>1
    <2> QED BY <1>1, <1>2, <1>3, <2>1, <2>2, <2>3 DEF Traced
  <1>9. CASE \/ Arrange \/ Basic \/ EndBasic \/ NextRound \/ Share \/ EndShare \/ Compact \/ Award \/ EndGain
             \/ TakeOne \/ EndTop \/ FillRow
    <2>1. /\ pc' # "backtrack"
          /\ pc' \in {"validate", "done"} => algorithm # "FfDLOptimizer" \/ jobs = <<>>
      BY <1>9 DEF RoomInv, Phases, Elastic, Arrange, Basic, EndBasic, NextRound, Share, EndShare,
             Compact, Award, EndGain, TakeOne, EndTop, FillRow
    <2>2. ~(pc' \in {"backtrack", "validate", "done"} /\ Feasibly')
      BY <1>3, <2>1 DEF Feasibly
    <2> QED BY <2>1, <2>2 DEF Traced
  <1> QED BY <1>5, <1>6, <1>7, <1>8, <1>9 DEF Next

\* FfDLOptimizer: no allocation that gives each of the feasible jobs at least a GPU has
\* more throughput than the one that its table leads to.  The speedups must be such that
\* the mark of a missing solution outweighs their sum.
THEOREM OptimizesThroughput ==
    ASSUME \A r \in Requests : Modest(r)
    PROVE  Spec => []ThroughputIsMaximal
  <1> DEFINE I == WellFormed(request) => RoomInv /\ Tabulated /\ Traced
  <1>1. Init => I
    BY RoomInit DEF Init, Tabulated, Traced
  <1>2. I /\ [Next]_vars => I'
    <2> SUFFICES ASSUME RoomInv, Tabulated, Traced, [Next]_vars
                 PROVE  RoomInv' /\ Tabulated' /\ Traced'
      BY RequestKept, GoodKept
    <2>1. Modest(request)
      BY DEF RoomInv, Typed, Good
    <2>2. RoomInv'
      BY RoomNext
    <2> QED BY <2>1, <2>2, TabulatedNext, TracedNext
  <1>3. I => ThroughputIsMaximal
    <2> SUFFICES ASSUME RoomInv, Traced, pc = "done", Feasibly
                 PROVE  LET ids    == Range(Feasible)
                            allocs == { a \in [ids -> 1..request.total] :
                                          /\ \A i \in ids : a[i] <= jobs[i].max
                                          /\ SumOver(a, ids) <= request.total }
                        IN /\ Restrict(result, ids) \in allocs
                           /\ \A a \in allocs : Throughput(a) <= Throughput(result)
      BY DEF ThroughputIsMaximal, Feasibly
    <2> DEFINE ids == Range(Feasible)
               b == Restrict(result, ids)
    <2>1. /\ \A l \in 1..Len(Feasible) : l > Len(queue) => result[Feasible[l]] \in 1..jobs[Feasible[l]].max
          /\ queue = <<>> /\ Unequalled
      BY DEF Traced
    <2>2. /\ Good(request) /\ result \in [Ids -> Nat] /\ Free \in Nat
      BY DEF RoomInv, Typed
    <2>3. /\ request.total \in Nat /\ IsFiniteSet(Ids) /\ \A i \in Ids : jobs[i].max \in Nat
      BY <2>2, JobFacts
    <2>4. ids \subseteq Ids /\ IsFiniteSet(ids)
      BY <2>2, FirstJobsFacts
    <2>5. \A i \in ids : result[i] \in 1..jobs[i].max
      <3>1. \A l \in 1..Len(Feasible) : l > 0
        OBVIOUS
      <3>2. DOMAIN Feasible = 1..Len(Feasible)
        BY <2>2, FeasibleFacts, LenProperties
      <3> QED BY <2>1, <3>1, <3>2 DEF Range
    <2>6. SumOver(result, ids) <= request.total /\ \A i \in ids : result[i] <= request.total
      <3>1. SumOver(result, Ids) \in Nat /\ \A i \in Ids : result[i] <= SumOver(result, Ids)
        BY <2>2, <2>3, SumNat
      <3>2. SumOver(result, ids) <= SumOver(result, Ids)
        <4>1. ids \in SUBSET Ids
          BY <2>4
        <4> HIDE DEF ids
        <4> QED BY <2>2, <2>3, <4>1, SumSubset
      <3>3. SumOver(result, ids) \in Nat
        <4> HIDE DEF ids
        <4> QED BY <2>2, <2>4, SumNat
      <3>4. SumOver(result, Ids) <= request.total
        BY <2>2, <2>3, <3>1 DEF Free, Allocated
      <3> HIDE DEF ids
      <3>5. \A i \in ids : i \in Ids /\ result[i] \in Nat
        BY <2>2, <2>4
      <3> QED BY <2>3, <3>1, <3>2, <3>3, <3>4, <3>5
    <2> HIDE DEF ids
    <2>7. b = [i \in ids |-> result[i]]
      BY DEF Restrict
    <2>8. \A i \in ids : result[i] \in 1..request.total /\ result[i] <= jobs[i].max
      <3>1. \A i \in ids : result[i] \in Nat /\ jobs[i].max \in Nat
        BY <2>2, <2>3, <2>4
      <3> QED BY <2>3, <2>5, <2>6, <3>1
    <2> HIDE DEF b
    <2>9. SumOver(b, ids) = SumOver(result, ids)
      <3>1. \A i \in ids : result[i] \in Int /\ result[i] = b[i]
        BY <2>2, <2>4, <2>7
      <3>2. SumOver(result, ids) = SumOver(b, ids)
        BY <2>4, <3>1, SumSame
      <3> QED BY <3>2
    <2>10. b \in [ids -> 1..request.total] /\ \A i \in ids : b[i] <= jobs[i].max
      BY <2>7, <2>8
    <2>11. \A a : Serves(a, ids, request.total) => Throughput(a) <= Throughput(result)
      BY <2>1 DEF Unequalled, ids
    <2> QED BY <2>6, <2>9, <2>10, <2>11 DEF Serves, b, ids
  <1> QED BY <1>1, <1>2, <1>3, PTL DEF Spec

-----------------------------------------------------------------------------
(* ElasticTiresias awards GPUs where they gain most.                        *)

\* Speedups that never grow faster with another worker.
Concave(r) ==
    \A i \in DOMAIN r.jobs : \A n \in 0..(r.jobs[i].max - 2) :
        At(r.jobs[i].speedup, n + 2) - At(r.jobs[i].speedup, n + 1) <=
            At(r.jobs[i].speedup, n + 1) - At(r.jobs[i].speedup, n)

\* What the next GPU of a job would gain, and what its last one has gained.
NextGain(i) == At(jobs[i].speedup, result[i] + 1) - At(jobs[i].speedup, result[i])
LastGain(i) == At(jobs[i].speedup, result[i]) - At(jobs[i].speedup, result[i] - 1)

\* A job that can make use of a single GPU.
Small(k) == jobs[k].min = 1 /\ result[k] < jobs[k].max

\* While there are GPUs the loop sees all small jobs.  A job that has been awarded GPUs
\* had no less gain from the last than a small one would have from its next.
Efficient ==
    algorithm = "ElasticTiresias" =>
        /\ pc = "gain" /\ Free > 0 => \A k \in Ids : Small(k) => k \in Range(queue)
        /\ \A i, k \in Ids : result[i] > jobs[i].num /\ Small(k) => NextGain(k) <= LastGain(i)

\* With a minimum of one GPU, or for a running job, Gain is that of the next GPU.
LEMMA GainOfNext ==
    ASSUME Good(request), result \in [Ids -> Nat], NEW i \in Ids,
           jobs[i].min = 1 \/ result[i] > 0
    PROVE  Gain(i) = 12 * NextGain(i) /\ NextGain(i) \in Int
  <1> DEFINE sp == jobs[i].speedup
  <1>1. \A n : At(sp, n) \in Nat
    BY Speedups
  <1> DEFINE m == jobs[i].max
  <1>a. 0..(m + 1) \subseteq DOMAIN sp /\ sp[0] = 0 /\ m \in Nat
    BY JobFacts DEF IsJob
  <1> HIDE DEF sp, m
  <1>2. sp[0] = 0 /\ 0 \in DOMAIN sp /\ 1 \in DOMAIN sp
    BY <1>a
  <1>3. NextGain(i) = At(sp, result[i] + 1) - At(sp, result[i])
    BY DEF NextGain, sp
  <1>4. CASE result[i] = 0
    <2>1. jobs[i].min = 1
      BY <1>4
    <2>2. At(sp, 0) = 0 /\ At(sp, 1) = sp[1] /\ sp[1] \in Nat
      BY <1>1, <1>2 DEF At
    <2>3. Gain(i) = (12 * sp[1]) \div 1
      <3>1. 1 > 0 /\ ~(1 <= 0)
        OBVIOUS
      <3>2. Gain(i) = (12 * At(sp, 1)) \div 1
        BY <1>4, <2>1, <3>1 DEF Gain, sp
      <3> QED BY <2>2, <3>2
    <2>4. (12 * sp[1]) \div 1 = 12 * sp[1]
      BY <2>2
    <2>5. NextGain(i) = sp[1]
      BY <1>3, <1>4, <2>2
    <2> QED BY <2>2, <2>3, <2>4, <2>5
  <1>5. CASE result[i] # 0
    <2>1. Gain(i) = 12 * NextGain(i)
      BY <1>5 DEF Gain, NextGain
    <2>2. At(sp, result[i] + 1) \in Nat /\ At(sp, result[i]) \in Nat
      BY <1>1
    <2> QED BY <1>3, <2>1, <2>2
  <1> QED BY <1>4, <1>5

\* One GPU more does not gain more, and what it gains is what was to be gained.
LEMMA GainShrinks ==
    ASSUME Good(request), request' = request, Concave(request), result \in [Ids -> Nat],
           NEW i \in Ids, result'[i] = result[i] + 1
    PROVE  /\ LastGain(i)' = NextGain(i) /\ NextGain(i) \in Int
           /\ result'[i] < jobs[i].max => NextGain(i)' <= NextGain(i) /\ NextGain(i)' \in Int
  <1> DEFINE sp == jobs[i].speedup
             n == result[i]
  <1>1. jobs' = jobs /\ n \in Nat /\ jobs[i].max \in Nat
    BY Same, JobFacts
  <1>2. \A m : At(sp, m) \in Nat
    BY Speedups
  <1>3. /\ NextGain(i) = At(sp, n + 1) - At(sp, n)
        /\ LastGain(i)' = At(sp, n + 1) - At(sp, (n + 1) - 1)
        /\ NextGain(i)' = At(sp, (n + 1) + 1) - At(sp, n + 1)
    BY <1>1 DEF NextGain, LastGain
  <1>4. (n + 1) - 1 = n /\ (n + 1) + 1 = n + 2
    BY <1>1
  <1>5. n + 1 < jobs[i].max => At(sp, n + 2) - At(sp, n + 1) <= At(sp, n + 1) - At(sp, n)
    <2> SUFFICES ASSUME n + 1 < jobs[i].max
                 PROVE  At(sp, n + 2) - At(sp, n + 1) <= At(sp, n + 1) - At(sp, n)
      OBVIOUS
    <2>1. n \in 0..(jobs[i].max - 2)
      BY <1>1
    <2> HIDE DEF n
    <2> QED BY <2>1 DEF Concave, jobs, Ids
  <1>6. At(sp, n + 2) \in Nat /\ At(sp, n + 1) \in Nat /\ At(sp, n) \in Nat
    BY <1>2
  <1>7. result'[i] = n + 1
    OBVIOUS
  <1> HIDE DEF sp, n
  <1> QED BY <1>3, <1>4, <1>5, <1>6, <1>7

LEMMA EfficientAward ==
    ASSUME RoomInv, Concave(request), Efficient, Award
    PROVE  Efficient'
  <1>1. PICK i \in Range(queue) :
             /\ i \in Ids
             /\ Good(request) /\ request' = request /\ table' = table /\ pc' = pc /\ pc = "gain"
             /\ satisfied' = satisfied
             /\ queue' \in Seq(Ids) /\ Distinct(queue')
             /\ Free > 0 /\ \A k \in Range(queue) : Gain(k) <= Gain(i)
             /\ \/ /\ result[i] = 0 /\ Free >= jobs[i].min /\ Give(i, jobs[i].min)
                   /\ Range(queue') = Range(queue)
                \/ /\ result[i] = 0 /\ Free < jobs[i].min
                   /\ result' = result /\ Range(queue') = Range(queue) \ {i}
                \/ /\ result[i] > 0 /\ Free > 0 /\ Give(i, result[i] + 1)
                   /\ Range(queue') = IF Leaves(i, result[i] + 1) THEN Range(queue) \ {i} ELSE Range(queue)
    BY AwardFacts
  <1>2. result \in [Ids -> Nat] /\ Free \in Nat
    BY DEF RoomInv, Typed
  <1>3. /\ jobs' = jobs /\ Ids' = Ids /\ algorithm' = algorithm
    BY <1>1, Same
  <1>4. algorithm = "ElasticTiresias"
    BY <1>1 DEF RoomInv, Phases
  <1>5. /\ \A k \in Ids : Small(k) => k \in Range(queue)
        /\ \A l, k \in Ids : result[l] > jobs[l].num /\ Small(k) => NextGain(k) <= LastGain(l)
    BY <1>1, <1>4 DEF Efficient
  <1>6. \A k \in Ids : /\ jobs[k].min \in Nat \ {0} /\ jobs[k].num \in Nat \ {0} /\ jobs[k].max \in Nat
                       /\ jobs[k].min <= jobs[k].num /\ result[k] \in Nat
    BY <1>1, <1>2, JobFacts
  <1>7. CASE result[i] = 0 /\ Free < jobs[i].min /\ result' = result /\ Range(queue') = Range(queue) \ {i}
    <2>1. jobs[i].min # 1
      BY <1>1, <1>2, <1>6, <1>7
    <2>2. \A k \in Ids : /\ Small(k)' = Small(k) /\ NextGain(k)' = NextGain(k)
                         /\ LastGain(k)' = LastGain(k) /\ (Small(k) => k # i)
      BY <1>3, <1>7, <2>1 DEF Small, NextGain, LastGain
    <2>3. \A k \in Ids : Small(k)' => k \in Range(queue')
      BY <1>5, <1>7, <2>2
    <2> QED BY <1>1, <1>3, <1>5, <1>7, <2>2, <2>3 DEF Efficient
  <1>8. ASSUME NEW n \in Nat, Give(i, n), n > result[i],
               n < jobs[i].max => Range(queue') = Range(queue),
               Range(queue) \ {i} \subseteq Range(queue'),
               \/ n = result[i] + 1
               \/ n = jobs[i].min /\ result[i] = 0
        PROVE  Efficient'
    <2>1. /\ result' \in [Ids -> Nat] /\ result'[i] = n
          /\ \A k \in Ids : k # i => result'[k] = result[k]
          /\ Free \in Int /\ Free' = Free - (n - result[i])
      BY <1>1, <1>2, <1>8, GiveFacts
    <2>2. \A k \in Ids : k # i => /\ Small(k)' = Small(k) /\ NextGain(k)' = NextGain(k)
                                  /\ LastGain(k)' = LastGain(k)
      BY <1>3, <2>1 DEF Small, NextGain, LastGain
    <2>3. Small(i)' => Small(i) /\ n < jobs[i].max
      <3>1. Small(i)' => jobs[i].min = 1 /\ n < jobs[i].max
        BY <1>3, <2>1 DEF Small
      <3>2. n < jobs[i].max => result[i] < jobs[i].max
        <4>1. jobs[i].max \in Nat /\ result[i] \in Nat /\ n \in Nat /\ result[i] < n
          BY <1>1, <1>6, <1>8
        <4> QED BY <4>1
      <3> QED BY <3>1, <3>2 DEF Small
    <2>4. \A k \in Ids : Small(k)' => k \in Range(queue')
      <3> SUFFICES ASSUME NEW k \in Ids, Small(k)' PROVE k \in Range(queue')
        OBVIOUS
      <3>1. CASE k = i
        BY <1>1, <1>8, <2>3, <3>1
      <3>2. CASE k # i
        BY <1>5, <1>8, <2>2, <3>2
      <3> QED BY <3>1, <3>2
    \* The small jobs gain no more from their next GPU than before.
    <2>5. \A k \in Ids : Small(k)' => Small(k) /\ NextGain(k)' <= NextGain(k)
                                      /\ NextGain(k)' \in Int /\ NextGain(k) \in Int
      <3> SUFFICES ASSUME NEW k \in Ids, Small(k)'
                   PROVE  Small(k) /\ NextGain(k)' <= NextGain(k) /\ NextGain(k)' \in Int /\ NextGain(k) \in Int
        OBVIOUS
      <3>1. CASE k # i
        <4>1. Small(k) /\ NextGain(k)' = NextGain(k)
          BY <2>2, <3>1
        <4>2. jobs[k].min = 1
          BY <4>1 DEF Small
        <4>3. NextGain(k) \in Int
          BY <1>1, <1>2, <4>2, GainOfNext
        <4> QED BY <4>1, <4>3
      <3>2. CASE k = i
        <4>1. Small(i) /\ n < jobs[i].max
          BY <2>3, <3>2
        <4>2. result'[i] = result[i] + 1
          BY <1>6, <1>8, <2>1, <4>1 DEF Small
        <4>3. NextGain(i) \in Int /\ NextGain(i)' <= NextGain(i) /\ NextGain(i)' \in Int
          BY <1>1, <1>2, <2>1, <4>1, <4>2, GainShrinks
        <4> QED BY <3>2, <4>1, <4>3
      <3> QED BY <3>1, <3>2
    <2>6. ASSUME NEW l \in Ids, NEW k \in Ids, result'[l] > jobs[l].num, Small(k)'
          PROVE  NextGain(k)' <= LastGain(l)'
      <3>1. Small(k) /\ NextGain(k)' <= NextGain(k) /\ NextGain(k)' \in Int /\ NextGain(k) \in Int
        BY <2>5, <2>6
      <3>2. CASE l # i
        <4>1. NextGain(k) <= LastGain(l) /\ LastGain(l)' = LastGain(l)
          BY <1>5, <2>1, <2>2, <2>6, <3>1, <3>2
        <4>2. LastGain(l) \in Int
          <5>1. At(jobs[l].speedup, result[l]) \in Nat /\ At(jobs[l].speedup, result[l] - 1) \in Nat
            BY <1>1, Speedups
          <5> QED BY <5>1 DEF LastGain
        <4> DEFINE a == NextGain(k)'
                   b == NextGain(k)
                   c == LastGain(l)
        <4>3. a <= b /\ b <= c /\ a \in Int /\ b \in Int /\ c \in Int
          BY <3>1, <4>1, <4>2
        <4> HIDE DEF a, b, c
        <4>4. a <= c
          BY <4>3
        <4> QED BY <4>1, <4>4 DEF a, c
      <3>3. CASE l = i
        <4>1. n = result[i] + 1 /\ result[i] > 0
          BY <1>6, <1>8, <2>1, <2>6, <3>3
        <4>2. LastGain(i)' = NextGain(i) /\ NextGain(i) \in Int
          BY <1>1, <1>2, <2>1, <4>1, GainShrinks
        <4>3. Gain(i) = 12 * NextGain(i)
          BY <1>1, <1>2, <4>1, GainOfNext
        <4>4. Gain(k) = 12 * NextGain(k)
          <5>1. jobs[k].min = 1
            BY <3>1 DEF Small
          <5> QED BY <1>1, <1>2, <5>1, GainOfNext
        <4>5. Gain(k) <= Gain(i)
          BY <1>1, <1>5, <3>1
        <4> DEFINE a == NextGain(k)'
                   b == NextGain(k)
                   c == NextGain(i)
        <4>6. a <= b /\ 12 * b <= 12 * c /\ a \in Int /\ b \in Int /\ c \in Int
          BY <3>1, <4>2, <4>3, <4>4, <4>5
        <4> HIDE DEF a, b, c
        <4>7. a <= c
          BY <4>6
        <4> QED BY <3>3, <4>2, <4>7 DEF a, c
      <3> QED BY <3>2, <3>3
    <2> QED BY <1>1, <1>3, <2>4, <2>6 DEF Efficient
  <1>9. CASE result[i] = 0 /\ Free >= jobs[i].min /\ Give(i, jobs[i].min) /\ Range(queue') = Range(queue)
    <2> DEFINE n == jobs[i].min
    <2>1. n \in Nat /\ n > result[i] /\ Give(i, n) /\ n = jobs[i].min
      BY <1>1, <1>6, <1>9
    <2> HIDE DEF n
    <2> QED BY <1>8, <1>9, <2>1
  <1>10. CASE /\ result[i] > 0 /\ Give(i, result[i] + 1)
              /\ Range(queue') = IF Leaves(i, result[i] + 1) THEN Range(queue) \ {i} ELSE Range(queue)
    <2> DEFINE n == result[i] + 1
    <2>1. n \in Nat /\ n > result[i] /\ Give(i, n)
      BY <1>1, <1>6, <1>10
    <2>2. n < jobs[i].max => Range(queue') = Range(queue)
      BY <1>1, <1>6, <1>10, <2>1 DEF Leaves
    <2>3. Range(queue) \ {i} \subseteq Range(queue')
      BY <1>10
    <2>4. n = result[i] + 1
      OBVIOUS
    <2> HIDE DEF n
    <2> QED BY <1>8, <2>1, <2>2, <2>3, <2>4
  <1> QED BY <1>1, <1>7, <1>9, <1>10


LEMMA EfficientNext ==
    ASSUME RoomInv, RoomInv', Concave(request), Efficient, [Next]_vars
    PROVE  Efficient'
  <1>1. /\ Good(request) /\ request' = request /\ result' \in [Ids' -> Nat]
        /\ Phases /\ Idle' /\ Portions' /\ Free' \in Nat
    BY RequestKept DEF RoomInv, Typed
  <1>2. jobs' = jobs /\ Ids' = Ids /\ algorithm' = algorithm /\ \A i : Portion(i)' = Portion(i)
    BY <1>1, Same
  <1>3. \A i \in Ids : /\ jobs[i].min \in Nat \ {0} /\ jobs[i].num \in Nat \ {0} /\ result'[i] \in Nat
                       /\ jobs[i].min <= jobs[i].num
    BY <1>1, <1>2, JobFacts
  \* Nobody has more than its portion before the loop of gains.
  <1>4. ASSUME pc' # "gain", \A i \in Ids : result'[i] <= jobs[i].num
        PROVE  Efficient'
    BY <1>2, <1>3, <1>4 DEF Efficient
  <1>5. ASSUME pc' # "gain", result' = result
        PROVE  Efficient'
    <2>1. \A k \in Ids : Small(k)' = Small(k) /\ NextGain(k)' = NextGain(k) /\ LastGain(k)' = LastGain(k)
      BY <1>2, <1>5 DEF Small, NextGain, LastGain
    <2> QED BY <1>2, <1>5, <2>1 DEF Efficient
  <1>6. CASE UNCHANGED vars
    <2>1. result' = result /\ queue' = queue /\ pc' = pc /\ Free' = Free
      BY <1>1, <1>6, FreeSame DEF vars
    <2>2. \A k \in Ids : Small(k)' = Small(k) /\ NextGain(k)' = NextGain(k) /\ LastGain(k)' = LastGain(k)
      BY <1>2, <2>1 DEF Small, NextGain, LastGain
    <2> QED BY <1>2, <2>1, <2>2 DEF Efficient
  <1>7. CASE Arrange \/ EndBasic \/ EndGain \/ Validate \/ EndTop \/ EndShare \/ EndBacktrack \/ EndTable
    <2>1. pc' # "gain" /\ result' = result
      BY <1>7 DEF Arrange, EndBasic, EndGain, Validate, EndTop, EndShare, EndBacktrack, EndTable
    <2> QED BY <1>5, <2>1
  <1>8. CASE Basic
    <2>1. pc' = "basic"
      BY <1>8 DEF Basic
    <2>2. ASSUME algorithm = "ElasticTiresias", NEW i \in Ids PROVE result'[i] <= jobs[i].num
      <3>1. Portion(i) = jobs[i].num
        BY <2>2 DEF Portion
      <3>2. result'[i] \in {0, Portion(i)}
        BY <1>1, <1>2, <2>1 DEF Portions
      <3> QED BY <1>3, <3>1, <3>2
    <2> QED BY <1>2, <1>4, <2>1, <2>2 DEF Efficient
  <1>9. CASE Compact
    <2>1. /\ \A i \in Ids : result[i] \in {0, jobs[i].num}
          /\ \A i \in Ids : result'[i] = IF i \in Compacted THEN jobs[i].min ELSE result[i]
          /\ Range(queue') = { i \in Ids : result'[i] < jobs[i].max /\ Free' >= jobs[i].min }
      BY <1>9, CompactFacts
    <2>2. \A i \in Ids : ~(result'[i] > jobs[i].num)
      BY <1>3, <2>1
    <2>3. ASSUME Free' > 0, NEW k \in Ids, Small(k)' PROVE k \in Range(queue')
      <3>1. jobs[k].min = 1 /\ result'[k] < jobs[k].max
        BY <1>2, <2>3 DEF Small
      <3>2. Free' >= 1
        BY <1>1, <2>3
      <3> QED BY <2>1, <2>3, <3>1, <3>2
    <2> QED BY <1>2, <2>2, <2>3 DEF Efficient
  <1>10. CASE Award
    BY <1>10, EfficientAward
  <1>11. CASE NextRound \/ Share \/ TakeOne \/ FillRow \/ Backtrack
    <2>1. pc \in {"share", "top", "optimize", "backtrack"}
      BY <1>11 DEF NextRound, Share, TakeOne, FillRow, Backtrack
    <2>2. algorithm # "ElasticTiresias"
      BY <1>1, <2>1 DEF Phases, Elastic
    <2> QED BY <1>2, <2>2 DEF Efficient
  <1> QED BY <1>6, <1>7, <1>8, <1>9, <1>10, <1>11 DEF Next

\* Where no speedup grows faster with another worker, ElasticTiresias awards GPUs to
\* the jobs that gain most: no GPU given beyond the basic portion would gain more as the
\* next GPU of another running job with a minimum of one.
THEOREM AwardsWhereMostGained ==
    ASSUME \A r \in Requests : Concave(r)
    PROVE  Spec => []AwardsGainMostOfSmall
  <1> DEFINE I == WellFormed(request) => RoomInv /\ Efficient /\ Validated
  <1>1. Init => I
    <2> SUFFICES ASSUME Init, WellFormed(request) PROVE Efficient /\ Validated
      BY RoomInit
    <2>1. Good(request) /\ pc = "start" /\ \A i \in Ids : result[i] = 0
      BY DEF Init, Good
    <2>2. \A i \in Ids : ~(result[i] > jobs[i].num)
      BY <2>1, JobFacts
    <2> QED BY <2>1, <2>2 DEF Efficient, Validated
  <1>2. RoomInv => Concave(request)
    BY DEF RoomInv, Typed, Good
  <1>3. I /\ [Next]_vars => I'
    BY <1>2, RoomNext, EfficientNext, ValidatedNext, RequestKept, GoodKept
  <1>4. ASSUME I, WellFormed(request) PROVE AwardsGainMostOfSmall
    <2> SUFFICES ASSUME NEW i \in Ids, NEW k \in Ids, jobs[k].min = 1,
                        Awarded(i), result[k] \in 1..(jobs[k].max - 1)
                 PROVE  Gain(k) <= 12 * (jobs[i].speedup[result[i]] - jobs[i].speedup[result[i] - 1])
      BY DEF AwardsGainMostOfSmall
    <2>1. Good(request) /\ result \in [Ids -> Nat]
      BY <1>4 DEF RoomInv, Typed
    <2>2. algorithm = "ElasticTiresias" /\ pc = "done" /\ result[i] > jobs[i].num
      BY DEF Awarded
    <2>3. /\ jobs[i].num \in Nat \ {0} /\ jobs[i].max \in Nat /\ result[i] \in Nat
          /\ jobs[k].max \in Nat /\ result[k] \in Nat
      BY <2>1, JobFacts
    <2>4. result[i] <= jobs[i].max
      <3>1. result[i] > 0 => result[i] \in jobs[i].min .. jobs[i].max
        BY <1>4, <2>1, <2>2, JobFacts DEF Validated, Valid
      <3> QED BY <2>2, <2>3, <3>1
    <2>5. LastGain(i) = jobs[i].speedup[result[i]] - jobs[i].speedup[result[i] - 1]
      <3> DEFINE sp == jobs[i].speedup
                 m == jobs[i].max
                 n == result[i]
      <3>1. 0..(m + 1) \subseteq DOMAIN sp /\ m \in Nat /\ n \in Nat \ {0} /\ n <= m
        <4>1. IsJob(jobs[i])
          BY <2>1, JobFacts
        <4> QED BY <2>2, <2>3, <2>4, <4>1 DEF IsJob
      <3>2. LastGain(i) = At(sp, n) - At(sp, n - 1)
        BY DEF LastGain
      <3> HIDE DEF sp, m, n
      <3>3. n \in DOMAIN sp /\ n - 1 \in DOMAIN sp
        BY <3>1
      <3> QED BY <3>2, <3>3 DEF At, sp, n
    <2>6. NextGain(k) <= LastGain(i)
      <3>1. Small(k)
        BY <2>3 DEF Small
      <3> QED BY <1>4, <2>2, <3>1 DEF Efficient
    <2>7. Gain(k) = 12 * NextGain(k) /\ NextGain(k) \in Int
      BY <2>1, GainOfNext
    <2>8. LastGain(i) \in Int
      <3>1. At(jobs[i].speedup, result[i]) \in Nat /\ At(jobs[i].speedup, result[i] - 1) \in Nat
        BY <2>1, Speedups
      <3> QED BY <3>1 DEF LastGain
    <2> DEFINE a == NextGain(k)
               b == LastGain(i)
    <2>9. a <= b /\ a \in Int /\ b \in Int
      BY <2>6, <2>7, <2>8
    <2> HIDE DEF a, b
    <2>10. 12 * a <= 12 * b
      BY <2>9
    <2>11. Gain(k) <= 12 * LastGain(i)
      BY <2>7, <2>10 DEF a, b
    <2> QED BY <2>5, <2>11
  <1>5. I => AwardsGainMostOfSmall
    BY <1>4 DEF AwardsGainMostOfSmall
  <1> QED BY <1>1, <1>3, <1>5, PTL DEF Spec
=============================================================================
