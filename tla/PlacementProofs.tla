--------------------------- MODULE PlacementProofs ---------------------------
(***************************************************************************)
(* Theorems about Placement, for all sets of jobs and nodes, all sizes of  *)
(* the nodes and every bound: types, the two perspectives, what bestFit    *)
(* guarantees of a placement, and the tolerations of pods.                 *)
(***************************************************************************)
EXTENDS Placement, MapsProofs

(***************************************************************************)
(* The inductive invariant.                                                *)
(***************************************************************************)

\* Records have their fields and no others.
IsNode(s) ==
    /\ s = [totalSlots |-> s.totalSlots, freeSlots |-> s.freeSlots, jobNumWorkers |-> s.jobNumWorkers]
    /\ IsNodeState(s)
IsJob(s) ==
    /\ s = [numWorkers |-> s.numWorkers, nodeNumSlotsList |-> s.nodeNumSlotsList]
    /\ IsJobState(s)

\* The pods are workers, of which there are finitely many.
TypeInv ==
    /\ TypeOK
    /\ \A n \in DOMAIN nodeStates : IsNode(nodeStates[n])
    /\ jobStates = [j \in DOMAIN jobStates |-> jobStates[j]]
    /\ \A j \in DOMAIN jobStates : IsJob(jobStates[j])
    /\ DOMAIN pods \subseteq Workers

\* The jobs that want GPUs, and what the others have left to the first of them.
Asking == { j \in DOMAIN jobRequests : jobRequests[j] > 0 }
Free == [k \in DOMAIN plan |-> plan[k].freeSlots]

PlanTyped ==
    /\ DOMAIN plan = 1..Cardinality(DOMAIN nodeStates)
    /\ plan = [k \in DOMAIN plan |-> plan[k]]
    /\ \A k \in DOMAIN plan : IsNode(plan[k]) /\ IsMap(plan[k].jobNumWorkers, Jobs, Nat)
    /\ asks \in Seq(Asking)
    /\ \A i, k \in 1..Len(asks) : i # k => asks[i] # asks[k]
    /\ requested \in Nat
    /\ asks # <<>> => requested >= 1 /\ requested <= jobRequests[Head(asks)]

\* totalClusterSlots is what is free; a node that lacks slots has been filled by the
\* last part of a job, whose other parts have filled nodes to the brim.
Room ==
    /\ slots = SumOf(Free)
    /\ (\A k \in DOMAIN plan : plan[k].freeSlots >= 0) \/ (\E k \in DOMAIN plan : plan[k].freeSlots = 0)

\* Jobs that come later are on no node, and the first is only on nodes it has filled.
Parts ==
    /\ \A k \in DOMAIN plan : \A i \in 2..Len(asks) : asks[i] \notin DOMAIN plan[k].jobNumWorkers
    /\ asks # <<>> =>
          /\ \A k \in DOMAIN plan : Head(asks) \in DOMAIN plan[k].jobNumWorkers => plan[k].freeSlots = 0
          /\ (\A k \in DOMAIN plan : Head(asks) \notin DOMAIN plan[k].jobNumWorkers)
                => requested = jobRequests[Head(asks)]

\* The loop goes on for ever.
Stuck == asks # <<>> /\ slots # 0 /\ \A k \in DOMAIN plan : plan[k].freeSlots <= 0

\* What is free is what the workers leave.
Booked ==
    Stuck \/ \A k \in DOMAIN plan :
                plan[k].freeSlots = plan[k].totalSlots - SumOf(plan[k].jobNumWorkers)

\* No job is on two nodes of the plan.
Whole == \A k, l \in DOMAIN plan : \A j \in Jobs :
            j \in DOMAIN plan[k].jobNumWorkers /\ j \in DOMAIN plan[l].jobNumWorkers => k = l

\* What is still to be placed.
Open == SumOver(jobRequests, Range(asks))
        - (IF asks = <<>> THEN 0 ELSE jobRequests[Head(asks)] - requested)

\* As long as no job is split no node lacks slots and there are enough of them; a job
\* that is done has all its workers on one node.
Fit ==
    /\ Whole => \A k \in DOMAIN plan : plan[k].freeSlots >= 0
    /\ Whole /\ changes = 0 => slots >= Open
    /\ \A j \in Asking : j \notin Range(asks) =>
          \E k \in DOMAIN plan : j \in DOMAIN plan[k].jobNumWorkers
                                 /\ plan[k].jobNumWorkers[j] = jobRequests[j]

\* The slots of the cluster, which change hands and do not change in number.
Totals(f) == SumOf([x \in DOMAIN f |-> f[x].totalSlots])
Known ==
    /\ SumOf(jobRequests) <= SumOf(Gpus)
    /\ changes = 0 =>
          /\ nodeEvents = <<>> /\ cluster = Nodes /\ DOMAIN nodeStates = Nodes
          /\ Totals(nodeStates) = SumOf(Gpus)
          /\ pc = "fit" => Totals(plan) = SumOf(Gpus)

PlanInv ==
    /\ Known
    /\ pc = "fit" => PlanTyped /\ Room /\ Parts /\ Booked /\ Fit

PlaceInv == TypeInv /\ PlanInv

\* The perspectives, but for the time between releaseSlots and bindNodes.
Perspectives ==
    LockFree =>
        \A n \in DOMAIN nodeStates :
            /\ \A j \in DOMAIN nodeStates[n].jobNumWorkers :
                 /\ j \in DOMAIN jobStates
                 /\ [node |-> n, numSlots |-> nodeStates[n].jobNumWorkers[j]]
                       \in Range(jobStates[j].nodeNumSlotsList)
            /\ nodeStates[n].freeSlots = nodeStates[n].totalSlots - SumOf(nodeStates[n].jobNumWorkers)

\* The sums of the lists, which no deleteNode has spoilt.
Sums == changes = 0 => \A j \in DOMAIN jobStates : SumsUp(j)

\* Pods that are no strays wait for their addition or have their place.
Tolerates(p) ==
    IF p \in DOMAIN podNodeName
    THEN p \in doomed \/ pods[p] = <<podNodeName[p]>> \/ (p \in added /\ pods[p] = <<>>)
    ELSE p \in added /\ pods[p] = <<>>
Tolerations ==
    pc # "panicked" =>
        /\ pc # "deleting" => doomed = {}
        /\ \A p \in DOMAIN pods \ strays : Tolerates(p)

(***************************************************************************)
(* Orders, and the lists made of them.                                     *)
(***************************************************************************)

\* An order names everything once.
LEMMA OrderLists ==
    ASSUME NEW S, IsFiniteSet(S), NEW o \in Orders(S)
    PROVE  /\ o \in Seq(S) /\ Len(o) = Cardinality(S) /\ DOMAIN o = 1..Cardinality(S)
           /\ Cardinality(S) \in Nat
           /\ \A x \in S : \E i \in 1..Cardinality(S) : o[i] = x
           /\ \A i, k \in 1..Cardinality(S) : i # k => o[i] # o[k]
           /\ \A i \in 1..Cardinality(S) : o[i] \in S
           /\ { o[i] : i \in 1..Cardinality(S) } = S
  <1>1. o \in [1..Cardinality(S) -> S] /\ \A i, k \in 1..Cardinality(S) : i # k => o[i] # o[k]
    BY DEF Orders, SetToSeqs
  <1>2. \A i \in 1..Cardinality(S) : o[i] \in S
    BY <1>1
  <1>3. /\ o \in Seq(S) /\ Len(o) = Cardinality(S) /\ DOMAIN o = 1..Cardinality(S)
        /\ Cardinality(S) \in Nat
        /\ \A x \in S : \E i \in 1..Cardinality(S) : o[i] = x
        /\ { o[i] : i \in 1..Cardinality(S) } = S
    BY <1>1, Enumerates
  <1> QED BY <1>1, <1>2, <1>3

\* What is in the order o.
Follows(s, o) == \A i, k \in DOMAIN s : \A x, y \in DOMAIN o :
                     i < k /\ s[i] = o[x] /\ s[k] = o[y] => x < y

\* Elements of an order can be listed in that order: the last one comes last.
LEMMA InOrderLists ==
    ASSUME NEW D, IsFiniteSet(D), NEW o \in Orders(D), NEW S \in SUBSET D
    PROVE  InOrder(S, o) \in Orders(S)
  <1> DEFINE Good(s) == \E e \in Orders(s) : Follows(e, o)
             Bad == { s \in SUBSET S : ~Good(s) }
  <1>1. /\ DOMAIN o = 1..Cardinality(D) /\ Cardinality(D) \in Nat
        /\ \A x \in D : \E i \in 1..Cardinality(D) : o[i] = x
        /\ \A i, k \in 1..Cardinality(D) : i # k => o[i] # o[k]
    BY OrderLists
  <1>2. Bad = {}
    <2> SUFFICES ASSUME Bad # {} PROVE FALSE
      OBVIOUS
    <2>1. Bad \in SUBSET SUBSET S /\ IsFiniteSet(S)
      BY FS_Subset
    <2>2. PICK s \in Bad : \A t \in Bad : t \subseteq s => t = s
      <3> HIDE DEF Bad
      <3> QED BY <2>1, LeastSubset
    <2>3. s \in SUBSET S /\ IsFiniteSet(s) /\ s \subseteq D
      BY <2>1, FS_Subset
    <2>4. s # {}
      <3>1. Cardinality({}) = 0 /\ 1..0 = {}
        BY FS_EmptySet
      <3>2. <<>> \in [1..0 -> {}] /\ DOMAIN <<>> = {}
        BY <3>1
      <3>3. <<>> \in Orders({})
        BY <3>1, <3>2 DEF Orders, SetToSeqs
      <3>4. Follows(<<>>, o)
        BY <3>2 DEF Follows
      <3>5. Good({})
        BY <3>3, <3>4
      <3> QED BY <3>5
    <2> DEFINE K == { i \in 1..Cardinality(D) : o[i] \in s }
               id == [i \in K |-> i]
    <2>5. IsFiniteSet(K) /\ K # {} /\ \A i \in K : id[i] \in Int /\ id[i] = i
      <3>1. IsFiniteSet(1..Cardinality(D))
        BY <1>1, FS_Interval
      <3> QED BY <1>1, <2>3, <2>4, <3>1, FS_Subset
    <2>6. PICK z \in K : \A i \in K : i <= z
      <3>1. \E z \in K : \A i \in K : id[i] <= id[z]
        <4> HIDE DEF id, K
        <4> QED BY <2>5, GreatestOf
      <3> QED BY <2>5, <3>1
    <2> DEFINE t == s \ {o[z]}
               n == Cardinality(s)
    <2>7. t \subseteq s /\ t # s /\ t \in SUBSET S /\ o[z] \in s
      BY <2>3, <2>6
    <2>8. Good(t)
      <3> HIDE DEF Good
      <3> QED BY <2>2, <2>7
    <2>9. PICK e \in Orders(t) : Follows(e, o)
      BY <2>8
    <2>10. n \in Nat \ {0} /\ Cardinality(t) = n - 1 /\ IsFiniteSet(t)
      <3>1. n \in Nat /\ n # 0
        BY <2>3, <2>4, FS_CardinalityType, FS_EmptySet
      <3>2. IsFiniteSet(t) /\ Cardinality(t) = n - 1
        BY <2>3, <2>7, FS_RemoveElement
      <3> QED BY <3>1, <3>2
    <2>11. /\ DOMAIN e = 1..(n - 1)
           /\ \A i, k \in 1..(n - 1) : i # k => e[i] # e[k]
           /\ \A i \in 1..(n - 1) : e[i] \in t
      <3>1. /\ DOMAIN e = 1..Cardinality(t)
            /\ \A i, k \in 1..Cardinality(t) : i # k => e[i] # e[k]
            /\ \A i \in 1..Cardinality(t) : e[i] \in t
        <4> HIDE DEF t
        <4> QED BY <2>9, <2>10, OrderLists
      <3> QED BY <2>10, <3>1
    <2> DEFINE f == [i \in 1..n |-> IF i = n THEN o[z] ELSE e[i]]
    <2>12. f[n] = o[z] /\ \A i \in 1..n : i # n => f[i] = e[i] /\ i \in 1..(n - 1)
      BY <2>10
    <2>13. \A i \in 1..n : f[i] \in s /\ (i # n => f[i] \in t)
      BY <2>7, <2>11, <2>12
    <2>14. f = [i \in 1..n |-> f[i]] /\ DOMAIN f = 1..n
      OBVIOUS
    <2> HIDE DEF f
    <2>15. f \in [1..n -> s]
      BY <2>13, <2>14
    <2>16. \A i, k \in 1..n : i # k => f[i] # f[k]
      <3> SUFFICES ASSUME NEW i \in 1..n, NEW k \in 1..n, i # k PROVE f[i] # f[k]
        OBVIOUS
      <3>1. CASE i = n \/ k = n
        BY <2>12, <2>13, <3>1
      <3>2. CASE i # n /\ k # n
        BY <2>11, <2>12, <3>2
      <3> QED BY <3>1, <3>2
    <2>17. f \in Orders(s)
      BY <2>15, <2>16 DEF Orders, SetToSeqs
    <2>18. Follows(f, o)
      <3> SUFFICES ASSUME NEW i \in 1..n, NEW k \in 1..n, NEW x \in DOMAIN o, NEW y \in DOMAIN o,
                          i < k, f[i] = o[x], f[k] = o[y]
                   PROVE  x < y
        BY <2>14 DEF Follows
      <3>1. i # n /\ i \in 1..(n - 1)
        BY <2>10
      <3>2. CASE k = n
        <4>1. y = z
          BY <1>1, <2>6, <2>12, <3>2
        <4>2. x \in K /\ x # z
          BY <1>1, <2>7, <2>13, <3>1
        <4>3. x <= z /\ x \in Int /\ z \in Int
          BY <1>1, <2>6, <4>2
        <4> QED BY <4>1, <4>2, <4>3
      <3>3. CASE k # n
        BY <2>9, <2>11, <2>12, <3>1, <3>3 DEF Follows
      <3> QED BY <3>2, <3>3
    <2>19. Good(s)
      BY <2>17, <2>18
    <2> QED BY <2>2, <2>19
  <1>3. \E e \in Orders(S) : Follows(e, o)
    BY <1>2
  <1> QED BY <1>3 DEF InOrder, Follows

\* The slots of the first entries of a list are a number.
Slot == [node : Nodes, numSlots : Nat]
Entries == Seq(Slot)
LEMMA SlotsNat ==
    ASSUME NEW list \in Entries
    PROVE  /\ \A k \in 0..Len(list) : SlotsUpTo(list, k) \in Nat
           /\ SlotsUpTo(list, 0) = 0
           /\ Len(list) \in Nat /\ DOMAIN list = 1..Len(list)
  <1>1. Len(list) \in Nat /\ DOMAIN list = 1..Len(list)
    BY DEF Entries
  <1>2. \A i \in 1..Len(list) : list[i].numSlots \in Nat /\ list[i].node \in Nodes
    <2> SUFFICES ASSUME NEW i \in 1..Len(list) PROVE list[i].numSlots \in Nat /\ list[i].node \in Nodes
      OBVIOUS
    <2>1. list[i] \in Slot
      BY <1>1 DEF Entries
    <2> QED BY <2>1 DEF Slot
  <1>3. ASSUME NEW k \in 0..Len(list) PROVE SlotsUpTo(list, k) \in Nat
    <2> DEFINE f == [i \in 1..k |-> list[i].numSlots]
    <2>1. IsFiniteSet(1..k) /\ DOMAIN f = 1..k
      BY <1>1, FS_Interval
    <2>2. \A i \in 1..k : f[i] \in Nat
      BY <1>1, <1>2
    <2>3. SumOver(f, 1..k) \in Nat
      <3> HIDE DEF f
      <3> QED BY <2>1, <2>2, SumNat
    <2> QED BY <2>1, <2>3 DEF SlotsUpTo, SumOf
  <1>4. SlotsUpTo(list, 0) = 0
    <2>1. DOMAIN [i \in 1..0 |-> list[i].numSlots] = {}
      OBVIOUS
    <2> QED BY <2>1, SumEmpty DEF SlotsUpTo, SumOf
  <1> QED BY <1>1, <1>3, <1>4

\* The lists of jobs on nodes that are known.
IsPlaced(ns) ==
    /\ DOMAIN ns \subseteq Nodes /\ IsFiniteSet(DOMAIN ns)
    /\ \A n \in DOMAIN ns : IsMap(ns[n].jobNumWorkers, Jobs, Nat)

\* What updateJobStates makes of the node states: jobs whose lists name the nodes
\* they are on, each with its workers there, and sum up to the workers of the job.
Reflects(ns, js) ==
    /\ DOMAIN js = JobsOn(ns) /\ JobsOn(ns) \subseteq Jobs
    /\ js = [j \in JobsOn(ns) |-> js[j]]
    /\ \A j \in JobsOn(ns) :
          /\ js[j] = [numWorkers |-> js[j].numWorkers, nodeNumSlotsList |-> js[j].nodeNumSlotsList]
          /\ js[j].nodeNumSlotsList \in Entries
          /\ js[j].numWorkers \in Nat
          /\ js[j].numWorkers = SumOf([n \in NodesOf(ns, j) |-> ns[n].jobNumWorkers[j]])
          /\ SlotsUpTo(js[j].nodeNumSlotsList, Len(js[j].nodeNumSlotsList)) = js[j].numWorkers
    /\ \A n \in DOMAIN ns : \A j \in DOMAIN ns[n].jobNumWorkers :
          /\ j \in JobsOn(ns)
          /\ [node |-> n, numSlots |-> ns[n].jobNumWorkers[j]] \in Range(js[j].nodeNumSlotsList)

LEMMA JobStatesReflect ==
    ASSUME NEW ns, IsPlaced(ns), NEW o \in Orders(DOMAIN ns)
    PROVE  Reflects(ns, JobStates(ns, o))
  <1> DEFINE js == JobStates(ns, o)
             num(j) == [n \in NodesOf(ns, j) |-> ns[n].jobNumWorkers[j]]
  <1>1. JobsOn(ns) \subseteq Jobs /\ DOMAIN js = JobsOn(ns) /\ js = [j \in JobsOn(ns) |-> js[j]]
    BY DEF JobStates, JobsOn, IsPlaced, IsMap
  <1>2. \A n \in DOMAIN ns : \A j \in DOMAIN ns[n].jobNumWorkers : j \in JobsOn(ns)
    BY DEF JobsOn
  <1>3. ASSUME NEW j \in JobsOn(ns)
        PROVE  /\ js[j] = [numWorkers |-> js[j].numWorkers, nodeNumSlotsList |-> js[j].nodeNumSlotsList]
               /\ js[j].nodeNumSlotsList \in Entries
               /\ js[j].numWorkers \in Nat
               /\ js[j].numWorkers = SumOf([n \in NodesOf(ns, j) |-> ns[n].jobNumWorkers[j]])
               /\ SlotsUpTo(js[j].nodeNumSlotsList, Len(js[j].nodeNumSlotsList)) = js[j].numWorkers
               /\ \A n \in NodesOf(ns, j) : [node |-> n, numSlots |-> ns[n].jobNumWorkers[j]]
                                               \in Range(js[j].nodeNumSlotsList)
    <2> DEFINE S == NodesOf(ns, j)
               e == InOrder(S, o)
               N == Cardinality(S)
               list == SlotsList(ns, o, j)
    <2>1. js[j] = [numWorkers |-> SumOf(num(j)), nodeNumSlotsList |-> list]
      BY DEF JobStates
    <2>2. S \in SUBSET DOMAIN ns /\ S \subseteq Nodes /\ IsFiniteSet(S) /\ IsFiniteSet(DOMAIN ns)
      <3>1. S \in SUBSET DOMAIN ns /\ S \subseteq Nodes /\ IsFiniteSet(DOMAIN ns)
        BY DEF NodesOf, IsPlaced
      <3> QED BY <3>1, FS_Subset
    <2>3. e \in Orders(S)
      BY <2>2, InOrderLists
    <2>4. /\ DOMAIN e = 1..N /\ N \in Nat
          /\ \A i, k \in 1..N : i # k => e[i] # e[k]
          /\ \A i \in 1..N : e[i] \in S
          /\ { e[i] : i \in 1..N } = S
          /\ \A x \in S : \E i \in 1..N : e[i] = x
      <3>1. IsFiniteSet(S)
        BY <2>2
      <3> HIDE DEF e, S
      <3> QED BY <2>3, <3>1, OrderLists
    <2>5. \A n \in S : ns[n].jobNumWorkers[j] \in Nat
      BY DEF NodesOf, IsPlaced, IsMap
    <2>6. list = [k \in 1..N |-> [node |-> e[k], numSlots |-> ns[e[k]].jobNumWorkers[j]]]
      BY <2>4 DEF SlotsList
    <2>7. list \in Entries /\ Len(list) = N /\ DOMAIN list = 1..N
      <3>1. \A k \in 1..N : [node |-> e[k], numSlots |-> ns[e[k]].jobNumWorkers[j]]
                               \in Slot
        <4> SUFFICES ASSUME NEW k \in 1..N
                     PROVE  e[k] \in Nodes /\ ns[e[k]].jobNumWorkers[j] \in Nat
          BY DEF Slot
        <4>1. e[k] \in S
          BY <2>4
        <4> HIDE DEF e, S
        <4> QED BY <2>2, <2>5, <4>1
      <3>2. list \in [1..N -> Slot]
        <4> HIDE DEF e, N
        <4> QED BY <2>6, <3>1
      <3> HIDE DEF list, N
      <3>3. list \in Entries
        BY <2>4, <3>2 DEF Entries
      <3>4. DOMAIN list = 1..N
        BY <3>2
      <3>5. Len(list) = N
        BY <2>4, <3>3, <3>4, LenProperties DEF Entries
      <3> QED BY <3>3, <3>4, <3>5
    <2>8. SumOf(num(j)) \in Nat
      <3> DEFINE f == num(j)
      <3>1. DOMAIN f = S /\ \A n \in S : f[n] \in Nat
        BY <2>5
      <3>2. SumOver(f, S) \in Nat
        <4> HIDE DEF f, S
        <4> QED BY <2>2, <3>1, SumNat
      <3> QED BY <3>1, <3>2 DEF SumOf
    <2>9. SlotsUpTo(list, N) = SumOf(num(j))
      <3> DEFINE f == num(j)
                 g == [i \in 1..N |-> list[i].numSlots]
      <3>1. \A k \in 1..N : e[k] \in S /\ f[e[k]] \in Int /\ g[k] = f[e[k]]
        <4> SUFFICES ASSUME NEW k \in 1..N PROVE e[k] \in S /\ f[e[k]] \in Int /\ g[k] = f[e[k]]
          OBVIOUS
        <4>1. e[k] \in S
          BY <2>4
        <4>2. f[e[k]] = ns[e[k]].jobNumWorkers[j] /\ ns[e[k]].jobNumWorkers[j] \in Nat
          BY <2>5, <4>1
        <4>3. g[k] = ns[e[k]].jobNumWorkers[j]
          BY <2>6
        <4> QED BY <4>1, <4>2, <4>3
      <3>3. IsFiniteSet(1..N) /\ DOMAIN f = S /\ DOMAIN g = 1..N
        BY <2>4, FS_Interval
      <3>4. SumOver(g, 1..N) = SumOver(f, S)
        <4> DEFINE I == 1..N
        <4>1. Renames(e, I, S)
          BY <2>4 DEF Renames
        <4>2. IsFiniteSet(I)
          BY <3>3
        <4>3. \A k \in I : f[e[k]] \in Int /\ g[k] = f[e[k]]
          BY <3>1
        <4>4. SumOver(g, I) = SumOver(f, S)
          <5> HIDE DEF f, g, e, N, S, I
          <5> QED BY ONLY <4>1, <4>2, <4>3, SumThrough
        <4> QED BY <4>4
      <3> QED BY <3>3, <3>4 DEF SlotsUpTo, SumOf
    <2>10. ASSUME NEW n \in S
           PROVE  [node |-> n, numSlots |-> ns[n].jobNumWorkers[j]] \in Range(list)
      <3>1. PICK k \in 1..N : e[k] = n
        BY <2>4
      <3>2. list[k] = [node |-> n, numSlots |-> ns[n].jobNumWorkers[j]] /\ k \in DOMAIN list
        BY <2>6, <2>7, <3>1
      <3> HIDE DEF list
      <3> QED BY <3>2 DEF Range
    <2> HIDE DEF list, js
    <2> QED BY <2>1, <2>7, <2>8, <2>9, <2>10
  <1>4. \A n \in DOMAIN ns : \A j \in DOMAIN ns[n].jobNumWorkers : n \in NodesOf(ns, j)
    BY DEF NodesOf
  <1>5. \A n \in DOMAIN ns : \A j \in DOMAIN ns[n].jobNumWorkers :
           [node |-> n, numSlots |-> ns[n].jobNumWorkers[j]] \in Range(js[j].nodeNumSlotsList)
    BY <1>2, <1>3, <1>4
  <1> QED BY <1>1, <1>2, <1>3, <1>5 DEF Reflects

\* The tables of jobs that reflect the nodes have their types.
LEMMA ReflectsTypes ==
    ASSUME NEW ns, NEW js, Reflects(ns, js)
    PROVE  /\ DOMAIN js \subseteq Jobs /\ js = [j \in DOMAIN js |-> js[j]]
           /\ \A j \in DOMAIN js : IsJob(js[j])
  <1>1. /\ DOMAIN js = JobsOn(ns) /\ JobsOn(ns) \subseteq Jobs /\ js = [j \in JobsOn(ns) |-> js[j]]
    BY DEF Reflects
  <1>2. ASSUME NEW j \in DOMAIN js PROVE IsJob(js[j])
    <2>1. /\ js[j] = [numWorkers |-> js[j].numWorkers, nodeNumSlotsList |-> js[j].nodeNumSlotsList]
          /\ js[j].nodeNumSlotsList \in Entries
          /\ js[j].numWorkers \in Nat
      BY <1>1 DEF Reflects
    <2> QED BY <2>1 DEF IsJob, IsJobState, Entries, Slot
  <1> QED BY <1>1, <1>2

\* updatePodNodeName finds a node of the list for every worker.
Seat(list, i) == CHOOSE k \in DOMAIN list : SlotsUpTo(list, k - 1) <= i /\ SlotsUpTo(list, k) > i

LEMMA SeatIsThere ==
    ASSUME NEW list \in Entries, NEW i \in Nat, i < SlotsUpTo(list, Len(list))
    PROVE  Seat(list, i) \in DOMAIN list /\ list[Seat(list, i)].node \in Nodes
  <1> DEFINE K == { k \in 1..Len(list) : SlotsUpTo(list, k) > i }
  <1>1. /\ \A k \in 0..Len(list) : SlotsUpTo(list, k) \in Nat
        /\ SlotsUpTo(list, 0) = 0
        /\ Len(list) \in Nat /\ DOMAIN list = 1..Len(list)
    BY SlotsNat
  <1>2. Len(list) # 0 /\ Len(list) \in K
    BY <1>1
  <1>3. PICK m \in K : \A k \in K : m <= k
    <2>1. K \in SUBSET Nat /\ K # {}
      BY <1>1, <1>2
    <2> HIDE DEF K
    <2> QED BY <2>1, LeastNat
  <1>4. m - 1 \in 0..Len(list) /\ m \in Nat
    BY <1>1
  <1>5. m - 1 \notin K
    BY <1>3, <1>4
  <1>6. SlotsUpTo(list, m - 1) <= i
    BY <1>1, <1>4, <1>5
  <1>7. Seat(list, i) \in DOMAIN list
    BY <1>1, <1>6 DEF Seat
  <1>8. list[Seat(list, i)] \in Slot
    BY <1>1, <1>7 DEF Entries
  <1> QED BY <1>7, <1>8 DEF Slot

LEMMA PodTableTyped ==
    ASSUME NEW ns, NEW js, Reflects(ns, js)
    PROVE  IsMap(PodTable(js), Pod, Nodes)
  <1> DEFINE D == UNION { {j} \X (0..js[j].numWorkers - 1) : j \in DOMAIN js }
  <1>1. DOMAIN PodTable(js) = D /\ PodTable(js) = [p \in D |-> PodTable(js)[p]]
    BY DEF PodTable
  <1>2. ASSUME NEW p \in D PROVE p \in Pod /\ PodTable(js)[p] \in Nodes
    <2>1. PICK j \in DOMAIN js : p \in {j} \X (0..js[j].numWorkers - 1)
      OBVIOUS
    <2>2. /\ j \in Jobs /\ js[j].nodeNumSlotsList \in Entries /\ js[j].numWorkers \in Nat
          /\ SlotsUpTo(js[j].nodeNumSlotsList, Len(js[j].nodeNumSlotsList)) = js[j].numWorkers
      BY DEF Reflects
    <2>3. p = <<j, p[2]>> /\ p[1] = j /\ p[2] \in Nat /\ p[2] < js[j].numWorkers
      BY <2>1, <2>2
    <2>4. PodTable(js)[p] = js[j].nodeNumSlotsList[Seat(js[j].nodeNumSlotsList, p[2])].node
      BY <2>3 DEF PodTable, Seat
    <2>5. js[j].nodeNumSlotsList[Seat(js[j].nodeNumSlotsList, p[2])].node \in Nodes
      BY <2>2, <2>3, SeatIsThere
    <2>6. p \in Pod
      BY <2>2, <2>3 DEF Pod
    <2> QED BY <2>4, <2>5, <2>6
  <1> HIDE DEF D
  <1> QED BY <1>1, <1>2 DEF IsMap

(***************************************************************************)
(* releaseSlots.                                                           *)
(***************************************************************************)

LEMMA MinIn == ASSUME NEW T \in SUBSET Nat, T # {} PROVE Min(T) \in T /\ \A x \in T : Min(T) <= x
BY LeastNat DEF Min

\* What releaseSlots leaves of a job on a node is a number.
LEMMA ReleasedTyped ==
    ASSUME TypeOK, NEW n \in DOMAIN nodeStates
    PROVE  IsMap(Released(n), Jobs, Int)
  <1>1. DOMAIN Released(n) \subseteq DOMAIN jobStates /\ DOMAIN jobStates \subseteq Jobs
    BY DEF Released, TypeOK
  <1>2. Released(n) = [j \in DOMAIN Released(n) |-> Released(n)[j]]
    BY DEF Released
  <1>3. ASSUME NEW j \in DOMAIN Released(n) PROVE Released(n)[j] \in Int
    <2> DEFINE list == jobStates[j].nodeNumSlotsList
               workers == At(nodeStates[n].jobNumWorkers, j)
               entries == { k \in DOMAIN list : list[k].node = n }
    <2>1. j \in DOMAIN jobStates
      BY <1>1
    <2>2. list \in Entries /\ jobStates[j].numWorkers \in Int
      BY <2>1 DEF TypeOK, IsJobState, Entries, Slot
    <2>3. /\ \A k \in 1..Len(list) : SlotsUpTo(list, k) \in Int
          /\ SlotsUpTo(list, Len(list)) \in Int
          /\ DOMAIN list \subseteq Nat
          /\ DOMAIN list = 1..Len(list)
      BY <2>2, SlotsNat
    <2>4. workers \in Int
      BY DEF At, TypeOK, IsNodeState, IsMap
    <2>5. CASE j \notin DOMAIN jobRequests
      <3>1. Released(n)[j] = 0
        BY <2>1, <2>5 DEF Released, ScaledDown
      <3> QED BY <3>1
    <2>6. CASE j \in DOMAIN jobRequests /\ j \in ScaledDown /\ entries \cap Visited(j) # {}
      <3>1. Keeps(j) \in Int
        BY <2>2, <2>3, <2>6 DEF Keeps, TypeOK, IsMap
      <3>2. Min(entries) \in entries
        <4>1. entries \in SUBSET Nat /\ entries # {}
          BY <2>3, <2>6
        <4> QED BY <4>1, MinIn
      <3>3. SlotsUpTo(list, Min(entries)) \in Int
        BY <2>3, <3>2
      <3>4. Released(n)[j] = IF Min(entries) = Min(Visited(j))
                             THEN workers - (SlotsUpTo(list, Min(entries)) - Keeps(j)) ELSE 0
        BY <2>1, <2>6 DEF Released
      <3> QED BY <2>4, <3>1, <3>3, <3>4
    <2>7. CASE j \in DOMAIN jobRequests /\ ~(j \in ScaledDown /\ entries \cap Visited(j) # {})
      <3>1. Released(n)[j] = workers
        BY <2>1, <2>7 DEF Released
      <3> QED BY <2>4, <3>1
    <2> QED BY <2>5, <2>6, <2>7
  <1> QED BY <1>1, <1>2, <1>3 DEF IsMap

(***************************************************************************)
(* The loop of bestFit.                                                    *)
(***************************************************************************)

\* What an iteration starts from.
LEMMA Filling ==
    ASSUME PlaceInv, pc = "fit"
    PROVE  /\ IsFiniteSet(DOMAIN plan) /\ DOMAIN plan \subseteq Nat /\ DOMAIN Free = DOMAIN plan
           /\ IsFiniteSet(DOMAIN nodeStates) /\ Cardinality(DOMAIN nodeStates) \in Nat
           /\ \A k \in DOMAIN plan : /\ IsNode(plan[k]) /\ Free[k] = plan[k].freeSlots /\ Free[k] \in Int
                                     /\ plan[k].totalSlots \in Nat
                                     /\ IsMap(plan[k].jobNumWorkers, Jobs, Nat)
                                     /\ IsFiniteSet(DOMAIN plan[k].jobNumWorkers)
           /\ IsFiniteSet(DOMAIN jobRequests) /\ \A j \in DOMAIN jobRequests : jobRequests[j] \in Nat
           /\ asks \in Seq(Jobs) /\ Range(asks) \subseteq Asking /\ Asking \subseteq DOMAIN jobRequests
           /\ Asking \subseteq Jobs /\ Len(asks) \in Nat
           /\ \A i \in 1..Len(asks) : asks[i] \in Asking
  <1>1. TypeInv /\ PlanTyped /\ TypeOK
    BY DEF PlaceInv, PlanInv, TypeInv
  <1>2. IsFiniteSet(DOMAIN nodeStates) /\ Cardinality(DOMAIN nodeStates) \in Nat
    BY <1>1, SetsAssumption, FS_Subset, FS_CardinalityType DEF TypeOK
  <1>3. IsFiniteSet(DOMAIN plan) /\ DOMAIN plan \subseteq Nat
    BY <1>1, <1>2, FS_Interval DEF PlanTyped
  <1>4. ASSUME NEW k \in DOMAIN plan
        PROVE  /\ IsNode(plan[k]) /\ Free[k] = plan[k].freeSlots /\ Free[k] \in Int
               /\ plan[k].totalSlots \in Nat
               /\ IsMap(plan[k].jobNumWorkers, Jobs, Nat)
               /\ IsFiniteSet(DOMAIN plan[k].jobNumWorkers)
    <2>1. IsNode(plan[k]) /\ IsMap(plan[k].jobNumWorkers, Jobs, Nat)
      BY <1>1 DEF PlanTyped
    <2>2. plan[k].freeSlots \in Int /\ plan[k].totalSlots \in Nat
      BY <2>1 DEF IsNode, IsNodeState
    <2>3. DOMAIN plan[k].jobNumWorkers \subseteq Jobs
      BY <2>1 DEF IsMap
    <2>4. IsFiniteSet(DOMAIN plan[k].jobNumWorkers)
      BY <2>3, SetsAssumption, FS_Subset
    <2> QED BY <2>1, <2>2, <2>4 DEF Free
  <1>5. /\ DOMAIN jobRequests \subseteq Jobs /\ \A j \in DOMAIN jobRequests : jobRequests[j] \in Nat
        /\ Asking \subseteq DOMAIN jobRequests
    BY <1>1 DEF TypeOK, IsMap, Asking
  <1>6. IsFiniteSet(DOMAIN jobRequests)
    BY <1>5, SetsAssumption, FS_Subset
  <1>7. asks \in Seq(Asking) /\ asks \in Seq(Jobs)
    BY <1>1 DEF PlanTyped, TypeOK
  <1>8. Len(asks) \in Nat /\ \A i \in 1..Len(asks) : asks[i] \in Asking
    BY <1>7
  <1>9. Range(asks) \subseteq Asking
    BY <1>7, <1>8 DEF Range
  <1> QED BY <1>2, <1>3, <1>4, <1>5, <1>6, <1>7, <1>8, <1>9 DEF Free

\* The nodes that bestFit binds to, and what it binds.
LEMMA NodeChosen ==
    ASSUME PlaceInv, pc = "fit", asks # <<>>, slots # 0
    PROVE  /\ Head(asks) \in Asking /\ Head(asks) \in DOMAIN jobRequests
           /\ jobRequests[Head(asks)] \in Nat
           /\ requested \in Nat /\ requested >= 1 /\ requested <= jobRequests[Head(asks)]
           /\ Fits # {} => BestIdx \in DOMAIN plan /\ plan[BestIdx].freeSlots >= requested
           /\ MaxIdx \in DOMAIN plan /\ plan[MaxIdx].freeSlots \in Nat
           /\ \A k \in DOMAIN plan : plan[k].freeSlots <= plan[MaxIdx].freeSlots
           /\ Fits = {} => plan[MaxIdx].freeSlots < requested
  <1>1. /\ IsFiniteSet(DOMAIN plan) /\ DOMAIN plan \subseteq Nat /\ DOMAIN Free = DOMAIN plan
        /\ \A k \in DOMAIN plan : Free[k] = plan[k].freeSlots /\ Free[k] \in Int
        /\ \A j \in DOMAIN jobRequests : jobRequests[j] \in Nat
        /\ asks \in Seq(Jobs) /\ \A i \in 1..Len(asks) : asks[i] \in Asking
    BY Filling
  <1>2. PlanTyped /\ Room
    BY DEF PlaceInv, PlanInv
  <1>3. /\ Head(asks) \in Asking /\ Head(asks) \in DOMAIN jobRequests
        /\ jobRequests[Head(asks)] \in Nat
        /\ requested \in Nat /\ requested >= 1 /\ requested <= jobRequests[Head(asks)]
    <2>1. Head(asks) = asks[1] /\ 1 \in 1..Len(asks)
      BY <1>1
    <2> QED BY <1>1, <1>2, <2>1 DEF PlanTyped, Asking
  <1>4. ASSUME Fits # {} PROVE BestIdx \in DOMAIN plan /\ plan[BestIdx].freeSlots >= requested
    <2> DEFINE F == { Free[k] : k \in Fits }
    <2>1. \A k \in Fits : k \in DOMAIN plan /\ Free[k] = plan[k].freeSlots /\ Free[k] \in Nat
      BY <1>1, <1>3 DEF Fits
    <2>2. F \in SUBSET Nat /\ F # {}
      BY <1>4, <2>1
    <2>3. PICK v \in F : \A x \in F : v <= x
      <3> HIDE DEF F
      <3> QED BY <2>2, LeastNat
    <2> DEFINE G == { k \in Fits : Free[k] = v }
    <2>4. G \in SUBSET Nat /\ G # {}
      BY <1>1, <2>1, <2>3
    <2>5. PICK m \in G : \A k \in G : m <= k
      <3> HIDE DEF G
      <3> QED BY <2>4, LeastNat
    <2>6. ASSUME NEW l \in Fits
          PROVE  \/ plan[m].freeSlots < plan[l].freeSlots
                 \/ plan[m].freeSlots = plan[l].freeSlots /\ m <= l
      <3>1. v <= Free[l] /\ v \in Nat /\ Free[l] \in Nat /\ Free[m] = v /\ m \in Fits
        BY <2>1, <2>2, <2>3
      <3>2. CASE Free[l] = v
        BY <2>1, <2>5, <3>1, <3>2
      <3>3. CASE Free[l] # v
        BY <2>1, <3>1, <3>3
      <3> QED BY <3>2, <3>3
    <2>7. BestIdx \in Fits
      <3>1. m \in Fits
        OBVIOUS
      <3> QED BY <2>6, <3>1 DEF BestIdx
    <2> QED BY <2>7 DEF Fits
  <1>5. DOMAIN plan # {}
    <2> SUFFICES ASSUME DOMAIN plan = {} PROVE FALSE
      OBVIOUS
    <2>1. SumOver(Free, DOMAIN Free) = 0
      BY <1>1, SumEmpty
    <2> QED BY <1>2, <2>1 DEF Room, SumOf
  <1>6. MaxIdx \in DOMAIN plan /\ \A k \in DOMAIN plan : plan[k].freeSlots <= plan[MaxIdx].freeSlots
    <2>1. PICK x \in DOMAIN plan : \A k \in DOMAIN plan : Free[k] <= Free[x]
      BY <1>1, <1>5, GreatestOf
    <2> DEFINE G == { k \in DOMAIN plan : Free[k] = Free[x] }
    <2>2. G \in SUBSET Nat /\ G # {}
      BY <1>1
    <2>3. PICK m \in G : \A k \in G : m <= k
      <3> HIDE DEF G
      <3> QED BY <2>2, LeastNat
    <2>4. ASSUME NEW l \in DOMAIN plan
          PROVE  \/ plan[m].freeSlots > plan[l].freeSlots
                 \/ plan[m].freeSlots = plan[l].freeSlots /\ m <= l
      <3>1. Free[m] = Free[x] /\ Free[l] <= Free[x] /\ Free[m] \in Int /\ Free[l] \in Int
        BY <1>1, <2>1
      <3>2. CASE Free[l] = Free[x]
        BY <1>1, <2>3, <3>1, <3>2
      <3>3. CASE Free[l] # Free[x]
        BY <1>1, <3>1, <3>3
      <3> QED BY <3>2, <3>3
    <2> DEFINE Greatest(k) == \A l \in DOMAIN plan : \/ plan[k].freeSlots > plan[l].freeSlots
                                                     \/ plan[k].freeSlots = plan[l].freeSlots /\ k <= l
    <2>5. MaxIdx \in DOMAIN plan /\ Greatest(MaxIdx)
      <3>1. m \in DOMAIN plan /\ Greatest(m)
        BY <2>4
      <3>2. MaxIdx = CHOOSE k \in DOMAIN plan : Greatest(k)
        BY DEF MaxIdx
      <3> HIDE DEF Greatest
      <3> QED BY <3>1, <3>2
    <2>6. \A k \in DOMAIN plan : plan[k].freeSlots \in Int
      BY <1>1
    <2> QED BY <2>5, <2>6
  <1>7. plan[MaxIdx].freeSlots \in Nat
    <2>1. PICK k \in DOMAIN plan : plan[k].freeSlots >= 0
      BY <1>2, <1>5 DEF Room
    <2> QED BY <1>1, <1>6, <2>1
  <1>8. ASSUME Fits = {} PROVE plan[MaxIdx].freeSlots < requested
    BY <1>3, <1>6, <1>7, <1>8 DEF Fits
  <1>9. Fits # {} => BestIdx \in DOMAIN plan /\ plan[BestIdx].freeSlots >= requested
    BY <1>4
  <1>10. Fits = {} => plan[MaxIdx].freeSlots < requested
    BY <1>8
  <1> QED BY <1>3, <1>6, <1>7, <1>9, <1>10

\* What Bind changes of the plan.
LEMMA BindPlan ==
    ASSUME PlaceInv, pc = "fit", asks # <<>>, NEW k \in DOMAIN plan, NEW workers \in Nat,
           Bind(k, workers)
    PROVE  /\ DOMAIN plan' = DOMAIN plan /\ plan' = [l \in DOMAIN plan |-> plan'[l]]
           /\ \A l \in DOMAIN plan : l # k => plan'[l] = plan[l]
           /\ plan'[k].totalSlots = plan[k].totalSlots
           /\ plan'[k].freeSlots = plan[k].freeSlots - workers
           /\ plan'[k].jobNumWorkers = Put(plan[k].jobNumWorkers, Head(asks), workers)
           /\ DOMAIN plan'[k].jobNumWorkers = DOMAIN plan[k].jobNumWorkers \cup {Head(asks)}
           /\ plan'[k].jobNumWorkers[Head(asks)] = workers
           /\ \A j \in DOMAIN plan[k].jobNumWorkers :
                 j # Head(asks) => plan'[k].jobNumWorkers[j] = plan[k].jobNumWorkers[j]
           /\ \A l \in DOMAIN plan : IsNode(plan'[l]) /\ IsMap(plan'[l].jobNumWorkers, Jobs, Nat)
           /\ slots' = slots - workers
  <1> DEFINE j == Head(asks)
             m == Put(plan[k].jobNumWorkers, j, workers)
  <1>1. /\ \A l \in DOMAIN plan : /\ IsNode(plan[l]) /\ IsMap(plan[l].jobNumWorkers, Jobs, Nat)
                                  /\ plan[l].freeSlots \in Int /\ plan[l].totalSlots \in Nat
        /\ asks \in Seq(Jobs) /\ plan = [l \in DOMAIN plan |-> plan[l]]
    BY Filling DEF PlaceInv, PlanInv, PlanTyped
  <1>2. j \in Jobs
    BY <1>1
  <1>3. IsMap(m, Jobs, Nat) /\ DOMAIN m = DOMAIN plan[k].jobNumWorkers \cup {j} /\ m[j] = workers
        /\ \A x \in DOMAIN plan[k].jobNumWorkers : x # j => m[x] = plan[k].jobNumWorkers[x]
    <2>1. IsMap(plan[k].jobNumWorkers, Jobs, Nat)
      BY <1>1
    <2>2. /\ IsMap(m, Jobs, Nat)
          /\ DOMAIN m = DOMAIN plan[k].jobNumWorkers \cup {j}
          /\ \A x \in DOMAIN plan[k].jobNumWorkers \cup {j} :
                m[x] = IF x = j THEN workers ELSE plan[k].jobNumWorkers[x]
      <3> HIDE DEF j
      <3> QED BY <1>2, <2>1 DEF IsMap, Put
    <2> HIDE DEF j, m
    <2> QED BY <2>2
  <1> HIDE DEF j, m
  <1>4. plan' = [plan EXCEPT ![k].jobNumWorkers = m, ![k].freeSlots = @ - workers] /\ slots' = slots - workers
    BY DEF Bind, j, m
  <1>5. DOMAIN plan' = DOMAIN plan /\ plan' = [l \in DOMAIN plan |-> plan'[l]]
        /\ \A l \in DOMAIN plan : l # k => plan'[l] = plan[l]
    BY <1>1, <1>4
  <1>6. plan'[k] = [plan[k] EXCEPT !.jobNumWorkers = m, !.freeSlots = plan[k].freeSlots - workers]
    BY <1>1, <1>4
  <1>7. plan[k] = [totalSlots |-> plan[k].totalSlots, freeSlots |-> plan[k].freeSlots,
                   jobNumWorkers |-> plan[k].jobNumWorkers]
    BY <1>1 DEF IsNode
  <1>8. plan'[k] = [totalSlots |-> plan[k].totalSlots, freeSlots |-> plan[k].freeSlots - workers,
                    jobNumWorkers |-> m]
    BY <1>6, <1>7
  <1>9. plan'[k].totalSlots = plan[k].totalSlots /\ plan'[k].freeSlots = plan[k].freeSlots - workers
        /\ plan'[k].jobNumWorkers = m
    BY <1>8
  <1>10. plan'[k].freeSlots \in Int /\ plan'[k].totalSlots \in Nat /\ IsMap(m, Jobs, Int)
    BY <1>1, <1>3, <1>9 DEF IsMap
  <1>11. IsNode(plan'[k])
    BY <1>8, <1>9, <1>10 DEF IsNode, IsNodeState
  <1>12. \A l \in DOMAIN plan : IsNode(plan'[l]) /\ IsMap(plan'[l].jobNumWorkers, Jobs, Nat)
    <2> SUFFICES ASSUME NEW l \in DOMAIN plan
                 PROVE  IsNode(plan'[l]) /\ IsMap(plan'[l].jobNumWorkers, Jobs, Nat)
      OBVIOUS
    <2>1. CASE l = k
      BY <1>3, <1>9, <1>11, <2>1
    <2>2. CASE l # k
      BY <1>1, <1>5, <2>2
    <2> QED BY <2>1, <2>2
  <1> QED BY <1>3, <1>4, <1>5, <1>9, <1>12 DEF j, m

\* What it changes of the sums.
LEMMA BindSums ==
    ASSUME PlaceInv, pc = "fit", asks # <<>>, NEW k \in DOMAIN plan, NEW workers \in Nat,
           Bind(k, workers)
    PROVE  /\ SumOf(Free)' = SumOf(Free) - workers
           /\ Totals(plan)' = Totals(plan)
           /\ Head(asks) \notin DOMAIN plan[k].jobNumWorkers =>
                 SumOf(plan[k].jobNumWorkers)' = SumOf(plan[k].jobNumWorkers) + workers
           /\ \A l \in DOMAIN plan : l # k => SumOf(plan[l].jobNumWorkers)' = SumOf(plan[l].jobNumWorkers)
           /\ \A l \in DOMAIN plan : SumOf(plan[l].jobNumWorkers) \in Int
  <1>1. /\ IsFiniteSet(DOMAIN plan) /\ DOMAIN Free = DOMAIN plan
        /\ \A l \in DOMAIN plan : /\ Free[l] = plan[l].freeSlots /\ Free[l] \in Int
                                  /\ plan[l].totalSlots \in Nat
                                  /\ IsMap(plan[l].jobNumWorkers, Jobs, Nat)
                                  /\ IsFiniteSet(DOMAIN plan[l].jobNumWorkers)
    BY Filling
  <1>2. /\ DOMAIN plan' = DOMAIN plan
        /\ \A l \in DOMAIN plan : l # k => plan'[l] = plan[l]
        /\ plan'[k].totalSlots = plan[k].totalSlots
        /\ plan'[k].freeSlots = plan[k].freeSlots - workers
        /\ DOMAIN plan'[k].jobNumWorkers = DOMAIN plan[k].jobNumWorkers \cup {Head(asks)}
        /\ plan'[k].jobNumWorkers[Head(asks)] = workers
        /\ \A j \in DOMAIN plan[k].jobNumWorkers :
              j # Head(asks) => plan'[k].jobNumWorkers[j] = plan[k].jobNumWorkers[j]
    BY BindPlan
  <1>3. SumOf(Free)' = SumOf(Free) - workers
    <2> DEFINE f == Free
               g == [l \in DOMAIN plan' |-> plan'[l].freeSlots]
               D == DOMAIN plan
    <2>1. DOMAIN g = D /\ g = Free' /\ DOMAIN f = D
      BY <1>1, <1>2 DEF Free
    <2>2. /\ \A x \in D : f[x] \in Int /\ (x # k => g[x] = f[x])
          /\ g[k] \in Int /\ g[k] = f[k] - workers /\ f[k] \in Int /\ k \in D
      BY <1>1, <1>2
    <2>3. SumOver(f, D) \in Int
      <3> HIDE DEF f, D
      <3> QED BY <1>1, <2>2, SumInt DEF D
    <2>4. SumOver(g, D) = SumOver(f, D) + (g[k] - f[k])
      <3>1. IsFiniteSet(D)
        BY <1>1
      <3> HIDE DEF f, g, D
      <3> QED BY <2>2, <3>1, SumChange
    <2>5. SumOf(Free) = SumOver(f, D) /\ SumOf(Free)' = SumOver(g, D)
      BY <2>1 DEF SumOf
    <2> HIDE DEF f, g, D
    <2> QED BY <2>2, <2>3, <2>4, <2>5
  <1>4. Totals(plan)' = Totals(plan)
    <2> DEFINE f == [l \in DOMAIN plan |-> plan[l].totalSlots]
               g == [l \in DOMAIN plan' |-> plan'[l].totalSlots]
    <2>1. DOMAIN g = DOMAIN plan /\ DOMAIN f = DOMAIN plan
      BY <1>2
    <2>2. f = g
      BY <1>2
    <2>3. Totals(plan) = SumOf(f) /\ Totals(plan)' = SumOf(g)
      BY DEF Totals
    <2> HIDE DEF f, g
    <2> QED BY <2>2, <2>3
  <1>5. ASSUME Head(asks) \notin DOMAIN plan[k].jobNumWorkers
        PROVE  SumOf(plan[k].jobNumWorkers)' = SumOf(plan[k].jobNumWorkers) + workers
    <2> DEFINE f == plan[k].jobNumWorkers
               g == plan'[k].jobNumWorkers
               D == DOMAIN plan[k].jobNumWorkers
               j == Head(asks)
    <2>1. IsFiniteSet(D) /\ j \notin D /\ \A x \in D : f[x] \in Int /\ g[x] = f[x] /\ g[x] \in Int
      BY <1>1, <1>2, <1>5 DEF IsMap
    <2>2. g[j] = workers /\ workers \in Int /\ DOMAIN g = D \cup {j} /\ DOMAIN f = D
      BY <1>2
    <2>3. SumOver(g, D \cup {j}) = g[j] + SumOver(g, D)
      <3>1. \A x \in D \cup {j} : g[x] \in Int
        BY <2>1, <2>2
      <3> HIDE DEF f, g, D, j
      <3> QED BY <2>1, <3>1, SumAdd
    <2>4. SumOver(g, D) = SumOver(f, D) /\ SumOver(f, D) \in Int
      <3>1. SumOver(f, D) \in Int
        <4> HIDE DEF f, g, D, j
        <4> QED BY <2>1, SumInt
      <3>2. \A x \in D : f[x] \in Int /\ f[x] = g[x]
        BY <2>1
      <3>3. SumOver(f, D) = SumOver(g, D)
        <4> HIDE DEF f, g, D, j
        <4> QED BY <2>1, <3>2, SumSame
      <3> QED BY <3>1, <3>3
    <2>5. SumOf(plan[k].jobNumWorkers) = SumOver(f, D) /\ SumOf(plan[k].jobNumWorkers)' = SumOver(g, D \cup {j})
      BY <2>2 DEF SumOf
    <2> HIDE DEF f, g, D, j
    <2> QED BY <2>2, <2>3, <2>4, <2>5
  <1>6. ASSUME NEW l \in DOMAIN plan, l # k
        PROVE  SumOf(plan[l].jobNumWorkers)' = SumOf(plan[l].jobNumWorkers)
    BY <1>2, <1>6
  <1>7. ASSUME NEW l \in DOMAIN plan PROVE SumOf(plan[l].jobNumWorkers) \in Int
    <2> DEFINE f == plan[l].jobNumWorkers
    <2>1. IsFiniteSet(DOMAIN f) /\ \A x \in DOMAIN f : f[x] \in Int
      BY <1>1 DEF IsMap
    <2>2. SumOver(f, DOMAIN f) \in Int
      <3> HIDE DEF f
      <3> QED BY <2>1, SumInt
    <2> QED BY <2>2 DEF SumOf
  <1> QED BY <1>3, <1>4, <1>5, <1>6, <1>7

\* The rest of a list: its first job is not in it, the others are.
LEMMA AsksTail ==
    ASSUME PlaceInv, pc = "fit", asks # <<>>
    PROVE  /\ Tail(asks) \in Seq(Asking) /\ Len(Tail(asks)) = Len(asks) - 1 /\ Len(asks) \in Nat \ {0}
           /\ \A i \in 1..Len(Tail(asks)) : Tail(asks)[i] = asks[i + 1] /\ i + 1 \in 2..Len(asks)
           /\ \A i, k \in 1..Len(Tail(asks)) : i # k => Tail(asks)[i] # Tail(asks)[k]
           /\ Range(asks) = {Head(asks)} \cup Range(Tail(asks)) /\ Head(asks) \notin Range(Tail(asks))
           /\ \A i \in 2..Len(asks) : asks[i] # Head(asks)
           /\ Tail(asks) # <<>> => Head(Tail(asks)) = asks[2] /\ 2 \in 2..Len(asks)
  <1>1. asks \in Seq(Asking) /\ \A i, k \in 1..Len(asks) : i # k => asks[i] # asks[k]
    BY DEF PlaceInv, PlanInv, PlanTyped
  <1>2. /\ Tail(asks) \in Seq(Asking) /\ Len(Tail(asks)) = Len(asks) - 1 /\ Len(asks) \in Nat \ {0}
        /\ \A i \in 1..Len(Tail(asks)) : Tail(asks)[i] = asks[i + 1]
        /\ Head(asks) = asks[1]
    BY <1>1, HeadTailProperties, EmptySeq
  <1>3. \A i \in 1..Len(Tail(asks)) : i + 1 \in 2..Len(asks) /\ i + 1 \in 1..Len(asks)
    BY <1>2
  <1>4. \A i, k \in 1..Len(Tail(asks)) : i # k => Tail(asks)[i] # Tail(asks)[k]
    <2> SUFFICES ASSUME NEW i \in 1..Len(Tail(asks)), NEW k \in 1..Len(Tail(asks)), i # k
                 PROVE  Tail(asks)[i] # Tail(asks)[k]
      OBVIOUS
    <2>1. i + 1 # k + 1 /\ i + 1 \in 1..Len(asks) /\ k + 1 \in 1..Len(asks)
      BY <1>3
    <2>2. asks[i + 1] # asks[k + 1]
      BY <1>1, <2>1
    <2> QED BY <1>2, <2>2
  <1>5. Range(asks) = {Head(asks)} \cup Range(Tail(asks))
    BY <1>1, RangeHeadTail
  <1>6. \A i \in 2..Len(asks) : asks[i] # Head(asks)
    <2> SUFFICES ASSUME NEW i \in 2..Len(asks) PROVE asks[i] # Head(asks)
      OBVIOUS
    <2>1. i \in 1..Len(asks) /\ 1 \in 1..Len(asks) /\ i # 1
      BY <1>2
    <2> QED BY <1>1, <1>2, <2>1
  <1>7. Head(asks) \notin Range(Tail(asks))
    <2> SUFFICES ASSUME NEW i \in 1..Len(Tail(asks)) PROVE Tail(asks)[i] # Head(asks)
      BY <1>2 DEF Range
    <2> QED BY <1>2, <1>3, <1>6
  <1>8. Tail(asks) # <<>> => Head(Tail(asks)) = asks[2] /\ 2 \in 2..Len(asks)
    <2> SUFFICES ASSUME Tail(asks) # <<>> PROVE Head(Tail(asks)) = asks[2] /\ 2 \in 2..Len(asks)
      OBVIOUS
    <2>1. 1 \in 1..Len(Tail(asks)) /\ Head(Tail(asks)) = Tail(asks)[1]
      BY <1>2, HeadTailProperties, EmptySeq
    <2> QED BY <1>2, <1>3, <2>1
  <1> QED BY <1>2, <1>3, <1>4, <1>5, <1>6, <1>7, <1>8

\* What stays as it is in an iteration.
Iterates == pc' = pc /\ UNCHANGED <<jobRequests, nodeStates, world>>

LEMMA BindKnown ==
    ASSUME PlaceInv, pc = "fit", asks # <<>>, NEW k \in DOMAIN plan, NEW workers \in Nat,
           Bind(k, workers), Iterates
    PROVE  Known' /\ (Whole' => Whole)
  <1>1. Totals(plan)' = Totals(plan)
    BY BindSums
  <1>2. Known
    BY DEF PlaceInv, PlanInv
  <1>3. /\ SumOf(jobRequests)' = SumOf(jobRequests) /\ SumOf(Gpus)' = SumOf(Gpus)
        /\ Totals(nodeStates)' = Totals(nodeStates)
    BY DEF Iterates, SumOf, Totals
  <1>4. pc' = pc /\ changes' = changes /\ nodeEvents' = nodeEvents /\ cluster' = cluster
        /\ nodeStates' = nodeStates
    BY DEF Iterates, world
  <1>5. Known'
    BY <1>1, <1>2, <1>3, <1>4 DEF Known
  <1>6. /\ DOMAIN plan' = DOMAIN plan
        /\ \A l \in DOMAIN plan : l # k => plan'[l] = plan[l]
        /\ DOMAIN plan'[k].jobNumWorkers = DOMAIN plan[k].jobNumWorkers \cup {Head(asks)}
    BY BindPlan
  <1>7. \A l \in DOMAIN plan : DOMAIN plan[l].jobNumWorkers \subseteq DOMAIN plan'[l].jobNumWorkers
    BY <1>6
  <1>8. Whole' => Whole
    BY <1>6, <1>7 DEF Whole
  <1> QED BY <1>5, <1>8

\* A node that is bound to may take the whole rest of the list along.
LEMMA BindRoom ==
    ASSUME PlaceInv, pc = "fit", asks # <<>>, NEW k \in DOMAIN plan, NEW workers \in Nat,
           Bind(k, workers), Iterates
    PROVE  /\ slots' = SumOf(Free)'
           /\ ~Stuck /\ Head(asks) \notin DOMAIN plan[k].jobNumWorkers =>
                \A l \in DOMAIN plan' :
                   plan'[l].freeSlots = plan'[l].totalSlots - SumOf(plan'[l].jobNumWorkers)
           /\ \A l \in DOMAIN plan : \A i \in 2..Len(asks) : asks[i] \notin DOMAIN plan'[l].jobNumWorkers
  <1>1. PlanTyped /\ Room /\ Booked /\ Parts
    BY DEF PlaceInv, PlanInv
  <1>2. /\ DOMAIN plan' = DOMAIN plan
        /\ \A l \in DOMAIN plan : l # k => plan'[l] = plan[l]
        /\ plan'[k].totalSlots = plan[k].totalSlots
        /\ plan'[k].freeSlots = plan[k].freeSlots - workers
        /\ DOMAIN plan'[k].jobNumWorkers = DOMAIN plan[k].jobNumWorkers \cup {Head(asks)}
        /\ slots' = slots - workers
    BY BindPlan
  <1>3. /\ SumOf(Free)' = SumOf(Free) - workers
        /\ Head(asks) \notin DOMAIN plan[k].jobNumWorkers =>
              SumOf(plan[k].jobNumWorkers)' = SumOf(plan[k].jobNumWorkers) + workers
        /\ \A l \in DOMAIN plan : SumOf(plan[l].jobNumWorkers) \in Int
    BY BindSums
  <1>4. slots' = SumOf(Free)'
    BY <1>1, <1>2, <1>3 DEF Room
  <1>5. ASSUME ~Stuck, Head(asks) \notin DOMAIN plan[k].jobNumWorkers, NEW l \in DOMAIN plan
        PROVE  plan'[l].freeSlots = plan'[l].totalSlots - SumOf(plan'[l].jobNumWorkers)
    <2>1. plan[l].freeSlots = plan[l].totalSlots - SumOf(plan[l].jobNumWorkers)
      BY <1>1, <1>5 DEF Booked
    <2>2. CASE l # k
      BY <1>2, <2>1, <2>2
    <2>3. CASE l = k
      <3>1. SumOf(plan'[k].jobNumWorkers) = SumOf(plan[k].jobNumWorkers) + workers
        BY <1>3, <1>5
      <3>2. plan[k].freeSlots \in Int /\ plan[k].totalSlots \in Nat /\ SumOf(plan[k].jobNumWorkers) \in Int
        BY <1>3, Filling
      <3> QED BY <1>2, <2>1, <2>3, <3>1, <3>2
    <2> QED BY <2>2, <2>3
  <1>6. ASSUME NEW l \in DOMAIN plan, NEW i \in 2..Len(asks)
        PROVE  asks[i] \notin DOMAIN plan'[l].jobNumWorkers
    <2>1. asks[i] \notin DOMAIN plan[l].jobNumWorkers
      BY <1>1 DEF Parts
    <2>2. asks[i] # Head(asks)
      BY AsksTail
    <2> QED BY <1>2, <2>1, <2>2
  <1> QED BY <1>2, <1>4, <1>5, <1>6

\* A node has room for all that is left of the job: it gets the whole job.
LEMMA BestFitKeeps ==
    ASSUME PlaceInv, pc = "fit", asks # <<>>, slots # 0, Fits # {},
           Bind(BestIdx, jobRequests[Head(asks)]), Iterates
    PROVE  PlanInv'
  <1> DEFINE k == BestIdx
             j == Head(asks)
             r == jobRequests[Head(asks)]
  <1>1. /\ j \in Asking /\ r \in Nat /\ requested \in Nat /\ requested >= 1 /\ requested <= r
        /\ k \in DOMAIN plan /\ plan[k].freeSlots >= requested
    BY NodeChosen
  <1>2. PlanTyped /\ Room /\ Booked /\ Parts /\ Fit
    BY DEF PlaceInv, PlanInv
  <1>3. Bind(k, r)
    OBVIOUS
  <1> HIDE DEF k
  <1>4. /\ DOMAIN plan' = DOMAIN plan /\ plan' = [l \in DOMAIN plan |-> plan'[l]]
        /\ \A l \in DOMAIN plan : l # k => plan'[l] = plan[l]
        /\ plan'[k].freeSlots = plan[k].freeSlots - r
        /\ DOMAIN plan'[k].jobNumWorkers = DOMAIN plan[k].jobNumWorkers \cup {j}
        /\ plan'[k].jobNumWorkers[j] = r
        /\ \A x \in DOMAIN plan[k].jobNumWorkers :
              x # j => plan'[k].jobNumWorkers[x] = plan[k].jobNumWorkers[x]
        /\ \A l \in DOMAIN plan : IsNode(plan'[l]) /\ IsMap(plan'[l].jobNumWorkers, Jobs, Nat)
        /\ slots' = slots - r
    BY <1>1, <1>3, BindPlan
  <1>5. /\ slots' = SumOf(Free)'
        /\ ~Stuck /\ j \notin DOMAIN plan[k].jobNumWorkers =>
             \A l \in DOMAIN plan' :
                plan'[l].freeSlots = plan'[l].totalSlots - SumOf(plan'[l].jobNumWorkers)
        /\ \A l \in DOMAIN plan : \A i \in 2..Len(asks) : asks[i] \notin DOMAIN plan'[l].jobNumWorkers
    BY <1>1, <1>3, BindRoom
  <1>6. Known' /\ (Whole' => Whole)
    BY <1>1, <1>3, BindKnown
  <1>7. /\ Tail(asks) \in Seq(Asking) /\ Len(Tail(asks)) = Len(asks) - 1 /\ Len(asks) \in Nat \ {0}
        /\ \A i \in 1..Len(Tail(asks)) : Tail(asks)[i] = asks[i + 1] /\ i + 1 \in 2..Len(asks)
        /\ \A i, l \in 1..Len(Tail(asks)) : i # l => Tail(asks)[i] # Tail(asks)[l]
        /\ Range(asks) = {j} \cup Range(Tail(asks)) /\ j \notin Range(Tail(asks))
        /\ Tail(asks) # <<>> => Head(Tail(asks)) = asks[2] /\ 2 \in 2..Len(asks)
    BY AsksTail
  <1>8. /\ asks' = Tail(asks)
        /\ requested' = IF Tail(asks) = <<>> THEN 0 ELSE jobRequests[Head(Tail(asks))]
    BY <1>1, <1>3, <1>7 DEF Bind
  <1>9. Asking' = Asking /\ jobRequests' = jobRequests /\ nodeStates' = nodeStates /\ changes' = changes
    BY DEF Iterates, Asking, world
  <1>10. /\ \A l \in DOMAIN plan : plan[l].freeSlots \in Int
         /\ \A x \in Asking : x \in DOMAIN jobRequests /\ jobRequests[x] \in Nat /\ jobRequests[x] >= 1
         /\ IsFiniteSet(Range(asks)) /\ Range(asks) \subseteq Asking
    <2>1. /\ \A l \in DOMAIN plan : plan[l].freeSlots \in Int
          /\ \A x \in DOMAIN jobRequests : jobRequests[x] \in Nat
          /\ IsFiniteSet(DOMAIN jobRequests) /\ Range(asks) \subseteq Asking /\ Asking \subseteq DOMAIN jobRequests
      BY Filling
    <2>2. IsFiniteSet(Range(asks))
      BY <2>1, FS_Subset
    <2> QED BY <2>1, <2>2 DEF Asking
  <1>11. PlanTyped'
    <2>1. asks' # <<>> => requested' \in Nat /\ requested' >= 1 /\ requested' = jobRequests'[Head(asks')]
      <3> SUFFICES ASSUME Tail(asks) # <<>>
                   PROVE  /\ requested' \in Nat /\ requested' >= 1
                          /\ requested' = jobRequests[Head(Tail(asks))]
        BY <1>8, <1>9
      <3>1. Head(Tail(asks)) \in Asking
        BY <1>7
      <3> QED BY <1>8, <1>10, <3>1
    <2>2. requested' \in Nat
      BY <1>8, <2>1
    <2>3. asks' \in Seq(Asking') /\ \A i, l \in 1..Len(asks') : i # l => asks'[i] # asks'[l]
      BY <1>7, <1>8, <1>9
    <2>4. DOMAIN plan' = 1..Cardinality(DOMAIN nodeStates')
      BY <1>2, <1>4, <1>9 DEF PlanTyped
    <2> QED BY <1>4, <2>1, <2>2, <2>3, <2>4 DEF PlanTyped
  \* The parts that were placed before have filled other nodes.
  <1>12. j \notin DOMAIN plan[k].jobNumWorkers
    BY <1>1, <1>2, <1>10 DEF Parts
  <1>13. requested # r => \E l \in DOMAIN plan : /\ l # k /\ plan[l].freeSlots = 0 /\ plan'[l] = plan[l]
                                                 /\ j \in DOMAIN plan[l].jobNumWorkers
    <2> SUFFICES ASSUME requested # r
                 PROVE  \E l \in DOMAIN plan : /\ l # k /\ plan[l].freeSlots = 0 /\ plan'[l] = plan[l]
                                               /\ j \in DOMAIN plan[l].jobNumWorkers
      OBVIOUS
    <2>1. PICK l \in DOMAIN plan : j \in DOMAIN plan[l].jobNumWorkers
      BY <1>2 DEF Parts
    <2>2. plan[l].freeSlots = 0 /\ l # k
      BY <1>2, <1>12, <2>1 DEF Parts
    <2> QED BY <1>4, <2>1, <2>2
  <1>14. requested = r => plan'[k].freeSlots >= 0
    BY <1>1, <1>4, <1>10
  <1>15. Room'
    <2>1. (\A l \in DOMAIN plan' : plan'[l].freeSlots >= 0) \/ (\E l \in DOMAIN plan' : plan'[l].freeSlots = 0)
      <3>1. CASE requested # r
        BY <1>4, <1>13, <3>1
      <3>2. CASE requested = r /\ \E l \in DOMAIN plan : plan[l].freeSlots = 0
        <4>1. PICK l \in DOMAIN plan : plan[l].freeSlots = 0
          BY <3>2
        <4>2. l # k
          BY <1>1, <4>1
        <4> QED BY <1>4, <4>1, <4>2
      <3>3. CASE requested = r /\ \A l \in DOMAIN plan : plan[l].freeSlots >= 0
        BY <1>4, <1>14, <3>3
      <3> QED BY <1>2, <3>1, <3>2, <3>3 DEF Room
    <2> QED BY <1>5, <2>1 DEF Room
  <1>16. Parts'
    <2>1. \A l \in DOMAIN plan' : \A i \in 1..Len(asks') : asks'[i] \notin DOMAIN plan'[l].jobNumWorkers
      BY <1>4, <1>5, <1>7, <1>8
    <2>2. \A l \in DOMAIN plan' : \A i \in 2..Len(asks') : asks'[i] \notin DOMAIN plan'[l].jobNumWorkers
      <3>1. \A i \in 2..Len(asks') : i \in 1..Len(asks')
        BY <1>7, <1>8
      <3> QED BY <2>1, <3>1
    <2>3. asks' # <<>> => \A l \in DOMAIN plan' : Head(asks') \notin DOMAIN plan'[l].jobNumWorkers
      <3> SUFFICES ASSUME asks' # <<>>
                   PROVE  \A l \in DOMAIN plan' : Head(asks') \notin DOMAIN plan'[l].jobNumWorkers
        OBVIOUS
      <3>1. Head(asks') = asks[2] /\ 2 \in 2..Len(asks)
        BY <1>7, <1>8
      <3> QED BY <1>4, <1>5, <3>1
    <2>4. asks' # <<>> => requested' = jobRequests'[Head(asks')]
      BY <1>8, <1>9
    <2> QED BY <2>2, <2>3, <2>4 DEF Parts
  <1>17. Booked'
    <2>1. ~Stuck
      BY <1>1, <1>10 DEF Stuck
    <2> QED BY <1>5, <1>12, <2>1 DEF Booked
  <1>18. Whole' => requested = r
    <2> SUFFICES ASSUME Whole', requested # r PROVE FALSE
      OBVIOUS
    <2>1. PICK l \in DOMAIN plan : l # k /\ plan'[l] = plan[l] /\ j \in DOMAIN plan[l].jobNumWorkers
      BY <1>13
    <2>2. j \in DOMAIN plan'[l].jobNumWorkers /\ j \in DOMAIN plan'[k].jobNumWorkers /\ j \in Jobs
      BY <1>1, <1>4, <2>1, Filling
    <2> QED BY <1>1, <1>4, <2>1, <2>2 DEF Whole
  <1>19. Fit'
    <2>1. Whole' => \A l \in DOMAIN plan' : plan'[l].freeSlots >= 0
      <3> SUFFICES ASSUME Whole', NEW l \in DOMAIN plan PROVE plan'[l].freeSlots >= 0
        BY <1>4
      <3>1. plan[l].freeSlots >= 0
        BY <1>2, <1>6 DEF Fit
      <3> QED BY <1>4, <1>14, <1>18, <3>1
    <2>2. Whole' /\ changes' = 0 => slots' >= Open'
      <3> SUFFICES ASSUME Whole', changes' = 0 PROVE slots' >= Open'
        OBVIOUS
      <3>1. slots >= Open /\ requested = r
        BY <1>2, <1>6, <1>9, <1>18 DEF Fit
      <3>2. Open = SumOver(jobRequests, Range(asks)) - (r - requested)
        BY DEF Open
      <3>3. Open' = SumOver(jobRequests, Range(Tail(asks)))
                    - (IF Tail(asks) = <<>> THEN 0 ELSE jobRequests[Head(Tail(asks))] - requested')
        BY <1>8, <1>9 DEF Open
      <3> DEFINE R == Range(asks)
                 T == Range(Tail(asks))
      <3>4. SumOver(jobRequests, R) = r + SumOver(jobRequests, T) /\ SumOver(jobRequests, T) \in Int
        <4>1. /\ IsFiniteSet(R) /\ \A x \in R : jobRequests[x] \in Int
              /\ j \in R /\ R \ {j} = T
          BY <1>7, <1>10
        <4> HIDE DEF R, T, j
        <4>2. SumOver(jobRequests, R) = jobRequests[j] + SumOver(jobRequests, R \ {j})
          BY <4>1, SumRemove
        <4>3. IsFiniteSet(T) /\ \A x \in T : jobRequests[x] \in Int
          BY <4>1, FS_Subset
        <4>4. SumOver(jobRequests, T) \in Int
          BY <4>3, SumInt
        <4> QED BY <4>1, <4>2, <4>4 DEF j
      <3>5. (IF Tail(asks) = <<>> THEN 0 ELSE jobRequests[Head(Tail(asks))] - requested') = 0
        <4>1. CASE Tail(asks) = <<>>
          BY <4>1
        <4>2. CASE Tail(asks) # <<>>
          <5>1. jobRequests[Head(Tail(asks))] \in Nat
            BY <1>7, <1>10, <4>2
          <5> QED BY <1>8, <4>2, <5>1
        <4> QED BY <4>1, <4>2
      <3>6. slots \in Int
        BY DEF PlaceInv, TypeInv, TypeOK
      <3> HIDE DEF R, T, r
      <3>7. r \in Nat
        BY <1>1
      <3> QED BY <1>4, <3>1, <3>2, <3>3, <3>4, <3>5, <3>6, <3>7 DEF R, T
    <2>3. ASSUME NEW x \in Asking, x \notin Range(Tail(asks))
          PROVE  \E l \in DOMAIN plan : /\ x \in DOMAIN plan'[l].jobNumWorkers
                                        /\ plan'[l].jobNumWorkers[x] = jobRequests[x]
      <3>1. CASE x = j
        BY <1>1, <1>4, <3>1
      <3>2. CASE x # j
        <4>1. PICK l \in DOMAIN plan : /\ x \in DOMAIN plan[l].jobNumWorkers
                                       /\ plan[l].jobNumWorkers[x] = jobRequests[x]
          BY <1>2, <1>7, <2>3, <3>2 DEF Fit
        <4>2. CASE l = k
          BY <1>4, <3>2, <4>1, <4>2
        <4>3. CASE l # k
          BY <1>4, <4>1, <4>3
        <4> QED BY <4>2, <4>3
      <3> QED BY <3>1, <3>2
    <2>4. \A x \in Asking' : x \notin Range(asks)' =>
             \E l \in DOMAIN plan' : x \in DOMAIN plan'[l].jobNumWorkers
                                     /\ plan'[l].jobNumWorkers[x] = jobRequests'[x]
      BY <1>4, <1>8, <1>9, <2>3
    <2> QED BY <2>1, <2>2, <2>4 DEF Fit
  <1> QED BY <1>6, <1>11, <1>15, <1>16, <1>17, <1>19 DEF PlanInv

\* No node has room for the rest of the job: the node with the most is filled.
LEMMA MaxFitKeeps ==
    ASSUME PlaceInv, pc = "fit", asks # <<>>, slots # 0, Fits = {},
           Bind(MaxIdx, plan[MaxIdx].freeSlots), Iterates
    PROVE  PlanInv'
  <1> DEFINE k == MaxIdx
             j == Head(asks)
             r == jobRequests[Head(asks)]
             w == plan[MaxIdx].freeSlots
  <1>1. /\ j \in Asking /\ r \in Nat /\ requested \in Nat /\ requested >= 1 /\ requested <= r
        /\ k \in DOMAIN plan /\ w \in Nat /\ w < requested
        /\ \A l \in DOMAIN plan : plan[l].freeSlots <= w
    BY NodeChosen
  <1>2. PlanTyped /\ Room /\ Booked /\ Parts /\ Fit
    BY DEF PlaceInv, PlanInv
  <1>3. Bind(k, w) /\ w = plan[k].freeSlots
    OBVIOUS
  <1> HIDE DEF k, w
  <1>4. /\ DOMAIN plan' = DOMAIN plan /\ plan' = [l \in DOMAIN plan |-> plan'[l]]
        /\ \A l \in DOMAIN plan : l # k => plan'[l] = plan[l]
        /\ plan'[k].freeSlots = plan[k].freeSlots - w
        /\ DOMAIN plan'[k].jobNumWorkers = DOMAIN plan[k].jobNumWorkers \cup {j}
        /\ plan'[k].jobNumWorkers[j] = w
        /\ \A x \in DOMAIN plan[k].jobNumWorkers :
              x # j => plan'[k].jobNumWorkers[x] = plan[k].jobNumWorkers[x]
        /\ \A l \in DOMAIN plan : IsNode(plan'[l]) /\ IsMap(plan'[l].jobNumWorkers, Jobs, Nat)
        /\ slots' = slots - w
    BY <1>1, <1>3, BindPlan
  <1>5. /\ slots' = SumOf(Free)'
        /\ ~Stuck /\ j \notin DOMAIN plan[k].jobNumWorkers =>
             \A l \in DOMAIN plan' :
                plan'[l].freeSlots = plan'[l].totalSlots - SumOf(plan'[l].jobNumWorkers)
        /\ \A l \in DOMAIN plan : \A i \in 2..Len(asks) : asks[i] \notin DOMAIN plan'[l].jobNumWorkers
    BY <1>1, <1>3, BindRoom
  <1>6. Known' /\ (Whole' => Whole)
    BY <1>1, <1>3, BindKnown
  <1>7. asks' = asks /\ requested' = requested - w /\ requested' \in Nat /\ requested' >= 1
        /\ requested' <= r
    BY <1>1, <1>3 DEF Bind
  <1>8. Asking' = Asking /\ jobRequests' = jobRequests /\ nodeStates' = nodeStates /\ changes' = changes
    BY DEF Iterates, Asking, world
  <1>9. plan'[k].freeSlots = 0
    BY <1>1, <1>3, <1>4
  <1>10. /\ \A l \in DOMAIN plan : plan[l].freeSlots \in Int
         /\ slots \in Int
         /\ j \in Range(asks) /\ j \in Jobs
    <2>1. \A l \in DOMAIN plan : plan[l].freeSlots \in Int
      BY Filling
    <2>2. slots \in Int
      BY DEF PlaceInv, TypeInv, TypeOK
    <2>3. j \in Range(asks)
      BY AsksTail
    <2>4. j \in Jobs
      BY <1>1, Filling
    <2> QED BY <2>1, <2>2, <2>3, <2>4
  <1>11. PlanTyped'
    <2>1. DOMAIN plan' = 1..Cardinality(DOMAIN nodeStates')
      BY <1>2, <1>4, <1>8 DEF PlanTyped
    <2>2. asks' \in Seq(Asking') /\ \A i, l \in 1..Len(asks') : i # l => asks'[i] # asks'[l]
      BY <1>2, <1>7, <1>8 DEF PlanTyped
    <2> QED BY <1>4, <1>7, <1>8, <2>1, <2>2 DEF PlanTyped
  <1>12. Room'
    <2>1. \E l \in DOMAIN plan' : plan'[l].freeSlots = 0
      BY <1>1, <1>4, <1>9
    <2> QED BY <1>5, <2>1 DEF Room
  <1>13. Parts'
    <2>1. \A l \in DOMAIN plan' : \A i \in 2..Len(asks') : asks'[i] \notin DOMAIN plan'[l].jobNumWorkers
      BY <1>4, <1>5, <1>7
    <2>2. \A l \in DOMAIN plan' : Head(asks') \in DOMAIN plan'[l].jobNumWorkers => plan'[l].freeSlots = 0
      <3> SUFFICES ASSUME NEW l \in DOMAIN plan, j \in DOMAIN plan'[l].jobNumWorkers
                   PROVE  plan'[l].freeSlots = 0
        BY <1>4, <1>7
      <3>1. CASE l = k
        BY <1>9, <3>1
      <3>2. CASE l # k
        BY <1>2, <1>4, <3>2 DEF Parts
      <3> QED BY <3>1, <3>2
    <2>3. Head(asks') \in DOMAIN plan'[k].jobNumWorkers /\ k \in DOMAIN plan'
      BY <1>1, <1>4, <1>7
    <2> QED BY <2>1, <2>2, <2>3 DEF Parts
  <1>14. Booked'
    <2>1. CASE w = 0
      <3>1. \A l \in DOMAIN plan' : plan'[l].freeSlots <= 0
        <4> SUFFICES ASSUME NEW l \in DOMAIN plan PROVE plan'[l].freeSlots <= 0
          BY <1>4
        <4>1. CASE l = k
          BY <1>9, <4>1
        <4>2. CASE l # k
          BY <1>1, <1>4, <2>1, <4>2
        <4> QED BY <4>1, <4>2
      <3>2. slots' # 0
        BY <1>4, <1>10, <2>1
      <3> QED BY <1>7, <3>1, <3>2 DEF Booked, Stuck
    <2>2. CASE w # 0
      <3>1. ~Stuck
        BY <1>1, <1>3, <2>2 DEF Stuck
      <3>2. j \notin DOMAIN plan[k].jobNumWorkers
        BY <1>1, <1>2, <1>3, <2>2 DEF Parts
      <3> QED BY <1>5, <3>1, <3>2 DEF Booked
    <2> QED BY <2>1, <2>2
  <1>15. Fit'
    <2>1. Whole' => \A l \in DOMAIN plan' : plan'[l].freeSlots >= 0
      <3> SUFFICES ASSUME Whole', NEW l \in DOMAIN plan PROVE plan'[l].freeSlots >= 0
        BY <1>4
      <3>1. plan[l].freeSlots >= 0
        BY <1>2, <1>6 DEF Fit
      <3> QED BY <1>4, <1>9, <3>1
    <2>2. Whole' /\ changes' = 0 => slots' >= Open'
      <3> SUFFICES ASSUME Whole', changes' = 0 PROVE slots' >= Open'
        OBVIOUS
      <3> DEFINE s == SumOver(jobRequests, Range(asks))
      <3>1. slots >= Open
        BY <1>2, <1>6, <1>8 DEF Fit
      <3>2. Open = s - (r - requested)
        BY DEF Open
      <3>3. Open' = s - (r - requested')
        BY <1>7, <1>8 DEF Open
      <3>4. s \in Int
        <4>1. IsFiniteSet(Range(asks)) /\ \A x \in Range(asks) : jobRequests[x] \in Int
          <5>1. /\ IsFiniteSet(DOMAIN jobRequests) /\ \A x \in DOMAIN jobRequests : jobRequests[x] \in Nat
                /\ Range(asks) \subseteq Asking /\ Asking \subseteq DOMAIN jobRequests
            BY Filling
          <5> QED BY <5>1, FS_Subset
        <4> QED BY <4>1, SumInt
      <3> HIDE DEF s, r
      <3> QED BY <1>1, <1>4, <1>7, <1>10, <3>1, <3>2, <3>3, <3>4
    <2>3. ASSUME NEW x \in Asking, x \notin Range(asks)
          PROVE  \E l \in DOMAIN plan : /\ x \in DOMAIN plan'[l].jobNumWorkers
                                        /\ plan'[l].jobNumWorkers[x] = jobRequests[x]
      <3>1. PICK l \in DOMAIN plan : /\ x \in DOMAIN plan[l].jobNumWorkers
                                     /\ plan[l].jobNumWorkers[x] = jobRequests[x]
        BY <1>2, <2>3 DEF Fit
      <3>2. x # j
        BY <1>10, <2>3
      <3>3. CASE l = k
        BY <1>4, <3>1, <3>2, <3>3
      <3>4. CASE l # k
        BY <1>4, <3>1, <3>4
      <3> QED BY <3>3, <3>4
    <2>4. \A x \in Asking' : x \notin Range(asks)' =>
             \E l \in DOMAIN plan' : x \in DOMAIN plan'[l].jobNumWorkers
                                     /\ plan'[l].jobNumWorkers[x] = jobRequests'[x]
      BY <1>4, <1>7, <1>8, <2>3
    <2> QED BY <2>1, <2>2, <2>4 DEF Fit
  <1> QED BY <1>6, <1>11, <1>12, <1>13, <1>14, <1>15 DEF PlanInv

LEMMA BestFitInv == ASSUME PlaceInv, BestFit PROVE PlaceInv'
  <1>1. pc = "fit" /\ asks # <<>> /\ slots # 0 /\ Iterates /\ pc' = pc
    BY DEF BestFit, SlotsLeft, Iterates, tables
  <1>2. PlanInv'
    <2>1. CASE Fits # {} /\ Bind(BestIdx, jobRequests[Head(asks)])
      BY <1>1, <2>1, BestFitKeeps
    <2>2. CASE Fits = {} /\ Bind(MaxIdx, plan[MaxIdx].freeSlots)
      BY <1>1, <2>2, MaxFitKeeps
    <2> QED BY <2>1, <2>2 DEF BestFit
  <1>3. PlanTyped'
    BY <1>1, <1>2 DEF PlanInv
  <1>4. slots' \in Int
    <2>1. slots \in Int
      BY DEF PlaceInv, TypeInv, TypeOK
    <2>2. jobRequests[Head(asks)] \in Int /\ plan[MaxIdx].freeSlots \in Int
      BY <1>1, NodeChosen
    <2>3. slots' = slots - jobRequests[Head(asks)] \/ slots' = slots - plan[MaxIdx].freeSlots
      BY DEF BestFit, Bind
    <2> QED BY <2>1, <2>2, <2>3
  <1>5. \A k \in DOMAIN plan' : IsNodeState(plan'[k])
    BY <1>3 DEF PlanTyped, IsNode
  <1>6. asks' \in Seq(Jobs) /\ requested' \in Nat
    <2>1. Asking' = Asking /\ Asking \subseteq Jobs
      BY <1>1, Filling DEF Iterates, Asking
    <2>2. asks' \in Seq(Asking')
      BY <1>3 DEF PlanTyped
    <2>3. asks' \in Seq(Jobs)
      BY <2>1, <2>2
    <2> QED BY <1>3, <2>3 DEF PlanTyped
  <1>7. TypeInv'
    <2>1. TypeInv /\ UNCHANGED <<tables, pc, doomed, jobRequests, world, pods, added, restarts, strays>>
      BY DEF PlaceInv, BestFit
    <2>2. /\ nodeStates' = nodeStates /\ jobStates' = jobStates /\ podNodeName' = podNodeName
          /\ pc' = pc /\ doomed' = doomed /\ jobRequests' = jobRequests /\ cluster' = cluster
          /\ nodeEvents' = nodeEvents /\ changes' = changes /\ pods' = pods /\ added' = added
          /\ restarts' = restarts /\ strays' = strays
      BY <2>1 DEF tables, world
    <2>3. TypeOK'
      BY <1>4, <1>5, <1>6, <2>1, <2>2 DEF TypeInv, TypeOK
    <2> QED BY <2>1, <2>2, <2>3 DEF TypeInv
  <1> QED BY <1>2, <1>7 DEF PlaceInv

(***************************************************************************)
(* Place, before the loop.                                                 *)
(***************************************************************************)

\* Sums over nodes that a list names once are sums over the list.
LEMMA SumAlong ==
    ASSUME NEW f, NEW g, NEW S, IsFiniteSet(S), NEW o \in Orders(S),
           DOMAIN f = S, DOMAIN g = DOMAIN o,
           \A k \in DOMAIN o : g[k] = f[o[k]],
           \A x \in S : f[x] \in Int
    PROVE  SumOf(g) = SumOf(f)
  <1>1. /\ DOMAIN o = 1..Cardinality(S) /\ Cardinality(S) \in Nat
        /\ \A x \in S : \E i \in 1..Cardinality(S) : o[i] = x
        /\ \A i, k \in 1..Cardinality(S) : i # k => o[i] # o[k]
        /\ \A i \in 1..Cardinality(S) : o[i] \in S
    BY ONLY IsFiniteSet(S), o \in Orders(S), OrderLists
  <1> DEFINE D == DOMAIN o
  <1>2. IsFiniteSet(D)
    BY <1>1, FS_Interval
  <1>3. Renames(o, D, S)
    BY <1>1 DEF Renames
  <1>4. \A k \in D : f[o[k]] \in Int /\ g[k] = f[o[k]]
    BY <1>1
  <1>5. SumOver(g, D) = SumOver(f, S)
    <2> HIDE DEF D
    <2> QED BY ONLY <1>2, <1>3, <1>4, SumThrough
  <1> QED BY <1>5 DEF SumOf

\* What is asked for is at most what the scheduler knows to be there.
LEMMA AskedForFits ==
    ASSUME PlaceInv, NEW a \in RequestOrders
    PROVE  /\ a \in Seq(Asking) /\ a \in Seq(Jobs) /\ Range(a) = Asking
           /\ \A i, k \in 1..Len(a) : i # k => a[i] # a[k]
           /\ SumOver(jobRequests, Range(a)) <= SumOf(Gpus)
           /\ SumOver(jobRequests, Range(a)) \in Int /\ SumOf(Gpus) \in Int
           /\ a # <<>> => Head(a) \in Asking /\ jobRequests[Head(a)] \in Nat /\ jobRequests[Head(a)] >= 1
  <1>1. /\ DOMAIN jobRequests \subseteq Jobs /\ \A j \in DOMAIN jobRequests : jobRequests[j] \in Nat
        /\ Asking \subseteq DOMAIN jobRequests /\ \A j \in Asking : jobRequests[j] >= 1
    BY DEF PlaceInv, TypeInv, TypeOK, IsMap, Asking
  <1>2. IsFiniteSet(DOMAIN jobRequests) /\ IsFiniteSet(Asking)
    BY <1>1, SetsAssumption, FS_Subset
  <1>3. a \in Orders(Asking)
    BY DEF RequestOrders, Asking
  <1>4. /\ a \in Seq(Asking) /\ Len(a) = Cardinality(Asking) /\ DOMAIN a = 1..Cardinality(Asking)
        /\ \A i, k \in 1..Cardinality(Asking) : i # k => a[i] # a[k]
        /\ { a[i] : i \in 1..Cardinality(Asking) } = Asking
    <2> DEFINE S == Asking
    <2>1. IsFiniteSet(S) /\ a \in Orders(S)
      BY <1>2, <1>3
    <2> HIDE DEF S
    <2>2. /\ a \in Seq(S) /\ Len(a) = Cardinality(S) /\ DOMAIN a = 1..Cardinality(S)
          /\ \A i, k \in 1..Cardinality(S) : i # k => a[i] # a[k]
          /\ { a[i] : i \in 1..Cardinality(S) } = S
      BY <2>1, OrderLists
    <2> QED BY <2>2 DEF S
  <1>5. Range(a) = Asking
    BY <1>4 DEF Range
  <1>6. a \in Seq(Jobs)
    BY <1>1, <1>4
  <1>7. SumOver(jobRequests, Asking) <= SumOf(jobRequests) /\ SumOver(jobRequests, Asking) \in Int
        /\ SumOf(jobRequests) \in Int
    <2> DEFINE D == DOMAIN jobRequests
    <2>1. /\ IsFiniteSet(D) /\ \A j \in D : jobRequests[j] \in Nat /\ jobRequests[j] \in Int
          /\ Asking \in SUBSET D
      BY <1>1, <1>2
    <2>2. \A j \in Asking : jobRequests[j] \in Int
      BY <2>1
    <2>3. SumOver(jobRequests, Asking) <= SumOver(jobRequests, D)
      <3> HIDE DEF D
      <3> QED BY <2>1, SumSubset
    <2>4. SumOver(jobRequests, D) \in Int /\ SumOver(jobRequests, Asking) \in Int
      <3> HIDE DEF D
      <3> QED BY <1>2, <2>1, <2>2, SumInt
    <2> QED BY <2>3, <2>4 DEF SumOf
  <1>8. SumOf(jobRequests) <= SumOf(Gpus)
    BY DEF PlaceInv, PlanInv, Known
  <1>9. SumOf(Gpus) \in Int
    <2>1. DOMAIN Gpus = Nodes /\ \A n \in Nodes : Gpus[n] \in Int
      BY GpusAssumption
    <2> QED BY <2>1, SetsAssumption, SumInt DEF SumOf
  <1>10. SumOver(jobRequests, Range(a)) <= SumOf(Gpus)
    BY <1>5, <1>7, <1>8, <1>9
  <1>11. a # <<>> => Head(a) \in Asking
    BY <1>4, HeadTailProperties
  <1> QED BY <1>1, <1>4, <1>5, <1>6, <1>7, <1>9, <1>10, <1>11

\* A node of the new list is empty.
LEMMA NewNodeIsEmpty ==
    ASSUME NEW g \in Nat
    PROVE  /\ IsNode(NewNodeState(g)) /\ IsMap(NewNodeState(g).jobNumWorkers, Jobs, Nat)
           /\ NewNodeState(g).totalSlots = g /\ NewNodeState(g).freeSlots = g
           /\ DOMAIN NewNodeState(g).jobNumWorkers = {}
           /\ SumOf(NewNodeState(g).jobNumWorkers) = 0
  <1> DEFINE s == NewNodeState(g)
  <1>1. s = [totalSlots |-> g, freeSlots |-> g, jobNumWorkers |-> EmptyMap]
    BY DEF NewNodeState
  <1>2. /\ IsMap(EmptyMap, Jobs, Nat) /\ IsMap(EmptyMap, Jobs, Int) /\ DOMAIN EmptyMap = {}
    BY DEF IsMap, EmptyMap
  <1>3. SumOf(EmptyMap) = 0
    BY <1>2, SumEmpty DEF SumOf
  <1> HIDE DEF s
  <1>4. s.totalSlots = g /\ s.freeSlots = g /\ s.jobNumWorkers = EmptyMap
    BY <1>1
  <1>5. IsNode(s)
    BY <1>1, <1>2, <1>4 DEF IsNode, IsNodeState
  <1> QED BY <1>2, <1>3, <1>4, <1>5 DEF s

LEMMA PlaceInvHolds == ASSUME PlaceInv, Place PROVE PlaceInv'
  <1>1. TypeInv /\ TypeOK /\ Known
    BY DEF PlaceInv, PlanInv, TypeInv
  <1>2. /\ jobStates' = jobStates /\ podNodeName' = podNodeName /\ doomed' = doomed
        /\ jobRequests' = jobRequests /\ cluster' = cluster /\ nodeEvents' = nodeEvents
        /\ changes' = changes /\ pods' = pods /\ added' = added /\ restarts' = restarts
        /\ strays' = strays
    BY DEF Place, world
  <1>3. CASE pc' = "panicked" /\ UNCHANGED <<nodeStates, fitting>>
    <2>1. nodeStates' = nodeStates /\ plan' = plan /\ asks' = asks /\ requested' = requested /\ slots' = slots
      BY <1>3 DEF fitting
    <2>2. TypeOK'
      BY <1>1, <1>2, <1>3, <2>1 DEF TypeOK
    <2>3. TypeInv'
      BY <1>1, <1>2, <2>1, <2>2 DEF TypeInv
    <2>4. SumOf(jobRequests)' = SumOf(jobRequests) /\ SumOf(Gpus)' = SumOf(Gpus)
          /\ Totals(nodeStates)' = Totals(nodeStates)
      BY <1>2, <2>1 DEF SumOf, Totals
    <2>5. Known'
      BY <1>1, <1>2, <1>3, <2>1, <2>4 DEF Known
    <2> QED BY <1>3, <2>3, <2>5 DEF PlaceInv, PlanInv
  <1>4. CASE ~(pc' = "panicked" /\ UNCHANGED <<nodeStates, fitting>>)
    <2>1. /\ pc' = "fit"
          /\ nodeStates' = [n \in DOMAIN nodeStates |->
                               [nodeStates[n] EXCEPT !.jobNumWorkers = Released(n)]]
          /\ \E o \in Orders(DOMAIN nodeStates), a \in RequestOrders :
                /\ plan' = [k \in DOMAIN o |-> NewNodeState(nodeStates[o[k]].totalSlots)]
                /\ asks' = a
                /\ requested' = IF a = <<>> THEN 0 ELSE jobRequests[Head(a)]
          /\ slots' = ClusterSlots
      BY <1>4 DEF Place
    <2>2. PICK o \in Orders(DOMAIN nodeStates), a \in RequestOrders :
                /\ plan' = [k \in DOMAIN o |-> NewNodeState(nodeStates[o[k]].totalSlots)]
                /\ asks' = a
                /\ requested' = IF a = <<>> THEN 0 ELSE jobRequests[Head(a)]
      BY <2>1
    <2> DEFINE D == DOMAIN nodeStates
               total == [n \in D |-> nodeStates[n].totalSlots]
    <2>3. IsFiniteSet(D) /\ \A n \in D : nodeStates[n].totalSlots \in Nat /\ IsNode(nodeStates[n])
      BY <1>1, SetsAssumption, FS_Subset DEF TypeOK, IsNodeState, TypeInv
    <2>4. DOMAIN o = 1..Cardinality(D) /\ \A k \in DOMAIN o : o[k] \in D
      BY ONLY <2>3, o \in Orders(D), OrderLists
    <2>5. /\ DOMAIN plan' = DOMAIN o /\ plan' = [k \in DOMAIN plan' |-> plan'[k]]
          /\ \A k \in DOMAIN o : plan'[k] = NewNodeState(nodeStates[o[k]].totalSlots)
      BY <2>2
    <2>6. \A k \in DOMAIN o :
            /\ IsNode(plan'[k]) /\ IsMap(plan'[k].jobNumWorkers, Jobs, Nat)
            /\ plan'[k].totalSlots = total[o[k]] /\ plan'[k].freeSlots = total[o[k]]
            /\ total[o[k]] \in Nat
            /\ DOMAIN plan'[k].jobNumWorkers = {}
            /\ SumOf(plan'[k].jobNumWorkers) = 0
      <3> SUFFICES ASSUME NEW k \in DOMAIN o
                   PROVE  /\ IsNode(plan'[k]) /\ IsMap(plan'[k].jobNumWorkers, Jobs, Nat)
                          /\ plan'[k].totalSlots = total[o[k]] /\ plan'[k].freeSlots = total[o[k]]
                          /\ total[o[k]] \in Nat
                          /\ DOMAIN plan'[k].jobNumWorkers = {}
                          /\ SumOf(plan'[k].jobNumWorkers) = 0
        OBVIOUS
      <3>1. o[k] \in D /\ nodeStates[o[k]].totalSlots \in Nat /\ total[o[k]] = nodeStates[o[k]].totalSlots
        BY <2>3, <2>4
      <3> DEFINE g == nodeStates[o[k]].totalSlots
      <3>2. g \in Nat /\ plan'[k] = NewNodeState(g) /\ total[o[k]] = g
        BY <2>5, <3>1
      <3> HIDE DEF g, total
      <3> QED BY <3>2, NewNodeIsEmpty
    <2>7. /\ a \in Seq(Asking) /\ a \in Seq(Jobs) /\ Range(a) = Asking
          /\ \A i, k \in 1..Len(a) : i # k => a[i] # a[k]
          /\ SumOver(jobRequests, Range(a)) <= SumOf(Gpus)
          /\ SumOver(jobRequests, Range(a)) \in Int /\ SumOf(Gpus) \in Int
          /\ a # <<>> => Head(a) \in Asking /\ jobRequests[Head(a)] \in Nat /\ jobRequests[Head(a)] >= 1
      BY AskedForFits
    <2>8. Asking' = Asking
      BY <1>2 DEF Asking
    <2>9. DOMAIN total = D /\ \A n \in D : total[n] \in Int /\ total[n] = nodeStates[n].totalSlots
      BY <2>3
    <2>10. SumOf(total) = SumOf(Free)' /\ SumOf(total) = Totals(plan)' /\ slots' = SumOf(total)
           /\ SumOf(total) = Totals(nodeStates)
      <3> DEFINE f == [k \in DOMAIN plan' |-> plan'[k].freeSlots]
                 g == [k \in DOMAIN plan' |-> plan'[k].totalSlots]
      <3>1. /\ DOMAIN f = DOMAIN o /\ DOMAIN g = DOMAIN o
            /\ \A k \in DOMAIN o : f[k] = total[o[k]]
            /\ \A k \in DOMAIN o : g[k] = total[o[k]]
        BY <2>5, <2>6
      <3>2. \A x \in D : total[x] \in Int
        BY <2>9
      <3>3. DOMAIN total = D
        BY <2>9
      <3>4. SumOf(f) = SumOf(total) /\ SumOf(g) = SumOf(total)
        <4>1. o \in Orders(D)
          OBVIOUS
        <4> HIDE DEF f, g, total, D
        <4> QED BY <2>3, <3>1, <3>2, <3>3, <4>1, SumAlong
      <3>5. SumOf(Free)' = SumOf(f) /\ Totals(plan)' = SumOf(g)
        BY DEF Free, Totals
      <3>6. slots' = SumOf(total) /\ Totals(nodeStates) = SumOf(total)
        BY <2>1 DEF ClusterSlots, Totals
      <3> HIDE DEF f, g, total
      <3> QED BY <3>4, <3>5, <3>6
    <2>11. /\ DOMAIN nodeStates' = D
           /\ \A n \in D : /\ nodeStates'[n].totalSlots = nodeStates[n].totalSlots
                           /\ IsNode(nodeStates'[n])
      <3>1. DOMAIN nodeStates' = D /\ \A n \in D : nodeStates'[n] = [nodeStates[n] EXCEPT !.jobNumWorkers = Released(n)]
        BY <2>1
      <3>2. ASSUME NEW n \in D
            PROVE  nodeStates'[n].totalSlots = nodeStates[n].totalSlots /\ IsNode(nodeStates'[n])
        <4>1. nodeStates[n] = [totalSlots |-> nodeStates[n].totalSlots, freeSlots |-> nodeStates[n].freeSlots,
                               jobNumWorkers |-> nodeStates[n].jobNumWorkers]
              /\ nodeStates[n].totalSlots \in Nat /\ nodeStates[n].freeSlots \in Int
          BY <2>3 DEF IsNode, IsNodeState
        <4>2. nodeStates'[n] = [totalSlots |-> nodeStates[n].totalSlots, freeSlots |-> nodeStates[n].freeSlots,
                                jobNumWorkers |-> Released(n)]
          BY <3>1, <4>1
        <4>3. IsMap(Released(n), Jobs, Int)
          BY <1>1, ReleasedTyped
        <4>4. /\ nodeStates'[n].totalSlots = nodeStates[n].totalSlots
              /\ nodeStates'[n].freeSlots = nodeStates[n].freeSlots
              /\ nodeStates'[n].jobNumWorkers = Released(n)
          BY <4>2
        <4> QED BY <4>1, <4>2, <4>3, <4>4 DEF IsNode, IsNodeState
      <3> QED BY <3>1, <3>2
    <2>12. SumOf(total) \in Int
      <3> HIDE DEF total, D
      <3> QED BY <2>3, <2>9, SumInt DEF SumOf
    <2>13. TypeInv'
      <3>1. asks' \in Seq(Jobs) /\ requested' \in Nat /\ slots' \in Int
        BY <2>2, <2>7, <2>10, <2>12
      <3>2. \A k \in DOMAIN plan' : IsNodeState(plan'[k])
        BY <2>5, <2>6 DEF IsNode
      <3>3. DOMAIN nodeStates' \subseteq Nodes /\ \A n \in DOMAIN nodeStates' : IsNodeState(nodeStates'[n])
        BY <1>1, <2>11 DEF TypeOK, IsNode
      <3>4. TypeOK'
        BY <1>1, <1>2, <2>1, <3>1, <3>2, <3>3 DEF TypeOK
      <3> QED BY <1>1, <1>2, <2>11, <3>4 DEF TypeInv
    <2>14. Known'
      <3>1. SumOf(jobRequests)' = SumOf(jobRequests) /\ SumOf(Gpus)' = SumOf(Gpus)
        BY <1>2 DEF SumOf
      <3>2. Totals(nodeStates)' = Totals(nodeStates)
        <4> DEFINE g == [n \in DOMAIN nodeStates' |-> nodeStates'[n].totalSlots]
        <4>1. g = total
          BY <2>11
        <4>2. Totals(nodeStates)' = SumOf(g) /\ Totals(nodeStates) = SumOf(total)
          BY DEF Totals
        <4> HIDE DEF g, total
        <4> QED BY <4>1, <4>2
      <3> QED BY <1>1, <1>2, <2>10, <2>11, <3>1, <3>2 DEF Known
    <2>15. PlanTyped'
      <3>1. asks' # <<>> => requested' >= 1 /\ requested' <= jobRequests'[Head(asks')]
        BY <1>2, <2>2, <2>7
      <3>2. asks' \in Seq(Asking') /\ requested' \in Nat
            /\ \A i, k \in 1..Len(asks') : i # k => asks'[i] # asks'[k]
        BY <2>2, <2>7, <2>8
      <3>3. DOMAIN plan' = 1..Cardinality(DOMAIN nodeStates')
        BY <2>4, <2>5, <2>11
      <3> HIDE DEF total
      <3> QED BY <2>5, <2>6, <3>1, <3>2, <3>3 DEF PlanTyped
    <2>16. Room'
      <3>1. \A k \in DOMAIN plan' : plan'[k].freeSlots >= 0
        <4> HIDE DEF total
        <4> QED BY <2>5, <2>6
      <3> QED BY <2>10, <3>1 DEF Room
    <2>17. Parts'
      <3>1. asks' # <<>> => requested' = jobRequests'[Head(asks')]
        BY <1>2, <2>2
      <3>2. \A k \in DOMAIN plan' : DOMAIN plan'[k].jobNumWorkers = {}
        BY <2>5, <2>6
      <3> QED BY <3>1, <3>2 DEF Parts
    <2>18. Booked'
      <3>1. \A k \in DOMAIN plan' : plan'[k].freeSlots = plan'[k].totalSlots - SumOf(plan'[k].jobNumWorkers)
        <4> HIDE DEF total
        <4> QED BY <2>5, <2>6
      <3> QED BY <3>1 DEF Booked
    <2>19. Fit'
      <3>1. \A k \in DOMAIN plan' : plan'[k].freeSlots >= 0
        <4> HIDE DEF total
        <4> QED BY <2>5, <2>6
      <3>2. changes' = 0 => slots' >= Open'
        <4>1. Open' = SumOver(jobRequests, Range(a))
                      - (IF a = <<>> THEN 0 ELSE jobRequests[Head(a)] - jobRequests[Head(a)])
          BY <1>2, <2>2 DEF Open
        <4>2. (IF a = <<>> THEN 0 ELSE jobRequests[Head(a)] - jobRequests[Head(a)]) = 0
          BY <2>7
        <4>3. changes' = 0 => slots' = SumOf(Gpus)
          BY <1>1, <1>2, <2>10 DEF Known
        <4> HIDE DEF total
        <4> QED BY <2>7, <4>1, <4>2, <4>3
      <3>3. \A x \in Asking' : x \in Range(asks)'
        BY <2>2, <2>7, <2>8
      <3> QED BY <3>1, <3>2, <3>3 DEF Fit
    <2> QED BY <2>13, <2>14, <2>15, <2>16, <2>17, <2>18, <2>19 DEF PlaceInv, PlanInv
  <1> QED BY <1>3, <1>4

(***************************************************************************)
(* bindNodes, updateJobStates and updatePodNodeName.                       *)
(***************************************************************************)

\* The node b[k] becomes what the place k of the plan is.
Binds(b) ==
    /\ b \in Orders(DOMAIN nodeStates) /\ DOMAIN b = DOMAIN plan
    /\ DOMAIN nodeStates' = DOMAIN nodeStates
    /\ nodeStates' = [n \in DOMAIN nodeStates |-> nodeStates'[n]]
    /\ \A k \in DOMAIN plan : b[k] \in DOMAIN nodeStates /\ nodeStates'[b[k]] = plan[k]
    /\ \A n \in DOMAIN nodeStates : \E k \in DOMAIN plan : b[k] = n
    /\ \A k, l \in DOMAIN plan : b[k] = b[l] => k = l

LEMMA BindsNodes == ASSUME PlaceInv, BindNodes PROVE \E b : Binds(b)
  <1>1. pc = "fit"
    BY DEF BindNodes
  <1>2. PICK b \in Bindings :
           nodeStates' = [n \in DOMAIN nodeStates |-> plan[CHOOSE k \in DOMAIN b : b[k] = n]]
    BY DEF BindNodes
  <1> DEFINE D == DOMAIN nodeStates
  <1>3. b \in Orders(D)
    BY DEF Bindings
  <1>4. IsFiniteSet(D) /\ DOMAIN plan = 1..Cardinality(D)
    BY <1>1, Filling DEF PlaceInv, PlanInv, PlanTyped
  <1>5. /\ DOMAIN b = 1..Cardinality(D)
        /\ \A x \in D : \E i \in 1..Cardinality(D) : b[i] = x
        /\ \A i, k \in 1..Cardinality(D) : i # k => b[i] # b[k]
        /\ \A i \in 1..Cardinality(D) : b[i] \in D
    BY ONLY <1>3, <1>4, OrderLists
  <1>6. \A k, l \in DOMAIN b : b[k] = b[l] => k = l
    BY <1>5
  <1>7. ASSUME NEW k \in DOMAIN b PROVE nodeStates'[b[k]] = plan[k]
    <2>1. (CHOOSE l \in DOMAIN b : b[l] = b[k]) = k
      BY <1>6
    <2>2. b[k] \in D
      BY <1>5
    <2> QED BY <1>2, <2>1, <2>2
  <1>8. DOMAIN nodeStates' = D /\ nodeStates' = [n \in D |-> nodeStates'[n]]
    BY <1>2
  <1>9. Binds(b)
    BY <1>3, <1>4, <1>5, <1>6, <1>7, <1>8 DEF Binds
  <1> QED BY <1>9

\* Two of a set that has at most one.
LEMMA AtMostOne ==
    ASSUME NEW S, IsFiniteSet(S), ~(Cardinality(S) > 1), NEW m \in S, NEW n \in S
    PROVE  m = n
  <1> SUFFICES ASSUME m # n PROVE FALSE
    OBVIOUS
  <1>1. IsFiniteSet({m}) /\ Cardinality({m}) = 1
    BY FS_Singleton
  <1>2. Cardinality({m} \cup {n}) = 2
    <2>1. Cardinality({m} \cup {n}) = Cardinality({m}) + 1
      BY <1>1, FS_AddElement
    <2> QED BY <1>1, <2>1
  <1>3. Cardinality({m} \cup {n}) <= Cardinality(S) /\ Cardinality(S) \in Nat
    BY FS_Subset, FS_CardinalityType
  <1> QED BY <1>2, <1>3

\* A job that is not split on the nodes is not split in the plan.
LEMMA BindNodesWhole ==
    ASSUME PlaceInv, BindNodes, NEW b, Binds(b), NoneSplit'
    PROVE  Whole
  <1>1. IsFiniteSet(DOMAIN nodeStates) /\ DOMAIN nodeStates' = DOMAIN nodeStates
    BY Filling DEF BindNodes, Binds
  <1> SUFFICES ASSUME NEW k \in DOMAIN plan, NEW l \in DOMAIN plan, NEW j \in Jobs,
                      j \in DOMAIN plan[k].jobNumWorkers, j \in DOMAIN plan[l].jobNumWorkers
               PROVE  k = l
    BY DEF Whole
  <1>2. b[k] \in NodesOf(nodeStates', j) /\ b[l] \in NodesOf(nodeStates', j)
    BY DEF Binds, NodesOf
  <1> DEFINE S == NodesOf(nodeStates', j)
  <1>3. b[k] = b[l]
    <2>1. ~(Cardinality(S) > 1)
      BY DEF NoneSplit, Split
    <2>2. IsFiniteSet(S)
      BY <1>1, FS_Subset DEF NodesOf
    <2> HIDE DEF S
    <2>3. b[k] \in S /\ b[l] \in S
      BY <1>2 DEF S
    <2> QED BY <2>1, <2>2, <2>3, AtMostOne
  <1> QED BY <1>3 DEF Binds

\* The tables agree with the nodes, and the nodes with the plan.
LEMMA BindNodesTables ==
    ASSUME PlaceInv, BindNodes, NEW b, Binds(b)
    PROVE  /\ Reflects(nodeStates', jobStates')
           /\ IsMap(podNodeName', Pod, Nodes)
           /\ \A n \in DOMAIN nodeStates' : IsNode(nodeStates'[n]) /\ IsMap(nodeStates'[n].jobNumWorkers, Jobs, Nat)
           /\ DOMAIN nodeStates' \subseteq Nodes /\ IsFiniteSet(DOMAIN nodeStates')
           /\ Totals(nodeStates)' = Totals(plan)
  <1>1. /\ pc = "fit"
        /\ \E o \in Orders(DOMAIN nodeStates) : jobStates' = JobStates(nodeStates', o)
        /\ podNodeName' = PodTable(jobStates')
    BY DEF BindNodes
  <1>2. /\ IsFiniteSet(DOMAIN nodeStates) /\ DOMAIN nodeStates \subseteq Nodes
        /\ \A k \in DOMAIN plan : /\ IsNode(plan[k]) /\ IsMap(plan[k].jobNumWorkers, Jobs, Nat)
                                  /\ plan[k].totalSlots \in Nat
    BY <1>1, Filling DEF PlaceInv, TypeInv, TypeOK
  <1>3. /\ b \in Orders(DOMAIN nodeStates) /\ DOMAIN b = DOMAIN plan
        /\ DOMAIN nodeStates' = DOMAIN nodeStates
        /\ \A k \in DOMAIN plan : b[k] \in DOMAIN nodeStates /\ nodeStates'[b[k]] = plan[k]
        /\ \A n \in DOMAIN nodeStates : \E k \in DOMAIN plan : b[k] = n
    BY DEF Binds
  <1>4. ASSUME NEW n \in DOMAIN nodeStates
        PROVE  IsNode(nodeStates'[n]) /\ IsMap(nodeStates'[n].jobNumWorkers, Jobs, Nat)
               /\ nodeStates'[n].totalSlots \in Nat
    <2>1. PICK k \in DOMAIN plan : b[k] = n
      BY <1>3
    <2>2. nodeStates'[n] = plan[k]
      BY <1>3, <2>1
    <2> QED BY <1>2, <2>2
  <1>5. Reflects(nodeStates', jobStates')
    <2>1. IsPlaced(nodeStates')
      BY <1>2, <1>3, <1>4 DEF IsPlaced
    <2>2. PICK o \in Orders(DOMAIN nodeStates') : jobStates' = JobStates(nodeStates', o)
      BY <1>1, <1>3
    <2> QED BY <2>1, <2>2, JobStatesReflect
  <1>6. IsMap(podNodeName', Pod, Nodes)
    BY <1>1, <1>5, PodTableTyped
  <1>7. Totals(nodeStates)' = Totals(plan)
    <2> DEFINE D == DOMAIN nodeStates
               f == [n \in DOMAIN nodeStates' |-> nodeStates'[n].totalSlots]
               g == [k \in DOMAIN plan |-> plan[k].totalSlots]
    <2>1. /\ DOMAIN f = D /\ DOMAIN g = DOMAIN b /\ \A k \in DOMAIN b : g[k] = f[b[k]]
          /\ \A x \in D : f[x] \in Int
      BY <1>3, <1>4
    <2>2. IsFiniteSet(D) /\ b \in Orders(D)
      BY <1>2, <1>3
    <2>3. SumOf(g) = SumOf(f)
      <3> HIDE DEF f, g, D
      <3> QED BY <2>1, <2>2, SumAlong
    <2>4. Totals(nodeStates)' = SumOf(f) /\ Totals(plan) = SumOf(g)
      BY DEF Totals
    <2> HIDE DEF f, g
    <2> QED BY <2>3, <2>4
  <1> QED BY <1>2, <1>3, <1>4, <1>5, <1>6, <1>7

LEMMA BindNodesInv == ASSUME PlaceInv, BindNodes PROVE PlaceInv' /\ Perspectives' /\ Sums'
  <1>1. PICK b : Binds(b)
    BY BindsNodes
  <1>2. /\ Reflects(nodeStates', jobStates')
        /\ IsMap(podNodeName', Pod, Nodes)
        /\ \A n \in DOMAIN nodeStates' : IsNode(nodeStates'[n]) /\ IsMap(nodeStates'[n].jobNumWorkers, Jobs, Nat)
        /\ DOMAIN nodeStates' \subseteq Nodes
        /\ Totals(nodeStates)' = Totals(plan)
    BY <1>1, BindNodesTables
  <1>3. /\ pc = "fit" /\ pc' = "deleting" /\ plan' = <<>> /\ asks' = <<>> /\ requested' = 0 /\ slots' = 0
        /\ doomed' = Moved(podNodeName')
        /\ strays' = strays \cup { p \in DOMAIN pods \ DOMAIN podNodeName' : p \notin added \/ pods[p] # <<>> }
        /\ jobRequests' = jobRequests /\ cluster' = cluster /\ nodeEvents' = nodeEvents
        /\ changes' = changes /\ pods' = pods /\ added' = added /\ restarts' = restarts
        /\ asks = <<>> \/ slots = 0
    BY DEF BindNodes, world, SlotsLeft
  <1>4. TypeInv /\ TypeOK /\ Known /\ Booked
    BY <1>3 DEF PlaceInv, PlanInv, TypeInv
  <1>5. /\ DOMAIN jobStates' \subseteq Jobs /\ jobStates' = [j \in DOMAIN jobStates' |-> jobStates'[j]]
        /\ \A j \in DOMAIN jobStates' : IsJob(jobStates'[j])
    BY <1>2, ReflectsTypes
  <1>6. TypeInv'
    <2>1. doomed' \subseteq Pod /\ strays' \subseteq Pod
      BY <1>2, <1>3, <1>4 DEF Moved, TypeOK, IsMap
    <2>2. /\ \A k \in DOMAIN plan' : IsNodeState(plan'[k])
          /\ asks' \in Seq(Jobs) /\ requested' \in Nat /\ slots' \in Int
      BY <1>3
    <2>3. \A n \in DOMAIN nodeStates' : IsNodeState(nodeStates'[n])
      BY <1>2 DEF IsNode
    <2>4. \A j \in DOMAIN jobStates' : IsJobState(jobStates'[j])
      BY <1>5 DEF IsJob
    <2>5. TypeOK'
      BY <1>2, <1>3, <1>4, <1>5, <2>1, <2>2, <2>3, <2>4 DEF TypeOK
    <2> QED BY <1>2, <1>3, <1>4, <1>5, <2>5 DEF TypeInv
  <1>7. Known'
    <2>1. SumOf(jobRequests)' = SumOf(jobRequests) /\ SumOf(Gpus)' = SumOf(Gpus)
      BY <1>3 DEF SumOf
    <2>2. DOMAIN nodeStates' = DOMAIN nodeStates
      BY <1>1 DEF Binds
    <2> QED BY <1>2, <1>3, <1>4, <2>1, <2>2 DEF Known
  <1>8. Perspectives'
    <2>1. ASSUME NEW n \in DOMAIN nodeStates'
          PROVE  nodeStates'[n].freeSlots = nodeStates'[n].totalSlots - SumOf(nodeStates'[n].jobNumWorkers)
      <3>1. PICK k \in DOMAIN plan : nodeStates'[n] = plan[k]
        BY <1>1 DEF Binds
      <3>2. plan[k].freeSlots = plan[k].totalSlots - SumOf(plan[k].jobNumWorkers)
        BY <1>3, <1>4 DEF Booked, Stuck
      <3> QED BY <3>1, <3>2
    <2>2. \A n \in DOMAIN nodeStates' : \A j \in DOMAIN nodeStates'[n].jobNumWorkers :
             /\ j \in DOMAIN jobStates'
             /\ [node |-> n, numSlots |-> nodeStates'[n].jobNumWorkers[j]]
                   \in Range(jobStates'[j].nodeNumSlotsList)
      BY <1>2 DEF Reflects
    <2> QED BY <2>1, <2>2 DEF Perspectives
  <1>9. Sums'
    BY <1>2 DEF Sums, SumsUp, Reflects
  <1> QED BY <1>3, <1>6, <1>7, <1>8, <1>9 DEF PlaceInv, PlanInv

\* What bestFit guarantees of a placement in which no job is split.
LEMMA BindNodesFit ==
    ASSUME PlaceInv, BindNodes, NoneSplit', changes' = 0
    PROVE  /\ \A n \in DOMAIN nodeStates' : SumOf(nodeStates'[n].jobNumWorkers) <= nodeStates'[n].totalSlots
           /\ \A j \in DOMAIN jobRequests' : jobRequests'[j] > 0 =>
                 j \in DOMAIN jobStates' /\ jobStates'[j].numWorkers = jobRequests'[j]
  <1>1. PICK b : Binds(b)
    BY BindsNodes
  <1>2. Whole
    BY <1>1, BindNodesWhole
  <1>3. /\ pc = "fit" /\ changes' = changes /\ jobRequests' = jobRequests /\ (asks = <<>> \/ slots = 0)
    BY DEF BindNodes, world, SlotsLeft
  <1>4. PlanTyped /\ Fit /\ Booked
    BY <1>3 DEF PlaceInv, PlanInv
  <1>5. asks = <<>>
    <2> SUFFICES ASSUME asks # <<>> PROVE FALSE
      OBVIOUS
    <2> DEFINE R == Range(asks)
               s == SumOver(jobRequests, R)
               j == Head(asks)
    <2>1. /\ IsFiniteSet(DOMAIN jobRequests) /\ \A x \in DOMAIN jobRequests : jobRequests[x] \in Nat
          /\ R \subseteq DOMAIN jobRequests
      BY <1>3, Filling
    <2>2. IsFiniteSet(R) /\ \A x \in R : jobRequests[x] \in Nat
      BY <2>1, FS_Subset
    <2>3. s \in Nat /\ \A x \in R : jobRequests[x] <= s
      <3> HIDE DEF R
      <3> QED BY <2>2, SumNat
    <2>4. j \in R
      BY <1>3, AsksTail
    <2>5. slots = 0 /\ slots >= Open
      BY <1>2, <1>3, <1>4 DEF Fit
    <2>6. Open = s - (jobRequests[j] - requested)
      BY DEF Open
    <2>7. requested \in Nat /\ requested >= 1
      BY <1>4 DEF PlanTyped
    <2>8. jobRequests[j] \in Nat /\ jobRequests[j] <= s
      BY <2>2, <2>3, <2>4
    <2> HIDE DEF R, s, j
    <2> QED BY <2>3, <2>5, <2>6, <2>7, <2>8
  <1>6. ASSUME NEW n \in DOMAIN nodeStates'
        PROVE  SumOf(nodeStates'[n].jobNumWorkers) <= nodeStates'[n].totalSlots
    <2>1. PICK k \in DOMAIN plan : nodeStates'[n] = plan[k]
      BY <1>1 DEF Binds
    <2>2. plan[k].freeSlots = plan[k].totalSlots - SumOf(plan[k].jobNumWorkers) /\ plan[k].freeSlots >= 0
      BY <1>2, <1>4, <1>5 DEF Booked, Stuck, Fit
    <2>3. SumOf(plan[k].jobNumWorkers) \in Int /\ plan[k].totalSlots \in Nat
      <3> DEFINE m == plan[k].jobNumWorkers
      <3>1. IsFiniteSet(DOMAIN m) /\ \A x \in DOMAIN m : m[x] \in Int
        BY <1>3, Filling DEF IsMap
      <3>2. SumOver(m, DOMAIN m) \in Int
        <4> HIDE DEF m
        <4> QED BY <3>1, SumInt
      <3>3. plan[k].totalSlots \in Nat
        BY <1>3, Filling
      <3> QED BY <3>2, <3>3 DEF SumOf
    <2> QED BY <2>1, <2>2, <2>3
  <1>7. ASSUME NEW j \in DOMAIN jobRequests, jobRequests[j] > 0
        PROVE  j \in DOMAIN jobStates' /\ jobStates'[j].numWorkers = jobRequests[j]
    <2>1. PICK k \in DOMAIN plan : j \in DOMAIN plan[k].jobNumWorkers
                                   /\ plan[k].jobNumWorkers[j] = jobRequests[j]
      <3>1. j \in Asking /\ j \notin Range(asks)
        BY <1>5, <1>7 DEF Asking, Range
      <3> QED BY <1>4, <3>1 DEF Fit
    <2>2. /\ Reflects(nodeStates', jobStates') /\ IsFiniteSet(DOMAIN nodeStates')
      BY <1>1, BindNodesTables
    <2>3. /\ b[k] \in DOMAIN nodeStates' /\ nodeStates'[b[k]] = plan[k]
      BY <1>1, <2>1 DEF Binds
    <2>4. j \in DOMAIN jobStates' /\ j \in Jobs
      BY <2>1, <2>2, <2>3 DEF Reflects
    <2> DEFINE S == NodesOf(nodeStates', j)
               f == [n \in S |-> nodeStates'[n].jobNumWorkers[j]]
    <2>5. S = {b[k]}
      <3>1. b[k] \in S
        BY <2>1, <2>3 DEF NodesOf
      <3>2. IsFiniteSet(S)
        BY <2>2, FS_Subset DEF NodesOf
      <3>3. ~(Cardinality(S) > 1)
        BY <2>4 DEF NoneSplit, Split
      <3> HIDE DEF S
      <3>4. \A n \in S : n = b[k]
        BY <3>1, <3>2, <3>3, AtMostOne
      <3> QED BY <3>1, <3>4
    <2>6. f[b[k]] = jobRequests[j] /\ DOMAIN f = S
      BY <2>1, <2>3, <2>5
    <2>7. jobRequests[j] \in Int
      BY <1>3, Filling
    <2>8. SumOf(f) = jobRequests[j]
      <3> HIDE DEF f, S
      <3> QED BY <2>5, <2>6, <2>7, SumSingle DEF SumOf
    <2>9. jobStates'[j].numWorkers = SumOf(f)
      BY <2>2, <2>4 DEF Reflects
    <2> QED BY <2>4, <2>8, <2>9
  <1> QED BY <1>3, <1>6, <1>7

(***************************************************************************)
(* A restart.                                                              *)
(***************************************************************************)

\* The workers that have a place, by node and by job and node.
Placed == { p \in DOMAIN pods : pods[p] # <<>> }
PlacedOn(n) == { p \in Placed : Head(pods[p]) = n }
PlacedOf(j, n) == { p \in Placed : p[1] = j /\ Head(pods[p]) = n }
Found(n) == [j \in { i \in Jobs : PlacedOf(i, n) # {} } |-> Cardinality(PlacedOf(j, n))]

\* The workers of the jobs on a node are the workers there.
LEMMA FoundSums ==
    ASSUME TypeInv, NEW n
    PROVE  /\ IsMap(Found(n), Jobs, Nat) /\ IsMap(Found(n), Jobs, Int)
           /\ SumOf(Found(n)) = Cardinality(PlacedOn(n)) /\ Cardinality(PlacedOn(n)) \in Nat
  <1>1. IsFiniteSet(Workers)
    <2>1. IsFiniteSet(0..MaxWorkers - 1)
      BY GpusAssumption, FS_Interval
    <2> QED BY <2>1, SetsAssumption, FS_Product DEF Workers
  <1>2. \A p \in DOMAIN pods : p[1] \in Jobs
    BY DEF TypeInv, Workers
  <1>3. IsFiniteSet(PlacedOn(n)) /\ \A j : IsFiniteSet(PlacedOf(j, n))
    <2>1. IsFiniteSet(DOMAIN pods)
      BY <1>1, FS_Subset DEF TypeInv
    <2>2. PlacedOn(n) \subseteq DOMAIN pods /\ \A j : PlacedOf(j, n) \subseteq DOMAIN pods
      BY DEF PlacedOn, PlacedOf, Placed
    <2> QED BY <2>1, <2>2, FS_Subset
  <1>4. Cardinality(PlacedOn(n)) \in Nat /\ \A j : Cardinality(PlacedOf(j, n)) \in Nat
    BY <1>3, FS_CardinalityType
  <1>5. IsMap(Found(n), Jobs, Nat) /\ IsMap(Found(n), Jobs, Int)
    BY <1>4 DEF IsMap, Found
  <1> DEFINE P == PlacedOn(n)
             J == { i \in Jobs : PlacedOf(i, n) # {} }
             class == [p \in P |-> p[1]]
             count == Found(n)
  <1>6. IsFiniteSet(J)
    BY SetsAssumption, FS_Subset
  <1>7. \A p \in P : class[p] \in J
    <2> SUFFICES ASSUME NEW p \in P PROVE class[p] \in J
      OBVIOUS
    <2>1. p \in PlacedOf(p[1], n) /\ p[1] \in Jobs
      BY <1>2 DEF PlacedOn, PlacedOf, Placed
    <2> QED BY <2>1
  <1>8. \A j \in J : count[j] = Cardinality({ p \in P : class[p] = j })
    <2> SUFFICES ASSUME NEW j \in J PROVE count[j] = Cardinality({ p \in P : class[p] = j })
      OBVIOUS
    <2>1. { p \in P : class[p] = j } = PlacedOf(j, n)
      BY DEF PlacedOn, PlacedOf
    <2> QED BY <2>1 DEF Found
  <1>9. SumOver(count, J) = Cardinality(P)
    <2> HIDE DEF P, J, class, count
    <2>1. IsFiniteSet(P)
      BY <1>3 DEF P
    <2>2. Tallies(count, class, P, J)
      BY <1>7, <1>8 DEF Tallies
    <2> QED BY <1>6, <2>1, <2>2, SumOfCounts
  <1>10. DOMAIN count = J
    BY DEF Found
  <1> HIDE DEF J, class
  <1> QED BY <1>4, <1>5, <1>9, <1>10 DEF SumOf

LEMMA RestartTables ==
    ASSUME PlaceInv, Restart
    PROVE  /\ DOMAIN nodeStates' = cluster
           /\ \A n \in cluster : /\ nodeStates'[n] = [totalSlots |-> Gpus[n],
                                                      freeSlots |-> Gpus[n] - Cardinality(PlacedOn(n)),
                                                      jobNumWorkers |-> Found(n)]
                                 /\ IsNode(nodeStates'[n])
                                 /\ nodeStates'[n].totalSlots = Gpus[n]
                                 /\ nodeStates'[n].freeSlots = nodeStates'[n].totalSlots
                                                               - SumOf(nodeStates'[n].jobNumWorkers)
           /\ Reflects(nodeStates', jobStates')
           /\ IsMap(podNodeName', Pod, Nodes)
           /\ \A p \in DOMAIN podNodeName' : podNodeName'[p] = Head(pods[p])
           /\ DOMAIN podNodeName' = Placed
  <1>1. TypeInv /\ TypeOK
    BY DEF PlaceInv, TypeInv
  <1>2. podNodeName' = [p \in Placed |-> Head(pods[p])]
    BY DEF Restart, Placed
  <1>3. IsMap(podNodeName', Pod, Nodes)
    <2>1. ASSUME NEW p \in Placed PROVE p \in Pod /\ Head(pods[p]) \in Nodes
      <3>1. p \in Pod /\ pods[p] \in Seq(Nodes) /\ pods[p] # <<>>
        BY <1>1 DEF Placed, TypeOK, IsMap
      <3> QED BY <3>1, HeadTailProperties
    <2> QED BY <1>2, <2>1 DEF IsMap
  <1>4. nodeStates' = [n \in cluster |-> [totalSlots |-> Gpus[n],
                                          freeSlots |-> Gpus[n] - Cardinality(PlacedOn(n)),
                                          jobNumWorkers |-> Found(n)]]
    <2> DEFINE on(j, n) == { p \in Placed : p[1] = j /\ podNodeName'[p] = n }
    <2>1. nodeStates' = [n \in cluster |->
              [totalSlots |-> Gpus[n],
               freeSlots  |-> Gpus[n] - Cardinality({ p \in Placed : podNodeName'[p] = n }),
               jobNumWorkers |-> [j \in { i \in Jobs : on(i, n) # {} } |-> Cardinality(on(j, n))]]]
      BY DEF Restart, Placed
    <2>2. \A n : { p \in Placed : podNodeName'[p] = n } = PlacedOn(n)
      BY <1>2 DEF PlacedOn
    <2>3. \A j, n : on(j, n) = PlacedOf(j, n)
      BY <1>2 DEF PlacedOf
    <2>4. \A n : [j \in { i \in Jobs : on(i, n) # {} } |-> Cardinality(on(j, n))] = Found(n)
      BY <2>3 DEF Found
    <2> HIDE DEF on
    <2> QED BY <2>1, <2>2, <2>4
  <1>5. ASSUME NEW n \in cluster
        PROVE  /\ nodeStates'[n] = [totalSlots |-> Gpus[n],
                                    freeSlots |-> Gpus[n] - Cardinality(PlacedOn(n)),
                                    jobNumWorkers |-> Found(n)]
               /\ IsNode(nodeStates'[n])
               /\ nodeStates'[n].totalSlots = Gpus[n]
               /\ nodeStates'[n].freeSlots = nodeStates'[n].totalSlots - SumOf(nodeStates'[n].jobNumWorkers)
               /\ IsMap(nodeStates'[n].jobNumWorkers, Jobs, Nat)
    <2>1. nodeStates'[n] = [totalSlots |-> Gpus[n],
                            freeSlots |-> Gpus[n] - Cardinality(PlacedOn(n)),
                            jobNumWorkers |-> Found(n)]
      BY <1>4
    <2>2. Gpus[n] \in Nat
      BY <1>1, GpusAssumption DEF TypeOK
    <2>3. /\ IsMap(Found(n), Jobs, Nat) /\ IsMap(Found(n), Jobs, Int)
          /\ SumOf(Found(n)) = Cardinality(PlacedOn(n)) /\ Cardinality(PlacedOn(n)) \in Nat
      BY <1>1, FoundSums
    <2>4. /\ nodeStates'[n].totalSlots = Gpus[n]
          /\ nodeStates'[n].freeSlots = Gpus[n] - Cardinality(PlacedOn(n))
          /\ nodeStates'[n].jobNumWorkers = Found(n)
      BY <2>1
    <2>5. IsNode(nodeStates'[n])
      BY <2>1, <2>2, <2>3, <2>4 DEF IsNode, IsNodeState
    <2> QED BY <2>1, <2>3, <2>4, <2>5
  <1>6. Reflects(nodeStates', jobStates')
    <2>1. DOMAIN nodeStates' = cluster /\ IsFiniteSet(cluster) /\ cluster \subseteq Nodes
      BY <1>1, <1>4, SetsAssumption, FS_Subset DEF TypeOK
    <2>2. IsPlaced(nodeStates')
      BY <1>5, <2>1 DEF IsPlaced
    <2>3. PICK o \in Orders(DOMAIN nodeStates') : jobStates' = JobStates(nodeStates', o)
      BY <2>1 DEF Restart
    <2> QED BY <2>2, <2>3, JobStatesReflect
  <1> QED BY <1>2, <1>3, <1>4, <1>5, <1>6

LEMMA RestartInv == ASSUME PlaceInv, Restart PROVE PlaceInv' /\ Perspectives' /\ Sums'
  <1>1. /\ DOMAIN nodeStates' = cluster
        /\ \A n \in cluster : /\ IsNode(nodeStates'[n]) /\ nodeStates'[n].totalSlots = Gpus[n]
                              /\ nodeStates'[n].freeSlots = nodeStates'[n].totalSlots
                                                            - SumOf(nodeStates'[n].jobNumWorkers)
        /\ Reflects(nodeStates', jobStates')
        /\ IsMap(podNodeName', Pod, Nodes)
    BY RestartTables
  <1>2. TypeInv /\ TypeOK /\ Known
    BY DEF PlaceInv, PlanInv, TypeInv
  <1>3. /\ pc' \in {"idle", "panicked"} /\ plan' = <<>> /\ asks' = <<>> /\ requested' = 0 /\ slots' = 0
        /\ doomed' = {} /\ nodeEvents' = <<>> /\ added' = DOMAIN pods
        /\ strays' = { p \in DOMAIN pods : Len(pods[p]) > 1 }
        /\ jobRequests' = jobRequests /\ cluster' = cluster /\ changes' = changes /\ pods' = pods
        /\ restarts' = restarts + 1
    BY DEF Restart
  <1>4. /\ DOMAIN jobStates' \subseteq Jobs /\ jobStates' = [j \in DOMAIN jobStates' |-> jobStates'[j]]
        /\ \A j \in DOMAIN jobStates' : IsJob(jobStates'[j])
    BY <1>1, ReflectsTypes
  <1>5. TypeInv'
    <2>1. added' \subseteq Pod /\ strays' \subseteq Pod /\ restarts' \in Nat /\ doomed' \subseteq Pod
          /\ nodeEvents' \in Seq(NodeEvent) /\ pc' \in {"idle", "requested", "fit", "deleting", "panicked"}
      BY <1>2, <1>3 DEF TypeOK, IsMap
    <2>2. /\ \A k \in DOMAIN plan' : IsNodeState(plan'[k])
          /\ asks' \in Seq(Jobs) /\ requested' \in Nat /\ slots' \in Int
      BY <1>3
    <2>3. DOMAIN nodeStates' \subseteq Nodes /\ \A n \in DOMAIN nodeStates' : IsNodeState(nodeStates'[n])
      BY <1>1, <1>2 DEF IsNode, TypeOK
    <2>4. \A j \in DOMAIN jobStates' : IsJobState(jobStates'[j])
      BY <1>4 DEF IsJob
    <2>5. TypeOK'
      BY <1>1, <1>2, <1>3, <1>4, <2>1, <2>2, <2>3, <2>4 DEF TypeOK
    <2> QED BY <1>1, <1>2, <1>3, <1>4, <2>5 DEF TypeInv
  <1>6. Known'
    <2>1. SumOf(jobRequests)' = SumOf(jobRequests) /\ SumOf(Gpus)' = SumOf(Gpus)
      BY <1>3 DEF SumOf
    <2>2. ASSUME cluster = Nodes PROVE Totals(nodeStates)' = SumOf(Gpus)
      <3> DEFINE g == [n \in DOMAIN nodeStates' |-> nodeStates'[n].totalSlots]
      <3>1. g = Gpus
        BY <1>1, <2>2, GpusAssumption
      <3>2. Totals(nodeStates)' = SumOf(g)
        BY DEF Totals
      <3> HIDE DEF g
      <3> QED BY <3>1, <3>2
    <2> QED BY <1>1, <1>2, <1>3, <2>1, <2>2 DEF Known
  <1>7. Perspectives'
    BY <1>1 DEF Perspectives, Reflects
  <1>8. Sums'
    BY <1>1 DEF Sums, SumsUp, Reflects
  <1> QED BY <1>3, <1>5, <1>6, <1>7, <1>8 DEF PlaceInv, PlanInv

(***************************************************************************)
(* The steps around Place.                                                 *)
(***************************************************************************)

\* What the runs check of the tables when no one fills a plan.
TableInv == Perspectives /\ Sums /\ PlacedAsRequested /\ OvercommittedOnlyIfSplit

\* Steps that leave alone what the plan depends on, and what the tables depend on.
PlanStays ==
    /\ UNCHANGED <<fitting, nodeStates, jobRequests>>
    /\ pc' = "fit" => pc = "fit"
    /\ changes' = 0 => changes = 0 /\ UNCHANGED <<nodeEvents, cluster>>
TablesStay ==
    /\ UNCHANGED <<nodeStates, jobStates>>
    /\ LockFree' => LockFree
    /\ pc' = "deleting" => pc = "deleting" /\ UNCHANGED jobRequests
    /\ changes' = 0 => changes = 0
    /\ restarts' = 0 => restarts = 0

LEMMA PlanIsKept == ASSUME PlaceInv, PlanStays PROVE PlanInv'
  <1>1. /\ plan' = plan /\ asks' = asks /\ requested' = requested /\ slots' = slots
        /\ nodeStates' = nodeStates /\ jobRequests' = jobRequests
    BY DEF PlanStays, fitting
  <1>2. Known'
    <2>1. /\ SumOf(jobRequests)' = SumOf(jobRequests) /\ SumOf(Gpus)' = SumOf(Gpus)
          /\ Totals(nodeStates)' = Totals(nodeStates) /\ Totals(plan)' = Totals(plan)
      BY <1>1 DEF SumOf, Totals
    <2> QED BY <1>1, <2>1 DEF Known, PlanStays, PlaceInv, PlanInv
  <1>3. ASSUME pc' = "fit" PROVE PlanTyped' /\ Room' /\ Parts' /\ Booked' /\ Fit'
    <2>1. PlanTyped /\ Room /\ Parts /\ Booked /\ Fit
      BY <1>3 DEF PlanStays, PlaceInv, PlanInv
    <2>2. PlanTyped'
      BY <1>1, <2>1 DEF PlanTyped, Asking
    <2>3. Room'
      <3>1. SumOf(Free)' = SumOf(Free)
        BY <1>1 DEF SumOf, Free
      <3> QED BY <1>1, <2>1, <3>1 DEF Room
    <2>4. Parts'
      BY <1>1, <2>1 DEF Parts
    <2>5. Booked'
      BY <1>1, <2>1 DEF Booked, Stuck
    <2>6. Fit'
      <3>1. Open' = Open /\ Whole' = Whole /\ Asking' = Asking
        BY <1>1 DEF Open, Whole, Asking
      <3> QED BY <1>1, <2>1, <3>1 DEF Fit, PlanStays
    <2> QED BY <2>2, <2>3, <2>4, <2>5, <2>6
  <1> QED BY <1>2, <1>3 DEF PlanInv

LEMMA TablesAreKept == ASSUME TableInv, TablesStay PROVE TableInv'
  <1>1. nodeStates' = nodeStates /\ jobStates' = jobStates
    BY DEF TablesStay
  <1>2. Perspectives' /\ Sums'
    BY <1>1 DEF TablesStay, TableInv, Perspectives, Sums, SumsUp
  <1>3. NoneSplit' = NoneSplit
    BY <1>1 DEF NoneSplit, Split
  <1>4. PlacedAsRequested'
    BY <1>1, <1>3 DEF TablesStay, TableInv, PlacedAsRequested
  <1>5. OvercommittedOnlyIfSplit'
    BY <1>1, <1>3 DEF TablesStay, TableInv, OvercommittedOnlyIfSplit, Overcommitted
  <1> QED BY <1>2, <1>4, <1>5 DEF TableInv

\* The steps of the scheduler: jobs ask for other sizes, or for nothing.
LEMMA RequestsInv ==
    ASSUME PlaceInv, TableInv, Resched \/ \E j \in Jobs : JobDone(j)
    PROVE  PlaceInv' /\ TableInv'
  <1>1. /\ UNCHANGED <<tables, fitting, doomed, world, pods, added, restarts, strays>>
        /\ pc \in {"idle", "requested"} /\ pc' \in {"idle", "requested"}
    BY DEF Resched, JobDone
  <1>2. TypeInv /\ TypeOK /\ Known
    BY DEF PlaceInv, PlanInv, TypeInv
  <1>3. IsMap(jobRequests', Jobs, Nat) /\ SumOf(jobRequests') <= SumOf(Gpus)
    <2>1. ASSUME Resched PROVE IsMap(jobRequests', Jobs, Nat) /\ SumOf(jobRequests') <= SumOf(Gpus)
      <3>1. PICK D \in SUBSET Jobs : \E r \in [D -> 0..MaxWorkers] :
               SumOf(r) <= SumOf(Gpus) /\ r # jobRequests /\ jobRequests' = r
        BY <2>1 DEF Resched
      <3> QED BY <3>1, GpusAssumption DEF IsMap
    <2>2. ASSUME NEW j \in Jobs, JobDone(j)
          PROVE  IsMap(jobRequests', Jobs, Nat) /\ SumOf(jobRequests') <= SumOf(Gpus)
      <3>1. jobRequests' = Without(jobRequests, {j})
        BY <2>2 DEF JobDone
      <3>2. IsMap(jobRequests, Jobs, Nat)
        BY <1>2 DEF TypeOK
      <3>3. IsMap(Without(jobRequests, {j}), Jobs, Nat)
        BY <3>2, WithoutMap
      <3>4. IsFiniteSet(DOMAIN jobRequests) /\ \A i \in DOMAIN jobRequests : jobRequests[i] \in Nat
        BY <3>2, SetsAssumption, FS_Subset DEF IsMap
      <3>5. SumOf(Without(jobRequests, {j})) <= SumOf(jobRequests)
        BY <3>4, SumWithout DEF SumOf
      <3>6. SumOf(Without(jobRequests, {j})) \in Int /\ SumOf(jobRequests) \in Int /\ SumOf(Gpus) \in Int
        <4>1. \A m : IsFiniteSet(DOMAIN m) /\ (\A x \in DOMAIN m : m[x] \in Int) => SumOf(m) \in Int
          BY SumInt DEF SumOf
        <4>2. IsFiniteSet(DOMAIN Without(jobRequests, {j}))
              /\ \A x \in DOMAIN Without(jobRequests, {j}) : Without(jobRequests, {j})[x] \in Int
          <5> DEFINE w == Without(jobRequests, {j})
          <5>1. DOMAIN w \subseteq Jobs /\ \A x \in DOMAIN w : w[x] \in Int
            <6>1. IsMap(w, Jobs, Nat)
              BY <3>3
            <6> HIDE DEF w
            <6> QED BY <6>1 DEF IsMap
          <5> HIDE DEF w
          <5>2. IsFiniteSet(DOMAIN w)
            BY <5>1, SetsAssumption, FS_Subset
          <5> QED BY <5>1, <5>2 DEF w
        <4>3. IsFiniteSet(DOMAIN Gpus) /\ \A x \in DOMAIN Gpus : Gpus[x] \in Int
          BY GpusAssumption, SetsAssumption
        <4>4. \A x \in DOMAIN jobRequests : jobRequests[x] \in Int
          BY <3>4
        <4> QED BY <3>4, <4>1, <4>2, <4>3, <4>4
      <3> QED BY <1>2, <3>1, <3>3, <3>5, <3>6 DEF Known
    <2> QED BY <2>1, <2>2
  <1>4. /\ nodeStates' = nodeStates /\ jobStates' = jobStates /\ podNodeName' = podNodeName
        /\ plan' = plan /\ asks' = asks /\ requested' = requested /\ slots' = slots
        /\ doomed' = doomed /\ cluster' = cluster /\ nodeEvents' = nodeEvents /\ changes' = changes
        /\ pods' = pods /\ added' = added /\ restarts' = restarts /\ strays' = strays
    BY <1>1 DEF tables, fitting, world
  <1>5. TypeInv'
    <2>1. TypeOK'
      BY <1>1, <1>2, <1>3, <1>4 DEF TypeOK
    <2> QED BY <1>2, <1>4, <2>1 DEF TypeInv
  <1>6. PlanInv'
    <2>1. SumOf(jobRequests)' = SumOf(jobRequests') /\ SumOf(Gpus)' = SumOf(Gpus)
          /\ Totals(nodeStates)' = Totals(nodeStates)
      BY <1>4 DEF SumOf, Totals
    <2>2. Known'
      BY <1>1, <1>2, <1>3, <1>4, <2>1 DEF Known
    <2> QED BY <1>1, <2>2 DEF PlanInv
  <1>7. TableInv'
    BY <1>1, <1>4, TablesAreKept DEF TablesStay, LockFree
  <1> QED BY <1>5, <1>6, <1>7 DEF PlaceInv

\* The steps of pods and nodes.
PodStep(p) == CreatePod(p) \/ DeletePod(p) \/ EvictPod(p)

LEMMA DropPodTyped ==
    ASSUME TypeInv, NEW p, DropPod(p)
    PROVE  /\ IsMap(pods', Pod, Seq(Nodes)) /\ DOMAIN pods' \subseteq Workers
           /\ added' \subseteq Pod /\ strays' \subseteq Pod
  <1>1. pods' = Without(pods, {p}) /\ added' \subseteq added /\ strays' \subseteq strays
    BY DEF DropPod
  <1>2. /\ IsMap(pods, Pod, Seq(Nodes)) /\ DOMAIN pods \subseteq Workers
        /\ added \subseteq Pod /\ strays \subseteq Pod
    BY DEF TypeInv, TypeOK
  <1> DEFINE R == Seq(Nodes)
  <1>3. IsMap(Without(pods, {p}), Pod, R) /\ DOMAIN Without(pods, {p}) = DOMAIN pods \ {p}
    <2>1. IsMap(pods, Pod, R)
      BY <1>2
    <2> HIDE DEF R
    <2> QED BY <2>1, WithoutMap
  <1> QED BY <1>1, <1>2, <1>3

LEMMA WorldInv ==
    ASSUME PlaceInv, TableInv,
           \/ \E p \in Workers : PodStep(p)
           \/ \E n \in Nodes : NodeChanges(n)
           \/ \E p \in doomed : MigratePod(p)
           \/ EndPlace
    PROVE  PlaceInv' /\ TableInv'
  <1>1. TypeInv /\ TypeOK
    BY DEF PlaceInv, TypeInv
  <1>2. /\ UNCHANGED <<tables, fitting, jobRequests, restarts>>
        /\ pc' = pc \/ (pc = "deleting" /\ pc' = "idle")
        /\ changes' = 0 => changes = 0 /\ UNCHANGED <<nodeEvents, cluster>>
    <2>1. ASSUME NEW p \in Workers, PodStep(p)
          PROVE  UNCHANGED <<tables, fitting, jobRequests, restarts, pc, world>>
      BY <2>1 DEF PodStep, CreatePod, DeletePod, EvictPod
    <2>2. ASSUME NEW n \in Nodes, NodeChanges(n)
          PROVE  UNCHANGED <<tables, fitting, jobRequests, restarts, pc>> /\ changes' # 0
      BY <1>1, <2>2 DEF NodeChanges, TypeOK
    <2>3. ASSUME NEW p \in doomed, MigratePod(p)
          PROVE  UNCHANGED <<tables, fitting, jobRequests, restarts, pc, world>>
      BY <2>3 DEF MigratePod
    <2>4. ASSUME EndPlace
          PROVE  UNCHANGED <<tables, fitting, jobRequests, restarts, world>> /\ pc = "deleting" /\ pc' = "idle"
      BY <2>4 DEF EndPlace
    <2> QED BY <2>1, <2>2, <2>3, <2>4 DEF world
  <1>3. /\ doomed' \subseteq Pod /\ cluster' \subseteq Nodes /\ nodeEvents' \in Seq(NodeEvent)
        /\ IsMap(pods', Pod, Seq(Nodes)) /\ DOMAIN pods' \subseteq Workers
        /\ added' \subseteq Pod /\ strays' \subseteq Pod /\ changes' \in Nat
    <2>1. /\ doomed \subseteq Pod /\ cluster \subseteq Nodes /\ nodeEvents \in Seq(NodeEvent)
          /\ IsMap(pods, Pod, Seq(Nodes)) /\ DOMAIN pods \subseteq Workers
          /\ added \subseteq Pod /\ strays \subseteq Pod /\ changes \in Nat
      BY <1>1 DEF TypeInv, TypeOK
    <2>2. ASSUME NEW p \in Workers, CreatePod(p)
          PROVE  /\ IsMap(pods', Pod, Seq(Nodes)) /\ DOMAIN pods' \subseteq Workers
                 /\ added' \subseteq Pod /\ UNCHANGED <<doomed, world, strays>>
      <3>1. /\ pods' = Put(pods, p, <<>>) /\ added' = added \cup {p}
            /\ UNCHANGED <<doomed, world, strays>>
        BY <2>2 DEF CreatePod
      <3>2. p \in Pod
        BY GpusAssumption DEF Workers, Pod
      <3> DEFINE R == Seq(Nodes)
      <3>3. IsMap(Put(pods, p, <<>>), Pod, R) /\ DOMAIN Put(pods, p, <<>>) = DOMAIN pods \cup {p}
        <4>1. <<>> \in R /\ IsMap(pods, Pod, R)
          BY <2>1
        <4> HIDE DEF R
        <4> QED BY <3>2, <4>1 DEF IsMap, Put
      <3> QED BY <2>1, <3>1, <3>2, <3>3
    <2>3. ASSUME NEW p \in Workers, DeletePod(p) \/ EvictPod(p)
          PROVE  /\ IsMap(pods', Pod, Seq(Nodes)) /\ DOMAIN pods' \subseteq Workers
                 /\ added' \subseteq Pod /\ strays' \subseteq Pod /\ UNCHANGED <<doomed, world>>
      <3>1. DropPod(p) /\ UNCHANGED <<doomed, world>>
        BY <2>3 DEF DeletePod, EvictPod
      <3> QED BY <1>1, <3>1, DropPodTyped
    <2>4. ASSUME NEW n \in Nodes, NodeChanges(n)
          PROVE  /\ cluster' \subseteq Nodes /\ nodeEvents' \in Seq(NodeEvent) /\ changes' \in Nat
                 /\ UNCHANGED <<doomed, pods, added, strays>>
      <3>1. /\ changes' = changes + 1 /\ UNCHANGED <<doomed, pods, added, strays>>
            /\ \/ cluster' = cluster \ {n} /\ nodeEvents' = Append(nodeEvents, [kind |-> "delete", node |-> n])
               \/ cluster' = cluster \cup {n} /\ nodeEvents' = Append(nodeEvents, [kind |-> "add", node |-> n])
        BY <2>4 DEF NodeChanges
      <3>2. [kind |-> "delete", node |-> n] \in NodeEvent /\ [kind |-> "add", node |-> n] \in NodeEvent
        BY DEF NodeEvent
      <3>3. \A e \in NodeEvent : Append(nodeEvents, e) \in Seq(NodeEvent)
        BY <2>1, AppendProperties
      <3> QED BY <2>1, <3>1, <3>2, <3>3
    <2>5. ASSUME NEW p \in doomed, MigratePod(p)
          PROVE  /\ IsMap(pods', Pod, Seq(Nodes)) /\ DOMAIN pods' \subseteq Workers
                 /\ added' \subseteq Pod /\ strays' \subseteq Pod /\ doomed' \subseteq Pod
                 /\ UNCHANGED world
      <3>1. /\ DropPod(p) \/ (strays' = strays \cup {p} /\ UNCHANGED <<pods, added>>)
            /\ UNCHANGED world /\ doomed' = doomed \ {p}
        BY <2>5 DEF MigratePod
      <3> QED BY <1>1, <2>1, <3>1, DropPodTyped
    <2>6. ASSUME EndPlace PROVE UNCHANGED <<doomed, world, pods, added, strays>>
      BY <2>6 DEF EndPlace
    <2> QED BY <2>1, <2>2, <2>3, <2>4, <2>5, <2>6 DEF PodStep, world
  <1>4. /\ nodeStates' = nodeStates /\ jobStates' = jobStates /\ podNodeName' = podNodeName
        /\ plan' = plan /\ asks' = asks /\ requested' = requested /\ slots' = slots
        /\ jobRequests' = jobRequests /\ restarts' = restarts
    BY <1>2 DEF tables, fitting
  <1>5. TypeInv'
    <2>1. TypeOK'
      BY <1>1, <1>2, <1>3, <1>4 DEF TypeOK
    <2> QED BY <1>1, <1>3, <1>4, <2>1 DEF TypeInv
  <1>6. PlanInv'
    BY <1>2, <1>4, PlanIsKept DEF PlanStays
  <1>7. TableInv'
    BY <1>2, <1>4, TablesAreKept DEF TablesStay, LockFree
  <1> QED BY <1>5, <1>6, <1>7 DEF PlaceInv

(***************************************************************************)
(* The informer handlers.                                                  *)
(***************************************************************************)

LEMMA AddPodInv ==
    ASSUME PlaceInv, TableInv, NEW p \in added, AddPod(p)
    PROVE  PlaceInv' /\ TableInv'
  <1>1. TypeInv /\ TypeOK
    BY DEF PlaceInv, TypeInv
  <1>2. /\ UNCHANGED <<tables, fitting, doomed, jobRequests, world, restarts>>
        /\ added' = added \ {p} /\ LockFree
        /\ pc' = pc \/ pc' = "panicked"
    BY DEF AddPod
  <1>3. /\ IsMap(pods, Pod, Seq(Nodes)) /\ DOMAIN pods \subseteq Workers
        /\ IsMap(podNodeName, Pod, Nodes) /\ added \subseteq Pod /\ strays \subseteq Pod
    BY <1>1 DEF TypeInv, TypeOK
  <1>4. IsMap(pods', Pod, Seq(Nodes)) /\ DOMAIN pods' = DOMAIN pods
    <2>1. CASE pods' = pods
      BY <1>3, <2>1
    <2>2. CASE p \in DOMAIN podNodeName /\ pods' = [pods EXCEPT ![p] = Append(@, podNodeName[p])]
      <3>1. CASE p \in DOMAIN pods
        <4> DEFINE R == Seq(Nodes)
                   v == Append(pods[p], podNodeName[p])
        <4>1. IsMap(pods, Pod, R) /\ pods[p] \in Seq(Nodes) /\ podNodeName[p] \in Nodes
          BY <1>3, <2>2, <3>1 DEF IsMap
        <4>2. v \in R
          BY <4>1, AppendProperties
        <4>3. pods' = [pods EXCEPT ![p] = v]
          BY <2>2, <3>1
        <4> HIDE DEF R, v
        <4>4. IsMap(pods', Pod, R) /\ DOMAIN pods' = DOMAIN pods
          BY <3>1, <4>1, <4>2, <4>3 DEF IsMap
        <4> QED BY <4>4 DEF R
      <3>2. CASE p \notin DOMAIN pods
        <4>1. pods = [x \in DOMAIN pods |-> pods[x]]
          BY <1>3 DEF IsMap
        <4>2. pods' = pods
          BY <2>2, <3>2, <4>1
        <4> QED BY <1>3, <4>2
      <3> QED BY <3>1, <3>2
    <2> QED BY <2>1, <2>2 DEF AddPod
  <1>5. added' \subseteq Pod /\ strays' \subseteq Pod
    BY <1>3 DEF AddPod
  <1>6. /\ nodeStates' = nodeStates /\ jobStates' = jobStates /\ podNodeName' = podNodeName
        /\ plan' = plan /\ asks' = asks /\ requested' = requested /\ slots' = slots
        /\ doomed' = doomed /\ cluster' = cluster /\ nodeEvents' = nodeEvents /\ changes' = changes
        /\ jobRequests' = jobRequests /\ restarts' = restarts
    BY <1>2 DEF tables, fitting, world
  <1>7. TypeInv'
    <2>1. TypeOK'
      BY <1>1, <1>2, <1>4, <1>5, <1>6 DEF TypeOK
    <2> QED BY <1>1, <1>3, <1>4, <1>6, <2>1 DEF TypeInv
  <1>8. PlanInv'
    BY <1>2, <1>6, PlanIsKept DEF PlanStays
  <1>9. TableInv'
    BY <1>2, <1>6, TablesAreKept DEF TablesStay, LockFree
  <1> QED BY <1>7, <1>8, <1>9 DEF PlaceInv

\* A handled event takes nothing from the jobs but the workers of a deleted node.
LEMMA NodeHandlerInv == ASSUME PlaceInv, TableInv, NodeHandler PROVE PlaceInv' /\ TableInv'
  <1>1. TypeInv /\ TypeOK /\ Known /\ Perspectives
    BY DEF PlaceInv, PlanInv, TypeInv, TableInv
  <1>2. /\ UNCHANGED <<podNodeName, fitting, doomed, jobRequests, cluster, changes, pods, added, restarts, strays>>
        /\ LockFree /\ nodeEvents # <<>> /\ nodeEvents' = Tail(nodeEvents)
    BY DEF NodeHandler
  <1> DEFINE n == Head(nodeEvents).node
  <1>3. AddNode(n) \/ DeleteNode(n)
    BY DEF NodeHandler
  <1>4. n \in Nodes /\ nodeEvents' \in Seq(NodeEvent)
    <2>1. nodeEvents \in Seq(NodeEvent)
      BY <1>1 DEF TypeOK
    <2>2. Head(nodeEvents) \in NodeEvent /\ Tail(nodeEvents) \in Seq(NodeEvent)
      BY <1>2, <2>1, HeadTailProperties
    <2> QED BY <1>2, <2>2 DEF NodeEvent
  <1>5. changes # 0 /\ changes' = changes
    BY <1>1, <1>2 DEF Known
  <1> HIDE DEF n
  <1>6. /\ DOMAIN nodeStates \subseteq Nodes
        /\ \A m \in DOMAIN nodeStates : IsNode(nodeStates[m])
        /\ DOMAIN jobStates \subseteq Jobs /\ jobStates = [j \in DOMAIN jobStates |-> jobStates[j]]
        /\ \A j \in DOMAIN jobStates : IsJob(jobStates[j])
    BY <1>1 DEF TypeInv, TypeOK
  <1>7. /\ DOMAIN nodeStates' \subseteq Nodes
        /\ \A m \in DOMAIN nodeStates' : IsNode(nodeStates'[m])
        /\ DOMAIN jobStates' = DOMAIN jobStates /\ jobStates' = [j \in DOMAIN jobStates' |-> jobStates'[j]]
        /\ \A j \in DOMAIN jobStates' : IsJob(jobStates'[j])
                                        /\ jobStates'[j].nodeNumSlotsList = jobStates[j].nodeNumSlotsList
        /\ pc' = pc \/ pc' = "panicked"
        /\ \A m \in DOMAIN nodeStates' :
              \/ m \in DOMAIN nodeStates /\ nodeStates'[m] = nodeStates[m]
              \/ /\ DOMAIN nodeStates'[m].jobNumWorkers = {}
                 /\ nodeStates'[m].freeSlots = nodeStates'[m].totalSlots - SumOf(nodeStates'[m].jobNumWorkers)
    <2>1. CASE AddNode(n) /\ n \in DOMAIN nodeStates
      <3>1. nodeStates' = nodeStates /\ jobStates' = jobStates /\ pc' = pc
        BY <2>1 DEF AddNode
      <3> QED BY <1>6, <3>1
    <2>2. CASE AddNode(n) /\ n \notin DOMAIN nodeStates
      <3> DEFINE g == Gpus[n]
      <3>1. nodeStates' = Put(nodeStates, n, NewNodeState(g)) /\ jobStates' = jobStates /\ pc' = pc
        BY <2>2 DEF AddNode
      <3>2. /\ DOMAIN nodeStates' = DOMAIN nodeStates \cup {n}
            /\ \A m \in DOMAIN nodeStates : nodeStates'[m] = nodeStates[m]
            /\ nodeStates'[n] = NewNodeState(g)
        BY <2>2, <3>1 DEF Put
      <3>3. g \in Nat
        BY <1>4, GpusAssumption
      <3>4. /\ IsNode(NewNodeState(g))
            /\ NewNodeState(g).totalSlots = g /\ NewNodeState(g).freeSlots = g
            /\ DOMAIN NewNodeState(g).jobNumWorkers = {}
            /\ SumOf(NewNodeState(g).jobNumWorkers) = 0
        <4> HIDE DEF g
        <4> QED BY <3>3, NewNodeIsEmpty
      <3>5. g = g - 0
        BY <3>3
      <3> HIDE DEF g
      <3> QED BY <1>4, <1>6, <3>1, <3>2, <3>4, <3>5
    <2>3. CASE DeleteNode(n) /\ n \notin DOMAIN nodeStates
      <3>1. nodeStates' = nodeStates /\ jobStates' = jobStates /\ pc' = "panicked"
        BY <2>3 DEF DeleteNode
      <3> QED BY <1>6, <3>1
    <2>4. CASE DeleteNode(n) /\ n \in DOMAIN nodeStates
      <3>1. /\ nodeStates' = Without(nodeStates, {n}) /\ pc' = pc
            /\ jobStates' = [j \in DOMAIN jobStates |->
                                [jobStates[j] EXCEPT !.numWorkers =
                                    @ - At(nodeStates[n].jobNumWorkers, j)]]
        BY <2>4 DEF DeleteNode
      <3>2. /\ DOMAIN nodeStates' = DOMAIN nodeStates \ {n}
            /\ \A m \in DOMAIN nodeStates' : nodeStates'[m] = nodeStates[m]
        BY <3>1 DEF Without, Restrict
      <3>3. ASSUME NEW j \in DOMAIN jobStates
            PROVE  IsJob(jobStates'[j]) /\ jobStates'[j].nodeNumSlotsList = jobStates[j].nodeNumSlotsList
        <4> DEFINE s == jobStates[j]
                   w == At(nodeStates[n].jobNumWorkers, j)
        <4>1. s = [numWorkers |-> s.numWorkers, nodeNumSlotsList |-> s.nodeNumSlotsList]
              /\ s.numWorkers \in Int /\ s.nodeNumSlotsList \in Entries
          BY <1>6 DEF IsJob, IsJobState, Entries, Slot
        <4>2. w \in Int
          BY <1>6, <2>4 DEF At, IsNode, IsNodeState, IsMap
        <4>3. jobStates'[j] = [s EXCEPT !.numWorkers = @ - w]
          BY <3>1
        <4> HIDE DEF s, w
        <4>4. jobStates'[j] = [numWorkers |-> s.numWorkers - w, nodeNumSlotsList |-> s.nodeNumSlotsList]
          BY <4>1, <4>3
        <4>5. jobStates'[j].numWorkers = s.numWorkers - w /\ jobStates'[j].nodeNumSlotsList = s.nodeNumSlotsList
          BY <4>4
        <4>6. jobStates'[j].numWorkers \in Int
          BY <4>1, <4>2, <4>5
        <4> QED BY <4>1, <4>4, <4>5, <4>6 DEF IsJob, IsJobState, Entries, Slot, s
      <3>4. DOMAIN jobStates' = DOMAIN jobStates /\ jobStates' = [j \in DOMAIN jobStates' |-> jobStates'[j]]
        BY <3>1
      <3> QED BY <1>6, <3>1, <3>2, <3>3, <3>4
    <2> QED BY <1>3, <2>1, <2>2, <2>3, <2>4
  <1>8. /\ podNodeName' = podNodeName
        /\ plan' = plan /\ asks' = asks /\ requested' = requested /\ slots' = slots
        /\ doomed' = doomed /\ cluster' = cluster /\ pods' = pods /\ added' = added /\ strays' = strays
        /\ jobRequests' = jobRequests /\ restarts' = restarts
    BY <1>2 DEF fitting
  <1>9. TypeInv'
    <2>1. \A m \in DOMAIN nodeStates' : IsNodeState(nodeStates'[m])
      BY <1>7 DEF IsNode
    <2>2. \A j \in DOMAIN jobStates' : IsJobState(jobStates'[j])
      BY <1>7 DEF IsJob
    <2>3. TypeOK'
      BY <1>1, <1>4, <1>5, <1>6, <1>7, <1>8, <2>1, <2>2 DEF TypeOK
    <2> QED BY <1>1, <1>7, <1>8, <2>3 DEF TypeInv
  <1>10. PlanInv'
    <2>1. SumOf(jobRequests)' = SumOf(jobRequests) /\ SumOf(Gpus)' = SumOf(Gpus)
      BY <1>8 DEF SumOf
    <2>2. pc' # "fit"
      BY <1>2, <1>7 DEF LockFree
    <2> QED BY <1>1, <1>5, <1>8, <2>1, <2>2 DEF PlanInv, Known
  <1>11. TableInv'
    <2>1. Perspectives'
      BY <1>1, <1>2, <1>7 DEF Perspectives
    <2> QED BY <1>5, <2>1 DEF TableInv, Sums, SumsUp, PlacedAsRequested, OvercommittedOnlyIfSplit
  <1> QED BY <1>9, <1>10, <1>11 DEF PlaceInv

(***************************************************************************)
(* The invariant.                                                          *)
(***************************************************************************)
NodesInv == PlaceInv /\ TableInv

LEMMA InitHolds == Init => NodesInv
  <1> SUFFICES ASSUME Init PROVE NodesInv
    OBVIOUS
  <1>1. /\ nodeStates = [n \in Nodes |-> NewNodeState(Gpus[n])]
        /\ jobStates = EmptyMap /\ podNodeName = EmptyMap /\ pc = "idle"
        /\ plan = <<>> /\ asks = <<>> /\ requested = 0 /\ slots = 0 /\ doomed = {}
        /\ jobRequests = EmptyMap /\ cluster = Nodes /\ nodeEvents = <<>>
        /\ pods = EmptyMap /\ added = {} /\ strays = {} /\ changes = 0 /\ restarts = 0
    BY DEF Init
  <1>2. ASSUME NEW n \in DOMAIN nodeStates
        PROVE  /\ IsNode(nodeStates[n]) /\ nodeStates[n].totalSlots = Gpus[n]
               /\ DOMAIN nodeStates[n].jobNumWorkers = {}
               /\ SumOf(nodeStates[n].jobNumWorkers) = 0
               /\ nodeStates[n].freeSlots = nodeStates[n].totalSlots - SumOf(nodeStates[n].jobNumWorkers)
               /\ ~(SumOf(nodeStates[n].jobNumWorkers) > nodeStates[n].totalSlots)
    <2> DEFINE g == Gpus[n]
    <2>1. g \in Nat /\ nodeStates[n] = NewNodeState(g)
      BY <1>1, GpusAssumption
    <2> HIDE DEF g
    <2>2. /\ IsNode(NewNodeState(g))
          /\ NewNodeState(g).totalSlots = g /\ NewNodeState(g).freeSlots = g
          /\ DOMAIN NewNodeState(g).jobNumWorkers = {}
          /\ SumOf(NewNodeState(g).jobNumWorkers) = 0
      BY <2>1, NewNodeIsEmpty
    <2>3. g = g - 0 /\ ~(0 > g)
      BY <2>1
    <2> QED BY <2>1, <2>2, <2>3 DEF g
  <1>3. DOMAIN EmptyMap = {} /\ \A R : IsMap(EmptyMap, Jobs, R) /\ IsMap(EmptyMap, Pod, R)
    BY DEF EmptyMap, IsMap
  <1>4. TypeInv
    <2>1. /\ DOMAIN nodeStates \subseteq Nodes /\ \A n \in DOMAIN nodeStates : IsNodeState(nodeStates[n])
      BY <1>1, <1>2 DEF IsNode
    <2>2. /\ DOMAIN jobStates = {} /\ jobStates = [j \in DOMAIN jobStates |-> jobStates[j]]
      BY <1>1 DEF EmptyMap
    <2>3. IsMap(podNodeName, Pod, Nodes) /\ IsMap(jobRequests, Jobs, Nat) /\ IsMap(pods, Pod, Seq(Nodes))
      BY <1>1, <1>3
    <2>4. /\ asks \in Seq(Jobs) /\ nodeEvents \in Seq(NodeEvent) /\ \A k \in DOMAIN plan : IsNodeState(plan[k])
      BY <1>1
    <2>5. TypeOK
      BY <1>1, <2>1, <2>2, <2>3, <2>4 DEF TypeOK
    <2> QED BY <1>1, <1>2, <1>3, <2>2, <2>5 DEF TypeInv
  <1>5. Known
    <2>1. SumOf(jobRequests) = 0
      BY <1>1, <1>3, SumEmpty DEF SumOf
    <2>2. SumOf(Gpus) \in Nat
      <3>1. DOMAIN Gpus = Nodes /\ \A n \in Nodes : Gpus[n] \in Nat
        BY GpusAssumption
      <3> QED BY <3>1, SetsAssumption, SumNat DEF SumOf
    <2>3. Totals(nodeStates) = SumOf(Gpus)
      <3> DEFINE g == [n \in DOMAIN nodeStates |-> nodeStates[n].totalSlots]
      <3>1. g = Gpus
        BY <1>1, <1>2, GpusAssumption
      <3>2. Totals(nodeStates) = SumOf(g)
        BY DEF Totals
      <3> HIDE DEF g
      <3> QED BY <3>1, <3>2
    <2> QED BY <1>1, <2>1, <2>2, <2>3 DEF Known
  <1>6. PlaceInv
    BY <1>1, <1>4, <1>5 DEF PlaceInv, PlanInv
  <1>7. TableInv
    <2>1. Perspectives
      BY <1>2 DEF Perspectives
    <2>2. Sums
      BY <1>1, <1>3 DEF Sums, SumsUp
    <2>3. PlacedAsRequested
      BY <1>1 DEF PlacedAsRequested
    <2>4. OvercommittedOnlyIfSplit
      BY <1>2 DEF OvercommittedOnlyIfSplit, Overcommitted
    <2> QED BY <2>1, <2>2, <2>3, <2>4 DEF TableInv
  <1> QED BY <1>6, <1>7 DEF NodesInv

LEMMA PlaceTables == ASSUME TableInv, Place \/ BestFit PROVE TableInv'
  <1>1. pc' \in {"fit", "panicked"} /\ jobStates' = jobStates /\ changes' = changes
    BY DEF Place, BestFit, tables, world
  <1> QED BY <1>1 DEF TableInv, Perspectives, Sums, SumsUp, PlacedAsRequested, OvercommittedOnlyIfSplit, LockFree

LEMMA BindNodesTableInv == ASSUME PlaceInv, BindNodes PROVE TableInv'
  <1>1. Perspectives' /\ Sums'
    BY BindNodesInv
  <1>2. ASSUME changes' = 0, NoneSplit'
        PROVE  /\ \A n \in DOMAIN nodeStates' : ~Overcommitted(n)'
               /\ \A j \in DOMAIN jobRequests' : jobRequests'[j] > 0 =>
                     j \in DOMAIN jobStates' /\ jobStates'[j].numWorkers = jobRequests'[j]
    <2>1. /\ \A n \in DOMAIN nodeStates' : SumOf(nodeStates'[n].jobNumWorkers) <= nodeStates'[n].totalSlots
          /\ \A j \in DOMAIN jobRequests' : jobRequests'[j] > 0 =>
                j \in DOMAIN jobStates' /\ jobStates'[j].numWorkers = jobRequests'[j]
      BY <1>2, BindNodesFit
    <2>2. ASSUME NEW n \in DOMAIN nodeStates'
          PROVE  ~(SumOf(nodeStates'[n].jobNumWorkers) > nodeStates'[n].totalSlots)
      <3> DEFINE s == SumOf(nodeStates'[n].jobNumWorkers)
                 t == nodeStates'[n].totalSlots
                 m == nodeStates'[n].jobNumWorkers
      <3>1. IsFiniteSet(DOMAIN m) /\ (\A x \in DOMAIN m : m[x] \in Int) /\ t \in Int
        <4>1. PICK b : Binds(b)
          BY BindsNodes
        <4>2. IsNode(nodeStates'[n]) /\ IsMap(m, Jobs, Nat)
          BY <4>1, BindNodesTables
        <4>3. DOMAIN m \subseteq Jobs /\ \A x \in DOMAIN m : m[x] \in Int
          <5> HIDE DEF m
          <5> QED BY <4>2 DEF IsMap
        <4> QED BY <4>2, <4>3, SetsAssumption, FS_Subset DEF IsNode, IsNodeState
      <3>2. s \in Int
        <4> HIDE DEF m
        <4>1. SumOf(m) \in Int
          BY <3>1, SumInt DEF SumOf
        <4> QED BY <4>1 DEF m
      <3>3. s <= t
        BY <2>1
      <3> HIDE DEF s, t
      <3>4. ~(s > t)
        BY <3>1, <3>2, <3>3
      <3> QED BY <3>4 DEF s, t
    <2> QED BY <2>1, <2>2 DEF Overcommitted
  <1> QED BY <1>1, <1>2 DEF TableInv, PlacedAsRequested, OvercommittedOnlyIfSplit

LEMMA RestartTableInv == ASSUME PlaceInv, Restart PROVE TableInv'
  <1>1. Perspectives' /\ Sums'
    BY RestartInv
  <1>2. pc' # "deleting" /\ restarts' # 0
    BY DEF Restart, PlaceInv, TypeInv, TypeOK
  <1> QED BY <1>1, <1>2 DEF TableInv, PlacedAsRequested, OvercommittedOnlyIfSplit

LEMMA NextHolds == NodesInv /\ [Next]_vars => NodesInv'
  <1> SUFFICES ASSUME NodesInv, [Next]_vars PROVE NodesInv'
    OBVIOUS
  <1>1. PlaceInv /\ TableInv
    BY DEF NodesInv
  <1>2. CASE Resched \/ \E j \in Jobs : JobDone(j)
    BY <1>1, <1>2, RequestsInv DEF NodesInv
  <1>3. CASE \/ \E p \in Workers : CreatePod(p) \/ DeletePod(p) \/ EvictPod(p)
             \/ \E n \in Nodes : NodeChanges(n)
             \/ \E p \in doomed : MigratePod(p)
             \/ EndPlace
    BY <1>1, <1>3, WorldInv DEF NodesInv, PodStep
  <1>4. CASE \E p \in added : AddPod(p)
    BY <1>1, <1>4, AddPodInv DEF NodesInv
  <1>5. CASE NodeHandler
    BY <1>1, <1>5, NodeHandlerInv DEF NodesInv
  <1>6. CASE Place
    BY <1>1, <1>6, PlaceInvHolds, PlaceTables DEF NodesInv
  <1>7. CASE BestFit
    BY <1>1, <1>7, BestFitInv, PlaceTables DEF NodesInv
  <1>8. CASE BindNodes
    BY <1>1, <1>8, BindNodesInv, BindNodesTableInv DEF NodesInv
  <1>9. CASE Restart
    BY <1>1, <1>9, RestartInv, RestartTableInv DEF NodesInv
  <1>10. CASE UNCHANGED vars
    <2>1. /\ UNCHANGED <<nodeStates, jobStates, podNodeName, pc, plan, asks, requested, slots, doomed,
                         jobRequests, cluster, nodeEvents, changes, pods, added, restarts, strays>>
      BY <1>10 DEF vars, tables, fitting, world
    <2>2. PlanInv'
      BY <1>1, <2>1, PlanIsKept DEF PlanStays, fitting
    <2>3. TableInv'
      BY <1>1, <2>1, TablesAreKept DEF TablesStay, LockFree
    <2>4. TypeInv /\ TypeOK
      BY <1>1 DEF PlaceInv, TypeInv
    <2>5. TypeOK'
      BY <2>1, <2>4 DEF TypeOK
    <2>6. TypeInv'
      BY <2>1, <2>4, <2>5 DEF TypeInv
    <2> QED BY <2>2, <2>3, <2>6 DEF NodesInv, PlaceInv
  <1> QED BY <1>2, <1>3, <1>4, <1>5, <1>6, <1>7, <1>8, <1>9, <1>10 DEF Next, PlaceStep

LEMMA NodesInvHolds == Spec => []NodesInv
BY InitHolds, NextHolds, PTL DEF Spec

(***************************************************************************)
(* Theorems.                                                               *)
(***************************************************************************)

\* The tables, the plan and the pods have their types: bestFit finds a node for every
\* part it binds, and updatePodNodeName one for every worker.
THEOREM PlacementTypes == Spec => []TypeOK
  <1>1. NodesInv => TypeOK
    BY DEF NodesInv, PlaceInv, TypeInv
  <1> QED BY <1>1, NodesInvHolds, PTL

\* The two perspectives of types.go, nodeStates and jobStates, agree whenever the
\* lock is free, and the free slots of a node are those that its workers leave.
THEOREM PlacementPerspectives == Spec => []PerspectivesAgree
  <1>1. NodesInv => PerspectivesAgree
    BY DEF NodesInv, TableInv, Perspectives, PerspectivesAgree
  <1> QED BY <1>1, NodesInvHolds, PTL

\* The slots on the list of a job sum up to its workers as long as no node leaves.
THEOREM ListsSumUp == Spec => []SlotsSumUp
  <1>1. NodesInv => SlotsSumUp
    BY DEF NodesInv, TableInv, Sums, SlotsSumUp, SumsUp
  <1> QED BY <1>1, NodesInvHolds, PTL

\* Place() gives every job the workers that the scheduler has allocated, if it knows
\* the nodes of the scheduler and splits no job.
THEOREM PlacesAllWorkers == Spec => []PlacedAsRequested
  <1>1. NodesInv => PlacedAsRequested
    BY DEF NodesInv, TableInv
  <1> QED BY <1>1, NodesInvHolds, PTL

\* No node has more workers than slots, if no job is split and no node has left and
\* no scheduler has been restarted since.
THEOREM OvercommitsOnlyIfSplit == Spec => []OvercommittedOnlyIfSplit
  <1>1. NodesInv => OvercommittedOnlyIfSplit
    BY DEF NodesInv, TableInv
  <1> QED BY <1>1, NodesInvHolds, PTL

(***************************************************************************)
(* The tolerations of pods.                                                *)
(***************************************************************************)

\* What becomes of the other pods when one is deleted.
LEMMA DropPodTolerates ==
    ASSUME \A q \in DOMAIN pods \ strays : Tolerates(q),
           NEW p, DropPod(p), podNodeName' = podNodeName,
           doomed' = doomed \/ doomed' = doomed \ {p}
    PROVE  \A q \in DOMAIN pods' \ strays' : Tolerates(q)'
  <1> SUFFICES ASSUME NEW q \in DOMAIN pods' \ strays' PROVE Tolerates(q)'
    OBVIOUS
  <1>1. /\ q # p /\ q \in DOMAIN pods /\ pods'[q] = pods[q]
        /\ added' = added \ {p} /\ strays' = strays \ {p}
    BY DEF DropPod, Without, Restrict
  <1>2. q \in DOMAIN pods \ strays /\ (q \in doomed' <=> q \in doomed) /\ (q \in added' <=> q \in added)
    BY <1>1
  <1> QED BY <1>1, <1>2 DEF Tolerates

LEMMA InitTolerates == Init => Tolerations
BY DEF Init, Tolerations, EmptyMap

\* A sequence that is neither empty nor longer than one holds its head alone.
LEMMA SingleSeq ==
  ASSUME NEW S, NEW s \in Seq(S), s # <<>>, ~(Len(s) > 1)
  PROVE  s = <<Head(s)>>
  <1>1. Len(s) \in Nat \ {0}
    BY EmptySeq
  <1>2. \A n \in Nat \ {0} : ~(n > 1) => n = 1
    OBVIOUS
  <1>3. Len(s) = 1
    BY <1>1, <1>2
  <1> QED BY <1>3

LEMMA NextTolerates == TypeOK /\ Tolerations /\ [Next]_vars => Tolerations'
  <1> SUFFICES ASSUME TypeOK, Tolerations, [Next]_vars, pc' # "panicked"
               PROVE  /\ pc' # "deleting" => doomed' = {}
                      /\ \A q \in DOMAIN pods' \ strays' : Tolerates(q)'
    BY DEF Tolerations
  <1>1. \A q \in DOMAIN pods : pods[q] \in Seq(Nodes)
    BY DEF TypeOK, IsMap
  <1>2. ASSUME pc # "panicked"
        PROVE  /\ pc # "deleting" => doomed = {}
               /\ \A q \in DOMAIN pods \ strays : Tolerates(q)
    BY <1>2 DEF Tolerations
  <1>3. CASE \/ Resched \/ (\E j \in Jobs : JobDone(j)) \/ (\E n \in Nodes : NodeChanges(n))
             \/ NodeHandler \/ Place \/ BestFit \/ EndPlace \/ UNCHANGED vars
    <2>1. /\ podNodeName' = podNodeName /\ doomed' = doomed /\ pods' = pods /\ added' = added /\ strays' = strays
          /\ pc # "panicked" /\ (pc = "deleting" => pc' = "deleting" \/ doomed = {})
      <3>1. CASE Resched \/ Place \/ BestFit
        BY <3>1 DEF Resched, Place, BestFit, tables, world
      <3>2. CASE (\E j \in Jobs : JobDone(j)) \/ (\E n \in Nodes : NodeChanges(n)) \/ UNCHANGED vars
        BY <3>2 DEF JobDone, NodeChanges, vars, tables, world
      <3>3. CASE NodeHandler
        <4>1. pc' = pc \/ pc' = "panicked"
          BY <3>3 DEF NodeHandler, AddNode, DeleteNode
        <4> QED BY <3>3, <4>1 DEF NodeHandler
      <3>4. CASE EndPlace
        BY <3>4 DEF EndPlace, tables, world
      <3> QED BY <1>3, <3>1, <3>2, <3>3, <3>4
    <2>2. \A q \in DOMAIN pods' \ strays' : Tolerates(q)'
      BY <1>2, <2>1 DEF Tolerates
    <2> QED BY <1>2, <2>1, <2>2
  <1>4. CASE \E p \in Workers : CreatePod(p)
    <2>1. PICK p \in Workers : CreatePod(p)
      BY <1>4
    <2>2. /\ podNodeName' = podNodeName /\ doomed' = doomed /\ strays' = strays /\ pc' = pc
          /\ added' = added \cup {p} /\ p \notin DOMAIN pods
          /\ DOMAIN pods' = DOMAIN pods \cup {p} /\ pods'[p] = <<>>
          /\ \A q \in DOMAIN pods : pods'[q] = pods[q]
      BY <2>1 DEF CreatePod, tables, Put
    <2> QED BY <1>2, <2>2 DEF Tolerates
  <1>5. CASE \E p \in Workers : DeletePod(p) \/ EvictPod(p)
    <2>1. PICK p \in Workers : DeletePod(p) \/ EvictPod(p)
      BY <1>5
    <2>2. /\ podNodeName' = podNodeName /\ doomed' = doomed /\ pc' = pc /\ DropPod(p)
      BY <2>1 DEF DeletePod, EvictPod, tables
    <2> QED BY <1>2, <2>2, DropPodTolerates
  <1>6. CASE \E p \in doomed : MigratePod(p)
    <2>1. PICK p \in doomed : MigratePod(p)
      BY <1>6
    <2>2. /\ podNodeName' = podNodeName /\ doomed' = doomed \ {p} /\ pc' = "deleting" /\ pc = "deleting"
          /\ DropPod(p) \/ (strays' = strays \cup {p} /\ pods' = pods /\ added' = added)
      BY <2>1 DEF MigratePod, tables
    <2>3. CASE DropPod(p)
      BY <1>2, <2>2, <2>3, DropPodTolerates
    <2>4. CASE strays' = strays \cup {p} /\ pods' = pods /\ added' = added
      BY <1>2, <2>2, <2>4 DEF Tolerates
    <2> QED BY <2>2, <2>3, <2>4
  <1>7. CASE \E p \in added : AddPod(p)
    <2>1. PICK p \in added : AddPod(p)
      BY <1>7
    <2>2. /\ podNodeName' = podNodeName /\ doomed' = doomed /\ pc' = pc /\ added' = added \ {p}
          /\ \/ /\ p \in DOMAIN podNodeName /\ strays' = strays
                /\ pods' = IF podNodeName[p] \in Range(pods[p]) THEN pods
                           ELSE [pods EXCEPT ![p] = Append(@, podNodeName[p])]
             \/ strays' = strays \cup {p} /\ pods' = pods
      BY <2>1 DEF AddPod, tables
    <2>3. DOMAIN pods' = DOMAIN pods /\ \A q \in DOMAIN pods : q # p => pods'[q] = pods[q]
      BY <2>2
    <2>4. ASSUME p \in DOMAIN pods \ strays', p \notin strays, p \in DOMAIN podNodeName
          PROVE  p \in doomed \/ pods'[p] = <<podNodeName[p]>>
      <3>1. p \in doomed \/ pods[p] = <<podNodeName[p]>> \/ pods[p] = <<>>
        BY <1>2, <2>2, <2>4 DEF Tolerates
      <3>2. CASE pods[p] = <<podNodeName[p]>>
        <4>1. podNodeName[p] \in Range(pods[p])
          BY <3>2 DEF Range
        <4> QED BY <2>2, <2>4, <3>2, <4>1
      <3>3. CASE pods[p] = <<>>
        <4>1. podNodeName[p] \notin Range(pods[p])
          BY <3>3 DEF Range
        <4>2. pods'[p] = Append(<<>>, podNodeName[p])
          BY <2>2, <2>4, <3>3, <4>1
        <4>3. Append(<<>>, podNodeName[p]) = <<podNodeName[p]>>
          OBVIOUS
        <4> QED BY <4>2, <4>3
      <3> QED BY <3>1, <3>2, <3>3
    <2>5. ASSUME NEW q \in DOMAIN pods' \ strays' PROVE Tolerates(q)'
      <3>1. CASE q = p
        <4>1. p \in DOMAIN podNodeName /\ p \in DOMAIN pods \ strays' /\ p \notin strays
          BY <2>2, <2>3, <2>5, <3>1
        <4> QED BY <2>2, <2>4, <3>1, <4>1 DEF Tolerates
      <3>2. CASE q # p
        <4>1. Tolerates(q) /\ pods'[q] = pods[q]
          BY <1>2, <2>2, <2>3, <2>5, <3>2
        <4> QED BY <2>2, <3>2, <4>1 DEF Tolerates
      <3> QED BY <3>1, <3>2
    <2> QED BY <1>2, <2>2, <2>5
  <1>8. CASE BindNodes
    <2>1. /\ pc = "fit" /\ pc' = "deleting" /\ pods' = pods /\ added' = added
          /\ doomed' = Moved(podNodeName')
          /\ strays' = strays \cup { p \in DOMAIN pods \ DOMAIN podNodeName' : p \notin added \/ pods[p] # <<>> }
      BY <1>8 DEF BindNodes
    <2>2. ASSUME NEW q \in DOMAIN pods' \ strays' PROVE Tolerates(q)'
      <3>1. q \in DOMAIN pods \ strays /\ pods'[q] = pods[q] /\ (q \in added' <=> q \in added)
        BY <2>1, <2>2
      <3>2. IF q \in DOMAIN podNodeName
            THEN pods[q] = <<podNodeName[q]>> \/ (q \in added /\ pods[q] = <<>>)
            ELSE q \in added /\ pods[q] = <<>>
        BY <1>2, <2>1, <3>1 DEF Tolerates
      <3>3. CASE q \notin DOMAIN podNodeName'
        BY <2>1, <2>2, <3>1, <3>3 DEF Tolerates
      <3>4. CASE q \in DOMAIN podNodeName' /\ q \notin DOMAIN podNodeName
        BY <3>1, <3>2, <3>4 DEF Tolerates
      <3>5. CASE q \in DOMAIN podNodeName' /\ q \in DOMAIN podNodeName
        <4>1. podNodeName'[q] # podNodeName[q] => q \in doomed'
          BY <2>1, <3>5 DEF Moved
        <4> QED BY <3>1, <3>2, <3>5, <4>1 DEF Tolerates
      <3> QED BY <3>3, <3>4, <3>5
    <2> QED BY <2>1, <2>2
  <1>9. CASE Restart
    <2>1. /\ podNodeName' = [p \in { q \in DOMAIN pods : pods[q] # <<>> } |-> Head(pods[p])]
          /\ doomed' = {} /\ added' = DOMAIN pods /\ pods' = pods
          /\ strays' = { p \in DOMAIN pods : Len(pods[p]) > 1 }
      BY <1>9 DEF Restart
    <2>2. ASSUME NEW q \in DOMAIN pods' \ strays' PROVE Tolerates(q)'
      <3>1. q \in DOMAIN pods /\ pods[q] \in Seq(Nodes) /\ ~(Len(pods[q]) > 1) /\ q \in added'
            /\ pods'[q] = pods[q]
        BY <1>1, <2>1, <2>2
      <3>2. CASE pods[q] = <<>>
        <4>1. q \notin DOMAIN podNodeName'
          BY <2>1, <3>2
        <4> QED BY <3>1, <3>2, <4>1 DEF Tolerates
      <3>3. CASE pods[q] # <<>>
        <4>1. q \in DOMAIN podNodeName' /\ podNodeName'[q] = Head(pods[q])
          BY <2>1, <3>1, <3>3
        <4>2. pods[q] = <<Head(pods[q])>>
          <5> QED BY <3>1, <3>3, SingleSeq
        <4> QED BY <3>1, <4>1, <4>2 DEF Tolerates
      <3> QED BY <3>2, <3>3
    <2> QED BY <2>1, <2>2
  <1> QED BY <1>3, <1>4, <1>5, <1>6, <1>7, <1>8, <1>9 DEF Next, PlaceStep

\* A pod in the table whose addition has been handled tolerates its node and no other
\* one between two calls of Place(), if it is none of the strays.
THEOREM PodsTolerateTheirNode == Spec => []PodsFollowTable
  <1>1. NodesInv => TypeOK
    BY DEF NodesInv, PlaceInv, TypeInv
  <1>2. Tolerations => PodsFollowTable
    BY DEF Tolerations, Tolerates, PodsFollowTable, Settled
  <1> QED BY <1>1, <1>2, NodesInvHolds, InitTolerates, NextTolerates, PTL DEF Spec
=============================================================================
