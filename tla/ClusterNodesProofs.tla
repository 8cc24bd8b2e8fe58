------------------------- MODULE ClusterNodesProofs --------------------------
(***************************************************************************)
(* Theorems about ClusterNodes, for every set of nodes, every set of sizes *)
(* and every bound: what TotalGpus will be is foreseen from the notices    *)
(* that are still to be handled.                                           *)
(***************************************************************************)
EXTENDS ClusterNodes, MapsProofs

(***************************************************************************)
(* The inductive invariant.                                                *)
(***************************************************************************)

\* What a handler will add to TotalGpus, but for addNode, which counts anew.
Effect(m) ==
    IF m.kind = "delete" THEN 0 - m.old.gpus
    ELSE IF m.kind = "update" /\ m.old.UID # m.new.UID THEN Difference(m.old, m.new)
    ELSE 0

\* TotalGpus, which is total now, after each of the notices ns.
IsForecast(p, ns, total) ==
    /\ p \in [0..Len(ns) -> Int]
    /\ p[0] = total
    /\ \A i \in 1..Len(ns) : p[i] = p[i - 1] + Effect(ns[i])

NoAdd(ns, k) == \A i \in 1..k : ns[i].kind # "add"

\* What a negative count, and what a wrong one, is explained by.
Grounds == {"ahead", "uncounted", "resized"}

\* The informer while it watches, and after a crash; a node that comes back has
\* another UID; a change of the count is planned for, unless its event is ignored.
Synced ==
    /\ watching => up /\ store = cluster
    /\ ~up => store = EmptyMap /\ notices = <<>>
    /\ \A n \in DOMAIN store : store[n].UID <= changes
    /\ \A n \in DOMAIN cluster : cluster[n].UID <= changes
    /\ drift \cap Grounds = {} =>
          \A n \in DOMAIN store \cap DOMAIN cluster :
              store[n].UID = cluster[n].UID => store[n] = cluster[n]
    /\ up /\ "uncounted" \notin drift => reschedCh \/ ignored \/ planned = TotalGpus
    /\ placing => ~ignored

\* Unless there are grounds, the notices take away no more than there is, and leave
\* at least what the informer has seen; nothing else, if nothing is amiss.
Foreseen(p) ==
    /\ drift \cap Grounds = {} =>
          /\ \A k \in 0..Len(notices) : NoAdd(notices, k) => p[k] >= 0
          /\ up /\ NoAdd(notices, Len(notices)) => p[Len(notices)] >= GpusOf(store)
    /\ (/\ up /\ drift = {} /\ NoAdd(notices, Len(notices))
        /\ watching \/ DOMAIN cluster \subseteq DOMAIN store)
          => p[Len(notices)] = GpusOf(store)

CountInv == TypeOK /\ Synced /\ \E p : IsForecast(p, notices, TotalGpus) /\ Foreseen(p)

(***************************************************************************)
(* The GPUs of some nodes.                                                 *)
(***************************************************************************)

IsNodes(m) == IsMap(m, Nodes, Node)
Gpus(m) == [n \in DOMAIN m |-> m[n].gpus]

\* A map of nodes is finite.
LEMMA NodesFinite ==
    ASSUME NEW m, IsNodes(m)
    PROVE  /\ IsFiniteSet(DOMAIN m)
           /\ \A n \in DOMAIN m : m[n] \in Node /\ m[n].gpus \in Nat /\ m[n].UID \in Nat /\ Gpus(m)[n] \in Nat
  BY NodesAssumption, FS_Subset DEF IsNodes, IsMap, Node, Gpus

\* Their GPUs are a number.
LEMMA GpusNat == ASSUME NEW m, IsNodes(m) PROVE GpusOf(m) \in Nat
  BY NodesFinite, SumNat DEF GpusOf, Gpus

LEMMA GpusEmpty == GpusOf(EmptyMap) = 0
  <1>1. DOMAIN EmptyMap = {}
    BY DEF EmptyMap
  <1> QED BY <1>1, SumEmpty DEF GpusOf

\* A node less is its GPUs less.
LEMMA GpusWithout ==
    ASSUME NEW m, IsNodes(m), NEW n \in DOMAIN m
    PROVE  GpusOf(Without(m, {n})) = GpusOf(m) - m[n].gpus
  <1> DEFINE w == Without(m, {n})
  <1>1. /\ DOMAIN w = DOMAIN m \ {n}
        /\ \A x \in DOMAIN w : Gpus(w)[x] = Gpus(m)[x]
    BY DEF Without, Restrict, Gpus
  <1>2. IsFiniteSet(DOMAIN w)
    BY <1>1, NodesFinite, FS_Subset
  <1>3. \A x \in DOMAIN w : Gpus(w)[x] \in Int
    <2>1. \A x \in DOMAIN m : Gpus(m)[x] \in Int
      BY NodesFinite
    <2> HIDE DEF w
    <2> QED BY <1>1, <2>1
  <1>4. SumOver(Gpus(w), DOMAIN w) = SumOver(Gpus(m), DOMAIN w)
    BY <1>1, <1>2, <1>3, SumSame
  <1>5. SumOver(Gpus(m), DOMAIN m) = Gpus(m)[n] + SumOver(Gpus(m), DOMAIN m \ {n})
    BY NodesFinite, SumRemove
  <1>6. SumOver(Gpus(m), DOMAIN m \ {n}) \in Int /\ Gpus(m)[n] = m[n].gpus /\ m[n].gpus \in Int
    BY NodesFinite, FS_Subset, SumInt DEF Gpus
  <1> QED BY <1>1, <1>4, <1>5, <1>6 DEF GpusOf, Gpus

\* Nodes that are all among others, with the same GPUs, have no more.
LEMMA GpusFewer ==
    ASSUME NEW m, IsNodes(m), NEW k, IsNodes(k), DOMAIN m \subseteq DOMAIN k,
           \A n \in DOMAIN m : m[n] = k[n]
    PROVE  /\ GpusOf(m) <= GpusOf(k)
           /\ DOMAIN k \subseteq DOMAIN m => GpusOf(m) = GpusOf(k)
  <1>1. \A n \in DOMAIN m : Gpus(m)[n] = Gpus(k)[n] /\ Gpus(m)[n] \in Int
    BY NodesFinite DEF Gpus
  <1>2. SumOver(Gpus(m), DOMAIN m) = SumOver(Gpus(k), DOMAIN m)
    BY <1>1, NodesFinite, SumSame
  <1>3. SumOver(Gpus(k), DOMAIN m) <= SumOver(Gpus(k), DOMAIN k)
    BY NodesFinite, SumSubset
  <1> QED BY <1>2, <1>3 DEF GpusOf, Gpus

(***************************************************************************)
(* Type correctness.                                                       *)
(***************************************************************************)

\* A notice that is handled leaves the others.
LEMMA TailNotices ==
    ASSUME TypeOK, notices # <<>>
    PROVE  /\ Len(notices) \in Nat \ {0}
           /\ Tail(notices) \in Seq(Notice) /\ Len(Tail(notices)) = Len(notices) - 1
           /\ \A i \in 1..(Len(notices) - 1) : Tail(notices)[i] = notices[i + 1]
           /\ Head(notices) = notices[1] /\ notices[1] \in Notice
  BY HeadTailProperties DEF TypeOK

\* What is put into the queue and the store of the informer by a change.
LEMMA ChangeType ==
    ASSUME TypeOK, NEW nodes, IsNodes(nodes), NEW m \in Notice, Change(nodes, m), drift' \subseteq Reasons
    PROVE  TypeOK'
  <1>1. IsMap(cluster', Nodes, Node) /\ IsMap(store', Nodes, Node)
    BY DEF Change, TypeOK, IsNodes
  <1>2. notices' \in Seq(Notice)
    <2>1. Append(notices, m) \in Seq(Notice)
      BY AppendProperties DEF TypeOK
    <2> QED BY <2>1 DEF Change, TypeOK
  <1>3. changes' \in Nat /\ disconnects' \in Nat /\ failures' \in Nat /\ restarts' \in Nat
    BY DEF Change, TypeOK
  <1>4. watching' = watching /\ UNCHANGED <<up, TotalGpus, reschedCh, loop>>
    BY DEF Change, scheduler
  <1> QED BY <1>1, <1>2, <1>3, <1>4 DEF TypeOK, loop

LEMMA PutNodes ==
    ASSUME NEW m, IsNodes(m), NEW n \in Nodes, NEW x \in Node PROVE IsNodes(Put(m, n, x))
  BY PutMap DEF IsNodes

LEMMA WithoutNodes == ASSUME NEW m, IsNodes(m), NEW K PROVE IsNodes(Without(m, K))
  BY WithoutMap DEF IsNodes

\* The new state of each change of the nodes.
LEMMA ChangeNodes ==
    ASSUME TypeOK, NEW n \in Nodes
    PROVE  /\ \A gpus \in Sizes : Join(n, gpus) =>
                 /\ [UID |-> changes + 1, gpus |-> gpus] \in Node
                 /\ IsNodes(Put(cluster, n, [UID |-> changes + 1, gpus |-> gpus]))
           /\ Leave(n) => cluster[n] \in Node /\ IsNodes(Without(cluster, {n}))
           /\ \A gpus \in Sizes : Resize(n, gpus) =>
                 /\ cluster[n] \in Node /\ [cluster[n] EXCEPT !.gpus = gpus] \in Node
                 /\ [cluster[n] EXCEPT !.gpus = gpus].UID = cluster[n].UID
                 /\ IsNodes(Put(cluster, n, [cluster[n] EXCEPT !.gpus = gpus]))
  <1>1. IsNodes(cluster) /\ changes \in Nat /\ changes + 1 \in Nat
    BY DEF TypeOK, IsNodes
  <1>2. n \in DOMAIN cluster => cluster[n] \in Node
    BY <1>1, NodesFinite
  <1>3. ASSUME NEW gpus \in Sizes PROVE [UID |-> changes + 1, gpus |-> gpus] \in Node
    BY <1>1, NodesAssumption DEF Node
  <1>4. ASSUME NEW gpus \in Sizes, n \in DOMAIN cluster
        PROVE  /\ [cluster[n] EXCEPT !.gpus = gpus] \in Node
               /\ [cluster[n] EXCEPT !.gpus = gpus].UID = cluster[n].UID
    BY <1>2, <1>4, NodesAssumption DEF Node
  <1> QED BY <1>1, <1>2, <1>3, <1>4, PutNodes, WithoutNodes DEF Join, Leave, Resize

LEMMA NoticeTypes ==
    /\ [kind |-> "add"] \in Notice /\ [kind |-> "tombstone"] \in Notice
    /\ \A x \in Node : [kind |-> "delete", old |-> x] \in Notice
    /\ \A x, y \in Node : [kind |-> "update", old |-> x, new |-> y] \in Notice
  BY DEF Notice

\* The notices of a new list: those there were, one about each node of order,
\* which is new or has changed, and one about each of the nodes that are gone.
Reported(order, gone) ==
    /\ gone \in Nat /\ (gone = 0 <=> DOMAIN store \subseteq DOMAIN cluster)
    /\ order \in Seq(DOMAIN cluster)
    /\ \A i, k \in 1..Len(order) : i # k => order[i] # order[k]
    /\ \A n \in DOMAIN cluster :
          (n \in DOMAIN store => store[n] # cluster[n]) <=> \E i \in 1..Len(order) : order[i] = n
    /\ notices' \in Seq(Notice)
    /\ Len(notices') = Len(notices) + Len(order) + gone
    /\ \A i \in 1..Len(notices) : notices'[i] = notices[i]
    /\ \A i \in 1..Len(order) : notices'[Len(notices) + i] = Listed(order[i])
    /\ \A i \in 1..gone : notices'[Len(notices) + Len(order) + i] = [kind |-> "tombstone"]

\* A list reports so.
LEMMA ListType == ASSUME TypeOK, List PROVE \E order, gone : Reported(order, gone)
  <1> DEFINE D == { n \in DOMAIN cluster : n \in DOMAIN store => store[n] # cluster[n] }
             G == DOMAIN store \ DOMAIN cluster
             g == Cardinality(G)
             stones == [i \in 1..g |-> [kind |-> "tombstone"]]
  <1>1. IsNodes(cluster) /\ IsNodes(store)
    BY DEF TypeOK, IsNodes
  <1>2. IsFiniteSet(D) /\ IsFiniteSet(G) /\ IsFiniteSet(DOMAIN cluster)
    BY <1>1, NodesFinite, FS_Subset
  <1>3. g \in Nat /\ (g = 0 <=> G = {}) /\ Cardinality(D) \in Nat
    BY <1>2, FS_CardinalityType, FS_EmptySet
  <1>4. PICK order \in SetToSeqs(D) :
            notices' = notices \o [i \in DOMAIN order |-> Listed(order[i])] \o stones
    BY DEF List
  <1> HIDE DEF D, g
  <1>5. order \in [1..Cardinality(D) -> D] /\ \A i, k \in 1..Cardinality(D) : i # k => order[i] # order[k]
    BY DEF SetToSeqs
  <1>6. order \in Seq(D) /\ Len(order) = Cardinality(D) /\ DOMAIN order = 1..Cardinality(D)
    BY <1>3, <1>5
  <1>7. \A n \in D : \E i \in 1..Len(order) : order[i] = n
    <2>1. order \in Bijection(1..Cardinality(D), { order[i] : i \in 1..Cardinality(D) })
      BY <1>5 DEF Bijection, Injection, Surjection, IsInjective
    <2>2. Cardinality({ order[i] : i \in 1..Cardinality(D) }) = Cardinality(D)
      BY <1>3, <2>1, FS_CountingElements DEF ExistsBijection
    <2>3. { order[i] : i \in 1..Cardinality(D) } \subseteq D
      BY <1>5
    <2>4. { order[i] : i \in 1..Cardinality(D) } = D
      BY <1>2, <2>2, <2>3, FS_Subset
    <2> QED BY <1>6, <2>4
  <1>8. D \subseteq DOMAIN cluster /\ order \in Seq(DOMAIN cluster)
    BY <1>6 DEF D
  <1> DEFINE listed == [i \in DOMAIN order |-> Listed(order[i])]
  <1>9. \A n \in DOMAIN cluster : Listed(n) \in Notice
    BY <1>1, NodesFinite, NoticeTypes DEF Listed
  <1>10. listed \in Seq(Notice) /\ Len(listed) = Len(order) /\ \A i \in 1..Len(order) : listed[i] = Listed(order[i])
    BY <1>3, <1>6, <1>8, <1>9
  <1>11. stones \in Seq(Notice) /\ Len(stones) = g /\ \A i \in 1..g : stones[i] = [kind |-> "tombstone"]
    BY <1>3, NoticeTypes
  <1>12. notices \in Seq(Notice) /\ Len(notices) \in Nat /\ Len(order) \in Nat
    BY <1>3, <1>6 DEF TypeOK
  <1> HIDE DEF listed, stones
  <1>13. notices' = notices \o listed \o stones
    BY <1>4 DEF listed
  <1>14. /\ notices \o listed \in Seq(Notice) /\ Len(notices \o listed) = Len(notices) + Len(order)
         /\ \A i \in 1..Len(notices) : (notices \o listed)[i] = notices[i]
         /\ \A i \in 1..Len(order) : (notices \o listed)[Len(notices) + i] = Listed(order[i])
    <2> HIDE <1>13
    <2> QED BY <1>10, <1>12, ConcatParts
  <1> DEFINE both == notices \o listed
  <1> HIDE DEF both
  <1>15. /\ notices' \in Seq(Notice) /\ Len(notices') = Len(notices) + Len(order) + g
         /\ \A i \in 1..(Len(notices) + Len(order)) : notices'[i] = both[i]
         /\ \A i \in 1..g : notices'[Len(notices) + Len(order) + i] = stones[i]
    <2>1. notices' = both \o stones /\ both \in Seq(Notice) /\ Len(both) = Len(notices) + Len(order)
      BY <1>13, <1>14 DEF both
    <2>2. /\ both \o stones \in Seq(Notice) /\ Len(both \o stones) = Len(both) + Len(stones)
          /\ \A i \in 1..Len(both) : (both \o stones)[i] = both[i]
          /\ \A i \in 1..Len(stones) : (both \o stones)[Len(both) + i] = stones[i]
      <3>1. both \in Seq(Notice) /\ stones \in Seq(Notice)
        BY <1>11, <2>1
      <3> QED BY ONLY <3>1, ConcatParts
    <2>3. Len(stones) = g /\ Len(both) = Len(notices) + Len(order) /\ notices' = both \o stones
      BY <1>11, <2>1
    <2> QED BY ONLY <2>2, <2>3
  <1>16. /\ \A i \in 1..Len(notices) : notices'[i] = notices[i]
         /\ \A i \in 1..Len(order) : notices'[Len(notices) + i] = Listed(order[i])
    <2>1. ASSUME NEW i \in 1..Len(notices) PROVE notices'[i] = notices[i]
      BY <1>12, <1>14, <1>15 DEF both
    <2>2. ASSUME NEW i \in 1..Len(order) PROVE notices'[Len(notices) + i] = Listed(order[i])
      <3> DEFINE k == Len(notices) + i
      <3>1. k \in 1..(Len(notices) + Len(order))
        BY <1>12
      <3>2. both[k] = Listed(order[i])
        BY <1>14 DEF both
      <3> HIDE DEF k
      <3>3. notices'[k] = Listed(order[i])
        BY <1>15, <3>1, <3>2
      <3> QED BY <3>3 DEF k
    <2> QED BY <2>1, <2>2
  <1>17. \A n \in DOMAIN cluster :
            (n \in DOMAIN store => store[n] # cluster[n]) <=> \E i \in 1..Len(order) : order[i] = n
    BY <1>5, <1>6, <1>7 DEF D
  <1>18. g = 0 <=> DOMAIN store \subseteq DOMAIN cluster
    BY <1>3
  <1>19. \A i, k \in 1..Len(order) : i # k => order[i] # order[k]
    BY <1>5, <1>6
  <1>20. \A i \in 1..g : notices'[Len(notices) + Len(order) + i] = [kind |-> "tombstone"]
    BY <1>11, <1>15
  <1> HIDE DEF G
  <1>21. Reported(order, g)
    BY <1>3, <1>8, <1>15, <1>16, <1>17, <1>18, <1>19, <1>20 DEF Reported
  <1> QED BY <1>21

\* Every step keeps the types.
LEMMA NextType == ASSUME TypeOK, [Next]_vars PROVE TypeOK'
  <1>1. ASSUME NEW n \in Nodes, NEW gpus \in Sizes, Join(n, gpus) PROVE TypeOK'
    BY <1>1, ChangeNodes, ChangeType, NoticeTypes DEF Join, TypeOK
  <1>2. ASSUME NEW n \in Nodes, Leave(n) PROVE TypeOK'
    <2>1. drift' \subseteq Reasons
      BY <1>2 DEF Leave, TypeOK, Reasons
    <2> QED BY <1>2, <2>1, ChangeNodes, ChangeType, NoticeTypes DEF Leave
  <1>3. ASSUME NEW n \in Nodes, NEW gpus \in Sizes, Resize(n, gpus) PROVE TypeOK'
    <2>1. drift' \subseteq Reasons
      BY <1>3 DEF Resize, TypeOK, Reasons
    <2> QED BY <1>3, <2>1, ChangeNodes, ChangeType, NoticeTypes DEF Resize
  <1>4. CASE Disconnect
    <2>1. disconnects' \in Nat
      BY <1>4 DEF Disconnect, TypeOK
    <2> QED BY <1>4, <2>1 DEF Disconnect, TypeOK, scheduler, loop
  <1>5. CASE Crash
    <2>1. restarts' \in Nat /\ notices' \in Seq(Notice)
      BY <1>5 DEF Crash, TypeOK
    <2> QED BY <1>5, <2>1, EmptyIsMap DEF Crash, TypeOK
  <1>6. CASE Handlers
    <2>1. /\ notices' \in Seq(Notice) /\ UNCHANGED <<up, planned, placing, ignored, cluster, store, watching, changes, disconnects, restarts>>
          /\ Head(notices) \in Notice
      BY <1>6, TailNotices DEF Handlers, AddNode, UpdateNode, DeleteNode, DeleteUnknown, Handle, loop
    <2>2. GpusOf(cluster) \in Nat
      BY GpusNat DEF TypeOK, IsNodes
    <2>3. CASE AddNode
      <3>1. TotalGpus' \in Int /\ failures' \in Nat
        BY <2>2, <2>3 DEF AddNode, DiscoverGPUs, TypeOK
      <3>2. drift' \subseteq Reasons
        BY <2>3 DEF AddNode, Reasons
      <3> QED BY <2>1, <2>3, <3>1, <3>2 DEF AddNode, TriggerResched, TypeOK
    <2>4. CASE UpdateNode
      <3>1. Head(notices).old \in Node /\ Head(notices).new \in Node
        BY <2>1, <2>4 DEF UpdateNode, Handle, Notice
      <3>2. TotalGpus + Difference(Head(notices).old, Head(notices).new) \in Int
        BY <3>1 DEF Difference, Node, TypeOK
      <3> QED BY <2>1, <2>4, <3>2 DEF UpdateNode, TriggerResched, TypeOK
    <2>5. CASE DeleteNode
      <3>1. Head(notices).old \in Node
        BY <2>1, <2>5 DEF DeleteNode, Handle, Notice
      <3>2. TotalGpus - Head(notices).old.gpus \in Int
        BY <3>1 DEF Node, TypeOK
      <3> QED BY <2>1, <2>5, <3>2 DEF DeleteNode, TriggerResched, TypeOK
    <2>6. CASE DeleteUnknown
      BY <2>1, <2>6 DEF DeleteUnknown, TypeOK
    <2> QED BY <1>6, <2>3, <2>4, <2>5, <2>6 DEF Handlers
  <1>7. CASE List
    <2>1. notices' \in Seq(Notice)
      BY <1>7, ListType DEF Reported
    <2>2. drift' \subseteq Reasons
      BY <1>7 DEF List, TypeOK, Reasons
    <2> QED BY <1>7, <2>1, <2>2 DEF List, TypeOK, scheduler, loop, bounds
  <1>8. CASE Resched \/ FinishResched
    BY <1>8 DEF Resched, FinishResched, TypeOK, informer, bounds
  <1>9. CASE Start
    <2>1. GpusOf(cluster) \in Nat
      BY GpusNat DEF TypeOK, IsNodes
    <2> QED BY <1>9, <2>1 DEF Start, DiscoverGPUs, TriggerResched, TypeOK, loop, informer, bounds
  <1>10. CASE UNCHANGED vars
    BY <1>10 DEF vars, TypeOK, scheduler, loop, informer, bounds
  <1> QED BY <1>1, <1>2, <1>3, <1>4, <1>5, <1>6, <1>7, <1>8, <1>9, <1>10 DEF Next, Environment

(***************************************************************************)
(* Synced is inductive.                                                    *)
(***************************************************************************)

\* A change of the nodes, where the informer sees it and where it does not.
LEMMA ChangeSynced ==
    ASSUME CountInv, NEW n \in Nodes, Leave(n) \/ \E gpus \in Sizes : Join(n, gpus) \/ Resize(n, gpus)
    PROVE  Synced'
  <1> USE DEF CountInv
  <1>1. IsNodes(cluster) /\ IsNodes(store) /\ changes \in Nat
    BY DEF TypeOK, IsNodes
  <1>2. /\ \A x \in DOMAIN cluster : cluster[x].UID \in Nat /\ cluster[x].UID <= changes
        /\ \A x \in DOMAIN store : store[x].UID \in Nat /\ store[x].UID <= changes
    BY <1>1, NodesFinite DEF Synced
  <1>3. PICK nodes, m : Change(nodes, m)
    BY DEF Join, Leave, Resize
  <1>4. /\ cluster' = nodes /\ changes' = changes + 1
        /\ watching => store' = nodes
        /\ ~watching => UNCHANGED <<store, notices>>
        /\ UNCHANGED <<up, TotalGpus, reschedCh, planned, placing, ignored, watching>>
    BY <1>3 DEF Change, scheduler, loop
  <1>5. /\ \A x \in DOMAIN cluster' : x # n => x \in DOMAIN cluster /\ cluster'[x] = cluster[x]
        /\ n \in DOMAIN cluster' => \/ cluster'[n].UID = changes + 1
                                    \/ n \in DOMAIN cluster /\ cluster'[n].UID = cluster[n].UID
        /\ n \in DOMAIN cluster' => cluster'[n].UID = changes + 1 \/ "resized" \in drift'
    <2>1. CASE \E gpus \in Sizes : Join(n, gpus)
      BY <2>1 DEF Join, Change, Put
    <2>2. CASE Leave(n)
      BY <2>2 DEF Leave, Change, Without, Restrict
    <2>3. ASSUME NEW gpus \in Sizes, Resize(n, gpus)
          PROVE  /\ \A x \in DOMAIN cluster' : x # n => x \in DOMAIN cluster /\ cluster'[x] = cluster[x]
                 /\ n \in DOMAIN cluster /\ cluster'[n].UID = cluster[n].UID /\ "resized" \in drift'
      <3>1. cluster' = Put(cluster, n, [cluster[n] EXCEPT !.gpus = gpus]) /\ "resized" \in drift' /\ n \in DOMAIN cluster
        BY <2>3 DEF Resize, Change
      <3>2. [cluster[n] EXCEPT !.gpus = gpus].UID = cluster[n].UID
        BY <2>3, ChangeNodes
      <3> QED BY <3>1, <3>2 DEF Put
    <2> QED BY <2>1, <2>2, <2>3
  <1>6. drift \subseteq drift' /\ ("uncounted" \in drift' => "uncounted" \in drift)
    BY DEF Join, Leave, Resize
  <1>7. \A x \in DOMAIN cluster' : cluster'[x].UID <= changes'
    BY <1>1, <1>2, <1>4, <1>5
  <1>8. \A x \in DOMAIN store' : store'[x].UID <= changes'
    <2>1. CASE watching
      BY <1>4, <1>7, <2>1
    <2>2. CASE ~watching
      BY <1>1, <1>2, <1>4, <2>2
    <2> QED BY <2>1, <2>2
  <1>9. drift' \cap Grounds = {} =>
            \A x \in DOMAIN store' \cap DOMAIN cluster' :
                store'[x].UID = cluster'[x].UID => store'[x] = cluster'[x]
    <2>1. CASE watching
      BY <1>4, <2>1
    <2>2. CASE ~watching
      <3> SUFFICES ASSUME drift' \cap Grounds = {}, NEW x \in DOMAIN store' \cap DOMAIN cluster',
                          store'[x].UID = cluster'[x].UID
                   PROVE  store'[x] = cluster'[x]
        OBVIOUS
      <3>1. store' = store /\ drift \cap Grounds = {} /\ "resized" \notin drift'
        BY <1>4, <1>6, <2>2 DEF Grounds
      <3>2. x # n
        BY <1>1, <1>2, <1>5, <3>1
      <3> QED BY <1>5, <3>1, <3>2 DEF Synced
    <2> QED BY <2>1, <2>2
  <1>10. /\ watching' => up' /\ store' = cluster'
         /\ ~up' => store' = EmptyMap /\ notices' = <<>>
    BY <1>4 DEF Synced
  <1>11. up' /\ "uncounted" \notin drift' => reschedCh' \/ ignored' \/ planned' = TotalGpus'
    BY <1>4, <1>6 DEF Synced
  <1>12. placing' => ~ignored'
    BY <1>4 DEF Synced
  <1> QED BY <1>12, <1>7, <1>8, <1>9, <1>10, <1>11 DEF Synced

\* Handlers change neither the nodes nor what the informer knows of them.
LEMMA HandlersSynced == ASSUME CountInv, Handlers PROVE Synced'
  <1> USE DEF CountInv
  <1>1. up /\ UNCHANGED <<up, planned, placing, ignored, cluster, store, watching, changes>>
    BY DEF Handlers, AddNode, UpdateNode, DeleteNode, DeleteUnknown, Handle, loop
  <1>2. CASE AddNode
    <2>1. drift' \cap Grounds = {} => \A n \in DOMAIN store : n \in DOMAIN cluster /\ store[n] = cluster[n]
      BY <1>2 DEF AddNode, Ahead, Grounds
    <2>2. "uncounted" \notin drift' => reschedCh'
      BY <1>2 DEF AddNode, TriggerResched
    <2> QED BY <1>1, <2>1, <2>2 DEF Synced
  <1>3. CASE ~AddNode
    <2>1. UNCHANGED drift /\ (reschedCh' \/ UNCHANGED <<reschedCh, TotalGpus>>)
      BY <1>3 DEF Handlers, UpdateNode, DeleteNode, DeleteUnknown, TriggerResched
    <2> QED BY <1>1, <2>1 DEF Synced
  <1> QED BY <1>2, <1>3

LEMMA NextSynced == ASSUME CountInv, [Next]_vars PROVE Synced'
  <1> USE DEF CountInv
  <1>1. CASE \E n \in Nodes, gpus \in Sizes : Join(n, gpus) \/ Resize(n, gpus)
    BY <1>1, ChangeSynced
  <1>2. CASE \E n \in Nodes : Leave(n)
    BY <1>2, ChangeSynced
  <1>3. CASE Disconnect
    BY <1>3 DEF Disconnect, Synced, scheduler, loop
  <1>4. CASE Crash
    BY <1>4 DEF Crash, Synced, EmptyMap
  <1>5. CASE Handlers
    BY <1>5, HandlersSynced
  <1>6. CASE List
    <2>1. drift \subseteq drift' /\ ("uncounted" \in drift' => "uncounted" \in drift)
      BY <1>6 DEF List
    <2> QED BY <1>6, <2>1 DEF List, Synced, scheduler, loop, bounds
  <1>7. CASE Resched \/ FinishResched
    BY <1>7 DEF Resched, FinishResched, Synced, informer, bounds
  <1>8. CASE Start
    BY <1>8 DEF Start, Synced, loop, informer, bounds, EmptyMap, TriggerResched
  <1>9. CASE UNCHANGED vars
    BY <1>9 DEF vars, Synced, scheduler, loop, informer, bounds
  <1> QED BY <1>1, <1>2, <1>3, <1>4, <1>5, <1>6, <1>7, <1>8, <1>9 DEF Next, Environment

(***************************************************************************)
(* Forecasts.                                                              *)
(***************************************************************************)

\* An effect is a number.
LEMMA EffectInt == ASSUME NEW m \in Notice PROVE Effect(m) \in Int
  <1>1. CASE m.kind = "delete"
    BY <1>1 DEF Effect, Notice, Node
  <1>2. CASE m.kind = "update"
    <2>1. m.old.gpus \in Int /\ m.new.gpus \in Int
      BY <1>2 DEF Notice, Node
    <2> QED BY <1>2, <2>1 DEF Effect, Difference
  <1>3. CASE m.kind \notin {"delete", "update"}
    BY <1>3 DEF Effect
  <1> QED BY <1>1, <1>2, <1>3

\* Without notices the count stays.
LEMMA ForecastNone == ASSUME NEW t \in Int PROVE \E q : IsForecast(q, <<>>, t) /\ q[0] = t
  <1>1. IsForecast([k \in 0..0 |-> t], <<>>, t)
    BY DEF IsForecast
  <1> QED BY <1>1 DEF IsForecast

\* There are more notices, ms instead of ns, and h has the sums of their effects.
IsExtension(ms, ns, more, h) ==
    /\ ns \in Seq(Notice) /\ ms \in Seq(Notice)
    /\ more \in Nat /\ Len(ms) = Len(ns) + more
    /\ \A i \in 1..Len(ns) : ms[i] = ns[i]
    /\ h \in [0..more -> Int] /\ h[0] = 0
    /\ \A i \in 1..more : h[i] = h[i - 1] + Effect(ms[Len(ns) + i])

\* A forecast is extended by them.
LEMMA ForecastExtend ==
    ASSUME NEW ns, NEW ms, NEW more, NEW h, IsExtension(ms, ns, more, h),
           NEW t \in Int, NEW p, IsForecast(p, ns, t)
    PROVE  \E q : /\ IsForecast(q, ms, t)
                  /\ \A k \in 0..Len(ns) : q[k] = p[k]
                  /\ \A i \in 0..more : q[Len(ns) + i] = p[Len(ns)] + h[i]
  <1> DEFINE L == Len(ns)
             q == [k \in 0..(L + more) |-> IF k <= L THEN p[k] ELSE p[L] + h[k - L]]
  <1>0. /\ ms \in Seq(Notice) /\ more \in Nat /\ h \in [0..more -> Int] /\ h[0] = 0
        /\ \A i \in 1..more : h[i] = h[i - 1] + Effect(ms[L + i])
    BY DEF IsExtension
  <1>1. L \in Nat /\ p \in [0..L -> Int] /\ Len(ms) = L + more
    BY DEF IsForecast, IsExtension
  <1>2. \A i \in 1..L : p[i] = p[i - 1] + Effect(ms[i])
    BY DEF IsForecast, IsExtension
  <1> HIDE DEF L
  <1>3. q \in [0..(L + more) -> Int]
    BY <1>0, <1>1
  <1>4. \A k \in 0..L : q[k] = p[k]
    BY <1>0, <1>1
  <1>5. \A i \in 0..more : q[L + i] = p[L] + h[i]
    <2> SUFFICES ASSUME NEW i \in 0..more PROVE q[L + i] = p[L] + h[i]
      OBVIOUS
    <2>1. CASE i = 0
      BY <1>0, <1>1, <2>1
    <2>2. CASE i # 0
      <3>1. L + i \in 0..(L + more) /\ ~(L + i <= L) /\ (L + i) - L = i
        BY <1>0, <1>1, <2>2
      <3> QED BY <3>1
    <2> QED BY <2>1, <2>2
  <1> HIDE DEF q
  <1>6. ASSUME NEW i \in 1..(L + more) PROVE q[i] = q[i - 1] + Effect(ms[i])
    <2>1. CASE i <= L
      <3>1. i \in 1..L /\ i \in 0..L /\ i - 1 \in 0..L
        BY <1>1, <2>1
      <3> QED BY <1>2, <1>4, <3>1
    <2>2. CASE i > L
      <3> DEFINE j == i - L
      <3>1. j \in 1..more /\ j \in 0..more /\ j - 1 \in 0..more /\ i = L + j /\ i - 1 = L + (j - 1)
        BY <1>0, <1>1, <2>2
      <3> HIDE DEF j
      <3>2. q[i] = p[L] + h[j] /\ q[i - 1] = p[L] + h[j - 1]
        BY <1>5, <3>1
      <3>3. h[j] = h[j - 1] + Effect(ms[i])
        BY <1>0, <3>1
      <3>4. Effect(ms[i]) \in Int
        <4>1. ms[i] \in Notice
          BY <1>0, <1>1
        <4> QED BY <4>1, EffectInt
      <3>5. h[j - 1] \in Int /\ p[L] \in Int
        BY <1>0, <1>1, <3>1
      <3> QED BY <3>2, <3>3, <3>4, <3>5
    <2> QED BY <1>0, <1>1, <2>1, <2>2
  <1>7. q[0] = t
    BY <1>1, <1>4 DEF IsForecast
  <1>8. IsForecast(q, ms, t)
    BY <1>1, <1>3, <1>6, <1>7 DEF IsForecast
  <1> QED BY <1>4, <1>5, <1>8 DEF L

\* One more notice.
LEMMA ForecastAppend ==
    ASSUME NEW ns \in Seq(Notice), NEW m \in Notice, NEW t \in Int, NEW p, IsForecast(p, ns, t)
    PROVE  \E q : /\ IsForecast(q, Append(ns, m), t)
                  /\ \A k \in 0..Len(ns) : q[k] = p[k]
                  /\ q[Len(ns) + 1] = p[Len(ns)] + Effect(m)
  <1> DEFINE h == [i \in 0..1 |-> IF i = 0 THEN 0 ELSE Effect(m)]
             ms == Append(ns, m)
  <1>1. /\ ms \in Seq(Notice) /\ Len(ms) = Len(ns) + 1
        /\ \A i \in 1..Len(ns) : ms[i] = ns[i]
        /\ ms[Len(ns) + 1] = m
    BY AppendProperties
  <1>2. Effect(m) \in Int
    BY EffectInt
  <1>3. h \in [0..1 -> Int] /\ h[0] = 0 /\ h[1] = Effect(m)
    BY <1>2
  <1> HIDE DEF h, ms
  <1>4. \A i \in 1..1 : h[i] = h[i - 1] + Effect(ms[Len(ns) + i])
    <2>1. h[1] = h[0] + Effect(ms[Len(ns) + 1])
      BY <1>1, <1>2, <1>3
    <2>2. \A i \in 1..1 : i = 1 /\ 1 - 1 = 0
      OBVIOUS
    <2> QED BY <2>1, <2>2
  <1>5. IsExtension(ms, ns, 1, h)
    BY <1>1, <1>3, <1>4 DEF IsExtension
  <1>6. \E q : /\ IsForecast(q, ms, t)
               /\ \A k \in 0..Len(ns) : q[k] = p[k]
               /\ \A i \in 0..1 : q[Len(ns) + i] = p[Len(ns)] + h[i]
    BY <1>5, ForecastExtend
  <1> QED BY <1>3, <1>6 DEF ms

\* One notice less, and a count u.
LEMMA ForecastShift ==
    ASSUME NEW ns \in Seq(Notice), ns # <<>>, NEW t \in Int, NEW p, IsForecast(p, ns, t), NEW u \in Int
    PROVE  \E q : /\ IsForecast(q, Tail(ns), u)
                  /\ \A k \in 0..(Len(ns) - 1) : q[k] = (p[k + 1] - p[1]) + u
  <1> DEFINE L == Len(ns)
             q == [k \in 0..(L - 1) |-> (p[k + 1] - p[1]) + u]
  <1>1. /\ L \in Nat \ {0} /\ Tail(ns) \in Seq(Notice) /\ Len(Tail(ns)) = L - 1
        /\ \A i \in 1..(L - 1) : Tail(ns)[i] = ns[i + 1]
    BY HeadTailProperties
  <1>2. p \in [0..L -> Int] /\ \A i \in 1..L : p[i] = p[i - 1] + Effect(ns[i]) /\ Effect(ns[i]) \in Int
    BY EffectInt DEF IsForecast
  <1> HIDE DEF L
  <1>3. q \in [0..(L - 1) -> Int]
    <2>1. \A k \in 0..(L - 1) : k + 1 \in 0..L
      BY <1>1
    <2>2. \A k \in 0..(L - 1) : p[k + 1] \in Int
      BY <1>2, <2>1
    <2>3. p[1] \in Int
      BY <1>1, <1>2
    <2>4. \A k \in 0..(L - 1) : (p[k + 1] - p[1]) + u \in Int
      BY <2>2, <2>3
    <2> QED BY <2>4
  <1>4. q[0] = u
    BY <1>1, <1>2
  <1>5. ASSUME NEW i \in 1..(L - 1) PROVE q[i] = q[i - 1] + Effect(Tail(ns)[i])
    <2>1. i + 1 \in 1..L /\ (i + 1) - 1 = i /\ (i - 1) + 1 = i /\ i \in 0..(L - 1) /\ i - 1 \in 0..(L - 1) /\ i \in 0..L /\ i + 1 \in 0..L
      BY <1>1
    <2>2. p[i + 1] = p[i] + Effect(ns[i + 1]) /\ Effect(ns[i + 1]) \in Int
      BY <1>2, <2>1
    <2>3. q[i] = (p[i + 1] - p[1]) + u /\ q[i - 1] = (p[i] - p[1]) + u
      BY <2>1
    <2>4. p[i] \in Int /\ p[i + 1] \in Int /\ p[1] \in Int
      BY <1>1, <1>2, <2>1
    <2>5. Tail(ns)[i] = ns[i + 1]
      BY <1>1
    <2>6. Effect(Tail(ns)[i]) = Effect(ns[i + 1])
      BY <2>5
    <2> DEFINE e == Effect(ns[i + 1])
    <2>7. e \in Int /\ p[i + 1] = p[i] + e
      BY <2>2
    <2> HIDE DEF q, e
    <2>8. q[i] = q[i - 1] + e
      BY <2>3, <2>4, <2>7
    <2> QED BY <2>6, <2>8 DEF e
  <1>6. \A k \in 0..(L - 1) : q[k] = (p[k + 1] - p[1]) + u
    OBVIOUS
  <1> HIDE DEF q
  <1>7. IsForecast(q, Tail(ns), u)
    BY <1>1, <1>3, <1>4, <1>5 DEF IsForecast
  <1> QED BY <1>6, <1>7 DEF L

\* Notices without effect, after the first, leave the count.
LEMMA ForecastConstant ==
    ASSUME NEW ns \in Seq(Notice), NEW t \in Int, NEW p, IsForecast(p, ns, t),
           \A i \in 2..Len(ns) : Effect(ns[i]) = 0
    PROVE  \A k \in 1..Len(ns) : p[k] = p[1]
  <1> DEFINE Bad == { k \in 1..Len(ns) : p[k] # p[1] }
  <1>1. Bad = {}
    <2> SUFFICES ASSUME Bad # {} PROVE FALSE
      OBVIOUS
    <2>1. Bad \in SUBSET Nat
      OBVIOUS
    <2>2. PICK k \in Bad : \A j \in Bad : k <= j
      <3> HIDE DEF Bad
      <3> QED BY <2>1, LeastNat
    <2>3. k \in 2..Len(ns) /\ k - 1 \in 1..Len(ns) /\ k \in 1..Len(ns) /\ ~(k <= k - 1)
      <3>1. k \in 1..Len(ns) /\ p[k] # p[1]
        BY <2>2
      <3>2. Len(ns) \in Nat
        OBVIOUS
      <3>3. k # 1
        BY <3>1
      <3> HIDE DEF Bad
      <3> QED BY ONLY <3>1, <3>2, <3>3
    <2>4. p[k - 1] = p[1]
      BY <2>2, <2>3
    <2>5. p[k] = p[k - 1] + 0 /\ p[k - 1] \in Int
      BY <2>3 DEF IsForecast
    <2> QED BY <2>2, <2>4, <2>5
  <1> QED BY <1>1

(***************************************************************************)
(* Each step keeps a forecast.                                             *)
(***************************************************************************)

Forecast == \E p : IsForecast(p, notices, TotalGpus) /\ Foreseen(p)

\* Steps after which there are grounds need no more than a forecast.
LEMMA Grounded ==
    ASSUME NEW q, IsForecast(q, notices', TotalGpus'), drift' \cap Grounds # {}
    PROVE  Forecast'
  <1>1. Foreseen(q)'
    BY DEF Foreseen
  <1> QED BY <1>1 DEF Forecast, IsForecast

\* A change that is not seen leaves the forecast.
LEMMA UnseenForecast ==
    ASSUME Forecast, UNCHANGED <<up, TotalGpus, notices, store>>, drift \subseteq drift', ~watching',
           (/\ drift' = {} /\ DOMAIN cluster' \subseteq DOMAIN store)
               => watching \/ DOMAIN cluster \subseteq DOMAIN store
    PROVE  Forecast'
  <1>1. PICK p : IsForecast(p, notices, TotalGpus) /\ Foreseen(p)
    BY DEF Forecast
  <1>2. drift' \cap Grounds = {} => drift \cap Grounds = {}
    OBVIOUS
  <1>3. drift' = {} => drift = {}
    OBVIOUS
  <1>4. Foreseen(p)'
    BY <1>1, <1>2, <1>3 DEF Foreseen
  <1>5. IsForecast(p, notices, TotalGpus)'
    BY <1>1 DEF IsForecast
  <1> QED BY <1>4, <1>5 DEF Forecast

\* A node joins.
LEMMA JoinForecast ==
    ASSUME TypeOK, Synced, Forecast, NEW n \in Nodes, NEW gpus \in Sizes, Join(n, gpus)
    PROVE  Forecast'
  <1> DEFINE node == [UID |-> changes + 1, gpus |-> gpus]
             m == [kind |-> "add"]
  <1>1. /\ UNCHANGED <<up, TotalGpus, watching, drift>>
        /\ cluster' = Put(cluster, n, node)
        /\ watching => notices' = Append(notices, m)
        /\ ~watching => UNCHANGED <<store, notices>>
    BY DEF Join, Change, scheduler
  <1>2. DOMAIN cluster \subseteq DOMAIN cluster'
    BY <1>1 DEF Put
  <1>3. CASE ~watching
    BY <1>1, <1>2, <1>3, UnseenForecast
  <1>4. CASE watching
    <2>1. PICK p : IsForecast(p, notices, TotalGpus) /\ Foreseen(p)
      BY DEF Forecast
    <2>2. m \in Notice /\ notices \in Seq(Notice) /\ TotalGpus \in Int /\ Len(notices) \in Nat
      BY NoticeTypes DEF TypeOK
    <2> HIDE DEF m
    <2>3. PICK q : /\ IsForecast(q, notices', TotalGpus')
                   /\ \A k \in 0..Len(notices) : q[k] = p[k]
      <3>1. \E q : /\ IsForecast(q, Append(notices, m), TotalGpus)
                   /\ \A k \in 0..Len(notices) : q[k] = p[k]
        BY <2>1, <2>2, ForecastAppend
      <3>2. notices' = Append(notices, m) /\ TotalGpus' = TotalGpus
        BY <1>1, <1>4 DEF m
      <3> QED BY <3>1, <3>2
    <2>4. /\ Len(notices') = Len(notices) + 1
          /\ \A i \in 1..Len(notices) : notices'[i] = notices[i]
          /\ notices'[Len(notices) + 1] = m
      BY <1>1, <1>4, <2>2, AppendProperties
    <2>5. ASSUME NEW k \in 0..Len(notices'), NoAdd(notices', k)
          PROVE  k \in 0..Len(notices) /\ NoAdd(notices, k)
      <3>1. k # Len(notices) + 1
        <4>1. m.kind = "add"
          BY DEF m
        <4> QED BY <2>2, <2>4, <2>5, <4>1 DEF NoAdd
      <3>2. k \in 0..Len(notices)
        BY <2>2, <2>4, <3>1
      <3>3. \A i \in 1..k : i \in 1..Len(notices)
        BY <2>2, <3>2
      <3> QED BY <2>4, <2>5, <3>2, <3>3 DEF NoAdd
    <2>6. ~NoAdd(notices', Len(notices'))
      <3>1. Len(notices') \in 0..Len(notices') /\ Len(notices') \notin 0..Len(notices)
        BY <2>2, <2>4
      <3> QED BY <2>5, <3>1
    <2>7. Foreseen(q)'
      BY <1>1, <2>1, <2>3, <2>5, <2>6 DEF Foreseen
    <2> QED BY <2>3, <2>7 DEF Forecast
  <1> QED BY <1>3, <1>4

\* A node leaves.
LEMMA LeaveForecast ==
    ASSUME TypeOK, Synced, Forecast, NEW n \in Nodes, Leave(n)
    PROVE  Forecast'
  <1> DEFINE m == [kind |-> "delete", old |-> cluster[n]]
  <1>1. /\ UNCHANGED <<up, TotalGpus, watching>>
        /\ cluster' = Without(cluster, {n}) /\ n \in DOMAIN cluster
        /\ watching => notices' = Append(notices, m) /\ store' = cluster'
        /\ ~watching => UNCHANGED <<store, notices>>
        /\ drift' = IF watching \/ n \in DOMAIN store THEN drift ELSE drift \cup {"unseen"}
    BY DEF Leave, Change, scheduler
  <1>2. DOMAIN cluster' = DOMAIN cluster \ {n}
    BY <1>1 DEF Without, Restrict
  <1>3. CASE ~watching
    <2>1. drift' = {} => n \in DOMAIN store
      BY <1>1, <1>3
    <2> QED BY <1>1, <1>2, <1>3, <2>1, UnseenForecast
  <1>4. CASE watching
    <2>1. PICK p : IsForecast(p, notices, TotalGpus) /\ Foreseen(p)
      BY DEF Forecast
    <2>2. /\ IsNodes(cluster) /\ cluster[n] \in Node /\ cluster[n].gpus \in Nat
          /\ store = cluster /\ up
      BY <1>1, <1>4, NodesFinite DEF TypeOK, IsNodes, Synced
    <2>3. m \in Notice /\ notices \in Seq(Notice) /\ TotalGpus \in Int /\ Len(notices) \in Nat
      BY <2>2, NoticeTypes DEF TypeOK
    <2>4. Effect(m) = 0 - cluster[n].gpus
      BY DEF Effect
    <2>5. GpusOf(store') = GpusOf(store) - cluster[n].gpus /\ GpusOf(store') \in Nat /\ GpusOf(store) \in Nat
      <3>1. IsNodes(Without(cluster, {n}))
        BY <2>2, WithoutNodes
      <3> QED BY <1>1, <1>4, <2>2, <3>1, GpusWithout, GpusNat
    <2> HIDE DEF m
    <2>6. PICK q : /\ IsForecast(q, notices', TotalGpus')
                   /\ \A k \in 0..Len(notices) : q[k] = p[k]
                   /\ q[Len(notices) + 1] = p[Len(notices)] + Effect(m)
      <3>1. \E q : /\ IsForecast(q, Append(notices, m), TotalGpus)
                   /\ \A k \in 0..Len(notices) : q[k] = p[k]
                   /\ q[Len(notices) + 1] = p[Len(notices)] + Effect(m)
        BY <2>1, <2>3, ForecastAppend
      <3>2. notices' = Append(notices, m) /\ TotalGpus' = TotalGpus
        BY <1>1, <1>4 DEF m
      <3> QED BY <3>1, <3>2
    <2>7. /\ Len(notices') = Len(notices) + 1
          /\ \A i \in 1..Len(notices) : notices'[i] = notices[i]
      BY <1>1, <1>4, <2>3, AppendProperties
    <2>8. ASSUME NEW k \in 0..Len(notices'), NoAdd(notices', k)
          PROVE  IF k = Len(notices) + 1 THEN NoAdd(notices, Len(notices))
                                         ELSE k \in 0..Len(notices) /\ NoAdd(notices, k)
      BY <2>3, <2>7, <2>8 DEF NoAdd
    <2>9. drift' = drift /\ UNCHANGED <<up, watching>>
      BY <1>1, <1>4
    <2>10. p[Len(notices)] \in Int
      BY <2>1, <2>3 DEF IsForecast
    <2>11. ASSUME drift \cap Grounds = {}, NoAdd(notices, Len(notices))
           PROVE  q[Len(notices')] >= GpusOf(store') /\ q[Len(notices')] >= 0
      <3>1. p[Len(notices)] >= GpusOf(store)
        BY <2>1, <2>2, <2>11 DEF Foreseen
      <3>2. q[Len(notices')] = p[Len(notices)] + (0 - cluster[n].gpus)
        BY <2>4, <2>6, <2>7
      <3> QED BY <2>2, <2>5, <2>10, <3>1, <3>2
    <2>12. ASSUME drift = {}, NoAdd(notices, Len(notices))
           PROVE  q[Len(notices')] = GpusOf(store')
      <3>1. p[Len(notices)] = GpusOf(store)
        BY <1>4, <2>1, <2>2, <2>12 DEF Foreseen
      <3>2. q[Len(notices')] = p[Len(notices)] + (0 - cluster[n].gpus)
        BY <2>4, <2>6, <2>7
      <3> QED BY <2>2, <2>5, <2>10, <3>1, <3>2
    <2>13. NoAdd(notices', Len(notices')) => NoAdd(notices, Len(notices))
      <3>1. Len(notices') \in 0..Len(notices') /\ Len(notices') = Len(notices) + 1
        BY <2>3, <2>7
      <3> QED BY <2>8, <3>1
    <2>14. ASSUME drift \cap Grounds = {}, NEW k \in 0..Len(notices'), NoAdd(notices', k)
           PROVE  q[k] >= 0
      <3>1. CASE k = Len(notices) + 1
        BY <2>7, <2>8, <2>11, <2>14, <3>1
      <3>2. CASE k # Len(notices) + 1
        <4>1. k \in 0..Len(notices) /\ NoAdd(notices, k)
          BY <2>8, <2>14, <3>2
        <4> QED BY <2>1, <2>6, <2>14, <4>1 DEF Foreseen
      <3> QED BY <3>1, <3>2
    <2>15. Foreseen(q)'
      BY <2>9, <2>11, <2>12, <2>13, <2>14 DEF Foreseen
    <2> QED BY <2>6, <2>15 DEF Forecast
  <1> QED BY <1>3, <1>4

\* The capacity of a node changes.
LEMMA ResizeForecast ==
    ASSUME TypeOK, Forecast, NEW n \in Nodes, NEW gpus \in Sizes, Resize(n, gpus)
    PROVE  Forecast'
  <1> DEFINE m == [kind |-> "update", old |-> cluster[n], new |-> [cluster[n] EXCEPT !.gpus = gpus]]
  <1>1. /\ TotalGpus' = TotalGpus /\ drift' = drift \cup {"resized"}
        /\ notices' = Append(notices, m) \/ notices' = notices
    BY DEF Resize, Change, scheduler
  <1>2. m \in Notice /\ notices \in Seq(Notice) /\ TotalGpus \in Int
    BY ChangeNodes, NoticeTypes DEF TypeOK
  <1>3. PICK p : IsForecast(p, notices, TotalGpus)
    BY DEF Forecast
  <1> HIDE DEF m
  <1>4. \E q : IsForecast(q, Append(notices, m), TotalGpus)
    BY <1>2, <1>3, ForecastAppend
  <1>5. \E q : IsForecast(q, notices', TotalGpus')
    BY <1>1, <1>3, <1>4
  <1>6. drift' \cap Grounds # {}
    BY <1>1 DEF Grounds
  <1> QED BY <1>5, <1>6, Grounded

\* A handler is done with a notice.
LEMMA HandlersForecast == ASSUME TypeOK, Synced, Forecast, Handlers PROVE Forecast'
  <1> DEFINE L == Len(notices)
  <1>1. /\ notices # <<>> /\ notices' = Tail(notices)
        /\ up /\ UNCHANGED <<up, cluster, store, watching>>
    BY DEF Handlers, AddNode, UpdateNode, DeleteNode, DeleteUnknown, Handle
  <1>2. /\ L \in Nat \ {0} /\ Len(notices') = L - 1 /\ notices' \in Seq(Notice)
        /\ \A i \in 1..(L - 1) : notices'[i] = notices[i + 1]
        /\ Head(notices) = notices[1] /\ notices[1] \in Notice
    BY <1>1, TailNotices
  <1>3. PICK p : IsForecast(p, notices, TotalGpus) /\ Foreseen(p)
    BY DEF Forecast
  <1>4. /\ p \in [0..L -> Int] /\ p[0] = TotalGpus
        /\ p[1] = TotalGpus + Effect(notices[1])
        /\ Effect(notices[1]) \in Int /\ TotalGpus \in Int /\ TotalGpus' \in Int
    <2>1. 1 \in 1..L /\ 1 - 1 = 0
      BY <1>2
    <2>2. TypeOK'
      BY NextType DEF Next
    <2> QED BY <1>2, <1>3, <2>1, <2>2, EffectInt DEF IsForecast, TypeOK
  <1>5. PICK q : /\ IsForecast(q, notices', TotalGpus')
                 /\ \A k \in 0..(L - 1) : q[k] = (p[k + 1] - p[1]) + TotalGpus'
    <2>0. notices \in Seq(Notice)
      BY DEF TypeOK
    <2>1. \E q : /\ IsForecast(q, Tail(notices), TotalGpus')
                 /\ \A k \in 0..(Len(notices) - 1) : q[k] = (p[k + 1] - p[1]) + TotalGpus'
      BY ONLY <1>1, <1>3, <1>4, <2>0, ForecastShift
    <2> QED BY <1>1, <2>1
  <1>6. CASE UpdateNode \/ DeleteNode \/ DeleteUnknown
    <2>1. TotalGpus' = p[1] /\ notices[1].kind # "add" /\ drift' = drift
      <3>1. CASE UpdateNode
        <4>1. notices[1].kind = "update" /\ drift' = drift
          BY <1>2, <3>1 DEF UpdateNode, Handle
        <4>2. TotalGpus' = IF notices[1].old.UID # notices[1].new.UID
                           THEN TotalGpus + Difference(notices[1].old, notices[1].new) ELSE TotalGpus
          BY <1>2, <3>1 DEF UpdateNode
        <4>3. Effect(notices[1]) = IF notices[1].old.UID # notices[1].new.UID
                           THEN Difference(notices[1].old, notices[1].new) ELSE 0
          BY <4>1 DEF Effect
        <4> QED BY <1>4, <4>1, <4>2, <4>3
      <3>2. CASE DeleteNode
        <4>1. notices[1].kind = "delete" /\ drift' = drift /\ TotalGpus' = TotalGpus - notices[1].old.gpus
          BY <1>2, <3>2 DEF DeleteNode, Handle
        <4>2. Effect(notices[1]) = 0 - notices[1].old.gpus
          BY <4>1 DEF Effect
        <4>3. notices[1].old.gpus \in Int
          BY <1>2, <4>1 DEF Notice, Node
        <4> QED BY <1>4, <4>1, <4>2, <4>3
      <3>3. CASE DeleteUnknown
        <4>1. notices[1].kind = "tombstone" /\ drift' = drift /\ TotalGpus' = TotalGpus
          BY <1>2, <3>3 DEF DeleteUnknown, Handle
        <4>2. Effect(notices[1]) = 0
          BY <4>1 DEF Effect
        <4> QED BY <1>4, <4>1, <4>2
      <3> QED BY <1>6, <3>1, <3>2, <3>3
    <2>2. \A k \in 0..(L - 1) : k + 1 \in 0..L
      BY <1>2
    <2>3. \A k \in 0..(L - 1) : p[k + 1] \in Int
      BY <1>4, <2>2
    <2>4. \A k \in 0..(L - 1) : q[k] = p[k + 1]
      <3>1. \A k \in 0..(L - 1) : q[k] = (p[k + 1] - TotalGpus') + TotalGpus'
        BY ONLY <1>5, <2>1
      <3> QED BY ONLY <1>4, <2>3, <3>1
    <2>5. ASSUME NEW k \in 0..(L - 1), NoAdd(notices', k) PROVE NoAdd(notices, k + 1)
      <3> SUFFICES ASSUME NEW i \in 1..(k + 1) PROVE notices[i].kind # "add"
        BY DEF NoAdd
      <3>1. CASE i = 1
        BY <2>1, <3>1
      <3>2. CASE i # 1
        <4>1. i - 1 \in 1..k /\ i - 1 \in 1..(L - 1) /\ (i - 1) + 1 = i
          BY <1>2, <3>2
        <4>2. notices'[i - 1] = notices[i]
          BY <1>2, <4>1
        <4> QED BY <2>5, <4>1, <4>2 DEF NoAdd
      <3> QED BY <3>1, <3>2
    <2>6. L - 1 \in 0..(L - 1) /\ (L - 1) + 1 = L
      BY <1>2
    <2>7. q[L - 1] = p[L] /\ (NoAdd(notices', L - 1) => NoAdd(notices, L))
      BY <2>4, <2>5, <2>6
    <2>8. ASSUME drift \cap Grounds = {}, NEW k \in 0..(L - 1), NoAdd(notices', k)
          PROVE  q[k] >= 0
      <3>1. k + 1 \in 0..Len(notices) /\ NoAdd(notices, k + 1)
        BY <2>2, <2>5, <2>8
      <3>2. p[k + 1] >= 0
        BY <1>3, <2>8, <3>1 DEF Foreseen
      <3> QED BY <2>4, <3>2
    <2>9. Foreseen(q)'
      BY <1>1, <1>2, <1>3, <2>1, <2>7, <2>8 DEF Foreseen
    <2> QED BY <1>5, <2>9 DEF Forecast
  <1>7. CASE AddNode
    <2>1. CASE drift' \cap Grounds # {}
      BY <1>5, <2>1, Grounded
    <2>2. CASE drift' \cap Grounds = {}
      <3>1. TotalGpus' = GpusOf(cluster) /\ ~Ahead
        BY <1>7, <2>2 DEF AddNode, DiscoverGPUs, Grounds
      <3>2. \A i \in 2..L : Effect(notices[i]) = 0
        BY <3>1 DEF Ahead, Effect
      <3>3. \A k \in 1..L : p[k] = p[1]
        BY <1>3, <1>4, <3>2, ForecastConstant DEF TypeOK
      <3>4. \A k \in 0..(L - 1) : q[k] = GpusOf(cluster)
        <4>1. \A k \in 0..(L - 1) : k + 1 \in 1..L
          BY <1>2
        <4>2. p[1] \in Int
          BY <1>2, <1>4
        <4>3. \A k \in 0..(L - 1) : p[k + 1] = p[1]
          BY <3>3, <4>1
        <4> QED BY <1>4, <1>5, <3>1, <4>2, <4>3
      <3>5. DOMAIN store \subseteq DOMAIN cluster /\ \A n \in DOMAIN store : store[n] = cluster[n]
        BY <3>1 DEF Ahead
      <3>6. /\ GpusOf(store) <= GpusOf(cluster)
            /\ DOMAIN cluster \subseteq DOMAIN store => GpusOf(store) = GpusOf(cluster)
            /\ GpusOf(cluster) \in Nat /\ GpusOf(store) \in Nat
        BY <3>5, GpusFewer, GpusNat DEF TypeOK, IsNodes
      <3>7. watching => store = cluster
        BY DEF Synced
      <3>8. \A k \in 0..(L - 1) : q[k] >= 0
        BY <3>4, <3>6
      <3>9. /\ q[L - 1] = GpusOf(cluster) /\ q[L - 1] >= GpusOf(store)
            /\ watching \/ DOMAIN cluster \subseteq DOMAIN store => q[L - 1] = GpusOf(store)
        <4>1. q[L - 1] = GpusOf(cluster)
          BY <1>2, <3>4
        <4> QED BY <3>6, <3>7, <4>1
      <3>10. Foreseen(q)'
        BY <1>1, <1>2, <3>8, <3>9 DEF Foreseen
      <3> QED BY <1>5, <3>10 DEF Forecast
    <2> QED BY <2>1, <2>2
  <1> QED BY <1>6, <1>7 DEF Handlers

\* The GPUs are counted at the start.
LEMMA StartForecast == ASSUME TypeOK, Synced, Start PROVE Forecast'
  <1>1. /\ notices = <<>> /\ store = EmptyMap /\ ~watching
        /\ TotalGpus' = GpusOf(cluster) /\ up'
        /\ UNCHANGED <<cluster, store, watching, notices>>
    BY DEF Start, Synced, DiscoverGPUs, informer
  <1>2. /\ IsNodes(cluster) /\ IsNodes(EmptyMap) /\ DOMAIN EmptyMap = {}
    BY EmptyIsMap DEF TypeOK, IsNodes
  <1>3. /\ GpusOf(cluster) \in Nat /\ GpusOf(EmptyMap) <= GpusOf(cluster)
        /\ DOMAIN cluster \subseteq DOMAIN EmptyMap => GpusOf(EmptyMap) = GpusOf(cluster)
    BY <1>2, GpusNat, GpusFewer
  <1>4. PICK q : IsForecast(q, <<>>, GpusOf(cluster)) /\ q[0] = GpusOf(cluster)
    BY <1>3, ForecastNone
  <1>5. notices' = <<>> /\ Len(<<>>) = 0 /\ \A k \in 0..0 : k = 0
    BY <1>1
  <1>6. GpusOf(EmptyMap) \in Nat
    BY <1>2, GpusNat
  <1>7. q[0] >= 0 /\ q[0] >= GpusOf(EmptyMap)
    BY <1>3, <1>4, <1>6
  <1>8. Foreseen(q)'
    BY <1>1, <1>3, <1>4, <1>5, <1>7 DEF Foreseen
  <1>9. IsForecast(q, notices, TotalGpus)'
    BY <1>1, <1>4 DEF IsForecast
  <1> QED BY <1>8, <1>9 DEF Forecast

\* A crash loses the notices, not the count.
LEMMA CrashForecast == ASSUME TypeOK, Forecast, Crash PROVE Forecast'
  <1>1. /\ notices' = <<>> /\ ~up' /\ UNCHANGED <<TotalGpus, drift>> /\ TotalGpus \in Int
    BY DEF Crash, TypeOK
  <1>2. PICK p : IsForecast(p, notices, TotalGpus) /\ Foreseen(p)
    BY DEF Forecast
  <1>3. drift \cap Grounds = {} => TotalGpus >= 0
    <2>1. 0 \in 0..Len(notices) /\ NoAdd(notices, 0) /\ p[0] = TotalGpus
      BY <1>2 DEF NoAdd, IsForecast, TypeOK
    <2> QED BY <1>2, <2>1 DEF Foreseen
  <1>4. PICK q : IsForecast(q, <<>>, TotalGpus) /\ q[0] = TotalGpus
    BY <1>1, ForecastNone
  <1>5. Len(<<>>) = 0 /\ \A k \in 0..0 : k = 0
    OBVIOUS
  <1>6. Foreseen(q)'
    BY <1>1, <1>3, <1>4, <1>5 DEF Foreseen
  <1>7. IsForecast(q, notices, TotalGpus)'
    BY <1>1, <1>4 DEF IsForecast
  <1> QED BY <1>6, <1>7 DEF Forecast

\* What a new list adds for each node, the first i nodes of the list, and the sums
\* of the effects of its notices.
ListEffect == [n \in DOMAIN cluster |-> Effect(Listed(n))]
FirstOf(order, i) == { order[j] : j \in 1..i }
ListSums(order, gone) ==
    [i \in 0..(Len(order) + gone) |->
        SumOver(ListEffect, FirstOf(order, IF i <= Len(order) THEN i ELSE Len(order)))]

\* The first nodes are nodes of the cluster that are new or have changed.
LEMMA FirstNodes ==
    ASSUME TypeOK, NEW order, NEW gone, Reported(order, gone), NEW i \in 0..Len(order)
    PROVE  /\ FirstOf(order, i) \subseteq DOMAIN cluster
           /\ \A n \in FirstOf(order, i) : n \in DOMAIN store => store[n] # cluster[n]
           /\ IsFiniteSet(FirstOf(order, i))
  <1>1. Len(order) \in Nat /\ \A j \in 1..i : j \in 1..Len(order)
    BY DEF Reported
  <1>2. \A j \in 1..Len(order) : order[j] \in DOMAIN cluster
    BY DEF Reported
  <1>3. \A j \in 1..Len(order) : order[j] \in DOMAIN store => store[order[j]] # cluster[order[j]]
    BY <1>2 DEF Reported
  <1>4. FirstOf(order, i) \subseteq DOMAIN cluster
    BY <1>1, <1>2 DEF FirstOf
  <1>5. IsFiniteSet(DOMAIN cluster)
    BY NodesFinite DEF TypeOK, IsNodes
  <1> QED BY <1>1, <1>3, <1>4, <1>5, FS_Subset DEF FirstOf

\* Effects are numbers.
LEMMA ListEffectInt ==
    ASSUME TypeOK
    PROVE  /\ \A n \in DOMAIN cluster : Listed(n) \in Notice /\ ListEffect[n] \in Int
           /\ IsFiniteSet(DOMAIN cluster)
  <1>1. IsNodes(cluster) /\ IsNodes(store)
    BY DEF TypeOK, IsNodes
  <1>2. \A n \in DOMAIN cluster : Listed(n) \in Notice
    BY <1>1, NodesFinite, NoticeTypes DEF Listed
  <1> QED BY <1>1, <1>2, NodesFinite, EffectInt DEF ListEffect

\* The sums are those of the notices.
LEMMA ListExtends ==
    ASSUME TypeOK, NEW order, NEW gone, Reported(order, gone)
    PROVE  IsExtension(notices', notices, Len(order) + gone, ListSums(order, gone))
  <1> DEFINE L == Len(notices)
             O == Len(order)
             h == ListSums(order, gone)
             S(i) == SumOver(ListEffect, FirstOf(order, i))
  <1>1. L \in Nat /\ O \in Nat /\ gone \in Nat
    BY DEF Reported, TypeOK
  <1>2. \A i \in 0..O : S(i) \in Int
    BY FirstNodes, ListEffectInt, SumInt
  <1>3. FirstOf(order, 0) = {}
    BY DEF FirstOf
  <1>4. S(0) = 0
    BY <1>3, SumEmpty
  <1>5. ASSUME NEW i \in 1..O PROVE S(i) = S(i - 1) + Effect(Listed(order[i]))
    <2>1. i - 1 \in 0..O /\ i \in 0..O /\ 1..i = 1..(i - 1) \cup {i} /\ i \notin 1..(i - 1)
      BY <1>1
    <2>2. FirstOf(order, i) = FirstOf(order, i - 1) \cup {order[i]}
      BY <2>1 DEF FirstOf
    <2>3. order[i] \notin FirstOf(order, i - 1)
      <3>1. \A j \in 1..(i - 1) : j \in 1..O /\ j # i
        BY <1>1
      <3> QED BY <3>1 DEF FirstOf, Reported
    <2>4. /\ IsFiniteSet(FirstOf(order, i - 1)) /\ order[i] \in FirstOf(order, i)
          /\ \A n \in FirstOf(order, i) : ListEffect[n] \in Int
      BY <2>1, <2>2, FirstNodes, ListEffectInt
    <2>5. S(i) = ListEffect[order[i]] + S(i - 1)
      BY <2>2, <2>3, <2>4, SumAdd
    <2>6. order[i] \in DOMAIN cluster
      BY <2>1, <2>4, FirstNodes
    <2>7. ListEffect[order[i]] = Effect(Listed(order[i])) /\ ListEffect[order[i]] \in Int
      BY <2>6, ListEffectInt DEF ListEffect
    <2>8. S(i - 1) \in Int
      BY <1>2, <2>1
    <2> HIDE DEF S
    <2> QED BY <2>5, <2>7, <2>8
  <1>6. /\ \A i \in 0..(O + gone) : i <= O => h[i] = S(i)
        /\ \A i \in 0..(O + gone) : ~(i <= O) => h[i] = S(O)
        /\ h = [i \in 0..(O + gone) |-> h[i]]
    BY DEF ListSums
  <1> HIDE DEF h, S
  <1>7. h \in [0..(O + gone) -> Int] /\ h[0] = 0
    <2>1. \A i \in 0..(O + gone) : h[i] \in Int
      BY <1>1, <1>2, <1>6
    <2>2. h[0] = 0
      BY <1>1, <1>4, <1>6
    <2> QED BY <1>6, <2>1, <2>2
  <1>8. ASSUME NEW i \in 1..(O + gone) PROVE h[i] = h[i - 1] + Effect(notices'[L + i])
    <2>1. CASE i <= O
      <3>1. i \in 1..O /\ i - 1 <= O /\ i \in 0..(O + gone) /\ i - 1 \in 0..(O + gone)
        BY <1>1, <2>1
      <3>2. h[i] = S(i) /\ h[i - 1] = S(i - 1)
        BY <1>6, <2>1, <3>1
      <3>3. notices'[L + i] = Listed(order[i])
        BY <3>1 DEF Reported
      <3> QED BY <1>5, <3>1, <3>2, <3>3
    <2>2. CASE ~(i <= O)
      <3> DEFINE j == i - O
      <3>1. j \in 1..gone /\ L + i = (L + O) + j /\ i \in 0..(O + gone) /\ i - 1 \in 0..(O + gone)
        BY <1>1, <2>2
      <3>2. h[i] = S(O) /\ h[i - 1] = S(O)
        <4>1. CASE i - 1 <= O
          <5>1. i - 1 = O
            BY <1>1, <2>2, <4>1
          <5> QED BY <1>6, <2>2, <3>1, <4>1, <5>1
        <4>2. CASE ~(i - 1 <= O)
          BY <1>6, <2>2, <3>1, <4>2
        <4> QED BY <4>1, <4>2
      <3> HIDE DEF j
      <3>3. notices'[(L + O) + j] = [kind |-> "tombstone"]
        BY <3>1 DEF Reported
      <3>4. Effect(notices'[L + i]) = 0
        BY <3>1, <3>3 DEF Effect
      <3>5. S(O) \in Int
        BY <1>1, <1>2
      <3> QED BY <3>2, <3>4, <3>5
    <2> QED BY <2>1, <2>2
  <1>9. Len(notices') = L + (O + gone) /\ notices' \in Seq(Notice) /\ notices \in Seq(Notice)
        /\ O + gone \in Nat /\ \A i \in 1..L : notices'[i] = notices[i]
    BY <1>1 DEF Reported, TypeOK
  <1>10. /\ ListSums(order, gone) \in [0..(Len(order) + gone) -> Int] /\ ListSums(order, gone)[0] = 0
         /\ \A i \in 1..(Len(order) + gone) :
               ListSums(order, gone)[i] = ListSums(order, gone)[i - 1] + Effect(notices'[Len(notices) + i])
    BY <1>7, <1>8 DEF h
  <1> QED BY <1>9, <1>10 DEF IsExtension

\* Without grounds, nodes that were known and have changed are other nodes of the
\* same name, and their effect is the difference.
LEMMA ListDifference ==
    ASSUME TypeOK, Synced, drift \cap Grounds = {},
           NEW n \in DOMAIN cluster, n \in DOMAIN store
    PROVE  /\ Gpus(cluster)[n] = ListEffect[n] + Gpus(store)[n]
           /\ Gpus(cluster)[n] \in Nat /\ Gpus(store)[n] \in Nat /\ ListEffect[n] \in Int
           /\ store[n] = cluster[n] => ListEffect[n] = 0
  <1>1. /\ cluster[n] \in Node /\ store[n] \in Node
        /\ cluster[n].gpus \in Nat /\ store[n].gpus \in Nat
        /\ Gpus(cluster)[n] = cluster[n].gpus /\ Gpus(store)[n] = store[n].gpus
    BY NodesFinite DEF TypeOK, IsNodes, Gpus
  <1>2. store[n].UID = cluster[n].UID => store[n] = cluster[n]
    BY DEF Synced
  <1>3. ListEffect[n] = IF store[n].UID # cluster[n].UID THEN cluster[n].gpus - store[n].gpus ELSE 0
    BY DEF ListEffect, Listed, Effect, Difference
  <1> QED BY <1>1, <1>2, <1>3

\* So they all together add the difference of what there is and what there was.
LEMMA ListDifferences ==
    ASSUME TypeOK, Synced, drift \cap Grounds = {},
           NEW W \in SUBSET DOMAIN cluster, W \subseteq DOMAIN store
    PROVE  /\ SumOver(Gpus(cluster), W) = SumOver(ListEffect, W) + SumOver(Gpus(store), W)
           /\ SumOver(Gpus(cluster), W) \in Nat /\ SumOver(ListEffect, W) \in Int
           /\ SumOver(Gpus(store), W) \in Nat /\ SumOver(Gpus(store), W) <= GpusOf(store)
           /\ DOMAIN store \subseteq W => SumOver(Gpus(store), W) = GpusOf(store)
  <1>1. \A n \in W : /\ Gpus(cluster)[n] = ListEffect[n] + Gpus(store)[n]
                      /\ Gpus(cluster)[n] \in Nat /\ Gpus(store)[n] \in Nat /\ ListEffect[n] \in Int
    BY ListDifference
  <1>2. /\ IsFiniteSet(W) /\ IsFiniteSet(DOMAIN store) /\ \A n \in DOMAIN store : Gpus(store)[n] \in Nat
    BY NodesFinite, FS_Subset DEF TypeOK, IsNodes
  <1>3. SumOver(Gpus(cluster), W) = SumOver(ListEffect, W) + SumOver(Gpus(store), W)
    <2>1. \A n \in W : /\ ListEffect[n] \in Int /\ Gpus(store)[n] \in Int
                        /\ Gpus(cluster)[n] = ListEffect[n] + Gpus(store)[n]
      BY <1>1
    <2> QED BY <1>2, <2>1, SumPlus
  <1>4. SumOver(Gpus(cluster), W) \in Nat /\ SumOver(Gpus(store), W) \in Nat
    BY <1>1, <1>2, SumNat
  <1>5. SumOver(ListEffect, W) \in Int
    BY <1>1, <1>2, SumInt
  <1>6. SumOver(Gpus(store), W) <= SumOver(Gpus(store), DOMAIN store)
    BY <1>2, SumSubset
  <1>7. GpusOf(store) = SumOver(Gpus(store), DOMAIN store)
    BY DEF GpusOf, Gpus
  <1> QED BY <1>3, <1>4, <1>5, <1>6, <1>7

\* The informer lists the nodes.
LEMMA ListForecast == ASSUME TypeOK, Synced, Forecast, List PROVE Forecast'
  <1>1. PICK order, gone : Reported(order, gone)
    BY ListType
  <1> DEFINE L == Len(notices)
             O == Len(order)
             h == ListSums(order, gone)
             W(i) == FirstOf(order, i)
  <1>2. PICK p : IsForecast(p, notices, TotalGpus) /\ Foreseen(p)
    BY DEF Forecast
  <1>3. /\ L \in Nat /\ O \in Nat /\ gone \in Nat /\ TotalGpus \in Int
        /\ Len(notices') = L + (O + gone)
        /\ \A i \in 1..L : notices'[i] = notices[i]
        /\ \A i \in 1..O : notices'[L + i] = Listed(order[i])
    BY <1>1 DEF Reported, TypeOK
  <1>4. IsExtension(notices', notices, O + gone, h)
    BY <1>1, ListExtends
  <1>5. \E r : /\ IsForecast(r, notices', TotalGpus)
               /\ \A k \in 0..L : r[k] = p[k]
               /\ \A i \in 0..(O + gone) : r[L + i] = p[L] + h[i]
    BY <1>2, <1>3, <1>4, ForecastExtend
  <1>6. PICK q : /\ IsForecast(q, notices', TotalGpus)
                 /\ \A k \in 0..L : q[k] = p[k]
                 /\ \A i \in 0..(O + gone) : q[L + i] = p[L] + h[i]
    BY <1>5
  <1>7. /\ up /\ up' /\ watching' /\ TotalGpus' = TotalGpus /\ store' = cluster
        /\ drift' = IF DOMAIN store \ DOMAIN cluster = {} THEN drift ELSE drift \cup {"missed"}
    BY DEF List, scheduler
  <1>8. /\ drift' \cap Grounds = {} => drift \cap Grounds = {}
        /\ drift' = {} => drift = {} /\ DOMAIN store \subseteq DOMAIN cluster
    BY <1>7
  <1>9. p[L] \in Int
    BY <1>2, <1>3 DEF IsForecast
  <1>10. ASSUME NEW i \in 0..(O + gone)
         PROVE  h[i] = SumOver(ListEffect, W(IF i <= O THEN i ELSE O))
    BY <1>10 DEF ListSums
  \* Only known nodes are reported, if nothing is to be added.
  <1>11. ASSUME NEW i \in 0..(O + gone), NoAdd(notices', L + i)
         PROVE  NoAdd(notices, L) /\ \A j \in 1..(IF i <= O THEN i ELSE O) : order[j] \in DOMAIN store
    <2>1. NoAdd(notices, L)
      <3>1. \A j \in 1..L : j \in 1..(L + i)
        BY <1>3
      <3> QED BY <1>3, <1>11, <3>1 DEF NoAdd
    <2>2. ASSUME NEW j \in 1..(IF i <= O THEN i ELSE O) PROVE order[j] \in DOMAIN store
      <3>1. j \in 1..O /\ L + j \in 1..(L + i)
        BY <1>3
      <3>2. Listed(order[j]).kind # "add"
        BY <1>3, <1>11, <3>1 DEF NoAdd
      <3> QED BY <3>2 DEF Listed
    <2> QED BY <2>1, <2>2
  <1> HIDE DEF h
  <1>12. ASSUME drift \cap Grounds = {}, NEW k \in 0..Len(notices'), NoAdd(notices', k)
         PROVE  q[k] >= 0
    <2>1. CASE k <= L
      <3>1. k \in 0..L /\ \A j \in 1..k : j \in 1..L
        BY <1>3, <2>1
      <3>2. NoAdd(notices, k)
        BY <1>3, <1>12, <3>1 DEF NoAdd
      <3> QED BY <1>2, <1>6, <1>12, <3>1, <3>2 DEF Foreseen
    <2>2. CASE ~(k <= L)
      <3> DEFINE i == k - L
                 j == IF i <= O THEN i ELSE O
                 V == W(j)
      <3>1. i \in 0..(O + gone) /\ k = L + i /\ j \in 0..O
        BY <1>3, <2>2
      <3>2. NoAdd(notices, L) /\ \A x \in 1..j : order[x] \in DOMAIN store
        BY <1>11, <1>12, <3>1
      <3>3. V \subseteq DOMAIN cluster /\ V \subseteq DOMAIN store
        BY <1>1, <3>1, <3>2, FirstNodes DEF FirstOf
      <3>4. h[i] = SumOver(ListEffect, V)
        BY <1>10, <3>1
      <3>5. p[L] >= GpusOf(store)
        BY <1>2, <1>7, <1>12, <3>2 DEF Foreseen
      <3>6. q[k] = p[L] + h[i]
        BY <1>6, <3>1
      <3>7. GpusOf(store) \in Nat
        BY GpusNat DEF TypeOK, IsNodes
      <3> HIDE DEF V, i, j
      <3>8. /\ SumOver(Gpus(cluster), V) = SumOver(ListEffect, V) + SumOver(Gpus(store), V)
            /\ SumOver(Gpus(cluster), V) \in Nat /\ SumOver(ListEffect, V) \in Int
            /\ SumOver(Gpus(store), V) \in Nat /\ SumOver(Gpus(store), V) <= GpusOf(store)
        BY <1>12, <3>3, ListDifferences
      <3> QED BY <1>9, <3>4, <3>5, <3>6, <3>7, <3>8
    <2> QED BY <2>1, <2>2
  <1>13. ASSUME drift \cap Grounds = {}, NoAdd(notices', Len(notices'))
         PROVE  /\ q[Len(notices')] >= GpusOf(cluster)
                /\ drift = {} /\ DOMAIN store \subseteq DOMAIN cluster => q[Len(notices')] = GpusOf(cluster)
    <2> DEFINE i == O + gone
               D == DOMAIN cluster
    <2>1. i \in 0..(O + gone) /\ Len(notices') = L + i /\ O \in 0..O /\ (IF i <= O THEN i ELSE O) = O
      BY <1>3
    <2>2. NoAdd(notices, L) /\ \A x \in 1..O : order[x] \in DOMAIN store
      BY <1>11, <1>13, <2>1
    <2>3. h[i] = SumOver(ListEffect, W(O)) /\ q[Len(notices')] = p[L] + h[i]
      BY <1>6, <1>10, <2>1
    <2>4. \A n \in D : n \notin W(O) => n \in DOMAIN store /\ store[n] = cluster[n]
      BY <1>1 DEF Reported, FirstOf
    <2>5. W(O) \subseteq D /\ W(O) \subseteq DOMAIN store
      BY <1>1, <2>1, <2>2, FirstNodes DEF FirstOf
    <2>6. D \subseteq DOMAIN store
      BY <2>4, <2>5
    <2>7. SumOver(ListEffect, D) = SumOver(ListEffect, W(O))
      <3>1. \A n \in D : ListEffect[n] \in Int /\ (n \notin W(O) => ListEffect[n] = 0)
        BY <1>13, <2>4, <2>6, ListDifference
      <3>2. IsFiniteSet(D)
        BY ListEffectInt
      <3> QED BY <2>5, <3>1, <3>2, SumSupport
    <2>8. /\ SumOver(Gpus(cluster), D) = SumOver(ListEffect, D) + SumOver(Gpus(store), D)
          /\ SumOver(Gpus(cluster), D) \in Nat /\ SumOver(ListEffect, D) \in Int
          /\ SumOver(Gpus(store), D) \in Nat /\ SumOver(Gpus(store), D) <= GpusOf(store)
          /\ DOMAIN store \subseteq D => SumOver(Gpus(store), D) = GpusOf(store)
      BY <1>13, <2>6, ListDifferences
    <2>9. GpusOf(cluster) = SumOver(Gpus(cluster), D)
      BY DEF GpusOf, Gpus
    <2>10. GpusOf(store) \in Nat
      BY GpusNat DEF TypeOK, IsNodes
    <2>11. p[L] >= GpusOf(store)
      BY <1>2, <1>7, <1>13, <2>2 DEF Foreseen
    <2>12. drift = {} => p[L] = GpusOf(store)
      BY <1>2, <1>7, <2>2, <2>6 DEF Foreseen
    <2> HIDE DEF D, W, i
    <2>13. q[Len(notices')] = p[L] + SumOver(ListEffect, D)
      BY <2>3, <2>7
    <2>14. q[Len(notices')] >= GpusOf(cluster)
      BY <1>9, <2>8, <2>9, <2>10, <2>11, <2>13
    <2>15. ASSUME drift = {}, DOMAIN store \subseteq DOMAIN cluster PROVE q[Len(notices')] = GpusOf(cluster)
      <3>1. p[L] = GpusOf(store) /\ SumOver(Gpus(store), D) = GpusOf(store)
        BY <2>8, <2>12, <2>15 DEF D
      <3> QED BY <1>9, <2>8, <2>9, <2>10, <2>13, <3>1
    <2> QED BY <2>14, <2>15
  <1>14. Foreseen(q)'
    BY <1>7, <1>8, <1>12, <1>13 DEF Foreseen
  <1>15. IsForecast(q, notices', TotalGpus')
    BY <1>6, <1>7
  <1> QED BY <1>14, <1>15 DEF Forecast

(***************************************************************************)
(* The theorems.                                                           *)
(***************************************************************************)

\* The invariant holds at first.
LEMMA InitCount == ASSUME Init PROVE CountInv
  <1>1. cluster \in [Nodes -> [UID : {0}, gpus : Sizes]] /\ Sizes \subseteq Nat
    BY NodesAssumption DEF Init
  <1>2. IsNodes(cluster) /\ \A n \in DOMAIN cluster : cluster[n].UID = 0
    <2>1. DOMAIN cluster = Nodes /\ \A n \in Nodes : cluster[n] \in [UID : {0}, gpus : Sizes]
      BY <1>1
    <2>2. ASSUME NEW x \in [UID : {0}, gpus : Sizes] PROVE x \in Node /\ x.UID = 0
      <3>1. PICK u \in {0}, g \in Sizes : x = [UID |-> u, gpus |-> g]
        OBVIOUS
      <3>2. u = 0 /\ g \in Nat
        BY <1>1
      <3>3. [UID |-> 0, gpus |-> g] \in Node
        BY <3>2 DEF Node
      <3> QED BY <3>1, <3>2, <3>3
    <2>3. cluster \in [DOMAIN cluster -> Node]
      <3>1. cluster = [n \in DOMAIN cluster |-> cluster[n]]
        BY <1>1
      <3> QED BY <2>1, <2>2, <3>1
    <2> QED BY <2>1, <2>2, <2>3 DEF IsNodes, IsMap
  <1>3. TypeOK
    <2>1. IsMap(store, Nodes, Node)
      BY EmptyIsMap DEF Init
    <2>2. drift \subseteq Reasons /\ notices \in Seq(Notice)
      BY DEF Init
    <2>3. TotalGpus \in Int /\ planned \in Int
      BY DEF Init
    <2>4. changes \in Nat /\ disconnects \in Nat /\ failures \in Nat /\ restarts \in Nat
      BY DEF Init
    <2>5. {up, reschedCh, watching, placing, ignored} \subseteq BOOLEAN
      BY DEF Init
    <2> QED BY <1>2, <2>1, <2>2, <2>3, <2>4, <2>5 DEF TypeOK, IsNodes
  <1>4. Synced
    <2>1. DOMAIN store = {} /\ store = EmptyMap /\ ~up /\ ~watching /\ notices = <<>> /\ changes = 0 /\ ~placing
      BY DEF Init, EmptyMap
    <2>2. \A n \in DOMAIN cluster : cluster[n].UID <= changes
      BY <1>2, <2>1
    <2> QED BY <2>1, <2>2 DEF Synced
  <1>5. Forecast
    <2>1. notices = <<>> /\ TotalGpus = 0 /\ ~up /\ Len(<<>>) = 0 /\ \A k \in 0..0 : k = 0
      BY DEF Init
    <2>2. PICK q : IsForecast(q, <<>>, 0) /\ q[0] = 0
      BY ForecastNone
    <2>3. Foreseen(q)
      BY <2>1, <2>2 DEF Foreseen
    <2> QED BY <2>1, <2>2, <2>3 DEF Forecast
  <1> QED BY <1>3, <1>4, <1>5 DEF CountInv, Forecast

\* Every step keeps the forecast.
LEMMA NextForecast == ASSUME TypeOK, Synced, Forecast, [Next]_vars PROVE Forecast'
  <1>1. ASSUME NEW n \in Nodes, NEW gpus \in Sizes, Join(n, gpus) \/ Resize(n, gpus) PROVE Forecast'
    BY <1>1, JoinForecast, ResizeForecast
  <1>2. ASSUME NEW n \in Nodes, Leave(n) PROVE Forecast'
    BY <1>2, LeaveForecast
  <1>3. CASE Disconnect
    <2>1. ~watching' /\ watching /\ UNCHANGED <<up, TotalGpus, notices, store, drift>>
      BY <1>3 DEF Disconnect, scheduler
    <2> QED BY <2>1, UnseenForecast
  <1>4. CASE Resched \/ FinishResched \/ UNCHANGED vars
    <2>1. UNCHANGED <<up, TotalGpus, notices, store, cluster, watching, drift>>
      BY <1>4 DEF Resched, FinishResched, vars, scheduler, informer
    <2>2. PICK p : IsForecast(p, notices, TotalGpus) /\ Foreseen(p)
      BY DEF Forecast
    <2>3. Foreseen(p)' /\ IsForecast(p, notices, TotalGpus)'
      BY <2>1, <2>2 DEF Foreseen, IsForecast
    <2> QED BY <2>3 DEF Forecast
  <1> QED BY <1>1, <1>2, <1>3, <1>4, HandlersForecast, ListForecast, StartForecast, CrashForecast
          DEF Next, Environment

\* The invariant is inductive.
LEMMA CountInductive == Spec => []CountInv
  <1>1. CountInv <=> TypeOK /\ Synced /\ Forecast
    BY DEF CountInv, Forecast
  <1>2. Init => CountInv
    BY InitCount
  <1>3. CountInv /\ [Next]_vars => CountInv'
    BY NextType, NextSynced, NextForecast DEF CountInv, Forecast
  <1> QED BY <1>2, <1>3, PTL DEF Spec

\* Types: whatever is started, lost, resized and reported, the maps of the nodes and
\* the queue of the informer hold nodes and notices, and TotalGpus is a number, which
\* may be negative.
THEOREM NodeTypesCorrect == Spec => []TypeOK
  <1>1. CountInv => TypeOK
    BY DEF CountInv
  <1> QED BY <1>1, CountInductive, PTL

\* Whatever nodes join, leave and come back under another UID, once the informer has
\* nothing left to tell and there is no reason to be wrong, addNode, updateNode and
\* deleteNode have left TotalGpus at the GPUs of the cluster, and they are planned
\* with or about to be, unless the event of the change came while a rescheduling
\* ended and was ignored.
THEOREM CountStaysExact == Spec => []CountIsExact
  <1>1. ASSUME CountInv PROVE CountIsExact
    <2> SUFFICES ASSUME Settled, drift = {}
                 PROVE  TotalGpus = GpusOf(cluster) /\ (reschedCh \/ ignored \/ planned = TotalGpus)
      BY DEF CountIsExact
    <2>1. PICK p : IsForecast(p, notices, TotalGpus) /\ Foreseen(p)
      BY <1>1 DEF CountInv
    <2>2. Len(notices) = 0 /\ NoAdd(notices, Len(notices)) /\ up /\ watching
      BY DEF Settled, NoAdd
    <2>3. p[0] = GpusOf(store) /\ p[0] = TotalGpus
      BY <2>1, <2>2 DEF Foreseen, IsForecast
    <2>4. store = cluster /\ (reschedCh \/ ignored \/ planned = TotalGpus)
      BY <1>1, <2>2 DEF CountInv, Synced
    <2> QED BY <2>3, <2>4
  <1> QED BY <1>1, CountInductive, PTL

\* deleteNode and updateNode never take away GPUs that were not counted, unless a
\* count of addNode was ahead of its notices or failed, or a node was resized: a
\* negative TotalGpus has no other cause.
THEOREM NegativeCountsExplained == Spec => []NegativeIsExplained
  <1>1. ASSUME CountInv PROVE NegativeIsExplained
    <2> SUFFICES ASSUME drift \cap Grounds = {} PROVE ~(TotalGpus < 0)
      BY DEF NegativeIsExplained, Grounds
    <2>1. PICK p : IsForecast(p, notices, TotalGpus) /\ Foreseen(p)
      BY <1>1 DEF CountInv
    <2>2. 0 \in 0..Len(notices) /\ NoAdd(notices, 0) /\ p[0] = TotalGpus /\ TotalGpus \in Int
      BY <1>1, <2>1 DEF NoAdd, IsForecast, CountInv, TypeOK
    <2>3. p[0] >= 0
      BY <2>1, <2>2 DEF Foreseen
    <2> QED BY <2>2, <2>3
  <1> QED BY <1>1, CountInductive, PTL
=============================================================================
