------------------------------ MODULE Placement ------------------------------
(***************************************************************************)
(* The placement manager of a scheduler                                    *)
(* (src/pkg/placement/placement_manager.go): the nodes and the jobs as it  *)
(* sees them, Place(), which packs the workers of all jobs on the nodes    *)
(* and moves pods, the informer handlers that add tolerations to pods and  *)
(* follow nodes, and the reconstruction on a restart.  Around it: the      *)
(* scheduler that changes the sizes of jobs, the MPI operator that creates *)
(* and deletes their worker pods, and nodes that leave and come back.      *)
(*                                                                         *)
(* Place() holds placementLock while it computes a placement, one          *)
(* iteration of the loop of bestFit() per step, and the read lock of the   *)
(* scheduler to its end.  Launcher pods, which tolerate every node, are    *)
(* left out.                                                               *)
(***************************************************************************)
EXTENDS Integers, Sequences, FiniteSets, FiniteSetsExt, SequencesExt, Maps

CONSTANTS
    Jobs,             \* names of training jobs
    Nodes,            \* names of nodes
    Gpus,             \* [Nodes -> Nat], countGPUs of each node
    MaxWorkers,       \* the most GPUs the scheduler allocates to one job
    MaxNodeChanges,   \* bound on nodes leaving and coming back
    MaxRestarts       \* bound on restarts of the scheduler

ASSUME SetsAssumption == IsFiniteSet(Jobs) /\ IsFiniteSet(Nodes)
ASSUME GpusAssumption == Gpus \in [Nodes -> Nat] /\ MaxWorkers \in Nat
ASSUME BoundsAssumption == MaxNodeChanges \in Nat /\ MaxRestarts \in Nat

VARIABLES
    (* the placement manager *)
    nodeStates,    \* map from the nodes to their slots and the workers there
    jobStates,     \* map from the placed jobs to their workers and nodes
    podNodeName,   \* map from worker pods to nodes
    pc,            \* idle, requested, fit, deleting or panicked
    plan,          \* bestFit: the nodes being filled, which have no names yet
    asks,          \* bestFit: the jobs not placed yet, in their order
    requested,     \* bestFit: workers of the first of them not placed yet
    slots,         \* bestFit: totalClusterSlots
    doomed,        \* pods that deletePods() has yet to delete
    (* the scheduler and the cluster *)
    jobRequests,   \* JobNumGPU, which is also the replicas of each MPIJob
    cluster,       \* nodes that are there
    nodeEvents,    \* node events the informer has yet to deliver
    pods,          \* map from worker pods to the nodes each tolerates, in the
                   \* order in which the tolerations were added
    added,         \* pods whose addition the informer has yet to deliver
    changes, restarts,
    strays         \* auxiliary: pods that were added before the table had them,
                   \* that have outlived their place in the table, that a crash
                   \* has saved from being moved, or that the API server has not
                   \* updated or not deleted

tables  == <<nodeStates, jobStates, podNodeName>>
fitting == <<plan, asks, requested, slots>>
world   == <<cluster, nodeEvents, changes>>
vars == <<tables, pc, fitting, doomed, jobRequests, world, pods, added, restarts, strays>>

IsNodeState(s) ==
    s.totalSlots \in Nat /\ s.freeSlots \in Int /\ IsMap(s.jobNumWorkers, Jobs, Int)
IsJobState(s) ==
    s.numWorkers \in Int /\ s.nodeNumSlotsList \in Seq([node : Nodes, numSlots : Nat])
Pod == Jobs \X Nat
NodeEvent == [kind : {"add", "delete"}, node : Nodes]

TypeOK ==
    /\ DOMAIN nodeStates \subseteq Nodes
    /\ \A n \in DOMAIN nodeStates : IsNodeState(nodeStates[n])
    /\ DOMAIN jobStates \subseteq Jobs
    /\ \A j \in DOMAIN jobStates : IsJobState(jobStates[j])
    /\ IsMap(podNodeName, Pod, Nodes)
    /\ pc \in {"idle", "requested", "fit", "deleting", "panicked"}
    /\ \A k \in DOMAIN plan : IsNodeState(plan[k])
    /\ asks \in Seq(Jobs) /\ requested \in Nat /\ slots \in Int
    /\ doomed \subseteq Pod
    /\ IsMap(jobRequests, Jobs, Nat)
    /\ cluster \subseteq Nodes /\ nodeEvents \in Seq(NodeEvent)
    /\ IsMap(pods, Pod, Seq(Nodes))
    /\ added \subseteq Pod /\ strays \subseteq Pod
    /\ changes \in Nat /\ restarts \in Nat

NewNodeState(gpus) == [totalSlots |-> gpus, freeSlots |-> gpus, jobNumWorkers |-> EmptyMap]

Init ==
    /\ nodeStates = [n \in Nodes |-> NewNodeState(Gpus[n])]
    /\ jobStates = EmptyMap /\ podNodeName = EmptyMap
    /\ pc = "idle"
    /\ plan = <<>> /\ asks = <<>> /\ requested = 0 /\ slots = 0
    /\ doomed = {}
    /\ jobRequests = EmptyMap
    /\ cluster = Nodes /\ nodeEvents = <<>>
    /\ pods = EmptyMap /\ added = {} /\ strays = {}
    /\ changes = 0 /\ restarts = 0

SumOf(f) == SumOver(f, DOMAIN f)

\* The orders in which Go may iterate over a map with these keys, and some of them
\* in such an order.
Orders(S) == SetToSeqs(S)
InOrder(S, o) == CHOOSE s \in Orders(S) : \A i, k \in DOMAIN s : \A x, y \in DOMAIN o :
                     i < k /\ s[i] = o[x] /\ s[k] = o[y] => x < y

\* placementLock, for a handler.
LockFree == pc \in {"idle", "requested", "deleting"}

-----------------------------------------------------------------------------
(* Around the placement manager.                                            *)

\* The scheduler has allocated GPUs to its jobs and resized their MPIJobs;
\* Place() comes next.
Resched ==
    /\ pc = "idle"
    /\ pc' = "requested"
    /\ \E D \in SUBSET Jobs : \E r \in [D -> 0..MaxWorkers] :
          /\ SumOf(r) <= SumOf(Gpus)
          /\ r # jobRequests
          /\ jobRequests' = r
    /\ UNCHANGED <<tables, fitting, doomed, world, pods, added, restarts, strays>>

\* A job completes, fails or is deleted; this takes the lock of the scheduler.
JobDone(j) ==
    /\ pc \in {"idle", "requested"}
    /\ j \in DOMAIN jobRequests
    /\ jobRequests' = Without(jobRequests, {j})
    /\ UNCHANGED <<tables, pc, fitting, doomed, world, pods, added, restarts, strays>>

\* The MPI operator creates and deletes the worker pods of an MPIJob; a new pod
\* has no toleration.  The workers of a job are numbered from 0.
CreatePod(p) ==
    /\ p \notin DOMAIN pods
    /\ p[2] < At(jobRequests, p[1])
    /\ pods' = Put(pods, p, <<>>)
    /\ added' = added \cup {p}
    /\ UNCHANGED <<tables, pc, fitting, doomed, jobRequests, world, restarts, strays>>

DropPod(p) ==
    /\ pods' = Without(pods, {p})
    /\ added' = added \ {p}
    /\ strays' = strays \ {p}

DeletePod(p) ==
    /\ p \in DOMAIN pods
    /\ p[2] >= At(jobRequests, p[1])
    /\ DropPod(p)
    /\ UNCHANGED <<tables, pc, fitting, doomed, jobRequests, world, restarts>>

\* A pod does not outlive the node it tolerates.
EvictPod(p) ==
    /\ p \in DOMAIN pods
    /\ pods[p] # <<>> /\ Range(pods[p]) \cap cluster = {}
    /\ DropPod(p)
    /\ UNCHANGED <<tables, pc, fitting, doomed, jobRequests, world, restarts>>

NodeChanges(n) ==
    /\ changes < MaxNodeChanges
    /\ changes' = changes + 1
    /\ \/ /\ n \in cluster /\ cluster' = cluster \ {n}
          /\ nodeEvents' = Append(nodeEvents, [kind |-> "delete", node |-> n])
       \/ /\ n \notin cluster /\ cluster' = cluster \cup {n}
          /\ nodeEvents' = Append(nodeEvents, [kind |-> "add", node |-> n])
    /\ UNCHANGED <<tables, pc, fitting, doomed, jobRequests, pods, added, restarts, strays>>

-----------------------------------------------------------------------------
(* Informer handlers.                                                       *)

\* addPod, and addPodToleration, which may fail: that is logged, and the pod left as
\* it is.  The table may name a node that is gone.
AddPod(p) ==
    /\ LockFree
    /\ p \in added
    /\ added' = added \ {p}
    /\ \/ /\ p \in DOMAIN podNodeName /\ podNodeName[p] \in DOMAIN nodeStates
          /\ \/ /\ pods' = IF podNodeName[p] \in Range(pods[p]) THEN pods
                           ELSE [pods EXCEPT ![p] = Append(@, podNodeName[p])]
                /\ UNCHANGED strays
             \/ /\ podNodeName[p] \notin Range(pods[p])
                /\ strays' = strays \cup {p} /\ UNCHANGED pods
          /\ UNCHANGED pc
       \/ /\ p \in DOMAIN podNodeName /\ podNodeName[p] \notin DOMAIN nodeStates
          /\ pc' = "panicked" /\ UNCHANGED <<pods, strays>>
       \/ /\ p \notin DOMAIN podNodeName
          /\ strays' = strays \cup {p} /\ UNCHANGED <<pods, pc>>
    /\ UNCHANGED <<tables, fitting, doomed, jobRequests, world, restarts>>

\* addNode
AddNode(n) ==
    /\ nodeStates' = IF n \in DOMAIN nodeStates THEN nodeStates
                     ELSE Put(nodeStates, n, NewNodeState(Gpus[n]))
    /\ UNCHANGED <<jobStates, pc>>

\* deleteNode.  The loop over nodeNumSlotsList assigns to a copy of its element.
DeleteNode(n) ==
    \/ /\ n \in DOMAIN nodeStates
       /\ nodeStates' = Without(nodeStates, {n})
       /\ jobStates' = [j \in DOMAIN jobStates |->
                           [jobStates[j] EXCEPT !.numWorkers =
                               @ - At(nodeStates[n].jobNumWorkers, j)]]
       /\ UNCHANGED pc
    \/ /\ n \notin DOMAIN nodeStates
       /\ pc' = "panicked" /\ UNCHANGED <<nodeStates, jobStates>>

\* An update of a node whose UID has changed is a deletion and an addition.
NodeHandler ==
    /\ LockFree
    /\ nodeEvents # <<>>
    /\ nodeEvents' = Tail(nodeEvents)
    /\ LET e == Head(nodeEvents) IN
       \/ e.kind = "add" /\ AddNode(e.node)
       \/ e.kind = "delete" /\ DeleteNode(e.node)
    /\ UNCHANGED <<podNodeName, fitting, doomed, jobRequests, cluster, changes,
                   pods, added, restarts, strays>>

-----------------------------------------------------------------------------
(* Place().                                                                 *)

\* The first k entries of a job's list hold this many slots.
SlotsUpTo(list, k) == SumOf([i \in 1..k |-> list[i].numSlots])

\* Slots that job j keeps, counted from the front of its list, if it has been
\* scaled down.
ScaledDown == { j \in DOMAIN jobStates \cap DOMAIN jobRequests :
                   jobRequests[j] < jobStates[j].numWorkers }
Keeps(j) == LET list == jobStates[j].nodeNumSlotsList
            IN SlotsUpTo(list, Len(list)) - (jobStates[j].numWorkers - jobRequests[j])

\* The entries of its list that releaseSlots visits, from the last one on.
Visited(j) == { k \in DOMAIN jobStates[j].nodeNumSlotsList :
                   SlotsUpTo(jobStates[j].nodeNumSlotsList, k) > Keeps(j) }

\* releaseSlots reads the name of each node it visits.
VisitsMissingNode ==
    \E j \in ScaledDown : \E k \in Visited(j) :
        jobStates[j].nodeNumSlotsList[k].node \notin DOMAIN nodeStates

\* jobNumWorkers of node n after releaseSlots.  (Its free slots are not read
\* again.)  A node that was deleted and has come back does not know the workers
\* that are taken from it.
Released(n) ==
    LET workers(j) == At(nodeStates[n].jobNumWorkers, j)
        list(j)    == jobStates[j].nodeNumSlotsList
        entries(j) == { k \in DOMAIN list(j) : list(j)[k].node = n }
        left(j) ==
            CASE j \notin DOMAIN jobRequests -> 0
              [] j \in ScaledDown /\ entries(j) \cap Visited(j) # {} ->
                    LET k == Min(entries(j))
                    IN IF k = Min(Visited(j)) THEN workers(j) - (SlotsUpTo(list(j), k) - Keeps(j))
                                              ELSE 0
              [] OTHER -> workers(j)
    IN [j \in { i \in DOMAIN jobStates : left(i) # 0 } |-> left(j)]

\* The jobs that ask for GPUs, by the number of workers, in descending order.
RequestOrders ==
    LET asking == { j \in DOMAIN jobRequests : jobRequests[j] > 0 }
    IN { o \in Orders(asking) :
           \A k, l \in DOMAIN o : k < l => jobRequests[o[k]] >= jobRequests[o[l]] }

\* Mutant: the slots that were free before count as those of the cluster.
ClusterSlotsFree == SumOf([n \in DOMAIN nodeStates |-> nodeStates[n].freeSlots])

\* totalClusterSlots of the new list of nodes.
ClusterSlots == SumOf([n \in DOMAIN nodeStates |-> nodeStates[n].totalSlots])

\* Place() up to the loop of bestFit: releaseSlots, and a new list of nodes.
Place ==
    /\ pc = "requested"
    /\ \/ VisitsMissingNode /\ pc' = "panicked" /\ UNCHANGED <<nodeStates, fitting>>
       \/ /\ ~VisitsMissingNode
          /\ pc' = "fit"
          /\ nodeStates' = [n \in DOMAIN nodeStates |->
                               [nodeStates[n] EXCEPT !.jobNumWorkers = Released(n)]]
          /\ \E o \in Orders(DOMAIN nodeStates), a \in RequestOrders :
                /\ plan' = [k \in DOMAIN o |-> NewNodeState(nodeStates[o[k]].totalSlots)]
                /\ asks' = a
                /\ requested' = IF a = <<>> THEN 0 ELSE jobRequests[Head(a)]
          /\ slots' = ClusterSlots
    /\ UNCHANGED <<jobStates, podNodeName, doomed, jobRequests, world, pods, added, restarts,
                   strays>>

\* Mutant: off by one.
FitsAlmost == { k \in DOMAIN plan : plan[k].freeSlots + 1 >= requested }

\* The node with the least free slots that has enough, the node with the most:
\* the first such node of the list.
Fits == { k \in DOMAIN plan : plan[k].freeSlots >= requested }
BestIdx == CHOOSE k \in Fits : \A l \in Fits :
              \/ plan[k].freeSlots < plan[l].freeSlots
              \/ plan[k].freeSlots = plan[l].freeSlots /\ k <= l
MaxIdx == CHOOSE k \in DOMAIN plan : \A l \in DOMAIN plan :
              \/ plan[k].freeSlots > plan[l].freeSlots
              \/ plan[k].freeSlots = plan[l].freeSlots /\ k <= l

\* Mutant: the loop goes on with the same job when nothing is left of it.
BindOnceMore(k, workers) ==
    /\ plan' = [plan EXCEPT ![k].jobNumWorkers = Put(@, Head(asks), workers),
                            ![k].freeSlots = @ - workers]
    /\ slots' = slots - workers
    /\ requested' = requested - workers /\ asks' = IF requested < 0 THEN Tail(asks) ELSE asks

\* Mutant: the slots of the cluster are not counted down.
BindUncounted(k, workers) ==
    /\ plan' = [plan EXCEPT ![k].jobNumWorkers = Put(@, Head(asks), workers),
                            ![k].freeSlots = @ - workers]
    /\ UNCHANGED slots
    /\ IF requested > workers
       THEN requested' = requested - workers /\ UNCHANGED asks
       ELSE /\ asks' = Tail(asks)
            /\ requested' = IF Tail(asks) = <<>> THEN 0 ELSE jobRequests[asks[2]]

\* Binds workers of the first asking job to the node at k.
Bind(k, workers) ==
    LET j == Head(asks) IN
    /\ plan' = [plan EXCEPT ![k].jobNumWorkers = Put(@, j, workers),
                            ![k].freeSlots = @ - workers]
    /\ slots' = slots - workers
    /\ IF requested > workers
       THEN requested' = requested - workers /\ UNCHANGED asks
       ELSE /\ asks' = Tail(asks)
            /\ requested' = IF Tail(asks) = <<>> THEN 0 ELSE jobRequests[asks[2]]

\* bestFit gives up when no slots are left.
SlotsLeft == slots # 0

\* An iteration of bestFit.  A best fit gets all workers of the job, also those
\* that have been bound to other nodes before.
BestFit ==
    /\ pc = "fit"
    /\ asks # <<>> /\ SlotsLeft
    /\ \/ Fits # {} /\ Bind(BestIdx, jobRequests[Head(asks)])
       \/ Fits = {} /\ Bind(MaxIdx, plan[MaxIdx].freeSlots)
    /\ UNCHANGED <<tables, pc, doomed, jobRequests, world, pods, added, restarts, strays>>

\* Workers that stay where they are if the node at k of the plan becomes node n.
Score(k, n) ==
    SumOf([j \in DOMAIN plan[k].jobNumWorkers |->
              Min({plan[k].jobNumWorkers[j], At(nodeStates[n].jobNumWorkers, j)})])

\* The assignments of nodes to the places of the plan with the highest score.
Bindings ==
    LET total(o) == SumOf([k \in DOMAIN plan |-> Score(k, o[k])])
        all == Orders(DOMAIN nodeStates)
    IN { o \in all : \A other \in all : total(o) >= total(other) }

\* The nodes that have workers of a job, and all the jobs that have some.
NodesOf(ns, j) == { n \in DOMAIN ns : j \in DOMAIN ns[n].jobNumWorkers }
JobsOn(ns) == UNION { DOMAIN ns[n].jobNumWorkers : n \in DOMAIN ns }

\* Mutant: a job starts anew at each of its nodes.
JobStatesLast(ns, o) ==
    LET at(j) == Last(InOrder(NodesOf(ns, j), o))
        on(j) == ns[at(j)].jobNumWorkers[j]
    IN [j \in JobsOn(ns) |->
          [numWorkers |-> on(j), nodeNumSlotsList |-> <<[node |-> at(j), numSlots |-> on(j)]>>]]

\* The list of a job, iterating over the node states ns in the order o.
SlotsList(ns, o, j) ==
    [k \in DOMAIN InOrder(NodesOf(ns, j), o) |->
        LET n == InOrder(NodesOf(ns, j), o)[k]
        IN [node |-> n, numSlots |-> ns[n].jobNumWorkers[j]]]

\* Mutant: numWorkers is assigned at each node, not added to.
JobStatesAssigned(ns, o) ==
    [j \in JobsOn(ns) |-> [numWorkers |-> Last(SlotsList(ns, o, j)).numSlots,
                           nodeNumSlotsList |-> SlotsList(ns, o, j)]]

\* updateJobStates
JobStates(ns, o) ==
    [j \in JobsOn(ns) |->
        [numWorkers |-> SumOf([n \in NodesOf(ns, j) |-> ns[n].jobNumWorkers[j]]),
         nodeNumSlotsList |-> SlotsList(ns, o, j)]]

\* updatePodNodeName: the workers of a job are numbered along its list.
PodTable(js) ==
    LET seat(j, i) == LET list == js[j].nodeNumSlotsList
                      IN list[CHOOSE k \in DOMAIN list : /\ SlotsUpTo(list, k - 1) <= i
                                                         /\ SlotsUpTo(list, k) > i].node
    IN [p \in UNION { {j} \X (0..js[j].numWorkers - 1) : j \in DOMAIN js } |-> seat(p[1], p[2])]

\* Mutant: no pod is moved.
MovedNone(table) == {}

\* Pods whose node differs in the old and the new table.
Moved(table) ==
    { p \in DOMAIN table \cap DOMAIN podNodeName : table[p] # podNodeName[p] }

\* bindNodes, updateJobStates and updatePodNodeName; the lock is released.
BindNodes ==
    /\ pc = "fit"
    /\ asks = <<>> \/ ~SlotsLeft
    /\ \E b \in Bindings :
          nodeStates' = [n \in DOMAIN nodeStates |-> plan[CHOOSE k \in DOMAIN b : b[k] = n]]
    /\ \E o \in Orders(DOMAIN nodeStates) : jobStates' = JobStates(nodeStates', o)
    /\ podNodeName' = PodTable(jobStates')
    /\ doomed' = Moved(podNodeName')
    /\ pc' = "deleting"
    /\ plan' = <<>> /\ asks' = <<>> /\ requested' = 0 /\ slots' = 0
    /\ strays' = strays \cup { p \in DOMAIN pods \ DOMAIN podNodeName' :
                                 p \notin added \/ pods[p] # <<>> }
    /\ UNCHANGED <<jobRequests, world, pods, added, restarts>>

\* deletePods, which the MPI operator answers with new pods.  If a call fails, that
\* is logged, and the pod stays where it is.
MigratePod(p) ==
    /\ pc = "deleting"
    /\ p \in doomed
    /\ doomed' = doomed \ {p}
    /\ \/ DropPod(p)
       \/ /\ p \in DOMAIN pods
          /\ strays' = strays \cup {p} /\ UNCHANGED <<pods, added>>
    /\ UNCHANGED <<tables, pc, fitting, jobRequests, world, restarts>>

\* The read lock of the scheduler is released.
EndPlace ==
    /\ pc = "deleting"
    /\ doomed = {}
    /\ pc' = "idle"
    /\ UNCHANGED <<tables, fitting, doomed, jobRequests, world, pods, added, restarts, strays>>

-----------------------------------------------------------------------------
\* The scheduler is restarted: discoverNodes and constructStatusOnRestart, which
\* takes the first toleration of each pod and panics at one for a node that is
\* gone.  The informers deliver every pod again.
Restart ==
    LET placed == { p \in DOMAIN pods : pods[p] # <<>> }
    IN /\ restarts < MaxRestarts
       /\ restarts' = restarts + 1
       /\ podNodeName' = [p \in placed |-> Head(pods[p])]
       /\ LET on(j, n) == { p \in placed : p[1] = j /\ podNodeName'[p] = n } IN
          nodeStates' = [n \in cluster |->
              [totalSlots |-> Gpus[n],
               freeSlots  |-> Gpus[n] - Cardinality({ p \in placed : podNodeName'[p] = n }),
               jobNumWorkers |-> [j \in { i \in Jobs : on(i, n) # {} } |-> Cardinality(on(j, n))]]]
       /\ pc' = IF Range(podNodeName') \subseteq cluster THEN "idle" ELSE "panicked"
       /\ \E o \in Orders(cluster) : jobStates' = JobStates(nodeStates', o)
       /\ plan' = <<>> /\ asks' = <<>> /\ requested' = 0 /\ slots' = 0
       /\ doomed' = {}
       /\ nodeEvents' = <<>>
       /\ added' = DOMAIN pods
       /\ strays' = { p \in DOMAIN pods : Len(pods[p]) > 1 }
       /\ UNCHANGED <<jobRequests, cluster, changes, pods>>

Workers == Jobs \X (0..MaxWorkers - 1)

PlaceStep == Place \/ BestFit \/ BindNodes \/ (\E p \in doomed : MigratePod(p)) \/ EndPlace

Next ==
    \/ Resched
    \/ \E j \in Jobs : JobDone(j)
    \/ \E p \in Workers : CreatePod(p) \/ DeletePod(p) \/ EvictPod(p)
    \/ \E n \in Nodes : NodeChanges(n)
    \/ \E p \in added : AddPod(p)
    \/ NodeHandler
    \/ PlaceStep
    \/ Restart

Spec == Init /\ [][Next]_vars

\* Place() is a call in the goroutine of the scheduler.
FairSpec == Spec /\ WF_vars(PlaceStep)

-----------------------------------------------------------------------------
(* Properties.                                                              *)

\* A job whose workers are on more than one node.
Split(j) == Cardinality(NodesOf(nodeStates, j)) > 1
NoneSplit == \A j \in Jobs : ~Split(j)

\* types.go notes that the workers on a node are at most its slots: so they are as
\* long as bestFit has not split a job, whose last part it counts as the whole job.
\* (That part may be all that is left when a node is deleted, or when the pods of
\* the others are not there to be found on a restart.)
Overcommitted(n) == SumOf(nodeStates[n].jobNumWorkers) > nodeStates[n].totalSlots
OvercommittedOnlyIfSplit ==
    LockFree /\ changes = 0 /\ restarts = 0 /\ NoneSplit =>
        \A n \in DOMAIN nodeStates : ~Overcommitted(n)

\* If no job is split and the manager knows the nodes that the scheduler allocates,
\* every job has its workers when Place() has computed the placement.
PlacedAsRequested ==
    pc = "deleting" /\ changes = 0 /\ NoneSplit =>
        \A j \in DOMAIN jobRequests : jobRequests[j] > 0 =>
            j \in DOMAIN jobStates /\ jobStates[j].numWorkers = jobRequests[j]

\* types.go notes that the numSlots of the list of a job sum up to its workers:
\* so they do as long as no node leaves.  deleteNode takes the workers of the node
\* from numWorkers, and its slots from a copy of the entry of the list.
SumsUp(j) ==
    LET list == jobStates[j].nodeNumSlotsList
    IN SlotsUpTo(list, Len(list)) = jobStates[j].numWorkers
SlotsSumUp == LockFree /\ changes = 0 => \A j \in DOMAIN jobStates : SumsUp(j)

\* nodeStates and jobStates represent the same state in two perspectives, as the
\* comment of releaseSlots says: what a node has of a job is on the list of the
\* job, and the free slots of a node are those that its workers leave.
PerspectivesAgree ==
    LockFree =>
        \A n \in DOMAIN nodeStates :
            /\ \A j \in DOMAIN nodeStates[n].jobNumWorkers :
                 [node |-> n, numSlots |-> nodeStates[n].jobNumWorkers[j]]
                    \in Range(jobStates[j].nodeNumSlotsList)
            /\ nodeStates[n].freeSlots = nodeStates[n].totalSlots - SumOf(nodeStates[n].jobNumWorkers)

\* Worker migration: between two calls of Place() a pod in the table whose
\* addition has been handled tolerates the node of the table and no other.  This
\* is not so for a pod that was added before the table had it, that the operator
\* had not deleted yet when its job was scaled down and up again, or that got a
\* second toleration, as a restart adds every pod again, and was to be deleted for
\* it when the scheduler crashed once more; nor for one that the API server has
\* failed to update with its toleration, or to delete when it was to be moved.
Settled(p) == p \in DOMAIN podNodeName /\ p \notin added
PodsFollowTable ==
    pc = "idle" =>
        \A p \in DOMAIN pods : Settled(p) /\ p \notin strays => pods[p] = <<podNodeName[p]>>

\* Place() comes to an end, and with it the locks it holds are released; the
\* comment in bestFit promises it for every inconsistency with the scheduler.
PlaceEnds == pc = "fit" ~> pc # "fit"

=============================================================================
