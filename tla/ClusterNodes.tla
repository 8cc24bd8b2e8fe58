---------------------------- MODULE ClusterNodes ----------------------------
(***************************************************************************)
(* The number of GPUs a scheduler believes to have: TotalGpus and the      *)
(* three handlers of the node informer that change it (scheduler.go).      *)
(* addNode counts the GPUs of the nodes the API server lists now, the      *)
(* other two add and subtract what the informer tells them, later.         *)
(*                                                                         *)
(* The API server and the informer are external: nodes that join, leave    *)
(* and come back under a new UID, capacities that are reported late, a     *)
(* watch that breaks and is replaced by a new list.                        *)
(***************************************************************************)
EXTENDS Integers, Sequences, FiniteSetsExt, SequencesExt, Maps

CONSTANTS
    Nodes,           \* names of nodes that carry the label of this scheduler
    Sizes,           \* the capacities a node can have, in GPUs
    MaxChanges,      \* bound on the changes of nodes
    MaxDisconnects,  \* bound on broken watches
    MaxFailures,     \* bound on lists the API server fails to answer
    MaxRestarts      \* bound on starts of the scheduler

ASSUME NodesAssumption == IsFiniteSet(Nodes) /\ Sizes \subseteq Nat
ASSUME BoundsAssumption ==
    {MaxChanges, MaxDisconnects, MaxFailures, MaxRestarts} \subseteq Nat

VARIABLES
    (* the scheduler *)
    up,           \* NewScheduler has returned and Run() has started
    TotalGpus,    \* s.TotalGpus
    reschedCh,    \* a rescheduling event is pending
    planned,      \* TotalGpus in the last request to the allocator
    placing,      \* resched() has released the lock, lastResched is not set yet
    (* the API server and the informer *)
    cluster,      \* the nodes there are
    store,        \* the nodes as the informer has last seen them
    watching,     \* the informer has listed the nodes and watches them
    notices,      \* calls of the handlers that are still to be made
    (* history *)
    drift,        \* why TotalGpus may be wrong, see Reasons
    ignored,      \* the last rescheduling has made the loop ignore an event
    changes, disconnects, failures, restarts

loop      == <<planned, placing, ignored>>
scheduler == <<up, TotalGpus, reschedCh, loop>>
informer  == <<store, watching, notices>>
bounds    == <<changes, disconnects, failures, restarts>>
vars == <<scheduler, cluster, informer, drift, bounds>>

Node   == [UID : Nat, gpus : Nat]
Notice == [kind : {"add"}]
          \cup [kind : {"update"}, old : Node, new : Node]
          \cup [kind : {"delete"}, old : Node]
          \cup [kind : {"tombstone"}]

Reasons == {"ahead",      \* the last count has seen changes that the informer
                          \* reports later, for which GPUs are added or taken again
            "uncounted",  \* the API server did not answer addNode
            "resized",    \* the capacity of a node has changed under its UID
            "missed",     \* a node left while the watch was broken
            "unseen"}     \* a node left before the informer had seen it

TypeOK ==
    /\ {up, reschedCh, watching, placing, ignored} \subseteq BOOLEAN
    /\ TotalGpus \in Int /\ planned \in Int
    /\ IsMap(cluster, Nodes, Node)
    /\ IsMap(store, Nodes, Node)
    /\ notices \in Seq(Notice)
    /\ drift \subseteq Reasons
    /\ changes \in Nat /\ disconnects \in Nat /\ failures \in Nat /\ restarts \in Nat

GpusOf(nodes) == SumOver([n \in DOMAIN nodes |-> nodes[n].gpus], DOMAIN nodes)

Init ==
    /\ up = FALSE /\ TotalGpus = 0 /\ reschedCh = FALSE /\ planned = 0
    /\ cluster \in [Nodes -> [UID : {0}, gpus : Sizes]]
    /\ store = EmptyMap /\ watching = FALSE /\ notices = <<>>
    /\ drift = {} /\ placing = FALSE /\ ignored = FALSE
    /\ changes = 0 /\ disconnects = 0 /\ failures = 0 /\ restarts = 0

-----------------------------------------------------------------------------
(* The nodes, and how the informer learns of them.                          *)

\* The cluster becomes nodes; the informer, if it is watching, sees it at once
\* and puts a notice into the queue of the handlers.
Change(nodes, notice) ==
    /\ changes < MaxChanges
    /\ changes' = changes + 1
    /\ cluster' = nodes
    /\ IF watching THEN store' = nodes /\ notices' = Append(notices, notice)
                   ELSE UNCHANGED <<store, notices>>
    /\ UNCHANGED <<scheduler, watching, disconnects, failures, restarts>>

Join(n, gpus) ==
    /\ n \in Nodes \ DOMAIN cluster
    /\ Change(Put(cluster, n, [UID |-> changes + 1, gpus |-> gpus]), [kind |-> "add"])
    /\ UNCHANGED drift

Leave(n) ==
    /\ n \in DOMAIN cluster
    /\ Change(Without(cluster, {n}), [kind |-> "delete", old |-> cluster[n]])
    /\ drift' = IF watching \/ n \in DOMAIN store THEN drift ELSE drift \cup {"unseen"}

\* The kubelet reports another capacity, as it does when a device plugin
\* registers or fails.
Resize(n, gpus) ==
    /\ n \in DOMAIN cluster
    /\ gpus # cluster[n].gpus
    /\ LET new == [cluster[n] EXCEPT !.gpus = gpus]
       IN Change(Put(cluster, n, new), [kind |-> "update", old |-> cluster[n], new |-> new])
    /\ drift' = drift \cup {"resized"}

Disconnect ==
    /\ watching /\ disconnects < MaxDisconnects
    /\ disconnects' = disconnects + 1
    /\ watching' = FALSE
    /\ UNCHANGED <<scheduler, cluster, store, notices, drift, changes, failures, restarts>>

\* What a new list says of a node: nodes that are new to the informer are added,
\* known ones updated, whatever became of them in the meantime (unchanged ones
\* are left out here: updateNode ignores them).
Listed(n) == IF n \in DOMAIN store
             THEN [kind |-> "update", old |-> store[n], new |-> cluster[n]]
             ELSE [kind |-> "add"]

\* The informer lists the nodes: the first time after a start, and whenever a
\* watch is broken.  Nodes that are gone are reported last, not as nodes but as
\* cache.DeletedFinalStateUnknown.
List ==
    /\ up /\ ~watching
    /\ watching' = TRUE
    /\ store' = cluster
    /\ \E order \in SetToSeqs({ n \in DOMAIN cluster :
                                   n \in DOMAIN store => store[n] # cluster[n] }) :
          LET gone == DOMAIN store \ DOMAIN cluster IN
          /\ notices' = notices \o [i \in DOMAIN order |-> Listed(order[i])]
                                \o [i \in 1..Cardinality(gone) |-> [kind |-> "tombstone"]]
          /\ drift' = IF gone = {} THEN drift ELSE drift \cup {"missed"}
    /\ UNCHANGED <<scheduler, cluster, bounds>>

-----------------------------------------------------------------------------
(* The handlers.  They are called one after the other, under SchedulerLock.  *)

TriggerResched == reschedCh' = TRUE

Handle(kind) ==
    /\ up
    /\ notices # <<>> /\ Head(notices).kind = kind
    /\ notices' = Tail(notices)
    /\ UNCHANGED <<up, loop, cluster, store, watching, changes, disconnects, restarts>>

\* Will the handlers account for a change that is in the cluster already?
Ahead ==
    \/ \E i \in 2..Len(notices) :
          \/ notices[i].kind = "delete"
          \/ notices[i].kind = "update" /\ notices[i].old.UID # notices[i].new.UID
    \/ \E n \in DOMAIN store :
          n \notin DOMAIN cluster \/ store[n] # cluster[n]

\* Mutant: the GPUs found are added, as in the other handlers.
DiscoverGPUsAdded(count) == count = TotalGpus + GpusOf(cluster)

\* discoverGPUs
DiscoverGPUs(count) == count = GpusOf(cluster)

\* addNode.  A list that fails leaves TotalGpus at 0 and triggers nothing.
AddNode ==
    /\ Handle("add")
    /\ \/ /\ DiscoverGPUs(TotalGpus')
          /\ drift' = IF Ahead THEN {"ahead"} ELSE {}
          /\ TriggerResched
          /\ UNCHANGED failures
       \/ /\ failures < MaxFailures /\ failures' = failures + 1
          /\ TotalGpus' = 0
          /\ drift' = {"uncounted"}
          /\ UNCHANGED reschedCh

\* Mutant: what there was is taken for what there is.
DifferenceSwapped(old, new) == old.gpus - new.gpus

Difference(old, new) == new.gpus - old.gpus

\* updateNode
UpdateNode ==
    /\ Handle("update")
    /\ LET old == Head(notices).old
           new == Head(notices).new
       IN IF old.UID # new.UID
          THEN TotalGpus' = TotalGpus + Difference(old, new) /\ TriggerResched
          ELSE UNCHANGED <<TotalGpus, reschedCh>>
    /\ UNCHANGED <<drift, failures>>

\* Mutant: nothing is planned anew.
DeleteNodeSilently ==
    /\ Handle("delete")
    /\ TotalGpus' = TotalGpus - Head(notices).old.gpus
    /\ UNCHANGED <<reschedCh, drift, failures>>

\* deleteNode
DeleteNode ==
    /\ Handle("delete")
    /\ TotalGpus' = TotalGpus - Head(notices).old.gpus
    /\ TriggerResched
    /\ UNCHANGED <<drift, failures>>

\* deleteNode, called with something that is not a *corev1.Node.
DeleteUnknown ==
    /\ Handle("tombstone")
    /\ UNCHANGED <<TotalGpus, reschedCh, drift, failures>>

\* resched() asks for an allocation of TotalGpus, under the lock, which it then
\* releases to place the jobs.  (A request that fails is ReschedLoop's.)
Resched ==
    /\ up /\ reschedCh /\ ~placing
    /\ reschedCh' = FALSE
    /\ planned' = TotalGpus
    /\ placing' = TRUE /\ ignored' = FALSE
    /\ UNCHANGED <<up, TotalGpus, cluster, informer, drift, bounds>>

\* Run() sets lastResched to the time it is now, and will ignore events stamped
\* before: those sent since the lock was released, too.
FinishResched ==
    /\ placing
    /\ placing' = FALSE
    /\ reschedCh' = FALSE /\ ignored' = reschedCh
    /\ UNCHANGED <<up, TotalGpus, planned, cluster, informer, drift, bounds>>

\* NewScheduler, after a crash or for the first time, to resume: the GPUs are
\* counted long before the informer runs.
Start ==
    /\ ~up
    /\ up' = TRUE
    /\ DiscoverGPUs(TotalGpus')
    /\ TriggerResched
    /\ drift' = {}
    /\ UNCHANGED <<loop, cluster, informer, bounds>>

Crash ==
    /\ up /\ restarts < MaxRestarts
    /\ restarts' = restarts + 1
    /\ up' = FALSE /\ reschedCh' = FALSE /\ placing' = FALSE /\ ignored' = FALSE
    /\ store' = EmptyMap /\ watching' = FALSE /\ notices' = <<>>
    /\ UNCHANGED <<TotalGpus, planned, cluster, drift, changes, disconnects, failures>>

-----------------------------------------------------------------------------
Environment ==
    \/ \E n \in Nodes, gpus \in Sizes : Join(n, gpus) \/ Resize(n, gpus)
    \/ \E n \in Nodes : Leave(n)
    \/ Disconnect
    \/ Crash

Handlers == AddNode \/ UpdateNode \/ DeleteNode \/ DeleteUnknown

Next == Environment \/ Handlers \/ List \/ Resched \/ FinishResched \/ Start

\* The informer and the goroutines of the scheduler run.
Fairness ==
    /\ WF_vars(Handlers) /\ WF_vars(List) /\ WF_vars(Start)
    /\ WF_vars(Resched) /\ WF_vars(FinishResched)

Spec == Init /\ [][Next]_vars

FairSpec == Spec /\ Fairness

-----------------------------------------------------------------------------
\* The informer has nothing left to tell.
Settled == up /\ watching /\ notices = <<>>

\* Once the informer has nothing left to tell, the scheduler knows the GPUs there
\* are, whatever joined, left or came back and however late it was told; Reasons
\* has what breaks it.  addNode clears every reason but one: what it counts and the
\* informer still has to report.  It has planned with them, too, or is about to,
\* unless the change was made while a rescheduling ended and its event is ignored.
CountIsExact ==
    Settled /\ drift = {} =>
        /\ TotalGpus = GpusOf(cluster)
        /\ reschedCh \/ ignored \/ planned = TotalGpus

\* GPUs are never taken away twice, so that an allocator would be asked to share
\* less than nothing, but for the three ways a count and a notice can disagree.
NegativeIsExplained ==
    TotalGpus < 0 => drift \cap {"ahead", "uncounted", "resized"} # {}

\* When nodes stop changing, the scheduler plans for good with the GPUs there
\* are, or has miscounted them, or has ignored the event of a change.
CountSettles == <>[](drift # {} \/ ignored \/ planned = GpusOf(cluster))

=============================================================================
