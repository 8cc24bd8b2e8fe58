----------------------------- MODULE Algorithms -----------------------------
(***************************************************************************)
(* One request to the resource allocator of Voda                           *)
(* (src/pkg/allocator/allocator/resource_allocator.go) and the scheduling  *)
(* algorithm that serves it (src/pkg/algorithm/*.go), one iteration of its *)
(* loops per step, up to validateResult, which panics.                     *)
(*                                                                         *)
(* Jobs are known by their positions in the request.  Durations and        *)
(* dates are reduced to natural numbers that compare alike; speedups are   *)
(* natural numbers, so that quotients can be compared exactly.             *)
(***************************************************************************)
EXTENDS Integers, Sequences, FiniteSets, FiniteSetsExt, SequencesExt, Maps

CONSTANTS
    Requests,             \* the requests considered, see IsRequest
    CompactionThreshold   \* ElasticTiresiasCompactionThreshold

Names == {"FIFO", "SRJF", "Tiresias", "ElasticFIFO", "ElasticSRJF",
          "ElasticTiresias", "AFS-L", "FfDLOptimizer"}

\* A training job as its scheduler sends it, with the Info of its category.  Its
\* numbers of workers and its priority are whatever the user has written: only
\* the number of workers is replaced by the minimum if it is 0, or missing.
IsJob(job) ==
    /\ {job.min, job.num, job.max, job.priority} \subseteq Int
    /\ job.num = 0 => job.min = 0
    /\ {job.submitted, job.started, job.remaining} \subseteq Nat
    /\ {0, 1} \cup 0..(job.max + 1) \subseteq DOMAIN job.speedup
    /\ job.speedup[0] = 0 /\ \A n \in DOMAIN job.speedup \ {0} : job.speedup[n] \in Nat \ {0}

\* A request says in info whether its jobs have their Info when Schedule is called:
\* they do not as the code is, since getJobsInfo fills copies.
IsRequest(request) ==
    /\ request.algorithm \in Names
    /\ request.total \in Nat
    /\ request.info \in BOOLEAN
    /\ request.jobs \in Seq(Range(request.jobs))
    /\ \A i \in DOMAIN request.jobs : IsJob(request.jobs[i])

ASSUME RequestsAssumption == \A request \in Requests : IsRequest(request)
ASSUME ThresholdAssumption == CompactionThreshold \in Nat

\* What no part of the code checks of a request: ordered positive numbers of
\* workers, and a priority that has a queue.
WellFormed(request) ==
    \A i \in DOMAIN request.jobs :
        LET job == request.jobs[i]
        IN /\ 1 <= job.min /\ job.min <= job.num /\ job.num <= job.max
           /\ job.priority \in {0, 1}

VARIABLES
    request,     \* the AllocationRequest
    result,      \* the GPUs given to each job so far, 0 for one without an entry
    queue,       \* the jobs that the current loop has yet to visit
    satisfied,   \* jobs whose entry in the map "sastified" is true
    table,       \* rows of FfDLOptimizer's table of throughputs: table[j+1] is P[j]
    pc

vars == <<request, result, queue, satisfied, table, pc>>

jobs == request.jobs
algorithm == request.algorithm
Ids == DOMAIN jobs

Init ==
    /\ request \in Requests
    /\ result = [i \in Ids |-> 0]
    /\ queue = <<>> /\ satisfied = {} /\ table = <<>>
    /\ pc = "start"

\* freeGPU
Allocated == SumOver(result, Ids)
Free == request.total - Allocated

\* A request that is not well formed may give negative numbers of GPUs, and more
\* than there are.
TypeOK ==
    /\ request \in Requests
    /\ WellFormed(request) =>
          /\ result \in [Ids -> Nat]
          /\ queue \in Seq(Ids)
          /\ satisfied \subseteq Ids
          /\ table \in Seq([0..request.total -> Int])
          /\ Free \in Nat
          /\ pc \in {"start", "basic", "share", "compact", "gain", "top", "optimize",
                     "backtrack", "validate", "done", "panicked"}

Elastic == algorithm \in {"ElasticFIFO", "ElasticSRJF"}

-----------------------------------------------------------------------------
\* sort.SliceStable: elements are sorted by the number that key has for each of
\* them.  Where the code sorts twice, equal ones keep the order of the sort before,
\* by minor.  Elements that are equal in both keep their places.
PlaceOf(seq, key, minor, k) ==
    LET same(l) == key[seq[l]] = key[seq[k]]
    IN Cardinality({ l \in DOMAIN seq :
                       \/ key[seq[l]] < key[seq[k]]
                       \/ same(l) /\ minor[seq[l]] < minor[seq[k]]
                       \/ same(l) /\ minor[seq[l]] = minor[seq[k]] /\ l <= k })
Sorted(seq, key, minor) ==
    [n \in DOMAIN seq |-> seq[CHOOSE k \in DOMAIN seq : PlaceOf(seq, key, minor, k) = n]]

\* Some of the jobs, as given.
Listed(S) == [n \in 1..Cardinality(S) |->
                 CHOOSE i \in S : Cardinality({ k \in S : k <= i }) = n]

\* Tiresias and ElasticTiresias have a queue for each of two priorities, and look
\* at no other: a job of another priority has no entry in Tiresias' result.
Queued == IF algorithm \in {"Tiresias", "ElasticTiresias"}
          THEN { i \in Ids : jobs[i].priority \in {0, 1} } ELSE Ids

AsGiven == IF Queued = Ids THEN [i \in Ids |-> i] ELSE Listed(Queued)

BySubmission == [i \in Ids |-> jobs[i].submitted]
ByRemaining  == [i \in Ids |-> jobs[i].remaining]
ByStart      == [i \in Ids |-> jobs[i].started]
ByPriority   == [i \in Ids |-> jobs[i].priority]

\* The order in which jobs are considered first.  Tiresias and ElasticTiresias
\* empty a queue for each priority.
Arranged ==
    CASE algorithm \in {"FIFO", "ElasticFIFO", "AFS-L", "FfDLOptimizer"} ->
            Sorted(AsGiven, BySubmission, BySubmission)
      [] algorithm \in {"SRJF", "ElasticSRJF"} ->
            Sorted(AsGiven, ByRemaining, ByRemaining)
      [] algorithm \in {"Tiresias", "ElasticTiresias"} ->
            Sorted(AsGiven, ByPriority, ByStart)

\* Does the algorithm read the Info of a job?
NeedsInfo ==
    \/ algorithm \in {"SRJF", "ElasticSRJF"} /\ Len(jobs) > 1
    \/ algorithm = "ElasticTiresias" /\ Len(jobs) > 0
    \/ algorithm = "AFS-L" /\ Len(jobs) > 1 /\ request.total > 0
    \/ algorithm = "FfDLOptimizer" /\ Len(jobs) > 0 /\ request.total > 0

\* FfDLOptimizer considers no more jobs than there are GPUs.
Feasible == SubSeq(Arranged, 1, Min({Len(jobs), request.total}))

\* The beginning of Schedule.  A missing Info is a nil pointer.
Arrange ==
    /\ pc = "start"
    /\ queue' = IF algorithm = "FfDLOptimizer" THEN Feasible ELSE Arranged
    /\ table' = IF algorithm = "FfDLOptimizer" THEN <<[k \in 0..request.total |-> 0]>>
                                               ELSE <<>>
    /\ pc' = CASE NeedsInfo /\ ~request.info -> "panicked"
               [] algorithm = "FfDLOptimizer" /\ jobs = <<>> -> "done"
               [] algorithm = "FfDLOptimizer" /\ jobs # <<>> -> "optimize"
               [] algorithm = "AFS-L" -> "top"
               [] OTHER -> "basic"
    /\ UNCHANGED <<request, result, satisfied>>

Give(i, n) == result' = [result EXCEPT ![i] = n]

\* Mutant: off by one.
LeavesAboveMax(i, n) == n > jobs[i].max

\* A job with n GPUs has its maximum and is removed from the loop.
Leaves(i, n) == n >= jobs[i].max

-----------------------------------------------------------------------------
(* The basic portion of all but AFS-L and FfDLOptimizer.                    *)

Portion(i) == IF algorithm \in {"Tiresias", "ElasticTiresias"} THEN jobs[i].num
                                                               ELSE jobs[i].min

\* Mutant: off by one.
FitsWithSpare(i) == Free > Portion(i)

Fits(i) == Free >= Portion(i)

\* The next job gets its portion, or has to be satisfied with nothing.  Only
\* ElasticFIFO sees that the portion is already the maximum.
Basic ==
    /\ pc = "basic"
    /\ queue # <<>>
    /\ LET i == Head(queue) IN
       \/ /\ Fits(i)
          /\ Give(i, Portion(i))
          /\ satisfied' = IF algorithm = "ElasticFIFO" /\ Portion(i) = jobs[i].max
                          THEN satisfied \cup {i} ELSE satisfied
       \/ /\ ~Fits(i)
          /\ satisfied' = IF Elastic THEN satisfied \cup {i} ELSE satisfied
          /\ UNCHANGED result
    /\ queue' = Tail(queue)
    /\ UNCHANGED <<request, table, pc>>

EndBasic ==
    /\ pc = "basic"
    /\ queue = <<>>
    /\ pc' = CASE Elastic -> "share"
               [] algorithm = "ElasticTiresias" -> "compact"
               [] OTHER -> "validate"
    /\ UNCHANGED <<request, result, queue, satisfied, table>>

-----------------------------------------------------------------------------
(* ElasticFIFO and ElasticSRJF: rounds that give one more GPU to each job.   *)

\* Mutant: the rounds end when any job is satisfied.
SomeSatisfied == satisfied # {}

AllSatisfied == satisfied = Ids

NextRound ==
    /\ pc = "share"
    /\ queue = <<>> /\ Free > 0 /\ ~AllSatisfied
    /\ queue' = Arranged
    /\ UNCHANGED <<request, result, satisfied, table, pc>>

Wants(i) == result[i] < jobs[i].max \/ i \notin satisfied

Share ==
    /\ pc = "share"
    /\ queue # <<>> /\ Free > 0
    /\ LET i == Head(queue) IN
       \/ /\ Wants(i)
          /\ Give(i, result[i] + 1)
          /\ satisfied' = IF result[i] + 1 = jobs[i].max THEN satisfied \cup {i}
                                                         ELSE satisfied
       \/ ~Wants(i) /\ UNCHANGED <<result, satisfied>>
    /\ queue' = Tail(queue)
    /\ UNCHANGED <<request, table, pc>>

EndShare ==
    /\ pc = "share"
    /\ Free = 0 \/ (queue = <<>> /\ AllSatisfied)
    /\ pc' = "validate"
    /\ UNCHANGED <<request, result, queue, satisfied, table>>

-----------------------------------------------------------------------------
(* ElasticTiresias: compaction, then GPUs for the most efficiency gain.      *)

\* Jobs without their portion; those that ask for nothing have it.
Pending == { i \in Ids : result[i] = 0 /\ (i \in Queued => jobs[i].num # 0) }

\* Mutant: jobs of the first queue are compacted too.
CompactedAll == IF Cardinality(Pending) > CompactionThreshold
                THEN { i \in Ids : result[i] # 0 } ELSE {}

\* Jobs whose allocation the compaction sets to their minimum.
Compacted == IF Cardinality(Pending) > CompactionThreshold
             THEN { i \in Ids : result[i] # 0 /\ jobs[i].priority = 1 } ELSE {}

\* Compaction, and removal of the jobs that are satisfied or cannot be run.
Compact ==
    LET compacted == [i \in Ids |-> IF i \in Compacted THEN jobs[i].min ELSE result[i]]
        free == request.total - SumOver(compacted, Ids)
    IN /\ pc = "compact"
       /\ result' = compacted
       /\ queue' = Listed({ i \in Ids : compacted[i] < jobs[i].max /\ free >= jobs[i].min })
       /\ pc' = "gain"
       /\ UNCHANGED <<request, satisfied, table>>

\* gain[job], times a common multiple of the possible minimums: that of the next
\* worker, or the average of the first min workers.
Gain(i) ==
    LET sp == jobs[i].speedup
        n  == result[i]
    IN CASE n # 0                    -> 12 * (At(sp, n + 1) - At(sp, n))
         [] n = 0 /\ jobs[i].min > 0 -> (12 * At(sp, jobs[i].min)) \div jobs[i].min
         [] n = 0 /\ jobs[i].min <= 0 -> 0

\* The average of no workers is not a number, 0 / 0.  It becomes the gain of a first
\* worker when the job is given its minimum of 0.
Undefined(i) == result[i] = 0 /\ jobs[i].min = 0

\* Mutant: the gain is not looked at.
RankedByPriority == Sorted(queue, ByPriority, ByPriority)

\* The jobs by gain, with equal gains by priority.
Ranked == Sorted(queue, [i \in Ids |-> -Gain(i)], ByPriority)

\* What is not a number compares with nothing: any order may be the result.
Rankings == IF \E i \in Range(queue) : Undefined(i)
            THEN { ranked \in [DOMAIN queue -> Range(queue)] : IsInjective(ranked) }
            ELSE {Ranked}

\* Mutant: the job stays in the loop.
GiveUpKept(ranked) == ranked

\* The first job of a ranking cannot have its minimum any more: it is given up.
GiveUp(ranked) == Tail(ranked)

MoreGain(ranked) ==
    /\ ranked # <<>> /\ Free > 0
    /\ Undefined(Head(ranked)) \/ Gain(Head(ranked)) > 0

\* A pending job gets its minimum or is given up, a running one gets another GPU
\* and is removed when it has its maximum.
Award ==
    /\ pc = "gain"
    /\ \E ranked \in Rankings :
       LET i == Head(ranked) IN
       /\ MoreGain(ranked)
       /\ \/ /\ result[i] = 0 /\ Free >= jobs[i].min
             /\ Give(i, jobs[i].min)
             /\ queue' = ranked
          \/ /\ result[i] = 0 /\ Free < jobs[i].min
             /\ queue' = GiveUp(ranked)
             /\ UNCHANGED result
          \/ /\ result[i] # 0
             /\ Give(i, result[i] + 1)
             /\ queue' = IF Leaves(i, result[i] + 1) THEN Tail(ranked) ELSE ranked
    /\ UNCHANGED <<request, satisfied, table, pc>>

EndGain ==
    /\ pc = "gain"
    /\ \E ranked \in Rankings : ~MoreGain(ranked)
    /\ pc' = "validate"
    /\ UNCHANGED <<request, result, queue, satisfied, table>>

-----------------------------------------------------------------------------
(* AFS-L: GPU after GPU to the job of top priority.                          *)

\* jobLength(i, n) >= jobLength(k, n); without workers both are infinite.
LongerWith(i, k, n) ==
    n = 0 \/ jobs[i].remaining * At(jobs[k].speedup, n) >=
             jobs[k].remaining * At(jobs[i].speedup, n)

\* evaluate(i, k): is the relative gain of one more worker greater for k than for
\* i?  It is infinite for an i without workers.
Evaluate(i, k) ==
    LET si == jobs[i].speedup
        sk == jobs[k].speedup
        ni == result[i]
        nk == result[k]
    IN /\ ni > 0
       /\ (At(sk, nk + 1) - At(sk, nk)) * At(si, ni) >
          (At(si, ni + 1) - At(si, ni)) * At(sk, nk + 1)

\* The one of i and k that the loop of topPriority goes on with, after i.
Preferred(k) == [i \in Ids |->
    IF result[i] = 0 /\ result[k] = 0
    THEN IF jobs[i].remaining >= jobs[k].remaining THEN k ELSE i
    ELSE LET swapped == LongerWith(i, k, result[i])
             short   == IF swapped THEN k ELSE i
             long    == IF swapped THEN i ELSE k
         IN IF Evaluate(short, long) THEN long ELSE short]

TopPriority ==
    LET top[n \in 1..Len(queue)] == IF n = 1 THEN queue[1] ELSE Preferred(queue[n])[top[n - 1]]
    IN top[Len(queue)]

\* remove(jobs, index(jobs, name))
Removed(i) == RemoveAt(queue, CHOOSE k \in DOMAIN queue : queue[k] = i)

TakeOne ==
    /\ pc = "top"
    /\ queue # <<>> /\ Free > 0
    /\ LET i == TopPriority IN
       /\ Give(i, result[i] + 1)
       /\ queue' = IF Leaves(i, result[i] + 1) THEN Removed(i) ELSE queue
    /\ UNCHANGED <<request, satisfied, table, pc>>

EndTop ==
    /\ pc = "top"
    /\ queue = <<>> \/ Free = 0
    /\ pc' = "validate"
    /\ UNCHANGED <<request, result, queue, satisfied, table>>

-----------------------------------------------------------------------------
(* FfDLOptimizer: dynamic programming over the first jobs of the queue.      *)

NoSolution == -10000

\* Mutant: off by one.
RowFewer(row, i) ==
    [k \in 0..request.total |->
        Max({NoSolution} \cup { row[k - g] + At(jobs[i].speedup, g)
                                : g \in (1..k) \cap (1..jobs[i].max - 1) })]

\* P[j], the row of the table for the first j jobs, from row, that is P[j-1], and
\* job j, here i: the most throughput with k GPUs, or a negative number.
Row(row, i) ==
    [k \in 0..request.total |->
        Max({NoSolution} \cup { row[k - g] + At(jobs[i].speedup, g)
                                : g \in (1..k) \cap (1..jobs[i].max) })]

FillRow ==
    /\ pc = "optimize"
    /\ Len(table) <= Len(queue)
    /\ table' = Append(table, Row(Last(table), queue[Len(table)]))
    /\ UNCHANGED <<request, result, queue, satisfied, pc>>

EndTable ==
    /\ pc = "optimize"
    /\ Len(table) = Len(queue) + 1
    /\ pc' = IF Last(table)[request.total] > 0 THEN "backtrack" ELSE "panicked"
    /\ UNCHANGED <<request, result, queue, satisfied, table>>

\* SOL[j][k] for job j, here i: the fewest of its GPUs that make up P[j][k].
SOL(j, k, i) ==
    LET best == { g \in (1..k) \cap (1..jobs[i].max) :
                    /\ table[j + 1][k] > NoSolution
                    /\ table[j + 1][k] = table[j][k - g] + At(jobs[i].speedup, g) }
    IN IF best = {} THEN 0 ELSE Min(best)

\* From the last job to the first, out of the GPUs that are left.
Backtrack ==
    /\ pc = "backtrack"
    /\ queue # <<>>
    /\ Give(Last(queue), SOL(Len(queue), Free, Last(queue)))
    /\ queue' = Front(queue)
    /\ UNCHANGED <<request, satisfied, table, pc>>

EndBacktrack ==
    /\ pc = "backtrack"
    /\ queue = <<>>
    /\ pc' = "validate"
    /\ UNCHANGED <<request, result, queue, satisfied, table>>

-----------------------------------------------------------------------------
\* validateResult, of the jobs that have an entry.
Valid ==
    /\ \A i \in IF algorithm = "Tiresias" THEN Queued ELSE Ids :
          /\ 0 <= result[i] /\ result[i] <= jobs[i].max
          /\ result[i] > 0 => result[i] >= jobs[i].min
    /\ Allocated <= request.total

Validate ==
    /\ pc = "validate"
    /\ pc' = IF Valid THEN "done" ELSE "panicked"
    /\ UNCHANGED <<request, result, queue, satisfied, table>>

Next ==
    \/ Arrange
    \/ Basic \/ EndBasic
    \/ NextRound \/ Share \/ EndShare
    \/ Compact \/ Award \/ EndGain
    \/ TakeOne \/ EndTop
    \/ FillRow \/ EndTable \/ Backtrack \/ EndBacktrack
    \/ Validate

Spec == Init /\ [][Next]_vars
FairSpec == Spec /\ WF_vars(Next)

-----------------------------------------------------------------------------
(* Properties.                                                              *)

\* Minimums and maximums that an algorithm does not look at in time: ElasticFIFO and
\* ElasticSRJF give single GPUs even to a job that waits for its minimum, AFS-L and
\* FfDLOptimizer know no minimum; ElasticSRJF and ElasticTiresias go on giving to a job
\* whose minimum is its maximum; FfDLOptimizer takes having no GPU for "infeasible".
BoundsOverlooked(r) ==
    \/ \E i \in DOMAIN r.jobs :
          \/ /\ r.algorithm \in {"ElasticFIFO", "ElasticSRJF", "AFS-L", "FfDLOptimizer"}
             /\ r.jobs[i].min > 1
          \/ /\ r.algorithm \in {"ElasticSRJF", "ElasticTiresias"}
             /\ r.jobs[i].min = r.jobs[i].max
    \/ r.algorithm = "FfDLOptimizer" /\ r.total = 0

\* The allocator panics only for one of three reasons: it reads the Info of a job, which
\* getJobsInfo has stored in a copy only; a job's numbers of workers or its priority,
\* which nothing validates, make no sense; or the algorithm overlooks a bound, as
\* above.  Any other result passes the assertions of validateResult: each job has
\* nothing or between its minimum and its maximum, and all no more than there is.
PanicsAreExplained ==
    pc = "panicked" =>
        (NeedsInfo /\ ~request.info) \/ ~WellFormed(request) \/ BoundsOverlooked(request)

\* Every loop of every algorithm ends, except that ElasticTiresias may give a job
\* without a positive minimum nothing for ever.
Terminates ==
    (algorithm = "ElasticTiresias" => \A i \in Ids : jobs[i].min > 0) =>
        <>(pc \in {"done", "panicked"})

\* A job of a well formed request is left without GPUs only if its portion did not fit
\* beside those of the jobs that come before it in the order of its algorithm: later
\* jobs may fill gaps, they never take what an earlier one could have had.
Before(i) == LET at == CHOOSE k \in DOMAIN Arranged : Arranged[k] = i
             IN { Arranged[k] : k \in 1..(at - 1) }
StarvedByEarlierOnly ==
    /\ WellFormed(request)
    /\ pc = "done" /\ algorithm \notin {"ElasticTiresias", "AFS-L", "FfDLOptimizer"}
    => \A i \in Ids : result[i] = 0 =>
          SumOver([k \in Ids |-> Portion(k)], { k \in Before(i) : result[k] > 0 }) + Portion(i)
              > request.total

\* ElasticFIFO, ElasticSRJF and AFS-L leave GPUs unused only if no job of a well formed
\* request can use them: each has its maximum, or waits with a minimum that exceeds
\* what is left.
WorkConserving ==
    /\ WellFormed(request)
    /\ pc = "done" /\ algorithm \in {"ElasticFIFO", "ElasticSRJF", "AFS-L"}
    => \/ Free = 0
       \/ \A i \in Ids : \/ result[i] = jobs[i].max
                         \/ result[i] = 0 /\ Free < jobs[i].min /\ Elastic

\* FfDLOptimizer finds the highest total throughput there is, among the
\* allocations that give each of its feasible jobs at least one GPU.
Throughput(alloc) ==
    SumOver([i \in DOMAIN alloc |-> At(jobs[i].speedup, alloc[i])], DOMAIN alloc)
ThroughputIsMaximal ==
    /\ WellFormed(request)
    /\ pc = "done" /\ algorithm = "FfDLOptimizer" /\ jobs # <<>>
    => LET ids    == Range(Feasible)
           found  == Throughput(result)
           allocs == { a \in [ids -> 1..request.total] :
                         /\ \A i \in ids : a[i] <= jobs[i].max
                         /\ SumOver(a, ids) <= request.total }
       IN /\ Restrict(result, ids) \in allocs
          /\ \A a \in allocs : Throughput(a) <= found

\* "Allocate the remainning GPUs to the job with the most efficiency gain": with
\* speedups that never grow faster, no GPU that a well formed request's job is given
\* beyond the basic portion would gain more as the next GPU of another job that is
\* running.  The other job has a minimum of one GPU: a running job whose minimum
\* exceeds the GPUs that remain after the basic portion is left out, though it needs
\* only one more.
Awarded(i) == algorithm = "ElasticTiresias" /\ pc = "done" /\ result[i] > jobs[i].num
AwardsGainMostOfSmall ==
    WellFormed(request) =>
        \A i \in Ids, k \in { l \in Ids : jobs[l].min = 1 } :
            Awarded(i) /\ result[k] \in 1..(jobs[k].max - 1) =>
                Gain(k) <= 12 * (jobs[i].speedup[result[i]] - jobs[i].speedup[result[i] - 1])

\* Compaction frees GPUs to run pending jobs: a job of the first queue of a well
\* formed request that has its portion keeps it.
FirstQueueKeeps ==
    [][WellFormed(request) =>
          \A i \in Ids : jobs[i].priority = 0 => result'[i] >= result[i]]_vars
=============================================================================
