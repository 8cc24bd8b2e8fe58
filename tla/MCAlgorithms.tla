---------------------------- MODULE MCAlgorithms ----------------------------
(* Requests to check Algorithms with.                                       *)
EXTENDS Algorithms

\* Speedups up to n workers: linear, as NewBaseJobInfo assumes, or with no gain
\* beyond three workers.
Linear(n) == [k \in 0..n |-> 4 * k]
Flat(n)   == [k \in 0..n |-> CASE k < 2 -> 4 * k [] k = 2 -> 7 [] k > 2 -> 8]

Job(key, priority, min, num, max, speedup) ==
    [submitted |-> key, started |-> key, remaining |-> key + 1, priority |-> priority,
     min |-> min, num |-> num, max |-> max, speedup |-> speedup]

Send(algorithms, js, n, totals, infos) ==
    [algorithm : algorithms, jobs : UNION { [1..m -> js] : m \in 0..n }, total : totals,
     info : infos]

\* For the algorithms that give a job its portion or nothing.
RigidJobs == { Job(key, p, min, min + 1, min + 1, Linear(4)) :
                 key \in 1..2, p \in 0..1, min \in 1..2 }
RigidRequests == Send({"FIFO", "SRJF", "Tiresias"}, RigidJobs, 3, 0..5, {TRUE})

\* For the elastic ones, with a minimum of one GPU.
ElasticJobs == { Job(key, 0, 1, 1, max, sp) : key \in 1..2, max \in 2..3, sp \in {Linear(4), Flat(4)} }
ElasticRequests == Send({"ElasticFIFO", "ElasticSRJF", "AFS-L"}, ElasticJobs, 3, 0..6, {TRUE})
OptimizerRequests == Send({"FfDLOptimizer"}, ElasticJobs, 3, 0..4, {TRUE})

\* For ElasticTiresias, with minimums that differ from the portions.
TiresiasJobs == { Job(1, p, min, min + 1, min + 3, sp) :
                    p \in 0..1, min \in 1..2, sp \in {Linear(6), Flat(6)} }
TiresiasRequests == Send({"ElasticTiresias"}, TiresiasJobs, 3, 0..8, {TRUE})

\* Whatever a user may write, with and without Info: minimums that are the maximum or
\* more than one GPU, nothing, contradictions, negative numbers and a priority
\* without a queue.
Workers == { <<1, 1, 1>>, <<2, 2, 2>>, <<2, 2, 3>>, <<0, 0, 0>>, <<0, 0, 2>>, <<0, 1, 2>>,
             <<2, 1, 1>>, <<1, 2, 1>>, <<-1, 1, 1>>, <<1, -1, 2>>, <<-1, -1, -1>> }
AnyJobs(ps) == { Job(1, p, w[1], w[2], w[3], Linear(4)) : p \in ps, w \in Workers }
AnyRequests ==
    Send(Names \ {"Tiresias", "ElasticTiresias"}, AnyJobs({0}), 2, 0..4, BOOLEAN)
    \cup Send({"Tiresias", "ElasticTiresias"}, AnyJobs(0..2), 2, 0..4, BOOLEAN)

\* All of them.
AllRequests == RigidRequests \cup ElasticRequests \cup OptimizerRequests \cup TiresiasRequests
               \cup AnyRequests
=============================================================================
