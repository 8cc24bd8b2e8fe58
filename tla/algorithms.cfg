\* Every algorithm: up to three jobs, or two of whatever requirements; compaction from
\* the first pending job on.
CONSTANTS
    Requests <- AllRequests
    CompactionThreshold = 0
SPECIFICATION FairSpec
CHECK_DEADLOCK FALSE
INVARIANTS
    
    StarvedByEarlierOnly
    WorkConserving
    ThroughputIsMaximal
    AwardsGainMostOfSmall
PROPERTIES
    FirstQueueKeeps
    Terminates
