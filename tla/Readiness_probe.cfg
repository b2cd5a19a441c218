\* Durations at a third of the defaults, peers so slow that a cycle just fits
\* the limit, and a wall clock that steps.
CONSTANTS
    Interval = 1
    Timeout = 2
    Floor = 2
    Latency = 1
    MaxStep = 1
    MaxBacklog = 1
SPECIFICATION FairSpec
INVARIANTS TypeOK ReadyMeansServed HealthyNeverStale
PROPERTIES OutageNoticed RecoveryNoticed
