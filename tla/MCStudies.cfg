SPECIFICATION StudySpec
CONSTANTS
    Natives <- BothPlatforms
    MaxProbes = 4
    MaxTroubles = 3
    Kinds <- AllKinds
    Trials = 4
    MaxStops = 4
    Schedule <- ShuffledBlocks
    MaxTicks = 6
    Budget = 3
\* A trial ends with its record, a collector with its file, and a timed
\* packet with its row.
CHECK_DEADLOCK FALSE
INVARIANTS
    TypeOK
    RestoredByNewService
    AuditAgrees
    CollectedIsScheduled
    ConclusionsRestOnRecords
    TimingsAgree
