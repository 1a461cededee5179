SPECIFICATION FairSpec
CONSTANTS
    Sessions = 2
    Slots = 2
    Disruptive = {1}
    Runners = {r1, r2}
    NoRunner = NoRunner
    MaxResumes = 2
    MaxErrors = 1
    MaxStops = 1
INVARIANTS
    TypeOK
    RecordsFollowSchedule
    OneServicePerSession
    CompletedMeansAll
PROPERTIES
    CollectionRests
\* A completed collection, or one whose amendments are used up, rests.
CHECK_DEADLOCK FALSE
