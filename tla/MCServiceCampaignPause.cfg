SPECIFICATION Spec
CONSTANTS
    Sessions = 2
    Slots = 3
    Disruptive = {2}
    Runners = {r1, r2}
    NoRunner = NoRunner
    MaxResumes = 2
    MaxErrors = 2
    MaxStops = 0
INVARIANTS
    PausedIsResumable
\* A completed collection, or one whose amendments are used up, rests.
CHECK_DEADLOCK FALSE
