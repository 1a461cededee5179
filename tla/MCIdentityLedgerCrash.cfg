SPECIFICATION Spec
CONSTANTS
    Processes = {p1, p2, p3}
    Limit = 4
    Switches = 16
    MaxCalls = 5
    MaxStops = 2
INVARIANTS
    DurablyUnique
\* The bounded number of calls runs out.
CHECK_DEADLOCK FALSE
