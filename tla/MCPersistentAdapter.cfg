SPECIFICATION FairSpec
CONSTANTS
    Absent = Absent
    Unreadable = Unreadable
    Threads = {t1, t2}
    Nobody = Nobody
    Reader = Reader
    Strings <- MCStrings
    BodyMax = 1
    HelloMax = 1
    Lengths = {2, 3}
    MaxOps = 2
    MaxInbound = 3
INVARIANTS
    TypeOK
    EchoesAnswered
    StatsMatchWire
    XidsIncrease
    MessagesFit
PROPERTIES
    OperationsEnd
\* An adapter that was destroyed, or not created, rests.
CHECK_DEADLOCK FALSE
