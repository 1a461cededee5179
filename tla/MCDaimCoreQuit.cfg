CONSTANTS
    t1 = t1
    t2 = t2
    e1 = e1
    e2 = e2
    Threads = {t1, t2}
    Starters = {t1}
    Tables = {fwd, info}
    Writable = {fwd}
    Entries = {e1, e2}
    Signals = {NO_RULE}
    Handlers = {on_no_rule}
    NoHandler = NoHandler
    Filters <- MCFilters
    MaxCalls = 4
SPECIFICATION Spec
INVARIANT QuitCleansUp
CHECK_DEADLOCK FALSE
