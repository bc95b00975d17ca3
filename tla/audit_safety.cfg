SPECIFICATION Spec
CONSTANTS
    Event = {e1, e2, e3, e4}
    FlushThreshold = 2
    MaxBufferSize = 4
    MaxFailures = 3
    MaxRestarts = 1
SYMMETRY
    MCSymmetry
INVARIANTS
    TypeOK
    EventsOnce
    
    
CHECK_DEADLOCK FALSE
