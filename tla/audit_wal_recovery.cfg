SPECIFICATION Spec
CONSTANTS
    Event = {e1, e2, e3}
    FlushThreshold = 1
    MaxBufferSize = 4
    MaxFailures = 1
    MaxRestarts = 0
PROPERTY
    RetryRecovers
CHECK_DEADLOCK FALSE
