\* One call, whose time-out may come at any moment.
SPECIFICATION FairSpec
CONSTANTS
    Calls = {c1}
    MaxConcurrency = 1
    QueueSize = 1
    PipeSize = 1
    OutputLimit = 2
    MaxLines = 3
PROPERTY TimedOutReturns
CHECK_DEADLOCK FALSE
