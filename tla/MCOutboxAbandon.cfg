CONSTANTS
    Events = {e1}
    RetryLimit = 5
    BatchLimit = 50
    MaxFaults = 5
SPECIFICATION LiveSpec
PROPERTY EveryEventPublished
CHECK_DEADLOCK FALSE
