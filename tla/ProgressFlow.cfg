\* One job, a report that may fail, and the end of the process at any moment.
SPECIFICATION FairSpec
CONSTANTS
    Jobs = {0}
    Chunks = 3
    report_period = 3
    MaxFaults = 1
INVARIANTS TypeOK NeverAhead
PROPERTIES NeverBack ProgressArrives RoutineEnds
CHECK_DEADLOCK FALSE
