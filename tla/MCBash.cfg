SPECIFICATION BashSpec
CONSTANTS
    MaxChild = 2
    MaxTask = 1
INVARIANTS
    BashTypeOK
    TerminalOnce
PROPERTIES
    RunningTasksSettle
CHECK_DEADLOCK FALSE
