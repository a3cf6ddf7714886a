\* Three slots, the timer and a device without a driver, exceptions with and
\* without an error code, and an interrupt without a gate (gpf.c).  The system
\* stops when the first application has ended.
CONSTANTS
    MAX_TASK_COUNT = 3
    EntryAddress <- MCEntryAddress
    TssAddress <- MCTssAddress
    Irqs = {0, 12}
    Faults = {6, 14}
    SoftInts = {33, 77}
SPECIFICATION Spec
INVARIANTS
    TypeOK NoProtectionFault HandlerSees Environment
PROPERTIES
    ResumesWhole EndingTaskFreed NestedControl
CHECK_DEADLOCK FALSE
