\* A buffer of two keys, three ticks before the counter wraps around, sleeps of
\* two ticks (1 ms at 1500 Hz), the timer, the keyboard, and a device on the
\* slave PIC.
CONSTANTS
    BUFFER_SIZE = 2
    TickRange = 3
    Freq = 1500
    Durations = {1}
    Keys = {a, b}
    Lines = {0, 1, 12}
SPECIFICATION Spec
INVARIANTS
    TypeOK HandlersNotNested KeysInOrder SpaceInRange SleepsLongEnough
PROPERTIES
    InterruptsServed ScancodesRead SyscallsReturn
