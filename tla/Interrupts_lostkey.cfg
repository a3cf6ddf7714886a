\* A key arrives between the load and the store of buf_space_left.
CONSTANTS
    BUFFER_SIZE = 2
    TickRange = 3
    Freq = 1500
    Durations = {1}
    Keys = {a, b}
    Lines = {0, 1, 12}
SPECIFICATION Spec
INVARIANT ZeroMeansNoKey
