\* Three rows of three bytes; up to four arguments of up to ten characters:
\* one argument too many, and one longer than the whole array.
CONSTANTS
    MAX_ARGS = 3
    MAX_ARGS_LENGTH = 3
    INT = 4
    STACK_SIZE = 40
    PAGE_SIZE = 8
    ModSizes = {1, 8}
    MaxArgc = 4
    MaxLength = 10
SPECIFICATION Spec
INVARIANTS
    TypeOK
    ArgumentsArrive
    OverrunJustified
    StackRoom
\* task_load returns, or the model stops behind the array.
CHECK_DEADLOCK FALSE
