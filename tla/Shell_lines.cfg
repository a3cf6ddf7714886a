\* A buffer of five characters, lines of up to four keys, a shell that can execute
\* one other task.  The system stops when the outermost shell exits.
CONSTANTS
    LINE_SIZE = 5
    TAB_SIZE = 2
    MAX_TASK_COUNT = 2
    UINT = 8
    CharOf <- MCCharOf
    Lower <- MCLower
    DigitOf <- MCDigitOf
    HELP <- MCHelp
    SLEEP <- MCSleep
    TICKS <- MCTicks
    EXIT <- MCExit
    SHELL <- MCShellFile
    Modules <- MCModules
    MaxKeys = 4
SPECIFICATION Spec
INVARIANTS
    TypeOK CommandMeant EchoMatches LossJustified
PROPERTIES
    PromptReturns
CHECK_DEADLOCK FALSE
