\* Three slots, and 12 frames: the shell and two applications fill them (5 + 3 + 3
\* and one of the kernel), so after the first page table is left behind the
\* third task runs out of frames; every kind of refusal and failure happens.
CONSTANTS
    shell = shell
    app = app
    MAX_TASK_COUNT = 3
    PAGES_IN_PT = 2
    PAGETABLES_IN_PD = 2
    NumFrames = 12
    KernelFrames = 1
    Names = {shell, app, missing}
    Modules = {shell, app}
    Shell = shell
    Pages <- MCPages
    Image <- MCImage
    Colors = {black, red}
SPECIFICATION Spec
INVARIANTS
    TypeOK FrameIsolation BitmapAccounted ImageIntact CallChain SlotsAccounted AddressSpace
PROPERTIES
    RefusalJustified ExecDecides FaultedTaskFreed NestedCalls
