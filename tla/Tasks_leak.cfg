\* Expected to fail: the page table of an ended application is still allocated.
CONSTANTS
    shell = shell
    app = app
    MAX_TASK_COUNT = 3
    PAGES_IN_PT = 2
    PAGETABLES_IN_PD = 2
    NumFrames = 12
    KernelFrames = 1
    Names = {shell, app, missing}
    Modules = {shell, app}
    Shell = shell
    Pages <- MCPages
    Image <- MCImage
    Colors = {black, red}
SPECIFICATION Spec
INVARIANT TablesReturned
