\* Expected to fail: a task is created although no frame is left for a page.
CONSTANTS
    shell = shell
    app = app
    MAX_TASK_COUNT = 3
    PAGES_IN_PT = 2
    PAGETABLES_IN_PD = 2
    NumFrames = 12
    KernelFrames = 1
    Names = {shell, app, missing}
    Modules = {shell, app}
    Shell = shell
    Pages <- MCPages
    Image <- MCImage
    Colors = {black, red}
SPECIFICATION Spec
INVARIANT TaskBackedByFrames
