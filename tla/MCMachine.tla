----------------------------- MODULE MCMachine -----------------------------
(***************************************************************************)
(* Instances of Machine: the places of the handlers and of the TSSs are    *)
(* those of the linked kernel (kernel.elf).                                *)
(***************************************************************************)
EXTENDS Machine

MCExceptionAddress ==
    <<1054120, 1054130, 1054140, 1054150, 1054160, 1054170, 1054180, 1054190, 1054200,
      1054208, 1054218, 1054226, 1054234, 1054242, 1054250, 1054258, 1054268, 1054278,
      1054286, 1054296, 1054306>>
MCIrqAddress ==
    <<1054313, 1054323, 1054333, 1054343, 1054353, 1054363, 1054370, 1054377, 1054384,
      1054391, 1054398, 1054405, 1054412, 1054419, 1054426, 1054433>>
MCSyscallAddress == 1054064

MCEntryAddress ==
    [n \in Installed |->
        IF n \in Exceptions THEN MCExceptionAddress[n + 1]
        ELSE IF n = SYSCALL THEN MCSyscallAddress
        ELSE MCIrqAddress[n - IRQ_REMAP_OFFSET + 1]]

\* tasks, sizeof(task_t), the offset of tss in it, and initial_tss.
MCTssAddress ==
    [c \in Contexts |-> IF c = KERNEL THEN 1761280 ELSE 1073152 + c * 86016 + 4096]
=============================================================================
