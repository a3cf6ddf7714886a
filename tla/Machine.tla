------------------------------ MODULE Machine ------------------------------
(***************************************************************************)
(* The kernel's entry and exit code, down to the words on the stacks: the  *)
(* boot sequence of kernel_main, the gates, the ISR wrappers (idt_asm.s),  *)
(* the system call handler (syscall_asm.s) and its stub in the application *)
(* (user/syscall_asm.s), exception_handler, and the hardware task switch   *)
(* (task_asm.s) with the TSSs task_create fills, on a processor that       *)
(* checks descriptors, changes stacks and follows task links as the IA-32  *)
(* does.                                                                   *)
(*                                                                         *)
(* A word is a pair or more: its kind and its value.  Code addresses are   *)
(* labels, registers hold marked values, so that a word popped into the    *)
(* wrong place is seen.  Kernel code does not fault here (see Tasks), and  *)
(* memory management is left out.                                          *)
(***************************************************************************)
EXTENDS Descriptors, Sequences, FiniteSets

CONSTANTS
    Irqs,           \* lines that are raised
    Faults,         \* exceptions an application raises
    SoftInts        \* interrupts other than 48 an application executes

ASSUME VectorsAssumption ==
    /\ Irqs \subseteq IRQ_FIRST .. IRQ_LAST /\ Faults \subseteq Exceptions
    /\ SoftInts \subseteq 0 .. INTERRUPT_COUNT - 1 \ {SYSCALL}

VARIABLES
    cpu,            \* the registers of the processor
    stack,          \* the words of each stack
    tr,             \* the task register
    idtr,           \* whether the IDT is loaded
    gdt,            \* the GDT
    tss,            \* the TSSs
    in_use,         \* tasks[s].in_use
    child,          \* local t of the task_exec of each context
    patched,        \* instructions overwritten with an iret
    quiet,          \* no interrupt since the last instruction of the main code
    rejected,       \* the processor met something it raises #GP or #TS for
    taken           \* history: for each entry and call, the state to come back to

tables == <<idtr, gdt, tss, tr>>
tasks  == <<in_use, child, patched>>
vars   == <<cpu, stack, tables, tasks, quiet, rejected, taken>>

General  == {"eax", "ebx", "ecx", "edx", "esi", "edi", "ebp"}
Segments == {"ds", "es", "fs", "gs"}

Sel(n)            == <<"sel", n>>
Val(owner, r)     == <<"val", owner, r>>
Num(n)            == <<"num", n>>
Esp(area, depth)  == <<"esp", area, depth>>
Flags(iflag, nt)  == <<"flags", iflag, nt>>
Code(c, label)    == <<"code", c, label, 0>>           \* code of application c or the kernel
Entry(n)          == <<"code", KERNEL, "entry", n>>    \* the low-level handler of vector n

\* Stacks: of kernel_main, of an application, and the kernel's for each context.
Boot      == <<"boot", KERNEL>>
User(s)   == <<"user", s>>
Kernel(c) == <<"kernel", c>>
Areas     == {Boot} \union {User(s) : s \in Slots} \union {Kernel(c) : c \in Contexts}

Last(q)     == q[Len(q)]
Without(q, n) == SubSeq(q, 1, Len(q) - n)

\* The context whose TSS a selector names.
ContextAt(selector) ==
    IF Index(selector) \notin GdtIndexes THEN {}
    ELSE {c \in Contexts : TssAddress[c] = Base(gdt[Index(selector)])}
Current == IF ContextAt(tr) = {} THEN KERNEL ELSE CHOOSE c \in ContextAt(tr) : TRUE

Cpl == Rpl(cpu.cs)
Stk == stack[cpu.area]
At(c, label) == ~rejected /\ cpu.eip = Code(c, label) /\ cpu.eip \notin patched

---------------------------------------------------------------------------
(* The processor's checks.  What fails one of them stops the model.        *)

CodeOk(selector) ==
    /\ Index(selector) \in GdtIndexes /\ IsCode(gdt[Index(selector)])
    /\ gdt[Index(selector)].dpl = Rpl(selector)

StackOk(selector, cpl) ==
    /\ Index(selector) \in GdtIndexes /\ IsData(gdt[Index(selector)])
    /\ gdt[Index(selector)].dpl = cpl /\ Rpl(selector) = cpl

DataOk(selector, cpl) ==
    \/ Index(selector) = 0
    \/ /\ Index(selector) \in GdtIndexes /\ IsData(gdt[Index(selector)])
       /\ gdt[Index(selector)].dpl >= cpl /\ gdt[Index(selector)].dpl >= Rpl(selector)

Checked(ok, step) ==
    IF ok THEN step /\ UNCHANGED rejected
    ELSE rejected' = TRUE /\ UNCHANGED <<cpu, stack, tables, tasks, taken>>

\* The main code executes an instruction: lines may be raised again.
Main == quiet' = TRUE

---------------------------------------------------------------------------
(* Registers on the stack.                                                 *)

Word(r) == IF r \in Segments THEN Sel(cpu.seg[r]) ELSE cpu.gen[r]
Pushed(order) == [i \in 1 .. Len(order) |-> Word(order[i])]

\* The word the pops in this order leave in register r: that of the last pop.
Popped(order, words, r) ==
    LET last == CHOOSE i \in 1 .. Len(order) :
                    order[i] = r /\ \A j \in i + 1 .. Len(order) : order[j] # r
    IN  words[Len(words) - last + 1]
Among(order) == {order[i] : i \in 1 .. Len(order)}

CanPop(order, words) ==
    /\ Len(words) >= Len(order)
    /\ \A r \in Segments \intersect Among(order) :
        /\ Popped(order, words, r)[1] = "sel"
        /\ DataOk(Popped(order, words, r)[2], Cpl)

GenAfter(order, words) ==
    [r \in General |-> IF r \in Among(order) THEN Popped(order, words, r) ELSE cpu.gen[r]]
SegAfter(order, words) ==
    [r \in Segments |-> IF r \in Among(order) THEN Popped(order, words, r)[2] ELSE cpu.seg[r]]

KernelSegments == [r \in Segments |-> GDT_KERNEL_DATA_SELECTOR]

\* A C function returns: these registers belong to the callee (IA-32 ABI).
Clobbered(gen) == [r \in General |-> IF r \in {"eax", "ecx", "edx"} THEN Val(KERNEL, r) ELSE gen[r]]

---------------------------------------------------------------------------
(* Entering and leaving a handler.                                         *)

\* The exceptions for which the processor pushes an error code.
HasErrorCode(n) == n \in {8, 10, 11, 12, 13, 14, 17}

State(eip) == [cpu |-> [cpu EXCEPT !.eip = eip], words |-> Stk]

\* Vector n, for what was asked; eip is the instruction to come back to.
Deliver(n, eip, asked) ==
    LET gate  == idt[n]
        inner == Cpl # Rpl(gate.selector)
        area  == IF inner THEN tss[Current].esp0 ELSE cpu.area
        ss    == IF inner THEN tss[Current].ss0 ELSE cpu.ss
        outer == IF inner THEN <<Sel(cpu.ss), Esp(cpu.area, Len(Stk))>> ELSE Stk
        start == {m \in Installed : EntryAddress[m] = Offset(gate)}
    IN  /\ Checked(/\ idtr /\ gate.p = 1 /\ start # {}
                   /\ CodeOk(gate.selector) /\ StackOk(ss, Rpl(gate.selector)),
            /\ stack' = [stack EXCEPT ![area] =
                   outer \o <<Flags(cpu.iflag, cpu.nt), Sel(cpu.cs), eip>>
                         \o (IF HasErrorCode(n) THEN <<Val(KERNEL, "error_code")>> ELSE <<>>)]
            /\ cpu' = [cpu EXCEPT
                   !.cs = gate.selector, !.ss = ss, !.area = area,
                   !.eip = Entry(CHOOSE m \in start : TRUE),
                   !.iflag = @ /\ gate.type = TYPE_TRAP_GATE, !.nt = FALSE]
            /\ taken' = Append(taken, [asked |-> asked, was |-> State(eip)])
            /\ UNCHANGED <<tables, tasks>>)

\* iret inside a task, with these registers and this stack: back to the word
\* on top, and to the outer stack when the privilege changes.
InterruptReturn(gen, seg, words) ==
    LET n     == Len(words)
        eip   == words[n]
        cs    == words[n - 1]
        flags == words[n - 2]
        esp   == words[n - 3]
        ss    == words[n - 4]
        outer == Rpl(cs[2]) # Cpl
        kept(r) == IF DataOk(seg[r], Rpl(cs[2])) THEN seg[r] ELSE 0
    IN  Checked(/\ n >= 3 /\ eip[1] = "code" /\ cs[1] = "sel" /\ flags[1] = "flags"
                /\ CodeOk(cs[2])
                /\ outer => /\ n >= 5 /\ esp[1] = "esp" /\ ss[1] = "sel"
                            /\ StackOk(ss[2], Rpl(cs[2]))
                            /\ esp[3] <= Len(stack[esp[2]]),
            /\ cpu' = [gen |-> gen, seg |-> IF outer THEN [r \in Segments |-> kept(r)] ELSE seg,
                       cs |-> cs[2], eip |-> eip, iflag |-> flags[2],
                       nt |-> flags[3],
                       ss |-> IF outer THEN ss[2] ELSE cpu.ss,
                       area |-> IF outer THEN esp[2] ELSE cpu.area]
            /\ stack' = IF outer
                   THEN [stack EXCEPT ![cpu.area] = Without(words, 5),
                                      ![esp[2]] = SubSeq(@, 1, esp[3])]
                   ELSE [stack EXCEPT ![cpu.area] = Without(words, 3)]
            /\ taken' = Without(taken, 1)
            /\ UNCHANGED <<tables, tasks>>)

---------------------------------------------------------------------------
(* The hardware task switch.                                               *)

\* memset of a task_t or of initial_tss.
ZeroTss ==
    [link |-> 0, ss0 |-> 0, esp0 |-> Boot, depth |-> 0,
     cpu |-> [gen |-> [r \in General |-> Num(0)], seg |-> [r \in Segments |-> 0],
              cs |-> 0, ss |-> 0, eip |-> Num(0), iflag |-> FALSE, nt |-> FALSE, area |-> Boot]]

\* The registers of the task that is left are saved; eip is where it goes on.
Saved(eip, nt) ==
    [tss EXCEPT ![Current].cpu = [cpu EXCEPT !.eip = eip, !.nt = nt],
                ![Current].depth = Len(Stk)]

\* The selector names a TSS of this type whose segments can be loaded.
Loadable(selector, type) ==
    /\ IsTss(gdt[Index(selector)], type)
    /\ ContextAt(selector) # {}
    /\ \A c \in ContextAt(selector) :
        LET next == tss[c].cpu
        IN  /\ CodeOk(next.cs) /\ StackOk(next.ss, Rpl(next.cs))
            /\ \A r \in Segments : DataOk(next.seg[r], Rpl(next.cs))
            /\ tss[c].depth <= Len(stack[next.area])

\* The processor goes on with the registers of context c.
Loaded(c, nt) ==
    /\ cpu' = [tss[c].cpu EXCEPT !.nt = nt]
    /\ stack' = [stack EXCEPT ![tss[c].cpu.area] = SubSeq(@, 1, tss[c].depth)]

\* Variant: jmp far instead of call far.
JumpFar(selector, eip) ==
    Checked(Loadable(selector, TYPE_TSS) /\ gdt[Index(selector)].dpl >= Cpl,
        \E c \in ContextAt(selector) :
            /\ Loaded(c, FALSE)
            /\ tss' = Saved(eip, cpu.nt)
            /\ gdt' = [gdt EXCEPT ![Index(selector)].type = TYPE_TSS_BUSY,
                                  ![Index(tr)].type = TYPE_TSS]
            /\ tr' = selector
            /\ taken' = Append(taken, [asked |-> <<"call", c>>, was |-> State(eip)])
            /\ UNCHANGED <<idtr, tasks>>)

\* call far: the new TSS is linked to the old one, and NT is set.
CallFar(selector, eip) ==
    Checked(Loadable(selector, TYPE_TSS) /\ gdt[Index(selector)].dpl >= Cpl,
        \E c \in ContextAt(selector) :
            /\ Loaded(c, TRUE)
            /\ tss' = [Saved(eip, cpu.nt) EXCEPT ![c].link = tr]
            /\ gdt' = [gdt EXCEPT ![Index(selector)].type = TYPE_TSS_BUSY]
            /\ tr' = selector
            /\ taken' = Append(taken, [asked |-> <<"call", c>>, was |-> State(eip)])
            /\ UNCHANGED <<idtr, tasks>>)

\* iret with NT set: back to the task in the link of the current TSS.
TaskReturn(eip) ==
    LET link == tss[Current].link
    IN  Checked(Loadable(link, TYPE_TSS_BUSY),
            \E c \in ContextAt(link) :
                /\ Loaded(c, tss[c].cpu.nt)
                /\ tss' = Saved(eip, FALSE)
                /\ gdt' = [gdt EXCEPT ![Index(tr)].type = TYPE_TSS]
                /\ tr' = link
                /\ taken' = Without(taken, 1)
                /\ UNCHANGED <<idtr, tasks>>)

Iret(gen, seg, words) ==
    IF cpu.nt THEN TaskReturn(cpu.eip) ELSE InterruptReturn(gen, seg, words)

---------------------------------------------------------------------------
(* kernel_main.                                                            *)

\* The boot loader leaves flat segments of its own, and interrupts disabled.
LoaderSelector == 65528
Init ==
    /\ cpu = [gen |-> [r \in General |-> Val(KERNEL, r)],
              seg |-> [r \in Segments |-> LoaderSelector],
              cs |-> LoaderSelector, ss |-> LoaderSelector,
              eip |-> Code(KERNEL, "gdt_init"), iflag |-> FALSE, nt |-> FALSE, area |-> Boot]
    /\ stack = [a \in Areas |-> <<>>]
    /\ tr = 0
    /\ idtr = FALSE
    /\ gdt = [i \in GdtIndexes |-> gdt_make_null_segment]
    /\ tss = [c \in Contexts |-> ZeroTss]
    /\ in_use = [s \in Slots |-> FALSE]
    /\ child = [c \in Contexts |-> KERNEL]
    /\ patched = {}
    /\ quiet = TRUE
    /\ rejected = FALSE
    /\ taken = <<>>

Goto(label) == cpu' = [cpu EXCEPT !.eip = Code(KERNEL, label)]

\* gdt_init fills the table and loads the segment registers from it.
GdtInit ==
    /\ At(KERNEL, "gdt_init") /\ Main
    /\ gdt' = gdt_init
    /\ cpu' = [cpu EXCEPT !.seg = KernelSegments, !.ss = GDT_KERNEL_DATA_SELECTOR,
                   !.cs = GDT_KERNEL_CODE_SELECTOR, !.eip = Code(KERNEL, "idt_init")]
    /\ UNCHANGED <<stack, idtr, tss, tr, tasks, rejected, taken>>

IdtInit ==
    /\ At(KERNEL, "idt_init") /\ Main
    /\ idtr' = TRUE
    /\ Goto("tasks_init")
    /\ UNCHANGED <<stack, gdt, tss, tr, tasks, rejected, taken>>

\* tasks_init: the initial TSS, and ltr, which marks it busy.
TasksInit ==
    /\ At(KERNEL, "tasks_init") /\ Main
    /\ gdt' = [gdt EXCEPT ![KERNEL_TSS_INDEX] =
                  [gdt_make_tss(KERNEL, DPL_KERNEL) EXCEPT !.type = TYPE_TSS_BUSY]]
    /\ tss' = [tss EXCEPT ![KERNEL] = [ZeroTss EXCEPT
                  !.ss0 = GDT_KERNEL_DATA_SELECTOR, !.esp0 = Kernel(KERNEL)]]
    /\ tr' = Selector(KERNEL)
    /\ Goto("sti")
    /\ UNCHANGED <<stack, idtr, tasks, rejected, taken>>

Sti ==
    /\ At(KERNEL, "sti") /\ Main
    /\ cpu' = [cpu EXCEPT !.iflag = TRUE, !.eip = Code(KERNEL, "kernel_main")]
    /\ UNCHANGED <<stack, tables, tasks, rejected, taken>>

\* halt: cli, then the processor stops.
Halt ==
    /\ At(KERNEL, "halt") /\ Main
    /\ cpu' = [cpu EXCEPT !.iflag = FALSE, !.eip = Code(KERNEL, "hlt")]
    /\ UNCHANGED <<stack, tables, tasks, rejected, taken>>

---------------------------------------------------------------------------
(* task_exec, in kernel_main or in a system call.                          *)

\* Variant: esp0 is left out: the first kernel stack serves every task.
NewTssSharedStack(s) ==
    [ZeroTss EXCEPT
        !.ss0 = GDT_KERNEL_DATA_SELECTOR,
        !.esp0 = Kernel(0),
        !.cpu.cs = GDT_USER_CODE_SELECTOR,
        !.cpu.ss = GDT_USER_DATA_SELECTOR,
        !.cpu.seg = [r \in Segments |-> IF r = "fs" THEN 0 ELSE GDT_USER_DATA_SELECTOR],
        !.cpu.iflag = TRUE,
        !.cpu.eip = Code(s, "entry"),
        !.cpu.area = User(s)]

\* The TSS task_create fills; fs is not among the segments it sets.
NewTss(s) ==
    [ZeroTss EXCEPT
        !.ss0 = GDT_KERNEL_DATA_SELECTOR,
        !.esp0 = Kernel(s),
        !.cpu.cs = GDT_USER_CODE_SELECTOR,
        !.cpu.ss = GDT_USER_DATA_SELECTOR,
        !.cpu.seg = [r \in Segments |-> IF r = "fs" THEN 0 ELSE GDT_USER_DATA_SELECTOR],
        !.cpu.iflag = TRUE,
        !.cpu.eip = Code(s, "entry"),
        !.cpu.area = User(s)]

AtExec == At(KERNEL, "kernel_main") \/ At(KERNEL, "syscall_handler")

\* task_create takes the first free slot, clears it and fills its TSS and the
\* descriptor of its TSS; task_load copies a new image.
TaskCreate(s) ==
    /\ AtExec /\ Main
    /\ ~in_use[s] /\ \A i \in Slots : i < s => in_use[i]
    /\ in_use' = [in_use EXCEPT ![s] = TRUE]
    /\ child' = [child EXCEPT ![Current] = s]
    /\ tss' = [tss EXCEPT ![s] = NewTss(s)]
    /\ gdt' = [gdt EXCEPT ![TssIndex(s)] = gdt_make_tss(s, DPL_KERNEL)]
    /\ stack' = [stack EXCEPT ![Kernel(s)] = <<>>, ![User(s)] = <<>>]
    /\ patched' = {code \in patched : code[2] # s}
    /\ Goto("task_switch")
    /\ UNCHANGED <<idtr, tr, rejected, taken>>

TaskSwitch ==
    /\ At(KERNEL, "task_switch") /\ Main
    /\ CallFar(Selector(child[Current]), Code(KERNEL, "task_free"))

\* task_free, and the return of task_exec to its caller.
TaskFree ==
    /\ At(KERNEL, "task_free") /\ Main
    /\ in_use' = [in_use EXCEPT ![child[Current]] = FALSE]
    /\ cpu' = [cpu EXCEPT !.gen = Clobbered(@),
                   !.eip = Code(KERNEL, IF Current = KERNEL THEN "halt" ELSE "syscall_exit")]
    /\ UNCHANGED <<stack, tables, child, patched, rejected, taken>>

\* task_exec of kernel_main finds no shell.
NoShell ==
    /\ At(KERNEL, "kernel_main") /\ Main
    /\ Goto("halt")
    /\ UNCHANGED <<stack, tables, tasks, rejected, taken>>

---------------------------------------------------------------------------
(* Exceptions and hardware interrupts: _exception<n>, _irq<i>, isr_wrapper. *)

\* idt_asm.s declares which exceptions come with an error code.
WithCode == {8, 10, 11, 12, 13, 14, 17}
Number(n) == IF n \in Exceptions THEN n ELSE n - IRQ_REMAP_OFFSET

PushOrder == <<"eax", "ebx", "ecx", "edx", "esi", "edi", "ebp", "ds", "es", "fs", "gs">>

\* Variant: fs and gs are restored in the order they were saved.
PopOrderSwapped == <<"fs", "gs", "es", "ds", "ebp", "edi", "esi", "edx", "ecx", "ebx", "eax">>

PopOrder  == <<"gs", "fs", "es", "ds", "ebp", "edi", "esi", "edx", "ecx", "ebx", "eax">>

\* Variant: the dummy error code is left out.
HeaderNoDummy(n) == <<Num(Number(n))>>

\* The words below the registers: the error code and the number.
Header(n) == (IF n \in WithCode THEN <<>> ELSE <<Num(0)>>) \o <<Num(Number(n))>>

IsrEnter(n) ==
    /\ ~rejected /\ cpu.eip = Entry(n) /\ n # SYSCALL
    /\ stack' = [stack EXCEPT ![cpu.area] = @ \o Header(n) \o Pushed(PushOrder)]
    /\ cpu' = [cpu EXCEPT !.iflag = FALSE, !.seg = KernelSegments,
                   !.eip = Code(KERNEL, IF n \in Exceptions THEN "exception_handler"
                                        ELSE "irq_handler")]
    /\ UNCHANGED <<tables, tasks, quiet, rejected, taken>>

\* Variant: regs_t has no field for the error code.
RegsLayoutNoCode ==
    <<"gs", "fs", "es", "ds", "ebp", "edi", "esi", "edx", "ecx", "ebx", "eax",
      "number", "eip", "cs", "eflags", "esp", "ss">>

\* regs_t, from the stack pointer up.
RegsLayout ==
    <<"gs", "fs", "es", "ds", "ebp", "edi", "esi", "edx", "ecx", "ebx", "eax",
      "number", "error_code", "eip", "cs", "eflags", "esp", "ss">>
regs(field) ==
    LET i == CHOOSE i \in 1 .. Len(RegsLayout) : RegsLayout[i] = field
    IN  Stk[Len(Stk) - i + 1]

\* Variant: the task is announced as terminated and nothing is written.
ExceptionHandlerPrints ==
    /\ At(KERNEL, "exception_handler")
    /\ cpu' = [cpu EXCEPT !.gen = Clobbered(@), !.eip = Code(KERNEL, "exception_exit")]
    /\ UNCHANGED <<stack, tables, tasks, quiet, rejected, taken>>

\* The handler of exceptions finds the current task by its selector and
\* overwrites the instruction at eip with an iret.
ExceptionHandler ==
    /\ At(KERNEL, "exception_handler") /\ UNCHANGED quiet
    /\ Checked(\E s \in TasksBySelector(tr) : in_use[s],
           /\ patched' = patched \union {regs("eip")}
           /\ cpu' = [cpu EXCEPT !.gen = Clobbered(@), !.eip = Code(KERNEL, "exception_exit")]
           /\ UNCHANGED <<stack, tables, in_use, child, taken>>)

IrqHandler ==
    /\ At(KERNEL, "irq_handler")
    /\ cpu' = [cpu EXCEPT !.gen = Clobbered(@), !.eip = Code(KERNEL, "irq_exit")]
    /\ UNCHANGED <<stack, tables, tasks, quiet, rejected, taken>>

\* The wrapper restores the registers, drops number and error code, and irets.
IsrExit ==
    /\ At(KERNEL, "exception_exit") \/ At(KERNEL, "irq_exit")
    /\ UNCHANGED quiet
    /\ LET size == Len(PopOrder) + 2
       IN  IF CanPop(PopOrder, Stk) /\ Len(Stk) >= size
           THEN Iret(GenAfter(PopOrder, Stk), SegAfter(PopOrder, Stk), Without(Stk, size))
           ELSE Checked(FALSE, TRUE)

---------------------------------------------------------------------------
(* System calls: _syscall_handler.                                         *)

ArgumentOrder == <<"esi", "edx", "ecx", "ebx", "eax">>

SyscallEnter ==
    /\ ~rejected /\ cpu.eip = Entry(SYSCALL) /\ Main
    /\ stack' = [stack EXCEPT ![cpu.area] =
                    @ \o Pushed(<<"ds", "es", "fs", "gs">>) \o Pushed(ArgumentOrder)]
    /\ cpu' = [cpu EXCEPT !.seg = KernelSegments, !.eip = Code(KERNEL, "syscall_handler")]
    /\ UNCHANGED <<tables, tasks, rejected, taken>>

\* Any function but an exec that succeeds.
SyscallFunction ==
    /\ At(KERNEL, "syscall_handler") /\ Main
    /\ cpu' = [cpu EXCEPT !.gen = Clobbered(@), !.eip = Code(KERNEL, "syscall_exit")]
    /\ UNCHANGED <<stack, tables, tasks, rejected, taken>>

SyscallPops == <<"ebx", "ebx", "ebx", "ebx", "ebx", "gs", "fs", "es", "ds">>

SyscallExit ==
    /\ At(KERNEL, "syscall_exit") /\ Main
    /\ Checked(CanPop(SyscallPops, Stk),
           /\ cpu' = [cpu EXCEPT !.gen = GenAfter(SyscallPops, Stk),
                          !.seg = SegAfter(SyscallPops, Stk),
                          !.eip = Code(KERNEL, "syscall_iret")]
           /\ stack' = [stack EXCEPT ![cpu.area] = Without(Stk, Len(SyscallPops))]
           /\ UNCHANGED <<tables, tasks, taken>>)

SyscallIret == At(KERNEL, "syscall_iret") /\ Main /\ Iret(cpu.gen, cpu.seg, Stk)

---------------------------------------------------------------------------
(* Applications.                                                           *)

\* The application computes: every register is its own.
AppStart(s) ==
    /\ At(s, "entry") /\ Main
    /\ cpu' = [cpu EXCEPT !.gen = [r \in General |-> Val(s, r)], !.eip = Code(s, "main")]
    /\ UNCHANGED <<stack, tables, tasks, rejected, taken>>

\* The numbers and arguments the stub loads.
Arguments == [eax |-> "nb", ebx |-> "arg1", ecx |-> "arg2", edx |-> "arg3", esi |-> "arg4"]

\* syscall: the stub saves the registers and loads the arguments.
Syscall(s) ==
    LET words == Append(Stk, Word("ebp"))
    IN  /\ At(s, "main") /\ Main
        /\ stack' = [stack EXCEPT ![cpu.area] =
                        words \o Pushed(<<"ebx", "ecx", "edx", "esi", "edi">>)]
        /\ cpu' = [cpu EXCEPT
               !.gen = [r \in General |->
                            IF r = "ebp" THEN Esp(cpu.area, Len(words))
                            ELSE IF r \in DOMAIN Arguments THEN Val(s, Arguments[r])
                            ELSE @[r]],
               !.eip = Code(s, "int48")]
        /\ UNCHANGED <<tables, tasks, rejected, taken>>

\* int n: a gate of the application's privilege, or a general protection fault.
SoftwareInterrupt(n, this, next) ==
    IF idt[n].p = 1 /\ idt[n].dpl >= Cpl
    THEN Deliver(n, next, <<"int", n>>)
    ELSE Deliver(13, this, IF n = SYSCALL THEN <<"int", n>> ELSE <<"fault", 13>>)

Int48(s) == At(s, "int48") /\ Main /\ SoftwareInterrupt(SYSCALL, cpu.eip, Code(s, "stub"))

\* The rest of the stub: pops, mov esp,ebp, pop ebp, ret.
StubPops == <<"edi", "esi", "edx", "ecx", "ebx">>
SyscallReturns(s) ==
    /\ At(s, "stub") /\ Main
    /\ Checked(/\ CanPop(StubPops, Stk)
               /\ cpu.gen["ebp"][1] = "esp" /\ cpu.gen["ebp"][3] \in 1 .. Len(Stk),
           LET words == SubSeq(Stk, 1, cpu.gen["ebp"][3])
           IN  /\ cpu' = [cpu EXCEPT
                      !.gen = [GenAfter(StubPops, Stk) EXCEPT !["ebp"] = Last(words)],
                      !.eip = Code(s, "main")]
               /\ stack' = [stack EXCEPT ![cpu.area] = Without(words, 1)]
               /\ UNCHANGED <<tables, tasks, taken>>)

\* An instruction raises exception n, or is an int without a gate (gpf.c).
Fault(s, n) == At(s, "main") /\ Main /\ Deliver(n, cpu.eip, <<"fault", n>>)
SoftInt(s, n) == At(s, "main") /\ Main /\ SoftwareInterrupt(n, cpu.eip, cpu.eip)

\* main returns or calls exit.
Exit(s) ==
    /\ At(s, "main") /\ Main
    /\ cpu' = [cpu EXCEPT !.eip = Code(s, "exit")]
    /\ UNCHANGED <<stack, tables, tasks, rejected, taken>>

\* The iret of exit, or one that exception_handler wrote.
AppIret ==
    /\ ~rejected /\ Main
    /\ (\E s \in Slots : cpu.eip = Code(s, "exit")) \/ cpu.eip \in patched
    /\ Iret(cpu.gen, cpu.seg, Stk)

\* A line is raised and the processor takes the interrupt.
Irq(i) ==
    /\ ~rejected /\ cpu.iflag /\ quiet /\ quiet' = FALSE
    /\ Deliver(IRQ_REMAP_OFFSET + i, cpu.eip, <<"irq", i>>)

---------------------------------------------------------------------------
Booting == GdtInit \/ IdtInit \/ TasksInit \/ Sti \/ Halt \/ NoShell
Executing == (\E s \in Slots : TaskCreate(s)) \/ TaskSwitch \/ TaskFree
Handling ==
    \/ \E n \in Installed : IsrEnter(n)
    \/ ExceptionHandler \/ IrqHandler \/ IsrExit
    \/ SyscallEnter \/ SyscallFunction \/ SyscallExit \/ SyscallIret

\* What an application does of its own accord, and what it cannot but do.
AppChooses(s) ==
    \/ Syscall(s) \/ Exit(s)
    \/ \E n \in Faults : Fault(s, n)
    \/ \E n \in SoftInts : SoftInt(s, n)
AppGoesOn(s) == AppStart(s) \/ Int48(s) \/ SyscallReturns(s)

Running == Booting \/ Executing \/ Handling \/ AppIret \/ \E s \in Slots : AppGoesOn(s)

Next ==
    \/ Running
    \/ \E s \in Slots : AppChooses(s)
    \/ \E i \in Irqs : Irq(i)

\* The processor executes instructions; no application has to choose anything.
Spec == Init /\ [][Next]_vars /\ WF_vars(Running)

---------------------------------------------------------------------------
(* Properties.                                                             *)

Selectors == 0 .. 65535

\* The registers and tables keep their types; the stacks hold known words.
TypeOK ==
    /\ DOMAIN cpu.gen = General /\ cpu.seg \in [Segments -> Selectors]
    /\ cpu.cs \in Selectors /\ cpu.ss \in Selectors /\ cpu.eip[1] = "code"
    /\ cpu.iflag \in BOOLEAN /\ cpu.nt \in BOOLEAN /\ cpu.area \in Areas
    /\ DOMAIN stack = Areas
    /\ \A a \in Areas : \A i \in 1 .. Len(stack[a]) :
           stack[a][i][1] \in {"sel", "val", "num", "esp", "flags", "code"}
    /\ tr \in {0} \union {Selector(c) : c \in Contexts}
    /\ idtr \in BOOLEAN /\ quiet \in BOOLEAN /\ rejected \in BOOLEAN
    /\ \A i \in GdtIndexes : gdt[i].present \in {0, 1}
    /\ \A c \in Contexts : tss[c].esp0 \in Areas /\ tss[c].depth \in Nat
    /\ in_use \in [Slots -> BOOLEAN] /\ child \in [Contexts -> Contexts]
    /\ \A code \in patched : code[1] = "code"

\* The kernel's own entry, exit and task-switch code never raises a protection
\* fault: every selector it builds, saves, restores or links to can be loaded
\* where it is loaded, every gate and TSS has the type its use asks for, and no
\* pop or iret finds the stack of another activation (idt_asm.s, syscall_asm.s,
\* task_asm.s, task.c:63-85).
NoProtectionFault == ~rejected

\* Whatever an entry or a far call interrupted goes on in exactly the state in
\* which it was left: all registers, flags, segments, and the words on its
\* stack; only a system call leaves eax, ebx, ecx and edx to its stub
\* (idt_asm.s:40-86, syscall_asm.s:10-49, task_asm.s:290-296).
ResumesWhole ==
    [][Len(taken') < Len(taken) =>
        LET was == Last(taken).was
            free == IF Last(taken).asked[1] = "int" THEN {"eax", "ebx", "ecx", "edx"} ELSE {}
        IN  /\ stack'[cpu'.area] = was.words
            /\ [cpu' EXCEPT !.gen = was.cpu.gen] = was.cpu
            /\ \A r \in General \ free : cpu'.gen[r] = was.cpu.gen[r]]_vars

\* A C handler sees what happened: the dispatch reached the handler of what was
\* asked, exception_handler and irq_handler find number, eip, cs and eflags of
\* the interrupted code in regs_t, whether the processor pushed an error code or
\* not, and syscall_handler its five arguments in order (idt.c:44-50,
\* syscall.c:115-124, syscall_asm.s:28-32).
HandlerSees ==
    LET asked == Last(taken).asked
        was   == Last(taken).was.cpu
        frame == /\ regs("number") = Num(asked[2])
                 /\ regs("eip") = was.eip /\ regs("cs") = Sel(was.cs)
                 /\ regs("eflags") = Flags(was.iflag, was.nt)
                 /\ regs("ebx") = was.gen["ebx"] /\ regs("gs") = Sel(was.seg["gs"])
    IN  /\ At(KERNEL, "exception_handler") => asked[1] = "fault" /\ frame
        /\ At(KERNEL, "irq_handler") => asked[1] = "irq" /\ frame
        /\ At(KERNEL, "syscall_handler") =>
            /\ asked = <<"int", SYSCALL>>
            /\ [i \in 1 .. 5 |-> Stk[Len(Stk) - i + 1]] =
               [i \in 1 .. 5 |-> Val(Current, <<"nb", "arg1", "arg2", "arg3", "arg4">>[i])]

CLabels == {"kernel_main", "task_switch", "task_free", "halt", "syscall_handler",
            "exception_handler", "irq_handler"}

\* Kernel code always runs at privilege 0, on the stack of the context that is
\* current, and C code with flat kernel segments; an application always runs at
\* privilege 3 in its own TSS, with interrupts enabled, NT set (its end needs
\* it) and, outside the stub, with its own registers (task.c:77-85).
Environment ==
    \/ rejected
    \/ ~cpu.iflag /\ \E step \in {"gdt_init", "idt_init", "tasks_init", "sti"} :
           cpu.eip = Code(KERNEL, step)
    \/ /\ cpu.eip[2] = KERNEL
       /\ Cpl = 0 /\ Flat(gdt[Index(cpu.cs)])
       /\ cpu.area = IF Current = KERNEL THEN Boot ELSE Kernel(Current)
       /\ cpu.eip[3] \in CLabels =>
            \A r \in Segments : cpu.seg[r] # 0 /\ DataOk(cpu.seg[r], 0)
                                /\ Flat(gdt[Index(cpu.seg[r])])
    \/ /\ cpu.eip[2] = Current /\ in_use[Current]
       /\ Cpl = 3 /\ Flat(gdt[Index(cpu.cs)]) /\ cpu.area = User(Current)
       /\ cpu.iflag /\ cpu.nt
       /\ \A r \in Segments \ {"fs"} : cpu.seg[r] = GDT_USER_DATA_SELECTOR
       /\ cpu.eip[3] = "main" =>
            \A r \in General \ {"eax"} : cpu.gen[r] = Val(Current, r)

Ending(s) ==
    \/ At(KERNEL, "exception_handler") /\ Current = s
    \/ At(s, "exit")

\* An application that faults or exits gives its slot back: the iret of exit, or
\* the one exception_handler writes, leads to the task_exec that started it,
\* whatever interrupts come in between (idt.c:154-161, entrypoint_asm.s:11-12).
EndingTaskFreed == \A s \in Slots : Ending(s) ~> ~in_use[s]

---------------------------------------------------------------------------
(* Refinement: the activations are read off the stacks and the task links.  *)

\* What the code at this address is, in context c.
KindOf(c, code) ==
    IF code[2] # KERNEL THEN "user"
    ELSE IF code = Entry(SYSCALL) \/ code[3] \in {"syscall_handler", "syscall_exit", "syscall_iret"}
    THEN "sys"
    ELSE IF \/ code[3] = "entry" /\ code[4] \in Exceptions
            \/ code[3] \in {"exception_handler", "exception_exit"}
    THEN "exc"
    ELSE IF code[3] \in {"entry", "irq_handler", "irq_exit"} THEN "irq"
    ELSE IF c = KERNEL THEN "main" ELSE "sys"

\* The addresses among these words.
CodesIn(words) ==
    LET first[n \in 0 .. Len(words)] ==
            IF n = 0 THEN <<>>
            ELSE IF words[n][1] = "code" THEN Append(first[n - 1], words[n])
            ELSE first[n - 1]
    IN  first[Len(words)]

\* The activations of one context: the addresses on its kernel stack, then eip.
OfContext(c) ==
    LET eip   == IF c = Current THEN cpu.eip ELSE tss[c].cpu.eip
        codes == Append(CodesIn(stack[IF c = KERNEL THEN Boot ELSE Kernel(c)]), eip)
    IN  [i \in 1 .. Len(codes) |-> [ctx |-> c, kind |-> KindOf(c, codes[i])]]

\* The context a TSS is linked to.
Linked(c) ==
    LET d == ContextAt(tss[c].link) IN IF d = {} THEN KERNEL ELSE CHOOSE e \in d : TRUE

\* The activations up to each context, from at most n links outwards.
Upto[n \in 0 .. MAX_TASK_COUNT] ==
    [c \in Contexts |->
        (IF c = KERNEL \/ n = 0 THEN <<>> ELSE Upto[n - 1][Linked(c)]) \o OfContext(c)]

Activations == Upto[MAX_TASK_COUNT][Current]

Flow == INSTANCE Control WITH acts <- Activations

\* The entry and exit code implements Control: entries and calls nest, and each
\* end resumes the innermost interrupted activation (of those on the stacks, not
\* of a history).
NestedControl == Flow!Spec
=============================================================================
