------------------------------- MODULE Tasks -------------------------------
(***************************************************************************)
(* The task subsystem of YoctOS (kernel/task/task.c) with the frame        *)
(* allocator and the page tables it uses, the hardware task switch of      *)
(* task_asm.s, the end of an application (user/entrypoint_asm.s) and the   *)
(* exception handler of interrupt/idt.c that ends a faulty one.            *)
(*                                                                         *)
(* A context is a TSS: the initial one (KERNEL, which runs kernel_main) or *)
(* the one of a task slot.  Exactly one context runs, the one the task     *)
(* register tr selects; every other one is suspended inside task_exec, in  *)
(* the "call far" to its child, or is not active.  pc[c] is where context  *)
(* c is: in its user code, in a step of task_exec, or in a fault.          *)
(*                                                                         *)
(* Memory: a frame number 0 stands for a null pointer, as in the code      *)
(* (frame 0 belongs to the kernel).  Only the page directory entries of    *)
(* the user area, from TASK_VIRT_ADDR on, are modelled: those of the       *)
(* template (RAM and framebuffer identity maps) never change.  Hardware    *)
(* interrupts are left out: no IRQ handler touches any of this state.      *)
(***************************************************************************)
EXTENDS Integers, FiniteSets

CONSTANTS
    MAX_TASK_COUNT,     \* task slots (8 in task.h)
    PAGES_IN_PT,        \* entries of a page table (1024 in paging.h)
    PAGETABLES_IN_PD,   \* page directory entries of the user area
    NumFrames,          \* frames of RAM
    KernelFrames,       \* frames taken before the first task is created
    Names,              \* file names given to exec
    Modules,            \* names of the modules the boot loader loaded
    Shell,              \* the module kernel_main executes
    Pages,              \* Pages[m]: pages of the address space of module m
    Image,              \* Image[m]: pages of these its image and arguments fill
    Colors              \* colour settings of the terminal

KERNEL == -1            \* the initial TSS
NoTask == -2            \* a TSS link field that was never written
BadFrame == 1048575     \* the frame number in frame_alloc's error value, 0xFFFFFFFF

Slots    == 0 .. MAX_TASK_COUNT - 1
Contexts == Slots \union {KERNEL}
Frames   == 0 .. NumFrames - 1
Reserved == 0 .. KernelFrames - 1
PdeIdx   == 0 .. PAGETABLES_IN_PD - 1
PteIdx   == 0 .. PAGES_IN_PT - 1
NoImage  == "zeroed"

ASSUME SizesAssumption ==
    /\ MAX_TASK_COUNT \in Nat \ {0}
    /\ PAGES_IN_PT \in Nat \ {0}
    /\ PAGETABLES_IN_PD \in Nat \ {0}
    /\ NumFrames \in Nat /\ NumFrames < BadFrame
    /\ KernelFrames \in 1 .. NumFrames

\* Every module fits in the user area and needs at least one page (its stack).
ASSUME ModulesAssumption ==
    /\ Modules \subseteq Names /\ Shell \in Modules
    /\ Pages \in [Modules -> Nat \ {0}] /\ Image \in [Modules -> Nat]
    /\ \A m \in Modules : /\ Image[m] <= Pages[m]
                          /\ \A v \in 0 .. Pages[m] - 1 : v \div PAGES_IN_PT \in PdeIdx
    /\ NoImage \notin Modules

VARIABLES
    bitmap,        \* frames marked as allocated by frame_alloc
    pte,           \* pte[f]: the entries of frame f, if it is a page table
    image,         \* image[f]: the module whose bytes frame f holds
    in_use,        \* tasks[s].in_use
    pagedir,       \* tasks[s].pagedir: frame of the page table, 0 if none
    page_tables,   \* tasks[s].page_tables: the same frames, to free them
    busy,          \* busy bit of the TSS descriptor of a context
    link,          \* previous task link of the TSS of a slot
    tr,            \* the context the task register selects
    cr3,           \* the context whose page directory is loaded
    pc,            \* where each context is
    prog,          \* the argument of the task_exec a context is in
    child,         \* local t of task_exec
    page,          \* loop counter of paging_alloc
    saved,         \* local cols of task_exec
    olddir,        \* local pagedir of task_load
    colors,        \* colours of the terminal
    sys            \* the machine: up, halted, panic, wild (an exception of kernel
                   \* code overwrote kernel code), or corrupt (one of an
                   \* application overwrote memory that is not its own)

memory == <<bitmap, pte, image>>
slots  == <<in_use, pagedir, page_tables>>
cpu    == <<busy, link, tr, cr3>>
locals == <<prog, child, page, saved, olddir>>
vars   == <<memory, slots, cpu, pc, locals, colors, sys>>

FaultPcs == {"fault_own", "fault_lost", "fault_kernel", "fault_unmapped"}
ExecPcs  == {"load", "alloc", "copy", "restore", "switch", "wait", "free"}
PcValues == {"idle", "user", "patched", "resumed", "unpatched"} \union ExecPcs \union FaultPcs

\* The module the running task_exec of c loads.
Size(c) == Pages[prog[c]]

Running(c) == sys = "up" /\ tr = c

---------------------------------------------------------------------------
(* The frame allocator and the page tables.                                *)

NoEntry    == [frame |-> 0, present |-> FALSE]
ZeroFrame  == [i \in PteIdx |-> NoEntry]
NoTables   == [j \in PdeIdx |-> 0]

\* frame_alloc takes the first free frame, or fails with BadFrame.
FrameAlloc(f, allocated) ==
    IF Frames \subseteq allocated
    THEN f = BadFrame
    ELSE f \in Frames \ allocated /\ \A g \in Frames \ allocated : f <= g

\* Marks the frames of F (but not the error value) as allocated.
Allocated(F) == bitmap \union (F \ {BadFrame})

\* Variant: the entry holds the address of the frame, not its number.
MappedByAddress(F, t, i, f) ==
    [g \in Frames |->
        IF g = t
        THEN [(IF t \in F THEN ZeroFrame ELSE pte[t])
                EXCEPT ![i] = [frame |-> f * 4096, present |-> TRUE]]
        ELSE IF g \in F THEN ZeroFrame ELSE pte[g]]

\* frame_alloc zeroes the frames of F; then entry i of page table t maps frame f.
Mapped(F, t, i, f) ==
    [g \in Frames |->
        IF g = t
        THEN [(IF t \in F THEN ZeroFrame ELSE pte[t])
                EXCEPT ![i] = [frame |-> f, present |-> TRUE]]
        ELSE IF g \in F THEN ZeroFrame ELSE pte[g]]

ZeroedImage(F) == [g \in Frames |-> IF g \in F THEN NoImage ELSE image[g]]

\* The entry that maps page v of the user area of slot s.
EntryOf(s, v) == pte[pagedir[s][v \div PAGES_IN_PT]][v % PAGES_IN_PT]

\* Some page of the user area of slot s is mapped to frame f.
MapsTo(s, f) ==
    \E j \in PdeIdx, i \in PteIdx :
        /\ pagedir[s][j] \in Frames \ {0}
        /\ pte[pagedir[s][j]][i] = [frame |-> f, present |-> TRUE]

\* The tables task_free visits: those before the first null pointer.
Recorded(s) == {j \in PdeIdx : \A k \in 0 .. j : page_tables[s][k] # 0}

\* Of these, the tables it frees: those whose first entry is present.
Visited(s) == {j \in Recorded(s) : pte[page_tables[s][j]][0].present}

\* Variant: the loop over the entries stops one entry too early.
FreedFramesButLast(s) ==
    {f \in Frames \union {BadFrame} : \E j \in Visited(s), i \in 0 .. PAGES_IN_PT - 2 :
        LET entry == pte[page_tables[s][j]][i]
        IN  entry.frame = f /\ (entry.present \/ i = 0)}

\* The frames task_free gives back: every present page of each visited table
\* (and, a second time, the first page of the table instead of the table).
FreedFrames(s) ==
    {f \in Frames \union {BadFrame} : \E j \in Visited(s), i \in PteIdx :
        LET entry == pte[page_tables[s][j]][i]
        IN  entry.frame = f /\ (entry.present \/ i = 0)}

\* The page tables after task_free: it clears the first entry of each table.
ClearedTables(s) ==
    [f \in Frames |->
        IF \E j \in Visited(s) : page_tables[s][j] = f
        THEN [pte[f] EXCEPT ![0].present = FALSE]
        ELSE pte[f]]

---------------------------------------------------------------------------
Init ==
    /\ bitmap = Reserved
    /\ pte = [f \in Frames |-> ZeroFrame]
    /\ image = [f \in Frames |-> NoImage]
    /\ in_use = [s \in Slots |-> FALSE]
    /\ pagedir = [s \in Slots |-> NoTables]
    /\ page_tables = [s \in Slots |-> NoTables]
    /\ busy = [c \in Contexts |-> c = KERNEL]
    /\ link = [s \in Slots |-> NoTask]
    /\ tr = KERNEL
    /\ cr3 = KERNEL
    /\ pc = [c \in Contexts |-> IF c = KERNEL THEN "load" ELSE "idle"]
    /\ prog = [c \in Contexts |-> Shell]
    /\ child = [c \in Contexts |-> NoTask]
    /\ page = [c \in Contexts |-> 0]
    /\ colors \in Colors
    /\ saved = [c \in Contexts |-> colors]
    /\ olddir = [c \in Contexts |-> c]
    /\ sys = "up"

---------------------------------------------------------------------------
(* User code.                                                              *)

\* An application executes another one (syscall 7).
Exec(c, n) ==
    /\ Running(c) /\ pc[c] = "user"
    /\ prog' = [prog EXCEPT ![c] = n]
    /\ pc' = [pc EXCEPT ![c] = "load"]
    /\ UNCHANGED <<memory, slots, cpu, child, page, saved, olddir, colors, sys>>

\* An application sets the colours of the terminal (syscall 1).
SetColors(c, col) ==
    /\ Running(c) /\ pc[c] = "user"
    /\ colors' = col
    /\ UNCHANGED <<memory, slots, cpu, pc, locals, sys>>

\* Variant: the task ends with a jump to its caller, which leaves it busy.
TaskJump(c) ==
    /\ busy[link[c]]
    /\ tr' = link[c]
    /\ cr3' = link[c]
    /\ pc' = [pc EXCEPT ![c] = "idle", ![link[c]] = "free"]
    /\ UNCHANGED <<memory, slots, busy, link, locals, colors, sys>>

\* The iret that ends a task: NT is set, so the processor goes back to the
\* context in the link field, whose descriptor must be busy.
TaskReturn(c) ==
    /\ busy[link[c]]
    /\ busy' = [busy EXCEPT ![c] = FALSE]
    /\ tr' = link[c]
    /\ cr3' = link[c]
    /\ pc' = [pc EXCEPT ![c] = "idle", ![link[c]] = "free"]
    /\ UNCHANGED <<memory, slots, link, locals, colors, sys>>

\* An application returns from main or calls exit.
Exit(c) == Running(c) /\ c \in Slots /\ pc[c] = "user" /\ TaskReturn(c)

\* An instruction of an application raises an exception.  Its address is in a
\* page of the application, in one that paging_alloc mapped to the error value
\* of frame_alloc (where there is no RAM), in a page of the kernel (the
\* application jumped there), or in no page at all.
Fault(c, where) ==
    /\ Running(c) /\ pc[c] = "user"
    /\ where = "fault_own" => \E f \in Frames : MapsTo(c, f)
    /\ where = "fault_lost" => MapsTo(c, BadFrame)
    /\ pc' = [pc EXCEPT ![c] = where]
    /\ UNCHANGED <<memory, slots, cpu, locals, colors, sys>>

---------------------------------------------------------------------------
(* task_exec, run by context c.                                            *)

\* task_exec returns to its caller: the system call handler or kernel_main.
ExecReturns(c) ==
    IF c = KERNEL
    THEN pc' = [pc EXCEPT ![c] = "idle"] /\ sys' = "halted"
    ELSE pc' = [pc EXCEPT ![c] = "user"] /\ UNCHANGED sys

\* No such module, or no free slot: task_exec returns false.
TaskLoadFails(c) ==
    /\ Running(c) /\ pc[c] = "load"
    /\ prog[c] \notin Modules \/ \A s \in Slots : in_use[s]
    /\ ExecReturns(c)
    /\ UNCHANGED <<memory, slots, cpu, locals, colors>>

\* Variant: the slot's page directory is not initialised again.
TaskCreateStale(c) ==
    /\ Running(c) /\ pc[c] = "load" /\ prog[c] \in Modules
    /\ \E s \in Slots :
        /\ ~in_use[s] /\ \A i \in Slots : i < s => in_use[i]
        /\ in_use' = [in_use EXCEPT ![s] = TRUE]
        /\ busy' = [busy EXCEPT ![s] = FALSE]
        /\ link' = [link EXCEPT ![s] = NoTask]
        /\ child' = [child EXCEPT ![c] = s]
    /\ page' = [page EXCEPT ![c] = 0]
    /\ pc' = [pc EXCEPT ![c] = "alloc"]
    /\ UNCHANGED <<memory, pagedir, page_tables, tr, cr3, prog, saved, olddir, colors, sys>>

\* Variant: the slot is not marked as used.
TaskCreateUnmarked(c) ==
    /\ Running(c) /\ pc[c] = "load" /\ prog[c] \in Modules
    /\ \E s \in Slots :
        /\ ~in_use[s] /\ \A i \in Slots : i < s => in_use[i]
        /\ pagedir' = [pagedir EXCEPT ![s] = NoTables]
        /\ page_tables' = [page_tables EXCEPT ![s] = NoTables]
        /\ busy' = [busy EXCEPT ![s] = FALSE]
        /\ link' = [link EXCEPT ![s] = NoTask]
        /\ child' = [child EXCEPT ![c] = s]
    /\ page' = [page EXCEPT ![c] = 0]
    /\ pc' = [pc EXCEPT ![c] = "alloc"]
    /\ UNCHANGED <<memory, in_use, tr, cr3, prog, saved, olddir, colors, sys>>

\* task_create takes the first free slot and initialises it.
TaskCreate(c) ==
    /\ Running(c) /\ pc[c] = "load" /\ prog[c] \in Modules
    /\ \E s \in Slots :
        /\ ~in_use[s] /\ \A i \in Slots : i < s => in_use[i]
        /\ in_use' = [in_use EXCEPT ![s] = TRUE]
        /\ pagedir' = [pagedir EXCEPT ![s] = NoTables]
        /\ page_tables' = [page_tables EXCEPT ![s] = NoTables]
        /\ busy' = [busy EXCEPT ![s] = FALSE]
        /\ link' = [link EXCEPT ![s] = NoTask]
        /\ child' = [child EXCEPT ![c] = s]
    /\ page' = [page EXCEPT ![c] = 0]
    /\ pc' = [pc EXCEPT ![c] = "alloc"]
    /\ UNCHANGED <<memory, tr, cr3, prog, saved, olddir, colors, sys>>

\* Variant: paging_alloc does not advance to the next page.
SamePage(c) ==
    /\ pc' = [pc EXCEPT ![c] = IF page[c] + 1 < Size(c) THEN "alloc" ELSE "copy"]
    /\ UNCHANGED page

\* The next iteration of paging_alloc, or its end after the last page.
NextPage(c) ==
    /\ page' = [page EXCEPT ![c] = @ + 1]
    /\ pc' = [pc EXCEPT ![c] = IF page[c] + 1 < Size(c) THEN "alloc" ELSE "copy"]

\* paging_alloc takes a frame and maps it; the page table exists.
PagingAlloc(c) ==
    LET s == child[c]
        j == page[c] \div PAGES_IN_PT
        i == page[c] % PAGES_IN_PT
    IN  /\ Running(c) /\ pc[c] = "alloc" /\ pagedir[s][j] # 0
        /\ \E f \in Frames \union {BadFrame} :
            /\ FrameAlloc(f, bitmap)
            /\ bitmap' = Allocated({f})
            /\ pte' = Mapped({f}, pagedir[s][j], i, f)
            /\ image' = ZeroedImage({f})
        /\ NextPage(c)
        /\ UNCHANGED <<slots, cpu, prog, child, saved, olddir, colors, sys>>

\* paging_alloc takes a frame for the page, then one for its page table, which
\* it records in the page directory and in page_tables.
PagingAllocTable(c) ==
    LET s == child[c]
        j == page[c] \div PAGES_IN_PT
        i == page[c] % PAGES_IN_PT
    IN  /\ Running(c) /\ pc[c] = "alloc" /\ pagedir[s][j] = 0
        /\ \E f \in Frames, t \in Frames :
            /\ FrameAlloc(f, bitmap)
            /\ FrameAlloc(t, Allocated({f}))
            /\ bitmap' = Allocated({f, t})
            /\ pte' = Mapped({f, t}, t, i, f)
            /\ image' = ZeroedImage({f, t})
            /\ pagedir' = [pagedir EXCEPT ![s][j] = t]
            /\ page_tables' = [page_tables EXCEPT ![s][j] = t]
        /\ NextPage(c)
        /\ UNCHANGED <<in_use, cpu, prog, child, saved, olddir, colors, sys>>

\* An exception raised by kernel code.  When a task is current the handler
\* overwrites the kernel instruction at eip with an iret; in the initial TSS it
\* reads the task through a null pointer and may do the same or panic.
KernelException(c) ==
    IF c = KERNEL THEN sys' \in {"panic", "wild"} ELSE sys' = "wild"

\* No frame is left for the page table: mmap_page writes the entry at
\* 0xFFFFFFFF, an unmapped address.
PagingAllocFails(c) ==
    LET j == page[c] \div PAGES_IN_PT
    IN  /\ Running(c) /\ pc[c] = "alloc" /\ pagedir[child[c]][j] = 0
        /\ \E f \in Frames \union {BadFrame} :
            /\ FrameAlloc(f, bitmap)
            /\ FrameAlloc(BadFrame, Allocated({f}))
            /\ bitmap' = Allocated({f})
            /\ image' = ZeroedImage({f})
            /\ pte' = [g \in Frames |-> IF g = f THEN ZeroFrame ELSE pte[g]]
        /\ pagedir' = [pagedir EXCEPT ![child[c]][j] = BadFrame]
        /\ KernelException(c)
        /\ UNCHANGED <<in_use, page_tables, cpu, pc, locals, colors>>

\* Variant: task_load copies before it loads the new page directory.
CopyImageEarly(c) ==
    /\ Running(c) /\ pc[c] = "copy"
    /\ olddir' = [olddir EXCEPT ![c] = cr3]
    /\ cr3' = child[c]
    /\ image' = [f \in Frames |->
                    IF /\ cr3 \in Slots
                       /\ \E v \in 0 .. Image[prog[c]] - 1 : EntryOf(cr3, v).frame = f
                    THEN prog[c] ELSE image[f]]
    /\ pc' = [pc EXCEPT ![c] = "restore"]
    /\ UNCHANGED <<bitmap, pte, slots, busy, link, tr, prog, child, page, saved, colors, sys>>

\* task_load switches to the address space of the new task and copies the
\* image and the arguments to their virtual addresses.
CopyImage(c) ==
    /\ Running(c) /\ pc[c] = "copy"
    /\ olddir' = [olddir EXCEPT ![c] = cr3]
    /\ cr3' = child[c]
    /\ image' = [f \in Frames |->
                    IF \E v \in 0 .. Image[prog[c]] - 1 : EntryOf(child[c], v).frame = f
                    THEN prog[c] ELSE image[f]]
    /\ pc' = [pc EXCEPT ![c] = "restore"]
    /\ UNCHANGED <<bitmap, pte, slots, busy, link, tr, prog, child, page, saved, colors, sys>>

\* Variant: task_load stays in the address space of the new task.
KeepPagedir(c) ==
    /\ Running(c) /\ pc[c] = "restore"
    /\ pc' = [pc EXCEPT ![c] = "switch"]
    /\ UNCHANGED <<memory, slots, cpu, locals, colors, sys>>

\* task_load goes back to the address space it came from.
RestorePagedir(c) ==
    /\ Running(c) /\ pc[c] = "restore"
    /\ cr3' = olddir[c]
    /\ pc' = [pc EXCEPT ![c] = "switch"]
    /\ UNCHANGED <<memory, slots, busy, link, tr, locals, colors, sys>>

\* task_exec saves the colours and calls the TSS of the new task: the processor
\* saves the caller, links the new TSS to it and marks it busy.
TaskSwitch(c) ==
    LET s == child[c]
    IN  /\ Running(c) /\ pc[c] = "switch" /\ ~busy[s]
        /\ saved' = [saved EXCEPT ![c] = colors]
        /\ busy' = [busy EXCEPT ![s] = TRUE]
        /\ link' = [link EXCEPT ![s] = c]
        /\ tr' = s
        /\ cr3' = s
        /\ pc' = [pc EXCEPT ![c] = "wait", ![s] = "user"]
        /\ UNCHANGED <<memory, slots, prog, child, page, olddir, colors, sys>>

\* Variant: task_free leaves the slot in use.
TaskFreeInUse(c) ==
    LET s == child[c]
    IN  /\ Running(c) /\ pc[c] = "free"
        /\ colors' = saved[c]
        /\ bitmap' = bitmap \ FreedFrames(s)
        /\ pte' = ClearedTables(s)
        /\ ExecReturns(c)
        /\ UNCHANGED <<image, slots, cpu, locals>>

\* Variant: task_exec does not restore the colours.
TaskFreeKeepsColors(c) ==
    LET s == child[c]
    IN  /\ Running(c) /\ pc[c] = "free"
        /\ bitmap' = bitmap \ FreedFrames(s)
        /\ pte' = ClearedTables(s)
        /\ in_use' = [in_use EXCEPT ![s] = FALSE]
        /\ ExecReturns(c)
        /\ UNCHANGED <<image, pagedir, page_tables, cpu, locals, colors>>

\* Back from the call: task_exec restores the colours, frees the task, returns.
TaskFree(c) ==
    LET s == child[c]
    IN  /\ Running(c) /\ pc[c] = "free"
        /\ colors' = saved[c]
        /\ bitmap' = bitmap \ FreedFrames(s)
        /\ pte' = ClearedTables(s)
        /\ in_use' = [in_use EXCEPT ![s] = FALSE]
        /\ ExecReturns(c)
        /\ UNCHANGED <<image, pagedir, page_tables, cpu, locals>>

---------------------------------------------------------------------------
(* The end of a faulty application.                                        *)

\* Variant: the handler does not patch the faulty instruction.
ExceptionHandlerIgnores(c) ==
    /\ Running(c) /\ pc[c] = "fault_own"
    /\ pc' = [pc EXCEPT ![c] = "unpatched"]
    /\ UNCHANGED <<memory, slots, cpu, locals, colors, sys>>

\* The instruction at eip becomes an iret ("Task terminated" is printed).
ExceptionHandler(c) ==
    /\ Running(c) /\ pc[c] = "fault_own"
    /\ pc' = [pc EXCEPT ![c] = "patched"]
    /\ UNCHANGED <<memory, slots, cpu, locals, colors, sys>>

\* The application executes the iret it was given.
PatchedIret(c) == Running(c) /\ c \in Slots /\ pc[c] = "patched" /\ TaskReturn(c)

\* There is no RAM at eip: the write is lost.  "Task terminated" is printed, and
\* the application goes on with the instruction that faulted ...
ExceptionHandlerInLostPage(c) ==
    /\ Running(c) /\ pc[c] = "fault_lost"
    /\ pc' = [pc EXCEPT ![c] = "unpatched"]
    /\ UNCHANGED <<memory, slots, cpu, locals, colors, sys>>

\* eip is in a page user code may not access, which maps the kernel, its tables,
\* the memory of any task, a free frame or the framebuffer: the handler overwrites
\* a byte there, which may matter or not.  "Task terminated" is printed, but the
\* application cannot execute the iret ...
ExceptionHandlerInKernelPage(c) ==
    /\ Running(c) /\ pc[c] = "fault_kernel"
    /\ pc' = [pc EXCEPT ![c] = "resumed"]
    /\ sys' \in {"up", "corrupt"}
    /\ UNCHANGED <<memory, slots, cpu, locals, colors>>

\* ... and in both cases faults on the same instruction again.
FaultAgain(c) ==
    /\ Running(c)
    /\ \/ pc[c] = "unpatched" /\ pc' = [pc EXCEPT ![c] = "fault_lost"]
       \/ pc[c] = "resumed" /\ pc' = [pc EXCEPT ![c] = "fault_kernel"]
    /\ UNCHANGED <<memory, slots, cpu, locals, colors, sys>>

\* eip is not mapped: the handler's own write raises an exception, this time
\* in kernel code.
ExceptionHandlerFaults(c) ==
    /\ Running(c) /\ pc[c] = "fault_unmapped"
    /\ KernelException(c)
    /\ UNCHANGED <<memory, slots, cpu, pc, locals, colors>>

\* The machine is halted, or no longer runs this program.
Stopped == sys # "up" /\ UNCHANGED vars

---------------------------------------------------------------------------
UserStep(c) ==
    \/ \E n \in Names : Exec(c, n)
    \/ \E col \in Colors : SetColors(c, col)
    \/ \E where \in FaultPcs : Fault(c, where)
    \/ Exit(c)

KernelStep(c) ==
    \/ TaskLoadFails(c) \/ TaskCreate(c)
    \/ PagingAlloc(c) \/ PagingAllocTable(c) \/ PagingAllocFails(c)
    \/ CopyImage(c) \/ RestorePagedir(c) \/ TaskSwitch(c) \/ TaskFree(c)
    \/ ExceptionHandler(c) \/ PatchedIret(c) \/ ExceptionHandlerInLostPage(c)
    \/ ExceptionHandlerInKernelPage(c) \/ FaultAgain(c) \/ ExceptionHandlerFaults(c)

Next == Stopped \/ \E c \in Contexts : UserStep(c) \/ KernelStep(c)

\* The processor keeps executing: kernel code always takes its next step, and
\* a faulty application is resumed by its handler.  Nothing makes an
\* application end, fault or call the system.
Fairness == WF_vars(\E c \in Contexts : KernelStep(c))

Spec == Init /\ [][Next]_vars /\ Fairness
---------------------------------------------------------------------------
(* Properties.                                                             *)

EntryType == [frame : 0 .. NumFrames - 1, present : BOOLEAN]
             \union [frame : {BadFrame}, present : BOOLEAN]
TableType == [PdeIdx -> Frames \union {BadFrame}]

\* Every variable has its type.  The frame numbers of entries and directories
\* are frames of RAM, or the error value that paging_alloc does not test for.
TypeOK ==
    /\ bitmap \subseteq Frames
    /\ pte \in [Frames -> [PteIdx -> EntryType]]
    /\ image \in [Frames -> Modules \union {NoImage}]
    /\ in_use \in [Slots -> BOOLEAN]
    /\ pagedir \in [Slots -> TableType]
    /\ page_tables \in [Slots -> TableType]
    /\ busy \in [Contexts -> BOOLEAN]
    /\ link \in [Slots -> Contexts \union {NoTask}]
    /\ tr \in Contexts
    /\ cr3 \in Contexts
    /\ pc \in [Contexts -> PcValues]
    /\ prog \in [Contexts -> Names]
    /\ child \in [Contexts -> Slots \union {NoTask}]
    /\ page \in [Contexts -> Nat]
    /\ saved \in [Contexts -> Colors]
    /\ olddir \in [Contexts -> Contexts]
    /\ colors \in Colors
    /\ sys \in {"up", "halted", "panic", "wild", "corrupt"}

\* Entry i of table j of slot s maps a page to a frame of RAM.
HasTable(s, j) == pagedir[s][j] \in Frames \ {0}
MapsPage(s, j, i) ==
    /\ HasTable(s, j)
    /\ pte[pagedir[s][j]][i].present
    /\ pte[pagedir[s][j]][i].frame \in Frames
PageFrame(s, j, i) == pte[pagedir[s][j]][i].frame

TablesOf(s) == {f \in Frames \ {0} : \E j \in PdeIdx : pagedir[s][j] = f}
PagesOf(s) ==
    {f \in Frames : \E j \in PdeIdx, i \in PteIdx : MapsPage(s, j, i) /\ PageFrame(s, j, i) = f}

LiveFrames == UNION {TablesOf(s) \union PagesOf(s) : s \in {t \in Slots : in_use[t]}}

\* Tables of tasks that ended: task_free cleared their first entry and no slot
\* in use points to them.
Abandoned == {f \in Frames : pte[f][0].frame # 0 /\ ~pte[f][0].present}

\* Every page table of a task that exists is a frame of its own: allocated, not
\* the kernel's, and the table of no other directory entry (task.c:126-140 with
\* paging_alloc: no frame of a live task is ever given back or given twice).
TablesIsolated ==
    \A s \in Slots, j \in PdeIdx : in_use[s] /\ HasTable(s, j) =>
        /\ pagedir[s][j] \in bitmap \ Reserved
        /\ \A t \in Slots, k \in PdeIdx :
            in_use[t] /\ pagedir[t][k] = pagedir[s][j] => t = s /\ k = j

\* So is every page: allocated, not the kernel's, not the page table of any
\* task, and mapped by no other entry of any task.
PagesIsolated ==
    \A s \in Slots, j \in PdeIdx, i \in PteIdx : in_use[s] /\ MapsPage(s, j, i) =>
        /\ PageFrame(s, j, i) \in bitmap \ Reserved
        /\ \A t \in Slots, k \in PdeIdx : in_use[t] =>
            /\ pagedir[t][k] # PageFrame(s, j, i)
            /\ \A l \in PteIdx :
                MapsPage(t, k, l) /\ PageFrame(t, k, l) = PageFrame(s, j, i)
                    => t = s /\ k = j /\ l = i

\* The address spaces of the tasks that exist are disjoint from each other and
\* from the kernel's frames, whatever was created and freed before.
FrameIsolation == TablesIsolated /\ PagesIsolated

\* Nothing else is allocated: the bitmap holds the kernel's frames, those of the
\* tasks that exist, and the page tables task_free left behind (task.c:138 frees
\* the first page of the table a second time in place of the table).
BitmapAccounted ==
    sys = "up" =>
        bitmap = Reserved \union Abandoned \union LiveFrames

\* The image copied for a task stays in its memory until the task ends: no later
\* copy, made in the address space of another task, reaches it (task.c:221-234).
ImageIntact ==
    \A c \in Contexts : pc[c] \in {"restore", "switch", "wait"} =>
        \A v \in 0 .. Image[prog[c]] - 1 :
            LET f == EntryOf(child[c], v).frame
            IN  f \in Frames => image[f] = prog[c]

\* The TSS links form one chain of calls: exactly the contexts suspended in
\* task_exec and the running one are busy, and a busy slot is linked to the
\* context that waits for it (task_asm.s:27-33, entrypoint_asm.s:11-12).
CallChain ==
    /\ busy[KERNEL] /\ busy[tr]
    /\ \A c \in Contexts : c # tr => (busy[c] <=> pc[c] = "wait")
    /\ \A s \in Slots : busy[s] =>
        link[s] \in Contexts /\ pc[link[s]] = "wait" /\ child[link[s]] = s

\* A slot is in use exactly while one task_exec holds it (task.c:48-58, 143).
Holds(c, s) == child[c] = s /\ pc[c] \in ExecPcs \ {"load"}
SlotsAccounted ==
    /\ \A s \in Slots : in_use[s] <=> \E c \in Contexts : Holds(c, s)
    /\ \A s \in Slots, c, d \in Contexts : Holds(c, s) /\ Holds(d, s) => c = d

\* Code runs in the address space of its own context, except while task_load
\* copies the image of a new task (task.c:221-234 and the switch of CR3).
AddressSpace ==
    sys = "up" => cr3 = IF pc[tr] = "restore" THEN child[tr] ELSE tr

\* task_exec refuses a module that exists only when MAX_TASK_COUNT tasks are
\* nested at that moment: no slot is lost (task.c:183-186, 239-244).
RefusalJustified ==
    [][\A c \in Contexts :
          pc[c] = "load" /\ pc'[c] \notin {"load", "alloc"} /\ prog[c] \in Modules
              => \A s \in Slots : busy[s]]_vars

\* A task_exec that starts either runs its application or returns, unless the
\* kernel itself faults: the loader always ends.
ExecDecides ==
    \A c \in Contexts : pc[c] = "load" ~> pc[c] \in {"wait", "user"} \/ sys # "up"

\* A task that faults in a page of its own which a frame of RAM backs ends and its
\* slot is freed, however deep it is nested (idt.c:157-160).  In other pages the
\* iret of the handler is never executed: see FaultAgain.
FaultedTaskFreed == \A s \in Slots : pc[s] = "fault_own" ~> ~in_use[s]

---------------------------------------------------------------------------
(* task_exec as a nested procedure call.  The contexts inside a call, from  *)
(* the kernel to the innermost caller, are found along their children.     *)

Callers == {c \in Contexts : pc[c] \in {"wait", "free"}}
CallerAt[n \in 1 .. MAX_TASK_COUNT] == IF n = 1 THEN KERNEL ELSE child[CallerAt[n - 1]]
CallStack ==
    [n \in 1 .. Cardinality(Callers) |->
        [prog |-> prog[CallerAt[n]], cols |-> saved[CallerAt[n]]]]

Calls == INSTANCE ExecStack WITH stack <- CallStack

\* Applications nest as procedure calls do: the end of one resumes the one that
\* executed it, with the colours of that moment, and at most MAX_TASK_COUNT
\* are nested (task.c:241-251).
NestedCalls == Calls!Spec

---------------------------------------------------------------------------
(* What comments and messages of the source say, and the code does not do. *)

\* task.c:115-117: task_free frees every frame allocated for a page and every
\* frame allocated for a page table; so only the tasks that exist hold frames.
TablesReturned ==
    sys = "up" => bitmap = Reserved \union LiveFrames

\* task.c:26-28: task_create allocates the address space of the task, and
\* returns NULL if it failed; so every page of a task that runs is a frame.
TaskBackedByFrames ==
    \A c \in Contexts : pc[c] = "wait" =>
        \A v \in 0 .. Size(c) - 1 : EntryOf(child[c], v).frame \in Frames

\* idt.c:161-166: an exception triggered by kernel code is a kernel panic, which
\* stops the machine.
KernelFaultsPanic == sys # "wild"
=============================================================================
