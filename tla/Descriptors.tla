---------------------------- MODULE Descriptors ----------------------------
(***************************************************************************)
(* The tables the processor reads: the packed descriptors that the kernel  *)
(* builds for the GDT (mem/gdt.c) and the IDT (interrupt/idt.c), how the   *)
(* processor takes them apart again, and the selectors that name them.     *)
(*                                                                         *)
(* A word of 32 bits is a number; a bit field is a quotient and remainder. *)
(***************************************************************************)
EXTENDS Integers

CONSTANTS
    MAX_TASK_COUNT,     \* task slots (8 in task.h)
    TssAddress,         \* where the TSS of each context lies
    EntryAddress        \* where the low-level handler of each vector lies

KERNEL == -1            \* the initial TSS
Slots == 0 .. MAX_TASK_COUNT - 1
Contexts == Slots \union {KERNEL}

\* The vectors idt_init installs: exceptions, hardware interrupts, system call.
Exceptions == 0 .. 20
IRQ_REMAP_OFFSET == 32
IRQ_FIRST == 0
IRQ_LAST == 15
SYSCALL == 48
Installed == Exceptions \union (IRQ_REMAP_OFFSET + IRQ_FIRST .. IRQ_REMAP_OFFSET + IRQ_LAST)
             \union {SYSCALL}
INTERRUPT_COUNT == 256

\* The TSSs and the handlers are different places in the kernel's memory, whose
\* addresses have 32 bits; none of the TSSs is at address 0 (the kernel is linked at 1M).
ASSUME AddressAssumption ==
    /\ MAX_TASK_COUNT \in Nat \ {0}
    /\ TssAddress \in [Contexts -> Nat]
    /\ \A c \in Contexts : TssAddress[c] # 0 /\ TssAddress[c] \div 65536 < 65536
    /\ \A c \in Contexts, d \in Contexts : TssAddress[c] = TssAddress[d] => c = d
    /\ EntryAddress \in [Installed -> Nat]
    /\ \A n \in Installed : EntryAddress[n] \div 65536 < 65536
    /\ \A m \in Installed, n \in Installed : EntryAddress[m] = EntryAddress[n] => m = n

---------------------------------------------------------------------------
(* descriptors.h and gdt.h.                                                *)

DPL_USER   == 3
DPL_KERNEL == 0

TYPE_DATA_RW        == 3
TYPE_CODE_EXECONLY  == 9
TYPE_TSS            == 9
TYPE_TSS_BUSY       == 11       \* written by the processor
TYPE_INTERRUPT_GATE == 14
TYPE_TRAP_GATE      == 15

S_CODE_OR_DATA == 1
S_SYSTEM       == 0
DB_SEG == 1
DB_SYS == 0

KERNEL_TSS_INDEX == 5
GDT_KERNEL_CODE_SELECTOR == 8 + DPL_KERNEL
GDT_KERNEL_DATA_SELECTOR == 16 + DPL_KERNEL
GDT_USER_CODE_SELECTOR   == 24 + DPL_USER
GDT_USER_DATA_SELECTOR   == 32 + DPL_USER

GdtIndexes == 0 .. KERNEL_TSS_INDEX + MAX_TASK_COUNT

\* GDT_INDEX_TO_SELECTOR, and what the processor makes of a selector.
gdt_entry_to_selector(index) == index * 8
Index(selector) == selector \div 8
Rpl(selector) == selector % 4

\* gdt_initial_tss, and the entry of each slot from gdt_first_task_entry on.
TssIndex(c) == IF c = KERNEL THEN KERNEL_TSS_INDEX ELSE KERNEL_TSS_INDEX + 1 + c

Selector(c) == gdt_entry_to_selector(TssIndex(c))

\* get_task_by_selector: the slots whose entry has this selector.
TasksBySelector(selector) == {s \in Slots : Selector(s) = selector}

---------------------------------------------------------------------------
(* Segment and TSS descriptors.                                            *)

build_entry(base, limit, type, s, db, granularity, dpl) ==
    [lim15_0     |-> limit % 65536,
     base15_0    |-> base % 65536,
     base23_16   |-> (base \div 65536) % 256,
     type        |-> type,
     s           |-> s,
     dpl         |-> dpl,
     present     |-> 1,
     lim19_16    |-> (limit \div 65536) % 16,
     avl         |-> 0,
     l           |-> 0,
     db          |-> db,
     granularity |-> granularity,
     base31_24   |-> (base \div 16777216) % 256]

gdt_make_null_segment ==
    [lim15_0 |-> 0, base15_0 |-> 0, base23_16 |-> 0, type |-> 0, s |-> 0, dpl |-> 0,
     present |-> 0, lim19_16 |-> 0, avl |-> 0, l |-> 0, db |-> 0, granularity |-> 0,
     base31_24 |-> 0]

gdt_make_code_segment(base, limit, dpl) ==
    build_entry(base, limit, TYPE_CODE_EXECONLY, S_CODE_OR_DATA, DB_SEG, 1, dpl)

gdt_make_data_segment(base, limit, dpl) ==
    build_entry(base, limit, TYPE_DATA_RW, S_CODE_OR_DATA, DB_SEG, 1, dpl)

\* tss_t: 104 bytes and the I/O permission bitmap.
SizeofTss == 104 + 8192

gdt_make_tss(c, dpl) ==
    build_entry(TssAddress[c], SizeofTss - 1, TYPE_TSS, S_SYSTEM, DB_SYS, 0, dpl)

\* gdt_init; the entries of the TSSs come later.
gdt_init ==
    LET segment == <<gdt_make_code_segment(0, 1048575, DPL_KERNEL),
                     gdt_make_data_segment(0, 1048575, DPL_KERNEL),
                     gdt_make_code_segment(0, 1048575, DPL_USER),
                     gdt_make_data_segment(0, 1048575, DPL_USER)>>
    IN  [i \in GdtIndexes |-> IF i \in 1 .. 4 THEN segment[i] ELSE gdt_make_null_segment]

(* The processor's reading of a descriptor.                                *)

Base(d)  == d.base31_24 * 16777216 + d.base23_16 * 65536 + d.base15_0
Limit(d) == d.lim19_16 * 65536 + d.lim15_0

\* Base 0 and 2^20 pages: the segment is the whole memory.
Flat(d)     == Base(d) = 0 /\ Limit(d) = 1048575 /\ d.granularity = 1 /\ d.db = 1
IsCode(d)   == d.present = 1 /\ d.s = 1 /\ d.type \div 8 = 1
IsData(d)   == d.present = 1 /\ d.s = 1 /\ d.type \div 8 = 0 /\ (d.type \div 2) % 2 = 1
IsTss(d, type) == d.present = 1 /\ d.s = 0 /\ d.type = type /\ Limit(d) >= 103

---------------------------------------------------------------------------
(* Gates.                                                                  *)

idt_build_entry(selector, offset, type, dpl) ==
    [offset15_0  |-> offset % 65536,
     selector    |-> selector,
     reserved    |-> 0,
     type        |-> type,
     dpl         |-> dpl,
     p           |-> 1,
     offset31_16 |-> (offset \div 65536) % 65536]

NoGate == [offset15_0 |-> 0, selector |-> 0, reserved |-> 0, type |-> 0, dpl |-> 0,
           p |-> 0, offset31_16 |-> 0]

Offset(gate) == gate.offset31_16 * 65536 + gate.offset15_0

\* Variant: the gate of the system call is for the kernel only.
GateKernelOnly(n) ==
    IF n \notin Installed THEN NoGate
    ELSE idt_build_entry(GDT_KERNEL_CODE_SELECTOR, EntryAddress[n],
             IF n = SYSCALL THEN TYPE_TRAP_GATE ELSE TYPE_INTERRUPT_GATE, DPL_KERNEL)

\* idt_init.
Gate(n) ==
    IF n \notin Installed THEN NoGate
    ELSE IF n = SYSCALL
    THEN idt_build_entry(GDT_KERNEL_CODE_SELECTOR, EntryAddress[n], TYPE_TRAP_GATE, DPL_USER)
    ELSE idt_build_entry(GDT_KERNEL_CODE_SELECTOR, EntryAddress[n], TYPE_INTERRUPT_GATE, DPL_KERNEL)

idt == [n \in 0 .. INTERRUPT_COUNT - 1 |-> Gate(n)]
=============================================================================
