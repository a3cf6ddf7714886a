# Verification of YoctOS

TLA+ specifications of YoctOS, the small x86 operating system in `src/yoctos`,
model-checked with TLC and proved with TLAPS. YoctOS boots from GRUB, loads
applications as boot modules, runs one application at a time in an address space of
its own through hardware task switching, and gives it system calls for the terminal,
the keyboard, the timer, the framebuffer and for executing another application.

Paths below are relative to `src/yoctos`.

## 1. Inventory of the system

| Component | State it keeps | Operations | Interacts with |
|---|---|---|---|
| Task subsystem (`kernel/task`) | 8 task slots (`tasks[]`): page directory, pointers to page tables, TSS, `in_use`; the initial TSS | `task_exec` = `task_load` (`task_create`, copy of the image), `task_switch`, `task_free`; `get_task_by_selector` | GDT (one TSS descriptor per slot), paging, modules, terminal colours; called by system call 7 and `kernel_main` |
| Paging and frames (`kernel/mem`, objects only) | bitmap of frames, page directories and tables, CR3 | `frame_alloc`, `frame_free`, `paging_alloc`, `paging_load_pagedir` | tasks |
| GDT (`kernel/mem/gdt.c`) | descriptors; the busy bit of each TSS | `gdt_init`, `gdt_make_tss`, `gdt_entry_to_selector` | tasks; the processor at every far call, interrupt and `iret` |
| IDT (`kernel/interrupt`) | gates, IRQ handlers | exception and IRQ wrappers, `exception_handler`, `irq_handler` | every interrupted context; PIC, drivers, tasks |
| PIC (`kernel/drivers/pic.c`) | requests and levels in service | `pic_init`, `pic_eoi` | IDT |
| Keyboard, timer (`kernel/drivers`, objects only) | ring of 16 keys with `buf_space_left`; tick counter | IRQ handlers, `keyb_get_key`, `timer_sleep` | IDT (written by handlers), system calls (read) |
| System calls (`kernel/syscall`) | none | `int 48`, dispatch on a number | all of the above |
| Formatted output (`common/stdio.c`) | none (locals) | `vsnprintf` | `term_printf`, `printf` |
| Strings (`common/string.c`, `mem.c`), modules (`kernel/boot`) | none; list of modules | comparison, copy, lookup by name | tasks, shell |
| User library and shell (`user`) | line buffer | `read_string`, command loop, `exit` by `iret` | system calls |
| Terminal, framebuffer, font, keymaps, logo, port I/O | pixels, tables | drawing | printing |

What is hard here, and what makes each component correct:

* **Tasks.** Execs nest (shell in shell), each level suspended inside a hardware call,
  and slots, frames and page tables are used again and again; memory runs out in the
  middle of a load; a faulty task is ended by overwriting its instruction with an
  `iret`. Correct means: address spaces never share a frame, a return resumes the
  context that made the call, a slot is lost by no history, loading always decides.
* **Interrupts.** System calls run with interrupts enabled and share the key buffer and
  the tick counter with handlers. Correct means: no handler nests, none is lost, keys
  stay in order, polling loops end.
* **Formatting.** Truncation, the least int, zero, the terminal 0.
* **Shell and strings.** A line is edited, then cut and changed in place in a buffer whose
  bound nothing tests. Correct means: what is executed is what was typed, nothing of an
  earlier line is ever read, no command leaves the shell stuck.
* **Entry and exit.** Registers, segments, flags and error codes are saved and restored by
  hand-written assembly around C code, tasks are started by a far call and end by an `iret`
  that needs the NT flag and a link. Correct means: whatever was interrupted goes on in the
  state it was left in, C code finds its arguments, and no selector, gate or TSS is ever one the
  processor refuses.
* **Task image.** Arguments are copied twice, through an array of fixed size on the kernel's stack
  that nothing checks. Correct means: what fits arrives, and what is said to fit does.

The list of hazards with their lines is in `PROJECT.json`.

## 2. Modules

| Module | What it is |
|---|---|
| `Control` | abstract specification: a stack of activations (main code, applications, system calls, handlers) |
| `Descriptors` | the entries of the GDT and of the IDT, field by field, and what the processor reads from them |
| `Machine` | boot, ISR wrappers, system call handler and stub, TSSs and task switch on a processor with registers, stacks and checks; the refinement of `Control` |
| `MachineProof` | theorems about `Machine`, and those about `Descriptors` they rest on |
| `MachineNestingProof` | the theorem that `Machine` implements `Control` |
| `MCMachine` | instance of `Machine`: the addresses of the kernel that is built |
| `Arguments` | the arguments of a task: `strncpy`, `tmp_argv`, sizes, stack pointer and allocation |
| `ArgumentsProof` | theorems about `Arguments` |
| `ExecStack` | abstract specification: executing applications as nested procedure calls |
| `Tasks` | task subsystem, frame allocator, page tables, task switch, exception handler; the properties and the refinement of `ExecStack` |
| `MCTasks` | instance of `Tasks` for TLC |
| `TasksProof` | theorems about `Tasks`: types, chain of calls, slots, address space of the running code, and that `Tasks` implements `ExecStack` (safety part) |
| `TasksMemoryProof` | theorems about `Tasks`: frames, bitmap, images |
| `Stdio` | `vsnprintf` and `printint_rev`, one action per step of their loops |
| `MCStdio` | what a format prints, defined independently; instances for TLC |
| `StdioProof` | theorems about `Stdio` and `MCStdio`: types, bounds, what is printed |
| `Interrupts` | gates, PICs, IRQ dispatch, timer and keyboard handlers, polling system calls |
| `InterruptsProof` | theorems about `Interrupts` |
| `Shell` | line editor, string functions on its buffer, command loop, dispatch of system calls by number, search of a module |
| `ShellProof` | theorems about `Shell` and about the properties `MCShell` states |
| `MCShell` | what a typed line means, defined independently; instance for TLC |

A definition whose comment starts with "Variant:" is
a plausible mistake in the definition below it; it is not part of the specification.
For each checked property `PROJECT.json` names a variant that TLC finds to violate it.

### 2.1 Tasks

State. A *context* is a TSS: `KERNEL` (the initial one) or a slot. `tr`, `busy`, `link`
are the task register, the busy bits in the GDT and the previous-task-link fields;
`cr3` is the context whose directory is loaded; `bitmap`, `pte`, `image` are the frames
(allocated, contents as a page table, contents as part of an image); `in_use`,
`pagedir`, `page_tables` are the fields of `task_t`; `pc[c]` is the place of context `c`
in its user code, in `task_exec`, or in a fault, and `prog`, `child`, `page`, `saved`,
`olddir` are the locals of the `task_exec` it is in. `sys` tells whether the machine
runs, halted, panicked, is `wild` (an exception of kernel code overwrote kernel code), or is `corrupt`
(the exception handler of a task overwrote something outside the task); of the last two nothing more is said.

Actions and code: `Exec`/`SetColors` are the system calls; `TaskLoadFails` and
`TaskCreate` are the outcomes of `task_load` up to line 219; one `PagingAlloc`,
`PagingAllocTable` or `PagingAllocFails` per page of `paging_alloc`; `CopyImage` and
`RestorePagedir` are lines 221-234; `TaskSwitch` is the far call; `Exit` and
`PatchedIret` are the `iret` with NT set; `TaskFree` is the rest of `task_exec`
including all of `task_free`; `Fault`, `ExceptionHandler*` and `FaultAgain` are the
exception path, split by where `eip` points: in a page of the task that a frame of RAM backs (the
`iret` is written, and executed), in one mapped to 0xFFFFF because `paging_alloc` had found no frame (the write is
lost), in a page of the kernel (the write succeeds, whatever is there, but the task may not execute it), or in no page.
Where the page of a fault must exist, `Fault` asks for it in the page tables (`MapsTo`). Loading is split in steps although no other
code runs in between, because the steps are where memory runs out and where `cr3` changes.

Abstractions. Only the directory entries of the user area are kept (those of the template never
change). A module is its number of pages and of pages its image fills. A frame
number 0 is a null pointer (frame 0 is the kernel's). IRQs are left out: no handler
touches this state.

### 2.2 Stdio

A format is a sequence of directives with their arguments. `size`, `dest`, `count`,
`x`, `sign`, `buf` are the variables of the code (`Len(buf)` is `len`); ints are bit
patterns in `0..2*HALF-1`. `dest` holds everything that is written through it, on return the terminal 0 too
(`NUL`), which the code writes without looking at `size`. Writing `buf` past `size+1` elements leads to `overflow`, of
which nothing more is said. `EmitSpins` is the loop that no longer changes anything.

### 2.3 Interrupts

One processor executes the main code (`pc`) and a stack of handlers (`isrs`), and takes a
requested interrupt before its next instruction when `iflag` is set. `Gate` is the
table `idt_init` builds; `Requests`, `Ended` are the 8259s. `keyb_get_key` is split at the
instructions that touch shared variables (from the disassembly of
`kernel/drivers/keyboard.o`: the test, the read and advance, the load and the store of
`buf_space_left`); a handler runs with interrupts disabled and is one step after its
`cli`. `quiet` states the only assumption on time: the main code executes an instruction between two
interrupts of the same line. `unread`, `raced` and `slept` are history variables.

### 2.4 Shell

`at` is where the innermost shell is; `buf` is the array of `run` in `shell.c`, with
`pos` characters stored by `read_string`; `line` is the pointer `trim` returned, an index of `buf`;
`job` is the branch that was taken and its argument; `depth` counts the shells, of which only
the innermost has state (`Tasks` shows that memory is given back unchanged when a task
returns). `typed` is a history variable.

Actions and code: `TypeChar`, `TypeTab`, `TypeBackspace`, `TypeEnter` are the branches of
`read_string`, each with its echo through system call 8; `Trim` is `tolower(trim(buf))`
with its stores; `Command` is the chain of comparisons, `PrintCommand`, `SleepCommand`,
`ExitCommand`, `ExecCommand` their bodies; `ExecResult` is the test of the value
`task_exec` gives, which never prints (section 6).

Abstractions. When a line begins, `buf` holds `Stale`, which is no character and no terminal 0, so
that any use of what an earlier line left would show; once memory outside `buf`, or
`Stale`, is used, the shell is `lost` and nothing more is said of it. Keys without a character of
their own give the low byte of their code (`CharOf`). Words are sequences of letters, compared
as wholes. Every module has a command line (`Makefile:92`), so that `module_cmdline` never gives a null pointer. An application is a place where the shell waits (`Tasks` says what happens there).

### 2.5 Descriptors and Machine

`Descriptors` builds each entry with the operations of `build_entry` and `idt_build_entry` on
numbers, and reads it back with `Base`, `Limit`, `Offset` and the tests of the types, which are
those of the IA-32. The addresses of TSSs and handlers are constants; `MCMachine` gives those of
`kernel.elf`, so that every field is used.

State of `Machine`. `cpu` has the registers; `stack` the words of each stack (of `kernel_main`, of each
application, and the kernel's for each context); `gdt`, `idtr`, `tss`, `tr` what the processor reads;
`in_use` and `child` are those of `task_t` and `task_exec`; `patched` are the instructions that
`exception_handler` overwrote. A word carries its kind (selector, code address, flags, stack pointer,
register value of an owner), so that a word popped into a wrong place shows. `rejected` records a
#GP, #TS or a word of the wrong kind at a `pop` or `iret`; `taken` is a history of what was entered.

Actions and code. `GdtInit` ... `Sti`, `Halt` are the steps of `kernel_main`; `TaskCreate`, `TaskSwitch`,
`TaskFree` those of `task_exec`, in `kernel_main` and in system call 7. `IsrEnter` is the low-level
handler and the wrapper up to the call, `ExceptionHandler` and `IrqHandler` the C functions,
`IsrExit` the rest of the wrapper with its `iret`. `Syscall`, `Int48`, `SyscallReturns` are the stub of
the application, cut at `int 48`; `SyscallEnter` to `SyscallIret` the handler, cut where
an interrupt finds another state of the stack. `Fault`, `SoftInt` and `Exit` are what an application may do;
`AppIret` is the `iret` of `exit` or of `exception_handler`. `Deliver`, `InterruptReturn`, `CallFar` and
`TaskReturn` are the processor's operations that these use. The handler's five `pop ebx`, which its
comment calls `pop eax`, destroy `ebx`; it is the stub that restores it, which is why
`ResumesWhole` lets a system call change it.

Abstractions. Kernel code does not fault (`Tasks` says what then happens), memory runs out in `Tasks` only,
and page directories are not part of a TSS here. `quiet` lets one interrupt happen between two
instructions of the main code, as in `Interrupts`: handlers run with the flag cleared, so that more of them only
repeat the same entry and exit. The pushes or pops of a wrapper are one step, cut only where code that runs with
interrupts enabled finds another state of the stack: an interrupt comes between the steps of the model, not
between any two machine instructions.

### 2.6 Arguments

One action per iteration of the two loops of `task_load`. A byte of argument `k` is the number `k + 1`:
characters are never compared, only where they end up and where a terminal 0 stands. `tmp` is
`tmp_argv` and one byte more, the low byte of the local variable `len`, which lies behind the array in
`kernel.elf` and is overwritten by a terminal there *before the code uses it as an index*. What is
written further on hits the other locals and the return address; the model ends there in
`overrun`. A negative `argc`, which no caller passes, is left out.

## 3. Runs

| Run | Shows | Bounds |
|---|---|---|
| `tasks_nested` | isolation of frames, what is allocated, images intact, chain of TSS links, slots, address space of the running code, refusals, loading decides, tasks that fault in a page backed by RAM end, and that `task_exec` implements `ExecStack` | 3 slots, 2x2 pages, 12 frames |
| `stdio_format` | output equals the independent definition, truncated; no overflow for numbers that fit; it returns unless a number is cut | 6-bit ints, 2 directives, sizes 0-7 |
| `interrupts_polling` | handlers do not nest, keys in order, counter in range, no early wake-up, every request served, scan codes read, system calls return | buffer of 2, 2 keys, counter of 3 ticks, lines 0, 1, 12 |
| `shell_lines` | the command is the one the line means, the echo shows the line, the buffer is left only by lines that do not fit, the prompt comes back | buffer of 5, lines of 4 keys, tabs of 2, 2 tasks, numbers modulo 8, words of 1 or 2 letters |
| `tasks_leak`, `tasks_backing`, `tasks_kernelfault` | what comments and messages say and the code does not do (section 6) | as above |
| `stdio_returns`, `stdio_bounded` | the sentences of `stdio.h` that do not hold | as above |
| `machine_nested` | no protection fault in kernel code, interrupted states resumed whole, arguments of C handlers, privilege, stack and segments of all code, ending tasks freed, and that the entry code implements `Control` | 3 slots, IRQs 0 and 12, exceptions 6 and 14, `int 33` and `int 77` |
| `arguments_image` | which arguments arrive (exactly), when memory behind the array is touched, room for the stack | rows of 3 bytes, 3 rows, 4 arguments of up to 10 characters |
| `interrupts_lostkey` | the sentence of `keyboard.h` that does not hold | as above |

Why the bounds are enough. *Tasks*: three slots give a running, a suspended and a free one,
nesting of depth three and a refusal; the shell needs two page tables and the application one; with 12
frames all three fit once (1+5+3+3), and because each ended task leaves its tables behind,
later loads run out of memory at a page and at a page table. *Stdio*: 6-bit ints have one and two
digits in both bases and a least int; sizes go from 0 to more than two numbers need. *Interrupts*:
a buffer of two is empty, partly full and full; the counter wraps around during a sleep; line
12 exercises the cascade. *Shell*: four keys give lines that are empty, blank, padded on
either side, edited below their beginning, equal to each word and to a prefix of one, of exactly the
size of the buffer (tabs count double) and longer; two ones are 11, which is beyond 8; two tasks
give a nested shell and a refusal. *Machine*: three nested tasks, each inside a system call of the one
before, make links, busy bits and three suspended kernel stacks; exception 6 has no error code and 14
has one, 33 is a gate of the kernel's privilege and 77 none, 12 is a line of the slave; an interrupt may come
before every step of the main code that has the flag set. *Arguments*: lengths around one, two and three rows, a full last row, and
one argument too many; `len`, at most 11, stays in its low byte. The stack of 40 bytes is small enough to be
reached by a wrong sum and large enough for `ArgumentsAssumption`, which asks that
`MAX_ARGS + 1` strings, each as long as the whole array, fit in the stack: in `task.h` that is 1506 of 2097152 bytes.

The runs of `Shell` do not look for deadlocks: the machine halts when the outermost shell exits, and a
`lost` shell has no step. Nor does `machine_nested` (`hlt` with interrupts disabled) or `arguments_image`
(`task_load` returns).

### Fairness

*Tasks*: weak fairness of `KernelStep`: the processor executes kernel code and resumes a task after
its exception. Nothing forces an application to end, fault or call.
*Stdio*: weak fairness of the function's steps.
*Interrupts*: weak fairness of `Processor` (kernel code and the taking of interrupts) and of `Tick` (the
timer is programmed before `sti`). Keys and applications are not forced.
*Machine*: weak fairness of `Running`: the processor executes the next instruction of kernel code and of the
application's stub, start and end. No application has to call, fault or exit, and no line is ever raised.
*Shell*: weak fairness of `ShellStep`, the shell's code outside `read_string`. Nobody has to type, and an
application need not end.

## 4. Theorems

TLAPS proves these for all values of the constants that satisfy the named assumptions
(`SizesAssumption`, `ModulesAssumption`, `StdioAssumption`, `InterruptsAssumption`, `AddressAssumption`,
`ShellAssumption`, `ArgumentsAssumption`).

* `TypeCorrect`, `CallChainCorrect`, `SlotsCorrect`, `RefusalsJustified` (`TasksProof`).
  `CallChain` is not inductive: that a returning task finds its caller waiting needs the
  slots (each held by one `task_exec`) and the places of all contexts. The invariant
  `ControlInv` joins the types, the chain, the slots, and who may be where; each
  group of actions keeps it by one lemma (`CreateControl`, `SwitchControl`,
  `ReturnControl`, `FreeControl`, ...). `RefusalsJustified` is an action property that
  follows from it: slots in use are held, holders wait, so a full table means every slot is
  in the chain.
* `FramesIsolated`, `BitmapIsAccounted`, `ImagesIntact` (`TasksMemoryProof`): the inductive invariant
  `MemoryInv` adds that the kernel's frames stay allocated and that the recorded page tables are those of
  the directory. `FrameAlloc` returns a frame that is not in the bitmap, all frames of live tasks are in it, and
  `task_free` gives back only frames of the task that ends. That the bitmap is *exactly* the frames of the kernel,
  of live tasks and of the tables that were never given back needs what `paging_alloc` has mapped when it
  is half done: all pages below `page`, none from there on, so that `task_free`, which walks the pages of the
  module, meets every one. The image of a task is then intact because no other task has its frames.
* `AddressSpaceCorrect` (`TasksProof`): `task_load` ends in its own address space only because
  the page directory it saved is its own, so `SpaceInv` adds that (`SavedPagedir`); the steps then
  either stay in the current context, or switch to a TSS and with it to its page directory.
* `CallsNest` (`TasksProof`): every step of `Tasks` is one of `ExecStack`, or changes nothing there. The stack of
  the abstract specification is the walk along the children that `task_exec` waits for, from `KERNEL`; that the walk
  ends at the running context, and that a call lengthens it by one and a return shortens it, is an induction on the
  distance. The prover cannot instantiate an induction theorem over a predicate, so one lemma states
  it over sets, from the well-foundedness of the naturals, and another gives the existence of the recursive functions.
* `ShellInvariant`, `ShellTypeCorrect`, `ScreenShowsLine`, `LossIsJustified` (`ShellProof`): `LineStored` says that the
  screen shows what was typed so far, that `buf` holds it, that `pos` is its length, and that
  `read_string` ends it with a terminal 0; then no function on the line passes that terminal, and only a line that
  does not fit makes the shell `lost`.
* `CommandMeantCorrect` (`ShellProof`): `LineMeant` adds that at the command the word in memory is the trimmed line in lower
  case. `HoldsAt` says that a string is at an address; `HeldTrimmed`, `HeldLower` and `HeldRest` show what `trim`, `tolower`
  and stepping over `sleep ` make of it. The meaning is a `CHOOSE` among the parts of the line: `OneTrimmed` shows that
  only one part has no blanks around it. `atoi` drops the multiples of 2^32 after every digit, `Number` once at the end
  (`OneMoreDigit`, `ValuesOfDecimals`, an induction over a set). That no word of the shell shadows another comes from
  `ShellAssumption` (`WordsDiffer`, `StartsWith`).
* `ArgumentsInvariant`, `ArgumentsTypeCorrect`, `OverrunIsJustified`, `StackHasRoom` (`ArgumentsProof`): `RowsWritten` and
  `InPlace` say what is in `tmp_argv` while it is filled, and that later copies never destroy an argument that fits; so
  `strlen` always finds a terminal, in the row or in what lies behind the array, and the sum of the sizes is bounded by the
  size of the rows, which is far below the stack.
* `ArgumentsArriveCorrect` (`ArgumentsProof`), in both directions. Arguments that fit: `InPlace` gives every byte of argument `k`,
  later rows and the terminals behind `len` included, and `Arrived` says that the strings copied so far are the caller's.
  Arguments that do not fit: one that fills its row runs into the next or is cut by its own second terminal
  (`InPlaceFits`), one too many has its first character replaced by the terminal written behind `len` (`Beheaded`); either way
  the copies differ from the caller's strings at some byte, and later pieces are only appended.
* `StdioTypeCorrect`, `WritesAreCounted` (`StdioProof`): the room left and the characters
  written always add up to the size that was given; the macro `putc` keeps this, and `Return` adds the terminal 0
  behind them, so that an array of `size+1` characters is always large enough.
* `ProgressInvariant`, `OutputIsFormatted`, `OverflowIsJustified` (`StdioProof`): `Formatted` speaks of whole formats, so
  `Progress` says at every point of the code how much of the current directive is printed: what fits of the directives before
  it (`Scanning`), a beginning `p` of a string with the rest in `str` (`PrintingString`), a number of which `x` has the
  leading digits and `buf` the others in reverse (`MoreDigits`, `NoMoreDigits`), and `dest` followed by the digits left, or
  the endless loop (`PrintingNumber`). A digit that moves from `x` to `buf` leaves the numeral as it is (`ReverseAppend`,
  `NumeralUnfold`), `putc` keeps exactly what fits (`CutAppend`), and a `buf` that is full at a digit or the sign holds
  part of a text longer than the destination. TLC found `Progress` to hold on the instance of `stdio_format`
  (with a bounded choice of `p`). `Numerals` and `Expansions` are recursive functions; that they exist
  (`NumbersExist`, `TextsExist`) and the types of their values are inductions over sets (`NatSetInduction`).
* `HandlersDoNotNest`, `BufferIsQueue`, `SpaceStaysInRange`, `SleepNeverShort`,
  `InterruptsTypeCorrect` (`InterruptsProof`), from one inductive invariant. `FlagInv`: the
  only handler on the stack runs with the flag cleared. `RingInv` adds to the queue
  that `write` is `Held` slots after `read`, that `keyb_get_key` past its test works on a
  buffer that is not full of space, and the range of the value it has loaded; two
  lemmas on indexes modulo the size of the buffer carry the steps. `SleepInv`: the ticks
  `timer_sleep` computes modulo the range of the counter are never more than there were.
* `BaseKept`, `LimitKept`, `OffsetKept`, `TaskFound` (`MachineProof`): a descriptor or gate that was built from
  any 32-bit base or address and 20-bit limit gives them back, by splitting numbers in halves and bytes
  (`Halves`, `Bytes`); selectors of slots are pairwise different and never that of the kernel.
* `MachineInvariant`, `ResumesWholeCorrect`, `NoProtectionFaultCorrect`, `HandlerSeesCorrect`, `EnvironmentCorrect`,
  `TypesCorrect` (`MachineProof`): none of these is inductive, because what an `iret` pops was pushed long before, by code
  that other activations interrupted since. The invariant `Inv` describes *every* activation, by the history `taken`:
  `Nested` (each was interrupted, or called, where its kind of code can be, with exactly the words of its
  frame, wrapper or stub on its stack: `MainState`, `UserState`, `SysState`, `HandlerState`), `Intact` (what a call left is
  in its TSS and on its stack, what an entry from an application left is on that application's stack, and the task link of
  the callee names the caller), `Separate` (no activation above a suspended one uses its stack or context), `Tables`
  (entries 1 to 4 of the GDT as built, busy TSSs exactly for contexts that call or run, `tr` the running one) and
  `Child` (the task `task_exec` is about to call has a fresh TSS and empty stacks); or the kernel is `Starting`. One lemma per kind
  of step: within an activation (`KeptStep`), beginning one by an interrupt (`EntryStep`) or a far call (`CallStep`), ending one
  by an `iret` to a frame (`LeaveStep`) or along a task link (`ReturnStep`). `PopsUndoPushes` carries the wrappers: words
  pushed in one order and popped in the opposite one come back to their registers. TLC found `Inv` to hold on the instance
  of `machine_nested` (`Word32` is beyond its integers, so no run names it).
* `NestedControlCorrect` (`MachineNestingProof`): `Machine` implements `Control`. `Activations` looks at the memory only: the
  code addresses on a context's kernel stack and its `eip`, then the TSS it is linked to, outwards to `KERNEL`. `Faithful`
  says that this is the history `taken` (`Hist`). It follows from `Inv` and from `Plain`, which the proof adds: no register holds a code
  address and the kernel stack of a running application is empty, so that on every stack exactly the return addresses that
  `taken` speaks of are addresses (`FrameCodes`, `SysCodes`), and each link leads to the activation that called (an induction
  on the number of links). `NullFirst` covers the boot, where `tr` is not loaded and the link read is that of the null
  descriptor. `NestingStep` shows for each step that it keeps `Plain` and that it leaves `taken` alone, adds one
  activation or takes the last one off (`Nests`); `FlowEnters` and `FlowLeaves` find the step of `Control` for the last two, from
  where `Nested` says that an activation may be entered. It uses that no TSS is at address 0 (`AddressAssumption`: the kernel
  is linked at 1M, `kernel.ld:5`).

Only model-checked: liveness under fairness (`ExecDecides`, `SyscallsReturn` and the like: TLAPS 1.4.5 has no
support for fairness or ENABLED).

## 5. Not modelled, and why

Drawing, fonts, keymaps, multiboot information and port I/O keep no state worth checking or
have no source; the terminal driver has no source. `paging_init`, `vbe_init` and `term_init` have none either.
The I/O bitmap of a TSS is never written after it was cleared (every port is open to applications).
`task_id` is only counted. The system calls for the framebuffer and `timer_info` only read. An application has
no way to its arguments: `get_args_count` and `get_args` return constants, and the calls 9 and 10 for the size and the
address of a task are refused by the bound of the dispatch (`syscall.c:119`), so that
`get_mod_size` returns an uninitialised value; nobody uses it. `app.ld` puts `.bss` last in a flat
binary, which leaves it out: variables there would overlap the arguments, and the applications keep
theirs in `.data` (`ld.h`). In `Tasks` the panic
branch of `exception_handler` is reached only when the kernel itself faults, which needs less
memory than the shell.

## 6. Where the program differs from what it says

* `task.c:138` frees the first page of a table twice and never the table (`tasks_leak`).
* `task.c:89` ignores that memory ran out (`tasks_backing`).
* `idt.c:157` treats exceptions of kernel code as the current task's (`tasks_kernelfault`).
* `idt.c:159-160` announces the end of a task also when the `iret` it writes is never executed: the page of `eip` has
  no RAM (`task.c:89`), or it is the kernel's. The task then faults again for ever
  (`FaultAgain` of `Tasks`; it has no run of its own).
* `stdio.c:106` writes the terminal 0 behind a destination of `size` characters when the text fills it
  (`stdio_bounded`; the bound that holds is `TerminatedAtCount`, a theorem). `stdio.c:75` loops for ever when a number
  does not fit (`stdio_returns`).
* `idt.c:220` lets a key arrive inside `keyb_get_key` (`interrupts_lostkey`).
* `ulibc.c:76`: `task_exec` returns no value and system call 7 drops the kernel's (`syscall.c:71`), so the shell
  never prints that executing failed (read off the code: `ExecResult` of `Shell` leaves the message out).

## 7. Plan

All modules of section 2 and the proofs of section 4 are done: every safety property that a passing run checks and the safety
part of both refinements are theorems. What is left are the liveness properties, for a version of the prover
that supports fairness, and the parts of section 5 if they come to keep state.
