----------------------------- MODULE Arguments -----------------------------
(***************************************************************************)
(* The command-line arguments of a new task (task_load and task_create in  *)
(* task.c): they are copied to tmp_argv on the kernel stack, a row for     *)
(* each, while the caller's address space is loaded, and from there behind *)
(* the image in the address space of the new task.                         *)
(*                                                                         *)
(* A byte of argument k is the number k + 1, whatever its character, and 0 *)
(* is the terminal.  tmp is the memory from the start of tmp_argv; the     *)
(* byte after the array is, in the kernel that is built, the low byte of   *)
(* the local variable len (ebp-0x34 in kernel.elf), which the copy uses.   *)
(* A write further on hits the other locals and the return address: the    *)
(* model stops there.                                                      *)
(***************************************************************************)
EXTENDS Naturals, Sequences, FiniteSetsExt

CONSTANTS
    MAX_ARGS, MAX_ARGS_LENGTH,
    INT,            \* sizeof(int)
    STACK_SIZE,     \* TASK_STACK_SIZE_MB in bytes
    PAGE_SIZE,
    ModSizes,       \* sizes of the modules
    MaxArgc,        \* bound on argc
    MaxLength       \* bound on the length of an argument

ASSUME ArgumentsAssumption ==
    /\ {MAX_ARGS, MAX_ARGS_LENGTH, INT, STACK_SIZE, PAGE_SIZE} \subseteq Nat \ {0}
    /\ ModSizes \subseteq Nat /\ MaxArgc \in Nat /\ MaxLength \in Nat
    /\ MaxLength + 1 < 256      \* len fits in its low byte
    /\ MaxArgc < 256            \* as do the numbers of the arguments
    /\ (MAX_ARGS + 1) * (MAX_ARGS * MAX_ARGS_LENGTH + 1) <= STACK_SIZE  \* 1506 of 2097152

VARIABLES
    pc,
    argv,           \* the lengths of the arguments of task_exec
    i,              \* loop counter
    tmp,            \* tmp_argv and the low byte of len
    mod_size,
    task,           \* esp and the bytes allocated, from the start of the task
    argc_copy,      \* the int behind the image
    args_copy       \* the bytes behind that int

vars == <<pc, argv, i, tmp, mod_size, task, argc_copy, args_copy>>

UNSET == 256
Room  == MAX_ARGS * MAX_ARGS_LENGTH
Row(k) == k * MAX_ARGS_LENGTH

argc == Len(argv)
Length(k) == argv[k + 1]

\* The bytes of the first n arguments, with their terminals.
Bytes[n \in 0 .. MaxArgc] == IF n = 0 THEN 0 ELSE Bytes[n - 1] + argv[n] + 1

args_size == INT + Bytes[argc]

Init ==
    /\ pc = "copy_out"
    /\ argv \in UNION {[1 .. n -> 0 .. MaxLength] : n \in 0 .. MaxArgc}
    /\ i = 0
    /\ tmp = [o \in 0 .. Room |-> UNSET]
    /\ mod_size = 0 /\ task = [esp |-> 0, allocated |-> 0]
    /\ argc_copy = UNSET /\ args_copy = <<>>

---------------------------------------------------------------------------
\* strncpy of argument k: at most count bytes, and a terminal 0 after them.
Copied(k, count) == IF Length(k) < count THEN Length(k) ELSE count
strncpy(mem, dest, k, count) ==
    [o \in DOMAIN mem |->
        IF o \in dest .. dest + Copied(k, count) - 1 THEN k + 1
        ELSE IF o = dest + Copied(k, count) THEN 0 ELSE mem[o]]

\* Variant: an argument that does not fit is cut, one character too early.
CountTight(k) == IF Length(k) + 1 < MAX_ARGS_LENGTH THEN Length(k) + 1 ELSE MAX_ARGS_LENGTH - 2

\* Variant: the terminal is counted twice.
CountTwice(k) == Length(k) + 2

\* len = strlen(argv[i]) + 1
Count(k) == Length(k) + 1

\* One iteration of the copy to tmp_argv; len may be overwritten by strncpy.
CopyOut ==
    /\ pc = "copy_out" /\ i < argc
    /\ LET mem == strncpy([tmp EXCEPT ![Room] = Count(i)], Row(i), i, Count(i))
           len == mem[Room]
       IN  IF Row(i) + Copied(i, Count(i)) <= Room /\ Row(i) + len <= Room
           THEN /\ tmp' = [mem EXCEPT ![Row(i) + len] = 0]
                /\ i' = i + 1
                /\ UNCHANGED pc
           ELSE /\ pc' = "overrun"
                /\ UNCHANGED <<tmp, i>>
    /\ UNCHANGED <<argv, mod_size, task, argc_copy, args_copy>>

CopiedOut ==
    /\ pc = "copy_out" /\ i = argc
    /\ pc' = "create"
    /\ UNCHANGED <<argv, i, tmp, mod_size, task, argc_copy, args_copy>>

\* There is no such module, or no free slot: NULL.
LoadFails ==
    /\ pc = "create"
    /\ pc' = "failed"
    /\ UNCHANGED <<argv, i, tmp, mod_size, task, argc_copy, args_copy>>

PAGE_COUNT(size) == (size + PAGE_SIZE - 1) \div PAGE_SIZE

\* Variant: the stack pointer of the commented-out assignment.
EspWithoutArguments(size) == size + STACK_SIZE

\* total_mem_size
Esp(size) == STACK_SIZE + args_size + size

\* What task_create asks paging_alloc for; addr_space_size has the arguments.
Allocated(size) == PAGE_SIZE * PAGE_COUNT(size + args_size + STACK_SIZE + args_size)

TaskCreate ==
    /\ pc = "create"
    /\ mod_size' \in ModSizes
    /\ task' = [esp |-> Esp(mod_size'), allocated |-> Allocated(mod_size')]
    /\ argc_copy' = argc
    /\ i' = 0
    /\ pc' = "copy_in"
    /\ UNCHANGED <<argv, tmp, args_copy>>

\* Variant: the whole row is copied.
strlenRow(mem, row) == MAX_ARGS_LENGTH - 1

\* strlen of a row of tmp_argv, which may go on in the next row.
strlen(mem, row) == Min({n \in 0 .. Room - row : mem[row + n] = 0})

memcpy(mem, src, count) == [n \in 1 .. count |-> mem[src + n - 1]]

\* One iteration of the copy into the new address space.
CopyIn ==
    /\ pc = "copy_in" /\ i < argc
    /\ args_copy' = args_copy \o memcpy(tmp, Row(i), strlen(tmp, Row(i)) + 1)
    /\ i' = i + 1
    /\ UNCHANGED <<pc, argv, tmp, mod_size, task, argc_copy>>

Loaded ==
    /\ pc = "copy_in" /\ i = argc
    /\ pc' = "loaded"
    /\ UNCHANGED <<argv, i, tmp, mod_size, task, argc_copy, args_copy>>

Next == CopyOut \/ CopiedOut \/ LoadFails \/ TaskCreate \/ CopyIn \/ Loaded

Spec == Init /\ [][Next]_vars

---------------------------------------------------------------------------
(* Properties.                                                             *)

\* The variables have their types; every byte that reached the new task was
\* written before (no uninitialised byte of tmp_argv is read).
TypeOK ==
    /\ pc \in {"copy_out", "overrun", "create", "failed", "copy_in", "loaded"}
    /\ argv \in UNION {[1 .. n -> 0 .. MaxLength] : n \in 0 .. MaxArgc} /\ i \in 0 .. argc
    /\ tmp \in [0 .. Room -> 0 .. UNSET]
    /\ mod_size \in ModSizes \union {0}
    /\ task \in [esp : Nat, allocated : Nat]
    /\ argc_copy \in 0 .. MaxArgc \union {UNSET}
    /\ args_copy \in Seq(0 .. MaxArgc)

\* The first n arguments as an array of strings, one after the other.
Text(n) == [o \in 1 .. argv[n] + 1 |-> IF o <= argv[n] THEN n ELSE 0]
Strings[n \in 0 .. MaxArgc] == IF n = 0 THEN <<>> ELSE Strings[n - 1] \o Text(n)

\* Each argument ends in its row.  Three cases work by chance: a last argument
\* that goes on in rows nobody uses; a full row before an empty argument, whose
\* terminal serves both; and one empty argument too many, which falls on len.
InRows == argc <= MAX_ARGS /\ \A k \in 0 .. argc - 1 : Length(k) < MAX_ARGS_LENGTH
Fits ==
    \A k \in 0 .. argc - 1 :
        \/ Length(k) < MAX_ARGS_LENGTH /\ k < MAX_ARGS
        \/ k = argc - 1 /\ Row(k) + Length(k) < Room
        \/ Length(k) = MAX_ARGS_LENGTH /\ k + 1 \in 0 .. argc - 1 \intersect 0 .. MAX_ARGS - 1
              /\ Length(k + 1) = 0
        \/ k = MAX_ARGS /\ k = argc - 1 /\ Length(k) = 0

\* The new task gets argc and exactly the arguments of its caller if, and only
\* if, they fit in tmp_argv: neither the terminal that strncpy writes nor the
\* second one behind it destroys a neighbour that is copied later, and a longer
\* argument never arrives whole (task.c:197-203, 225-232).
ArgumentsArrive ==
    pc = "loaded" => argc_copy = argc /\ (args_copy = Strings[argc] <=> Fits)

\* Memory past tmp_argv and len is only touched for more than MAX_ARGS
\* arguments, or one of MAX_ARGS_LENGTH characters or more: a row that is full
\* to its last byte is still safe, although the second terminal is written
\* behind it (task.c:198-202).
OverrunJustified == pc = "overrun" => ~InRows

\* Whatever was copied ends below the stack pointer, with the whole stack in
\* between when the arguments arrived as they were counted, and the stack
\* pointer is inside what was allocated (task.c:35, 69, 85-89).
StackRoom ==
    pc = "loaded" =>
        LET end == mod_size + INT + Len(args_copy)
        IN  /\ end < task.esp /\ task.esp <= task.allocated
            /\ Fits => task.esp - end = STACK_SIZE
=============================================================================
