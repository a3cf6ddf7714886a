---------------------------- MODULE MachineProof ----------------------------
(***************************************************************************)
(* Proofs about Machine, for any number of task slots, any addresses of    *)
(* the TSSs and handlers, and any interrupts, exceptions and software      *)
(* interrupts.  The history `taken' makes the argument inductive: what an  *)
(* entry or a call left is described by the activation below it, and every *)
(* way back finds it on the stacks and in the TSSs.                        *)
(***************************************************************************)
EXTENDS Machine, TLAPS, SequenceTheorems


Word32 == {w \in Nat : w < 4294967296}
Word20 == {w \in Nat : w < 1048576}

\* A word is the sum of its two halves.
LEMMA Halves ==
    ASSUME NEW w \in Word32
    PROVE  /\ w \div 65536 \in Nat /\ w \div 65536 < 65536
           /\ (w \div 65536) % 65536 = w \div 65536
           /\ (w \div 65536) * 65536 + (w % 65536) = w
  <1>0. w \in Nat /\ w < 4294967296
    BY SMT DEF Word32
  <1>1. w \div 65536 \in Nat /\ w \div 65536 < 65536
    BY SMT, <1>0
  <1>2. (w \div 65536) % 65536 = w \div 65536
    BY SMT, <1>0, <1>1
  <1>3. (w \div 65536) * 65536 + (w % 65536) = w
    BY SMT, <1>0
  <1> QED
    BY <1>1, <1>2, <1>3

\* The upper half of a word is the sum of its two bytes.
LEMMA Bytes ==
    ASSUME NEW w \in Word32
    PROVE  ((w \div 16777216) % 256) * 256 + ((w \div 65536) % 256) = w \div 65536
  <1>0. w \in Nat
    BY SMT DEF Word32
  <1> DEFINE h == w \div 65536
  <1>1. h \in Nat /\ h < 65536
    BY Halves
  <1>2. w \div 16777216 = h \div 256
    BY SMT, <1>0
  <1> HIDE DEF h
  <1>3. h \div 256 \in Nat /\ h \div 256 < 256
    BY SMT, <1>1
  <1>4. (h \div 256) % 256 = h \div 256
    BY SMT, <1>3
  <1>5. (h \div 256) * 256 + (h % 256) = h
    BY SMT, <1>1
  <1>6. ((h \div 256) % 256) * 256 + (h % 256) = h
    BY <1>4, <1>5
  <1> QED
    BY <1>2, <1>6 DEF h

\* A segment or TSS descriptor keeps its base: the processor finds the segment
\* (the TSS of a task) where the kernel has it (build_entry, gdt.c:52-70).
THEOREM BaseKept ==
    ASSUME NEW base \in Word32, NEW limit, NEW type, NEW s, NEW db, NEW granularity, NEW dpl
    PROVE  Base(build_entry(base, limit, type, s, db, granularity, dpl)) = base
  <1> DEFINE high == (base \div 16777216) % 256
             middle == (base \div 65536) % 256
             low == base % 65536
  <1>1. Base(build_entry(base, limit, type, s, db, granularity, dpl)) =
            high * 16777216 + middle * 65536 + low
    BY SMT DEF Base, build_entry
  <1>2. high \in Int /\ middle \in Int /\ low \in Int
    BY SMT DEF Word32
  <1>3. high * 256 + middle = base \div 65536
    BY Bytes
  <1>4. (base \div 65536) * 65536 + low = base
    BY Halves
  <1> HIDE DEF high, middle, low
  <1>5. high * 16777216 + middle * 65536 = (high * 256 + middle) * 65536
    BY SMT, <1>2
  <1>6. high * 16777216 + middle * 65536 + low = base
    BY SMT, <1>3, <1>4, <1>5
  <1> QED
    BY <1>1, <1>6

\* A descriptor keeps its limit of 20 bits (gdt.c:56, 63).
THEOREM LimitKept ==
    ASSUME NEW base, NEW limit \in Word20, NEW type, NEW s, NEW db, NEW granularity, NEW dpl
    PROVE  Limit(build_entry(base, limit, type, s, db, granularity, dpl)) = limit
  <1>1. Limit(build_entry(base, limit, type, s, db, granularity, dpl)) =
            ((limit \div 65536) % 16) * 65536 + (limit % 65536)
    BY SMT DEF Limit, build_entry
  <1>2. limit \in Nat /\ limit < 1048576
    BY SMT DEF Word20
  <1>3. limit \div 65536 \in Nat /\ limit \div 65536 < 16
    BY SMT, <1>2
  <1>4. (limit \div 65536) % 16 = limit \div 65536
    BY SMT, <1>3
  <1>5. (limit \div 65536) * 65536 + (limit % 65536) = limit
    BY SMT, <1>2
  <1> QED
    BY <1>1, <1>4, <1>5

\* A gate keeps the address of its handler (idt_build_entry, idt.c:72-82).
THEOREM OffsetKept ==
    ASSUME NEW offset \in Word32, NEW selector, NEW type, NEW dpl
    PROVE  Offset(idt_build_entry(selector, offset, type, dpl)) = offset
  <1>1. Offset(idt_build_entry(selector, offset, type, dpl)) =
            ((offset \div 65536) % 65536) * 65536 + (offset % 65536)
    BY SMT DEF Offset, idt_build_entry
  <1> QED
    BY <1>1, Halves

\* The selector of a slot finds that slot and no other one, and names a descriptor
\* of privilege 0 in the GDT; the initial TSS finds no slot (get_task_by_selector,
\* task.c:97-110; task_create gives slot i the entry KERNEL_TSS_INDEX + 1 + i).
THEOREM TaskFound ==
    ASSUME NEW c \in Contexts
    PROVE  /\ TasksBySelector(Selector(c)) = {c} \ {KERNEL}
           /\ Index(Selector(c)) \in GdtIndexes
           /\ Rpl(Selector(c)) = DPL_KERNEL
  <1>1. MAX_TASK_COUNT \in Nat \ {0}
    BY AddressAssumption
  <1>2. TssIndex(c) \in 5 .. 5 + MAX_TASK_COUNT
    BY <1>1 DEF TssIndex, Contexts, Slots, KERNEL, KERNEL_TSS_INDEX
  <1>3. Selector(c) = TssIndex(c) * 8
    BY DEF Selector, gdt_entry_to_selector
  <1>4. Index(Selector(c)) = TssIndex(c) /\ Rpl(Selector(c)) = 0
    BY <1>2, <1>3 DEF Index, Rpl
  <1>5. \A s \in Slots : Selector(s) = Selector(c) <=> s = c
    BY <1>1 DEF Selector, gdt_entry_to_selector, TssIndex, Contexts, Slots, KERNEL,
                KERNEL_TSS_INDEX
  <1>6. TasksBySelector(Selector(c)) = {c} \ {KERNEL}
    BY <1>1, <1>5 DEF TasksBySelector, Contexts, Slots, KERNEL
  <1> QED
    BY <1>2, <1>4, <1>6 DEF GdtIndexes, KERNEL_TSS_INDEX, DPL_KERNEL

---------------------------------------------------------------------------
(* Types.                                                                  *)

Names == General \union {"nb", "arg1", "arg2", "arg3", "arg4", "error_code"}
Labels ==
    {"gdt_init", "idt_init", "tasks_init", "sti", "kernel_main", "task_switch", "task_free",
     "halt", "hlt", "syscall_handler", "syscall_exit", "syscall_iret", "exception_handler",
     "exception_exit", "irq_handler", "irq_exit", "entry", "main", "exit", "int48", "stub"}

Words ==
    ({"sel"} \X Selectors) \union ({"num"} \X Nat)
    \union ({"val"} \X Contexts \X Names) \union ({"esp"} \X Areas \X Nat)
    \union ({"flags"} \X BOOLEAN \X BOOLEAN)
    \union ({"code"} \X Contexts \X Labels \X Nat)

Cpus ==
    [gen : [General -> Words], seg : [Segments -> Selectors], cs : Selectors,
     ss : Selectors, eip : Words, iflag : BOOLEAN, nt : BOOLEAN, area : Areas]

States == [cpu : Cpus, words : Seq(Words)]
Vectors == 0 .. INTERRUPT_COUNT - 1
Entries == [asked : ({"call"} \X Slots) \union ({"int", "irq", "fault"} \X Vectors),
            was : States]

Tsss == [link : Nat, ss0 : Nat, esp0 : Areas, depth : Nat, cpu : Cpus]

Types ==
    /\ cpu \in Cpus
    /\ stack \in [Areas -> Seq(Words)]
    /\ tr \in Nat
    /\ idtr \in BOOLEAN /\ quiet \in BOOLEAN /\ rejected \in BOOLEAN
    /\ DOMAIN gdt = GdtIndexes
    /\ \A i \in GdtIndexes : gdt[i].present \in {0, 1}
    /\ tss \in [Contexts -> Tsss]
    /\ in_use \in [Slots -> BOOLEAN] /\ child \in [Contexts -> Contexts]
    /\ patched \subseteq {Code(s, "main") : s \in Slots}
    /\ taken \in Seq(Entries)

---------------------------------------------------------------------------
(* The state of each kind of activation: its registers u, and the words w  *)
(* on its stack.                                                           *)

Ctx(u) == u.area[2]
FromUser(u) == u.cs = GDT_USER_CODE_SELECTOR

UserSegments == [r \in Segments |-> IF r = "fs" THEN 0 ELSE GDT_USER_DATA_SELECTOR]

UserRegs(u) ==
    /\ u.cs = GDT_USER_CODE_SELECTOR /\ u.ss = GDT_USER_DATA_SELECTOR
    /\ u.seg = UserSegments /\ u.iflag /\ u.nt
KernelRegs(u) ==
    u.cs = GDT_KERNEL_CODE_SELECTOR /\ u.ss = GDT_KERNEL_DATA_SELECTOR /\ ~u.nt

MainState(u, w) ==
    /\ KernelRegs(u) /\ u.seg = KernelSegments /\ u.area = Boot /\ w = <<>>
    /\ \/ u.iflag /\ \E l \in {"kernel_main", "task_switch", "task_free", "halt"} :
                        u.eip = Code(KERNEL, l)
       \/ ~u.iflag /\ \E l \in {"sti", "hlt"} : u.eip = Code(KERNEL, l)

\* What the stub leaves on the application's stack.
StubWords(c) ==
    <<Val(c, "ebp"), Val(c, "ebx"), Val(c, "ecx"), Val(c, "edx"), Val(c, "esi"), Val(c, "edi")>>

Asking(c, gen) ==
    /\ gen["ebp"] = Esp(User(c), 1)
    /\ \A r \in DOMAIN Arguments : gen[r] = Val(c, Arguments[r])

UserState(c, u, w) ==
    /\ UserRegs(u) /\ u.area = User(c)
    /\ \/ u.eip = Code(c, "entry") /\ w = <<>>
       \/ u.eip = Code(c, "main") /\ w = <<>> /\ \A r \in General \ {"eax"} : u.gen[r] = Val(c, r)
       \/ u.eip = Code(c, "exit") /\ w = <<>>
       \/ u.eip = Code(c, "int48") /\ w = StubWords(c) /\ Asking(c, u.gen)
       \/ u.eip = Code(c, "stub") /\ w = StubWords(c) /\ u.gen["ebp"] = Esp(User(c), 1)

\* What the processor pushes for an interrupt of state s by vector n.
Outer(s) == IF FromUser(s.cpu) THEN <<Sel(s.cpu.ss), Esp(s.cpu.area, Len(s.words))>> ELSE s.words
Frame(s) == Outer(s) \o <<Flags(s.cpu.iflag, s.cpu.nt), Sel(s.cpu.cs), s.cpu.eip>>
ErrorCode(n) == IF HasErrorCode(n) THEN <<Val(KERNEL, "error_code")>> ELSE <<>>

\* Registers u, pushed in this order.
WordOf(u, r) == IF r \in Segments THEN Sel(u.seg[r]) ELSE u.gen[r]
PushedOf(u, order) == [i \in 1 .. Len(order) |-> WordOf(u, order[i])]

SyscallWords(u) == PushedOf(u, <<"ds", "es", "fs", "gs">>) \o PushedOf(u, ArgumentOrder)

SysState(s, u, w) ==
    /\ KernelRegs(u) /\ u.iflag /\ u.area = Kernel(Ctx(s.cpu))
    /\ \A r \in {"esi", "edi", "ebp"} : u.gen[r] = s.cpu.gen[r]
    /\ \/ u.eip = Entry(SYSCALL) /\ u.gen = s.cpu.gen /\ u.seg = UserSegments /\ w = Frame(s)
       \/ /\ \E l \in {"syscall_handler", "task_switch", "task_free", "syscall_exit"} :
                u.eip = Code(KERNEL, l)
          /\ u.seg = KernelSegments /\ w = Frame(s) \o SyscallWords(s.cpu)
       \/ u.eip = Code(KERNEL, "syscall_iret") /\ u.seg = UserSegments /\ w = Frame(s)

Prefix(kind) == IF kind = "irq" THEN "irq" ELSE "exception"
VectorOf(asked) == IF asked[1] = "irq" THEN IRQ_REMAP_OFFSET + asked[2] ELSE asked[2]
HandlerLabel(asked) == IF asked[1] = "irq" THEN "irq_handler" ELSE "exception_handler"
ExitLabel(asked) == IF asked[1] = "irq" THEN "irq_exit" ELSE "exception_exit"
WrapperWords(s, n) == ((Frame(s) \o ErrorCode(n)) \o Header(n)) \o PushedOf(s.cpu, PushOrder)

KernelStack(c) == IF c = KERNEL THEN Boot ELSE Kernel(c)

HandlerState(e, u, w) ==
    LET n == VectorOf(e.asked)
    IN  /\ KernelRegs(u) /\ ~u.iflag /\ u.area = KernelStack(Ctx(e.was.cpu))
        /\ \/ /\ u.eip = Entry(n) /\ u.gen = e.was.cpu.gen /\ u.seg = e.was.cpu.seg
              /\ w = Frame(e.was) \o ErrorCode(n)
           \/ /\ u.eip = Code(KERNEL, HandlerLabel(e.asked)) /\ u.gen = e.was.cpu.gen
              /\ u.seg = KernelSegments /\ w = WrapperWords(e.was, n)
           \/ /\ u.eip = Code(KERNEL, ExitLabel(e.asked))
              /\ u.seg = KernelSegments /\ w = WrapperWords(e.was, n)

\* The state of the activation that entry e began.
After(e, u, w) ==
    \/ e.asked[1] = "call" /\ UserState(e.asked[2], u, w)
    \/ e.asked[1] = "int" /\ SysState(e.was, u, w)
    \/ e.asked[1] \in {"irq", "fault"} /\ HandlerState(e, u, w)

\* When an entry happens.
Began(e) ==
    LET u == e.was.cpu
        c == Ctx(u)
    IN  \/ e.asked[1] = "call" /\ e.asked[2] \in Slots /\ u.eip = Code(KERNEL, "task_free")
        \/ /\ e.asked = <<"int", SYSCALL>> /\ c \in Slots /\ UserRegs(u)
           /\ u.eip = Code(c, "stub") /\ Asking(c, u.gen)
        \/ /\ e.asked[1] = "fault" /\ e.asked[2] \in Exceptions /\ c \in Slots
           /\ UserRegs(u) /\ u.eip = Code(c, "main")
        \/ e.asked[1] = "irq" /\ e.asked[2] \in IRQ_FIRST .. IRQ_LAST /\ u.iflag

---------------------------------------------------------------------------
(* The inductive invariant.                                                *)

Called(i) == taken[i].asked[1] = "call"
Callee(i) == taken[i].asked[2]
Left(i) == taken[i].was

Above(i, u, w) == IF i = 0 THEN MainState(u, w) ELSE After(taken[i], u, w)

\* Each activation was interrupted in one of its states, and the innermost is in one.
Nested ==
    /\ \A i \in 1 .. Len(taken) :
           Began(taken[i]) /\ Above(i - 1, Left(i).cpu, Left(i).words)
    /\ Above(Len(taken), cpu, Stk)

\* The contexts in the chain of calls.
Live == {KERNEL} \union {Callee(i) : i \in {j \in 1 .. Len(taken) : Called(j)}}

\* What a call or an entry from an application left is still there.
Suspended(i) ==
    LET u == Left(i).cpu
    IN  /\ Called(i) =>
            /\ tss[Ctx(u)].cpu = u /\ tss[Ctx(u)].depth = Len(Left(i).words)
            /\ stack[u.area] = Left(i).words
            /\ child[Ctx(u)] = Callee(i) /\ tss[Callee(i)].link = Selector(Ctx(u))
        /\ FromUser(u) => stack[u.area] = Left(i).words

Intact == \A i \in 1 .. Len(taken) : Suspended(i)

\* A context that called is not entered again before the call returns; a
\* called one was not there before.
Separate ==
    \A i \in 1 .. Len(taken) :
        /\ Called(i) =>
            /\ Ctx(Left(i).cpu) # Ctx(cpu)
            /\ \A j \in i + 1 .. Len(taken) :
                   /\ Ctx(Left(j).cpu) # Ctx(Left(i).cpu)
                   /\ Called(j) => Callee(j) # Callee(i)
            /\ \A j \in 1 .. i : Ctx(Left(j).cpu) # Callee(i)
        /\ FromUser(Left(i).cpu) =>
            /\ Left(i).cpu.area # cpu.area
            /\ \A j \in i + 1 .. Len(taken) : Left(j).cpu.area # Left(i).cpu.area
        /\ Ctx(Left(i).cpu) \in Live

TssEntry(c, type) ==
    build_entry(TssAddress[c], SizeofTss - 1, type, S_SYSTEM, DB_SYS, 0, DPL_KERNEL)

Tables ==
    /\ idtr /\ ~rejected
    /\ tr = Selector(Ctx(cpu)) /\ Ctx(cpu) \in Live
    /\ \A i \in 1 .. 4 : gdt[i] = gdt_init[i]
    /\ \A c \in Live :
        /\ gdt[TssIndex(c)] = TssEntry(c, TYPE_TSS_BUSY)
        /\ tss[c].ss0 = GDT_KERNEL_DATA_SELECTOR /\ tss[c].esp0 = Kernel(c)
        /\ c \in Slots => in_use[c]

\* The task that task_exec is about to call, or has called.
Ready(s) ==
    /\ s \in Slots \ Live /\ in_use[s]
    /\ gdt[TssIndex(s)] = TssEntry(s, TYPE_TSS)
    /\ tss[s] = NewTss(s) /\ stack[User(s)] = <<>> /\ stack[Kernel(s)] = <<>>

\* The innermost code that is not a handler of an IRQ.
Top == IF taken # <<>> /\ Last(taken).asked[1] = "irq" THEN Last(taken).was.cpu ELSE cpu

Child ==
    /\ Top.eip = Code(KERNEL, "task_switch") => Ready(child[Ctx(cpu)])
    /\ Top.eip = Code(KERNEL, "task_free") => child[Ctx(cpu)] \in Slots \ Live

\* kernel_main before it has a task register.
Starting ==
    /\ taken = <<>> /\ ~rejected /\ patched = {} /\ tr = 0
    /\ stack = [a \in Areas |-> <<>>]
    /\ tss = [c \in Contexts |-> ZeroTss]
    /\ cpu.area = Boot /\ ~cpu.iflag /\ ~cpu.nt
    /\ \/ cpu.eip = Code(KERNEL, "gdt_init")
       \/ /\ cpu.eip = Code(KERNEL, "idt_init") \/ (cpu.eip = Code(KERNEL, "tasks_init") /\ idtr)
          /\ gdt = gdt_init /\ KernelRegs(cpu) /\ cpu.seg = KernelSegments

Chained == Nested /\ Intact /\ Separate /\ Tables /\ Child

Inv == Types /\ (Starting \/ Chained)

---------------------------------------------------------------------------
(* Sequences as stacks.                                                    *)

\* Removing what was pushed last, and reading it.
LEMMA Pushing ==
    ASSUME NEW S, NEW s \in Seq(S), NEW t \in Seq(S)
    PROVE  /\ s \o t \in Seq(S) /\ Len(s \o t) = Len(s) + Len(t)
           /\ Len(s) \in Nat /\ Len(t) \in Nat
           /\ Without(s \o t, Len(t)) = s
           /\ \A i \in 1 .. Len(t) : (s \o t)[Len(s \o t) - i + 1] = t[Len(t) - i + 1]
  <1>1. s \o t \in Seq(S) /\ Len(s \o t) = Len(s) + Len(t) /\ Len(s) \in Nat /\ Len(t) \in Nat
    BY ConcatProperties, LenProperties
  <1>2. \A i \in 1 .. Len(s) + Len(t) :
            (s \o t)[i] = IF i <= Len(s) THEN s[i] ELSE t[i - Len(s)]
    BY ConcatProperties
  <1>3. \A i \in 1 .. Len(t) : (s \o t)[Len(s \o t) - i + 1] = t[Len(t) - i + 1]
    BY <1>1, <1>2
  <1>4. \A i \in 1 .. Len(s) : (s \o t)[i] = s[i] /\ s[i] \in S
    BY <1>1, <1>2, ElementOfSeq
  <1>5. SubSeq(s \o t, 1, Len(s)) = s
    <2>1. /\ SubSeq(s \o t, 1, Len(s)) \in Seq(S)
          /\ Len(SubSeq(s \o t, 1, Len(s))) = IF 1 <= Len(s) THEN Len(s) - 1 + 1 ELSE 0
          /\ \A i \in 1 .. Len(s) - 1 + 1 : SubSeq(s \o t, 1, Len(s))[i] = (s \o t)[1 + i - 1]
      BY <1>1, <1>4, SubSeqProperties
    <2>2. Len(SubSeq(s \o t, 1, Len(s))) = Len(s)
      BY <1>1, <2>1
    <2>3. \A i \in 1 .. Len(SubSeq(s \o t, 1, Len(s))) : SubSeq(s \o t, 1, Len(s))[i] = s[i]
      BY <1>1, <1>4, <2>1, <2>2
    <2> QED
      BY <2>1, <2>2, <2>3, SeqEqual
  <1>6. Len(s \o t) - Len(t) = Len(s)
    BY <1>1
  <1> QED
    BY <1>1, <1>3, <1>5, <1>6 DEF Without

\* The last element of a sequence, added and removed.
LEMMA Adding ==
    ASSUME NEW S, NEW q \in Seq(S), NEW e \in S
    PROVE  /\ Append(q, e) \in Seq(S) /\ Len(Append(q, e)) = Len(q) + 1 /\ Len(q) \in Nat
           /\ Last(Append(q, e)) = e /\ Append(q, e)[Len(q) + 1] = e
           /\ \A i \in 1 .. Len(q) : Append(q, e)[i] = q[i]
  <1>1. Append(q, e) \in Seq(S) /\ Len(Append(q, e)) = Len(q) + 1 /\ Len(q) \in Nat
    BY AppendProperties, LenProperties
  <1>2. Append(q, e)[Len(q) + 1] = e /\ \A i \in 1 .. Len(q) : Append(q, e)[i] = q[i]
    BY AppendProperties
  <1> QED
    BY <1>1, <1>2 DEF Last

LEMMA Removing ==
    ASSUME NEW S, NEW q \in Seq(S), q # <<>>
    PROVE  /\ Without(q, 1) \in Seq(S) /\ Len(Without(q, 1)) = Len(q) - 1
           /\ Len(q) \in Nat \ {0} /\ Last(q) \in S /\ Last(q) = q[Len(q)]
           /\ \A i \in 1 .. Len(q) - 1 : Without(q, 1)[i] = q[i] /\ q[i] \in S
  <1>1. Len(q) \in Nat \ {0}
    BY EmptySeq
  <1>2. \A i \in 1 .. Len(q) : q[i] \in S
    BY ElementOfSeq
  <1>3. Last(q) \in S /\ Last(q) = q[Len(q)]
    BY <1>1, <1>2 DEF Last
  <1>4. /\ SubSeq(q, 1, Len(q) - 1) \in Seq(S)
        /\ Len(SubSeq(q, 1, Len(q) - 1)) = IF 1 <= Len(q) - 1 THEN Len(q) - 1 - 1 + 1 ELSE 0
        /\ \A i \in 1 .. Len(q) - 1 - 1 + 1 : SubSeq(q, 1, Len(q) - 1)[i] = q[1 + i - 1]
    BY <1>1, <1>2, SubSeqProperties
  <1>5. Len(Without(q, 1)) = Len(q) - 1
    <2>1. PICK n \in Nat \ {0} : n = Len(q)
      BY <1>1
    <2>2. Len(SubSeq(q, 1, n - 1)) = IF 1 <= n - 1 THEN n - 1 - 1 + 1 ELSE 0
      BY <1>4, <2>1
    <2>3. Len(SubSeq(q, 1, n - 1)) = n - 1
      BY <2>2
    <2> QED
      BY <2>1, <2>3 DEF Without
  <1>6. \A i \in 1 .. Len(q) - 1 : Without(q, 1)[i] = q[i] /\ q[i] \in S
    BY <1>1, <1>2, <1>4 DEF Without
  <1> QED
    BY <1>1, <1>3, <1>4, <1>5, <1>6 DEF Without

---------------------------------------------------------------------------
(* The tables that never change.                                           *)

LEMMA ContextFacts ==
    /\ MAX_TASK_COUNT \in Nat \ {0} /\ KERNEL \in Contexts /\ KERNEL \notin Slots
    /\ \A s \in Slots : s \in Contexts /\ s \in Nat
    /\ \A c \in Contexts : c # KERNEL => c \in Slots
  <1>1. MAX_TASK_COUNT \in Nat \ {0}
    BY AddressAssumption
  <1> QED
    BY <1>1 DEF Contexts, Slots, KERNEL

\* The segments of gdt_init are what code, stacks and data need.
LEMMA SegmentsLoadable ==
    ASSUME \A i \in 1 .. 4 : gdt[i] = gdt_init[i]
    PROVE  /\ CodeOk(GDT_KERNEL_CODE_SELECTOR) /\ CodeOk(GDT_USER_CODE_SELECTOR)
           /\ StackOk(GDT_KERNEL_DATA_SELECTOR, 0) /\ StackOk(GDT_USER_DATA_SELECTOR, 3)
           /\ DataOk(GDT_KERNEL_DATA_SELECTOR, 0) /\ DataOk(GDT_USER_DATA_SELECTOR, 0)
           /\ DataOk(GDT_USER_DATA_SELECTOR, 3) /\ DataOk(0, 0) /\ DataOk(0, 3)
           /\ Rpl(GDT_KERNEL_CODE_SELECTOR) = 0 /\ Rpl(GDT_USER_CODE_SELECTOR) = 3
           /\ \A x \in {GDT_KERNEL_CODE_SELECTOR, GDT_KERNEL_DATA_SELECTOR, GDT_USER_CODE_SELECTOR} :
                  Flat(gdt[Index(x)])
  <1>1. /\ Index(GDT_KERNEL_CODE_SELECTOR) = 1 /\ Index(GDT_KERNEL_DATA_SELECTOR) = 2
        /\ Index(GDT_USER_CODE_SELECTOR) = 3 /\ Index(GDT_USER_DATA_SELECTOR) = 4 /\ Index(0) = 0
    BY DEF Index, GDT_KERNEL_CODE_SELECTOR, GDT_KERNEL_DATA_SELECTOR, GDT_USER_CODE_SELECTOR,
           GDT_USER_DATA_SELECTOR, DPL_KERNEL, DPL_USER
  <1>2. /\ Rpl(GDT_KERNEL_CODE_SELECTOR) = 0 /\ Rpl(GDT_KERNEL_DATA_SELECTOR) = 0
        /\ Rpl(GDT_USER_CODE_SELECTOR) = 3 /\ Rpl(GDT_USER_DATA_SELECTOR) = 3
    BY DEF Rpl, GDT_KERNEL_CODE_SELECTOR, GDT_KERNEL_DATA_SELECTOR, GDT_USER_CODE_SELECTOR,
           GDT_USER_DATA_SELECTOR, DPL_KERNEL, DPL_USER
  <1>3. 1 \in GdtIndexes /\ 2 \in GdtIndexes /\ 3 \in GdtIndexes /\ 4 \in GdtIndexes
    BY ContextFacts DEF GdtIndexes, KERNEL_TSS_INDEX
  <1> DEFINE made == <<gdt_make_code_segment(0, 1048575, DPL_KERNEL),
                          gdt_make_data_segment(0, 1048575, DPL_KERNEL),
                          gdt_make_code_segment(0, 1048575, DPL_USER),
                          gdt_make_data_segment(0, 1048575, DPL_USER)>>
  <1>a. \A i \in 1 .. 4 : i \in GdtIndexes
    BY ContextFacts DEF GdtIndexes, KERNEL_TSS_INDEX
  <1>b. gdt_init = [i \in GdtIndexes |-> IF i \in 1 .. 4 THEN made[i] ELSE gdt_make_null_segment]
    BY DEF gdt_init
  <1>c. /\ made[1] = gdt_make_code_segment(0, 1048575, DPL_KERNEL)
        /\ made[2] = gdt_make_data_segment(0, 1048575, DPL_KERNEL)
        /\ made[3] = gdt_make_code_segment(0, 1048575, DPL_USER)
        /\ made[4] = gdt_make_data_segment(0, 1048575, DPL_USER)
    OBVIOUS
  <1> HIDE DEF made
  <1>d. \A i \in 1 .. 4 : gdt[i] = made[i]
    BY <1>a, <1>b
  <1>4. /\ gdt[1] = gdt_make_code_segment(0, 1048575, DPL_KERNEL)
        /\ gdt[2] = gdt_make_data_segment(0, 1048575, DPL_KERNEL)
        /\ gdt[3] = gdt_make_code_segment(0, 1048575, DPL_USER)
        /\ gdt[4] = gdt_make_data_segment(0, 1048575, DPL_USER)
    BY <1>c, <1>d
  <1>5. \A dpl : LET d == gdt_make_code_segment(0, 1048575, dpl)
                 IN  IsCode(d) /\ d.dpl = dpl /\ Flat(d)
    BY DEF gdt_make_code_segment, build_entry, IsCode, Flat, Base, Limit, TYPE_CODE_EXECONLY,
           S_CODE_OR_DATA, DB_SEG
  <1>6. \A dpl : LET d == gdt_make_data_segment(0, 1048575, dpl)
                 IN  IsData(d) /\ d.dpl = dpl /\ Flat(d)
    BY DEF gdt_make_data_segment, build_entry, IsData, Flat, Base, Limit, TYPE_DATA_RW,
           S_CODE_OR_DATA, DB_SEG
  <1>7. /\ IsCode(gdt[1]) /\ gdt[1].dpl = 0 /\ Flat(gdt[1])
        /\ IsData(gdt[2]) /\ gdt[2].dpl = 0 /\ Flat(gdt[2])
        /\ IsCode(gdt[3]) /\ gdt[3].dpl = 3 /\ Flat(gdt[3])
        /\ IsData(gdt[4]) /\ gdt[4].dpl = 3
    BY <1>4, <1>5, <1>6 DEF DPL_KERNEL, DPL_USER
  <1> QED
    BY <1>1, <1>2, <1>3, <1>7 DEF CodeOk, StackOk, DataOk

\* Each installed gate leads to its own handler, at privilege 0.
LEMMA GateLeads ==
    ASSUME NEW n \in Installed
    PROVE  /\ n \in Vectors /\ idt[n].p = 1 /\ idt[n].selector = GDT_KERNEL_CODE_SELECTOR
           /\ {m \in Installed : EntryAddress[m] = Offset(idt[n])} = {n}
           /\ idt[n].type = TYPE_TRAP_GATE <=> n = SYSCALL
           /\ idt[n].dpl = IF n = SYSCALL THEN DPL_USER ELSE DPL_KERNEL
  <1>1. n \in Vectors /\ n \in 0 .. INTERRUPT_COUNT - 1
    BY DEF Installed, Vectors, Exceptions, IRQ_REMAP_OFFSET, IRQ_FIRST, IRQ_LAST, SYSCALL,
           INTERRUPT_COUNT
  <1> DEFINE type == IF n = SYSCALL THEN TYPE_TRAP_GATE ELSE TYPE_INTERRUPT_GATE
             dpl == IF n = SYSCALL THEN DPL_USER ELSE DPL_KERNEL
  <1>2. idt[n] = idt_build_entry(GDT_KERNEL_CODE_SELECTOR, EntryAddress[n], type, dpl)
    BY <1>1 DEF idt, Gate
  <1>3. EntryAddress[n] \in Nat /\ EntryAddress[n] \div 65536 < 65536
    BY AddressAssumption
  <1>4. EntryAddress[n] \in Word32
    BY <1>3 DEF Word32
  <1>5. Offset(idt[n]) = EntryAddress[n]
    BY <1>2, <1>4, OffsetKept
  <1>6. {m \in Installed : EntryAddress[m] = Offset(idt[n])} = {n}
    BY <1>5, AddressAssumption
  <1>7. /\ idt[n].p = 1 /\ idt[n].selector = GDT_KERNEL_CODE_SELECTOR
        /\ idt[n].type = type /\ idt[n].dpl = dpl
    BY <1>2 DEF idt_build_entry
  <1> QED
    BY <1>1, <1>6, <1>7 DEF TYPE_TRAP_GATE, TYPE_INTERRUPT_GATE

\* The descriptor gdt_make_tss builds, and what the processor makes of it.
LEMMA TssEntries ==
    ASSUME NEW c \in Contexts, NEW type, NEW new
    PROVE  /\ gdt_make_tss(c, DPL_KERNEL) = TssEntry(c, TYPE_TSS)
           /\ [TssEntry(c, type) EXCEPT !.type = new] = TssEntry(c, new)
           /\ TssEntry(c, type).present = 1
  <1>1. gdt_make_tss(c, DPL_KERNEL) = TssEntry(c, TYPE_TSS)
    BY DEF gdt_make_tss, TssEntry
  <1>4. [TssEntry(c, type) EXCEPT !.type = new] = TssEntry(c, new)
    BY DEF TssEntry, build_entry
  <1>5. TssEntry(c, type).present = 1
    BY DEF TssEntry, build_entry
  <1> QED
    BY <1>1, <1>4, <1>5

\* A descriptor made for the TSS of a context leads to that context.
LEMMA TssFound ==
    ASSUME NEW c \in Contexts, NEW type, Types,
           gdt[TssIndex(c)] = TssEntry(c, type)
    PROVE  /\ Index(Selector(c)) = TssIndex(c) /\ TssIndex(c) \in GdtIndexes
           /\ ContextAt(Selector(c)) = {c}
           /\ IsTss(gdt[Index(Selector(c))], type) /\ gdt[Index(Selector(c))].dpl = 0
  <1>1. Index(Selector(c)) = TssIndex(c)
    BY ContextFacts DEF Selector, gdt_entry_to_selector, Index, TssIndex, KERNEL_TSS_INDEX
  <1>2. TssIndex(c) \in GdtIndexes
    BY <1>1, TaskFound
  <1>3. TssAddress[c] \in Word32
    BY AddressAssumption DEF Word32
  <1>4. Base(TssEntry(c, type)) = TssAddress[c]
    BY <1>3, BaseKept DEF TssEntry
  <1>5. SizeofTss - 1 = 8295 /\ 8295 \in Word20
    BY DEF SizeofTss, Word20
  <1>6. Limit(TssEntry(c, type)) = 8295
    BY <1>5, LimitKept DEF TssEntry
  <1>7. /\ TssEntry(c, type).present = 1 /\ TssEntry(c, type).s = 0
        /\ TssEntry(c, type).dpl = 0 /\ TssEntry(c, type).type = type
    BY DEF TssEntry, build_entry, S_SYSTEM, DPL_KERNEL
  <1>9. /\ gdt[TssIndex(c)].type = type /\ gdt[TssIndex(c)].present = 1
        /\ gdt[TssIndex(c)].s = 0 /\ gdt[TssIndex(c)].dpl = 0
        /\ Base(gdt[TssIndex(c)]) = TssAddress[c] /\ Limit(gdt[TssIndex(c)]) = 8295
    BY <1>4, <1>6, <1>7
  <1>10. ContextAt(Selector(c)) = {c}
    BY <1>1, <1>2, <1>9, AddressAssumption DEF ContextAt
  <1>11. IsTss(gdt[TssIndex(c)], type)
    BY <1>9 DEF IsTss
  <1> QED
    BY <1>1, <1>2, <1>9, <1>10, <1>11

---------------------------------------------------------------------------
(* Labels, areas and words.                                                *)

LEMMA CodeFacts ==
    /\ \A c, d, l, m : Code(c, l) = Code(d, m) <=> c = d /\ l = m
    /\ \A n, m : Entry(n) = Entry(m) <=> n = m
    /\ \A c, l, n : Code(c, l) = Entry(n) => c = KERNEL /\ l = "entry" /\ n = 0
    /\ \A c, l, n : Code(c, l)[1] = "code" /\ Code(c, l)[2] = c /\ Code(c, l)[3] = l
    /\ \A n : Entry(n)[1] = "code" /\ Entry(n)[2] = KERNEL /\ Entry(n)[3] = "entry"
                /\ Entry(n)[4] = n
  BY DEF Code, Entry

LEMMA AreaFacts ==
    /\ \A c \in Contexts : Kernel(c) \in Areas /\ Kernel(c)[2] = c /\ Kernel(c) # Boot
    /\ \A s \in Slots : User(s) \in Areas /\ User(s)[2] = s /\ User(s) # Boot
    /\ Boot \in Areas /\ Boot[2] = KERNEL
    /\ \A c, s : Kernel(c) # User(s)
    /\ \A c, d : Kernel(c) = Kernel(d) => c = d
    /\ \A c, d : User(c) = User(d) => c = d
    /\ \A c \in Contexts : KernelStack(c) \in Areas /\ KernelStack(c)[2] = c
    /\ \A c, s : KernelStack(c) # User(s)
    /\ \A s \in Slots : KernelStack(s) = Kernel(s)
  <1>1. Boot # Kernel(0) /\ \A c : Kernel(c) # Boot /\ \A s : User(s) # Boot
    BY DEF Kernel, User, Boot
  <1>2. \A c, s : Kernel(c) # User(s) /\ Kernel(c)[2] = c /\ User(s)[2] = s
    BY DEF Kernel, User
  <1>3. Boot[2] = KERNEL
    BY DEF Boot
  <1>4. Boot \in Areas /\ \A s \in Slots : User(s) \in Areas
    BY DEF Areas
  <1>5. \A c \in Contexts : Kernel(c) \in Areas
    BY DEF Areas
  <1>6. \A c, d : Kernel(c) = Kernel(d) => c = d
    BY <1>2
  <1>7. \A c, d : User(c) = User(d) => c = d
    BY <1>2
  <1>8. \A c \in Contexts : KernelStack(c) \in Areas /\ KernelStack(c)[2] = c
    BY <1>2, <1>3, <1>4, <1>5 DEF KernelStack
  <1>9. \A c, s : KernelStack(c) # User(s)
    BY <1>1, <1>2 DEF KernelStack
  <1>10. \A s \in Slots : KernelStack(s) = Kernel(s)
    BY ContextFacts DEF KernelStack
  <1> QED
    BY <1>1, <1>2, <1>3, <1>4, <1>5, <1>6, <1>7, <1>8, <1>9, <1>10

\* An area belongs to one context.
LEMMA AreaOwner ==
    ASSUME NEW a \in Areas
    PROVE  /\ a[2] \in Contexts
           /\ a = KernelStack(a[2]) \/ a = User(a[2]) \/ a = Kernel(a[2])
  BY ContextFacts DEF Areas, Boot, User, Kernel, KernelStack

LEMMA WordFacts ==
    /\ \A n \in Selectors : Sel(n) \in Words
    /\ \A n \in Nat : Num(n) \in Words
    /\ \A c \in Contexts, r \in Names : Val(c, r) \in Words
    /\ \A a \in Areas, n \in Nat : Esp(a, n) \in Words
    /\ \A f \in BOOLEAN, g \in BOOLEAN : Flags(f, g) \in Words
    /\ \A c \in Contexts, l \in Labels : Code(c, l) \in Words
    /\ \A n \in Nat : Entry(n) \in Words
  <1>1. \A n \in Selectors : Sel(n) \in Words
    BY DEF Sel, Words
  <1>2. \A n \in Nat : Num(n) \in Words
    BY DEF Num, Words
  <1>3. \A c \in Contexts, r \in Names : Val(c, r) \in Words
    BY DEF Val, Words
  <1>4. \A a \in Areas, n \in Nat : Esp(a, n) \in Words
    BY DEF Esp, Words
  <1>5. \A f \in BOOLEAN, g \in BOOLEAN : Flags(f, g) \in Words
    BY DEF Flags, Words
  <1>6. \A c \in Contexts, l \in Labels : Code(c, l) \in Words
    BY DEF Code, Words
  <1>7. \A n \in Nat : Entry(n) \in Words
    <2>1. KERNEL \in Contexts
      BY ContextFacts
    <2>2. \A n \in Nat : Entry(n) \in {"code"} \X Contexts \X Labels \X Nat
      BY <2>1 DEF Entry, Labels
    <2> QED
      BY <2>2 DEF Words
  <1> QED
    BY <1>1, <1>2, <1>3, <1>4, <1>5, <1>6, <1>7

\* The words of a stack, counted from its bottom and from its top.
LEMMA OnTop ==
    ASSUME NEW s \in Seq(Words), NEW t \in Seq(Words)
    PROVE  /\ s \o t \in Seq(Words) /\ Len(s \o t) = Len(s) + Len(t)
           /\ Len(s) \in Nat /\ Len(t) \in Nat
           /\ Without(s \o t, Len(t)) = s
           /\ \A i \in 1 .. Len(t) : (s \o t)[Len(s \o t) - i + 1] = t[Len(t) - i + 1]
           /\ \A i \in 1 .. Len(t) : (s \o t)[Len(s) + i] = t[i]
           /\ \A i \in 1 .. Len(s) : (s \o t)[i] = s[i]
  <1>1. /\ s \o t \in Seq(Words) /\ Len(s \o t) = Len(s) + Len(t)
        /\ Len(s) \in Nat /\ Len(t) \in Nat
        /\ Without(s \o t, Len(t)) = s
        /\ \A i \in 1 .. Len(t) : (s \o t)[Len(s \o t) - i + 1] = t[Len(t) - i + 1]
    BY Pushing
  <1>2. PICK w : w = s \o t
    OBVIOUS
  <1>3. \A i \in 1 .. Len(s) + Len(t) : w[i] = IF i <= Len(s) THEN s[i] ELSE t[i - Len(s)]
    BY <1>2, ConcatProperties
  <1>4. PICK m \in Nat, n \in Nat : m = Len(s) /\ n = Len(t)
    BY <1>1
  <1>5. \A i \in 1 .. n : w[m + i] = t[i]
    BY <1>3, <1>4
  <1>6. \A i \in 1 .. m : w[i] = s[i]
    BY <1>3, <1>4
  <1> QED
    BY <1>1, <1>2, <1>4, <1>5, <1>6

---------------------------------------------------------------------------
(* Registers pushed and popped.                                            *)

Registers == General \union Segments

LEMMA PushedWords ==
    ASSUME NEW u \in Cpus, NEW order \in Seq(Registers)
    PROVE  /\ PushedOf(u, order) \in Seq(Words)
           /\ Len(PushedOf(u, order)) = Len(order)
           /\ \A i \in 1 .. Len(order) : PushedOf(u, order)[i] = WordOf(u, order[i])
  <1>1. Len(order) \in Nat /\ \A i \in 1 .. Len(order) : order[i] \in Registers
    BY LenProperties, ElementOfSeq
  <1>2. \A r \in Registers : WordOf(u, r) \in Words
    BY WordFacts DEF WordOf, Registers, Cpus
  <1>3. PushedOf(u, order) \in [1 .. Len(order) -> Words]
    BY <1>1, <1>2 DEF PushedOf
  <1>4. PushedOf(u, order) \in Seq(Words)
    BY <1>1, <1>3, SeqDef
  <1>5. Len(PushedOf(u, order)) = Len(order)
    BY <1>1, <1>3, <1>4, LenProperties
  <1> QED
    BY <1>4, <1>5 DEF PushedOf

LEMMA Orders ==
    /\ PushOrder \in Seq(Registers) /\ Len(PushOrder) = 11 /\ Len(PopOrder) = 11
    /\ \A i \in 1 .. 11 : PushOrder[12 - i] = PopOrder[i]
    /\ \A i \in 1 .. 11, j \in 1 .. 11 : PopOrder[i] = PopOrder[j] => i = j
    /\ \A r \in Registers : \E i \in 1 .. 11 : PopOrder[i] = r
    /\ \A i \in 1 .. 11 : PopOrder[i] \in Registers
    /\ <<"ds", "es", "fs", "gs">> \in Seq(Registers) /\ ArgumentOrder \in Seq(Registers)
    /\ Len(<<"ds", "es", "fs", "gs">>) = 4 /\ Len(ArgumentOrder) = 5
  <1>1. PushOrder \in Seq(Registers) /\ Len(PushOrder) = 11 /\ Len(PopOrder) = 11
    BY DEF PushOrder, PopOrder, Registers, General, Segments
  <1>2. \A i \in 1 .. 11 : PushOrder[12 - i] = PopOrder[i]
    BY DEF PushOrder, PopOrder
  <1>3. \A i \in 1 .. 11, j \in 1 .. 11 : PopOrder[i] = PopOrder[j] => i = j
    BY DEF PopOrder
  <1>4. \A r \in Registers : \E i \in 1 .. 11 : PopOrder[i] = r
    BY DEF PopOrder, Registers, General, Segments
  <1>5. \A i \in 1 .. 11 : PopOrder[i] \in Registers
    BY DEF PopOrder, Registers, General, Segments
  <1>6. <<"ds", "es", "fs", "gs">> \in Seq(Registers) /\ Len(<<"ds", "es", "fs", "gs">>) = 4
    BY DEF Registers, Segments
  <1>7. ArgumentOrder \in Seq(Registers) /\ Len(ArgumentOrder) = 5
    BY DEF ArgumentOrder, Registers, General
  <1> QED
    BY <1>1, <1>2, <1>3, <1>4, <1>5, <1>6, <1>7

\* The wrapper's pops undo its pushes.
LEMMA PopsUndoPushes ==
    ASSUME NEW u \in Cpus, NEW s \in Seq(Words), NEW r \in Registers
    PROVE  Popped(PopOrder, s \o PushedOf(u, PushOrder), r) = WordOf(u, r)
  <1> DEFINE t == PushedOf(u, PushOrder)
             words == s \o t
  <1>1. t \in Seq(Words) /\ Len(t) = 11 /\ \A i \in 1 .. 11 : t[i] = WordOf(u, PushOrder[i])
    <2>1. /\ t \in Seq(Words) /\ Len(t) = Len(PushOrder)
          /\ \A i \in 1 .. Len(PushOrder) : t[i] = WordOf(u, PushOrder[i])
      BY PushedWords, Orders
    <2> QED
      BY <2>1, Orders
  <1> HIDE DEF t
  <1>2. PICK k \in 1 .. 11 : PopOrder[k] = r
    BY Orders
  <1>3. (CHOOSE i \in 1 .. Len(PopOrder) :
            PopOrder[i] = r /\ \A j \in i + 1 .. Len(PopOrder) : PopOrder[j] # r) = k
    BY <1>2, Orders
  <1>4. Popped(PopOrder, words, r) = words[Len(words) - k + 1]
    BY <1>3, Zenon DEF Popped
  <1>5. words[Len(words) - k + 1] = t[11 - k + 1]
    <2>1. PICK w : w = words
      OBVIOUS
    <2>3. \A i \in 1 .. Len(t) : (s \o t)[Len(s \o t) - i + 1] = t[Len(t) - i + 1]
      BY <1>1, OnTop
    <2>2. \A i \in 1 .. 11 : w[Len(w) - i + 1] = t[11 - i + 1]
      BY <1>1, <2>1, <2>3
    <2> QED
      BY <1>2, <2>1, <2>2
  <1>6. t[11 - k + 1] = WordOf(u, PushOrder[12 - k])
    BY <1>1, <1>2
  <1>7. PushOrder[12 - k] = r
    BY <1>2, Orders
  <1> QED
    BY <1>4, <1>5, <1>6, <1>7 DEF t

\* What the system call handler pushes, and what its pops make of it.
LEMMA SyscallWordsPushed ==
    ASSUME NEW u \in Cpus
    PROVE  /\ SyscallWords(u) \in Seq(Words) /\ Len(SyscallWords(u)) = 9
           /\ SyscallWords(u)[1] = Sel(u.seg["ds"]) /\ SyscallWords(u)[2] = Sel(u.seg["es"])
           /\ SyscallWords(u)[3] = Sel(u.seg["fs"]) /\ SyscallWords(u)[4] = Sel(u.seg["gs"])
           /\ SyscallWords(u)[5] = u.gen["esi"] /\ SyscallWords(u)[6] = u.gen["edx"]
           /\ SyscallWords(u)[7] = u.gen["ecx"] /\ SyscallWords(u)[8] = u.gen["ebx"]
           /\ SyscallWords(u)[9] = u.gen["eax"]
  <1> DEFINE a == PushedOf(u, <<"ds", "es", "fs", "gs">>)
             b == PushedOf(u, ArgumentOrder)
  <1>1. /\ a \in Seq(Words) /\ Len(a) = 4
        /\ \A i \in 1 .. 4 : a[i] = WordOf(u, <<"ds", "es", "fs", "gs">>[i])
    BY PushedWords, Orders
  <1>2. /\ b \in Seq(Words) /\ Len(b) = 5
        /\ \A i \in 1 .. 5 : b[i] = WordOf(u, ArgumentOrder[i])
    <2>1. /\ b \in Seq(Words) /\ Len(b) = Len(ArgumentOrder)
          /\ \A i \in 1 .. Len(ArgumentOrder) : b[i] = WordOf(u, ArgumentOrder[i])
      BY PushedWords, Orders
    <2> QED
      BY <2>1, Orders
  <1>3. /\ a[1] = Sel(u.seg["ds"]) /\ a[2] = Sel(u.seg["es"])
        /\ a[3] = Sel(u.seg["fs"]) /\ a[4] = Sel(u.seg["gs"])
    BY <1>1 DEF WordOf, Segments
  <1>4. /\ b[1] = u.gen["esi"] /\ b[2] = u.gen["edx"] /\ b[3] = u.gen["ecx"]
        /\ b[4] = u.gen["ebx"] /\ b[5] = u.gen["eax"]
    BY <1>2 DEF WordOf, ArgumentOrder, Segments
  <1> HIDE DEF a, b
  <1>5. /\ a \o b \in Seq(Words) /\ Len(a \o b) = 9
        /\ (a \o b)[1] = a[1] /\ (a \o b)[2] = a[2] /\ (a \o b)[3] = a[3]
        /\ (a \o b)[4] = a[4] /\ (a \o b)[5] = b[1] /\ (a \o b)[6] = b[2]
        /\ (a \o b)[7] = b[3] /\ (a \o b)[8] = b[4] /\ (a \o b)[9] = b[5]
    <2>1. PICK w : w = a \o b
      OBVIOUS
    <2>2. /\ w \in Seq(Words) /\ Len(w) = Len(a) + 5
          /\ \A i \in 1 .. 5 : w[Len(a) + i] = b[i]
          /\ \A i \in 1 .. Len(a) : w[i] = a[i]
      <3>1. /\ a \o b \in Seq(Words) /\ Len(a \o b) = Len(a) + Len(b)
            /\ \A i \in 1 .. Len(b) : (a \o b)[Len(a) + i] = b[i]
            /\ \A i \in 1 .. Len(a) : (a \o b)[i] = a[i]
        BY <1>1, <1>2, OnTop
      <3> QED
        BY <1>2, <2>1, <3>1
    <2>3. /\ Len(w) = 9 /\ \A i \in 1 .. 5 : w[4 + i] = b[i]
          /\ \A i \in 1 .. 4 : w[i] = a[i]
      BY <1>1, <2>2
    <2> QED
      BY <2>1, <2>2, <2>3
  <1>6. SyscallWords(u) = a \o b
    BY DEF SyscallWords, a, b
  <1> QED
    BY <1>3, <1>4, <1>5, <1>6

LEMMA SyscallPopped ==
    ASSUME NEW u \in Cpus, NEW s \in Seq(Words)
    PROVE  LET words == s \o SyscallWords(u)
           IN  /\ \A r \in Segments : Popped(SyscallPops, words, r) = Sel(u.seg[r])
               /\ Popped(SyscallPops, words, "ebx") = u.gen["esi"]
               /\ Len(words) >= Len(SyscallPops) /\ Without(words, Len(SyscallPops)) = s
               /\ Among(SyscallPops) = Segments \union {"ebx"}
  <1> DEFINE t == SyscallWords(u)
             words == s \o t
             last(r) == CHOOSE i \in 1 .. Len(SyscallPops) :
                            SyscallPops[i] = r
                            /\ \A j \in i + 1 .. Len(SyscallPops) : SyscallPops[j] # r
  <1>1. Len(SyscallPops) = 9
    BY DEF SyscallPops
  <1>2. /\ SyscallPops[1] = "ebx" /\ SyscallPops[2] = "ebx" /\ SyscallPops[3] = "ebx"
        /\ SyscallPops[4] = "ebx" /\ SyscallPops[5] = "ebx" /\ SyscallPops[6] = "gs"
        /\ SyscallPops[7] = "fs" /\ SyscallPops[8] = "es" /\ SyscallPops[9] = "ds"
    BY DEF SyscallPops
  <1>3. last("ebx") = 5
    BY <1>1, <1>2
  <1>4. last("gs") = 6 /\ last("fs") = 7
    BY <1>1, <1>2
  <1>5. last("es") = 8 /\ last("ds") = 9
    BY <1>1, <1>2
  <1>6. t \in Seq(Words) /\ Len(t) = 9
    BY SyscallWordsPushed
  <1>7. /\ Len(words) = Len(s) + 9 /\ Len(s) \in Nat /\ Without(words, 9) = s
        /\ \A i \in 1 .. 9 : words[Len(words) - i + 1] = t[9 - i + 1]
    <2> HIDE DEF t
    <2>1. PICK w : w = words
      OBVIOUS
    <2>2. /\ Len(w) = Len(s) + 9 /\ Len(s) \in Nat /\ Without(w, 9) = s
          /\ \A i \in 1 .. 9 : w[Len(w) - i + 1] = t[9 - i + 1]
      <3>1. /\ Len(s \o t) = Len(s) + Len(t) /\ Len(s) \in Nat /\ Without(s \o t, Len(t)) = s
            /\ \A i \in 1 .. Len(t) : (s \o t)[Len(s \o t) - i + 1] = t[Len(t) - i + 1]
        BY <1>6, OnTop
      <3> QED
        BY <1>6, <2>1, <3>1
    <2> QED
      BY <2>1, <2>2
  <1>8. \A r : Popped(SyscallPops, words, r) = words[Len(words) - last(r) + 1]
    BY Zenon DEF Popped
  <1> HIDE DEF last, t
  <1>9. /\ words[Len(words) - 5 + 1] = t[5] /\ words[Len(words) - 6 + 1] = t[4]
        /\ words[Len(words) - 7 + 1] = t[3] /\ words[Len(words) - 8 + 1] = t[2]
        /\ words[Len(words) - 9 + 1] = t[1]
    <2>1. PICK w : w = words
      OBVIOUS
    <2>2. \A i \in 1 .. 9 : w[Len(w) - i + 1] = t[9 - i + 1]
      BY <1>7, <2>1
    <2>3. /\ w[Len(w) - 5 + 1] = t[5] /\ w[Len(w) - 6 + 1] = t[4]
          /\ w[Len(w) - 7 + 1] = t[3] /\ w[Len(w) - 8 + 1] = t[2]
          /\ w[Len(w) - 9 + 1] = t[1]
      BY <2>2
    <2> QED
      BY <2>1, <2>3
  <1>10. /\ Popped(SyscallPops, words, "ebx") = t[5] /\ Popped(SyscallPops, words, "gs") = t[4]
         /\ Popped(SyscallPops, words, "fs") = t[3] /\ Popped(SyscallPops, words, "es") = t[2]
         /\ Popped(SyscallPops, words, "ds") = t[1]
    <2> HIDE DEF words
    <2> QED
      BY <1>3, <1>4, <1>5, <1>8, <1>9
  <1>11. /\ Popped(SyscallPops, words, "ebx") = u.gen["esi"]
         /\ \A r \in Segments : Popped(SyscallPops, words, r) = Sel(u.seg[r])
    <2> HIDE DEF words
    <2> QED
      BY <1>10, SyscallWordsPushed DEF t, Segments
  <1>12. Among(SyscallPops) = Segments \union {"ebx"}
    <2>1. Among(SyscallPops) = {SyscallPops[i] : i \in 1 .. 9}
      BY <1>1 DEF Among
    <2> QED
      BY <1>2, <2>1 DEF Segments
  <1> QED
    BY <1>1, <1>7, <1>11, <1>12 DEF t

---------------------------------------------------------------------------
(* What an entry leaves on the stack.                                      *)

LEMMA FrameShape ==
    ASSUME NEW s \in States
    PROVE  LET f == Frame(s)
               n == Len(f)
           IN  /\ f \in Seq(Words) /\ n \in Nat /\ n >= 3
               /\ f[n] = s.cpu.eip /\ f[n - 1] = Sel(s.cpu.cs)
               /\ f[n - 2] = Flags(s.cpu.iflag, s.cpu.nt)
               /\ Outer(s) \in Seq(Words) /\ Without(f, 3) = Outer(s)
               /\ FromUser(s.cpu) =>
                    /\ n = 5 /\ f[n - 3] = Esp(s.cpu.area, Len(s.words))
                    /\ f[n - 4] = Sel(s.cpu.ss)
  <1> DEFINE t == <<Flags(s.cpu.iflag, s.cpu.nt), Sel(s.cpu.cs), s.cpu.eip>>
  <1>1. s.cpu \in Cpus /\ s.words \in Seq(Words) /\ Len(s.words) \in Nat
    BY LenProperties DEF States
  <1>2. t \in Seq(Words) /\ Len(t) = 3
    BY <1>1, WordFacts DEF Cpus
  <1>3. t[1] = Flags(s.cpu.iflag, s.cpu.nt) /\ t[2] = Sel(s.cpu.cs) /\ t[3] = s.cpu.eip
    OBVIOUS
  <1>4. Outer(s) \in Seq(Words)
    BY <1>1, WordFacts DEF Outer, Cpus
  <1>5. FromUser(s.cpu) => /\ Len(Outer(s)) = 2 /\ Outer(s)[1] = Sel(s.cpu.ss)
                           /\ Outer(s)[2] = Esp(s.cpu.area, Len(s.words))
    BY DEF Outer
  <1>6. PICK o : o = Outer(s)
    OBVIOUS
  <1>7. PICK f : f = o \o t
    OBVIOUS
  <1> HIDE DEF t
  <1>8. /\ o \o t \in Seq(Words) /\ Len(o \o t) = Len(o) + Len(t)
        /\ Len(o) \in Nat /\ Without(o \o t, Len(t)) = o
        /\ \A i \in 1 .. Len(t) : (o \o t)[Len(o) + i] = t[i]
        /\ \A i \in 1 .. Len(o) : (o \o t)[i] = o[i]
    BY <1>2, <1>4, <1>6, OnTop
  <1>9. PICK m \in Nat : m = Len(o)
    BY <1>8
  <1>10. /\ f \in Seq(Words) /\ Len(f) = m + 3 /\ Without(f, 3) = o
         /\ f[m + 1] = t[1] /\ f[m + 2] = t[2] /\ f[m + 3] = t[3]
    BY <1>2, <1>7, <1>8, <1>9
  <1>11. FromUser(s.cpu) => m = 2 /\ f[1] = o[1] /\ f[2] = o[2]
    BY <1>5, <1>6, <1>7, <1>8, <1>9
  <1>12. f = Frame(s)
    BY <1>6, <1>7 DEF Frame, t
  <1>13. PICK n \in Nat : n = Len(f) /\ n = m + 3
    BY <1>9, <1>10
  <1>14. f[n] = t[3] /\ f[n - 1] = t[2] /\ f[n - 2] = t[1]
    BY <1>10, <1>13
  <1>15. FromUser(s.cpu) => n = 5 /\ f[n - 3] = o[2] /\ f[n - 4] = o[1]
    BY <1>11, <1>13
  <1>16. n >= 3
    BY <1>13
  <1> QED
    BY <1>3, <1>4, <1>5, <1>6, <1>10, <1>12, <1>13, <1>14, <1>15, <1>16

LEMMA Pairing ==
    ASSUME NEW a \in Words, NEW b \in Words
    PROVE  <<a>> \o <<b>> = <<a, b>>
  <1>1. PICK s : s = <<a>>
    OBVIOUS
  <1>2. PICK t : t = <<b>>
    OBVIOUS
  <1>3. s \in Seq(Words) /\ Len(s) = 1 /\ s[1] = a
    BY <1>1
  <1>4. t \in Seq(Words) /\ Len(t) = 1 /\ t[1] = b
    BY <1>2
  <1>5. /\ s \o t \in Seq(Words) /\ Len(s \o t) = Len(s) + Len(t)
        /\ \A i \in 1 .. Len(t) : (s \o t)[Len(s) + i] = t[i]
        /\ \A i \in 1 .. Len(s) : (s \o t)[i] = s[i]
    BY <1>3, <1>4, OnTop
  <1>6. PICK w : w = s \o t
    OBVIOUS
  <1>7. PICK v : v = <<a, b>>
    OBVIOUS
  <1>8. w \in Seq(Words) /\ Len(w) = 2 /\ w[1] = a /\ w[2] = b
    BY <1>3, <1>4, <1>5, <1>6
  <1>9. v \in Seq(Words) /\ Len(v) = 2 /\ v[1] = a /\ v[2] = b
    BY <1>7
  <1>10. \A i \in 1 .. Len(w) : w[i] = v[i]
    BY <1>8, <1>9
  <1>11. w = v
    BY <1>8, <1>9, <1>10, SeqEqual
  <1> QED
    BY <1>1, <1>2, <1>6, <1>7, <1>11

LEMMA Associative ==
    \A s \in Seq(Words), t \in Seq(Words), u \in Seq(Words) : (s \o t) \o u = s \o (t \o u)
  <1> SUFFICES ASSUME NEW s \in Seq(Words), NEW t \in Seq(Words), NEW u \in Seq(Words)
               PROVE  (s \o t) \o u = s \o (t \o u)
    OBVIOUS
  <1> QED
    BY ConcatAssociative

\* What is between the frame and the registers: always two words.
LEMMA HeaderShape ==
    ASSUME NEW n \in Installed \ {SYSCALL}
    PROVE  /\ ErrorCode(n) \in Seq(Words) /\ Header(n) \in Seq(Words)
           /\ Len(ErrorCode(n) \o Header(n)) = 2
           /\ (ErrorCode(n) \o Header(n))[2] = Num(Number(n))
  <1>1. Number(n) \in Nat
    BY DEF Number, Installed, Exceptions, IRQ_REMAP_OFFSET, IRQ_FIRST, IRQ_LAST
  <1>2. Val(KERNEL, "error_code") \in Words /\ Num(0) \in Words /\ Num(Number(n)) \in Words
    BY <1>1, WordFacts, ContextFacts DEF Names
  <1>3. CASE n \in WithCode
    <2>1. ErrorCode(n) = <<Val(KERNEL, "error_code")>>
      BY <1>3 DEF ErrorCode, HasErrorCode, WithCode
    <2>2. Header(n) = <<>> \o <<Num(Number(n))>>
      BY <1>3 DEF Header
    <2>3. <<Num(Number(n))>> \in Seq(Words)
      BY <1>2
    <2>4. Header(n) = <<Num(Number(n))>>
      BY <2>2, <2>3, ConcatEmptySeq
    <2>5. ErrorCode(n) \o Header(n) = <<Val(KERNEL, "error_code"), Num(Number(n))>>
      BY <1>2, <2>1, <2>4, Pairing
    <2> QED
      BY <1>2, <2>1, <2>4, <2>5
  <1>4. CASE n \notin WithCode
    <2>1. ErrorCode(n) = <<>>
      BY <1>4 DEF ErrorCode, HasErrorCode, WithCode
    <2>2. Header(n) = <<Num(0)>> \o <<Num(Number(n))>>
      BY <1>4 DEF Header
    <2>3. Header(n) = <<Num(0), Num(Number(n))>>
      BY <1>2, <2>2, Pairing
    <2>4. Header(n) \in Seq(Words)
      BY <1>2, <2>3
    <2>5. ErrorCode(n) \o Header(n) = <<Num(0), Num(Number(n))>>
      BY <2>1, <2>3, <2>4, ConcatEmptySeq
    <2> QED
      BY <1>2, <2>1, <2>4, <2>5
  <1> QED
    BY <1>3, <1>4

\* The wrapper's stack: the frame, two words, and the registers.
LEMMA WrapperShape ==
    ASSUME NEW s \in States, NEW n \in Installed \ {SYSCALL}
    PROVE  LET w == WrapperWords(s, n)
           IN  /\ w \in Seq(Words) /\ Len(w) \in Nat /\ Len(w) >= 16
               /\ Without(w, 13) = Frame(s)
               /\ \A r \in Registers : Popped(PopOrder, w, r) = WordOf(s.cpu, r)
               /\ \A i \in 1 .. 11 : w[Len(w) - i + 1] = WordOf(s.cpu, PopOrder[i])
               /\ w[Len(w) - 11] = Num(Number(n))
               /\ w[Len(w) - 13] = s.cpu.eip /\ w[Len(w) - 14] = Sel(s.cpu.cs)
               /\ w[Len(w) - 15] = Flags(s.cpu.iflag, s.cpu.nt)
  <1>1. s.cpu \in Cpus
    BY DEF States
  <1> DEFINE f == Frame(s)
             e == ErrorCode(n)
             h == Header(n)
             p == PushedOf(s.cpu, PushOrder)
  <1>2. f \in Seq(Words) /\ Len(f) \in Nat /\ Len(f) >= 3
    BY FrameShape
  <1>3. /\ e \in Seq(Words) /\ h \in Seq(Words) /\ Len(e \o h) = 2
        /\ (e \o h)[2] = Num(Number(n))
    BY HeaderShape
  <1>4. /\ p \in Seq(Words) /\ Len(p) = Len(PushOrder)
        /\ \A i \in 1 .. Len(PushOrder) : p[i] = WordOf(s.cpu, PushOrder[i])
    BY <1>1, PushedWords, Orders
  <1>5. Len(p) = 11 /\ \A i \in 1 .. 11 : p[i] = WordOf(s.cpu, PushOrder[i])
    BY <1>4, Orders
  <1>6. WrapperWords(s, n) = ((f \o e) \o h) \o p
    BY DEF WrapperWords
  <1>7. \A r \in Registers : Popped(PopOrder, ((f \o e) \o h) \o p, r) = WordOf(s.cpu, r)
    <2>1. (f \o e) \o h \in Seq(Words)
      BY <1>2, <1>3, ConcatProperties
    <2> QED
      BY <1>1, <2>1, PopsUndoPushes
  <1> HIDE DEF f, e, h, p
  <1>8. PICK g : g = e \o h
    OBVIOUS
  <1>9. g \in Seq(Words) /\ Len(g) = 2 /\ g[2] = Num(Number(n))
    BY <1>3, <1>8, ConcatProperties
  <1>10. ((f \o e) \o h) \o p = f \o (g \o p)
    <2>1. (f \o e) \o h = f \o (e \o h)
      BY <1>2, <1>3, Associative
    <2>2. (f \o g) \o p = f \o (g \o p)
      BY <1>2, <1>4, <1>9, Associative
    <2> QED
      BY <1>8, <2>1, <2>2
  <1>11. PICK t : t = g \o p
    OBVIOUS
  <1>12. t \in Seq(Words) /\ Len(t) = 13 /\ t[2] = Num(Number(n)) /\ \A i \in 1 .. 11 : t[2 + i] = p[i]
    <2>1. /\ g \o p \in Seq(Words) /\ Len(g \o p) = Len(g) + Len(p)
          /\ \A i \in 1 .. Len(p) : (g \o p)[Len(g) + i] = p[i]
          /\ \A i \in 1 .. Len(g) : (g \o p)[i] = g[i]
      BY <1>4, <1>9, OnTop
    <2>4. /\ Len(t) = Len(g) + Len(p) /\ \A i \in 1 .. Len(p) : t[Len(g) + i] = p[i]
      BY <1>11, <2>1
    <2>2. Len(t) = 13 /\ \A i \in 1 .. 11 : t[2 + i] = p[i]
      BY <1>5, <1>9, <2>4
    <2>3. t[2] = g[2]
      BY <1>9, <1>11, <2>1
    <2> QED
      BY <1>9, <1>11, <2>1, <2>2, <2>3
  <1>13. PICK w : w = f \o t
    OBVIOUS
  <1>14. PICK m \in Nat : m = Len(f) /\ m >= 3
    BY <1>2
  <1>15. /\ w \in Seq(Words) /\ Len(w) = m + 13 /\ Without(w, 13) = f
         /\ \A i \in 1 .. 13 : w[m + i] = t[i]
         /\ \A i \in 1 .. m : w[i] = f[i]
    <2>1. /\ f \o t \in Seq(Words) /\ Len(f \o t) = Len(f) + Len(t)
          /\ Without(f \o t, Len(t)) = f
          /\ \A i \in 1 .. Len(t) : (f \o t)[Len(f) + i] = t[i]
          /\ \A i \in 1 .. Len(f) : (f \o t)[i] = f[i]
      BY <1>2, <1>12, OnTop
    <2> QED
      BY <1>12, <1>13, <1>14, <2>1
  <1>16. PICK k \in Nat : k = Len(w) /\ k = m + 13
    BY <1>14, <1>15
  <1>17. \A i \in 1 .. 11 : w[k - i + 1] = WordOf(s.cpu, PopOrder[i])
    <2> TAKE i \in 1 .. 11
    <2>1. k - i + 1 = m + (14 - i) /\ 14 - i \in 1 .. 13 /\ 14 - i = 2 + (12 - i) /\ 12 - i \in 1 .. 11
      BY <1>16
    <2>2. w[k - i + 1] = t[14 - i]
      BY <1>15, <2>1
    <2>3. t[14 - i] = p[12 - i]
      BY <1>12, <2>1
    <2>4. p[12 - i] = WordOf(s.cpu, PushOrder[12 - i])
      BY <1>5, <2>1
    <2> QED
      BY <2>2, <2>3, <2>4, Orders
  <1>18. w[k - 11] = Num(Number(n))
    <2>1. k - 11 = m + 2
      BY <1>16
    <2> QED
      BY <1>12, <1>15, <2>1
  <1>19. w[k - 13] = f[m] /\ w[k - 14] = f[m - 1] /\ w[k - 15] = f[m - 2]
    <2>1. k - 13 = m /\ k - 14 = m - 1 /\ k - 15 = m - 2
      BY <1>16
    <2>2. m \in 1 .. m /\ m - 1 \in 1 .. m /\ m - 2 \in 1 .. m
      BY <1>14
    <2>3. w[m] = f[m] /\ w[m - 1] = f[m - 1] /\ w[m - 2] = f[m - 2]
      BY <1>15, <2>2
    <2> QED
      BY <2>1, <2>3
  <1>20. f[m] = s.cpu.eip /\ f[m - 1] = Sel(s.cpu.cs) /\ f[m - 2] = Flags(s.cpu.iflag, s.cpu.nt)
    BY <1>14, FrameShape DEF f
  <1>21. w = WrapperWords(s, n)
    BY <1>6, <1>10, <1>11, <1>13
  <1>22. k >= 16
    BY <1>14, <1>16
  <1>23. \A r \in Registers : Popped(PopOrder, w, r) = WordOf(s.cpu, r)
    BY <1>7, <1>10, <1>11, <1>13
  <1> QED
    BY <1>15, <1>16, <1>17, <1>18, <1>19, <1>20, <1>21, <1>22, <1>23 DEF f

---------------------------------------------------------------------------
(* Where an activation can be.                                             *)

LEMMA UserShape ==
    ASSUME NEW c \in Slots, NEW u, NEW w, UserState(c, u, w)
    PROVE  /\ UserRegs(u) /\ FromUser(u) /\ u.area = User(c) /\ Ctx(u) = c
           /\ u.eip[1] = "code" /\ u.eip[2] = c /\ c # KERNEL
           /\ \E l \in {"entry", "main", "exit", "int48", "stub"} : u.eip = Code(c, l)
  <1>1. UserRegs(u) /\ u.area = User(c)
    BY DEF UserState
  <1>2. FromUser(u)
    BY <1>1 DEF UserRegs, FromUser
  <1>3. Ctx(u) = c
    BY <1>1, AreaFacts DEF Ctx
  <1>4. \E l \in {"entry", "main", "exit", "int48", "stub"} : u.eip = Code(c, l)
    BY DEF UserState
  <1>5. u.eip[1] = "code" /\ u.eip[2] = c
    BY <1>4, CodeFacts
  <1> QED
    BY <1>1, <1>2, <1>3, <1>4, <1>5, ContextFacts

KernelShape(u) ==
    /\ KernelRegs(u) /\ ~FromUser(u) /\ Ctx(u) \in Contexts /\ u.area = KernelStack(Ctx(u))
    /\ u.eip[1] = "code" /\ u.eip[2] = KERNEL

LEMMA NotFromUser ==
    ASSUME NEW u, KernelRegs(u)
    PROVE  ~FromUser(u)
  BY DEF KernelRegs, FromUser, GDT_KERNEL_CODE_SELECTOR, GDT_USER_CODE_SELECTOR, DPL_KERNEL,
         DPL_USER

LEMMA MainShape ==
    ASSUME NEW u, NEW w, MainState(u, w)
    PROVE  /\ KernelShape(u) /\ Ctx(u) = KERNEL
           /\ \E l \in {"kernel_main", "task_switch", "task_free", "halt", "sti", "hlt"} :
                  u.eip = Code(KERNEL, l)
  <1>1. KernelRegs(u) /\ u.area = Boot
    BY DEF MainState
  <1>2. Ctx(u) = KERNEL /\ KERNEL \in Contexts /\ u.area = KernelStack(Ctx(u))
    BY <1>1, AreaFacts, ContextFacts DEF Ctx, KernelStack
  <1>3. \E l \in {"kernel_main", "task_switch", "task_free", "halt", "sti", "hlt"} :
            u.eip = Code(KERNEL, l)
    BY DEF MainState
  <1>4. u.eip[1] = "code" /\ u.eip[2] = KERNEL
    BY <1>3, CodeFacts
  <1> QED
    BY <1>1, <1>2, <1>3, <1>4, NotFromUser DEF KernelShape

LEMMA EntryTypes ==
    ASSUME NEW e \in Entries, Began(e)
    PROVE  /\ e.was \in States /\ e.was.cpu \in Cpus /\ e.was.words \in Seq(Words)
           /\ Ctx(e.was.cpu) \in Contexts
           /\ e.asked[1] \in {"call", "int", "irq", "fault"}
           /\ e.asked[1] = "call" => e.asked[2] \in Slots
           /\ e.asked[1] = "int" => e.asked = <<"int", SYSCALL>> /\ Ctx(e.was.cpu) \in Slots
           /\ e.asked[1] = "fault" => e.asked[2] \in Exceptions /\ Ctx(e.was.cpu) \in Slots
           /\ e.asked[1] = "irq" => e.asked[2] \in IRQ_FIRST .. IRQ_LAST
           /\ e.asked[1] \in {"irq", "fault"} => VectorOf(e.asked) \in Installed \ {SYSCALL}
  <1>1. e.was \in States /\ e.was.cpu \in Cpus /\ e.was.words \in Seq(Words)
    BY DEF Entries, States
  <1>2. e.was.cpu.area \in Areas
    BY <1>1 DEF Cpus
  <1>3. Ctx(e.was.cpu) \in Contexts
    BY <1>2, AreaOwner DEF Ctx
  <1>4. /\ e.asked[1] \in {"call", "int", "irq", "fault"}
        /\ e.asked[1] = "call" => e.asked[2] \in Slots
        /\ e.asked[1] = "int" => e.asked = <<"int", SYSCALL>> /\ Ctx(e.was.cpu) \in Slots
        /\ e.asked[1] = "fault" => e.asked[2] \in Exceptions /\ Ctx(e.was.cpu) \in Slots
        /\ e.asked[1] = "irq" => e.asked[2] \in IRQ_FIRST .. IRQ_LAST
    BY DEF Began
  <1>5. e.asked[1] \in {"irq", "fault"} => VectorOf(e.asked) \in Installed \ {SYSCALL}
    BY <1>4 DEF VectorOf, Installed, IRQ_REMAP_OFFSET, IRQ_FIRST, IRQ_LAST, SYSCALL, Exceptions
  <1> QED
    BY <1>1, <1>3, <1>4, <1>5

LEMMA SysShape ==
    ASSUME NEW e \in Entries, Began(e), NEW u, NEW w, e.asked[1] = "int", SysState(e.was, u, w)
    PROVE  /\ KernelShape(u) /\ Ctx(u) = Ctx(e.was.cpu)
           /\ \/ u.eip = Entry(SYSCALL)
              \/ \E l \in {"syscall_handler", "task_switch", "task_free", "syscall_exit",
                           "syscall_iret"} : u.eip = Code(KERNEL, l)
  <1>1. KernelRegs(u) /\ u.area = Kernel(Ctx(e.was.cpu)) /\ Ctx(e.was.cpu) \in Slots
    BY EntryTypes DEF SysState
  <1>2. Ctx(u) = Ctx(e.was.cpu) /\ Ctx(u) \in Contexts /\ u.area = KernelStack(Ctx(u))
    BY <1>1, AreaFacts, ContextFacts DEF Ctx
  <1>3. \/ u.eip = Entry(SYSCALL)
        \/ \E l \in {"syscall_handler", "task_switch", "task_free", "syscall_exit",
                     "syscall_iret"} : u.eip = Code(KERNEL, l)
    BY DEF SysState
  <1>4. u.eip[1] = "code" /\ u.eip[2] = KERNEL
    BY <1>3, CodeFacts
  <1> QED
    BY <1>1, <1>2, <1>3, <1>4, NotFromUser DEF KernelShape

LEMMA HandlerShape ==
    ASSUME NEW e \in Entries, Began(e), NEW u, NEW w, e.asked[1] \in {"irq", "fault"},
           HandlerState(e, u, w)
    PROVE  /\ KernelShape(u) /\ Ctx(u) = Ctx(e.was.cpu)
           /\ \/ u.eip = Entry(VectorOf(e.asked))
              \/ u.eip = Code(KERNEL, HandlerLabel(e.asked))
              \/ u.eip = Code(KERNEL, ExitLabel(e.asked))
  <1>1. KernelRegs(u) /\ u.area = KernelStack(Ctx(e.was.cpu)) /\ Ctx(e.was.cpu) \in Contexts
    BY EntryTypes DEF HandlerState
  <1>2. Ctx(u) = Ctx(e.was.cpu) /\ Ctx(u) \in Contexts /\ u.area = KernelStack(Ctx(u))
    BY <1>1, AreaFacts DEF Ctx
  <1>3. \/ u.eip = Entry(VectorOf(e.asked))
        \/ u.eip = Code(KERNEL, HandlerLabel(e.asked))
        \/ u.eip = Code(KERNEL, ExitLabel(e.asked))
    BY DEF HandlerState
  <1>4. u.eip[1] = "code" /\ u.eip[2] = KERNEL
    BY <1>3, CodeFacts
  <1> QED
    BY <1>1, <1>2, <1>3, <1>4, NotFromUser DEF KernelShape

\* What is known of the activation that e began, from where it is.
LEMMA WhereAfter ==
    ASSUME NEW e \in Entries, Began(e), NEW u, NEW w, After(e, u, w)
    PROVE  /\ \A l : u.eip = Code(KERNEL, l) =>
                /\ l \in {"syscall_handler", "task_switch", "task_free", "syscall_exit",
                          "syscall_iret"} <=> e.asked[1] = "int" /\ l # "entry"
                /\ l \in {"exception_handler", "exception_exit"} => e.asked[1] = "fault"
                /\ l \in {"irq_handler", "irq_exit"} => e.asked[1] = "irq"
                /\ l \notin {"sti", "kernel_main", "halt", "hlt", "gdt_init", "idt_init",
                             "tasks_init"}
           /\ \A n : u.eip = Entry(n) =>
                IF n = SYSCALL THEN e.asked[1] = "int"
                ELSE e.asked[1] \in {"irq", "fault"} /\ n = VectorOf(e.asked)
           /\ u.eip[2] # KERNEL => e.asked[1] = "call"
  <1>1. CASE e.asked[1] = "call"
    <2>1. e.asked[2] \in Slots /\ UserState(e.asked[2], u, w)
      BY <1>1, EntryTypes DEF After
    <2>2. u.eip[2] # KERNEL
      BY <2>1, UserShape
    <2> QED
      BY <1>1, <2>2, CodeFacts
  <1>2. CASE e.asked[1] = "int"
    <2>1. SysState(e.was, u, w)
      BY <1>2 DEF After
    <2>2. /\ u.eip[2] = KERNEL
          /\ \/ u.eip = Entry(SYSCALL)
             \/ \E l \in {"syscall_handler", "task_switch", "task_free", "syscall_exit",
                          "syscall_iret"} : u.eip = Code(KERNEL, l)
      BY <1>2, <2>1, SysShape DEF KernelShape
    <2>3. \A n : u.eip = Entry(n) => n = SYSCALL
      BY <2>2, CodeFacts
    <2>4. \A l : u.eip = Code(KERNEL, l) =>
              l \in {"syscall_handler", "task_switch", "task_free", "syscall_exit", "syscall_iret"}
      BY <2>2, CodeFacts DEF SYSCALL
    <2> QED
      BY <1>2, <2>2, <2>3, <2>4
  <1>3. CASE e.asked[1] \in {"irq", "fault"}
    <2>1. HandlerState(e, u, w)
      BY <1>3 DEF After
    <2>2. /\ u.eip[2] = KERNEL
          /\ \/ u.eip = Entry(VectorOf(e.asked))
             \/ u.eip = Code(KERNEL, HandlerLabel(e.asked))
             \/ u.eip = Code(KERNEL, ExitLabel(e.asked))
      BY <1>3, <2>1, HandlerShape DEF KernelShape
    <2>3. VectorOf(e.asked) # SYSCALL
      BY <1>3, EntryTypes
    <2>4. HandlerLabel(e.asked) # "entry" /\ ExitLabel(e.asked) # "entry"
      BY DEF HandlerLabel, ExitLabel
    <2>5. \A n : u.eip = Entry(n) => n = VectorOf(e.asked)
      BY <2>2, <2>4, CodeFacts
    <2>6. \A l : u.eip = Code(KERNEL, l) =>
              l = "entry" \/ l = HandlerLabel(e.asked) \/ l = ExitLabel(e.asked)
      BY <2>2, CodeFacts
    <2> QED
      BY <1>3, <2>2, <2>3, <2>5, <2>6 DEF HandlerLabel, ExitLabel
  <1> QED
    BY <1>1, <1>2, <1>3, EntryTypes

---------------------------------------------------------------------------
(* The processor's operations, in a state of the invariant.                *)

LEMMA AboveShape ==
    ASSUME Types, Nested, NEW i \in 0 .. Len(taken), NEW u, NEW w, Above(i, u, w)
    PROVE  \/ KernelShape(u)
           \/ /\ i \in 1 .. Len(taken) /\ Called(i) /\ Callee(i) \in Slots
              /\ UserState(Callee(i), u, w)
  <1>1. CASE i = 0
    BY <1>1, MainShape DEF Above
  <1>2. CASE i # 0
    <2>1. i \in 1 .. Len(taken) /\ taken[i] \in Entries /\ Began(taken[i])
      BY <1>2, ElementOfSeq, LenProperties DEF Types, Nested
    <2>2. After(taken[i], u, w)
      BY <1>2 DEF Above
    <2>3. CASE taken[i].asked[1] = "call"
      BY <2>1, <2>2, <2>3, EntryTypes DEF After, Called, Callee
    <2>4. CASE taken[i].asked[1] = "int"
      BY <2>1, <2>2, <2>4, SysShape DEF After
    <2>5. CASE taken[i].asked[1] \in {"irq", "fault"}
      BY <2>1, <2>2, <2>5, HandlerShape DEF After
    <2> QED
      BY <2>1, <2>3, <2>4, <2>5, EntryTypes
  <1> QED
    BY <1>1, <1>2

\* The context that runs, and in which of the two modes.
LEMMA Here ==
    ASSUME Types, Nested, Tables
    PROVE  /\ Ctx(cpu) \in Contexts /\ Ctx(cpu) \in Live /\ Current = Ctx(cpu)
           /\ ContextAt(tr) = {Ctx(cpu)} /\ Index(tr) = TssIndex(Ctx(cpu))
           /\ cpu.area \in Areas /\ Stk \in Seq(Words) /\ Len(Stk) \in Nat
           /\ cpu.eip[1] = "code"
           /\ \/ KernelShape(cpu) /\ Cpl = 0
              \/ /\ Ctx(cpu) \in Slots /\ UserState(Ctx(cpu), cpu, Stk) /\ Cpl = 3
                 /\ Len(taken) \in Nat \ {0} /\ Called(Len(taken))
                 /\ Callee(Len(taken)) = Ctx(cpu)
  <1>1. cpu.area \in Areas
    BY DEF Types, Cpus
  <1>2. Ctx(cpu) \in Contexts
    BY <1>1, AreaOwner DEF Ctx
  <1>3. tr = Selector(Ctx(cpu)) /\ Ctx(cpu) \in Live
    BY DEF Tables
  <1>4. gdt[TssIndex(Ctx(cpu))] = TssEntry(Ctx(cpu), TYPE_TSS_BUSY)
    BY <1>3 DEF Tables
  <1>5. ContextAt(tr) = {Ctx(cpu)} /\ Index(tr) = TssIndex(Ctx(cpu))
    BY <1>2, <1>3, <1>4, TssFound
  <1>6. Current = Ctx(cpu)
    BY <1>5 DEF Current
  <1>7. Stk \in Seq(Words) /\ Len(Stk) \in Nat
    BY <1>1, LenProperties DEF Types, Stk
  <1>8. Len(taken) \in Nat
    BY LenProperties DEF Types
  <1>9. Above(Len(taken), cpu, Stk)
    BY DEF Nested
  <1>10. Rpl(GDT_KERNEL_CODE_SELECTOR) = 0 /\ Rpl(GDT_USER_CODE_SELECTOR) = 3
    BY SegmentsLoadable DEF Tables
  <1>11. CASE KernelShape(cpu)
    <2>1. Cpl = 0 /\ cpu.eip[1] = "code"
      BY <1>10, <1>11 DEF KernelShape, KernelRegs, Cpl
    <2> QED
      BY <1>1, <1>2, <1>3, <1>5, <1>6, <1>7, <1>11, <2>1
  <1>12. CASE /\ Len(taken) \in 1 .. Len(taken) /\ Called(Len(taken)) /\ Callee(Len(taken)) \in Slots
              /\ UserState(Callee(Len(taken)), cpu, Stk)
    <2>1. Callee(Len(taken)) = Ctx(cpu) /\ UserRegs(cpu) /\ cpu.eip[1] = "code"
      BY <1>12, UserShape
    <2>2. Cpl = 3
      BY <1>10, <2>1 DEF UserRegs, Cpl
    <2> QED
      BY <1>1, <1>2, <1>3, <1>5, <1>6, <1>7, <1>8, <1>12, <2>1, <2>2
  <1>13. Len(taken) \in 0 .. Len(taken)
    BY <1>8
  <1> QED
    BY <1>9, <1>11, <1>12, <1>13, AboveShape

\* The state an entry or a call leaves.
LEMMA StateFields ==
    ASSUME cpu \in Cpus, Stk \in Seq(Words), NEW eip \in Words
    PROVE  LET s == State(eip)
           IN  /\ s \in States /\ s.words = Stk /\ s.cpu.eip = eip
               /\ s.cpu.gen = cpu.gen /\ s.cpu.seg = cpu.seg /\ s.cpu.cs = cpu.cs
               /\ s.cpu.ss = cpu.ss /\ s.cpu.iflag = cpu.iflag /\ s.cpu.nt = cpu.nt
               /\ s.cpu.area = cpu.area /\ s.cpu \in Cpus
               /\ s.cpu = [cpu EXCEPT !.eip = eip]
  <1>1. PICK u : u = [cpu EXCEPT !.eip = eip]
    OBVIOUS
  <1>2. /\ u \in Cpus /\ u.eip = eip /\ u.gen = cpu.gen /\ u.seg = cpu.seg /\ u.cs = cpu.cs
        /\ u.ss = cpu.ss /\ u.iflag = cpu.iflag /\ u.nt = cpu.nt /\ u.area = cpu.area
    BY <1>1 DEF Cpus
  <1>3. State(eip) = [cpu |-> u, words |-> Stk]
    BY <1>1 DEF State
  <1>4. State(eip).cpu = u /\ State(eip).words = Stk /\ State(eip) \in States
    BY <1>2, <1>3 DEF States
  <1> QED
    BY <1>1, <1>2, <1>4

\* An interrupt is delivered: nothing is refused, and the frame is on the kernel's
\* stack of the context that runs.
LEMMA Delivered ==
    ASSUME Types, Nested, Tables, NEW n \in Installed, NEW eip \in Words, NEW asked,
           Deliver(n, eip, asked)
    PROVE  /\ UNCHANGED <<tables, tasks, rejected>>
           /\ stack' = [stack EXCEPT ![KernelStack(Ctx(cpu))] = Frame(State(eip)) \o ErrorCode(n)]
           /\ taken' = Append(taken, [asked |-> asked, was |-> State(eip)])
           /\ cpu' \in Cpus
           /\ cpu'.gen = cpu.gen /\ cpu'.seg = cpu.seg /\ cpu'.cs = GDT_KERNEL_CODE_SELECTOR
           /\ cpu'.ss = GDT_KERNEL_DATA_SELECTOR /\ cpu'.eip = Entry(n)
           /\ cpu'.iflag = (cpu.iflag /\ n = SYSCALL) /\ cpu'.nt = FALSE
           /\ cpu'.area = KernelStack(Ctx(cpu))
  <1> DEFINE c == Ctx(cpu)
             gate == idt[n]
             inner == Cpl # Rpl(gate.selector)
             area == IF inner THEN tss[Current].esp0 ELSE cpu.area
             ss == IF inner THEN tss[Current].ss0 ELSE cpu.ss
             outer == IF inner THEN <<Sel(cpu.ss), Esp(cpu.area, Len(Stk))>> ELSE Stk
             start == {m \in Installed : EntryAddress[m] = Offset(gate)}
             trap == gate.type = TYPE_TRAP_GATE
             ok == /\ idtr /\ gate.p = 1 /\ start # {}
                   /\ CodeOk(gate.selector) /\ StackOk(ss, Rpl(gate.selector))
             below == outer \o <<Flags(cpu.iflag, cpu.nt), Sel(cpu.cs), eip>>
                            \o (IF HasErrorCode(n) THEN <<Val(KERNEL, "error_code")>> ELSE <<>>)
             next == /\ stack' = [stack EXCEPT ![area] = below]
                     /\ cpu' = [cpu EXCEPT
                            !.cs = gate.selector, !.ss = ss, !.area = area,
                            !.eip = Entry(CHOOSE m \in start : TRUE),
                            !.iflag = @ /\ gate.type = TYPE_TRAP_GATE, !.nt = FALSE]
                     /\ taken' = Append(taken, [asked |-> asked, was |-> State(eip)])
                     /\ UNCHANGED <<tables, tasks>>
  <1>1. Checked(ok, next)
    BY Zenon DEF Deliver
  <1>2. /\ gate.p = 1 /\ gate.selector = GDT_KERNEL_CODE_SELECTOR /\ start = {n}
        /\ trap <=> n = SYSCALL
    BY GateLeads
  <1>3. /\ CodeOk(GDT_KERNEL_CODE_SELECTOR) /\ StackOk(GDT_KERNEL_DATA_SELECTOR, 0)
        /\ Rpl(GDT_KERNEL_CODE_SELECTOR) = 0
    BY SegmentsLoadable DEF Tables
  <1>4. idtr /\ ~rejected
    BY DEF Tables
  <1>5. /\ Current = c /\ c \in Contexts /\ c \in Live
        /\ \/ KernelShape(cpu) /\ Cpl = 0
           \/ c \in Slots /\ UserState(c, cpu, Stk) /\ Cpl = 3
    BY Here
  <1>6. tss[c].ss0 = GDT_KERNEL_DATA_SELECTOR /\ tss[c].esp0 = Kernel(c)
    BY <1>5 DEF Tables
  <1>7. /\ area = KernelStack(c) /\ ss = GDT_KERNEL_DATA_SELECTOR
        /\ inner <=> FromUser(cpu)
    <2>1. CASE KernelShape(cpu) /\ Cpl = 0
      <3>1. ~inner
        BY <1>2, <1>3, <2>1
      <3> QED
        BY <2>1, <3>1 DEF KernelShape, KernelRegs
    <2>2. CASE c \in Slots /\ UserState(c, cpu, Stk) /\ Cpl = 3
      <3>1. inner
        BY <1>2, <1>3, <2>2
      <3>2. FromUser(cpu)
        BY <2>2, UserShape
      <3> QED
        BY <1>5, <1>6, <2>2, <3>1, <3>2, AreaFacts
    <2> QED
      BY <1>5, <2>1, <2>2
  <1>8. start # {} /\ (CHOOSE m \in start : TRUE) = n
    BY <1>2
  <1>9. Rpl(gate.selector) = 0
    BY <1>2, <1>3
  <1>10. Checked(ok, next) => (ok => next /\ UNCHANGED rejected)
    BY DEF Checked
  <1>11. ok
    BY <1>2, <1>3, <1>4, <1>7, <1>8, <1>9
  <1>12. next /\ UNCHANGED rejected
    BY <1>1, <1>10, <1>11
  <1>13. PICK s : s = State(eip)
    OBVIOUS
  <1>14. cpu \in Cpus /\ Stk \in Seq(Words)
    BY Here DEF Types
  <1>15. /\ s.cpu.cs = cpu.cs /\ s.cpu.ss = cpu.ss /\ s.cpu.iflag = cpu.iflag
         /\ s.cpu.nt = cpu.nt /\ s.cpu.area = cpu.area /\ s.words = Stk /\ s.cpu.eip = eip
    BY <1>13, <1>14, StateFields
  <1>16. outer = Outer(s)
    BY <1>7, <1>15 DEF Outer, FromUser
  <1>17. below = Frame(s) \o ErrorCode(n)
    BY <1>15, <1>16 DEF Frame, ErrorCode
  <1>18. stack' = [stack EXCEPT ![KernelStack(c)] = Frame(s) \o ErrorCode(n)]
    BY <1>7, <1>12, <1>17
  <1>19. cpu' = [cpu EXCEPT !.cs = GDT_KERNEL_CODE_SELECTOR, !.ss = GDT_KERNEL_DATA_SELECTOR,
                            !.area = KernelStack(c), !.eip = Entry(n),
                            !.iflag = @ /\ trap, !.nt = FALSE]
    BY <1>2, <1>7, <1>8, <1>12
  <1>20. trap \in BOOLEAN /\ (trap <=> n = SYSCALL)
    BY <1>2
  <1> HIDE DEF trap
  <1>21. /\ GDT_KERNEL_CODE_SELECTOR \in Selectors /\ GDT_KERNEL_DATA_SELECTOR \in Selectors
         /\ Entry(n) \in Words /\ KernelStack(c) \in Areas
    <2>1. n \in Nat
      BY DEF Installed, Exceptions, IRQ_REMAP_OFFSET, IRQ_FIRST, IRQ_LAST, SYSCALL
    <2>2. GDT_KERNEL_CODE_SELECTOR \in Selectors /\ GDT_KERNEL_DATA_SELECTOR \in Selectors
      BY DEF GDT_KERNEL_CODE_SELECTOR, GDT_KERNEL_DATA_SELECTOR, DPL_KERNEL, Selectors
    <2>3. Entry(n) \in Words
      BY <2>1, WordFacts
    <2>4. KernelStack(c) \in Areas
      BY <1>5, AreaFacts
    <2> QED
      BY <2>2, <2>3, <2>4
  <1>22. /\ cpu' \in Cpus
         /\ cpu'.gen = cpu.gen /\ cpu'.seg = cpu.seg /\ cpu'.cs = GDT_KERNEL_CODE_SELECTOR
         /\ cpu'.ss = GDT_KERNEL_DATA_SELECTOR /\ cpu'.eip = Entry(n)
         /\ cpu'.iflag = (cpu.iflag /\ trap) /\ cpu'.nt = FALSE
         /\ cpu'.area = KernelStack(c)
    BY <1>14, <1>19, <1>20, <1>21 DEF Cpus
  <1>23. cpu'.iflag = (cpu.iflag /\ n = SYSCALL)
    BY <1>20, <1>22
  <1>24. UNCHANGED <<tables, tasks, rejected>>
    BY <1>12
  <1>25. taken' = Append(taken, [asked |-> asked, was |-> State(eip)])
    BY <1>12
  <1>26. stack' = [stack EXCEPT ![KernelStack(Ctx(cpu))] = Frame(State(eip)) \o ErrorCode(n)]
    BY <1>13, <1>18
  <1> HIDE DEF c
  <1> QED
    BY <1>22, <1>23, <1>24, <1>25, <1>26 DEF c

---------------------------------------------------------------------------
(* Steps that leave the chain as it is, lengthen it or shorten it.         *)

\* Each entry of the chain.
LEMMA Chain ==
    ASSUME Types, Nested, Separate, NEW i \in 1 .. Len(taken)
    PROVE  /\ taken[i] \in Entries /\ Began(taken[i]) /\ Left(i) \in States
           /\ Left(i).cpu \in Cpus /\ Left(i).words \in Seq(Words)
           /\ Ctx(Left(i).cpu) \in Contexts /\ Ctx(Left(i).cpu) \in Live
           /\ Called(i) => Callee(i) \in Slots /\ Callee(i) \in Live
           /\ FromUser(Left(i).cpu) =>
                Left(i).cpu.area = User(Ctx(Left(i).cpu)) /\ Ctx(Left(i).cpu) \in Slots
           /\ ~FromUser(Left(i).cpu) => Left(i).cpu.area = KernelStack(Ctx(Left(i).cpu))
  <1>1. Len(taken) \in Nat /\ taken[i] \in Entries
    BY LenProperties, ElementOfSeq DEF Types
  <1>2. Began(taken[i]) /\ Above(i - 1, Left(i).cpu, Left(i).words)
    BY DEF Nested
  <1>3. /\ Left(i) \in States /\ Left(i).cpu \in Cpus /\ Left(i).words \in Seq(Words)
        /\ Ctx(Left(i).cpu) \in Contexts
        /\ Called(i) => Callee(i) \in Slots
    BY <1>1, <1>2, EntryTypes DEF Left, Called, Callee
  <1>4. Ctx(Left(i).cpu) \in Live
    BY DEF Separate
  <1>5. Called(i) => Callee(i) \in Live
    BY DEF Live
  <1>6. i - 1 \in 0 .. Len(taken)
    BY <1>1
  <1>7. \/ KernelShape(Left(i).cpu)
        \/ /\ Callee(i - 1) \in Slots
           /\ UserState(Callee(i - 1), Left(i).cpu, Left(i).words)
    BY <1>2, <1>6, AboveShape
  <1>8. CASE KernelShape(Left(i).cpu)
    BY <1>1, <1>2, <1>3, <1>4, <1>5, <1>8 DEF KernelShape
  <1>9. CASE /\ Callee(i - 1) \in Slots
             /\ UserState(Callee(i - 1), Left(i).cpu, Left(i).words)
    <2>1. /\ FromUser(Left(i).cpu) /\ Left(i).cpu.area = User(Callee(i - 1))
          /\ Ctx(Left(i).cpu) = Callee(i - 1)
      BY <1>9, UserShape
    <2> QED
      BY <1>1, <1>2, <1>3, <1>4, <1>5, <1>9, <2>1
  <1> QED
    BY <1>7, <1>8, <1>9

LEMMA LiveContexts ==
    ASSUME Types, Nested, Separate
    PROVE  Live \subseteq Contexts
  <1>1. SUFFICES ASSUME NEW c \in Live
                 PROVE  c \in Contexts
    OBVIOUS
  <1>2. c = KERNEL \/ \E i \in 1 .. Len(taken) : Called(i) /\ c = Callee(i)
    BY DEF Live
  <1> QED
    BY <1>2, Chain, ContextFacts

\* The code that runs goes on in its own activation.
LEMMA LocalStep ==
    ASSUME Types, Nested, Intact, Separate, Tables,
           UNCHANGED <<taken, tr, idtr, rejected>>, cpu'.area = cpu.area,
           \A a \in Areas : a # cpu.area /\ a[2] \in Live => stack'[a] = stack[a],
           \A c \in Live : tss'[c] = tss[c] /\ gdt'[TssIndex(c)] = gdt[TssIndex(c)],
           \A s \in Slots : s \in Live => in_use'[s] = in_use[s],
           \A i \in 1 .. 4 : gdt'[i] = gdt[i],
           \A c \in Live : c # Ctx(cpu) => child'[c] = child[c],
           Above(Len(taken), cpu', Stk')
    PROVE  Nested' /\ Intact' /\ Separate' /\ Tables' /\ Live' = Live /\ Ctx(cpu') = Ctx(cpu)
  <1>1. Live' = Live /\ Ctx(cpu') = Ctx(cpu)
    BY DEF Live, Called, Callee, Ctx
  <1>2. Nested'
    BY DEF Nested, Above, Left
  <1>3. Separate'
    BY <1>1 DEF Separate, Called, Callee, Left
  <1>4. Tables'
    BY <1>1 DEF Tables
  <1>5. ASSUME NEW i \in 1 .. Len(taken)
        PROVE  Suspended(i)'
    <2> DEFINE u == Left(i).cpu
    <2>1. Suspended(i)
      BY DEF Intact
    <2>2. /\ Ctx(u) \in Contexts /\ Ctx(u) \in Live /\ u.area \in Areas
          /\ Called(i) => Callee(i) \in Live
      BY Chain DEF Cpus
    <2>3. /\ Called(i) => Ctx(u) # Ctx(cpu)
          /\ FromUser(u) => u.area # cpu.area
      BY DEF Separate
    <2>4. u.area[2] \in Live /\ (Called(i) => u.area # cpu.area)
      BY <2>2, <2>3 DEF Ctx
    <2>5. Called(i) \/ FromUser(u) => stack'[u.area] = stack[u.area]
      BY <2>2, <2>3, <2>4
    <2>6. /\ Called(i)' = Called(i) /\ Callee(i)' = Callee(i) /\ Left(i)' = Left(i)
      BY DEF Called, Callee, Left
    <2>7. Called(i) => child'[Ctx(u)] = child[Ctx(u)] /\ tss'[Ctx(u)] = tss[Ctx(u)]
                       /\ tss'[Callee(i)] = tss[Callee(i)]
      BY <2>2, <2>3
    <2> QED
      BY <2>1, <2>5, <2>6, <2>7 DEF Suspended
  <1>6. Intact'
    BY <1>5 DEF Intact
  <1> QED
    BY <1>1, <1>2, <1>3, <1>4, <1>6

\* ... with its registers and its stack.
LEMMA KeptStep ==
    ASSUME Types, Nested, Intact, Separate, Tables, Child,
           UNCHANGED <<tables, in_use, child, taken, rejected>>, NEW w \in Seq(Words),
           stack' = [stack EXCEPT ![cpu.area] = w], cpu' \in Cpus, cpu'.area = cpu.area,
           Above(Len(taken), cpu', w)
    PROVE  /\ stack' \in [Areas -> Seq(Words)] /\ Stk' = w
           /\ Nested' /\ Intact' /\ Separate' /\ Tables' /\ Live' = Live /\ Ctx(cpu') = Ctx(cpu)
  <1>1. cpu.area \in Areas /\ stack \in [Areas -> Seq(Words)]
    BY DEF Types, Cpus
  <1>2. /\ stack' \in [Areas -> Seq(Words)] /\ stack'[cpu.area] = w
        /\ \A a \in Areas : a # cpu.area => stack'[a] = stack[a]
    BY <1>1
  <1>3. Stk' = w
    BY <1>2 DEF Stk
  <1>4. UNCHANGED <<gdt, tss, tr, idtr>>
    BY DEF tables
  <1> QED
    BY <1>2, <1>3, <1>4, LocalStep

\* No call is under way in the code that runs.
LEMMA NoCall ==
    ASSUME taken' = <<>> \/ Last(taken').asked[1] # "irq",
           cpu'.eip # Code(KERNEL, "task_switch"), cpu'.eip # Code(KERNEL, "task_free")
    PROVE  Child'
  BY DEF Child, Top, Last

\* What the code that runs is about to call is as it was.
LEMMA SameCall ==
    ASSUME Child, Top'.eip = Top.eip, Ctx(cpu') = Ctx(cpu), UNCHANGED <<child, in_use, gdt, tss>>,
           Live' = Live, Ctx(cpu) \in Contexts, Ctx(cpu) \in Live, Live \subseteq Contexts,
           \A a \in Areas : a[2] # Ctx(cpu) => stack'[a] = stack[a]
    PROVE  Child'
  <1>0. PICK s : s = child[Ctx(cpu)]
    OBVIOUS
  <1>1. ASSUME Ready(s) PROVE Ready(s)'
    <2>1. s \in Slots /\ s # Ctx(cpu) /\ s \in Contexts
      BY <1>1, ContextFacts DEF Ready
    <2>2. stack'[User(s)] = stack[User(s)] /\ stack'[Kernel(s)] = stack[Kernel(s)]
      BY <2>1, AreaFacts
    <2> QED
      BY <1>1, <2>2 DEF Ready
  <1>2. child'[Ctx(cpu')] = s
    BY <1>0
  <1>3. Top.eip = Code(KERNEL, "task_switch") => Ready(s)
    BY <1>0 DEF Child
  <1>4. Top.eip = Code(KERNEL, "task_free") => s \in Slots \ Live
    BY <1>0 DEF Child
  <1>5. Top'.eip = Code(KERNEL, "task_switch") => Ready(child[Ctx(cpu)])'
    BY <1>1, <1>2, <1>3 DEF Ready
  <1>6. Top'.eip = Code(KERNEL, "task_free") => child'[Ctx(cpu')] \in Slots \ Live'
    BY <1>2, <1>4
  <1> QED
    BY <1>5, <1>6 DEF Child

\* The chain with one entry more.
LEMMA Longer ==
    ASSUME taken \in Seq(Entries), NEW e \in Entries, taken' = Append(taken, e),
           NEW last, last = Len(taken) + 1
    PROVE  /\ taken' \in Seq(Entries) /\ Len(taken') = last /\ Len(taken) \in Nat
           /\ last \in Nat /\ taken'[last] = e /\ Last(taken') = e /\ taken' # <<>>
           /\ \A i \in 1 .. Len(taken) : taken'[i] = taken[i]
           /\ Called(last)' = (e.asked[1] = "call")
           /\ Callee(last)' = e.asked[2] /\ Left(last)' = e.was
           /\ \A i \in 1 .. Len(taken) :
                  Called(i)' = Called(i) /\ Callee(i)' = Callee(i) /\ Left(i)' = Left(i)
           /\ e.asked[1] = "call" => Live' = Live \union {e.asked[2]}
           /\ e.asked[1] # "call" => Live' = Live
  <1>1. /\ taken' \in Seq(Entries) /\ Len(taken') = last /\ Len(taken) \in Nat
        /\ last \in Nat /\ taken'[last] = e /\ Last(taken') = e
        /\ \A i \in 1 .. Len(taken) : taken'[i] = taken[i]
    BY Adding
  <1>2. taken' # <<>>
    BY <1>1, EmptySeq
  <1>3. /\ Called(last)' = (e.asked[1] = "call")
        /\ Callee(last)' = e.asked[2] /\ Left(last)' = e.was
    BY <1>1 DEF Called, Callee, Left
  <1>4. \A i \in 1 .. Len(taken) :
            Called(i)' = Called(i) /\ Callee(i)' = Callee(i) /\ Left(i)' = Left(i)
    BY <1>1 DEF Called, Callee, Left
  <1>5. \A i : i \in 1 .. Len(taken') <=> i \in 1 .. Len(taken) \/ i = last
    BY <1>1
  <1>6. \A c : c \in Live' <=> c \in Live \/ (e.asked[1] = "call" /\ c = e.asked[2])
    BY <1>1, <1>5 DEF Live, Called, Callee
  <1>7. e.asked[1] = "call" => Live' = Live \union {e.asked[2]}
    BY <1>6
  <1>8. e.asked[1] # "call" => Live' = Live
    BY <1>6
  <1> QED
    BY <1>1, <1>2, <1>3, <1>4, <1>7, <1>8

\* An entry into the kernel.
LEMMA EntryStep ==
    ASSUME Types, Nested, Intact, Separate, Tables, NEW e \in Entries, Began(e),
           e.asked[1] # "call", taken' = Append(taken, e),
           e.was.words = Stk, e.was.cpu.area = cpu.area,
           Above(Len(taken), e.was.cpu, e.was.words),
           UNCHANGED <<tables, tasks, rejected>>, NEW w \in Seq(Words),
           cpu'.area = KernelStack(Ctx(cpu)),
           stack' = [stack EXCEPT ![KernelStack(Ctx(cpu))] = w],
           After(e, cpu', w)
    PROVE  /\ stack' \in [Areas -> Seq(Words)] /\ Stk' = w
           /\ \A a \in Areas : a # KernelStack(Ctx(cpu)) => stack'[a] = stack[a]
           /\ Nested' /\ Intact' /\ Separate' /\ Tables' /\ Live' = Live /\ Ctx(cpu') = Ctx(cpu)
  <1>0. PICK last : last = Len(taken) + 1
    OBVIOUS
  <1>1. /\ Len(taken') = last /\ Len(taken) \in Nat /\ taken'[last] = e
        /\ last \in Nat /\ last - 1 = Len(taken)
        /\ \A i \in 1 .. Len(taken) : taken'[i] = taken[i]
        /\ ~Called(last)' /\ Left(last)' = e.was
        /\ \A i \in 1 .. Len(taken) :
                  Called(i)' = Called(i) /\ Callee(i)' = Callee(i) /\ Left(i)' = Left(i)
        /\ Live' = Live
    <2>1. taken \in Seq(Entries)
      BY DEF Types
    <2>2. Len(taken) \in Nat
      BY <2>1, LenProperties
    <2>3. last \in Nat /\ last - 1 = Len(taken)
      BY <1>0, <2>2
    <2> QED
      BY <1>0, <2>1, <2>3, Longer
  <1>2. /\ Ctx(cpu) \in Contexts /\ Ctx(cpu) \in Live /\ cpu.area \in Areas
        /\ stack \in [Areas -> Seq(Words)] /\ KernelStack(Ctx(cpu)) \in Areas
    BY Here, AreaFacts DEF Types
  <1>3. /\ stack' \in [Areas -> Seq(Words)] /\ stack'[KernelStack(Ctx(cpu))] = w /\ Stk' = w
        /\ \A a \in Areas : a # KernelStack(Ctx(cpu)) => stack'[a] = stack[a]
    BY <1>2 DEF Stk
  <1>4. Ctx(cpu') = Ctx(cpu) /\ Ctx(e.was.cpu) = Ctx(cpu)
    BY <1>2, AreaFacts DEF Ctx
  <1>5. \A i \in 1 .. last : i \in 1 .. Len(taken) \/ i = last
    BY <1>1
  <1>6. UNCHANGED <<gdt, tss, tr, idtr, in_use, child>>
    BY DEF tables, tasks
  <1>7. Nested'
    <2>1. Above(last, cpu, w)'
      BY <1>1 DEF Above
    <2>3. ASSUME NEW i \in 1 .. last
          PROVE  Began(taken'[i]) /\ Above(i - 1, Left(i).cpu, Left(i).words)'
      <3>1. CASE i \in 1 .. Len(taken)
        <4>1. i - 1 \in 0 .. Len(taken) /\ Began(taken[i])
              /\ Above(i - 1, Left(i).cpu, Left(i).words)
          BY <1>1, <3>1 DEF Nested
        <4>2. Above(i - 1, Left(i).cpu, Left(i).words)'
          BY <1>1, <3>1, <4>1 DEF Above, Left
        <4> QED
          BY <1>1, <3>1, <4>1, <4>2
      <3>2. CASE i = last
        <4>1. i - 1 = Len(taken) /\ Began(taken'[i])
          BY <1>1, <3>2
        <4>2. Len(taken) # 0 => Len(taken) \in 1 .. Len(taken)
          BY <1>1
        <4>3. Above(i - 1, e.was.cpu, e.was.words)'
          BY <1>1, <4>1, <4>2 DEF Above
        <4>4. Left(i)' = e.was
          BY <1>1, <3>2
        <4>5. Above(i - 1, Left(i).cpu, Left(i).words)'
          BY <4>3, <4>4 DEF Above
        <4> QED
          BY <4>1, <4>5
      <3> QED
        BY <1>5, <3>1, <3>2
    <2>4. Above(Len(taken), cpu, Stk)'
      BY <1>1, <1>3 DEF Above
    <2> QED
      BY <1>1, <2>3, <2>4 DEF Nested
  <1>8. Separate'
    <2>1. ASSUME NEW i \in 1 .. last, Called(i)'
          PROVE  /\ i \in 1 .. Len(taken) /\ Called(i)
                 /\ Ctx(Left(i)'.cpu) # Ctx(cpu')
                 /\ \A j \in i + 1 .. last :
                        /\ Ctx(Left(j)'.cpu) # Ctx(Left(i)'.cpu)
                        /\ Called(j)' => Callee(j)' # Callee(i)'
                 /\ \A j \in 1 .. i : Ctx(Left(j)'.cpu) # Callee(i)'
      <3>0. i # last
        BY <1>1, <2>1
      <3>1. i \in 1 .. Len(taken) /\ Called(i)
        BY <1>1, <1>5, <2>1, <3>0
      <3>2. /\ Ctx(Left(i).cpu) # Ctx(cpu)
            /\ \A j \in i + 1 .. Len(taken) :
                   /\ Ctx(Left(j).cpu) # Ctx(Left(i).cpu)
                   /\ Called(j) => Callee(j) # Callee(i)
            /\ \A j \in 1 .. i : Ctx(Left(j).cpu) # Callee(i)
        BY <3>1 DEF Separate
      <3>3. \A j \in i + 1 .. last : j \in i + 1 .. Len(taken) \/ j = last
        BY <1>1
      <3>4. \A j \in i + 1 .. Len(taken) : j \in 1 .. Len(taken)
        BY <1>1, <3>1
      <3>5. \A j \in 1 .. i : j \in 1 .. Len(taken)
        BY <1>1, <3>1
      <3>6. \A j \in i + 1 .. last :
                        /\ Ctx(Left(j)'.cpu) # Ctx(Left(i)'.cpu)
                        /\ Called(j)' => Callee(j)' # Callee(i)'
        BY <1>1, <1>4, <3>1, <3>2, <3>3, <3>4
      <3> QED
        BY <1>1, <1>4, <3>1, <3>2, <3>5, <3>6
    <2>2. ASSUME NEW i \in 1 .. last, FromUser(Left(i)'.cpu)
          PROVE  /\ Left(i)'.cpu.area # cpu'.area
                 /\ \A j \in i + 1 .. last : Left(j)'.cpu.area # Left(i)'.cpu.area
      <3>1. CASE i = last
        <4>1. Above(Len(taken), e.was.cpu, e.was.words) /\ FromUser(e.was.cpu)
          BY <1>1, <2>2, <3>1
        <4>2. Len(taken) \in 0 .. Len(taken)
          BY <1>1
        <4>3. Callee(Len(taken)) \in Slots /\ e.was.cpu.area = User(Callee(Len(taken)))
          BY <4>1, <4>2, AboveShape, UserShape DEF KernelShape
        <4>4. e.was.cpu.area # KernelStack(Ctx(cpu))
          BY <1>2, <4>3, AreaFacts
        <4> QED
          BY <1>1, <3>1, <4>4
      <3>2. CASE i \in 1 .. Len(taken)
        <4>1. /\ Left(i).cpu.area # cpu.area
              /\ \A j \in i + 1 .. Len(taken) : Left(j).cpu.area # Left(i).cpu.area
          BY <1>1, <2>2, <3>2 DEF Separate
        <4>2. Left(i).cpu.area = User(Ctx(Left(i).cpu)) /\ Ctx(Left(i).cpu) \in Slots
          BY <1>1, <2>2, <3>2, Chain
        <4>3. Left(i).cpu.area # KernelStack(Ctx(cpu))
          BY <1>2, <4>2, AreaFacts
        <4>4. \A j \in i + 1 .. last : j = last \/ (j \in i + 1 .. Len(taken) /\ j \in 1 .. Len(taken))
          BY <1>1, <3>2
        <4> QED
          BY <1>1, <3>2, <4>1, <4>3, <4>4
      <3> QED
        BY <1>5, <3>1, <3>2
    <2>3. ASSUME NEW i \in 1 .. last
          PROVE  Ctx(Left(i)'.cpu) \in Live'
      BY <1>1, <1>2, <1>4, <1>5, Chain
    <2> QED
      BY <1>1, <2>1, <2>2, <2>3 DEF Separate
  <1>9. Intact'
    <2>1. ASSUME NEW i \in 1 .. last
          PROVE  Suspended(i)'
      <3>1. CASE i = last
        <4>1. FromUser(e.was.cpu) => e.was.cpu.area # cpu'.area
          BY <1>1, <1>8, <3>1 DEF Separate
        <4>2. FromUser(e.was.cpu) => stack'[e.was.cpu.area] = e.was.words
          BY <1>2, <1>3, <4>1 DEF Stk
        <4> QED
          BY <1>1, <3>1, <4>2 DEF Suspended
      <3>2. CASE i \in 1 .. Len(taken)
        <4> DEFINE u == Left(i).cpu
        <4>1. Suspended(i)
          BY <3>2 DEF Intact
        <4>2. /\ u.area \in Areas
              /\ FromUser(u) => u.area = User(Ctx(u)) /\ Ctx(u) \in Slots
          BY <3>2, Chain DEF Cpus
        <4>3. Called(i) => Ctx(u) # Ctx(cpu)
          BY <3>2 DEF Separate
        <4>4. Called(i) => u.area # KernelStack(Ctx(cpu))
          BY <1>2, <4>3, AreaFacts DEF Ctx
        <4>5. FromUser(u) => u.area # KernelStack(Ctx(cpu))
          BY <1>2, <4>2, AreaFacts
        <4>6. Called(i) \/ FromUser(u) => stack'[u.area] = stack[u.area]
          BY <1>3, <4>2, <4>4, <4>5
        <4>7. /\ Called(i)' = Called(i) /\ Callee(i)' = Callee(i) /\ Left(i)' = Left(i)
          BY <1>1, <3>2
        <4> QED
          BY <1>6, <4>1, <4>6, <4>7 DEF Suspended
      <3> QED
        BY <1>5, <3>1, <3>2
    <2> QED
      BY <1>1, <2>1 DEF Intact
  <1>10. Tables'
    BY <1>1, <1>4, <1>6 DEF Tables
  <1> QED
    BY <1>1, <1>3, <1>4, <1>7, <1>8, <1>9, <1>10

\* The chain without its last entry.
LEMMA Shorter ==
    ASSUME taken \in Seq(Entries), taken # <<>>, taken' = Without(taken, 1),
           NEW n, n = Len(taken)
    PROVE  /\ n \in Nat \ {0} /\ n - 1 \in Nat /\ taken' \in Seq(Entries) /\ Len(taken') = n - 1
           /\ Last(taken) = taken[n] /\ taken[n] \in Entries
           /\ \A i \in 1 .. n - 1 : taken'[i] = taken[i] /\ i \in 1 .. n
           /\ \A i \in 1 .. n - 1 :
                  Called(i)' = Called(i) /\ Callee(i)' = Callee(i) /\ Left(i)' = Left(i)
           /\ \A c : c \in Live <=> c \in Live' \/ (Called(n) /\ c = Callee(n))
           /\ Left(n) = Last(taken).was
  <1>1. /\ n \in Nat \ {0} /\ taken' \in Seq(Entries) /\ Len(taken') = n - 1
        /\ Last(taken) = taken[n] /\ taken[n] \in Entries
        /\ \A i \in 1 .. n - 1 : taken'[i] = taken[i]
    BY Removing
  <1>2. \A i \in 1 .. n - 1 :
            Called(i)' = Called(i) /\ Callee(i)' = Callee(i) /\ Left(i)' = Left(i)
    BY <1>1 DEF Called, Callee, Left
  <1>3. \A i : i \in 1 .. n <=> i \in 1 .. n - 1 \/ i = n
    BY <1>1
  <1>4. \A c : c \in Live <=> c = KERNEL \/ \E i \in 1 .. n : Called(i) /\ c = Callee(i)
    BY DEF Live
  <1>5. \A c : c \in Live' <=> c = KERNEL \/ \E i \in 1 .. n - 1 : Called(i)' /\ c = Callee(i)'
    BY <1>1 DEF Live
  <1>6. \A c : c \in Live <=> c \in Live' \/ (Called(n) /\ c = Callee(n))
    BY <1>2, <1>3, <1>4, <1>5
  <1>7. Left(n) = Last(taken).was
    BY <1>1 DEF Left
  <1>8. n - 1 \in Nat
    BY <1>1
  <1> QED
    BY <1>1, <1>2, <1>3, <1>6, <1>7, <1>8

\* The activations below the last one are as they were.
LEMMA ShorterNested ==
    ASSUME Types, Nested, taken # <<>>, taken' = Without(taken, 1), NEW n, n = Len(taken),
           NEW w, Stk' = w, Above(n - 1, cpu', w)
    PROVE  Nested'
  <1>1. /\ n \in Nat \ {0} /\ n - 1 \in Nat /\ Len(taken') = n - 1
        /\ \A i \in 1 .. n - 1 : taken'[i] = taken[i] /\ i \in 1 .. n
        /\ \A i \in 1 .. n - 1 : Left(i)' = Left(i)
    BY Shorter DEF Types
  <1>2. ASSUME NEW i \in 1 .. n - 1
        PROVE  Began(taken'[i]) /\ Above(i - 1, Left(i).cpu, Left(i).words)'
    <2>1. Began(taken[i]) /\ Above(i - 1, Left(i).cpu, Left(i).words)
      BY <1>1, <1>2 DEF Nested
    <2>2. i - 1 # 0 => i - 1 \in 1 .. n - 1
      BY <1>1, <1>2
    <2>3. Above(i - 1, Left(i).cpu, Left(i).words)'
      BY <1>1, <1>2, <2>1, <2>2 DEF Above
    <2> QED
      BY <1>1, <1>2, <2>1, <2>3
  <1>3. n - 1 # 0 => n - 1 \in 1 .. n - 1
    BY <1>1
  <1>4. Above(Len(taken), cpu, Stk)'
    BY <1>1, <1>3 DEF Above
  <1> QED
    BY <1>1, <1>2, <1>4 DEF Nested

\* The kernel goes back to what it interrupted.
LEMMA LeaveStep ==
    ASSUME Types, Nested, Intact, Separate, Tables, taken # <<>>, NEW e, e = Last(taken),
           e.asked[1] # "call", taken' = Without(taken, 1), UNCHANGED <<tables, tasks, rejected>>,
           cpu'.area = e.was.cpu.area, Ctx(e.was.cpu) = Ctx(cpu),
           stack'[e.was.cpu.area] = e.was.words,
           \A a \in Areas : a # cpu.area /\ a # e.was.cpu.area => stack'[a] = stack[a],
           Above(Len(taken) - 1, cpu', e.was.words)
    PROVE  /\ Nested' /\ Intact' /\ Separate' /\ Tables' /\ Live' = Live /\ Ctx(cpu') = Ctx(cpu)
           /\ Stk' = e.was.words
  <1>0. PICK n : n = Len(taken)
    OBVIOUS
  <1>1. /\ n \in Nat \ {0} /\ n - 1 \in Nat /\ Len(taken') = n - 1
        /\ e = taken[n] /\ Left(n) = e.was /\ n \in 1 .. n
        /\ \A i \in 1 .. n - 1 : taken'[i] = taken[i] /\ i \in 1 .. n
        /\ \A i \in 1 .. n - 1 :
                  Called(i)' = Called(i) /\ Callee(i)' = Callee(i) /\ Left(i)' = Left(i)
        /\ \A c : c \in Live <=> c \in Live' \/ (Called(n) /\ c = Callee(n))
    BY <1>0, Shorter DEF Types
  <1>2. ~Called(n)
    BY <1>1 DEF Called
  <1>3. Live' = Live
    BY <1>1, <1>2
  <1>4. Ctx(cpu') = Ctx(cpu) /\ Stk' = e.was.words
    BY DEF Ctx, Stk
  <1>5. Nested'
    BY <1>0, <1>4, ShorterNested
  <1>6. UNCHANGED <<gdt, tss, tr, idtr, in_use, child>>
    BY DEF tables, tasks
  <1>7. Tables'
    BY <1>3, <1>4, <1>6 DEF Tables
  <1>8. ASSUME NEW i \in 1 .. n - 1
        PROVE  /\ Called(i) =>
                    /\ Ctx(Left(i).cpu) # Ctx(cpu)
                    /\ \A j \in i + 1 .. n :
                            /\ Ctx(Left(j).cpu) # Ctx(Left(i).cpu)
                            /\ Called(j) => Callee(j) # Callee(i)
                    /\ \A j \in 1 .. i : Ctx(Left(j).cpu) # Callee(i)
               /\ FromUser(Left(i).cpu) =>
                    /\ Left(i).cpu.area # cpu.area /\ Left(i).cpu.area # e.was.cpu.area
                    /\ \A j \in i + 1 .. n : Left(j).cpu.area # Left(i).cpu.area
               /\ Ctx(Left(i).cpu) \in Live
    <2>1. i \in 1 .. n /\ n \in i + 1 .. n
      BY <1>1, <1>8
    <2>2. i \in 1 .. Len(taken)
      BY <1>0, <2>1
    <2>3. /\ Called(i) =>
                    /\ Ctx(Left(i).cpu) # Ctx(cpu)
                    /\ \A j \in i + 1 .. n :
                            /\ Ctx(Left(j).cpu) # Ctx(Left(i).cpu)
                            /\ Called(j) => Callee(j) # Callee(i)
                    /\ \A j \in 1 .. i : Ctx(Left(j).cpu) # Callee(i)
          /\ FromUser(Left(i).cpu) =>
                    /\ Left(i).cpu.area # cpu.area
                    /\ \A j \in i + 1 .. n : Left(j).cpu.area # Left(i).cpu.area
          /\ Ctx(Left(i).cpu) \in Live
      BY <1>0, <2>2 DEF Separate
    <2>4. FromUser(Left(i).cpu) => Left(i).cpu.area # e.was.cpu.area
      BY <1>1, <2>1, <2>3
    <2> QED
      BY <2>3, <2>4
  <1>9. Separate'
    <2>1. ASSUME NEW i \in 1 .. n - 1
          PROVE  /\ Called(i)' =>
                        /\ Ctx(Left(i)'.cpu) # Ctx(cpu')
                        /\ \A j \in i + 1 .. n - 1 :
                                /\ Ctx(Left(j)'.cpu) # Ctx(Left(i)'.cpu)
                                /\ Called(j)' => Callee(j)' # Callee(i)'
                        /\ \A j \in 1 .. i : Ctx(Left(j)'.cpu) # Callee(i)'
                 /\ FromUser(Left(i)'.cpu) =>
                        /\ Left(i)'.cpu.area # cpu'.area
                        /\ \A j \in i + 1 .. n - 1 : Left(j)'.cpu.area # Left(i)'.cpu.area
                 /\ Ctx(Left(i)'.cpu) \in Live'
      <3>1. \A j \in i + 1 .. n - 1 : j \in i + 1 .. n /\ j \in 1 .. n - 1
        BY <1>1, <2>1
      <3>2. \A j \in 1 .. i : j \in 1 .. n - 1
        BY <1>1, <2>1
      <3> QED
        BY <1>1, <1>3, <1>4, <1>8, <2>1, <3>1, <3>2
    <2> QED
      BY <1>1, <2>1 DEF Separate
  <1>10. Intact'
    <2>1. ASSUME NEW i \in 1 .. n - 1
          PROVE  Suspended(i)'
      <3> DEFINE u == Left(i).cpu
      <3>0. i \in 1 .. Len(taken)
        BY <1>0, <1>1, <2>1
      <3>1. Suspended(i)
        BY <3>0 DEF Intact
      <3>2. u.area \in Areas
        BY <3>0, Chain DEF Cpus
      <3>3. Called(i) => u.area # cpu.area /\ u.area # e.was.cpu.area
        BY <1>8, <2>1 DEF Ctx
      <3>4. FromUser(u) => u.area # cpu.area /\ u.area # e.was.cpu.area
        BY <1>8, <2>1
      <3>5. Called(i) \/ FromUser(u) => stack'[u.area] = stack[u.area]
        BY <3>2, <3>3, <3>4
      <3>6. /\ Called(i)' = Called(i) /\ Callee(i)' = Callee(i) /\ Left(i)' = Left(i)
        BY <1>1, <2>1
      <3> QED
        BY <1>6, <3>1, <3>5, <3>6 DEF Suspended
    <2> QED
      BY <1>1, <2>1 DEF Intact
  <1> QED
    BY <1>3, <1>4, <1>5, <1>7, <1>9, <1>10

\* iret inside a context finds the frame of what was interrupted.
LEMMA Returned ==
    ASSUME Types, Nested, Intact, Separate, Tables, taken # <<>>, NEW e, e = Last(taken),
           e.asked[1] # "call", KernelShape(cpu), Ctx(e.was.cpu) = Ctx(cpu),
           NEW gen \in [General -> Words], NEW seg, seg = e.was.cpu.seg, NEW words,
           words = Frame(e.was), InterruptReturn(gen, seg, words)
    PROVE  /\ UNCHANGED <<tables, tasks, rejected>> /\ taken' = Without(taken, 1)
           /\ cpu' = [e.was.cpu EXCEPT !.gen = gen] /\ cpu' \in Cpus
           /\ stack' \in [Areas -> Seq(Words)] /\ stack'[e.was.cpu.area] = e.was.words
           /\ \A a \in Areas : a # cpu.area /\ a # e.was.cpu.area => stack'[a] = stack[a]
  <1> DEFINE was == e.was.cpu
             len == Len(words)
             outer == Rpl(was.cs) # Cpl
  <1>1. PICK n : n = Len(taken)
    OBVIOUS
  <1>2. /\ n \in Nat \ {0} /\ e = taken[n] /\ e.was = Left(n) /\ n \in 1 .. Len(taken)
        /\ n - 1 \in 0 .. Len(taken)
    <2>1. taken \in Seq(Entries)
      BY DEF Types
    <2>2. n \in Nat \ {0} /\ e = taken[n]
      BY <1>1, <2>1, Removing
    <2> QED
      BY <1>1, <2>2 DEF Left
  <1>3. /\ e \in Entries /\ Began(e) /\ e.was \in States /\ was \in Cpus
        /\ e.was.words \in Seq(Words) /\ was.area \in Areas
        /\ FromUser(was) => was.area = User(Ctx(was)) /\ Ctx(was) \in Slots
        /\ ~FromUser(was) => was.area = KernelStack(Ctx(was))
    BY <1>2, Chain DEF Cpus
  <1>4. Above(n - 1, was, e.was.words) /\ Suspended(n)
    BY <1>2 DEF Nested, Intact
  <1>5. \/ KernelShape(was)
        \/ UserRegs(was) /\ FromUser(was) /\ was.eip[1] = "code"
    BY <1>2, <1>4, AboveShape, UserShape
  <1>6. /\ CodeOk(GDT_KERNEL_CODE_SELECTOR) /\ CodeOk(GDT_USER_CODE_SELECTOR)
        /\ StackOk(GDT_USER_DATA_SELECTOR, 3)
        /\ DataOk(GDT_USER_DATA_SELECTOR, 3) /\ DataOk(0, 3)
        /\ Rpl(GDT_KERNEL_CODE_SELECTOR) = 0 /\ Rpl(GDT_USER_CODE_SELECTOR) = 3
    BY SegmentsLoadable DEF Tables
  <1>7. Cpl = 0 /\ cpu.ss = GDT_KERNEL_DATA_SELECTOR /\ cpu.area = KernelStack(Ctx(cpu))
    BY <1>6 DEF Cpl, KernelShape, KernelRegs
  <1>8. /\ was.eip[1] = "code" /\ CodeOk(was.cs)
        /\ FromUser(was) => Rpl(was.cs) = 3 /\ was.ss = GDT_USER_DATA_SELECTOR
                            /\ was.seg = UserSegments
        /\ ~FromUser(was) => Rpl(was.cs) = 0 /\ was.ss = cpu.ss
    BY <1>5, <1>6, <1>7 DEF KernelShape, KernelRegs, UserRegs
  <1>9. outer <=> FromUser(was)
    BY <1>7, <1>8
  <1>10. /\ words \in Seq(Words) /\ len \in Nat /\ len >= 3
         /\ words[len] = was.eip /\ words[len - 1] = Sel(was.cs)
         /\ words[len - 2] = Flags(was.iflag, was.nt)
         /\ Without(words, 3) = Outer(e.was)
         /\ FromUser(was) => /\ len = 5 /\ words[len - 3] = Esp(was.area, Len(e.was.words))
                             /\ words[len - 4] = Sel(was.ss)
    BY <1>3, FrameShape
  <1> HIDE DEF len, was
  <1>11. /\ words[len - 1][1] = "sel" /\ words[len - 1][2] = was.cs
         /\ words[len - 2][1] = "flags" /\ words[len - 2][2] = was.iflag
         /\ words[len - 2][3] = was.nt
         /\ FromUser(was) =>
                /\ words[len - 3][1] = "esp" /\ words[len - 3][2] = was.area
                /\ words[len - 3][3] = Len(e.was.words)
                /\ words[len - 4][1] = "sel" /\ words[len - 4][2] = was.ss
    BY <1>10 DEF Sel, Flags, Esp
  <1>12. FromUser(was) => stack[was.area] = e.was.words
    BY <1>2, <1>4 DEF Suspended, was
  <1>13. Len(e.was.words) \in Nat
    BY <1>3, LenProperties
  <1>14. FromUser(was) =>
            /\ len >= 5 /\ words[len - 3][1] = "esp" /\ words[len - 4][1] = "sel"
            /\ StackOk(words[len - 4][2], Rpl(words[len - 1][2]))
            /\ words[len - 3][3] <= Len(stack[words[len - 3][2]])
    BY <1>6, <1>8, <1>10, <1>11, <1>12, <1>13
  <1>15. seg = was.seg /\ seg \in [Segments -> Selectors]
    BY <1>3 DEF was, Cpus
  <1>16. FromUser(was) => \A r \in Segments : DataOk(seg[r], Rpl(was.cs))
    <2>1. SUFFICES ASSUME FromUser(was), NEW r \in Segments
                   PROVE  DataOk(seg[r], Rpl(was.cs))
      OBVIOUS
    <2>2. seg[r] = 0 \/ seg[r] = GDT_USER_DATA_SELECTOR
      BY <1>8, <1>15, <2>1 DEF UserSegments
    <2> QED
      BY <1>6, <1>8, <2>1, <2>2
  <1> DEFINE out == Rpl(words[len - 1][2]) # Cpl
             kept(r) == IF DataOk(seg[r], Rpl(words[len - 1][2])) THEN seg[r] ELSE 0
             ok == /\ len >= 3 /\ words[len][1] = "code" /\ words[len - 1][1] = "sel"
                   /\ words[len - 2][1] = "flags" /\ CodeOk(words[len - 1][2])
                   /\ out =>
                        /\ len >= 5 /\ words[len - 3][1] = "esp" /\ words[len - 4][1] = "sel"
                        /\ StackOk(words[len - 4][2], Rpl(words[len - 1][2]))
                        /\ words[len - 3][3] <= Len(stack[words[len - 3][2]])
             next == /\ cpu' = [gen |-> gen,
                                seg |-> IF out THEN [r \in Segments |-> kept(r)] ELSE seg,
                                cs |-> words[len - 1][2], eip |-> words[len],
                                iflag |-> words[len - 2][2], nt |-> words[len - 2][3],
                                ss |-> IF out THEN words[len - 4][2] ELSE cpu.ss,
                                area |-> IF out THEN words[len - 3][2] ELSE cpu.area]
                     /\ stack' = IF out
                            THEN [stack EXCEPT ![cpu.area] = Without(words, 5),
                                    ![words[len - 3][2]] = SubSeq(@, 1, words[len - 3][3])]
                            ELSE [stack EXCEPT ![cpu.area] = Without(words, 3)]
                     /\ taken' = Without(taken, 1)
                     /\ UNCHANGED <<tables, tasks>>
  <1>17. Checked(ok, next)
    BY Zenon DEF InterruptReturn, len
  <1>18. out <=> FromUser(was)
    BY <1>9, <1>11 DEF was
  <1>19. ok
    BY <1>8, <1>10, <1>11, <1>14, <1>18
  <1>20. ok => next /\ UNCHANGED rejected
    BY <1>17 DEF Checked
  <1>21. next /\ UNCHANGED rejected
    BY <1>19, <1>20
  <1>22. taken' = Without(taken, 1) /\ UNCHANGED <<tables, tasks, rejected>>
    BY <1>21
  <1>23. (IF out THEN [r \in Segments |-> kept(r)] ELSE seg) = seg
    <2>1. CASE FromUser(was)
      <3>1. \A r \in Segments : kept(r) = seg[r]
        BY <1>11, <1>16, <2>1
      <3> HIDE DEF kept
      <3>2. [r \in Segments |-> kept(r)] = seg
        BY <1>15, <3>1
      <3> QED
        BY <1>18, <2>1, <3>2
    <2>2. CASE ~FromUser(was)
      BY <1>18, <2>2
    <2> QED
      BY <2>1, <2>2
  <1>24. cpu' = [gen |-> gen, seg |-> was.seg, cs |-> was.cs, eip |-> was.eip,
                 iflag |-> was.iflag, nt |-> was.nt, ss |-> was.ss, area |-> was.area]
    <2>1. (IF out THEN words[len - 4][2] ELSE cpu.ss) = was.ss
      BY <1>8, <1>11, <1>18
    <2>2. (IF out THEN words[len - 3][2] ELSE cpu.area) = was.area
      BY <1>3, <1>7, <1>11, <1>18 DEF was
    <2> HIDE DEF out, kept
    <2> QED
      BY <1>10, <1>11, <1>15, <1>21, <1>23, <2>1, <2>2
  <1>25. cpu' \in Cpus /\ cpu' = [was EXCEPT !.gen = gen]
    <2>1. was \in Cpus
      BY <1>3 DEF was
    <2> QED
      BY <1>24, <2>1 DEF Cpus
  <1>26. stack \in [Areas -> Seq(Words)] /\ cpu.area \in Areas /\ was.area \in Areas
    BY <1>3 DEF Types, Cpus, was
  <1>27. /\ stack' \in [Areas -> Seq(Words)] /\ stack'[was.area] = e.was.words
         /\ \A a \in Areas : a # cpu.area /\ a # was.area => stack'[a] = stack[a]
    <2>1. Outer(e.was) \in Seq(Words) /\ Without(words, 3) = Outer(e.was)
      BY <1>3, <1>10, FrameShape
    <2>2. CASE FromUser(was)
      <3>1. stack' = [stack EXCEPT ![cpu.area] = Without(words, 5),
                                   ![was.area] = SubSeq(@, 1, Len(e.was.words))]
        BY <1>11, <1>18, <1>21, <2>2
      <3>2. was.area # cpu.area
        <4>1. FromUser(Left(n).cpu)
          BY <1>2, <2>2 DEF was
        <4> QED
          BY <1>2, <4>1 DEF Separate, was
      <3>3. SubSeq(stack[was.area], 1, Len(e.was.words)) = e.was.words
        BY <1>3, <1>12, <2>2, SubSeqProperties
      <3>4. Without(words, 5) = <<>>
        <4>1. len = 5
          BY <1>10, <2>2
        <4>2. Without(words, 5) = SubSeq(words, 1, 0)
          BY <4>1 DEF Without, len
        <4>3. SubSeq(words, 1, 0) = <<>>
          OBVIOUS
        <4> QED
          BY <4>2, <4>3
      <3>5. <<>> \in Seq(Words)
        OBVIOUS
      <3> QED
        BY <1>3, <1>26, <3>1, <3>2, <3>3, <3>4, <3>5
    <2>3. CASE ~FromUser(was)
      <3>1. stack' = [stack EXCEPT ![cpu.area] = Without(words, 3)]
        BY <1>18, <1>21, <2>3
      <3>2. was.area = cpu.area /\ Outer(e.was) = e.was.words
        BY <1>3, <1>7, <2>3 DEF Outer, was
      <3> QED
        BY <1>26, <2>1, <3>1, <3>2
    <2> QED
      BY <2>2, <2>3
  <1> QED
    BY <1>22, <1>25, <1>27 DEF was

---------------------------------------------------------------------------
(* Calls of tasks and the return from them.                                *)

LEMMA NewTssFacts ==
    ASSUME NEW s \in Slots
    PROVE  /\ NewTss(s) \in Tsss /\ NewTss(s).link = 0 /\ NewTss(s).depth = 0
           /\ NewTss(s).ss0 = GDT_KERNEL_DATA_SELECTOR /\ NewTss(s).esp0 = Kernel(s)
           /\ NewTss(s).cpu \in Cpus /\ NewTss(s).cpu.cs = GDT_USER_CODE_SELECTOR
           /\ NewTss(s).cpu.ss = GDT_USER_DATA_SELECTOR /\ NewTss(s).cpu.seg = UserSegments
           /\ NewTss(s).cpu.iflag = TRUE /\ NewTss(s).cpu.eip = Code(s, "entry")
           /\ NewTss(s).cpu.area = User(s)
           /\ NewTss(s).cpu.gen = [r \in General |-> Num(0)]
  <1>1. PICK z : z = [r \in General |-> Num(0)]
    OBVIOUS
  <1>2. PICK y : y = [r \in Segments |-> 0]
    OBVIOUS
  <1>3. PICK u : u = [gen |-> z, seg |-> UserSegments, cs |-> GDT_USER_CODE_SELECTOR,
                      ss |-> GDT_USER_DATA_SELECTOR, eip |-> Code(s, "entry"), iflag |-> TRUE,
                      nt |-> FALSE, area |-> User(s)]
    OBVIOUS
  <1>4. ZeroTss = [link |-> 0, ss0 |-> 0, esp0 |-> Boot, depth |-> 0,
                   cpu |-> [gen |-> z, seg |-> y, cs |-> 0, ss |-> 0, eip |-> Num(0),
                            iflag |-> FALSE, nt |-> FALSE, area |-> Boot]]
    BY <1>1, <1>2 DEF ZeroTss
  <1>6. /\ GDT_KERNEL_DATA_SELECTOR \in Nat /\ GDT_USER_CODE_SELECTOR \in Selectors
        /\ GDT_USER_DATA_SELECTOR \in Selectors /\ 0 \in Selectors /\ 0 \in Nat
    BY DEF GDT_KERNEL_DATA_SELECTOR, GDT_USER_CODE_SELECTOR, GDT_USER_DATA_SELECTOR,
           DPL_KERNEL, DPL_USER, Selectors
  <1>7. s \in Contexts /\ Kernel(s) \in Areas /\ User(s) \in Areas
    BY ContextFacts, AreaFacts
  <1>8. z \in [General -> Words] /\ UserSegments \in [Segments -> Selectors]
    BY <1>1, <1>6, WordFacts DEF UserSegments
  <1>9. Code(s, "entry") \in Words
    BY <1>7, WordFacts DEF Labels
  <1>10. u \in Cpus
    BY <1>3, <1>6, <1>7, <1>8, <1>9 DEF Cpus
  <1>5. NewTss(s) = [link |-> 0, ss0 |-> GDT_KERNEL_DATA_SELECTOR, esp0 |-> Kernel(s),
                     depth |-> 0, cpu |-> u]
    <2>1. PICK f : f = UserSegments
      OBVIOUS
    <2>2. PICK a : a = Code(s, "entry")
      OBVIOUS
    <2>3. NewTss(s) = [ZeroTss EXCEPT
                !.ss0 = GDT_KERNEL_DATA_SELECTOR, !.esp0 = Kernel(s),
                !.cpu.cs = GDT_USER_CODE_SELECTOR, !.cpu.ss = GDT_USER_DATA_SELECTOR,
                !.cpu.seg = f, !.cpu.iflag = TRUE, !.cpu.eip = a, !.cpu.area = User(s)]
      BY <2>1, <2>2 DEF NewTss, UserSegments
    <2>4. u = [gen |-> z, seg |-> f, cs |-> GDT_USER_CODE_SELECTOR,
               ss |-> GDT_USER_DATA_SELECTOR, eip |-> a, iflag |-> TRUE,
               nt |-> FALSE, area |-> User(s)]
      BY <1>3, <2>1, <2>2
    <2>5. PICK k : k = [gen |-> z, seg |-> y, cs |-> 0, ss |-> 0, eip |-> Num(0),
                        iflag |-> FALSE, nt |-> FALSE, area |-> Boot]
      OBVIOUS
    <2>6. u = [k EXCEPT !.cs = GDT_USER_CODE_SELECTOR, !.ss = GDT_USER_DATA_SELECTOR,
                        !.seg = f, !.iflag = TRUE, !.eip = a, !.area = User(s)]
      <3>1. y \in [Segments -> Selectors] /\ Num(0) \in Words /\ Boot \in Areas
        BY <1>2, <1>6, WordFacts, AreaFacts
      <3>2. k \in Cpus
        BY <1>6, <1>8, <2>5, <3>1 DEF Cpus
      <3>3. PICK v : v = [k EXCEPT !.cs = GDT_USER_CODE_SELECTOR, !.ss = GDT_USER_DATA_SELECTOR,
                        !.seg = f, !.iflag = TRUE, !.eip = a, !.area = User(s)]
        OBVIOUS
      <3>4. f \in [Segments -> Selectors] /\ a \in Words
        BY <1>8, <1>9, <2>1, <2>2
      <3>5. /\ v \in Cpus /\ v.cs = GDT_USER_CODE_SELECTOR /\ v.ss = GDT_USER_DATA_SELECTOR
            /\ v.seg = f /\ v.iflag = TRUE /\ v.eip = a /\ v.area = User(s)
            /\ v.gen = z /\ v.nt = FALSE
        BY <1>6, <1>7, <2>5, <3>2, <3>3, <3>4 DEF Cpus
      <3>6. v = u
        BY <2>4, <3>5 DEF Cpus
      <3> QED
        BY <3>3, <3>6
    <2>7. ZeroTss = [link |-> 0, ss0 |-> 0, esp0 |-> Boot, depth |-> 0, cpu |-> k]
      BY <1>4, <2>5
    <2>8. NewTss(s) = [ZeroTss EXCEPT !.ss0 = GDT_KERNEL_DATA_SELECTOR, !.esp0 = Kernel(s),
                                      !.cpu = u]
      BY <2>3, <2>6, <2>7
    <2> QED
      BY <2>7, <2>8
  <1>11. NewTss(s) \in Tsss
    BY <1>5, <1>6, <1>7, <1>10 DEF Tsss
  <1> QED
    BY <1>1, <1>3, <1>5, <1>10, <1>11

\* The TSS of the context that is left.
LEMMA SavedFacts ==
    ASSUME Types, NEW c \in Contexts, Current = c, NEW eip \in Words, NEW nt \in BOOLEAN,
           Stk \in Seq(Words)
    PROVE  /\ Saved(eip, nt) \in [Contexts -> Tsss]
           /\ Saved(eip, nt)[c].cpu = [cpu EXCEPT !.eip = eip, !.nt = nt]
           /\ Saved(eip, nt)[c].depth = Len(Stk) /\ Saved(eip, nt)[c].link = tss[c].link
           /\ Saved(eip, nt)[c].ss0 = tss[c].ss0 /\ Saved(eip, nt)[c].esp0 = tss[c].esp0
           /\ \A d \in Contexts : d # c => Saved(eip, nt)[d] = tss[d]
  <1>1. PICK u : u = [cpu EXCEPT !.eip = eip, !.nt = nt]
    OBVIOUS
  <1>2. u \in Cpus
    BY <1>1 DEF Types, Cpus
  <1>3. PICK n \in Nat : n = Len(Stk)
    BY LenProperties
  <1>4. Saved(eip, nt) = [tss EXCEPT ![c].cpu = u, ![c].depth = n]
    BY <1>1, <1>3 DEF Saved
  <1>5. tss \in [Contexts -> Tsss]
    BY DEF Types
  <1>6. PICK t : t = [tss[c] EXCEPT !.cpu = u, !.depth = n]
    OBVIOUS
  <1>7. /\ t \in Tsss /\ t.cpu = u /\ t.depth = n /\ t.link = tss[c].link
        /\ t.ss0 = tss[c].ss0 /\ t.esp0 = tss[c].esp0
    BY <1>2, <1>5, <1>6 DEF Tsss
  <1>8. Saved(eip, nt) = [tss EXCEPT ![c] = t]
    BY <1>4, <1>5, <1>6 DEF Tsss
  <1> QED
    BY <1>1, <1>3, <1>5, <1>7, <1>8

\* call far enters a task that task_create has just filled.
LEMMA TaskCalled ==
    ASSUME Types, Nested, Separate, Tables, KernelShape(cpu), NEW s, Ready(s),
           NEW eip \in Words, CallFar(Selector(s), eip)
    PROVE  /\ UNCHANGED <<idtr, tasks, rejected, stack>> /\ tr' = Selector(s)
           /\ taken' = Append(taken, [asked |-> <<"call", s>>, was |-> State(eip)])
           /\ gdt' = [gdt EXCEPT ![TssIndex(s)] = TssEntry(s, TYPE_TSS_BUSY)]
           /\ tss' \in [Contexts -> Tsss]
           /\ tss'[Ctx(cpu)].cpu = State(eip).cpu /\ tss'[Ctx(cpu)].depth = Len(Stk)
           /\ tss'[Ctx(cpu)].link = tss[Ctx(cpu)].link /\ tss'[Ctx(cpu)].ss0 = tss[Ctx(cpu)].ss0
           /\ tss'[Ctx(cpu)].esp0 = tss[Ctx(cpu)].esp0
           /\ tss'[s].link = tr /\ tss'[s].ss0 = tss[s].ss0 /\ tss'[s].esp0 = tss[s].esp0
           /\ \A d \in Contexts : d # Ctx(cpu) /\ d # s => tss'[d] = tss[d]
           /\ cpu' \in Cpus /\ cpu'.area = User(s) /\ cpu'.eip = Code(s, "entry")
           /\ UserState(s, cpu', Stk')
  <1> DEFINE c == Ctx(cpu)
             x == tss[s].cpu
             sel == Selector(s)
  <1>1. /\ s \in Slots /\ s \notin Live /\ gdt[TssIndex(s)] = TssEntry(s, TYPE_TSS)
        /\ tss[s] = NewTss(s) /\ stack[User(s)] = <<>> /\ s \in Contexts
    BY ContextFacts DEF Ready
  <1>2. /\ c \in Contexts /\ c \in Live /\ Current = c /\ Stk \in Seq(Words)
        /\ cpu.area \in Areas
    BY Here
  <1>3. /\ Index(sel) = TssIndex(s) /\ ContextAt(sel) = {s}
        /\ IsTss(gdt[Index(sel)], TYPE_TSS) /\ gdt[Index(sel)].dpl = 0
        /\ TssIndex(s) \in GdtIndexes
    BY <1>1, TssFound
  <1>4. /\ CodeOk(GDT_USER_CODE_SELECTOR) /\ StackOk(GDT_USER_DATA_SELECTOR, 3)
        /\ DataOk(GDT_USER_DATA_SELECTOR, 3) /\ DataOk(0, 3)
        /\ Rpl(GDT_KERNEL_CODE_SELECTOR) = 0 /\ Rpl(GDT_USER_CODE_SELECTOR) = 3
    BY SegmentsLoadable DEF Tables
  <1>5. Cpl = 0 /\ ~cpu.nt
    BY <1>4 DEF KernelShape, KernelRegs, Cpl
  <1>6. /\ x \in Cpus /\ x.cs = GDT_USER_CODE_SELECTOR /\ x.ss = GDT_USER_DATA_SELECTOR
        /\ x.seg = UserSegments /\ x.iflag = TRUE /\ x.eip = Code(s, "entry")
        /\ x.area = User(s) /\ tss[s].depth = 0
        /\ tss[s] \in Tsss
    BY <1>1, NewTssFacts
  <1> HIDE DEF x, sel, c
  <1>7. \A r \in Segments : DataOk(x.seg[r], Rpl(x.cs))
    BY <1>4, <1>6 DEF UserSegments
  <1>8. User(s) \in Areas /\ stack \in [Areas -> Seq(Words)]
    BY <1>1, AreaFacts DEF Types
  <1>9. Len(stack[User(s)]) = 0
    BY <1>1
  <1>10. Loadable(sel, TYPE_TSS)
    <2>1. tss[s].depth <= Len(stack[x.area])
      BY <1>6, <1>9
    <2>2. CodeOk(x.cs) /\ StackOk(x.ss, Rpl(x.cs))
      BY <1>4, <1>6
    <2> QED
      BY <1>3, <1>7, <2>1, <2>2 DEF Loadable, x
  <1>11. gdt[Index(sel)].dpl >= Cpl
    BY <1>3, <1>5
  <1> DEFINE ok == Loadable(sel, TYPE_TSS) /\ gdt[Index(sel)].dpl >= Cpl
             next == \E d \in ContextAt(sel) :
                        /\ Loaded(d, TRUE)
                        /\ tss' = [Saved(eip, cpu.nt) EXCEPT ![d].link = tr]
                        /\ gdt' = [gdt EXCEPT ![Index(sel)].type = TYPE_TSS_BUSY]
                        /\ tr' = sel
                        /\ taken' = Append(taken, [asked |-> <<"call", d>>, was |-> State(eip)])
                        /\ UNCHANGED <<idtr, tasks>>
  <1>12. Checked(ok, next)
    BY DEF CallFar, sel
  <1>13. next /\ UNCHANGED rejected
    BY <1>10, <1>11, <1>12 DEF Checked
  <1>14. /\ Loaded(s, TRUE)
         /\ tss' = [Saved(eip, cpu.nt) EXCEPT ![s].link = tr]
         /\ gdt' = [gdt EXCEPT ![Index(sel)].type = TYPE_TSS_BUSY]
         /\ tr' = sel
         /\ taken' = Append(taken, [asked |-> <<"call", s>>, was |-> State(eip)])
         /\ UNCHANGED <<idtr, tasks>>
    BY <1>3, <1>13
  <1>15. gdt' = [gdt EXCEPT ![TssIndex(s)] = TssEntry(s, TYPE_TSS_BUSY)]
    <2>1. [gdt[TssIndex(s)] EXCEPT !.type = TYPE_TSS_BUSY] = TssEntry(s, TYPE_TSS_BUSY)
      BY <1>1, TssEntries
    <2> QED
      BY <1>3, <1>14, <2>1
  <1>16. cpu' = [x EXCEPT !.nt = TRUE] /\ stack' = stack
    <2>1. stack' = [stack EXCEPT ![User(s)] = SubSeq(@, 1, 0)]
      BY <1>6, <1>14 DEF Loaded, x
    <2>2. SubSeq(stack[User(s)], 1, 0) = <<>>
      BY SubSeqEmpty
    <2> QED
      BY <1>1, <1>8, <1>14, <2>1, <2>2 DEF Loaded, x
  <1>17. /\ cpu' \in Cpus /\ cpu'.cs = GDT_USER_CODE_SELECTOR
         /\ cpu'.ss = GDT_USER_DATA_SELECTOR
         /\ cpu'.seg = UserSegments /\ cpu'.iflag = TRUE /\ cpu'.eip = Code(s, "entry")
         /\ cpu'.area = User(s) /\ cpu'.nt = TRUE
    BY <1>6, <1>16 DEF Cpus
  <1>18. UserState(s, cpu', Stk')
    <2>1. Stk' = <<>>
      BY <1>1, <1>16, <1>17 DEF Stk
    <2> QED
      BY <1>17, <2>1 DEF UserState, UserRegs
  <1>19. cpu.nt \in BOOLEAN /\ cpu \in Cpus
    BY DEF Types, Cpus
  <1>20. PICK v : v = Saved(eip, cpu.nt)
    OBVIOUS
  <1>21. /\ v \in [Contexts -> Tsss] /\ v[c].cpu = [cpu EXCEPT !.eip = eip, !.nt = cpu.nt]
         /\ v[c].depth = Len(Stk) /\ v[c].link = tss[c].link
         /\ v[c].ss0 = tss[c].ss0 /\ v[c].esp0 = tss[c].esp0
         /\ \A d \in Contexts : d # c => v[d] = tss[d]
    <2>1. PICK b \in BOOLEAN : b = cpu.nt
      BY <1>19
    <2>2. v = Saved(eip, b) /\ [cpu EXCEPT !.eip = eip, !.nt = cpu.nt] = [cpu EXCEPT !.eip = eip, !.nt = b]
      BY <1>20, <2>1
    <2>3. /\ Saved(eip, b) \in [Contexts -> Tsss]
          /\ Saved(eip, b)[c].cpu = [cpu EXCEPT !.eip = eip, !.nt = b]
          /\ Saved(eip, b)[c].depth = Len(Stk) /\ Saved(eip, b)[c].link = tss[c].link
          /\ Saved(eip, b)[c].ss0 = tss[c].ss0 /\ Saved(eip, b)[c].esp0 = tss[c].esp0
          /\ \A d \in Contexts : d # c => Saved(eip, b)[d] = tss[d]
      BY <1>2, SavedFacts
    <2> QED
      BY <2>2, <2>3
  <1>22. v[c].cpu = State(eip).cpu
    <2>1. [cpu EXCEPT !.eip = eip, !.nt = cpu.nt] = [cpu EXCEPT !.eip = eip]
      BY <1>19 DEF Cpus
    <2> QED
      BY <1>21, <2>1 DEF State
  <1>23. tr \in Nat /\ s # c
    BY <1>1, <1>2 DEF Types
  <1>24. PICK t : t = [tss[s] EXCEPT !.link = tr]
    OBVIOUS
  <1>25. t \in Tsss /\ t.link = tr /\ t.ss0 = tss[s].ss0 /\ t.esp0 = tss[s].esp0
    BY <1>6, <1>23, <1>24 DEF Tsss
  <1>26. tss' = [v EXCEPT ![s] = t]
    <2>1. tss' = [v EXCEPT ![s].link = tr]
      BY <1>14, <1>20
    <2>2. v[s] = tss[s]
      BY <1>1, <1>21, <1>23
    <2> QED
      BY <1>1, <1>21, <1>24, <2>1, <2>2
  <1>27. /\ tss' \in [Contexts -> Tsss] /\ tss'[c] = v[c] /\ tss'[s] = t
         /\ \A d \in Contexts : d # c /\ d # s => tss'[d] = tss[d]
    BY <1>1, <1>2, <1>21, <1>23, <1>25, <1>26
  <1>28. /\ tss'[c].cpu = State(eip).cpu /\ tss'[c].depth = Len(Stk)
         /\ tss'[c].link = tss[c].link /\ tss'[c].ss0 = tss[c].ss0
         /\ tss'[c].esp0 = tss[c].esp0
         /\ tss'[s].link = tr /\ tss'[s].ss0 = tss[s].ss0 /\ tss'[s].esp0 = tss[s].esp0
    BY <1>21, <1>22, <1>25, <1>27
  <1>29. tr' = Selector(s)
    BY <1>14 DEF sel
  <1> QED
    BY <1>13, <1>14, <1>15, <1>16, <1>17, <1>18, <1>27, <1>28, <1>29 DEF c

\* A call of a task lengthens the chain.
LEMMA CallStep ==
    ASSUME Types, Nested, Intact, Separate, Tables, KernelShape(cpu), NEW s, Ready(s),
           s = child[Ctx(cpu)], CallFar(Selector(s), Code(KERNEL, "task_free")),
           quiet' \in BOOLEAN,
           Above(Len(taken), State(Code(KERNEL, "task_free")).cpu, Stk)
    PROVE  /\ Types' /\ Nested' /\ Intact' /\ Separate' /\ Tables' /\ Child'
           /\ UNCHANGED <<rejected, tasks>> /\ Len(taken') > Len(taken)
  <1> DEFINE eip == Code(KERNEL, "task_free")
  <1>1. PICK c : c = Ctx(cpu)
    OBVIOUS
  <1>2. /\ c \in Contexts /\ c \in Live /\ cpu.area \in Areas /\ Stk \in Seq(Words)
        /\ cpu \in Cpus /\ tr = Selector(c)
    BY <1>1, Here DEF Types, Tables
  <1>3. /\ s \in Slots /\ s \notin Live /\ in_use[s] /\ s \in Contexts /\ s # c
        /\ tss[s].ss0 = GDT_KERNEL_DATA_SELECTOR /\ tss[s].esp0 = Kernel(s)
    BY <1>2, ContextFacts, NewTssFacts DEF Ready
  <1>4. eip \in Words
    BY ContextFacts, WordFacts DEF Labels
  <1>5. /\ UNCHANGED <<idtr, tasks, rejected, stack>> /\ tr' = Selector(s)
        /\ taken' = Append(taken, [asked |-> <<"call", s>>, was |-> State(eip)])
        /\ gdt' = [gdt EXCEPT ![TssIndex(s)] = TssEntry(s, TYPE_TSS_BUSY)]
        /\ tss' \in [Contexts -> Tsss]
        /\ tss'[c].cpu = State(eip).cpu /\ tss'[c].depth = Len(Stk)
        /\ tss'[c].link = tss[c].link /\ tss'[c].ss0 = tss[c].ss0
        /\ tss'[c].esp0 = tss[c].esp0
        /\ tss'[s].link = tr /\ tss'[s].ss0 = tss[s].ss0 /\ tss'[s].esp0 = tss[s].esp0
        /\ \A d \in Contexts : d # c /\ d # s => tss'[d] = tss[d]
        /\ cpu' \in Cpus /\ cpu'.area = User(s) /\ cpu'.eip = Code(s, "entry")
        /\ UserState(s, cpu', Stk')
    BY <1>1, <1>4, TaskCalled
  <1>6. PICK was : was = State(eip)
    OBVIOUS
  <1>7. /\ was \in States /\ was.words = Stk /\ was.cpu.area = cpu.area
        /\ was.cpu.eip = eip /\ was.cpu.cs = cpu.cs
    BY <1>2, <1>4, <1>6, StateFields
  <1>8. PICK e : e = [asked |-> <<"call", s>>, was |-> was]
    OBVIOUS
  <1>9. /\ e.asked = <<"call", s>> /\ e.asked[1] = "call" /\ e.asked[2] = s /\ e.was = was
        /\ e \in Entries
    BY <1>3, <1>7, <1>8 DEF Entries
  <1>10. Began(e)
    BY <1>3, <1>7, <1>9 DEF Began
  <1>11. PICK last : last = Len(taken) + 1
    OBVIOUS
  <1>12. taken \in Seq(Entries)
    BY DEF Types
  <1>13. taken' = Append(taken, e)
    BY <1>5, <1>6, <1>8
  <1>14. /\ taken' \in Seq(Entries) /\ Len(taken') = last /\ Len(taken) \in Nat
         /\ last \in Nat /\ taken'[last] = e /\ Last(taken') = e /\ taken' # <<>>
         /\ \A i \in 1 .. Len(taken) : taken'[i] = taken[i]
         /\ Called(last)'
         /\ Callee(last)' = s /\ Left(last)' = was
         /\ \A i \in 1 .. Len(taken) :
                Called(i)' = Called(i) /\ Callee(i)' = Callee(i) /\ Left(i)' = Left(i)
         /\ Live' = Live \union {s}
    BY <1>9, <1>11, <1>12, <1>13, Longer
  <1>15. /\ \A i \in 1 .. last : i \in 1 .. Len(taken) \/ i = last
         /\ last - 1 = Len(taken) /\ Len(taken) \in 0 .. Len(taken)
         /\ Len(taken') > Len(taken)
    BY <1>11, <1>14
  <1>16. /\ \A i \in GdtIndexes : i # TssIndex(s) => gdt'[i] = gdt[i]
         /\ gdt'[TssIndex(s)] = TssEntry(s, TYPE_TSS_BUSY)
         /\ TssIndex(s) \in GdtIndexes /\ DOMAIN gdt' = GdtIndexes
    <2>1. gdt[TssIndex(s)] = TssEntry(s, TYPE_TSS)
      BY DEF Ready
    <2>2. TssIndex(s) \in GdtIndexes
      BY <1>3, <2>1, TssFound
    <2> QED
      BY <1>5, <2>2 DEF Types
  <1>17. Ctx(cpu') = s /\ Ctx(was.cpu) = c
    BY <1>1, <1>3, <1>5, <1>7, AreaFacts DEF Ctx
  <1>18. UNCHANGED <<in_use, child>>
    BY <1>5 DEF tasks
  <1>19. Nested'
    <2>1. Above(last, cpu, Stk)'
      BY <1>5, <1>9, <1>14 DEF Above, After
    <2>2. ASSUME NEW i \in 1 .. last
          PROVE  Began(taken'[i]) /\ Above(i - 1, Left(i).cpu, Left(i).words)'
      <3>1. CASE i \in 1 .. Len(taken)
        <4>1. /\ Began(taken[i]) /\ Above(i - 1, Left(i).cpu, Left(i).words)
              /\ i - 1 # 0 => i - 1 \in 1 .. Len(taken)
          BY <1>14, <3>1 DEF Nested
        <4>2. Above(i - 1, Left(i).cpu, Left(i).words)'
          BY <1>14, <3>1, <4>1 DEF Above
        <4> QED
          BY <1>14, <3>1, <4>1, <4>2
      <3>2. CASE i = last
        <4>1. i - 1 = Len(taken) /\ Began(taken'[i]) /\ Left(i)' = was
          BY <1>10, <1>14, <1>15, <3>2
        <4>2. Len(taken) # 0 => Len(taken) \in 1 .. Len(taken)
          BY <1>14
        <4>3. Above(Len(taken), was.cpu, was.words)
          BY <1>6, <1>7
        <4>4. Above(i - 1, Left(i).cpu, Left(i).words)'
          BY <1>14, <4>1, <4>2, <4>3 DEF Above
        <4> QED
          BY <4>1, <4>4
      <3> QED
        BY <1>15, <3>1, <3>2
    <2>3. Above(Len(taken), cpu, Stk)'
      BY <1>14, <2>1 DEF Above
    <2> QED
      BY <1>14, <2>2, <2>3 DEF Nested
  <1>20. ASSUME NEW i \in 1 .. Len(taken)
         PROVE  /\ Ctx(Left(i).cpu) \in Live /\ Ctx(Left(i).cpu) \in Contexts
                /\ Called(i) => Callee(i) \in Live /\ Callee(i) \in Slots
                /\ Left(i).cpu.area \in Areas /\ Left(i).cpu.area # User(s)
                /\ Ctx(Left(i).cpu) # s
    <2>1. /\ Ctx(Left(i).cpu) \in Live /\ Ctx(Left(i).cpu) \in Contexts
          /\ Called(i) => Callee(i) \in Live /\ Callee(i) \in Slots
          /\ Left(i).cpu.area \in Areas
      BY Chain DEF Cpus
    <2> QED
      BY <1>3, <2>1, AreaFacts DEF Ctx
  <1>21. Separate'
    <2>1. ASSUME NEW i \in 1 .. Len(taken)
          PROVE  /\ Called(i) =>
                        /\ Ctx(Left(i).cpu) # c
                        /\ \A j \in i + 1 .. Len(taken) :
                                /\ Ctx(Left(j).cpu) # Ctx(Left(i).cpu)
                                /\ Called(j) => Callee(j) # Callee(i)
                        /\ \A j \in 1 .. i : Ctx(Left(j).cpu) # Callee(i)
                 /\ FromUser(Left(i).cpu) =>
                        /\ Left(i).cpu.area # cpu.area
                        /\ \A j \in i + 1 .. Len(taken) : Left(j).cpu.area # Left(i).cpu.area
      BY <1>1, <2>1 DEF Separate
    <2>2. ASSUME NEW i \in 1 .. Len(taken)
          PROVE  /\ Called(i)' =>
                        /\ Ctx(Left(i)'.cpu) # Ctx(cpu')
                        /\ \A j \in i + 1 .. last :
                                /\ Ctx(Left(j)'.cpu) # Ctx(Left(i)'.cpu)
                                /\ Called(j)' => Callee(j)' # Callee(i)'
                        /\ \A j \in 1 .. i : Ctx(Left(j)'.cpu) # Callee(i)'
                 /\ FromUser(Left(i)'.cpu) =>
                        /\ Left(i)'.cpu.area # cpu'.area
                        /\ \A j \in i + 1 .. last : Left(j)'.cpu.area # Left(i)'.cpu.area
                 /\ Ctx(Left(i)'.cpu) \in Live'
      <3>1. \A j \in i + 1 .. last : j = last \/ (j \in i + 1 .. Len(taken) /\ j \in 1 .. Len(taken))
        BY <1>15, <2>2
      <3>2. \A j \in 1 .. i : j \in 1 .. Len(taken)
        BY <1>14, <2>2
      <3>3. Called(i) => Callee(i) # s
        BY <1>3, <1>20, <2>2
      <3>4. /\ Called(i)' = Called(i) /\ Callee(i)' = Callee(i) /\ Left(i)' = Left(i)
            /\ Called(last)' /\ Callee(last)' = s /\ Left(last)' = was
            /\ \A j \in 1 .. Len(taken) :
                   Called(j)' = Called(j) /\ Callee(j)' = Callee(j) /\ Left(j)' = Left(j)
        BY <1>14, <2>2
      <3>5. Ctx(Left(i).cpu) # s /\ Ctx(Left(i).cpu) \in Live /\ Left(i).cpu.area # User(s)
        BY <1>20, <2>2
      <3>6. ASSUME Called(i), NEW j \in i + 1 .. last
            PROVE  Ctx(Left(j)'.cpu) # Ctx(Left(i)'.cpu) /\ (Called(j)' => Callee(j)' # Callee(i)')
        <4>1. CASE j = last
          BY <1>17, <2>1, <2>2, <3>3, <3>4, <3>6, <4>1
        <4>2. CASE j \in i + 1 .. Len(taken) /\ j \in 1 .. Len(taken)
          BY <2>1, <2>2, <3>4, <3>6, <4>2
        <4> QED
          BY <3>1, <4>1, <4>2
      <3>7. ASSUME FromUser(Left(i).cpu), NEW j \in i + 1 .. last
            PROVE  Left(j)'.cpu.area # Left(i)'.cpu.area
        <4>1. CASE j = last
          BY <1>7, <2>1, <2>2, <3>4, <3>7, <4>1
        <4>2. CASE j \in i + 1 .. Len(taken) /\ j \in 1 .. Len(taken)
          BY <2>1, <2>2, <3>4, <3>7, <4>2
        <4> QED
          BY <3>1, <4>1, <4>2
      <3>8. Called(i) => \A j \in 1 .. i : Ctx(Left(j)'.cpu) # Callee(i)'
        BY <2>1, <2>2, <3>2, <3>4
      <3>9. /\ Called(i) => Ctx(Left(i)'.cpu) # Ctx(cpu')
            /\ FromUser(Left(i)'.cpu) => Left(i)'.cpu.area # cpu'.area
            /\ Ctx(Left(i)'.cpu) \in Live'
        BY <1>3, <1>5, <1>14, <1>17, <3>4, <3>5
      <3> QED
        BY <3>4, <3>6, <3>7, <3>8, <3>9
    <2>3. /\ Ctx(Left(last)'.cpu) # Ctx(cpu')
          /\ \A j \in 1 .. last : Ctx(Left(j)'.cpu) # Callee(last)'
          /\ ~FromUser(Left(last)'.cpu) /\ Ctx(Left(last)'.cpu) \in Live'
      <3>1. ~FromUser(was.cpu)
        BY <1>7 DEF KernelShape, FromUser
      <3> QED
        BY <1>2, <1>3, <1>14, <1>15, <1>17, <1>20, <3>1
    <2>4. \A j \in last + 1 .. last : FALSE
      BY <1>14
    <2>5. ASSUME NEW i \in 1 .. last
          PROVE  /\ Called(i)' =>
                        /\ Ctx(Left(i)'.cpu) # Ctx(cpu')
                        /\ \A j \in i + 1 .. last :
                                /\ Ctx(Left(j)'.cpu) # Ctx(Left(i)'.cpu)
                                /\ Called(j)' => Callee(j)' # Callee(i)'
                        /\ \A j \in 1 .. i : Ctx(Left(j)'.cpu) # Callee(i)'
                 /\ FromUser(Left(i)'.cpu) =>
                        /\ Left(i)'.cpu.area # cpu'.area
                        /\ \A j \in i + 1 .. last : Left(j)'.cpu.area # Left(i)'.cpu.area
                 /\ Ctx(Left(i)'.cpu) \in Live'
      <3>1. CASE i \in 1 .. Len(taken)
        BY <2>2, <3>1
      <3>2. CASE i = last
        BY <2>3, <2>4, <3>2
      <3> QED
        BY <1>15, <3>1, <3>2
    <2> QED
      BY <1>14, <2>5 DEF Separate
  <1>22. Intact'
    <2>1. ASSUME NEW i \in 1 .. last
          PROVE  Suspended(i)'
      <3>1. CASE i = last
        <4>1. stack'[was.cpu.area] = was.words
          BY <1>5, <1>7 DEF Stk
        <4>2. child'[c] = s
          BY <1>1, <1>18
        <4> QED
          BY <1>2, <1>5, <1>6, <1>7, <1>14, <1>17, <3>1, <4>1, <4>2 DEF Suspended
      <3>2. CASE i \in 1 .. Len(taken)
        <4> DEFINE u == Left(i).cpu
        <4>1. Suspended(i)
          BY <3>2 DEF Intact
        <4>2. Called(i) => Ctx(u) # c
          BY <1>1, <3>2 DEF Separate
        <4>3. /\ Ctx(u) \in Contexts /\ Ctx(u) # s
              /\ Called(i) => Callee(i) \in Contexts /\ Callee(i) # s
          BY <1>3, <1>20, <3>2, ContextFacts
        <4>4. Called(i) => tss'[Ctx(u)] = tss[Ctx(u)] /\ tss'[Callee(i)].link = tss[Callee(i)].link
          BY <1>5, <4>2, <4>3
        <4>5. /\ Called(i)' = Called(i) /\ Callee(i)' = Callee(i) /\ Left(i)' = Left(i)
          BY <1>14, <3>2
        <4> QED
          BY <1>5, <1>18, <4>1, <4>4, <4>5 DEF Suspended
      <3> QED
        BY <1>15, <3>1, <3>2
    <2> QED
      BY <1>14, <2>1 DEF Intact
  <1>23. Tables'
    <2>1. ASSUME NEW d \in Live
          PROVE  /\ gdt'[TssIndex(d)] = TssEntry(d, TYPE_TSS_BUSY)
                 /\ tss'[d].ss0 = GDT_KERNEL_DATA_SELECTOR /\ tss'[d].esp0 = Kernel(d)
                 /\ d \in Slots => in_use'[d]
      <3>1. d \in Contexts /\ d # s
        BY <1>3, LiveContexts
      <3>2. /\ gdt[TssIndex(d)] = TssEntry(d, TYPE_TSS_BUSY)
            /\ tss[d].ss0 = GDT_KERNEL_DATA_SELECTOR /\ tss[d].esp0 = Kernel(d)
            /\ d \in Slots => in_use[d]
        BY DEF Tables
      <3>3. TssIndex(d) # TssIndex(s) /\ TssIndex(d) \in GdtIndexes
        <4>1. TssIndex(d) \in GdtIndexes
          BY <3>1, <3>2, TssFound
        <4> QED
          BY <1>3, <3>1, <4>1, ContextFacts DEF TssIndex, KERNEL, KERNEL_TSS_INDEX
      <3> QED
        BY <1>5, <1>16, <1>18, <3>1, <3>2, <3>3
    <2>2. \A i \in 1 .. 4 : i \in GdtIndexes /\ i # TssIndex(s)
      BY <1>3, ContextFacts DEF TssIndex, GdtIndexes, KERNEL_TSS_INDEX, Slots
    <2>3. \A i \in 1 .. 4 : gdt'[i] = gdt_init[i]
      BY <1>16, <2>2 DEF Tables
    <2> QED
      BY <1>3, <1>5, <1>14, <1>16, <1>17, <1>18, <2>1, <2>3 DEF Tables
  <1>24. Child'
    <2>1. cpu'.eip # Code(KERNEL, "task_switch") /\ cpu'.eip # Code(KERNEL, "task_free")
      BY <1>3, <1>5, CodeFacts, ContextFacts
    <2>2. Last(taken').asked[1] # "irq"
      BY <1>9, <1>14
    <2> QED
      BY <2>1, <2>2, NoCall
  <1>25. Types'
    <2>1. \A i \in GdtIndexes : gdt'[i].present \in {0, 1}
      <3>1. PICK d : d = TssEntry(s, TYPE_TSS_BUSY)
        OBVIOUS
      <3>2. d.present = 1
        BY <1>3, <3>1, TssEntries
      <3>3. gdt'[TssIndex(s)] = d
        BY <1>16, <3>1
      <3>4. \A i \in GdtIndexes : gdt[i].present \in {0, 1}
        BY DEF Types
      <3> QED
        BY <1>16, <3>2, <3>3, <3>4
    <2>2. tr' \in Nat
      BY <1>3, <1>5, ContextFacts
         DEF Selector, gdt_entry_to_selector, TssIndex, KERNEL_TSS_INDEX
    <2> QED
      BY <1>5, <1>14, <1>16, <1>18, <2>1, <2>2 DEF Types, tasks
  <1> QED
    BY <1>5, <1>15, <1>19, <1>21, <1>22, <1>23, <1>24, <1>25

\* The code of a task_exec that calls, and of one that its task returns to.
LEMMA ExecutingCode ==
    ASSUME Types, Nested, NEW i \in 0 .. Len(taken), NEW u, NEW w, Above(i, u, w),
           u.eip \in {Code(KERNEL, "task_switch"), Code(KERNEL, "task_free")}
    PROVE  /\ KernelShape(u) /\ u.seg = KernelSegments /\ u.iflag
           /\ i # 0 => i \in 1 .. Len(taken) /\ taken[i].asked[1] = "int"
  <1>1. CASE i = 0
    BY <1>1, MainShape, CodeFacts DEF Above, MainState
  <1>2. CASE i # 0
    <2>1. i \in 1 .. Len(taken) /\ taken[i] \in Entries /\ Began(taken[i])
      BY <1>2, ElementOfSeq, LenProperties DEF Types, Nested
    <2>2. After(taken[i], u, w)
      BY <1>2 DEF Above
    <2>3. taken[i].asked[1] = "int"
      BY <2>1, <2>2, WhereAfter
    <2>4. SysState(taken[i].was, u, w)
      BY <2>2, <2>3 DEF After
    <2>5. KernelShape(u)
      BY <2>1, <2>3, <2>4, SysShape
    <2>6. u.seg = KernelSegments /\ u.iflag
      BY <2>4, CodeFacts DEF SysState
    <2> QED
      BY <2>1, <2>3, <2>5, <2>6
  <1> QED
    BY <1>1, <1>2

\* iret with NT set returns to the task_exec that called the task.
LEMMA TaskReturned ==
    ASSUME Types, Nested, Intact, Separate, Tables, taken # <<>>, NEW e, e = Last(taken),
           NEW n, n = Len(taken), Called(n), Callee(n) = Ctx(cpu), TaskReturn(cpu.eip)
    PROVE  /\ UNCHANGED <<idtr, tasks, rejected, stack>> /\ tr' = Selector(Ctx(e.was.cpu))
           /\ taken' = Without(taken, 1) /\ cpu' = e.was.cpu
           /\ gdt' = [gdt EXCEPT ![TssIndex(Ctx(cpu))] = TssEntry(Ctx(cpu), TYPE_TSS)]
           /\ tss' \in [Contexts -> Tsss]
           /\ tss'[Ctx(cpu)].link = tss[Ctx(cpu)].link
           /\ \A d \in Contexts : d # Ctx(cpu) => tss'[d] = tss[d]
  <1> DEFINE was == e.was.cpu
             c == Ctx(cpu)
             d == Ctx(was)
             x == tss[d].cpu
             sel == tss[c].link
  <1>1. /\ n \in Nat \ {0} /\ e = taken[n] /\ e.was = Left(n) /\ n \in 1 .. Len(taken)
        /\ n - 1 \in 0 .. Len(taken)
    <2>1. taken \in Seq(Entries)
      BY DEF Types
    <2>2. n \in Nat \ {0} /\ e = taken[n]
      BY <2>1, Removing
    <2> QED
      BY <2>2 DEF Left
  <1>2. /\ e \in Entries /\ Began(e) /\ was \in Cpus /\ was.area \in Areas
        /\ e.was.words \in Seq(Words) /\ d \in Contexts /\ d \in Live
    BY <1>1, Chain DEF Cpus
  <1>3. Above(n - 1, was, e.was.words) /\ Suspended(n)
    BY <1>1 DEF Nested, Intact
  <1>4. was.eip = Code(KERNEL, "task_free")
    BY <1>1, <1>2 DEF Began, Called
  <1>5. KernelShape(was) /\ was.seg = KernelSegments
    BY <1>1, <1>3, <1>4, ExecutingCode
  <1>6. /\ x = was /\ tss[d].depth = Len(e.was.words) /\ stack[was.area] = e.was.words
        /\ sel = Selector(d)
    BY <1>1, <1>3 DEF Suspended
  <1>7. c \in Contexts /\ c \in Live /\ Current = c /\ Stk \in Seq(Words) /\ Index(tr) = TssIndex(c)
    BY Here
  <1>8. /\ gdt[TssIndex(d)] = TssEntry(d, TYPE_TSS_BUSY)
        /\ gdt[TssIndex(c)] = TssEntry(c, TYPE_TSS_BUSY)
    BY <1>2, <1>7 DEF Tables
  <1>9. ContextAt(Selector(d)) = {d} /\ IsTss(gdt[Index(Selector(d))], TYPE_TSS_BUSY)
    BY <1>2, <1>8, TssFound
  <1>10. d # c
    BY <1>1 DEF Separate
  <1>11. /\ CodeOk(GDT_KERNEL_CODE_SELECTOR) /\ StackOk(GDT_KERNEL_DATA_SELECTOR, 0)
         /\ DataOk(GDT_KERNEL_DATA_SELECTOR, 0) /\ Rpl(GDT_KERNEL_CODE_SELECTOR) = 0
    BY SegmentsLoadable DEF Tables
  <1>12. /\ was.cs = GDT_KERNEL_CODE_SELECTOR /\ was.ss = GDT_KERNEL_DATA_SELECTOR
         /\ \A r \in Segments : was.seg[r] = GDT_KERNEL_DATA_SELECTOR
    BY <1>5 DEF KernelShape, KernelRegs, KernelSegments
  <1>13. Len(e.was.words) \in Nat
    BY <1>2, LenProperties
  <1> HIDE DEF was, c, d, x, sel
  <1>14. Loadable(sel, TYPE_TSS_BUSY)
    <2>1. tss[d].depth <= Len(stack[x.area])
      BY <1>6, <1>13
    <2>2. CodeOk(x.cs) /\ StackOk(x.ss, Rpl(x.cs)) /\ \A r \in Segments : DataOk(x.seg[r], Rpl(x.cs))
      BY <1>6, <1>11, <1>12
    <2> QED
      BY <1>6, <1>9, <2>1, <2>2 DEF Loadable, x
  <1> DEFINE next == \E b \in ContextAt(sel) :
                        /\ Loaded(b, tss[b].cpu.nt)
                        /\ tss' = Saved(cpu.eip, FALSE)
                        /\ gdt' = [gdt EXCEPT ![Index(tr)].type = TYPE_TSS]
                        /\ tr' = sel
                        /\ taken' = Without(taken, 1)
                        /\ UNCHANGED <<idtr, tasks>>
  <1>15. Checked(Loadable(sel, TYPE_TSS_BUSY), next)
    BY <1>7 DEF TaskReturn, sel
  <1>16. next /\ UNCHANGED rejected
    BY <1>14, <1>15 DEF Checked
  <1>17. /\ Loaded(d, x.nt) /\ tss' = Saved(cpu.eip, FALSE)
         /\ gdt' = [gdt EXCEPT ![Index(tr)].type = TYPE_TSS]
         /\ tr' = sel /\ taken' = Without(taken, 1) /\ UNCHANGED <<idtr, tasks>>
    BY <1>6, <1>9, <1>16 DEF x
  <1>18. gdt' = [gdt EXCEPT ![TssIndex(c)] = TssEntry(c, TYPE_TSS)]
    <2>1. [gdt[TssIndex(c)] EXCEPT !.type = TYPE_TSS] = TssEntry(c, TYPE_TSS)
      BY <1>7, <1>8, TssEntries
    <2> QED
      BY <1>7, <1>17, <2>1
  <1>19. was \in Cpus
    BY <1>2 DEF was
  <1>20. cpu' = was /\ stack' = stack
    <2>1. cpu' = [was EXCEPT !.nt = was.nt]
      BY <1>6, <1>17 DEF Loaded, x
    <2>2. cpu' = was
      BY <1>19, <2>1 DEF Cpus
    <2>3. stack' = [stack EXCEPT ![was.area] = SubSeq(@, 1, Len(e.was.words))]
      BY <1>6, <1>17 DEF Loaded, x
    <2>4. SubSeq(stack[was.area], 1, Len(e.was.words)) = stack[was.area]
      BY <1>2, <1>6, SubSeqFull
    <2>5. stack \in [Areas -> Seq(Words)]
      BY DEF Types
    <2> QED
      BY <2>2, <2>3, <2>4, <2>5
  <1>21. /\ tss' \in [Contexts -> Tsss] /\ tss'[c].link = tss[c].link
         /\ \A b \in Contexts : b # c => tss'[b] = tss[b]
    <2>1. cpu.eip \in Words /\ FALSE \in BOOLEAN
      BY DEF Types, Cpus
    <2>2. PICK p \in BOOLEAN : p = FALSE
      OBVIOUS
    <2>3. /\ Saved(cpu.eip, p) \in [Contexts -> Tsss] /\ Saved(cpu.eip, p)[c].link = tss[c].link
          /\ \A b \in Contexts : b # c => Saved(cpu.eip, p)[b] = tss[b]
      <3>1. PICK w \in Words : w = cpu.eip
        BY <2>1
      <3>2. Saved(w, p) \in [Contexts -> Tsss] /\ Saved(w, p)[c].link = tss[c].link
        BY <1>7, SavedFacts
      <3>3. \A b \in Contexts : b # c => Saved(w, p)[b] = tss[b]
        <4>1. Types /\ c \in Contexts /\ Current = c /\ Stk \in Seq(Words)
          BY <1>7
        <4> QED
          BY <4>1, SavedFacts, ZenonT(60)
      <3> QED
        BY <3>1, <3>2, <3>3
    <2> QED
      BY <1>17, <2>2, <2>3
  <1>22. tr' = Selector(d)
    BY <1>6, <1>17
  <1> QED
    BY <1>16, <1>17, <1>18, <1>20, <1>21, <1>22 DEF was, c, d

\* The return from a task shortens the chain.
LEMMA ReturnStep ==
    ASSUME Types, Nested, Intact, Separate, Tables, taken # <<>>, NEW e, e = Last(taken),
           Called(Len(taken)), Callee(Len(taken)) = Ctx(cpu), TaskReturn(cpu.eip),
           quiet' \in BOOLEAN
    PROVE  /\ Types' /\ Nested' /\ Intact' /\ Separate' /\ Tables' /\ Child'
           /\ UNCHANGED <<rejected, tasks, stack>> /\ taken' = Without(taken, 1)
           /\ cpu' = e.was.cpu /\ Stk' = e.was.words
  <1>0. PICK n : n = Len(taken)
    OBVIOUS
  <1>1. PICK c : c = Ctx(cpu)
    OBVIOUS
  <1>2. PICK d : d = Ctx(e.was.cpu)
    OBVIOUS
  <1>3. c \in Contexts /\ c \in Live /\ Called(n) /\ Callee(n) = c
    BY <1>0, <1>1, Here
  <1>4. /\ UNCHANGED <<idtr, tasks, rejected, stack>> /\ tr' = Selector(d)
        /\ taken' = Without(taken, 1) /\ cpu' = e.was.cpu
        /\ gdt' = [gdt EXCEPT ![TssIndex(c)] = TssEntry(c, TYPE_TSS)]
        /\ tss' \in [Contexts -> Tsss] /\ tss'[c].link = tss[c].link
        /\ \A b \in Contexts : b # c => tss'[b] = tss[b]
    BY <1>0, <1>1, <1>2, <1>3, TaskReturned
  <1>5. taken \in Seq(Entries)
    BY DEF Types
  <1>6. /\ n \in Nat \ {0} /\ n - 1 \in Nat /\ taken' \in Seq(Entries) /\ Len(taken') = n - 1
        /\ e = taken[n] /\ e.was = Left(n) /\ e \in Entries
        /\ \A i \in 1 .. n - 1 : taken'[i] = taken[i] /\ i \in 1 .. n
        /\ \A i \in 1 .. n - 1 :
                  Called(i)' = Called(i) /\ Callee(i)' = Callee(i) /\ Left(i)' = Left(i)
        /\ \A b : b \in Live <=> b \in Live' \/ b = c
    BY <1>0, <1>3, <1>4, <1>5, Shorter
  <1>7. n \in 1 .. Len(taken) /\ n - 1 \in 0 .. Len(taken) /\ n \in 1 .. n
    BY <1>0, <1>6
  <1>8. /\ Began(e) /\ Above(n - 1, e.was.cpu, e.was.words) /\ Suspended(n)
        /\ e.was.cpu \in Cpus /\ e.was.words \in Seq(Words) /\ d \in Contexts /\ d \in Live
        /\ c \in Slots
    BY <1>2, <1>3, <1>6, <1>7, Chain DEF Nested, Intact
  <1>9. e.was.cpu.eip = Code(KERNEL, "task_free") /\ e.asked[1] = "call"
    BY <1>3, <1>6, <1>8 DEF Began, Called
  <1>10. n - 1 # 0 => n - 1 \in 1 .. n - 1 /\ taken[n - 1].asked[1] = "int"
    <2>1. n - 1 # 0 => taken[n - 1].asked[1] = "int"
      BY <1>7, <1>8, <1>9, ExecutingCode
    <2> QED
      BY <1>6, <2>1
  <1>11. /\ stack[e.was.cpu.area] = e.was.words /\ child[d] = c
    BY <1>2, <1>3, <1>6, <1>8 DEF Suspended
  <1>12. Stk' = e.was.words /\ Ctx(cpu') = d
    BY <1>2, <1>4, <1>11 DEF Stk
  <1>13. ASSUME NEW i \in 1 .. n
         PROVE  /\ Called(i) =>
                    /\ \A j \in i + 1 .. n :
                            /\ Ctx(Left(j).cpu) # Ctx(Left(i).cpu)
                            /\ Called(j) => Callee(j) # Callee(i)
                    /\ \A j \in 1 .. i : Ctx(Left(j).cpu) # Callee(i)
                /\ FromUser(Left(i).cpu) =>
                    \A j \in i + 1 .. n : Left(j).cpu.area # Left(i).cpu.area
                /\ Ctx(Left(i).cpu) \in Live /\ Ctx(Left(i).cpu) \in Contexts
                /\ Ctx(Left(i).cpu) # c
    <2>1. \A j \in 1 .. n : Ctx(Left(j).cpu) # c
      BY <1>0, <1>3, <1>7 DEF Separate
    <2> QED
      BY <1>0, <2>1, Chain DEF Separate
  <1>14. d # c
    BY <1>2, <1>6, <1>7, <1>13
  <1>15. c \notin Live'
    <2>1. ASSUME NEW i \in 1 .. n - 1, Called(i)
          PROVE  Callee(i) # c
      <3>1. i \in 1 .. n /\ n \in i + 1 .. n
        BY <1>6, <2>1
      <3> QED
        BY <1>3, <1>13, <2>1, <3>1
    <2>2. c # KERNEL
      BY <1>8, ContextFacts
    <2> QED
      BY <1>6, <2>1, <2>2 DEF Live
  <1>16. Nested'
    <2>1. Above(n - 1, cpu', e.was.words)
      BY <1>4, <1>8
    <2> QED
      BY <1>0, <1>4, <1>12, <2>1, ShorterNested
  <1>17. Separate'
    <2>1. ASSUME NEW i \in 1 .. n - 1
          PROVE  /\ Called(i)' =>
                        /\ Ctx(Left(i)'.cpu) # Ctx(cpu')
                        /\ \A j \in i + 1 .. n - 1 :
                                /\ Ctx(Left(j)'.cpu) # Ctx(Left(i)'.cpu)
                                /\ Called(j)' => Callee(j)' # Callee(i)'
                        /\ \A j \in 1 .. i : Ctx(Left(j)'.cpu) # Callee(i)'
                 /\ FromUser(Left(i)'.cpu) =>
                        /\ Left(i)'.cpu.area # cpu'.area
                        /\ \A j \in i + 1 .. n - 1 : Left(j)'.cpu.area # Left(i)'.cpu.area
                 /\ Ctx(Left(i)'.cpu) \in Live'
      <3>1. \A j \in i + 1 .. n - 1 : j \in i + 1 .. n /\ j \in 1 .. n - 1
        BY <1>6, <2>1
      <3>2. \A j \in 1 .. i : j \in 1 .. n - 1
        BY <1>6, <2>1
      <3>3. i \in 1 .. n /\ n \in i + 1 .. n
        BY <1>6, <2>1
      <3>4. Called(i) => Ctx(Left(i).cpu) # d
        BY <1>2, <1>6, <1>13, <3>3
      <3>5. FromUser(Left(i).cpu) => Left(i).cpu.area # cpu'.area
        BY <1>4, <1>6, <1>13, <3>3
      <3>6. Ctx(Left(i).cpu) \in Live'
        BY <1>6, <1>13, <3>3
      <3> QED
        BY <1>6, <1>12, <1>13, <2>1, <3>1, <3>2, <3>3, <3>4, <3>5, <3>6
    <2> QED
      BY <1>6, <2>1 DEF Separate
  <1>18. Intact'
    <2>1. ASSUME NEW i \in 1 .. n - 1
          PROVE  Suspended(i)'
      <3> DEFINE u == Left(i).cpu
      <3>1. i \in 1 .. n /\ i \in 1 .. Len(taken) /\ n \in i + 1 .. n
        BY <1>0, <1>6, <2>1
      <3>2. Suspended(i)
        BY <3>1 DEF Intact
      <3>3. Ctx(u) \in Contexts /\ Ctx(u) # c
        BY <1>13, <3>1
      <3>4. Called(i) => Callee(i) # c /\ Callee(i) \in Contexts
        BY <1>3, <1>13, <3>1, Chain, ContextFacts
      <3>5. Called(i) => tss'[Ctx(u)] = tss[Ctx(u)] /\ tss'[Callee(i)] = tss[Callee(i)]
        BY <1>4, <3>3, <3>4
      <3>6. /\ Called(i)' = Called(i) /\ Callee(i)' = Callee(i) /\ Left(i)' = Left(i)
        BY <1>6, <2>1
      <3>7. child' = child
        BY <1>4 DEF tasks
      <3> QED
        BY <1>4, <3>2, <3>5, <3>6, <3>7 DEF Suspended
    <2> QED
      BY <1>6, <2>1 DEF Intact
  <1>19. /\ \A i \in GdtIndexes : i # TssIndex(c) => gdt'[i] = gdt[i]
         /\ gdt'[TssIndex(c)] = TssEntry(c, TYPE_TSS)
         /\ TssIndex(c) \in GdtIndexes /\ DOMAIN gdt' = GdtIndexes
    <2>1. gdt[TssIndex(c)] = TssEntry(c, TYPE_TSS_BUSY)
      BY <1>3 DEF Tables
    <2>2. TssIndex(c) \in GdtIndexes
      BY <1>3, <2>1, TssFound
    <2> QED
      BY <1>4, <2>2 DEF Types
  <1>20. Tables'
    <2>1. ASSUME NEW b \in Live'
          PROVE  /\ gdt'[TssIndex(b)] = TssEntry(b, TYPE_TSS_BUSY)
                 /\ tss'[b].ss0 = GDT_KERNEL_DATA_SELECTOR /\ tss'[b].esp0 = Kernel(b)
                 /\ b \in Slots => in_use'[b]
      <3>1. b \in Live /\ b # c
        BY <1>6, <1>15, <2>1
      <3>2. b \in Contexts
        BY <3>1, LiveContexts
      <3>3. /\ gdt[TssIndex(b)] = TssEntry(b, TYPE_TSS_BUSY)
            /\ tss[b].ss0 = GDT_KERNEL_DATA_SELECTOR /\ tss[b].esp0 = Kernel(b)
            /\ b \in Slots => in_use[b]
        BY <3>1 DEF Tables
      <3>4. TssIndex(b) # TssIndex(c) /\ TssIndex(b) \in GdtIndexes
        <4>1. TssIndex(b) \in GdtIndexes
          BY <3>2, <3>3, TssFound
        <4> QED
          BY <1>8, <3>1, <3>2, <4>1, ContextFacts DEF TssIndex, KERNEL, KERNEL_TSS_INDEX
      <3>5. in_use' = in_use
        BY <1>4 DEF tasks
      <3> QED
        BY <1>4, <1>19, <3>1, <3>2, <3>3, <3>4, <3>5
    <2>2. \A i \in 1 .. 4 : i \in GdtIndexes /\ i # TssIndex(c)
      BY <1>8, ContextFacts DEF TssIndex, GdtIndexes, KERNEL_TSS_INDEX, Slots
    <2>3. \A i \in 1 .. 4 : gdt'[i] = gdt_init[i]
      BY <1>19, <2>2 DEF Tables
    <2>4. d \in Live'
      BY <1>6, <1>8, <1>14
    <2> QED
      BY <1>4, <1>12, <2>1, <2>3, <2>4 DEF Tables
  <1>21. Child'
    <2>1. taken' = <<>> \/ Last(taken').asked[1] = "int"
      <3>1. CASE n - 1 = 0
        BY <1>6, <3>1, EmptySeq
      <3>2. CASE n - 1 # 0
        BY <1>6, <1>10, <3>2 DEF Last
      <3> QED
        BY <3>1, <3>2
    <2>2. Top' = cpu'
      BY <2>1 DEF Top
    <2>3. Top'.eip = Code(KERNEL, "task_free")
      BY <1>4, <1>9, <2>2
    <2>4. Code(KERNEL, "task_free") # Code(KERNEL, "task_switch")
      BY CodeFacts
    <2>5. child'[d] = c
      BY <1>4, <1>11 DEF tasks
    <2> QED
      BY <1>8, <1>12, <1>15, <2>3, <2>4, <2>5 DEF Child
  <1>22. Types'
    <2>1. \A i \in GdtIndexes : gdt'[i].present \in {0, 1}
      <3>1. PICK b : b = TssEntry(c, TYPE_TSS)
        OBVIOUS
      <3>2. b.present = 1
        BY <1>3, <3>1, TssEntries
      <3>3. gdt'[TssIndex(c)] = b
        BY <1>19, <3>1
      <3>4. \A i \in GdtIndexes : gdt[i].present \in {0, 1}
        BY DEF Types
      <3> QED
        BY <1>19, <3>2, <3>3, <3>4
    <2>2. tr' \in Nat
      BY <1>4, <1>8, ContextFacts
         DEF Selector, gdt_entry_to_selector, TssIndex, KERNEL_TSS_INDEX
    <2> QED
      BY <1>4, <1>6, <1>8, <1>19, <2>1, <2>2 DEF Types, tasks
  <1> QED
    BY <1>4, <1>12, <1>16, <1>17, <1>18, <1>20, <1>21, <1>22

---------------------------------------------------------------------------
(* Which activation runs, from the instruction the processor is at.        *)

LEMMA WhoRuns ==
    ASSUME Types, Nested
    PROVE  \/ /\ taken = <<>> /\ MainState(cpu, Stk)
              /\ \A u, w : Above(Len(taken), u, w) <=> MainState(u, w)
           \/ /\ taken # <<>> /\ Last(taken) \in Entries /\ Began(Last(taken))
              /\ Len(taken) \in Nat \ {0} /\ Last(taken) = taken[Len(taken)]
              /\ After(Last(taken), cpu, Stk)
              /\ \A u, w : Above(Len(taken), u, w) <=> After(Last(taken), u, w)
  <1>1. taken \in Seq(Entries) /\ Above(Len(taken), cpu, Stk)
    BY DEF Types, Nested
  <1>2. CASE taken = <<>>
    BY <1>1, <1>2, EmptySeq DEF Above
  <1>3. CASE taken # <<>>
    <2>1. Len(taken) \in Nat \ {0} /\ Last(taken) \in Entries /\ Last(taken) = taken[Len(taken)]
      BY <1>1, <1>3, Removing
    <2>2. Len(taken) \in 1 .. Len(taken)
      BY <2>1
    <2>3. Began(Last(taken))
      BY <2>1, <2>2 DEF Nested
    <2>4. \A u, w : Above(Len(taken), u, w) <=> After(Last(taken), u, w)
      BY <2>1 DEF Above
    <2> QED
      BY <1>1, <1>3, <2>1, <2>3, <2>4
  <1> QED
    BY <1>2, <1>3

LEMMA MainRuns ==
    ASSUME Types, Nested, NEW l \in {"sti", "kernel_main", "halt", "hlt"},
           cpu.eip = Code(KERNEL, l)
    PROVE  /\ taken = <<>> /\ MainState(cpu, Stk)
           /\ \A u, w : Above(Len(taken), u, w) <=> MainState(u, w)
  <1>1. CASE taken # <<>> /\ Last(taken) \in Entries /\ Began(Last(taken))
             /\ After(Last(taken), cpu, Stk)
    BY <1>1, WhereAfter
  <1> QED
    BY <1>1, WhoRuns

LEMMA SysRuns ==
    ASSUME Types, Nested,
           \/ cpu.eip = Entry(SYSCALL)
           \/ \E l \in {"syscall_handler", "syscall_exit", "syscall_iret"} :
                  cpu.eip = Code(KERNEL, l)
    PROVE  /\ taken # <<>> /\ Last(taken) \in Entries /\ Began(Last(taken))
           /\ Last(taken).asked[1] = "int" /\ SysState(Last(taken).was, cpu, Stk)
           /\ Last(taken).asked = <<"int", SYSCALL>> /\ Ctx(Last(taken).was.cpu) \in Slots
           /\ UserRegs(Last(taken).was.cpu) /\ Last(taken).was \in States
           /\ Ctx(cpu) = Ctx(Last(taken).was.cpu) /\ KernelShape(cpu)
           /\ \A u, w : Above(Len(taken), u, w) <=> SysState(Last(taken).was, u, w)
  <1>1. taken # <<>> /\ Last(taken) \in Entries /\ Began(Last(taken))
        /\ After(Last(taken), cpu, Stk)
        /\ \A u, w : Above(Len(taken), u, w) <=> After(Last(taken), u, w)
    <2>1. CASE taken = <<>> /\ MainState(cpu, Stk)
      <3>1. \E l \in {"kernel_main", "task_switch", "task_free", "halt", "sti", "hlt"} :
                cpu.eip = Code(KERNEL, l)
        BY <2>1, MainShape
      <3>2. FALSE
        BY <3>1, CodeFacts
      <3> QED
        BY <3>2
    <2> QED
      BY <2>1, WhoRuns
  <1>2. Last(taken).asked[1] = "int"
    <2>1. CASE cpu.eip = Entry(SYSCALL)
      BY <1>1, <2>1, WhereAfter
    <2>2. CASE \E l \in {"syscall_handler", "syscall_exit", "syscall_iret"} :
                  cpu.eip = Code(KERNEL, l)
      BY <1>1, <2>2, WhereAfter
    <2> QED
      BY <2>1, <2>2
  <1>3. /\ SysState(Last(taken).was, cpu, Stk)
        /\ \A u, w : Above(Len(taken), u, w) <=> SysState(Last(taken).was, u, w)
    BY <1>1, <1>2 DEF After
  <1>4. /\ Last(taken).asked = <<"int", SYSCALL>> /\ Ctx(Last(taken).was.cpu) \in Slots
        /\ Last(taken).was \in States
    BY <1>1, <1>2, EntryTypes
  <1>5. UserRegs(Last(taken).was.cpu)
    BY <1>1, <1>2 DEF Began
  <1>6. Ctx(cpu) = Ctx(Last(taken).was.cpu) /\ KernelShape(cpu)
    BY <1>1, <1>2, <1>3, SysShape
  <1> QED
    BY <1>1, <1>2, <1>3, <1>4, <1>5, <1>6

LEMMA HandlerRuns ==
    ASSUME Types, Nested,
           \/ \E n \in Installed \ {SYSCALL} : cpu.eip = Entry(n)
           \/ \E l \in {"exception_handler", "exception_exit", "irq_handler", "irq_exit"} :
                  cpu.eip = Code(KERNEL, l)
    PROVE  /\ taken # <<>> /\ Last(taken) \in Entries /\ Began(Last(taken))
           /\ Last(taken).asked[1] \in {"irq", "fault"} /\ HandlerState(Last(taken), cpu, Stk)
           /\ Last(taken).was \in States /\ VectorOf(Last(taken).asked) \in Installed \ {SYSCALL}
           /\ Ctx(cpu) = Ctx(Last(taken).was.cpu) /\ KernelShape(cpu)
           /\ \A u, w : Above(Len(taken), u, w) <=> HandlerState(Last(taken), u, w)
  <1>1. taken # <<>> /\ Last(taken) \in Entries /\ Began(Last(taken))
        /\ After(Last(taken), cpu, Stk)
        /\ \A u, w : Above(Len(taken), u, w) <=> After(Last(taken), u, w)
    <2>1. CASE taken = <<>> /\ MainState(cpu, Stk)
      <3>1. \E l \in {"kernel_main", "task_switch", "task_free", "halt", "sti", "hlt"} :
                cpu.eip = Code(KERNEL, l)
        BY <2>1, MainShape
      <3>2. FALSE
        BY <3>1, CodeFacts
      <3> QED
        BY <3>2
    <2> QED
      BY <2>1, WhoRuns
  <1>2. Last(taken).asked[1] \in {"irq", "fault"}
    <2>1. CASE \E n \in Installed \ {SYSCALL} : cpu.eip = Entry(n)
      BY <1>1, <2>1, WhereAfter
    <2>2. CASE \E l \in {"exception_handler", "exception_exit", "irq_handler", "irq_exit"} :
                  cpu.eip = Code(KERNEL, l)
      BY <1>1, <2>2, WhereAfter
    <2> QED
      BY <2>1, <2>2
  <1>3. /\ HandlerState(Last(taken), cpu, Stk)
        /\ \A u, w : Above(Len(taken), u, w) <=> HandlerState(Last(taken), u, w)
    BY <1>1, <1>2 DEF After
  <1>4. /\ Last(taken).was \in States /\ VectorOf(Last(taken).asked) \in Installed \ {SYSCALL}
    BY <1>1, <1>2, EntryTypes
  <1>5. Ctx(cpu) = Ctx(Last(taken).was.cpu) /\ KernelShape(cpu)
    BY <1>1, <1>2, <1>3, HandlerShape
  <1> QED
    BY <1>1, <1>2, <1>3, <1>4, <1>5

LEMMA AppRuns ==
    ASSUME Types, Nested, NEW s \in Slots, NEW l, cpu.eip = Code(s, l)
    PROVE  /\ taken # <<>> /\ Called(Len(taken)) /\ Callee(Len(taken)) = s
           /\ Last(taken).asked[1] = "call"
           /\ Ctx(cpu) = s /\ UserState(s, cpu, Stk)
           /\ \A u, w : Above(Len(taken), u, w) <=> UserState(s, u, w)
  <1>1. cpu.eip[2] # KERNEL /\ cpu.eip[2] = s
    BY CodeFacts, ContextFacts
  <1>2. taken # <<>> /\ Last(taken) \in Entries /\ Began(Last(taken))
        /\ Last(taken) = taken[Len(taken)]
        /\ After(Last(taken), cpu, Stk)
        /\ \A u, w : Above(Len(taken), u, w) <=> After(Last(taken), u, w)
    <2>1. CASE taken = <<>> /\ MainState(cpu, Stk)
      BY <1>1, <2>1, MainShape DEF KernelShape
    <2> QED
      BY <2>1, WhoRuns
  <1>3. Last(taken).asked[1] = "call"
    BY <1>1, <1>2, WhereAfter
  <1>4. /\ Last(taken).asked[2] \in Slots /\ UserState(Last(taken).asked[2], cpu, Stk)
        /\ \A u, w : Above(Len(taken), u, w) <=> UserState(Last(taken).asked[2], u, w)
    BY <1>2, <1>3, EntryTypes DEF After
  <1>5. Last(taken).asked[2] = s /\ Ctx(cpu) = s
    BY <1>1, <1>4, UserShape
  <1> QED
    BY <1>2, <1>3, <1>4, <1>5 DEF Called, Callee

---------------------------------------------------------------------------
(* Actions within an activation.                                           *)

LEMMA Going ==
    ASSUME Types, Chained, UNCHANGED <<tables, in_use, child, taken, rejected>>,
           quiet' \in BOOLEAN, patched' \subseteq {Code(s, "main") : s \in Slots},
           NEW w \in Seq(Words), stack' = [stack EXCEPT ![cpu.area] = w],
           cpu' \in Cpus, cpu'.area = cpu.area, Above(Len(taken), cpu', w),
           \/ taken # <<>> /\ Last(taken).asked[1] = "irq"
           \/ /\ taken = <<>> \/ Last(taken).asked[1] # "irq"
              /\ cpu'.eip # Code(KERNEL, "task_switch") /\ cpu'.eip # Code(KERNEL, "task_free")
    PROVE  Types' /\ Chained'
  <1>0. Nested /\ Intact /\ Separate /\ Tables /\ Child
    BY DEF Chained
  <1>1. /\ stack' \in [Areas -> Seq(Words)]
        /\ Nested' /\ Intact' /\ Separate' /\ Tables' /\ Live' = Live /\ Ctx(cpu') = Ctx(cpu)
    BY <1>0, KeptStep
  <1>2. Types'
    BY <1>1 DEF Types, tables
  <1>3. Child'
    <2>1. CASE taken # <<>> /\ Last(taken).asked[1] = "irq"
      <3>1. Top' = Top
        BY <2>1 DEF Top, Last
      <3>2. Ctx(cpu) \in Contexts /\ Ctx(cpu) \in Live /\ Live \subseteq Contexts
            /\ cpu.area \in Areas
        BY <1>0, Here, LiveContexts
      <3>3. \A a \in Areas : a[2] # Ctx(cpu) => stack'[a] = stack[a]
        BY <3>2 DEF Ctx, Types
      <3>4. UNCHANGED <<child, in_use, gdt, tss>>
        BY DEF tables
      <3> QED
        BY <1>0, <1>1, <3>1, <3>2, <3>3, <3>4, SameCall
    <2>2. CASE /\ taken = <<>> \/ Last(taken).asked[1] # "irq"
               /\ cpu'.eip # Code(KERNEL, "task_switch") /\ cpu'.eip # Code(KERNEL, "task_free")
      <3>1. taken' = <<>> \/ Last(taken').asked[1] # "irq"
        BY <2>2 DEF Last
      <3> QED
        BY <2>2, <3>1, NoCall
    <2> QED
      BY <2>1, <2>2
  <1> QED
    BY <1>1, <1>2, <1>3 DEF Chained

LEMMA StillGoing ==
    ASSUME Types, Chained, UNCHANGED <<tables, in_use, child, taken, rejected, stack>>,
           quiet' \in BOOLEAN, patched' \subseteq {Code(s, "main") : s \in Slots},
           cpu' \in Cpus, cpu'.area = cpu.area, Above(Len(taken), cpu', Stk),
           \/ taken # <<>> /\ Last(taken).asked[1] = "irq"
           \/ /\ taken = <<>> \/ Last(taken).asked[1] # "irq"
              /\ cpu'.eip # Code(KERNEL, "task_switch") /\ cpu'.eip # Code(KERNEL, "task_free")
    PROVE  Types' /\ Chained'
  <1>1. PICK w : w = Stk
    OBVIOUS
  <1>2. cpu.area \in Areas /\ stack \in [Areas -> Seq(Words)]
    BY DEF Types, Cpus
  <1>3. w \in Seq(Words) /\ stack' = [stack EXCEPT ![cpu.area] = w]
    BY <1>1, <1>2 DEF Stk
  <1>4. Above(Len(taken), cpu', w)
    BY <1>1
  <1> QED
    BY <1>3, <1>4, Going

LEMMA KernelLabels ==
    /\ \A l \in Labels : Code(KERNEL, l) \in Words
    /\ \A s \in Slots, l \in Labels : Code(s, l) \in Words
    /\ Code(KERNEL, "task_switch") # Code(KERNEL, "task_free")
  BY WordFacts, ContextFacts, CodeFacts

\* The main code between its calls.
LEMMA MainStep ==
    ASSUME Types, Chained, Sti \/ Halt \/ NoShell
    PROVE  Types' /\ Chained'
  <1>0. Nested
    BY DEF Chained
  <1>1. PICK l \in {"sti", "kernel_main", "halt", "hlt"} : cpu.eip = Code(KERNEL, l)
    BY DEF Sti, Halt, NoShell, At
  <1>2. taken = <<>> /\ MainState(cpu, Stk) /\ \A u, w : Above(Len(taken), u, w) <=> MainState(u, w)
    BY <1>0, <1>1, MainRuns
  <1>3. cpu \in Cpus
    BY DEF Types
  <1>4. /\ UNCHANGED <<stack, tables, tasks, rejected, taken>> /\ quiet' = TRUE
    BY DEF Sti, Halt, NoShell, Main
  <1>5. \/ cpu' = [cpu EXCEPT !.iflag = TRUE, !.eip = Code(KERNEL, "kernel_main")]
        \/ cpu' = [cpu EXCEPT !.iflag = FALSE, !.eip = Code(KERNEL, "hlt")]
        \/ cpu' = [cpu EXCEPT !.eip = Code(KERNEL, "halt")] /\ cpu.eip = Code(KERNEL, "kernel_main")
    BY DEF Sti, Halt, NoShell, Goto, At
  <1>6. cpu.eip = Code(KERNEL, "kernel_main") => cpu.iflag
    BY <1>2, CodeFacts DEF MainState
  <1>7. /\ cpu' \in Cpus /\ cpu'.area = cpu.area /\ cpu'.cs = cpu.cs /\ cpu'.ss = cpu.ss
        /\ cpu'.nt = cpu.nt /\ cpu'.seg = cpu.seg
        /\ \/ cpu'.iflag /\ \E m \in {"kernel_main", "halt"} : cpu'.eip = Code(KERNEL, m)
           \/ ~cpu'.iflag /\ cpu'.eip = Code(KERNEL, "hlt")
    <2>1. \A m \in {"kernel_main", "hlt", "halt"} : Code(KERNEL, m) \in Words
      BY KernelLabels DEF Labels
    <2>2. CASE cpu' = [cpu EXCEPT !.iflag = TRUE, !.eip = Code(KERNEL, "kernel_main")]
      BY <1>3, <2>1, <2>2 DEF Cpus
    <2>3. CASE cpu' = [cpu EXCEPT !.iflag = FALSE, !.eip = Code(KERNEL, "hlt")]
      BY <1>3, <2>1, <2>3 DEF Cpus
    <2>4. CASE cpu' = [cpu EXCEPT !.eip = Code(KERNEL, "halt")]
               /\ cpu.eip = Code(KERNEL, "kernel_main")
      BY <1>3, <1>6, <2>1, <2>4 DEF Cpus
    <2> QED
      BY <1>5, <2>2, <2>3, <2>4
  <1>8. MainState(cpu', Stk)
    BY <1>2, <1>7 DEF MainState, KernelRegs
  <1>9. cpu'.eip # Code(KERNEL, "task_switch") /\ cpu'.eip # Code(KERNEL, "task_free")
    BY <1>7, CodeFacts
  <1>10. UNCHANGED <<in_use, child, patched>> /\ patched \subseteq {Code(s, "main") : s \in Slots}
    BY <1>4 DEF tasks, Types
  <1> QED
    BY <1>2, <1>4, <1>7, <1>8, <1>9, <1>10, StillGoing

\* What a C function may change.
LEMMA ClobberedFacts ==
    ASSUME NEW gen \in [General -> Words]
    PROVE  /\ Clobbered(gen) \in [General -> Words]
           /\ \A r \in {"ebx", "esi", "edi", "ebp"} : Clobbered(gen)[r] = gen[r]
  <1>1. \A r \in General : Val(KERNEL, r) \in Words
    BY WordFacts, ContextFacts DEF Names
  <1>2. \A r \in General : Clobbered(gen)[r] =
            IF r \in {"eax", "ecx", "edx"} THEN Val(KERNEL, r) ELSE gen[r]
    BY DEF Clobbered
  <1>3. Clobbered(gen) \in [General -> Words]
    BY <1>1 DEF Clobbered
  <1> QED
    BY <1>2, <1>3 DEF General

\* The C handlers of exceptions and interrupts.
LEMMA CHandlers ==
    ASSUME Types, Chained, ExceptionHandler \/ IrqHandler
    PROVE  Types' /\ Chained'
  <1>0. Nested /\ Tables
    BY DEF Chained
  <1>1. PICK e : e = Last(taken)
    OBVIOUS
  <1>2. PICK kind \in {"exception", "irq"} :
            IF kind = "irq" THEN IrqHandler ELSE ExceptionHandler
    OBVIOUS
  <1>3. cpu.eip = Code(KERNEL, IF kind = "irq" THEN "irq_handler" ELSE "exception_handler")
    BY <1>2 DEF IrqHandler, ExceptionHandler, At
  <1>4. /\ taken # <<>> /\ e \in Entries /\ Began(e)
        /\ e.asked[1] \in {"irq", "fault"} /\ HandlerState(e, cpu, Stk)
        /\ e.was \in States /\ Ctx(cpu) = Ctx(e.was.cpu)
        /\ \A u, w : Above(Len(taken), u, w) <=> HandlerState(e, u, w)
        /\ VectorOf(e.asked) \in Installed \ {SYSCALL}
        /\ After(e, cpu, Stk)
    BY <1>0, <1>1, <1>3, HandlerRuns DEF After
  <1>5. (kind = "irq") <=> e.asked[1] = "irq"
    BY <1>3, <1>4, WhereAfter
  <1>6. /\ UNCHANGED <<stack, tables, in_use, child, rejected, taken, quiet>>
        /\ cpu' = [cpu EXCEPT !.gen = Clobbered(@), !.eip = Code(KERNEL, ExitLabel(e.asked))]
        /\ patched' = patched \/ (patched' = patched \union {regs("eip")} /\ kind # "irq")
    <2>1. CASE kind = "irq"
      BY <1>2, <1>5, <2>1 DEF IrqHandler, tasks, ExitLabel
    <2>2. CASE kind # "irq"
      <3>1. ExceptionHandler /\ e.asked[1] # "irq"
        BY <1>2, <1>5, <2>2
      <3>2. ~rejected'  => /\ UNCHANGED <<stack, tables, in_use, child, rejected, taken, quiet>>
            /\ cpu' = [cpu EXCEPT !.gen = Clobbered(@), !.eip = Code(KERNEL, "exception_exit")]
            /\ patched' = patched \union {regs("eip")}
        BY <3>1 DEF ExceptionHandler, Checked
      <3>3. \E s \in TasksBySelector(tr) : in_use[s]
        <4>1. e.asked[1] = "fault" /\ Ctx(cpu) \in Slots
          BY <1>4, <3>1, EntryTypes
        <4>2. tr = Selector(Ctx(cpu)) /\ in_use[Ctx(cpu)]
          BY <1>0, <4>1 DEF Tables
        <4> QED
          BY <4>1, <4>2 DEF TasksBySelector
      <3>4. rejected' = rejected
        BY <3>1, <3>3 DEF ExceptionHandler, Checked
      <3> QED
        BY <1>0, <2>2, <3>1, <3>2, <3>4 DEF Tables, ExitLabel
    <2> QED
      BY <2>1, <2>2
  <1>7. /\ cpu \in Cpus /\ cpu.gen \in [General -> Words]
    BY DEF Types, Cpus
  <1>8. Code(KERNEL, ExitLabel(e.asked)) \in Words
    BY KernelLabels DEF Labels, ExitLabel
  <1>9. /\ cpu' \in Cpus /\ cpu'.area = cpu.area /\ cpu'.cs = cpu.cs /\ cpu'.ss = cpu.ss
        /\ cpu'.nt = cpu.nt /\ cpu'.seg = cpu.seg /\ cpu'.iflag = cpu.iflag
        /\ cpu'.eip = Code(KERNEL, ExitLabel(e.asked))
    <2>1. PICK g \in [General -> Words] : g = Clobbered(cpu.gen)
      BY <1>7, ClobberedFacts
    <2>2. cpu' = [cpu EXCEPT !.gen = g, !.eip = Code(KERNEL, ExitLabel(e.asked))]
      BY <1>6, <2>1
    <2> QED
      BY <1>7, <1>8, <2>1, <2>2 DEF Cpus
  <1>10. HandlerState(e, cpu', Stk)
    <2>1. cpu.eip = Code(KERNEL, HandlerLabel(e.asked))
      BY <1>3, <1>5 DEF HandlerLabel
    <2>2. HandlerLabel(e.asked) # "entry" /\ HandlerLabel(e.asked) # ExitLabel(e.asked)
      BY DEF HandlerLabel, ExitLabel
    <2>3. cpu.eip # Entry(VectorOf(e.asked)) /\ cpu.eip # Code(KERNEL, ExitLabel(e.asked))
      BY <2>1, <2>2, CodeFacts
    <2>4. cpu.seg = KernelSegments /\ Stk = WrapperWords(e.was, VectorOf(e.asked))
          /\ KernelRegs(cpu) /\ ~cpu.iflag /\ cpu.area = KernelStack(Ctx(e.was.cpu))
      BY <1>4, <2>3 DEF HandlerState
    <2> QED
      BY <1>9, <2>4 DEF HandlerState, KernelRegs
  <1>11. Above(Len(taken), cpu', Stk)
    BY <1>4, <1>10
  <1>12. cpu'.eip # Code(KERNEL, "task_switch") /\ cpu'.eip # Code(KERNEL, "task_free")
    BY <1>9, CodeFacts DEF ExitLabel
  <1>13. patched' \subseteq {Code(s, "main") : s \in Slots}
    <2>1. patched \subseteq {Code(s, "main") : s \in Slots}
      BY DEF Types
    <2>2. CASE kind # "irq"
      <3>1. e.asked[1] = "fault" /\ ~(e.asked[1] = "irq")
        BY <1>4, <1>5, <2>2
      <3>2. Ctx(e.was.cpu) \in Slots /\ e.was.cpu.eip = Code(Ctx(e.was.cpu), "main")
        BY <1>4, <3>1 DEF Began
      <3>3. regs("eip") = e.was.cpu.eip
        <4>1. cpu.eip # Entry(VectorOf(e.asked))
          BY <1>3, CodeFacts
        <4>2. Stk = WrapperWords(e.was, VectorOf(e.asked))
          BY <1>4, <4>1 DEF HandlerState
        <4>3. PICK w : w = WrapperWords(e.was, VectorOf(e.asked))
          OBVIOUS
        <4>4. w[Len(w) - 13] = e.was.cpu.eip /\ Len(w) \in Nat
          BY <1>4, <4>3, WrapperShape
        <4>5. PICK k : k = (CHOOSE i \in 1 .. Len(RegsLayout) : RegsLayout[i] = "eip")
          OBVIOUS
        <4>6. k = 14
          <5>1. 14 \in 1 .. Len(RegsLayout) /\ RegsLayout[14] = "eip"
            BY DEF RegsLayout
          <5>2. \A j \in 1 .. Len(RegsLayout) : RegsLayout[j] = "eip" => j = 14
            BY DEF RegsLayout
          <5> QED
            BY <4>5, <5>1, <5>2
        <4>7. regs("eip") = Stk[Len(Stk) - k + 1]
          BY <4>5 DEF regs
        <4> QED
          BY <4>2, <4>3, <4>4, <4>6, <4>7
      <3> QED
        BY <1>6, <2>1, <3>2, <3>3
    <2>3. CASE kind = "irq"
      BY <1>6, <2>1, <2>3
    <2> QED
      BY <2>2, <2>3
  <1>14. quiet' \in BOOLEAN
    BY <1>6 DEF Types
  <1>15. \/ taken # <<>> /\ Last(taken).asked[1] = "irq"
         \/ taken = <<>> \/ Last(taken).asked[1] # "irq"
    OBVIOUS
  <1> QED
    BY <1>6, <1>9, <1>11, <1>12, <1>13, <1>14, StillGoing

\* The wrapper of an exception or interrupt saves the registers.
LEMMA Wrapping ==
    ASSUME Types, Chained, NEW n \in Installed, IsrEnter(n)
    PROVE  Types' /\ Chained'
  <1>0. Nested
    BY DEF Chained
  <1>1. PICK e : e = Last(taken)
    OBVIOUS
  <1>2. cpu.eip = Entry(n) /\ n \in Installed \ {SYSCALL}
    BY DEF IsrEnter
  <1>3. /\ taken # <<>> /\ e \in Entries /\ Began(e)
        /\ e.asked[1] \in {"irq", "fault"} /\ HandlerState(e, cpu, Stk)
        /\ e.was \in States /\ Ctx(cpu) = Ctx(e.was.cpu)
        /\ \A u, w : Above(Len(taken), u, w) <=> HandlerState(e, u, w)
        /\ VectorOf(e.asked) \in Installed \ {SYSCALL} /\ After(e, cpu, Stk)
    BY <1>0, <1>1, <1>2, HandlerRuns DEF After
  <1>4. n = VectorOf(e.asked)
    BY <1>2, <1>3, WhereAfter
  <1>5. /\ KernelRegs(cpu) /\ ~cpu.iflag /\ cpu.area = KernelStack(Ctx(e.was.cpu))
        /\ cpu.gen = e.was.cpu.gen /\ cpu.seg = e.was.cpu.seg
        /\ Stk = Frame(e.was) \o ErrorCode(n)
    <2>1. HandlerLabel(e.asked) # "entry" /\ ExitLabel(e.asked) # "entry"
      BY DEF HandlerLabel, ExitLabel
    <2>2. cpu.eip # Code(KERNEL, HandlerLabel(e.asked)) /\ cpu.eip # Code(KERNEL, ExitLabel(e.asked))
      BY <1>2, <2>1, CodeFacts
    <2> QED
      BY <1>3, <1>4, <2>2 DEF HandlerState
  <1>6. (IF n \in Exceptions THEN "exception_handler" ELSE "irq_handler") = HandlerLabel(e.asked)
    <2>1. CASE e.asked[1] = "irq"
      <3>1. e.asked[2] \in IRQ_FIRST .. IRQ_LAST
        BY <1>3, <2>1, EntryTypes
      <3>2. n \notin Exceptions
        BY <1>4, <2>1, <3>1 DEF VectorOf, Exceptions, IRQ_FIRST, IRQ_LAST, IRQ_REMAP_OFFSET
      <3> QED
        BY <2>1, <3>2 DEF HandlerLabel
    <2>2. CASE e.asked[1] = "fault"
      <3>1. e.asked[2] \in Exceptions
        BY <1>3, <2>2, EntryTypes
      <3>2. n \in Exceptions
        BY <1>4, <2>2, <3>1 DEF VectorOf
      <3> QED
        BY <2>2, <3>2 DEF HandlerLabel
    <2> QED
      BY <1>3, <2>1, <2>2
  <1>7. /\ UNCHANGED <<tables, tasks, quiet, rejected, taken>>
        /\ stack' = [stack EXCEPT ![cpu.area] = @ \o Header(n) \o Pushed(PushOrder)]
        /\ cpu' = [cpu EXCEPT !.iflag = FALSE, !.seg = KernelSegments,
                              !.eip = Code(KERNEL, HandlerLabel(e.asked))]
    BY <1>6 DEF IsrEnter
  <1>8. cpu \in Cpus /\ e.was.cpu \in Cpus /\ cpu.area \in Areas /\ stack \in [Areas -> Seq(Words)]
    BY <1>3 DEF Types, Cpus, States
  <1>9. Pushed(PushOrder) = PushedOf(e.was.cpu, PushOrder)
    BY <1>5 DEF Pushed, PushedOf, Word, WordOf
  <1>10. PICK w : w = WrapperWords(e.was, n)
    OBVIOUS
  <1>11. w = Stk \o Header(n) \o Pushed(PushOrder)
    BY <1>5, <1>9, <1>10 DEF WrapperWords
  <1>12. stack' = [stack EXCEPT ![cpu.area] = w]
    BY <1>7, <1>8, <1>11 DEF Stk
  <1>13. w \in Seq(Words)
    BY <1>2, <1>3, <1>10, WrapperShape
  <1>14. /\ cpu' \in Cpus /\ cpu'.area = cpu.area /\ cpu'.cs = cpu.cs /\ cpu'.ss = cpu.ss
         /\ cpu'.nt = cpu.nt /\ cpu'.seg = KernelSegments /\ cpu'.iflag = FALSE
         /\ cpu'.gen = cpu.gen /\ cpu'.eip = Code(KERNEL, HandlerLabel(e.asked))
    <2>1. Code(KERNEL, HandlerLabel(e.asked)) \in Words
      BY KernelLabels DEF Labels, HandlerLabel
    <2>2. KernelSegments \in [Segments -> Selectors]
      BY DEF KernelSegments, Selectors, GDT_KERNEL_DATA_SELECTOR, DPL_KERNEL
    <2> HIDE DEF KernelSegments
    <2> QED
      BY <1>7, <1>8, <2>1, <2>2 DEF Cpus
  <1>15. HandlerState(e, cpu', w)
    BY <1>4, <1>5, <1>10, <1>14 DEF HandlerState, KernelRegs
  <1>16. Above(Len(taken), cpu', w)
    BY <1>3, <1>15
  <1>17. cpu'.eip # Code(KERNEL, "task_switch") /\ cpu'.eip # Code(KERNEL, "task_free")
    BY <1>14, CodeFacts DEF HandlerLabel
  <1>18. UNCHANGED <<in_use, child>> /\ patched' \subseteq {Code(s, "main") : s \in Slots}
         /\ quiet' \in BOOLEAN
    BY <1>7 DEF tasks, Types
  <1> QED
    BY <1>7, <1>12, <1>13, <1>14, <1>16, <1>17, <1>18, Going

\* A system call up to the return of its function.
LEMMA SyscallSteps ==
    ASSUME Types, Chained, SyscallEnter \/ SyscallFunction
    PROVE  Types' /\ Chained'
  <1>0. Nested
    BY DEF Chained
  <1>1. PICK e : e = Last(taken)
    OBVIOUS
  <1>2. CASE SyscallEnter
    <2>1. cpu.eip = Entry(SYSCALL)
      BY <1>2 DEF SyscallEnter
    <2>2. /\ taken # <<>> /\ e.asked[1] = "int" /\ SysState(e.was, cpu, Stk)
          /\ e.was \in States
          /\ \A u, w : Above(Len(taken), u, w) <=> SysState(e.was, u, w)
      BY <1>0, <1>1, <2>1, SysRuns
    <2>3. /\ KernelRegs(cpu) /\ cpu.iflag /\ cpu.area = Kernel(Ctx(e.was.cpu))
          /\ cpu.gen = e.was.cpu.gen /\ cpu.seg = UserSegments /\ Stk = Frame(e.was)
      BY <2>1, <2>2, CodeFacts DEF SysState
    <2>4. e.was.cpu.seg = UserSegments /\ e.was.cpu \in Cpus
      BY <1>0, <1>1, <2>1, SysRuns DEF UserRegs, States
    <2>5. /\ UNCHANGED <<tables, tasks, rejected, taken>> /\ quiet' = TRUE
          /\ stack' = [stack EXCEPT ![cpu.area] =
                    @ \o Pushed(<<"ds", "es", "fs", "gs">>) \o Pushed(ArgumentOrder)]
          /\ cpu' = [cpu EXCEPT !.seg = KernelSegments, !.eip = Code(KERNEL, "syscall_handler")]
      BY <1>2 DEF SyscallEnter, Main
    <2>6. cpu \in Cpus /\ cpu.area \in Areas /\ stack \in [Areas -> Seq(Words)]
      BY DEF Types, Cpus
    <2>7. /\ Pushed(<<"ds", "es", "fs", "gs">>) = PushedOf(e.was.cpu, <<"ds", "es", "fs", "gs">>)
          /\ Pushed(ArgumentOrder) = PushedOf(e.was.cpu, ArgumentOrder)
      BY <2>3, <2>4 DEF Pushed, PushedOf, Word, WordOf
    <2>8. /\ PushedOf(e.was.cpu, <<"ds", "es", "fs", "gs">>) \in Seq(Words)
          /\ PushedOf(e.was.cpu, ArgumentOrder) \in Seq(Words)
          /\ Frame(e.was) \in Seq(Words) /\ SyscallWords(e.was.cpu) \in Seq(Words)
      BY <2>2, <2>4, Orders, PushedWords, FrameShape, SyscallWordsPushed
    <2>9. PICK w : w = Frame(e.was) \o SyscallWords(e.was.cpu)
      OBVIOUS
    <2>10. w \in Seq(Words)
      BY <2>8, <2>9
    <2>11. w = (Stk \o Pushed(<<"ds", "es", "fs", "gs">>)) \o Pushed(ArgumentOrder)
      <3>1. PICK f, p, q : /\ f = Frame(e.was)
                           /\ p = PushedOf(e.was.cpu, <<"ds", "es", "fs", "gs">>)
                           /\ q = PushedOf(e.was.cpu, ArgumentOrder)
        OBVIOUS
      <3>2. w = f \o (p \o q)
        BY <2>9, <3>1 DEF SyscallWords
      <3>3. f \o (p \o q) = (f \o p) \o q
        BY <2>8, <3>1, Associative
      <3> QED
        BY <2>3, <2>7, <3>1, <3>2, <3>3
    <2>12. stack' = [stack EXCEPT ![cpu.area] = w]
      BY <2>5, <2>6, <2>11 DEF Stk
    <2>13. /\ cpu' \in Cpus /\ cpu'.area = cpu.area /\ cpu'.cs = cpu.cs /\ cpu'.ss = cpu.ss
           /\ cpu'.nt = cpu.nt /\ cpu'.seg = KernelSegments /\ cpu'.iflag = cpu.iflag
           /\ cpu'.gen = cpu.gen /\ cpu'.eip = Code(KERNEL, "syscall_handler")
      <3>1. Code(KERNEL, "syscall_handler") \in Words
        BY KernelLabels DEF Labels
      <3>2. KernelSegments \in [Segments -> Selectors]
        BY DEF KernelSegments, Selectors, GDT_KERNEL_DATA_SELECTOR, DPL_KERNEL
      <3> QED
        BY <2>5, <2>6, <3>1, <3>2 DEF Cpus
    <2>14. SysState(e.was, cpu', w)
      BY <2>3, <2>9, <2>13 DEF SysState, KernelRegs
    <2>15. Above(Len(taken), cpu', w)
      BY <2>2, <2>14
    <2>16. cpu'.eip # Code(KERNEL, "task_switch") /\ cpu'.eip # Code(KERNEL, "task_free")
      BY <2>13, CodeFacts
    <2>17. UNCHANGED <<in_use, child>> /\ patched' \subseteq {Code(s, "main") : s \in Slots}
           /\ quiet' \in BOOLEAN
      BY <2>5 DEF tasks, Types
    <2> QED
      BY <2>5, <2>10, <2>12, <2>13, <2>15, <2>16, <2>17, Going
  <1>3. CASE SyscallFunction
    <2>1. cpu.eip = Code(KERNEL, "syscall_handler")
      BY <1>3 DEF SyscallFunction, At
    <2>2. /\ taken # <<>> /\ e.asked[1] = "int" /\ SysState(e.was, cpu, Stk)
          /\ e.was \in States
          /\ \A u, w : Above(Len(taken), u, w) <=> SysState(e.was, u, w)
      BY <1>0, <1>1, <2>1, SysRuns
    <2>3. /\ KernelRegs(cpu) /\ cpu.iflag /\ cpu.area = Kernel(Ctx(e.was.cpu))
          /\ \A r \in {"esi", "edi", "ebp"} : cpu.gen[r] = e.was.cpu.gen[r]
          /\ cpu.seg = KernelSegments /\ Stk = Frame(e.was) \o SyscallWords(e.was.cpu)
      BY <2>1, <2>2, CodeFacts DEF SysState
    <2>4. /\ UNCHANGED <<stack, tables, tasks, rejected, taken>> /\ quiet' = TRUE
          /\ cpu' = [cpu EXCEPT !.gen = Clobbered(@), !.eip = Code(KERNEL, "syscall_exit")]
      BY <1>3 DEF SyscallFunction, Main
    <2>5. cpu \in Cpus /\ cpu.gen \in [General -> Words]
      BY DEF Types, Cpus
    <2>6. PICK g \in [General -> Words] : g = Clobbered(cpu.gen)
      BY <2>5, ClobberedFacts
    <2>7. g["esi"] = cpu.gen["esi"] /\ g["edi"] = cpu.gen["edi"] /\ g["ebp"] = cpu.gen["ebp"]
      BY <2>5, <2>6, ClobberedFacts
    <2>8. /\ cpu' \in Cpus /\ cpu'.area = cpu.area /\ cpu'.cs = cpu.cs /\ cpu'.ss = cpu.ss
          /\ cpu'.nt = cpu.nt /\ cpu'.seg = cpu.seg /\ cpu'.iflag = cpu.iflag
          /\ cpu'.gen = g /\ cpu'.eip = Code(KERNEL, "syscall_exit")
      <3>1. Code(KERNEL, "syscall_exit") \in Words
        BY KernelLabels DEF Labels
      <3>2. cpu' = [cpu EXCEPT !.gen = g, !.eip = Code(KERNEL, "syscall_exit")]
        BY <2>4, <2>6
      <3> QED
        BY <2>5, <3>1, <3>2 DEF Cpus
    <2>9. SysState(e.was, cpu', Stk)
      BY <2>3, <2>7, <2>8 DEF SysState, KernelRegs
    <2>10. Above(Len(taken), cpu', Stk)
      BY <2>2, <2>9
    <2>11. cpu'.eip # Code(KERNEL, "task_switch") /\ cpu'.eip # Code(KERNEL, "task_free")
      BY <2>8, CodeFacts
    <2>12. UNCHANGED <<in_use, child>> /\ patched' \subseteq {Code(s, "main") : s \in Slots}
           /\ quiet' \in BOOLEAN
      BY <2>4 DEF tasks, Types
    <2> QED
      BY <1>1, <2>2, <2>4, <2>8, <2>10, <2>11, <2>12, StillGoing
  <1> QED
    BY <1>2, <1>3

\* The system call handler restores the segments of the application.
LEMMA SyscallExits ==
    ASSUME Types, Chained, SyscallExit
    PROVE  Types' /\ Chained'
  <1>0. Nested /\ Tables
    BY DEF Chained
  <1>1. PICK e : e = Last(taken)
    OBVIOUS
  <1>2. cpu.eip = Code(KERNEL, "syscall_exit")
    BY DEF SyscallExit, At
  <1>3. /\ taken # <<>> /\ e.asked[1] = "int" /\ SysState(e.was, cpu, Stk)
        /\ e.was \in States /\ UserRegs(e.was.cpu)
        /\ \A u, w : Above(Len(taken), u, w) <=> SysState(e.was, u, w)
    BY <1>0, <1>1, <1>2, SysRuns
  <1>4. /\ KernelRegs(cpu) /\ cpu.iflag /\ cpu.area = Kernel(Ctx(e.was.cpu))
        /\ \A r \in {"esi", "edi", "ebp"} : cpu.gen[r] = e.was.cpu.gen[r]
        /\ Stk = Frame(e.was) \o SyscallWords(e.was.cpu)
    BY <1>2, <1>3, CodeFacts DEF SysState
  <1>5. /\ e.was.cpu \in Cpus /\ Frame(e.was) \in Seq(Words) /\ e.was.cpu.seg = UserSegments
        /\ e.was.cpu.gen \in [General -> Words]
    BY <1>3, FrameShape DEF States, UserRegs, Cpus
  <1>6. /\ \A r \in Segments : Popped(SyscallPops, Stk, r) = Sel(e.was.cpu.seg[r])
        /\ Popped(SyscallPops, Stk, "ebx") = e.was.cpu.gen["esi"]
        /\ Len(Stk) >= Len(SyscallPops) /\ Without(Stk, Len(SyscallPops)) = Frame(e.was)
        /\ Among(SyscallPops) = Segments \union {"ebx"}
    BY <1>4, <1>5, SyscallPopped
  <1>7. /\ DataOk(GDT_USER_DATA_SELECTOR, 0) /\ DataOk(0, 0)
        /\ Rpl(GDT_KERNEL_CODE_SELECTOR) = 0
    BY <1>0, SegmentsLoadable DEF Tables
  <1>8. Cpl = 0
    BY <1>4, <1>7 DEF Cpl, KernelRegs
  <1>9. CanPop(SyscallPops, Stk)
    <2>1. ASSUME NEW r \in Segments
          PROVE  /\ Popped(SyscallPops, Stk, r)[1] = "sel"
                 /\ DataOk(Popped(SyscallPops, Stk, r)[2], Cpl)
      <3>1. /\ Popped(SyscallPops, Stk, r)[1] = "sel"
            /\ Popped(SyscallPops, Stk, r)[2] = UserSegments[r]
        BY <1>5, <1>6, <2>1 DEF Sel
      <3>2. UserSegments[r] = 0 \/ UserSegments[r] = GDT_USER_DATA_SELECTOR
        BY <2>1 DEF UserSegments
      <3> QED
        BY <1>7, <1>8, <3>1, <3>2
    <2> QED
      BY <1>6, <2>1 DEF CanPop
  <1>10. /\ cpu' = [cpu EXCEPT !.gen = GenAfter(SyscallPops, Stk),
                          !.seg = SegAfter(SyscallPops, Stk),
                          !.eip = Code(KERNEL, "syscall_iret")]
         /\ stack' = [stack EXCEPT ![cpu.area] = Without(Stk, Len(SyscallPops))]
         /\ UNCHANGED <<tables, tasks, taken, rejected>> /\ quiet' = TRUE
    BY <1>9 DEF SyscallExit, Checked, Main
  <1>11. cpu \in Cpus /\ cpu.gen \in [General -> Words]
    BY DEF Types, Cpus
  <1>12. PICK g : g = GenAfter(SyscallPops, Stk)
    OBVIOUS
  <1>13. /\ g \in [General -> Words]
         /\ \A r \in {"esi", "edi", "ebp"} : g[r] = cpu.gen[r]
    <2>1. \A r \in General : g[r] = IF r = "ebx" THEN e.was.cpu.gen["esi"] ELSE cpu.gen[r]
      <3>1. \A r \in General : r \in Among(SyscallPops) <=> r = "ebx"
        BY <1>6 DEF General, Segments
      <3>2. \A r \in General : g[r] = IF r \in Among(SyscallPops) THEN Popped(SyscallPops, Stk, r)
                                      ELSE cpu.gen[r]
        BY <1>12 DEF GenAfter
      <3> QED
        BY <1>6, <3>1, <3>2
    <2>2. \E f : g = [r \in General |-> f[r]]
      <3>1. g = [r \in General |-> g[r]]
        BY <1>12 DEF GenAfter
      <3> QED
        BY <3>1
    <2>3. "esi" \in General
      BY DEF General
    <2>4. \A r \in General : g[r] \in Words
      BY <1>5, <1>11, <2>1, <2>3
    <2>5. g \in [General -> Words]
      BY <2>2, <2>4
    <2> QED
      BY <2>1, <2>5 DEF General
  <1>14. SegAfter(SyscallPops, Stk) = UserSegments
    <2>1. \A r \in Segments : r \in Among(SyscallPops) /\ Popped(SyscallPops, Stk, r)[2] = UserSegments[r]
      BY <1>5, <1>6 DEF Sel
    <2>2. UserSegments = [r \in Segments |-> UserSegments[r]]
      BY DEF UserSegments
    <2> QED
      BY <2>1, <2>2 DEF SegAfter
  <1>15. cpu' = [cpu EXCEPT !.gen = g, !.seg = UserSegments, !.eip = Code(KERNEL, "syscall_iret")]
    BY <1>10, <1>12, <1>14
  <1>16. /\ cpu' \in Cpus /\ cpu'.area = cpu.area /\ cpu'.cs = cpu.cs /\ cpu'.ss = cpu.ss
         /\ cpu'.nt = cpu.nt /\ cpu'.seg = UserSegments /\ cpu'.iflag = cpu.iflag
         /\ cpu'.gen = g /\ cpu'.eip = Code(KERNEL, "syscall_iret")
    <2>1. Code(KERNEL, "syscall_iret") \in Words
      BY KernelLabels DEF Labels
    <2>2. UserSegments \in [Segments -> Selectors]
      BY <1>5 DEF Cpus
    <2> HIDE DEF UserSegments
    <2> QED
      BY <1>11, <1>13, <1>15, <2>1, <2>2 DEF Cpus
  <1>17. PICK w : w = Frame(e.was)
    OBVIOUS
  <1>18. w \in Seq(Words) /\ stack' = [stack EXCEPT ![cpu.area] = w]
    BY <1>5, <1>6, <1>10, <1>17
  <1>19. SysState(e.was, cpu', w)
    BY <1>4, <1>13, <1>16, <1>17 DEF SysState, KernelRegs
  <1>20. Above(Len(taken), cpu', w)
    BY <1>3, <1>19
  <1>21. cpu'.eip # Code(KERNEL, "task_switch") /\ cpu'.eip # Code(KERNEL, "task_free")
    BY <1>16, CodeFacts
  <1>22. UNCHANGED <<in_use, child>> /\ patched' \subseteq {Code(s, "main") : s \in Slots}
         /\ quiet' \in BOOLEAN
    BY <1>10 DEF tasks, Types
  <1> QED
    BY <1>1, <1>3, <1>10, <1>16, <1>18, <1>20, <1>21, <1>22, Going

\* The stub puts its registers on the stack, and gets them back.
LEMMA StubPushed ==
    ASSUME NEW s \in Slots, NEW words, words = Append(<<>>, Val(s, "ebp")), NEW rest,
           rest = [i \in 1 .. 5 |-> Val(s, <<"ebx", "ecx", "edx", "esi", "edi">>[i])]
    PROVE  words \o rest = StubWords(s) /\ Len(words) = 1 /\ StubWords(s) \in Seq(Words)
  <1>1. \A r \in General : Val(s, r) \in Words
    BY WordFacts, ContextFacts DEF Names
  <1>2. PICK a, b, c, d, e, f : /\ a = Val(s, "ebp") /\ b = Val(s, "ebx") /\ c = Val(s, "ecx")
                                /\ d = Val(s, "edx") /\ e = Val(s, "esi") /\ f = Val(s, "edi")
    OBVIOUS
  <1>3. {a, b, c, d, e, f} \subseteq Words
    BY <1>1, <1>2 DEF General
  <1>4. rest = <<b, c, d, e, f>>
    <2>1. \A i \in 1 .. 5 : rest[i] = <<b, c, d, e, f>>[i]
      BY <1>2
    <2>2. rest = [i \in 1 .. 5 |-> rest[i]] /\ <<b, c, d, e, f>> = [i \in 1 .. 5 |-> <<b, c, d, e, f>>[i]]
      OBVIOUS
    <2> QED
      BY <2>1, <2>2
  <1>5. words = <<a>>
    BY <1>2
  <1>6. StubWords(s) = <<a, b, c, d, e, f>>
    BY <1>2 DEF StubWords
  <1>7. <<a>> \in Seq(Words) /\ <<b, c, d, e, f>> \in Seq(Words) /\ <<a, b, c, d, e, f>> \in Seq(Words)
    BY <1>3
  <1>8. PICK p : p = <<a>> \o <<b, c, d, e, f>>
    OBVIOUS
  <1>9. /\ p \in Seq(Words) /\ Len(p) = 6 /\ \A i \in 1 .. 5 : p[1 + i] = <<b, c, d, e, f>>[i]
        /\ p[1] = a
    <2>1. PICK x : x = <<a>>
      OBVIOUS
    <2>2. PICK y : y = <<b, c, d, e, f>>
      OBVIOUS
    <2>3. Len(x) = 1 /\ x[1] = a /\ Len(y) = 5 /\ x \in Seq(Words) /\ y \in Seq(Words)
      BY <1>7, <2>1, <2>2
    <2>4. /\ x \o y \in Seq(Words) /\ Len(x \o y) = Len(x) + Len(y)
          /\ \A i \in 1 .. Len(y) : (x \o y)[Len(x) + i] = y[i]
          /\ \A i \in 1 .. Len(x) : (x \o y)[i] = x[i]
      BY <2>3, OnTop
    <2>5. (x \o y)[1] = x[1]
      BY <2>3, <2>4
    <2> QED
      BY <1>8, <2>1, <2>2, <2>3, <2>4, <2>5
  <1>10. p = <<a, b, c, d, e, f>>
    <2>1. p[2] = b /\ p[3] = c /\ p[4] = d /\ p[5] = e /\ p[6] = f
      BY <1>9
    <2>2. PICK q : q = <<a, b, c, d, e, f>>
      OBVIOUS
    <2>3. q \in Seq(Words) /\ Len(q) = 6
      BY <1>7, <2>2
    <2>4. \A i \in 1 .. 6 : p[i] = q[i]
      <3>1. SUFFICES ASSUME NEW i \in 1 .. 6 PROVE p[i] = q[i]
        OBVIOUS
      <3>2. i = 1 \/ i = 2 \/ i = 3 \/ i = 4 \/ i = 5 \/ i = 6
        OBVIOUS
      <3> QED
        BY <1>9, <2>1, <2>2, <3>2
    <2>5. Len(p) = Len(q) /\ \A i \in 1 .. Len(p) : p[i] = q[i]
      BY <1>9, <2>3, <2>4
    <2> QED
      BY <1>9, <2>2, <2>3, <2>5, SeqEqual
  <1> QED
    BY <1>4, <1>5, <1>6, <1>7, <1>8, <1>10

LEMMA StubPopped ==
    ASSUME NEW s \in Slots, NEW r \in {"edi", "esi", "edx", "ecx", "ebx"}
    PROVE  Popped(StubPops, StubWords(s), r) = Val(s, r)
  <1>1. Len(StubPops) = 5 /\ Len(StubWords(s)) = 6
    BY DEF StubPops, StubWords
  <1>2. PICK n \in 1 .. 5 : StubPops[n] = r
    BY DEF StubPops
  <1>3. \A i \in 1 .. 5 : StubPops[i] = r => i = n
    BY <1>2 DEF StubPops
  <1>4. (CHOOSE i \in 1 .. Len(StubPops) :
            StubPops[i] = r /\ \A j \in i + 1 .. Len(StubPops) : StubPops[j] # r) = n
    <2>1. \A j \in n + 1 .. 5 : j \in 1 .. 5 /\ j # n
      OBVIOUS
    <2> QED
      BY <1>1, <1>2, <1>3, <2>1
  <1>5. Popped(StubPops, StubWords(s), r) = StubWords(s)[Len(StubWords(s)) - n + 1]
    BY <1>4 DEF Popped
  <1>6. Popped(StubPops, StubWords(s), r) = StubWords(s)[7 - n]
    BY <1>1, <1>5
  <1>7. StubWords(s)[7 - n] = Val(s, r)
    <2>1. \/ n = 1 /\ r = "edi"
          \/ n = 2 /\ r = "esi"
          \/ n = 3 /\ r = "edx"
          \/ n = 4 /\ r = "ecx"
          \/ n = 5 /\ r = "ebx"
      BY <1>2 DEF StubPops
    <2> QED
      BY <2>1 DEF StubWords
  <1> QED
    BY <1>6, <1>7

\* A step of an application, between its calls.
LEMMA AppGoing ==
    ASSUME Types, Chained, NEW s \in Slots, NEW l, cpu.eip = Code(s, l),
           UNCHANGED <<tables, tasks, rejected, taken>>, quiet' = TRUE,
           NEW m \in {"main", "exit", "int48"}, NEW g \in [General -> Words],
           cpu' = [cpu EXCEPT !.gen = g, !.eip = Code(s, m)],
           NEW w \in Seq(Words), stack' = [stack EXCEPT ![cpu.area] = w],
           \/ m = "main" /\ w = <<>> /\ \A r \in General \ {"eax"} : g[r] = Val(s, r)
           \/ m = "exit" /\ w = <<>>
           \/ m = "int48" /\ w = StubWords(s) /\ Asking(s, g)
    PROVE  Types' /\ Chained'
  <1>0. Nested
    BY DEF Chained
  <1>1. /\ taken # <<>> /\ Last(taken).asked[1] = "call" /\ UserState(s, cpu, Stk)
        /\ \A u, v : Above(Len(taken), u, v) <=> UserState(s, u, v)
    BY <1>0, AppRuns
  <1>2. cpu \in Cpus /\ Code(s, m) \in Words
    BY KernelLabels DEF Types, Labels
  <1>3. /\ cpu' \in Cpus /\ cpu'.area = cpu.area /\ cpu'.cs = cpu.cs /\ cpu'.ss = cpu.ss
        /\ cpu'.nt = cpu.nt /\ cpu'.seg = cpu.seg /\ cpu'.iflag = cpu.iflag
        /\ cpu'.gen = g /\ cpu'.eip = Code(s, m)
    BY <1>2 DEF Cpus
  <1>4. UserState(s, cpu', w)
    BY <1>1, <1>3 DEF UserState, UserRegs
  <1>5. Above(Len(taken), cpu', w)
    BY <1>1, <1>4
  <1>6. cpu'.eip # Code(KERNEL, "task_switch") /\ cpu'.eip # Code(KERNEL, "task_free")
    BY <1>3, CodeFacts, ContextFacts
  <1>7. UNCHANGED <<in_use, child>> /\ patched' \subseteq {Code(c, "main") : c \in Slots}
        /\ quiet' \in BOOLEAN
    BY DEF tasks, Types
  <1> QED
    BY <1>1, <1>3, <1>5, <1>6, <1>7, Going

LEMMA AppStarts ==
    ASSUME Types, Chained, NEW s \in Slots, AppStart(s) \/ Exit(s)
    PROVE  Types' /\ Chained'
  <1>0. Nested
    BY DEF Chained
  <1>1. PICK l \in {"entry", "main"} :
            cpu.eip = Code(s, l) /\ IF l = "entry" THEN AppStart(s) ELSE Exit(s)
    BY DEF AppStart, Exit, At
  <1>2. UserState(s, cpu, Stk)
    BY <1>0, <1>1, AppRuns
  <1>3. /\ UNCHANGED <<stack, tables, tasks, rejected, taken>> /\ quiet' = TRUE
    BY DEF AppStart, Exit, Main
  <1>4. Stk = <<>>
    BY <1>1, <1>2, CodeFacts DEF UserState
  <1>5. PICK w : w = Stk
    OBVIOUS
  <1>6. cpu \in Cpus /\ cpu.gen \in [General -> Words]
        /\ stack \in [Areas -> Seq(Words)] /\ cpu.area \in Areas
    BY DEF Types, Cpus
  <1>7. w \in Seq(Words) /\ w = <<>> /\ stack' = [stack EXCEPT ![cpu.area] = w]
    BY <1>3, <1>4, <1>5, <1>6 DEF Stk
  <1>8. CASE l = "entry"
    <2>1. PICK g : g = [r \in General |-> Val(s, r)]
      OBVIOUS
    <2>2. g \in [General -> Words] /\ \A r \in General : g[r] = Val(s, r)
      BY <2>1, WordFacts, ContextFacts DEF Names
    <2>3. PICK m \in {"main", "exit", "int48"} : m = "main"
      OBVIOUS
    <2>4. cpu' = [cpu EXCEPT !.gen = g, !.eip = Code(s, m)]
      BY <1>1, <1>8, <2>1, <2>3 DEF AppStart
    <2> QED
      BY <1>1, <1>3, <1>7, <2>2, <2>3, <2>4, AppGoing
  <1>9. CASE l = "main"
    <2>1. PICK g : g = cpu.gen
      OBVIOUS
    <2>2. PICK m \in {"main", "exit", "int48"} : m = "exit"
      OBVIOUS
    <2>3. cpu' = [cpu EXCEPT !.eip = Code(s, m)]
      BY <1>1, <1>9, <2>2 DEF Exit
    <2>4. cpu' = [cpu EXCEPT !.gen = g, !.eip = Code(s, m)]
      BY <1>6, <2>1, <2>3 DEF Cpus
    <2> QED
      BY <1>1, <1>3, <1>6, <1>7, <2>1, <2>2, <2>4, AppGoing
  <1> QED
    BY <1>8, <1>9

\* The stub of a system call saves the registers and loads the arguments.
LEMMA StubCalls ==
    ASSUME Types, Chained, NEW s \in Slots, Syscall(s)
    PROVE  Types' /\ Chained'
  <1>0. Nested
    BY DEF Chained
  <1>1. cpu.eip = Code(s, "main")
    BY DEF Syscall, At
  <1>2. UserState(s, cpu, Stk)
    BY <1>0, <1>1, AppRuns
  <1>3. /\ Stk = <<>> /\ cpu.area = User(s) /\ \A r \in General \ {"eax"} : cpu.gen[r] = Val(s, r)
    BY <1>1, <1>2, CodeFacts DEF UserState
  <1>4. PICK words : words = Append(Stk, Word("ebp"))
    OBVIOUS
  <1>5. PICK rest : rest = Pushed(<<"ebx", "ecx", "edx", "esi", "edi">>)
    OBVIOUS
  <1>6. PICK w : w = words \o rest
    OBVIOUS
  <1>7. PICK g : g = [r \in General |->
                          IF r = "ebp" THEN Esp(cpu.area, Len(words))
                          ELSE IF r \in DOMAIN Arguments THEN Val(s, Arguments[r])
                          ELSE cpu.gen[r]]
    OBVIOUS
  <1>8. /\ UNCHANGED <<tables, tasks, rejected, taken>> /\ quiet' = TRUE
        /\ stack' = [stack EXCEPT ![cpu.area] = w]
        /\ cpu' = [cpu EXCEPT !.gen = g, !.eip = Code(s, "int48")]
    BY <1>4, <1>5, <1>6, <1>7 DEF Syscall, Main
  <1>9. \A r \in {"ebp", "ebx", "ecx", "edx", "esi", "edi"} : Word(r) = Val(s, r)
    BY <1>3 DEF Word, Segments, General
  <1>10. words = Append(<<>>, Val(s, "ebp"))
    BY <1>3, <1>4, <1>9
  <1>11. rest = [i \in 1 .. 5 |-> Val(s, <<"ebx", "ecx", "edx", "esi", "edi">>[i])]
    <2>1. Len(<<"ebx", "ecx", "edx", "esi", "edi">>) = 5
      OBVIOUS
    <2>2. \A i \in 1 .. 5 : <<"ebx", "ecx", "edx", "esi", "edi">>[i]
                            \in {"ebp", "ebx", "ecx", "edx", "esi", "edi"}
      OBVIOUS
    <2>3. \A i \in 1 .. 5 : Word(<<"ebx", "ecx", "edx", "esi", "edi">>[i])
                            = Val(s, <<"ebx", "ecx", "edx", "esi", "edi">>[i])
      BY <1>9, <2>2
    <2> QED
      BY <1>5, <2>1, <2>3 DEF Pushed
  <1>12. w = StubWords(s) /\ Len(words) = 1 /\ w \in Seq(Words)
    BY <1>6, <1>10, <1>11, StubPushed
  <1>13. cpu \in Cpus /\ cpu.gen \in [General -> Words] /\ cpu.area \in Areas
    BY DEF Types, Cpus
  <1>14. Asking(s, g) /\ g \in [General -> Words]
    <2>1. /\ g["ebp"] = Esp(User(s), 1)
          /\ \A r \in DOMAIN Arguments : r \in General /\ r # "ebp"
      BY <1>3, <1>7, <1>12 DEF General, Arguments
    <2>2. \A r \in DOMAIN Arguments : g[r] = Val(s, Arguments[r]) /\ Arguments[r] \in Names
      BY <1>7, <2>1 DEF Arguments, Names
    <2>3. \A r \in General : g[r] \in Words
      <3>1. Esp(cpu.area, Len(words)) \in Words
        BY <1>12, <1>13, WordFacts
      <3>2. \A r \in DOMAIN Arguments : Val(s, Arguments[r]) \in Words
        BY <2>2, WordFacts, ContextFacts
      <3> QED
        BY <1>7, <1>13, <3>1, <3>2
    <2>4. g \in [General -> Words]
      BY <1>7, <2>3
    <2> QED
      BY <2>1, <2>2, <2>4 DEF Asking
  <1>15. PICK m \in {"main", "exit", "int48"} : m = "int48"
    OBVIOUS
  <1>16. cpu' = [cpu EXCEPT !.gen = g, !.eip = Code(s, m)]
    BY <1>8, <1>15
  <1> QED
    BY <1>1, <1>8, <1>12, <1>14, <1>15, <1>16, AppGoing

\* The stub gives the application its registers back.
LEMMA StubReturns ==
    ASSUME Types, Chained, NEW s \in Slots, SyscallReturns(s)
    PROVE  Types' /\ Chained'
  <1>0. Nested
    BY DEF Chained
  <1>1. cpu.eip = Code(s, "stub")
    BY DEF SyscallReturns, At
  <1>2. UserState(s, cpu, Stk)
    BY <1>0, <1>1, AppRuns
  <1>3. /\ Stk = StubWords(s) /\ cpu.area = User(s) /\ cpu.gen["ebp"] = Esp(User(s), 1)
    BY <1>1, <1>2, CodeFacts DEF UserState
  <1>4. Len(Stk) = 6 /\ cpu.gen["ebp"][1] = "esp" /\ cpu.gen["ebp"][3] = 1
    BY <1>3 DEF StubWords, Esp
  <1>5. CanPop(StubPops, Stk)
    <2>1. Len(StubPops) = 5
      BY DEF StubPops
    <2>2. Segments \intersect Among(StubPops) = {}
      BY <2>1 DEF Segments, Among, StubPops
    <2> QED
      BY <1>4, <2>1, <2>2 DEF CanPop
  <1>6. PICK words : words = SubSeq(Stk, 1, cpu.gen["ebp"][3])
    OBVIOUS
  <1>7. words = <<Val(s, "ebp")>>
    <2>1. StubWords(s) \in Seq(Words)
      <3>1. \A r \in General : Val(s, r) \in Words
        BY WordFacts, ContextFacts DEF Names
      <3> QED
        BY <3>1 DEF StubWords, General
    <2>2. PICK q : q = StubWords(s)
      OBVIOUS
    <2>3. q \in Seq(Words) /\ Len(q) = 6 /\ words = SubSeq(q, 1, 1) /\ q[1] = Val(s, "ebp")
      BY <1>3, <1>4, <1>6, <2>1, <2>2 DEF StubWords
    <2>4. Len(words) = 1 /\ words \in Seq(Words) /\ words[1] = q[1]
      BY <2>3
    <2>5. PICK p : p = <<Val(s, "ebp")>>
      OBVIOUS
    <2>6. p \in Seq(Words) /\ Len(p) = 1 /\ p[1] = words[1]
      BY <2>3, <2>4, <2>5, WordFacts, ContextFacts DEF Names, General
    <2>7. Len(words) = Len(p) /\ \A i \in 1 .. Len(words) : words[i] = p[i]
      BY <2>4, <2>6
    <2> QED
      BY <2>4, <2>5, <2>6, <2>7, SeqEqual
  <1>8. Last(words) = Val(s, "ebp") /\ Without(words, 1) = <<>>
    <2>1. Len(words) = 1 /\ words[1] = Val(s, "ebp")
      BY <1>7
    <2>2. Val(s, "ebp") \in Words
      BY WordFacts, ContextFacts DEF Names, General
    <2>3. words \in Seq(Words)
      BY <1>7, <2>2
    <2>4. SubSeq(words, 1, 0) = <<>>
      BY <2>3
    <2> QED
      BY <2>1, <2>4 DEF Last, Without
  <1>9. PICK g : g = [GenAfter(StubPops, Stk) EXCEPT !["ebp"] = Last(words)]
    OBVIOUS
  <1>10. PICK w : w = Without(words, 1)
    OBVIOUS
  <1>11. /\ UNCHANGED <<tables, tasks, rejected, taken>> /\ quiet' = TRUE
         /\ stack' = [stack EXCEPT ![cpu.area] = w]
         /\ cpu' = [cpu EXCEPT !.gen = g, !.eip = Code(s, "main")]
    <2>1. cpu.gen["ebp"][3] \in 1 .. Len(Stk)
      BY <1>4
    <2>2. SyscallReturns(s) => quiet' = TRUE /\ UNCHANGED rejected
              /\ cpu' = [cpu EXCEPT
                      !.gen = [GenAfter(StubPops, Stk) EXCEPT !["ebp"] = Last(words)],
                      !.eip = Code(s, "main")]
              /\ stack' = [stack EXCEPT ![cpu.area] = Without(words, 1)]
              /\ UNCHANGED <<tables, tasks, taken>>
      BY <1>4, <1>5, <1>6, <2>1 DEF SyscallReturns, Checked, Main
    <2> QED
      BY <1>9, <1>10, <2>2
  <1>12. cpu \in Cpus /\ cpu.gen \in [General -> Words]
    BY DEF Types, Cpus
  <1>13. g \in [General -> Words] /\ \A r \in General \ {"eax"} : g[r] = Val(s, r)
    <2>1. Among(StubPops) = {"edi", "esi", "edx", "ecx", "ebx"}
      <3>1. Len(StubPops) = 5
        BY DEF StubPops
      <3> QED
        BY <3>1 DEF Among, StubPops
    <2>2. \A r \in {"edi", "esi", "edx", "ecx", "ebx"} : Popped(StubPops, Stk, r) = Val(s, r)
      BY <1>3, StubPopped
    <2>3. PICK h : h = GenAfter(StubPops, Stk)
      OBVIOUS
    <2>4. /\ h = [r \in General |-> h[r]]
          /\ \A r \in General : h[r] = IF r \in {"edi", "esi", "edx", "ecx", "ebx"} THEN Val(s, r)
                                       ELSE cpu.gen[r]
      BY <2>1, <2>2, <2>3 DEF GenAfter
    <2>5. \A r \in General : Val(s, r) \in Words
      BY WordFacts, ContextFacts DEF Names
    <2>6. h \in [General -> Words]
      BY <1>12, <2>4, <2>5
    <2>7. g = [h EXCEPT !["ebp"] = Val(s, "ebp")]
      BY <1>8, <1>9, <2>3
    <2>8. "ebp" \in General
      BY DEF General
    <2>9. g \in [General -> Words] /\ \A r \in General : g[r] = IF r = "ebp" THEN Val(s, r) ELSE h[r]
      BY <2>5, <2>6, <2>7, <2>8
    <2> QED
      BY <2>4, <2>9 DEF General
  <1>14. PICK m \in {"main", "exit", "int48"} : m = "main"
    OBVIOUS
  <1>15. cpu' = [cpu EXCEPT !.gen = g, !.eip = Code(s, m)]
    BY <1>11, <1>14
  <1>16. w = <<>> /\ w \in Seq(Words)
    <2>1. <<>> \in Seq(Words)
      OBVIOUS
    <2>2. w = <<>>
      BY <1>8, <1>10
    <2> QED
      BY <2>1, <2>2
  <1>17. m = "main" /\ w = <<>> /\ \A r \in General \ {"eax"} : g[r] = Val(s, r)
    BY <1>13, <1>14, <1>16
  <1>18. UNCHANGED <<tables, tasks, rejected, taken>> /\ quiet' = TRUE
         /\ stack' = [stack EXCEPT ![cpu.area] = w] /\ g \in [General -> Words]
    BY <1>11, <1>13
  <1> QED
    BY <1>1, <1>15, <1>16, <1>17, <1>18, AppGoing

---------------------------------------------------------------------------
(* The returns of handlers.                                                *)

\* What an application's state becomes below an entry.
LEMMA BelowEntry ==
    ASSUME Types, Nested, taken # <<>>, NEW e, e = Last(taken), taken' = Without(taken, 1)
    PROVE  /\ Above(Len(taken) - 1, e.was.cpu, e.was.words) /\ Began(e) /\ e \in Entries
           /\ e.was.cpu \in Cpus /\ e.was.words \in Seq(Words)
           /\ FromUser(e.was.cpu) =>
                /\ taken' # <<>> /\ Last(taken').asked[1] = "call"
                /\ UserState(Ctx(e.was.cpu), e.was.cpu, e.was.words)
                /\ Ctx(e.was.cpu) \in Slots
                /\ \A u, w : Above(Len(taken) - 1, u, w) <=> UserState(Ctx(e.was.cpu), u, w)
           /\ e.asked[1] = "irq" => taken' = <<>> \/ Last(taken').asked[1] # "irq"
  <1>1. PICK n : n = Len(taken)
    OBVIOUS
  <1>2. /\ n \in Nat \ {0} /\ n - 1 \in Nat /\ taken' \in Seq(Entries) /\ Len(taken') = n - 1
        /\ e = taken[n] /\ e \in Entries /\ n \in 1 .. Len(taken) /\ n - 1 \in 0 .. Len(taken)
        /\ \A i \in 1 .. n - 1 : taken'[i] = taken[i] /\ i \in 1 .. n
    <2>1. taken \in Seq(Entries)
      BY DEF Types
    <2> QED
      BY <1>1, <2>1, Shorter
  <1>3. Above(n - 1, e.was.cpu, e.was.words) /\ Began(e)
    BY <1>1, <1>2 DEF Nested, Left
  <1>4. e.was.cpu \in Cpus /\ e.was.words \in Seq(Words)
    BY <1>2, <1>3, EntryTypes
  <1>5. n # 1 => /\ taken' # <<>> /\ Last(taken') = taken[n - 1] /\ n - 1 \in 1 .. Len(taken)
                 /\ taken[n - 1] \in Entries /\ Began(taken[n - 1])
                 /\ \A u, w : Above(n - 1, u, w) <=> After(taken[n - 1], u, w)
    <2>1. SUFFICES ASSUME n # 1
                   PROVE  /\ taken' # <<>> /\ Last(taken') = taken[n - 1] /\ n - 1 \in 1 .. Len(taken)
                          /\ taken[n - 1] \in Entries /\ Began(taken[n - 1])
                          /\ \A u, w : Above(n - 1, u, w) <=> After(taken[n - 1], u, w)
      OBVIOUS
    <2>2. PICK m : m = n - 1
      OBVIOUS
    <2>3. m \in 1 .. n - 1 /\ m \in 1 .. Len(taken) /\ m # 0
      BY <1>1, <1>2, <2>1, <2>2
    <2>4. taken[m] \in Entries /\ Began(taken[m])
      <3>1. taken \in Seq(Entries)
        BY DEF Types
      <3> QED
        BY <2>3, <3>1, ElementOfSeq DEF Nested
    <2>5. taken' # <<>> /\ Last(taken') = taken[m]
      BY <1>2, <2>2, <2>3 DEF Last
    <2>6. \A u, w : Above(m, u, w) <=> After(taken[m], u, w)
      BY <2>3 DEF Above
    <2> QED
      BY <2>2, <2>3, <2>4, <2>5, <2>6
  <1>6. n = 1 => taken' = <<>>
    BY <1>2, EmptySeq
  <1>7. ASSUME FromUser(e.was.cpu)
        PROVE  /\ taken' # <<>> /\ Last(taken').asked[1] = "call"
               /\ UserState(Ctx(e.was.cpu), e.was.cpu, e.was.words)
               /\ Ctx(e.was.cpu) \in Slots
               /\ \A u, w : Above(n - 1, u, w) <=> UserState(Ctx(e.was.cpu), u, w)
    <2>1. /\ n - 1 \in 1 .. Len(taken) /\ Called(n - 1) /\ Callee(n - 1) \in Slots
          /\ UserState(Callee(n - 1), e.was.cpu, e.was.words)
      BY <1>2, <1>3, <1>7, AboveShape DEF KernelShape
    <2>2. Ctx(e.was.cpu) = Callee(n - 1)
      BY <2>1, UserShape
    <2>3. n # 1
      BY <1>2, <2>1
    <2>4. /\ taken[n - 1].asked[1] = "call" /\ taken[n - 1].asked[2] = Ctx(e.was.cpu)
      BY <2>1, <2>2 DEF Called, Callee
    <2>5. \A u, w : After(taken[n - 1], u, w) <=> UserState(Ctx(e.was.cpu), u, w)
      BY <2>4 DEF After
    <2> QED
      BY <1>5, <2>1, <2>2, <2>3, <2>4, <2>5
  <1>8. ASSUME e.asked[1] = "irq", n # 1
        PROVE  taken[n - 1].asked[1] # "irq"
    <2>1. e.was.cpu.iflag
      BY <1>3, <1>8 DEF Began
    <2>2. After(taken[n - 1], e.was.cpu, e.was.words)
      BY <1>3, <1>5, <1>8
    <2> QED
      BY <2>1, <2>2 DEF After, HandlerState
  <1> QED
    BY <1>1, <1>2, <1>3, <1>4, <1>5, <1>6, <1>7, <1>8

\* iret at the end of a handler.
LEMMA Resumed ==
    ASSUME Types, Chained, taken # <<>>, NEW e, e = Last(taken),
           e.asked[1] # "call", KernelShape(cpu), Ctx(e.was.cpu) = Ctx(cpu),
           NEW gen \in [General -> Words], NEW seg, seg = e.was.cpu.seg, NEW words,
           words = Frame(e.was), Iret(gen, seg, words), quiet' \in BOOLEAN,
           Above(Len(taken) - 1, [e.was.cpu EXCEPT !.gen = gen], e.was.words)
    PROVE  /\ Types' /\ Chained' /\ UNCHANGED <<rejected, tasks>> /\ taken' = Without(taken, 1)
           /\ cpu' = [e.was.cpu EXCEPT !.gen = gen] /\ Stk' = e.was.words
  <1>0. Nested /\ Intact /\ Separate /\ Tables /\ Child
    BY DEF Chained
  <1>1. InterruptReturn(gen, seg, words)
    BY DEF Iret, KernelShape, KernelRegs
  <1>2. /\ UNCHANGED <<tables, tasks, rejected>> /\ taken' = Without(taken, 1)
        /\ cpu' = [e.was.cpu EXCEPT !.gen = gen] /\ cpu' \in Cpus
        /\ stack' \in [Areas -> Seq(Words)] /\ stack'[e.was.cpu.area] = e.was.words
        /\ \A a \in Areas : a # cpu.area /\ a # e.was.cpu.area => stack'[a] = stack[a]
    BY <1>0, <1>1, Returned
  <1>3. PICK u : u = e.was.cpu
    OBVIOUS
  <1>4. /\ Began(e) /\ e \in Entries /\ u \in Cpus
        /\ FromUser(u) =>
              /\ taken' # <<>> /\ Last(taken').asked[1] = "call"
              /\ UserState(Ctx(u), u, e.was.words) /\ Ctx(u) \in Slots
        /\ e.asked[1] = "irq" => taken' = <<>> \/ Last(taken').asked[1] # "irq"
    BY <1>0, <1>2, <1>3, BelowEntry
  <1>5. cpu' = [u EXCEPT !.gen = gen]
    BY <1>2, <1>3
  <1>6. cpu'.area = u.area /\ cpu'.eip = u.eip
    BY <1>4, <1>5 DEF Cpus
  <1>7. /\ Nested' /\ Intact' /\ Separate' /\ Tables' /\ Live' = Live /\ Ctx(cpu') = Ctx(cpu)
        /\ Stk' = e.was.words
    BY <1>0, <1>2, <1>3, <1>6, LeaveStep
  <1>8. Types'
    <2>1. taken' \in Seq(Entries)
      <3>1. taken \in Seq(Entries)
        BY DEF Types
      <3> QED
        BY <1>2, <3>1, Removing
    <2> QED
      BY <1>2, <2>1 DEF Types, tables, tasks
  <1>9. Child'
    <2>1. CASE e.asked[1] = "irq"
      <3>1. Top = u /\ Top' = cpu'
        BY <1>3, <1>4, <2>1 DEF Top
      <3>2. Ctx(cpu) \in Contexts /\ Ctx(cpu) \in Live /\ Live \subseteq Contexts
        BY <1>0, Here, LiveContexts
      <3>3. \A a \in Areas : a[2] # Ctx(cpu) => stack'[a] = stack[a]
        BY <1>2 DEF Ctx
      <3>4. UNCHANGED <<child, in_use, gdt, tss>>
        BY <1>2 DEF tables, tasks
      <3> QED
        BY <1>0, <1>6, <1>7, <3>1, <3>2, <3>3, <3>4, SameCall
    <2>2. CASE e.asked[1] # "irq"
      <3>1. /\ u.eip = Code(Ctx(u), "main") \/ u.eip = Code(Ctx(u), "stub")
            /\ FromUser(u)
        BY <1>3, <1>4, <2>2 DEF Began, UserRegs, FromUser
      <3>2. cpu'.eip # Code(KERNEL, "task_switch") /\ cpu'.eip # Code(KERNEL, "task_free")
        BY <1>6, <3>1, CodeFacts
      <3>3. Last(taken').asked[1] # "irq"
        BY <1>4, <3>1
      <3> QED
        BY <3>2, <3>3, NoCall
    <2> QED
      BY <2>1, <2>2
  <1> QED
    BY <1>2, <1>7, <1>8, <1>9 DEF Chained

\* What ResumesWhole says of a step that ends an entry or a call.
Resumes ==
    LET was == Last(taken).was
        free == IF Last(taken).asked[1] = "int" THEN {"eax", "ebx", "ecx", "edx"} ELSE {}
    IN  /\ stack'[cpu'.area] = was.words
        /\ [cpu' EXCEPT !.gen = was.cpu.gen] = was.cpu
        /\ \A r \in General \ free : cpu'.gen[r] = was.cpu.gen[r]

LEMMA WholeAgain ==
    ASSUME NEW e, e = Last(taken), e.was.cpu \in Cpus, NEW gen \in [General -> Words],
           cpu' = [e.was.cpu EXCEPT !.gen = gen], Stk' = e.was.words,
           \A r \in {"esi", "edi", "ebp"} : gen[r] = e.was.cpu.gen[r],
           gen = e.was.cpu.gen \/ e.asked[1] = "int"
    PROVE  Resumes
  <1>1. PICK u \in Cpus : u = e.was.cpu
    OBVIOUS
  <1>2. cpu' = [u EXCEPT !.gen = gen] /\ cpu'.gen = gen
    BY <1>1 DEF Cpus
  <1>3. [cpu' EXCEPT !.gen = u.gen] = u
    BY <1>2 DEF Cpus
  <1>4. stack'[cpu'.area] = e.was.words
    BY DEF Stk
  <1>5. \A r \in General \ (IF e.asked[1] = "int" THEN {"eax", "ebx", "ecx", "edx"} ELSE {}) :
            cpu'.gen[r] = u.gen[r]
    BY <1>1, <1>2 DEF General
  <1> QED
    BY <1>1, <1>3, <1>4, <1>5 DEF Resumes

\* The wrapper takes back every register it saved.
LEMMA WrapperPops ==
    ASSUME NEW s \in States, NEW n \in Installed \ {SYSCALL}, Stk = WrapperWords(s, n),
           DataOk(0, Cpl), DataOk(GDT_USER_DATA_SELECTOR, Cpl), DataOk(GDT_KERNEL_DATA_SELECTOR, Cpl),
           s.cpu.seg \in {KernelSegments, UserSegments}
    PROVE  /\ CanPop(PopOrder, Stk) /\ Len(Stk) >= Len(PopOrder) + 2
           /\ GenAfter(PopOrder, Stk) = s.cpu.gen /\ SegAfter(PopOrder, Stk) = s.cpu.seg
           /\ Without(Stk, Len(PopOrder) + 2) = Frame(s)
  <1>1. /\ Len(Stk) \in Nat /\ Len(Stk) >= 16 /\ Without(Stk, 13) = Frame(s)
        /\ \A r \in Registers : Popped(PopOrder, Stk, r) = WordOf(s.cpu, r)
    BY WrapperShape
  <1>2. Len(PopOrder) = 11 /\ Among(PopOrder) = Registers
    <2>1. /\ Len(PopOrder) = 11 /\ \A r \in Registers : \E i \in 1 .. 11 : PopOrder[i] = r
          /\ \A i \in 1 .. 11 : PopOrder[i] \in Registers
      BY Orders
    <2> QED
      BY <2>1 DEF Among
  <1>3. /\ \A r \in Segments : r \in Registers /\ Popped(PopOrder, Stk, r) = Sel(s.cpu.seg[r])
        /\ \A r \in General : r \in Registers /\ Popped(PopOrder, Stk, r) = s.cpu.gen[r]
    BY <1>1 DEF WordOf, Registers, General, Segments
  <1>4. s.cpu \in Cpus /\ s.cpu.gen \in [General -> Words] /\ s.cpu.seg \in [Segments -> Selectors]
    BY DEF States, Cpus
  <1>5. GenAfter(PopOrder, Stk) = s.cpu.gen
    <2>1. GenAfter(PopOrder, Stk) = [r \in General |-> s.cpu.gen[r]]
      BY <1>2, <1>3 DEF GenAfter
    <2> QED
      BY <1>4, <2>1
  <1>6. SegAfter(PopOrder, Stk) = s.cpu.seg
    <2>1. SegAfter(PopOrder, Stk) = [r \in Segments |-> s.cpu.seg[r]]
      BY <1>2, <1>3 DEF SegAfter, Sel
    <2> QED
      BY <1>4, <2>1
  <1>7. \A r \in Segments : DataOk(s.cpu.seg[r], Cpl)
    <2>1. \A r \in Segments : KernelSegments[r] = GDT_KERNEL_DATA_SELECTOR
      BY DEF KernelSegments
    <2>2. \A r \in Segments : UserSegments[r] = 0 \/ UserSegments[r] = GDT_USER_DATA_SELECTOR
      BY DEF UserSegments
    <2> QED
      BY <2>1, <2>2
  <1>8. CanPop(PopOrder, Stk)
    <2>1. \A r \in Segments : Popped(PopOrder, Stk, r)[1] = "sel"
                              /\ Popped(PopOrder, Stk, r)[2] = s.cpu.seg[r]
      BY <1>3 DEF Sel
    <2> QED
      BY <1>1, <1>2, <1>7, <2>1 DEF CanPop
  <1> QED
    BY <1>1, <1>2, <1>5, <1>6, <1>8

\* The segments of code that is interrupted.
LEMMA InterruptedSegments ==
    ASSUME Types, Nested, NEW i \in 0 .. Len(taken), NEW u, NEW w, Above(i, u, w), u.iflag
    PROVE  u.seg \in {KernelSegments, UserSegments}
  <1>1. CASE i = 0
    BY <1>1 DEF Above, MainState
  <1>2. CASE i # 0
    <2>1. After(taken[i], u, w)
      BY <1>2 DEF Above
    <2> QED
      BY <2>1 DEF After, UserState, UserRegs, SysState, HandlerState
  <1> QED
    BY <1>1, <1>2

LEMMA IsrExits ==
    ASSUME Types, Chained, IsrExit
    PROVE  Types' /\ Chained' /\ UNCHANGED rejected /\ Resumes
  <1>0. Nested /\ Intact /\ Separate /\ Tables /\ Child
    BY DEF Chained
  <1>1. PICK e : e = Last(taken)
    OBVIOUS
  <1>2. PICK l \in {"exception_exit", "irq_exit"} : cpu.eip = Code(KERNEL, l)
    BY DEF IsrExit, At
  <1>3. /\ taken # <<>> /\ e \in Entries /\ Began(e)
        /\ e.asked[1] \in {"irq", "fault"} /\ HandlerState(e, cpu, Stk)
        /\ e.was \in States /\ Ctx(cpu) = Ctx(e.was.cpu) /\ KernelShape(cpu)
        /\ VectorOf(e.asked) \in Installed \ {SYSCALL}
    BY <1>0, <1>1, <1>2, HandlerRuns
  <1>4. Stk = WrapperWords(e.was, VectorOf(e.asked))
    BY <1>2, <1>3, CodeFacts DEF HandlerState, HandlerLabel
  <1>5. Above(Len(taken) - 1, e.was.cpu, e.was.words) /\ e.was.cpu \in Cpus
        /\ Len(taken) - 1 \in 0 .. Len(taken)
    <2>1. PICK n : n = Len(taken)
      OBVIOUS
    <2>2. n \in Nat \ {0} /\ e = taken[n]
      <3>1. taken \in Seq(Entries)
        BY DEF Types
      <3> QED
        BY <1>1, <1>3, <2>1, <3>1, Removing
    <2>3. n \in 1 .. Len(taken)
      BY <2>1, <2>2
    <2>4. Above(n - 1, e.was.cpu, e.was.words)
      BY <1>0, <2>2, <2>3 DEF Nested, Left
    <2> QED
      BY <1>3, <2>1, <2>2, <2>4 DEF States
  <1>6. e.was.cpu.iflag
    BY <1>0, <1>3, <1>5, AboveShape, UserShape DEF Began, UserRegs
  <1>7. e.was.cpu.seg \in {KernelSegments, UserSegments}
    BY <1>0, <1>5, <1>6, InterruptedSegments
  <1>8. /\ DataOk(0, Cpl) /\ DataOk(GDT_USER_DATA_SELECTOR, Cpl)
        /\ DataOk(GDT_KERNEL_DATA_SELECTOR, Cpl)
    <2>1. /\ DataOk(GDT_USER_DATA_SELECTOR, 0) /\ DataOk(0, 0) /\ DataOk(GDT_KERNEL_DATA_SELECTOR, 0)
          /\ Rpl(GDT_KERNEL_CODE_SELECTOR) = 0
      BY <1>0, SegmentsLoadable DEF Tables
    <2> QED
      BY <1>3, <2>1 DEF Cpl, KernelShape, KernelRegs
  <1>9. /\ CanPop(PopOrder, Stk) /\ Len(Stk) >= Len(PopOrder) + 2
        /\ GenAfter(PopOrder, Stk) = e.was.cpu.gen /\ SegAfter(PopOrder, Stk) = e.was.cpu.seg
        /\ Without(Stk, Len(PopOrder) + 2) = Frame(e.was)
    BY <1>3, <1>4, <1>7, <1>8, WrapperPops
  <1>10. PICK gen, seg, words : gen = e.was.cpu.gen /\ seg = e.was.cpu.seg /\ words = Frame(e.was)
    OBVIOUS
  <1>11. Iret(gen, seg, words) /\ quiet' \in BOOLEAN
    <2>1. Iret(GenAfter(PopOrder, Stk), SegAfter(PopOrder, Stk), Without(Stk, Len(PopOrder) + 2))
      BY <1>9 DEF IsrExit
    <2> QED
      BY <1>9, <1>10, <2>1 DEF IsrExit, Types
  <1>12. gen \in [General -> Words] /\ [e.was.cpu EXCEPT !.gen = gen] = e.was.cpu
    BY <1>5, <1>10 DEF Cpus
  <1>13. Above(Len(taken) - 1, [e.was.cpu EXCEPT !.gen = gen], e.was.words)
    BY <1>5, <1>12
  <1>14. e.asked[1] # "call"
    BY <1>3
  <1>15. /\ Types' /\ Chained' /\ UNCHANGED rejected
         /\ cpu' = [e.was.cpu EXCEPT !.gen = gen] /\ Stk' = e.was.words
    BY <1>1, <1>3, <1>10, <1>11, <1>12, <1>13, <1>14, Resumed
  <1>16. Resumes
    BY <1>1, <1>5, <1>10, <1>12, <1>15, WholeAgain
  <1> QED
    BY <1>15, <1>16

LEMMA SyscallIrets ==
    ASSUME Types, Chained, SyscallIret
    PROVE  Types' /\ Chained' /\ UNCHANGED rejected /\ Resumes
  <1>0. Nested /\ Intact /\ Separate /\ Tables /\ Child
    BY DEF Chained
  <1>1. PICK e : e = Last(taken)
    OBVIOUS
  <1>2. cpu.eip = Code(KERNEL, "syscall_iret")
    BY DEF SyscallIret, At
  <1>3. /\ taken # <<>> /\ e \in Entries /\ Began(e) /\ e.asked[1] = "int"
        /\ SysState(e.was, cpu, Stk) /\ e.was \in States
        /\ UserRegs(e.was.cpu) /\ Ctx(cpu) = Ctx(e.was.cpu) /\ KernelShape(cpu)
    BY <1>0, <1>1, <1>2, SysRuns
  <1>4. /\ cpu.seg = UserSegments /\ Stk = Frame(e.was)
        /\ \A r \in {"esi", "edi", "ebp"} : cpu.gen[r] = e.was.cpu.gen[r]
    BY <1>2, <1>3, CodeFacts DEF SysState
  <1>5. PICK c : c = Ctx(e.was.cpu)
    OBVIOUS
  <1>6. /\ e.was.cpu \in Cpus /\ cpu \in Cpus /\ e.was.cpu.eip = Code(c, "stub") /\ c \in Slots
    BY <1>3, <1>5 DEF States, Types, Began
  <1>7. /\ UserState(c, e.was.cpu, e.was.words)
        /\ \A u, w : Above(Len(taken) - 1, u, w) <=> UserState(c, u, w)
    <2>1. PICK n : n = Len(taken)
      OBVIOUS
    <2>2. n \in Nat \ {0} /\ e = taken[n] /\ taken \in Seq(Entries)
      <3>1. taken \in Seq(Entries)
        BY DEF Types
      <3> QED
        BY <1>1, <1>3, <2>1, <3>1, Removing
    <2>3. n \in 1 .. Len(taken) /\ n - 1 \in 0 .. Len(taken)
      BY <2>1, <2>2
    <2>4. Above(n - 1, e.was.cpu, e.was.words)
      BY <1>0, <2>2, <2>3 DEF Nested, Left
    <2>5. ~KernelShape(e.was.cpu)
      BY <1>3 DEF KernelShape, FromUser, UserRegs
    <2>6. PICK m : m = n - 1
      OBVIOUS
    <2>7. /\ m \in 1 .. Len(taken) /\ Called(m) /\ Callee(m) \in Slots
          /\ UserState(Callee(m), e.was.cpu, e.was.words)
      BY <1>0, <2>3, <2>4, <2>5, <2>6, AboveShape
    <2>8. Callee(m) = c
      BY <1>5, <2>7, UserShape
    <2>9. \A u, w : Above(m, u, w) <=> UserState(c, u, w)
      BY <2>7, <2>8 DEF Above, After, Called, Callee
    <2> QED
      BY <2>1, <2>6, <2>7, <2>8, <2>9
  <1>8. PICK gen, seg, words : gen = cpu.gen /\ seg = e.was.cpu.seg /\ words = Frame(e.was)
    OBVIOUS
  <1>9. gen \in [General -> Words]
    BY <1>6, <1>8 DEF Cpus
  <1>10. Iret(gen, seg, words) /\ quiet' \in BOOLEAN
    <2>1. seg = cpu.seg /\ words = Stk
      BY <1>3, <1>4, <1>8 DEF UserRegs
    <2> QED
      BY <1>8, <2>1 DEF SyscallIret, Main
  <1>11. Above(Len(taken) - 1, [e.was.cpu EXCEPT !.gen = gen], e.was.words)
    <2>1. PICK u : u = [e.was.cpu EXCEPT !.gen = gen]
      OBVIOUS
    <2>2. /\ u.cs = e.was.cpu.cs /\ u.ss = e.was.cpu.ss /\ u.seg = e.was.cpu.seg
          /\ u.iflag = e.was.cpu.iflag /\ u.nt = e.was.cpu.nt /\ u.area = e.was.cpu.area
          /\ u.eip = e.was.cpu.eip /\ u.gen["ebp"] = e.was.cpu.gen["ebp"]
      BY <1>4, <1>6, <1>8, <2>1 DEF Cpus
    <2>3. UserState(c, u, e.was.words)
      BY <1>6, <1>7, <2>2, CodeFacts DEF UserState, UserRegs
    <2> QED
      BY <1>7, <2>1, <2>3
  <1>12. e.asked[1] # "call"
    BY <1>3
  <1>13. /\ Types' /\ Chained' /\ UNCHANGED rejected
         /\ cpu' = [e.was.cpu EXCEPT !.gen = gen] /\ Stk' = e.was.words
    BY <1>1, <1>3, <1>8, <1>9, <1>10, <1>11, <1>12, Resumed
  <1>14. Resumes
    BY <1>1, <1>3, <1>4, <1>6, <1>8, <1>9, <1>13, WholeAgain
  <1> QED
    BY <1>13, <1>14

\* An application ends: its iret returns to the task_exec that started it.
LEMMA AppIrets ==
    ASSUME Types, Chained, AppIret
    PROVE  Types' /\ Chained' /\ UNCHANGED rejected /\ Resumes
  <1>0. Nested /\ Intact /\ Separate /\ Tables /\ Child
    BY DEF Chained
  <1>1. PICK e : e = Last(taken)
    OBVIOUS
  <1>2. PICK s \in Slots, l \in {"exit", "main"} : cpu.eip = Code(s, l)
    BY DEF AppIret, Types
  <1>3. /\ taken # <<>> /\ Called(Len(taken)) /\ Callee(Len(taken)) = s
        /\ Ctx(cpu) = s /\ UserState(s, cpu, Stk)
    BY <1>0, <1>2, AppRuns
  <1>4. TaskReturn(cpu.eip) /\ quiet' \in BOOLEAN
    BY <1>3 DEF AppIret, Iret, UserState, UserRegs, Main
  <1>5. /\ Types' /\ Nested' /\ Intact' /\ Separate' /\ Tables' /\ Child'
        /\ UNCHANGED <<rejected, tasks, stack>> /\ cpu' = e.was.cpu /\ Stk' = e.was.words
    BY <1>0, <1>1, <1>3, <1>4, ReturnStep
  <1>6. e.was.cpu \in Cpus
    BY <1>5 DEF Types
  <1>7. PICK gen : gen = e.was.cpu.gen
    OBVIOUS
  <1>8. gen \in [General -> Words] /\ cpu' = [e.was.cpu EXCEPT !.gen = gen]
    BY <1>5, <1>6, <1>7 DEF Cpus
  <1>9. Resumes
    BY <1>1, <1>5, <1>6, <1>7, <1>8, WholeAgain
  <1> QED
    BY <1>5, <1>9 DEF Chained

---------------------------------------------------------------------------
(* task_exec.                                                              *)

\* Who executes the code of task_exec.
LEMMA WhoExecs ==
    ASSUME Types, Nested, NEW l \in {"kernel_main", "syscall_handler", "task_switch", "task_free"},
           cpu.eip = Code(KERNEL, l)
    PROVE  /\ KernelShape(cpu) /\ cpu.seg = KernelSegments /\ cpu.iflag /\ Top = cpu
           /\ taken = <<>> \/ Last(taken).asked[1] # "irq"
           /\ \/ /\ taken = <<>> /\ MainState(cpu, Stk) /\ Ctx(cpu) = KERNEL
                 /\ l # "syscall_handler"
                 /\ \A u, w : Above(Len(taken), u, w) <=> MainState(u, w)
              \/ /\ taken # <<>> /\ SysState(Last(taken).was, cpu, Stk) /\ Ctx(cpu) \in Slots
                 /\ l # "kernel_main" /\ Ctx(cpu) = Ctx(Last(taken).was.cpu)
                 /\ cpu.area = Kernel(Ctx(cpu))
                 /\ Stk = Frame(Last(taken).was) \o SyscallWords(Last(taken).was.cpu)
                 /\ \A r \in {"esi", "edi", "ebp"} : cpu.gen[r] = Last(taken).was.cpu.gen[r]
                 /\ \A u, w : Above(Len(taken), u, w) <=> SysState(Last(taken).was, u, w)
  <1>1. CASE taken = <<>> /\ MainState(cpu, Stk)
             /\ \A u, w : Above(Len(taken), u, w) <=> MainState(u, w)
    <2>1. KernelShape(cpu) /\ Ctx(cpu) = KERNEL /\ l # "syscall_handler"
      BY <1>1, MainShape, CodeFacts
    <2>2. cpu.seg = KernelSegments /\ cpu.iflag
      BY <1>1, CodeFacts DEF MainState
    <2>3. Top = cpu
      BY <1>1 DEF Top
    <2> QED
      BY <1>1, <2>1, <2>2, <2>3
  <1>2. CASE /\ taken # <<>> /\ Last(taken) \in Entries /\ Began(Last(taken))
             /\ After(Last(taken), cpu, Stk)
             /\ \A u, w : Above(Len(taken), u, w) <=> After(Last(taken), u, w)
    <2>1. PICK e : e = Last(taken)
      OBVIOUS
    <2>2. l # "kernel_main" /\ e.asked[1] = "int"
      BY <1>2, <2>1, WhereAfter
    <2>3. SysState(e.was, cpu, Stk) /\ \A u, w : Above(Len(taken), u, w) <=> SysState(e.was, u, w)
      BY <1>2, <2>1, <2>2 DEF After
    <2>4. KernelShape(cpu) /\ Ctx(cpu) = Ctx(e.was.cpu)
      BY <1>2, <2>1, <2>2, <2>3, SysShape
    <2>5. Ctx(e.was.cpu) \in Slots
      BY <1>2, <2>1, <2>2, EntryTypes
    <2>6. /\ cpu.seg = KernelSegments /\ cpu.iflag /\ cpu.area = Kernel(Ctx(e.was.cpu))
          /\ Stk = Frame(e.was) \o SyscallWords(e.was.cpu)
          /\ \A r \in {"esi", "edi", "ebp"} : cpu.gen[r] = e.was.cpu.gen[r]
      BY <2>2, <2>3, CodeFacts DEF SysState
    <2>7. Top = cpu
      BY <2>1, <2>2 DEF Top
    <2> QED
      BY <1>2, <2>1, <2>2, <2>3, <2>4, <2>5, <2>6, <2>7
  <1> QED
    BY <1>1, <1>2, WhoRuns

\* It goes on elsewhere in task_exec, or returns from it.
LEMMA ExecGoesOn ==
    ASSUME Types, Nested, NEW l \in {"kernel_main", "syscall_handler", "task_switch", "task_free"},
           cpu.eip = Code(KERNEL, l), NEW u \in Cpus, NEW m, u.eip = Code(KERNEL, m),
           u.area = cpu.area, u.cs = cpu.cs, u.ss = cpu.ss, u.seg = cpu.seg, u.iflag = cpu.iflag,
           u.nt = cpu.nt, \A r \in {"ebx", "esi", "edi", "ebp"} : u.gen[r] = cpu.gen[r],
           \/ m \in {"task_switch", "task_free"}
           \/ m = "halt" /\ Ctx(cpu) = KERNEL
           \/ m = "syscall_exit" /\ Ctx(cpu) # KERNEL
    PROVE  Above(Len(taken), u, Stk)
  <1>1. CASE /\ taken = <<>> /\ MainState(cpu, Stk) /\ Ctx(cpu) = KERNEL
             /\ \A v, w : Above(Len(taken), v, w) <=> MainState(v, w)
    <2>1. cpu.iflag
      BY WhoExecs
    <2>2. m \in {"kernel_main", "task_switch", "task_free", "halt"}
      BY <1>1
    <2>3. MainState(u, Stk)
      BY <1>1, <2>1, <2>2 DEF MainState, KernelRegs
    <2> QED
      BY <1>1, <2>3
  <1>2. CASE /\ taken # <<>> /\ SysState(Last(taken).was, cpu, Stk) /\ Ctx(cpu) \in Slots
             /\ Ctx(cpu) = Ctx(Last(taken).was.cpu) /\ cpu.area = Kernel(Ctx(cpu))
             /\ Stk = Frame(Last(taken).was) \o SyscallWords(Last(taken).was.cpu)
             /\ \A r \in {"esi", "edi", "ebp"} : cpu.gen[r] = Last(taken).was.cpu.gen[r]
             /\ \A v, w : Above(Len(taken), v, w) <=> SysState(Last(taken).was, v, w)
    <2>1. PICK e : e = Last(taken)
      OBVIOUS
    <2>2. cpu.iflag /\ KernelRegs(cpu) /\ cpu.seg = KernelSegments
      BY WhoExecs DEF KernelShape
    <2>3. m \in {"syscall_handler", "task_switch", "task_free", "syscall_exit"}
      BY <1>2, ContextFacts
    <2>4. u.gen["esi"] = e.was.cpu.gen["esi"] /\ u.gen["edi"] = e.was.cpu.gen["edi"]
          /\ u.gen["ebp"] = e.was.cpu.gen["ebp"]
      BY <1>2, <2>1
    <2>5. SysState(e.was, u, Stk)
      BY <1>2, <2>1, <2>2, <2>3, <2>4 DEF SysState, KernelRegs
    <2> QED
      BY <1>2, <2>1, <2>5
  <1> QED
    BY <1>1, <1>2, WhoExecs

LEMMA TaskSwitches ==
    ASSUME Types, Chained, TaskSwitch
    PROVE  Types' /\ Chained' /\ UNCHANGED rejected /\ Len(taken') > Len(taken)
  <1>0. Nested /\ Intact /\ Separate /\ Tables /\ Child
    BY DEF Chained
  <1>1. cpu.eip = Code(KERNEL, "task_switch") /\ quiet' \in BOOLEAN
    BY DEF TaskSwitch, At, Main
  <1>2. KernelShape(cpu) /\ Top = cpu
    BY <1>0, <1>1, WhoExecs
  <1>3. PICK s : s = child[Ctx(cpu)]
    OBVIOUS
  <1>4. Ready(s)
    BY <1>0, <1>1, <1>2, <1>3 DEF Child
  <1>5. CallFar(Selector(s), Code(KERNEL, "task_free"))
    BY <1>0, <1>3, Here DEF TaskSwitch
  <1>6. PICK eip : eip = Code(KERNEL, "task_free")
    OBVIOUS
  <1>7. eip \in Words /\ cpu \in Cpus /\ Stk \in Seq(Words)
    BY <1>0, <1>6, KernelLabels, Here DEF Types, Labels
  <1>8. PICK u : u = State(eip).cpu
    OBVIOUS
  <1>9. /\ u \in Cpus /\ u.eip = Code(KERNEL, "task_free") /\ u.area = cpu.area /\ u.cs = cpu.cs
        /\ u.ss = cpu.ss /\ u.seg = cpu.seg /\ u.iflag = cpu.iflag /\ u.nt = cpu.nt
        /\ u.gen = cpu.gen
    BY <1>6, <1>7, <1>8, StateFields
  <1>10. PICK m : m = "task_free"
    OBVIOUS
  <1>11. Above(Len(taken), u, Stk)
    BY <1>0, <1>1, <1>9, <1>10, ExecGoesOn
  <1>12. Above(Len(taken), State(Code(KERNEL, "task_free")).cpu, Stk)
    BY <1>6, <1>8, <1>11
  <1> QED
    BY <1>0, <1>1, <1>2, <1>3, <1>4, <1>5, <1>12, CallStep DEF Chained

LEMMA TaskFrees ==
    ASSUME Types, Chained, TaskFree
    PROVE  Types' /\ Chained' /\ UNCHANGED <<rejected, taken>>
  <1>0. Nested /\ Intact /\ Separate /\ Tables /\ Child
    BY DEF Chained
  <1>1. cpu.eip = Code(KERNEL, "task_free")
    BY DEF TaskFree, At
  <1>2. /\ KernelShape(cpu) /\ Top = cpu
        /\ taken = <<>> \/ Last(taken).asked[1] # "irq"
    BY <1>0, <1>1, WhoExecs
  <1>3. Current = Ctx(cpu) /\ Ctx(cpu) \in Contexts /\ Ctx(cpu) \in Live
    BY <1>0, Here
  <1>4. PICK s : s = child[Ctx(cpu)]
    OBVIOUS
  <1>5. s \in Slots \ Live
    BY <1>0, <1>1, <1>2, <1>4 DEF Child
  <1>6. PICK m \in {"halt", "syscall_exit"} : m = IF Ctx(cpu) = KERNEL THEN "halt" ELSE "syscall_exit"
    OBVIOUS
  <1>7. cpu \in Cpus /\ cpu.gen \in [General -> Words]
    BY DEF Types, Cpus
  <1>8. PICK g \in [General -> Words] : g = Clobbered(cpu.gen)
    BY <1>7, ClobberedFacts
  <1>9. \A r \in {"ebx", "esi", "edi", "ebp"} : g[r] = cpu.gen[r]
    BY <1>7, <1>8, ClobberedFacts
  <1>10. /\ UNCHANGED <<stack, tables, child, patched, rejected, taken>> /\ quiet' \in BOOLEAN
         /\ in_use' = [in_use EXCEPT ![s] = FALSE]
         /\ cpu' = [cpu EXCEPT !.gen = g, !.eip = Code(KERNEL, m)]
    BY <1>3, <1>4, <1>6, <1>8 DEF TaskFree, Main
  <1>11. /\ cpu' \in Cpus /\ cpu'.area = cpu.area /\ cpu'.cs = cpu.cs /\ cpu'.ss = cpu.ss
         /\ cpu'.nt = cpu.nt /\ cpu'.seg = cpu.seg /\ cpu'.iflag = cpu.iflag
         /\ cpu'.gen = g /\ cpu'.eip = Code(KERNEL, m)
    <2>1. Code(KERNEL, m) \in Words
      BY KernelLabels DEF Labels
    <2> QED
      BY <1>7, <1>10, <2>1 DEF Cpus
  <1>12. PICK u \in Cpus : u = cpu'
    BY <1>11
  <1>13. /\ u.area = cpu.area /\ u.cs = cpu.cs /\ u.ss = cpu.ss /\ u.nt = cpu.nt
         /\ u.seg = cpu.seg /\ u.iflag = cpu.iflag /\ u.eip = Code(KERNEL, m)
         /\ \A r \in {"ebx", "esi", "edi", "ebp"} : u.gen[r] = cpu.gen[r]
    BY <1>9, <1>11, <1>12
  <1>14. Above(Len(taken), u, Stk)
    BY <1>0, <1>1, <1>6, <1>13, ExecGoesOn
  <1>15. Stk' = Stk
    BY <1>10, <1>11 DEF Stk
  <1>16. Above(Len(taken), cpu', Stk')
    BY <1>12, <1>14, <1>15
  <1>17. in_use' \in [Slots -> BOOLEAN] /\ \A t \in Slots : t \in Live => in_use'[t] = in_use[t]
    BY <1>5, <1>10 DEF Types
  <1>18. UNCHANGED <<gdt, tss, tr, idtr>>
    BY <1>10 DEF tables
  <1>19. Nested' /\ Intact' /\ Separate' /\ Tables' /\ Live' = Live /\ Ctx(cpu') = Ctx(cpu)
    BY <1>0, <1>10, <1>11, <1>16, <1>17, <1>18, LocalStep
  <1>20. Types'
    BY <1>10, <1>11, <1>17, <1>18 DEF Types
  <1>21. Child'
    <2>1. cpu'.eip # Code(KERNEL, "task_switch") /\ cpu'.eip # Code(KERNEL, "task_free")
      BY <1>11, CodeFacts
    <2>2. taken' = <<>> \/ Last(taken').asked[1] # "irq"
      BY <1>2, <1>10
    <2> QED
      BY <2>1, <2>2, NoCall
  <1> QED
    BY <1>10, <1>19, <1>20, <1>21 DEF Chained

\* The entry of a TSS is not that of another, nor that of a segment.
LEMMA OtherIndex ==
    /\ \A c \in Contexts, d \in Contexts : c # d => TssIndex(c) # TssIndex(d)
    /\ \A c \in Contexts : TssIndex(c) \in GdtIndexes /\ TssIndex(c) \notin 1 .. 4
  <1>1. MAX_TASK_COUNT \in Nat \ {0}
    BY AddressAssumption
  <1> QED
    BY <1>1 DEF TssIndex, Contexts, Slots, KERNEL, KERNEL_TSS_INDEX, GdtIndexes

LEMMA TaskCreates ==
    ASSUME Types, Chained, NEW s \in Slots, TaskCreate(s)
    PROVE  Types' /\ Chained' /\ UNCHANGED <<rejected, taken>>
  <1>0. Nested /\ Intact /\ Separate /\ Tables /\ Child
    BY DEF Chained
  <1>1. PICK l \in {"kernel_main", "syscall_handler", "task_switch", "task_free"} :
            cpu.eip = Code(KERNEL, l)
    BY DEF TaskCreate, AtExec, At
  <1>2. /\ KernelShape(cpu)
        /\ taken = <<>> \/ Last(taken).asked[1] # "irq"
    BY <1>0, <1>1, WhoExecs
  <1>3. Current = Ctx(cpu) /\ Ctx(cpu) \in Contexts /\ Ctx(cpu) \in Live /\ Live \subseteq Contexts
    BY <1>0, Here, LiveContexts
  <1>4. s \notin Live /\ s \in Contexts
    BY <1>0, ContextFacts DEF TaskCreate, Tables
  <1>5. /\ UNCHANGED <<idtr, tr, rejected, taken>> /\ quiet' \in BOOLEAN
        /\ in_use' = [in_use EXCEPT ![s] = TRUE]
        /\ child' = [child EXCEPT ![Ctx(cpu)] = s]
        /\ tss' = [tss EXCEPT ![s] = NewTss(s)]
        /\ gdt' = [gdt EXCEPT ![TssIndex(s)] = TssEntry(s, TYPE_TSS)]
        /\ stack' = [stack EXCEPT ![Kernel(s)] = <<>>, ![User(s)] = <<>>]
        /\ patched' \subseteq patched
        /\ cpu' = [cpu EXCEPT !.eip = Code(KERNEL, "task_switch")]
    BY <1>3, <1>4, TssEntries DEF TaskCreate, Main, Goto
  <1>6. cpu \in Cpus /\ cpu.area \in Areas
    BY DEF Types, Cpus
  <1>7. PICK m : m = "task_switch"
    OBVIOUS
  <1>8. /\ cpu' \in Cpus /\ cpu'.area = cpu.area /\ cpu'.cs = cpu.cs /\ cpu'.ss = cpu.ss
        /\ cpu'.nt = cpu.nt /\ cpu'.seg = cpu.seg /\ cpu'.iflag = cpu.iflag
        /\ cpu'.gen = cpu.gen /\ cpu'.eip = Code(KERNEL, m)
    <2>1. Code(KERNEL, "task_switch") \in Words
      BY KernelLabels DEF Labels
    <2> QED
      BY <1>5, <1>6, <1>7, <2>1 DEF Cpus
  <1>9. PICK u \in Cpus : u = cpu'
    BY <1>8
  <1>10. Above(Len(taken), u, Stk)
    BY <1>0, <1>1, <1>7, <1>8, <1>9, ExecGoesOn
  <1>11. /\ stack' \in [Areas -> Seq(Words)]
         /\ stack'[Kernel(s)] = <<>> /\ stack'[User(s)] = <<>>
         /\ \A a \in Areas : a[2] # s => stack'[a] = stack[a]
    <2>1. /\ Kernel(s) \in Areas /\ User(s) \in Areas /\ Kernel(s)[2] = s /\ User(s)[2] = s
          /\ Kernel(s) # User(s)
      BY <1>4, AreaFacts
    <2>2. stack \in [Areas -> Seq(Words)] /\ <<>> \in Seq(Words)
      BY DEF Types
    <2> QED
      BY <1>5, <2>1, <2>2
  <1>12. cpu.area[2] # s
    BY <1>3, <1>4 DEF Ctx
  <1>13. Above(Len(taken), cpu', Stk')
    <2>1. Stk' = Stk
      BY <1>6, <1>8, <1>11, <1>12 DEF Stk
    <2> QED
      BY <1>9, <1>10, <2>1
  <1>14. \A a \in Areas : a # cpu.area /\ a[2] \in Live => stack'[a] = stack[a]
    BY <1>4, <1>11
  <1>15. /\ tss' \in [Contexts -> Tsss] /\ tss'[s] = NewTss(s)
         /\ \A c \in Contexts : c # s => tss'[c] = tss[c]
    BY <1>4, <1>5, NewTssFacts DEF Types
  <1>16. /\ DOMAIN gdt' = GdtIndexes /\ gdt'[TssIndex(s)] = TssEntry(s, TYPE_TSS)
         /\ \A i \in GdtIndexes : i # TssIndex(s) => gdt'[i] = gdt[i]
         /\ TssIndex(s) \in GdtIndexes
    BY <1>4, <1>5, OtherIndex DEF Types
  <1>17. \A c \in Live : tss'[c] = tss[c] /\ gdt'[TssIndex(c)] = gdt[TssIndex(c)]
    <2>1. SUFFICES ASSUME NEW c \in Live
                   PROVE  tss'[c] = tss[c] /\ gdt'[TssIndex(c)] = gdt[TssIndex(c)]
      OBVIOUS
    <2>2. c \in Contexts /\ c # s
      BY <1>3, <1>4, <2>1
    <2>3. TssIndex(c) \in GdtIndexes /\ TssIndex(c) # TssIndex(s)
      BY <1>4, <2>2, OtherIndex
    <2> QED
      BY <1>15, <1>16, <2>2, <2>3
  <1>18. \A i \in 1 .. 4 : gdt'[i] = gdt[i]
    <2>1. TssIndex(s) \notin 1 .. 4
      BY <1>4, OtherIndex
    <2>2. \A i \in 1 .. 4 : i \in GdtIndexes
      BY AddressAssumption DEF GdtIndexes, KERNEL_TSS_INDEX
    <2> QED
      BY <1>16, <2>1, <2>2
  <1>19. /\ in_use' \in [Slots -> BOOLEAN] /\ in_use'[s]
         /\ \A t \in Slots : t \in Live => in_use'[t] = in_use[t]
    BY <1>4, <1>5 DEF Types
  <1>20. /\ child' \in [Contexts -> Contexts] /\ child'[Ctx(cpu)] = s
         /\ \A c \in Live : c # Ctx(cpu) => child'[c] = child[c]
    BY <1>3, <1>4, <1>5 DEF Types
  <1>21. UNCHANGED <<taken, tr, idtr, rejected>> /\ cpu'.area = cpu.area
    BY <1>5, <1>8
  <1>22. Nested' /\ Intact' /\ Separate' /\ Tables' /\ Live' = Live /\ Ctx(cpu') = Ctx(cpu)
    BY <1>0, <1>13, <1>14, <1>17, <1>18, <1>19, <1>20, <1>21, LocalStep
  <1>23. Types'
    <2>1. \A i \in GdtIndexes : gdt'[i].present \in {0, 1}
      <3>1. TssEntry(s, TYPE_TSS).present = 1
        BY <1>4, TssEntries
      <3> QED
        BY <1>16, <3>1 DEF Types
    <2> QED
      BY <1>5, <1>8, <1>11, <1>15, <1>16, <1>19, <1>20, <2>1 DEF Types
  <1>24. Child'
    <2>1. Top' = cpu'
      BY <1>2, <1>5 DEF Top
    <2>2. Top'.eip = Code(KERNEL, "task_switch") /\ Top'.eip # Code(KERNEL, "task_free")
      BY <1>7, <1>8, <2>1, CodeFacts
    <2>3. Ready(s)'
      BY <1>4, <1>11, <1>15, <1>16, <1>19, <1>22 DEF Ready
    <2>4. child'[Ctx(cpu')] = s
      BY <1>20, <1>22
    <2>5. Ready(child[Ctx(cpu)])'
      BY <2>3, <2>4 DEF Ready
    <2> QED
      BY <2>2, <2>5 DEF Child
  <1> QED
    BY <1>5, <1>22, <1>23, <1>24 DEF Chained

---------------------------------------------------------------------------
(* Entries.                                                                *)

\* The processor delivers vector n, for what was asked.
LEMMA Entered ==
    ASSUME Types, Chained, NEW n \in Installed, NEW eip \in Words, NEW asked,
           Deliver(n, eip, asked), quiet' \in BOOLEAN,
           NEW e \in Entries, e = [asked |-> asked, was |-> State(eip)], Began(e),
           asked[1] \in {"int", "irq", "fault"},
           n = IF asked[1] = "int" THEN SYSCALL ELSE VectorOf(asked),
           asked[1] = "irq" => eip = cpu.eip,
           Above(Len(taken), State(eip).cpu, Stk)
    PROVE  Types' /\ Chained' /\ UNCHANGED rejected /\ Len(taken') > Len(taken)
  <1>0. Nested /\ Intact /\ Separate /\ Tables /\ Child
    BY DEF Chained
  <1>1. /\ UNCHANGED <<tables, tasks, rejected>>
        /\ stack' = [stack EXCEPT ![KernelStack(Ctx(cpu))] = Frame(State(eip)) \o ErrorCode(n)]
        /\ taken' = Append(taken, [asked |-> asked, was |-> State(eip)])
        /\ cpu' \in Cpus
        /\ cpu'.gen = cpu.gen /\ cpu'.seg = cpu.seg /\ cpu'.cs = GDT_KERNEL_CODE_SELECTOR
        /\ cpu'.ss = GDT_KERNEL_DATA_SELECTOR /\ cpu'.eip = Entry(n)
        /\ cpu'.iflag = (cpu.iflag /\ n = SYSCALL) /\ cpu'.nt = FALSE
        /\ cpu'.area = KernelStack(Ctx(cpu))
    BY <1>0, Delivered
  <1>2. cpu \in Cpus /\ Stk \in Seq(Words)
    BY <1>0, Here DEF Types
  <1>3. PICK s : s = State(eip)
    OBVIOUS
  <1>4. /\ s \in States /\ s.words = Stk /\ s.cpu.eip = eip /\ s.cpu.gen = cpu.gen
        /\ s.cpu.seg = cpu.seg /\ s.cpu.iflag = cpu.iflag /\ s.cpu.area = cpu.area
        /\ s.cpu \in Cpus /\ e.was = s /\ e.asked = asked
    BY <1>2, <1>3, StateFields
  <1>5. PICK w : w = Frame(s) \o ErrorCode(n)
    OBVIOUS
  <1>6. ErrorCode(n) \in Seq(Words) /\ (n = SYSCALL => ErrorCode(n) = <<>>)
    <2>1. Val(KERNEL, "error_code") \in Words
      BY WordFacts, ContextFacts DEF Names
    <2> QED
      BY <2>1 DEF ErrorCode, HasErrorCode, SYSCALL
  <1>7. Frame(s) \in Seq(Words)
    BY <1>4, FrameShape
  <1>8. w \in Seq(Words) /\ (n = SYSCALL => w = Frame(s))
    BY <1>5, <1>6, <1>7
  <1>9. Ctx(s.cpu) = Ctx(cpu)
    BY <1>4 DEF Ctx
  <1>10. After(e, cpu', w)
    <2>1. CASE asked[1] = "int"
      <3>1. UserRegs(s.cpu) /\ Ctx(cpu) \in Slots
        BY <1>4, <1>9, <2>1 DEF Began
      <3>2. /\ cpu'.iflag /\ cpu'.area = Kernel(Ctx(s.cpu)) /\ cpu'.seg = UserSegments
        <4>1. cpu.iflag = TRUE /\ cpu.seg = UserSegments
          BY <1>2, <1>4, <3>1 DEF UserRegs, Cpus
        <4>2. n = SYSCALL
          BY <2>1
        <4>3. KernelStack(Ctx(cpu)) = Kernel(Ctx(s.cpu))
          BY <1>9, <3>1, AreaFacts
        <4> QED
          BY <1>1, <4>1, <4>2, <4>3
      <3>3. cpu'.eip = Entry(SYSCALL) /\ w = Frame(s) /\ cpu'.gen = s.cpu.gen
        BY <1>1, <1>4, <1>8, <2>1
      <3>4. KernelRegs(cpu')
        BY <1>1 DEF KernelRegs
      <3>5. SysState(s, cpu', w)
        BY <3>2, <3>3, <3>4 DEF SysState
      <3> QED
        BY <1>4, <2>1, <3>5 DEF After
    <2>2. CASE asked[1] \in {"irq", "fault"}
      <3>1. VectorOf(asked) = n /\ n # SYSCALL
        BY <1>4, <2>2, EntryTypes
      <3>2. ~cpu'.iflag /\ KernelRegs(cpu')
        BY <1>1, <3>1 DEF KernelRegs
      <3>3. /\ cpu'.area = KernelStack(Ctx(s.cpu)) /\ cpu'.eip = Entry(n)
            /\ cpu'.gen = s.cpu.gen /\ cpu'.seg = s.cpu.seg
        BY <1>1, <1>4, <1>9
      <3>4. HandlerState(e, cpu', w)
        BY <1>4, <1>5, <3>1, <3>2, <3>3 DEF HandlerState
      <3> QED
        BY <1>4, <2>2, <3>4 DEF After
    <2> QED
      BY <2>1, <2>2
  <1>11. /\ taken' = Append(taken, e)
         /\ stack' = [stack EXCEPT ![KernelStack(Ctx(cpu))] = w]
    BY <1>1, <1>3, <1>5
  <1>12. e.asked[1] # "call" /\ e.was.words = Stk /\ e.was.cpu.area = cpu.area
         /\ Above(Len(taken), e.was.cpu, e.was.words)
    BY <1>3, <1>4
  <1>13. /\ stack' \in [Areas -> Seq(Words)]
         /\ \A a \in Areas : a # KernelStack(Ctx(cpu)) => stack'[a] = stack[a]
         /\ Nested' /\ Intact' /\ Separate' /\ Tables' /\ Live' = Live /\ Ctx(cpu') = Ctx(cpu)
    BY <1>0, <1>1, <1>8, <1>10, <1>11, <1>12, EntryStep
  <1>14. taken' \in Seq(Entries) /\ Len(taken') = Len(taken) + 1 /\ Len(taken) \in Nat
         /\ Last(taken') = e
    <2>1. taken \in Seq(Entries)
      BY DEF Types
    <2> QED
      BY <1>11, <2>1, Adding
  <1>15. Types'
    BY <1>1, <1>13, <1>14 DEF Types, tables, tasks
  <1>16. Child'
    <2>1. CASE asked[1] = "irq"
      <3>1. Top'.eip = cpu.eip
        <4>1. taken' # <<>>
          BY <1>14
        <4> QED
          BY <1>4, <1>14, <2>1, <4>1 DEF Top
      <3>2. Top = cpu
        <4>1. cpu.iflag
          BY <1>4, <2>1 DEF Began
        <4>2. taken # <<>> => After(Last(taken), cpu, Stk)
          BY <1>0, WhoRuns
        <4>3. taken # <<>> => Last(taken).asked[1] # "irq"
          BY <4>1, <4>2 DEF After, HandlerState
        <4> QED
          BY <4>3 DEF Top
      <3>3. Ctx(cpu) \in Contexts /\ Ctx(cpu) \in Live /\ Live \subseteq Contexts
        BY <1>0, Here, LiveContexts
      <3>4. \A a \in Areas : a[2] # Ctx(cpu) => stack'[a] = stack[a]
        BY <1>13, <3>3, AreaFacts
      <3>5. UNCHANGED <<child, in_use, gdt, tss>>
        BY <1>1 DEF tables, tasks
      <3> QED
        BY <1>0, <1>13, <3>1, <3>2, <3>3, <3>4, <3>5, SameCall
    <2>2. CASE asked[1] # "irq"
      <3>1. cpu'.eip # Code(KERNEL, "task_switch") /\ cpu'.eip # Code(KERNEL, "task_free")
        BY <1>1, CodeFacts
      <3>2. Last(taken').asked[1] # "irq"
        BY <1>4, <1>14, <2>2
      <3> QED
        BY <3>1, <3>2, NoCall
    <2> QED
      BY <2>1, <2>2
  <1> QED
    BY <1>1, <1>13, <1>14, <1>15, <1>16 DEF Chained

\* Code of an application at its privilege, and what the gates give it.
LEMMA AppPrivilege ==
    ASSUME Types, Chained, NEW s \in Slots, NEW l, cpu.eip = Code(s, l)
    PROVE  Cpl = 3 /\ Ctx(cpu) = s /\ UserRegs(cpu) /\ UserState(s, cpu, Stk)
           /\ Above(Len(taken), cpu, Stk) /\ cpu \in Cpus /\ Stk \in Seq(Words)
           /\ \A u, w : Above(Len(taken), u, w) <=> UserState(s, u, w)
  <1>0. Nested /\ Tables
    BY DEF Chained
  <1>1. Ctx(cpu) = s /\ UserState(s, cpu, Stk)
        /\ \A u, w : Above(Len(taken), u, w) <=> UserState(s, u, w)
    BY <1>0, AppRuns
  <1>2. Rpl(GDT_USER_CODE_SELECTOR) = 3
    BY <1>0, SegmentsLoadable DEF Tables
  <1>3. UserRegs(cpu) /\ Cpl = 3
    BY <1>1, <1>2 DEF UserState, UserRegs, Cpl
  <1> QED
    BY <1>0, <1>1, <1>3, Here DEF Types

LEMMA SystemCalls ==
    ASSUME Types, Chained, NEW s \in Slots, Int48(s)
    PROVE  Types' /\ Chained' /\ UNCHANGED rejected /\ Len(taken') > Len(taken)
  <1>1. cpu.eip = Code(s, "int48") /\ quiet' \in BOOLEAN
    BY DEF Int48, At, Main
  <1>2. /\ Cpl = 3 /\ Ctx(cpu) = s /\ UserRegs(cpu) /\ UserState(s, cpu, Stk)
        /\ cpu \in Cpus /\ Stk \in Seq(Words)
        /\ \A u, w : Above(Len(taken), u, w) <=> UserState(s, u, w)
    BY <1>1, AppPrivilege
  <1>3. PICK n \in Installed : n = SYSCALL
    BY DEF Installed
  <1>4. idt[SYSCALL].p = 1 /\ idt[SYSCALL].dpl = 3
    BY GateLeads DEF Installed, DPL_USER
  <1>5. PICK eip \in Words : eip = Code(s, "stub")
    BY KernelLabels DEF Labels
  <1>6. PICK asked : asked = <<"int", SYSCALL>>
    OBVIOUS
  <1>7. Deliver(n, eip, asked)
    BY <1>2, <1>3, <1>4, <1>5, <1>6 DEF Int48, SoftwareInterrupt
  <1>8. PICK was : was = State(eip)
    OBVIOUS
  <1>9. /\ was \in States /\ was.words = Stk /\ was.cpu.eip = eip
        /\ was.cpu.gen = cpu.gen /\ was.cpu.seg = cpu.seg /\ was.cpu.cs = cpu.cs
        /\ was.cpu.ss = cpu.ss /\ was.cpu.iflag = cpu.iflag /\ was.cpu.nt = cpu.nt
        /\ was.cpu.area = cpu.area
    BY <1>2, <1>8, StateFields
  <1>10. /\ cpu.area = User(s) /\ Stk = StubWords(s) /\ Asking(s, cpu.gen)
    BY <1>1, <1>2, CodeFacts DEF UserState
  <1>11. PICK e : e = [asked |-> asked, was |-> was]
    OBVIOUS
  <1>12. asked \in {"int", "irq", "fault"} \X Vectors /\ asked[1] = "int"
    BY <1>6 DEF Vectors, INTERRUPT_COUNT, SYSCALL
  <1>13. e \in Entries
    BY <1>9, <1>11, <1>12 DEF Entries
  <1>14. UserState(s, was.cpu, Stk) /\ UserRegs(was.cpu) /\ Ctx(was.cpu) = s
    <2>1. UserRegs(was.cpu) /\ Ctx(was.cpu) = s
      BY <1>2, <1>9 DEF UserRegs, Ctx
    <2>2. was.cpu.gen["ebp"] = Esp(User(s), 1)
      BY <1>9, <1>10 DEF Asking
    <2> QED
      BY <1>5, <1>9, <1>10, <2>1, <2>2 DEF UserState
  <1>15. Began(e)
    BY <1>5, <1>6, <1>9, <1>10, <1>11, <1>14 DEF Began
  <1>16. Above(Len(taken), State(eip).cpu, Stk)
    BY <1>2, <1>8, <1>14
  <1> QED
    BY <1>1, <1>3, <1>7, <1>8, <1>11, <1>12, <1>13, <1>15, <1>16, Entered

\* What is interrupted where it stands.
LEMMA WhereItStands ==
    ASSUME Types, Chained
    PROVE  /\ cpu.eip \in Words /\ State(cpu.eip) \in States /\ State(cpu.eip).cpu = cpu
           /\ State(cpu.eip).words = Stk /\ Above(Len(taken), State(cpu.eip).cpu, Stk)
  <1>1. cpu \in Cpus /\ cpu.eip \in Words /\ Stk \in Seq(Words)
    BY Here DEF Types, Cpus, Chained
  <1>2. PICK was : was = State(cpu.eip)
    OBVIOUS
  <1>3. was \in States /\ was.words = Stk /\ was.cpu = [cpu EXCEPT !.eip = cpu.eip]
    BY <1>1, <1>2, StateFields
  <1>4. was.cpu = cpu
    BY <1>1, <1>3 DEF Cpus
  <1>5. Above(Len(taken), cpu, Stk)
    BY DEF Chained, Nested
  <1> QED
    BY <1>1, <1>2, <1>3, <1>4, <1>5

LEMMA Faulting ==
    ASSUME Types, Chained, NEW s \in Slots, NEW n \in Exceptions, cpu.eip = Code(s, "main"),
           Deliver(n, cpu.eip, <<"fault", n>>), quiet' \in BOOLEAN
    PROVE  Types' /\ Chained' /\ UNCHANGED rejected /\ Len(taken') > Len(taken)
  <1>1. UserRegs(cpu) /\ Ctx(cpu) = s
    BY AppPrivilege
  <1>2. PICK eip : eip = cpu.eip
    OBVIOUS
  <1>3. /\ eip \in Words /\ State(eip) \in States /\ State(eip).cpu = cpu
        /\ State(eip).words = Stk /\ Above(Len(taken), State(eip).cpu, Stk)
    BY <1>2, WhereItStands
  <1>4. PICK asked : asked = <<"fault", n>>
    OBVIOUS
  <1>5. n \in Installed /\ n \in Vectors
    BY DEF Installed, Exceptions, Vectors, INTERRUPT_COUNT
  <1>6. /\ asked \in {"int", "irq", "fault"} \X Vectors /\ asked[1] = "fault"
        /\ VectorOf(asked) = n
    BY <1>4, <1>5 DEF VectorOf
  <1>7. PICK e : e = [asked |-> asked, was |-> State(eip)]
    OBVIOUS
  <1>8. e \in Entries
    BY <1>3, <1>6, <1>7 DEF Entries
  <1>9. Began(e)
    BY <1>1, <1>3, <1>4, <1>7 DEF Began
  <1>10. Deliver(n, eip, asked)
    BY <1>2, <1>4
  <1> QED
    BY <1>3, <1>5, <1>6, <1>7, <1>8, <1>9, <1>10, Entered

LEMMA AppFaults ==
    ASSUME Types, Chained, NEW s \in Slots,
           (\E n \in Faults : Fault(s, n)) \/ (\E n \in SoftInts : SoftInt(s, n))
    PROVE  Types' /\ Chained' /\ UNCHANGED rejected /\ Len(taken') > Len(taken)
  <1>1. CASE \E n \in Faults : Fault(s, n)
    <2>1. PICK n \in Faults : Fault(s, n)
      BY <1>1
    <2>2. n \in Exceptions
      BY VectorsAssumption
    <2>3. cpu.eip = Code(s, "main") /\ Deliver(n, cpu.eip, <<"fault", n>>) /\ quiet' \in BOOLEAN
      BY <2>1 DEF Fault, At, Main
    <2> QED
      BY <2>2, <2>3, Faulting
  <1>2. CASE \E n \in SoftInts : SoftInt(s, n)
    <2>1. PICK n \in SoftInts : SoftInt(s, n)
      BY <1>2
    <2>2. n \in Vectors /\ n # SYSCALL
      BY VectorsAssumption DEF Vectors
    <2>3. cpu.eip = Code(s, "main") /\ quiet' \in BOOLEAN
      BY <2>1 DEF SoftInt, At, Main
    <2>4. Cpl = 3
      BY <2>3, AppPrivilege
    <2>5. ~(idt[n].p = 1 /\ idt[n].dpl >= Cpl)
      <3>1. CASE n \in Installed
        <4>1. idt[n].dpl = 0
          BY <2>2, <3>1, GateLeads DEF DPL_KERNEL
        <4> QED
          BY <2>4, <4>1
      <3>2. CASE n \notin Installed
        <4>1. idt[n] = NoGate
          BY <2>2, <3>2 DEF idt, Gate, Installed, Vectors
        <4> QED
          BY <4>1 DEF NoGate
      <3> QED
        BY <3>1, <3>2
    <2>6. Deliver(13, cpu.eip, <<"fault", 13>>)
      BY <2>1, <2>2, <2>5 DEF SoftInt, SoftwareInterrupt
    <2>7. 13 \in Exceptions
      BY DEF Exceptions
    <2> QED
      BY <2>3, <2>6, <2>7, Faulting
  <1> QED
    BY <1>1, <1>2

LEMMA Interrupting ==
    ASSUME Types, Chained, NEW i \in Irqs, Irq(i)
    PROVE  Types' /\ Chained' /\ UNCHANGED rejected /\ Len(taken') > Len(taken)
  <1>1. i \in IRQ_FIRST .. IRQ_LAST
    BY VectorsAssumption
  <1>2. PICK n : n = IRQ_REMAP_OFFSET + i
    OBVIOUS
  <1>3. n \in Installed /\ i \in Vectors
    BY <1>1, <1>2 DEF Installed, Vectors, IRQ_FIRST, IRQ_LAST, IRQ_REMAP_OFFSET, INTERRUPT_COUNT
  <1>4. PICK eip : eip = cpu.eip
    OBVIOUS
  <1>5. /\ eip \in Words /\ State(eip) \in States /\ State(eip).cpu = cpu
        /\ State(eip).words = Stk /\ Above(Len(taken), State(eip).cpu, Stk)
    BY <1>4, WhereItStands
  <1>6. PICK asked : asked = <<"irq", i>>
    OBVIOUS
  <1>7. /\ asked \in {"int", "irq", "fault"} \X Vectors /\ asked[1] = "irq"
        /\ VectorOf(asked) = n
    BY <1>2, <1>3, <1>6 DEF VectorOf
  <1>8. PICK e : e = [asked |-> asked, was |-> State(eip)]
    OBVIOUS
  <1>9. e \in Entries
    BY <1>5, <1>7, <1>8 DEF Entries
  <1>10. cpu.iflag /\ quiet' \in BOOLEAN /\ Deliver(n, eip, asked)
    BY <1>2, <1>4, <1>6 DEF Irq
  <1>11. Began(e)
    BY <1>1, <1>5, <1>6, <1>8, <1>10 DEF Began
  <1> QED
    BY <1>3, <1>4, <1>5, <1>7, <1>8, <1>9, <1>10, <1>11, Entered

---------------------------------------------------------------------------
(* kernel_main before it has a task register.                              *)

LEMMA ZeroTssFacts ==
    /\ ZeroTss \in Tsss
    /\ [ZeroTss EXCEPT !.ss0 = GDT_KERNEL_DATA_SELECTOR, !.esp0 = Kernel(KERNEL)] \in Tsss
    /\ [ZeroTss EXCEPT !.ss0 = GDT_KERNEL_DATA_SELECTOR, !.esp0 = Kernel(KERNEL)].ss0
            = GDT_KERNEL_DATA_SELECTOR
    /\ [ZeroTss EXCEPT !.ss0 = GDT_KERNEL_DATA_SELECTOR, !.esp0 = Kernel(KERNEL)].esp0
            = Kernel(KERNEL)
  <1>1. PICK k : k = [gen |-> [r \in General |-> Num(0)], seg |-> [r \in Segments |-> 0],
                      cs |-> 0, ss |-> 0, eip |-> Num(0), iflag |-> FALSE, nt |-> FALSE,
                      area |-> Boot]
    OBVIOUS
  <1>2. k \in Cpus
    <2>1. PICK g : g = [r \in General |-> Num(0)]
      OBVIOUS
    <2>2. PICK y : y = [r \in Segments |-> 0]
      OBVIOUS
    <2>3. 0 \in Selectors /\ Num(0) \in Words /\ Boot \in Areas
      <3>1. 0 \in Selectors /\ 0 \in Nat
        BY DEF Selectors
      <3> QED
        BY <3>1, WordFacts, AreaFacts
    <2>4. g \in [General -> Words] /\ y \in [Segments -> Selectors]
      <3>1. g \in [General -> Words]
        BY <2>1, <2>3
      <3>2. y \in [Segments -> Selectors]
        BY <2>2, <2>3
      <3> QED
        BY <3>1, <3>2
    <2>5. k = [gen |-> g, seg |-> y, cs |-> 0, ss |-> 0, eip |-> Num(0), iflag |-> FALSE,
               nt |-> FALSE, area |-> Boot]
      BY <1>1, <2>1, <2>2
    <2> QED
      BY <2>3, <2>4, <2>5 DEF Cpus
  <1>3. ZeroTss = [link |-> 0, ss0 |-> 0, esp0 |-> Boot, depth |-> 0, cpu |-> k]
    BY <1>1 DEF ZeroTss
  <1>4. Boot \in Areas /\ Kernel(KERNEL) \in Areas /\ GDT_KERNEL_DATA_SELECTOR \in Nat /\ 0 \in Nat
    BY ContextFacts, AreaFacts DEF GDT_KERNEL_DATA_SELECTOR, DPL_KERNEL
  <1>5. PICK z : z = ZeroTss
    OBVIOUS
  <1>6. z \in Tsss
    BY <1>2, <1>3, <1>4, <1>5 DEF Tsss
  <1> QED
    BY <1>4, <1>5, <1>6 DEF Tsss

LEMMA GdtTypes ==
    /\ DOMAIN gdt_init = GdtIndexes
    /\ \A i \in GdtIndexes : gdt_init[i].present \in {0, 1}
    /\ gdt_make_null_segment.present = 0
  <1> DEFINE made == <<gdt_make_code_segment(0, 1048575, DPL_KERNEL),
                       gdt_make_data_segment(0, 1048575, DPL_KERNEL),
                       gdt_make_code_segment(0, 1048575, DPL_USER),
                       gdt_make_data_segment(0, 1048575, DPL_USER)>>
  <1>1. gdt_init = [i \in GdtIndexes |-> IF i \in 1 .. 4 THEN made[i] ELSE gdt_make_null_segment]
    BY DEF gdt_init
  <1>2. \A b, l, d : /\ gdt_make_code_segment(b, l, d).present = 1
                     /\ gdt_make_data_segment(b, l, d).present = 1
    BY DEF gdt_make_code_segment, gdt_make_data_segment, build_entry
  <1>3. /\ made[1] = gdt_make_code_segment(0, 1048575, DPL_KERNEL)
        /\ made[2] = gdt_make_data_segment(0, 1048575, DPL_KERNEL)
        /\ made[3] = gdt_make_code_segment(0, 1048575, DPL_USER)
        /\ made[4] = gdt_make_data_segment(0, 1048575, DPL_USER)
    OBVIOUS
  <1> HIDE DEF made
  <1>4. made[1].present = 1 /\ made[2].present = 1 /\ made[3].present = 1 /\ made[4].present = 1
    BY <1>2, <1>3
  <1>5. \A i \in 1 .. 4 : made[i].present = 1
    BY <1>4
  <1>6. gdt_make_null_segment.present = 0
    BY DEF gdt_make_null_segment
  <1> QED
    BY <1>1, <1>5, <1>6

LEMMA Initially ==
    ASSUME Init
    PROVE  Types /\ Starting
  <1>1. PICK g : g = [r \in General |-> Val(KERNEL, r)]
    OBVIOUS
  <1>2. PICK y : y = [r \in Segments |-> LoaderSelector]
    OBVIOUS
  <1>3. /\ LoaderSelector \in Selectors /\ Boot \in Areas
        /\ Code(KERNEL, "gdt_init") \in Words /\ \A r \in General : Val(KERNEL, r) \in Words
    <2>1. LoaderSelector \in Selectors
      BY SMT DEF LoaderSelector, Selectors
    <2>2. Code(KERNEL, "gdt_init") \in Words
      BY KernelLabels DEF Labels
    <2>3. \A r \in General : Val(KERNEL, r) \in Words
      BY WordFacts, ContextFacts DEF Names
    <2> QED
      BY <2>1, <2>2, <2>3, AreaFacts
  <1>4. g \in [General -> Words] /\ y \in [Segments -> Selectors]
    BY <1>1, <1>2, <1>3
  <1>5. cpu = [gen |-> g, seg |-> y, cs |-> LoaderSelector, ss |-> LoaderSelector,
               eip |-> Code(KERNEL, "gdt_init"), iflag |-> FALSE, nt |-> FALSE, area |-> Boot]
    BY <1>1, <1>2 DEF Init
  <1>6. cpu \in Cpus
    BY <1>3, <1>4, <1>5 DEF Cpus
  <1>7. tss \in [Contexts -> Tsss]
    BY ZeroTssFacts DEF Init
  <1>8. child \in [Contexts -> Contexts] /\ in_use \in [Slots -> BOOLEAN]
    BY ContextFacts DEF Init
  <1>9. DOMAIN gdt = GdtIndexes /\ \A i \in GdtIndexes : gdt[i].present \in {0, 1}
    BY GdtTypes DEF Init
  <1>10. stack \in [Areas -> Seq(Words)] /\ taken \in Seq(Entries)
    BY DEF Init
  <1>11. /\ tr \in Nat /\ idtr \in BOOLEAN /\ quiet \in BOOLEAN /\ rejected \in BOOLEAN
         /\ patched \subseteq {Code(s, "main") : s \in Slots}
    BY DEF Init
  <1>12. Types
    BY <1>6, <1>7, <1>8, <1>9, <1>10, <1>11 DEF Types
  <1>13. Starting
    BY <1>5 DEF Starting, Init
  <1> QED
    BY <1>12, <1>13

\* No other step happens there.
LEMMA BootOnly ==
    ASSUME Types, Starting, Next
    PROVE  GdtInit \/ IdtInit \/ TasksInit
  <1>1. PICK b \in {"gdt_init", "idt_init", "tasks_init"} : cpu.eip = Code(KERNEL, b)
    BY DEF Starting
  <1>2. ~cpu.iflag /\ patched = {}
    BY DEF Starting
  <1>3. \A s \in Slots : \A l : cpu.eip # Code(s, l)
    <2>1. \A s, l : Code(s, l) = Code(KERNEL, b) => s = KERNEL
      BY CodeFacts
    <2>2. KERNEL \notin Slots
      BY ContextFacts
    <2> QED
      BY <1>1, <2>1, <2>2
  <1>4. \A l : cpu.eip = Code(KERNEL, l) => l = b
    <2>1. \A l : Code(KERNEL, b) = Code(KERNEL, l) => b = l
      BY CodeFacts
    <2> QED
      BY <1>1, <2>1
  <1>5. \A n : cpu.eip # Entry(n)
    BY <1>1, CodeFacts
  <1>6. ~(Sti \/ Halt \/ NoShell)
    BY <1>4 DEF Sti, Halt, NoShell, At
  <1>7. ~Executing
    BY <1>4 DEF Executing, TaskCreate, AtExec, TaskSwitch, TaskFree, At
  <1>8. ~Handling
    <2>1. \A n \in Installed : ~IsrEnter(n)
      BY <1>5 DEF IsrEnter
    <2>2. ~(ExceptionHandler \/ IrqHandler \/ IsrExit)
      BY <1>4 DEF ExceptionHandler, IrqHandler, IsrExit, At
    <2>3. ~(SyscallEnter \/ SyscallFunction \/ SyscallExit \/ SyscallIret)
      BY <1>4, <1>5 DEF SyscallEnter, SyscallFunction, SyscallExit, SyscallIret, At
    <2> QED
      BY <2>1, <2>2, <2>3 DEF Handling
  <1>9. ~AppIret
    BY <1>2, <1>3 DEF AppIret
  <1>10. \A s \in Slots : ~AppGoesOn(s)
    BY <1>3 DEF AppGoesOn, AppStart, Int48, SyscallReturns, At
  <1>11. \A s \in Slots : ~AppChooses(s)
    BY <1>3 DEF AppChooses, Syscall, Exit, Fault, SoftInt, At
  <1>12. \A i \in Irqs : ~Irq(i)
    BY <1>2 DEF Irq
  <1> QED
    BY <1>6, <1>7, <1>8, <1>9, <1>10, <1>11, <1>12 DEF Next, Running, Booting

LEMMA BootSteps ==
    ASSUME Types, Starting, GdtInit \/ IdtInit \/ TasksInit
    PROVE  Types' /\ (Starting' \/ Chained') /\ UNCHANGED <<rejected, taken>>
  <1>1. /\ taken = <<>> /\ ~rejected /\ patched = {} /\ stack = [a \in Areas |-> <<>>]
        /\ tss = [c \in Contexts |-> ZeroTss]
        /\ cpu.area = Boot /\ ~cpu.iflag /\ ~cpu.nt /\ cpu \in Cpus
    BY DEF Starting, Types
  <1>2. \A l \in {"idt_init", "tasks_init", "sti"} : Code(KERNEL, l) \in Words
    BY KernelLabels DEF Labels
  <1>3. CASE GdtInit
    <2>1. /\ UNCHANGED <<stack, idtr, tss, tr, tasks, rejected, taken>> /\ quiet' = TRUE
          /\ gdt' = gdt_init
          /\ cpu' = [cpu EXCEPT !.seg = KernelSegments, !.ss = GDT_KERNEL_DATA_SELECTOR,
                   !.cs = GDT_KERNEL_CODE_SELECTOR, !.eip = Code(KERNEL, "idt_init")]
      BY <1>3 DEF GdtInit, Main
    <2>2. KernelSegments \in [Segments -> Selectors] /\ GDT_KERNEL_CODE_SELECTOR \in Selectors
          /\ GDT_KERNEL_DATA_SELECTOR \in Selectors
      BY DEF KernelSegments, Selectors, GDT_KERNEL_DATA_SELECTOR, GDT_KERNEL_CODE_SELECTOR,
             DPL_KERNEL
    <2>3. /\ cpu' \in Cpus /\ cpu'.area = cpu.area /\ cpu'.cs = GDT_KERNEL_CODE_SELECTOR
          /\ cpu'.ss = GDT_KERNEL_DATA_SELECTOR /\ cpu'.nt = cpu.nt
          /\ cpu'.seg = KernelSegments /\ cpu'.iflag = cpu.iflag
          /\ cpu'.eip = Code(KERNEL, "idt_init")
      <3> HIDE DEF KernelSegments
      <3> QED
        BY <1>1, <1>2, <2>1, <2>2 DEF Cpus
    <2>4. Types'
      BY <2>1, <2>3, GdtTypes DEF Types, tasks
    <2>5. Starting'
      BY <1>1, <2>1, <2>3 DEF Starting, KernelRegs, tasks
    <2> QED
      BY <2>1, <2>4, <2>5
  <1>4. CASE IdtInit
    <2>1. /\ UNCHANGED <<stack, gdt, tss, tr, tasks, rejected, taken>> /\ quiet' = TRUE
          /\ idtr' = TRUE /\ cpu' = [cpu EXCEPT !.eip = Code(KERNEL, "tasks_init")]
          /\ cpu.eip = Code(KERNEL, "idt_init")
      BY <1>4 DEF IdtInit, Main, Goto, At
    <2>2. gdt = gdt_init /\ KernelRegs(cpu) /\ cpu.seg = KernelSegments
      BY <2>1, CodeFacts DEF Starting
    <2>3. /\ cpu' \in Cpus /\ cpu'.area = cpu.area /\ cpu'.cs = cpu.cs /\ cpu'.ss = cpu.ss
          /\ cpu'.nt = cpu.nt /\ cpu'.seg = cpu.seg /\ cpu'.iflag = cpu.iflag
          /\ cpu'.eip = Code(KERNEL, "tasks_init")
      BY <1>1, <1>2, <2>1 DEF Cpus
    <2>4. Types'
      BY <2>1, <2>3 DEF Types, tasks
    <2>5. Starting'
      BY <1>1, <2>1, <2>2, <2>3 DEF Starting, KernelRegs, tasks
    <2> QED
      BY <2>1, <2>4, <2>5
  <1>5. CASE TasksInit
    <2>1. PICK z : z = [ZeroTss EXCEPT !.ss0 = GDT_KERNEL_DATA_SELECTOR, !.esp0 = Kernel(KERNEL)]
      OBVIOUS
    <2>2. PICK d : d = TssEntry(KERNEL, TYPE_TSS_BUSY)
      OBVIOUS
    <2>3. d = [gdt_make_tss(KERNEL, DPL_KERNEL) EXCEPT !.type = TYPE_TSS_BUSY] /\ d.present = 1
      BY <2>2, TssEntries, ContextFacts
    <2>4. /\ UNCHANGED <<stack, idtr, tasks, rejected, taken>> /\ quiet' = TRUE
          /\ gdt' = [gdt EXCEPT ![KERNEL_TSS_INDEX] = d] /\ tss' = [tss EXCEPT ![KERNEL] = z]
          /\ tr' = Selector(KERNEL) /\ cpu' = [cpu EXCEPT !.eip = Code(KERNEL, "sti")]
          /\ cpu.eip = Code(KERNEL, "tasks_init")
      BY <1>5, <2>1, <2>3 DEF TasksInit, Main, Goto, At
    <2>5. gdt = gdt_init /\ KernelRegs(cpu) /\ cpu.seg = KernelSegments /\ idtr
      BY <2>4, CodeFacts DEF Starting
    <2>6. /\ cpu' \in Cpus /\ cpu'.area = cpu.area /\ cpu'.cs = cpu.cs /\ cpu'.ss = cpu.ss
          /\ cpu'.nt = cpu.nt /\ cpu'.seg = cpu.seg /\ cpu'.iflag = cpu.iflag
          /\ cpu'.eip = Code(KERNEL, "sti")
      BY <1>1, <1>2, <2>4 DEF Cpus
    <2>7. /\ z \in Tsss /\ z.ss0 = GDT_KERNEL_DATA_SELECTOR /\ z.esp0 = Kernel(KERNEL)
      BY <2>1, ZeroTssFacts
    <2>8. TssIndex(KERNEL) = KERNEL_TSS_INDEX /\ KERNEL_TSS_INDEX \in GdtIndexes
          /\ KERNEL_TSS_INDEX \notin 1 .. 4 /\ (\A i \in 1 .. 4 : i \in GdtIndexes)
      BY ContextFacts DEF TssIndex, KERNEL_TSS_INDEX, GdtIndexes
    <2>9. /\ DOMAIN gdt' = GdtIndexes /\ \A i \in GdtIndexes : gdt'[i].present \in {0, 1}
          /\ gdt'[TssIndex(KERNEL)] = d /\ \A i \in 1 .. 4 : gdt'[i] = gdt_init[i]
      BY <2>3, <2>4, <2>5, <2>8, GdtTypes
    <2>10. tss' \in [Contexts -> Tsss] /\ tss'[KERNEL] = z
      BY <2>4, <2>7, ContextFacts DEF Types
    <2>11. tr' \in Nat
      BY <2>4, <2>8 DEF Selector, gdt_entry_to_selector, KERNEL_TSS_INDEX
    <2>12. Types'
      BY <2>4, <2>6, <2>9, <2>10, <2>11 DEF Types, tasks
    <2>13. taken' = <<>> /\ Len(taken') = 0
      BY <1>1, <2>4
    <2>14. Stk' = <<>>
      BY <1>1, <2>4, <2>6, AreaFacts DEF Stk
    <2>15. MainState(cpu', Stk')
      BY <1>1, <2>5, <2>6, <2>14 DEF MainState, KernelRegs
    <2>16. Nested' /\ Intact' /\ Separate'
      <3>1. \A i : i \notin 1 .. Len(taken')
        BY <2>13
      <3>3. Nested'
        BY <2>13, <2>15, <3>1 DEF Nested, Above
      <3> QED
        BY <3>1, <3>3 DEF Intact, Separate
    <2>17. Ctx(cpu') = KERNEL
      BY <1>1, <2>6, AreaFacts DEF Ctx
    <2>18. Live' = {KERNEL}
      BY <2>13 DEF Live
    <2>19. Tables'
      BY <1>1, <2>2, <2>4, <2>5, <2>7, <2>9, <2>10, <2>17, <2>18, ContextFacts DEF Tables
    <2>20. Child'
      <3>1. cpu'.eip # Code(KERNEL, "task_switch") /\ cpu'.eip # Code(KERNEL, "task_free")
        BY <2>6, CodeFacts
      <3> QED
        BY <2>13, <3>1, NoCall
    <2> QED
      BY <2>4, <2>12, <2>16, <2>19, <2>20 DEF Chained
  <1> QED
    BY <1>3, <1>4, <1>5

\* These steps do not happen again.
LEMMA NoBoot ==
    ASSUME Types, Chained
    PROVE  ~(GdtInit \/ IdtInit \/ TasksInit)
  <1>1. SUFFICES ASSUME NEW b \in {"gdt_init", "idt_init", "tasks_init"}, cpu.eip = Code(KERNEL, b)
                 PROVE  FALSE
    BY DEF GdtInit, IdtInit, TasksInit, At
  <1>2. CASE taken = <<>> /\ MainState(cpu, Stk)
    BY <1>1, <1>2, MainShape, CodeFacts
  <1>3. CASE Last(taken) \in Entries /\ Began(Last(taken)) /\ After(Last(taken), cpu, Stk)
    BY <1>1, <1>3, WhereAfter
  <1> QED
    BY <1>2, <1>3, WhoRuns DEF Chained

---------------------------------------------------------------------------
(* The invariant is inductive.                                             *)

\* These steps neither begin nor end an entry or a call.
LEMMA WithinActivation ==
    ASSUME NEW s \in Slots, NEW n \in Installed,
           \/ Sti \/ Halt \/ NoShell \/ TaskCreate(s) \/ TaskFree
           \/ IsrEnter(n) \/ ExceptionHandler \/ IrqHandler
           \/ SyscallEnter \/ SyscallFunction \/ SyscallExit
           \/ AppStart(s) \/ Syscall(s) \/ SyscallReturns(s) \/ Exit(s)
    PROVE  UNCHANGED taken
  <1>1. CASE Sti \/ Halt \/ NoShell \/ TaskCreate(s) \/ TaskFree
    BY <1>1 DEF Sti, Halt, NoShell, TaskCreate, TaskFree
  <1>2. CASE IsrEnter(n) \/ IrqHandler \/ SyscallEnter \/ SyscallFunction
    BY <1>2 DEF IsrEnter, IrqHandler, SyscallEnter, SyscallFunction
  <1>3. CASE ExceptionHandler
    BY <1>3 DEF ExceptionHandler, Checked
  <1>4. CASE SyscallExit
    BY <1>4 DEF SyscallExit, Checked
  <1>5. CASE AppStart(s) \/ Syscall(s) \/ Exit(s)
    BY <1>5 DEF AppStart, Syscall, Exit
  <1>6. CASE SyscallReturns(s)
    BY <1>6 DEF SyscallReturns, Checked
  <1> QED
    BY <1>1, <1>2, <1>3, <1>4, <1>5, <1>6

\* Every step keeps the invariant, and one that ends an entry or a call resumes
\* what it interrupted.
LEMMA ChainedStep ==
    ASSUME Types, Chained, Next
    PROVE  Types' /\ Chained' /\ (Len(taken') < Len(taken) => Resumes)
  <1>1. Len(taken) \in Nat
    BY LenProperties DEF Types
  <1>2. UNCHANGED taken => ~(Len(taken') < Len(taken))
    BY <1>1
  <1>3. Types' /\ Len(taken') > Len(taken) => ~(Len(taken') < Len(taken))
    <2>1. SUFFICES ASSUME Types', Len(taken') > Len(taken) PROVE ~(Len(taken') < Len(taken))
      OBVIOUS
    <2>2. Len(taken') \in Nat
      BY <2>1, LenProperties DEF Types
    <2> QED
      BY <1>1, <2>1, <2>2
  <1>4. 0 \in Slots /\ 0 \in Installed
    BY ContextFacts DEF Slots, Installed, Exceptions
  <1>5. CASE Booting
    <2>1. Sti \/ Halt \/ NoShell
      BY <1>5, NoBoot DEF Booting
    <2> QED
      BY <1>2, <1>4, <2>1, MainStep, WithinActivation
  <1>6. CASE Executing
    <2>1. CASE \E s \in Slots : TaskCreate(s)
      BY <1>2, <2>1, TaskCreates
    <2>2. CASE TaskSwitch
      BY <1>3, <2>2, TaskSwitches
    <2>3. CASE TaskFree
      BY <1>2, <2>3, TaskFrees
    <2> QED
      BY <1>6, <2>1, <2>2, <2>3 DEF Executing
  <1>7. CASE Handling
    <2>1. CASE \E n \in Installed : IsrEnter(n)
      BY <1>2, <1>4, <2>1, Wrapping, WithinActivation
    <2>2. CASE ExceptionHandler \/ IrqHandler
      BY <1>2, <1>4, <2>2, CHandlers, WithinActivation
    <2>3. CASE IsrExit
      BY <2>3, IsrExits
    <2>4. CASE SyscallEnter \/ SyscallFunction
      BY <1>2, <1>4, <2>4, SyscallSteps, WithinActivation
    <2>5. CASE SyscallExit
      BY <1>2, <1>4, <2>5, SyscallExits, WithinActivation
    <2>6. CASE SyscallIret
      BY <2>6, SyscallIrets
    <2> QED
      BY <1>7, <2>1, <2>2, <2>3, <2>4, <2>5, <2>6 DEF Handling
  <1>8. CASE AppIret
    BY <1>8, AppIrets
  <1>9. ASSUME NEW s \in Slots, AppGoesOn(s) \/ AppChooses(s)
        PROVE  Types' /\ Chained' /\ (Len(taken') < Len(taken) => Resumes)
    <2>1. CASE AppStart(s) \/ Exit(s)
      BY <1>2, <1>4, <2>1, AppStarts, WithinActivation
    <2>2. CASE Syscall(s)
      BY <1>2, <1>4, <2>2, StubCalls, WithinActivation
    <2>3. CASE SyscallReturns(s)
      BY <1>2, <1>4, <2>3, StubReturns, WithinActivation
    <2>4. CASE Int48(s)
      BY <1>3, <2>4, SystemCalls
    <2>5. CASE (\E n \in Faults : Fault(s, n)) \/ (\E n \in SoftInts : SoftInt(s, n))
      BY <1>3, <2>5, AppFaults
    <2> QED
      BY <1>9, <2>1, <2>2, <2>3, <2>4, <2>5 DEF AppGoesOn, AppChooses
  <1>10. CASE \E i \in Irqs : Irq(i)
    BY <1>3, <1>10, Interrupting
  <1> QED
    BY <1>5, <1>6, <1>7, <1>8, <1>9, <1>10 DEF Next, Running

LEMMA StutterStep ==
    ASSUME Inv, UNCHANGED vars
    PROVE  Inv' /\ ~(Len(taken') < Len(taken))
  <1>1. UNCHANGED <<cpu, stack, tr, idtr, gdt, tss, in_use, child, patched, quiet, rejected, taken>>
    BY DEF vars, tables, tasks
  <1>2. Len(taken) \in Nat
    BY LenProperties DEF Inv, Types
  <1>3. Types'
    BY <1>1 DEF Inv, Types
  <1>4. Starting' = Starting
    BY <1>1 DEF Starting, KernelRegs
  <1>5. Stk' = Stk /\ Top' = Top /\ Live' = Live
    BY <1>1 DEF Stk, Top, Last, Live, Called, Callee
  <1>6. /\ \A i, u, w : Above(i, u, w)' = Above(i, u, w)
        /\ \A i : Called(i)' = Called(i) /\ Callee(i)' = Callee(i) /\ Left(i)' = Left(i)
    BY <1>1 DEF Above, Called, Callee, Left
  <1>7. ASSUME Chained PROVE Chained'
    <2>1. Nested'
      BY <1>1, <1>5, <1>6, <1>7 DEF Chained, Nested
    <2>2. Intact'
      BY <1>1, <1>6, <1>7 DEF Chained, Intact, Suspended
    <2>3. Separate'
      BY <1>1, <1>5, <1>6, <1>7 DEF Chained, Separate
    <2>4. Tables'
      BY <1>1, <1>5, <1>7 DEF Chained, Tables
    <2>5. \A s : Ready(s)' = Ready(s)
      BY <1>1, <1>5 DEF Ready
    <2>6. Child'
      BY <1>1, <1>5, <1>7, <2>5 DEF Chained, Child
    <2> QED
      BY <2>1, <2>2, <2>3, <2>4, <2>6 DEF Chained
  <1> QED
    BY <1>1, <1>2, <1>3, <1>4, <1>7 DEF Inv

LEMMA InvStep ==
    ASSUME Inv, [Next]_vars
    PROVE  Inv' /\ (Len(taken') < Len(taken) => Resumes)
  <1>1. CASE UNCHANGED vars
    BY <1>1, StutterStep
  <1>2. CASE Next /\ Chained
    BY <1>2, ChainedStep DEF Inv
  <1>3. CASE Next /\ Starting
    <2>1. GdtInit \/ IdtInit \/ TasksInit
      BY <1>3, BootOnly DEF Inv
    <2>2. Types' /\ (Starting' \/ Chained') /\ taken' = taken
      BY <1>3, <2>1, BootSteps DEF Inv
    <2>3. Len(taken) \in Nat
      BY LenProperties DEF Inv, Types
    <2> QED
      BY <2>2, <2>3 DEF Inv
  <1> QED
    BY <1>1, <1>2, <1>3 DEF Inv

\* The kernel is starting, or its activations form a chain: each was interrupted
\* where its code can be, what it left is intact on its stack or in its TSS, and
\* the descriptors, task links and task slots are those of the chain
\* (kernel_main, idt_asm.s, syscall_asm.s, task_asm.s, task.c:44-127).
THEOREM MachineInvariant == Spec => []Inv
  <1>1. Init => Inv
    BY Initially DEF Inv
  <1>2. Inv /\ [Next]_vars => Inv'
    BY InvStep
  <1> QED
    BY <1>1, <1>2, PTL DEF Spec

\* Whatever an entry or a far call interrupted goes on in the state in which it
\* was left, whatever ran in between: all registers, flags, segments and words
\* on its stack (idt_asm.s:40-86, syscall_asm.s:10-49, task_asm.s:290-296).
THEOREM ResumesWholeCorrect == Spec => ResumesWhole
  <1>1. Inv /\ [Next]_vars =>
            (Len(taken') < Len(taken) =>
                LET was == Last(taken).was
                    free == IF Last(taken).asked[1] = "int" THEN {"eax", "ebx", "ecx", "edx"}
                            ELSE {}
                IN  /\ stack'[cpu'.area] = was.words
                    /\ [cpu' EXCEPT !.gen = was.cpu.gen] = was.cpu
                    /\ \A r \in General \ free : cpu'.gen[r] = was.cpu.gen[r])
    BY InvStep DEF Resumes
  <1> QED
    BY <1>1, MachineInvariant, PTL DEF Spec, ResumesWhole
---------------------------------------------------------------------------
(* What follows from the invariant.                                        *)

\* The kernel's entry, exit and task-switch code never raises a protection
\* fault: every selector, gate, TSS and frame it uses is as its use asks for
\* (idt_asm.s, syscall_asm.s, task_asm.s, task.c:63-85).
THEOREM NoProtectionFaultCorrect == Spec => []NoProtectionFault
  <1>1. Inv => NoProtectionFault
    BY DEF Inv, Starting, Chained, Tables, NoProtectionFault
  <1> QED
    BY <1>1, MachineInvariant, PTL

LEMMA WordKinds ==
    ASSUME NEW w \in Words
    PROVE  w[1] \in {"sel", "val", "num", "esp", "flags", "code"}
  BY DEF Words

LEMMA KnownTypes ==
    ASSUME Inv
    PROVE  TypeOK
  <1>1. Types
    BY DEF Inv
  <1>2. /\ DOMAIN cpu.gen = General /\ cpu.seg \in [Segments -> Selectors]
        /\ cpu.cs \in Selectors /\ cpu.ss \in Selectors
        /\ cpu.iflag \in BOOLEAN /\ cpu.nt \in BOOLEAN /\ cpu.area \in Areas
    <2>1. cpu \in Cpus
      BY <1>1 DEF Types
    <2>2. /\ cpu.gen \in [General -> Words] /\ cpu.seg \in [Segments -> Selectors]
          /\ cpu.cs \in Selectors /\ cpu.ss \in Selectors /\ cpu.area \in Areas
      BY <2>1 DEF Cpus
    <2>3. cpu.iflag \in BOOLEAN /\ cpu.nt \in BOOLEAN
      BY <2>1 DEF Cpus
    <2>4. DOMAIN cpu.gen = General
      BY <2>2
    <2> QED
      BY <2>2, <2>3, <2>4, Zenon
  <1>3. cpu.eip[1] = "code" /\ tr \in {0} \union {Selector(c) : c \in Contexts}
    <2>1. CASE Starting
      BY <2>1, CodeFacts DEF Starting
    <2>2. CASE Chained
      <3>1. Nested /\ Tables
        BY <2>2 DEF Chained
      <3> QED
        BY <1>1, <3>1, Here DEF Tables
    <2> QED
      BY <2>1, <2>2 DEF Inv
  <1>4. ASSUME NEW a \in Areas, NEW i \in 1 .. Len(stack[a])
        PROVE  stack[a][i][1] \in {"sel", "val", "num", "esp", "flags", "code"}
    <2>1. stack[a] \in Seq(Words)
      BY <1>1 DEF Types
    <2>2. stack[a][i] \in Words
      BY <2>1, ElementOfSeq
    <2> QED
      BY <2>2, WordKinds
  <1>5. DOMAIN stack = Areas
    BY <1>1 DEF Types
  <1>6. \A c \in Contexts : tss[c].esp0 \in Areas /\ tss[c].depth \in Nat
    BY <1>1 DEF Types, Tsss
  <1>7. \A code \in patched : code[1] = "code"
    <2>1. patched \subseteq {Code(s, "main") : s \in Slots}
      BY <1>1 DEF Types
    <2> QED
      BY <2>1, CodeFacts
  <1>8. /\ idtr \in BOOLEAN /\ quiet \in BOOLEAN /\ rejected \in BOOLEAN
        /\ \A i \in GdtIndexes : gdt[i].present \in {0, 1}
        /\ in_use \in [Slots -> BOOLEAN] /\ child \in [Contexts -> Contexts]
    BY <1>1 DEF Types
  <1> QED
    BY <1>2, <1>3, <1>4, <1>5, <1>6, <1>7, <1>8, Zenon DEF TypeOK

\* Registers, tables and stacks keep their types: the processor always executes
\* at a code address, and the task register names a TSS of the GDT.
THEOREM TypesCorrect == Spec => []TypeOK
  <1>1. Inv => TypeOK
    BY KnownTypes
  <1> QED
    BY <1>1, MachineInvariant, PTL

\* Where a field of regs_t lies.
LEMMA FieldAt ==
    ASSUME NEW field, NEW k \in 1 .. Len(RegsLayout), RegsLayout[k] = field,
           \A j \in 1 .. Len(RegsLayout) : RegsLayout[j] = field => j = k
    PROVE  regs(field) = Stk[Len(Stk) - k + 1]
  <1>1. PICK n : n = (CHOOSE i \in 1 .. Len(RegsLayout) : RegsLayout[i] = field)
    OBVIOUS
  <1>2. n = k
    BY <1>1
  <1>3. regs(field) = Stk[Len(Stk) - n + 1]
    BY <1>1 DEF regs
  <1> QED
    BY <1>2, <1>3

LEMMA Fields ==
    /\ regs("gs") = Stk[Len(Stk) - 1 + 1] /\ regs("ebx") = Stk[Len(Stk) - 10 + 1]
    /\ regs("number") = Stk[Len(Stk) - 12 + 1] /\ regs("eip") = Stk[Len(Stk) - 14 + 1]
    /\ regs("cs") = Stk[Len(Stk) - 15 + 1] /\ regs("eflags") = Stk[Len(Stk) - 16 + 1]
  <1>1. 1 \in 1 .. Len(RegsLayout) /\ RegsLayout[1] = "gs"
        /\ \A j \in 1 .. Len(RegsLayout) : RegsLayout[j] = "gs" => j = 1
    BY DEF RegsLayout
  <1>2. 10 \in 1 .. Len(RegsLayout) /\ RegsLayout[10] = "ebx"
        /\ \A j \in 1 .. Len(RegsLayout) : RegsLayout[j] = "ebx" => j = 10
    BY DEF RegsLayout
  <1>3. 12 \in 1 .. Len(RegsLayout) /\ RegsLayout[12] = "number"
        /\ \A j \in 1 .. Len(RegsLayout) : RegsLayout[j] = "number" => j = 12
    BY DEF RegsLayout
  <1>4. 14 \in 1 .. Len(RegsLayout) /\ RegsLayout[14] = "eip"
        /\ \A j \in 1 .. Len(RegsLayout) : RegsLayout[j] = "eip" => j = 14
    BY DEF RegsLayout
  <1>5. 15 \in 1 .. Len(RegsLayout) /\ RegsLayout[15] = "cs"
        /\ \A j \in 1 .. Len(RegsLayout) : RegsLayout[j] = "cs" => j = 15
    BY DEF RegsLayout
  <1>6. 16 \in 1 .. Len(RegsLayout) /\ RegsLayout[16] = "eflags"
        /\ \A j \in 1 .. Len(RegsLayout) : RegsLayout[j] = "eflags" => j = 16
    BY DEF RegsLayout
  <1>7. regs("gs") = Stk[Len(Stk) - 1 + 1]
    BY <1>1, FieldAt
  <1>8. regs("ebx") = Stk[Len(Stk) - 10 + 1]
    BY <1>2, FieldAt
  <1>9. regs("number") = Stk[Len(Stk) - 12 + 1]
    BY <1>3, FieldAt
  <1>10. regs("eip") = Stk[Len(Stk) - 14 + 1]
    BY <1>4, FieldAt
  <1>11. regs("cs") = Stk[Len(Stk) - 15 + 1]
    BY <1>5, FieldAt
  <1>12. regs("eflags") = Stk[Len(Stk) - 16 + 1]
    BY <1>6, FieldAt
  <1> QED
    BY <1>7, <1>8, <1>9, <1>10, <1>11, <1>12

\* exception_handler and irq_handler find the interrupted code in regs_t.
LEMMA FrameSeen ==
    ASSUME Types, Nested, NEW l \in {"exception_handler", "irq_handler"},
           cpu.eip = Code(KERNEL, l)
    PROVE  LET asked == Last(taken).asked
               was   == Last(taken).was.cpu
           IN  /\ asked[1] = IF l = "irq_handler" THEN "irq" ELSE "fault"
               /\ regs("number") = Num(asked[2])
               /\ regs("eip") = was.eip /\ regs("cs") = Sel(was.cs)
               /\ regs("eflags") = Flags(was.iflag, was.nt)
               /\ regs("ebx") = was.gen["ebx"] /\ regs("gs") = Sel(was.seg["gs"])
  <1>1. PICK e : e = Last(taken)
    OBVIOUS
  <1>2. /\ e \in Entries /\ Began(e) /\ e.was \in States
        /\ e.asked[1] \in {"irq", "fault"} /\ HandlerState(e, cpu, Stk)
        /\ VectorOf(e.asked) \in Installed \ {SYSCALL} /\ After(e, cpu, Stk)
    BY <1>1, HandlerRuns DEF After
  <1>3. e.asked[1] = IF l = "irq_handler" THEN "irq" ELSE "fault"
    BY <1>2, WhereAfter
  <1>4. Stk = WrapperWords(e.was, VectorOf(e.asked))
    <2>1. cpu.eip # Entry(VectorOf(e.asked))
      BY CodeFacts
    <2> QED
      BY <1>2, <2>1 DEF HandlerState
  <1>5. PICK w : w = WrapperWords(e.was, VectorOf(e.asked))
    OBVIOUS
  <1>6. /\ Len(w) \in Nat
        /\ \A i \in 1 .. 11 : w[Len(w) - i + 1] = WordOf(e.was.cpu, PopOrder[i])
        /\ w[Len(w) - 11] = Num(Number(VectorOf(e.asked)))
        /\ w[Len(w) - 13] = e.was.cpu.eip /\ w[Len(w) - 14] = Sel(e.was.cpu.cs)
        /\ w[Len(w) - 15] = Flags(e.was.cpu.iflag, e.was.cpu.nt)
    BY <1>2, <1>5, WrapperShape
  <1>7. Number(VectorOf(e.asked)) = e.asked[2]
    <2>1. CASE e.asked[1] = "irq"
      <3>1. e.asked[2] \in 0 .. 15 /\ VectorOf(e.asked) = 32 + e.asked[2]
        BY <1>2, <2>1, EntryTypes DEF VectorOf, IRQ_FIRST, IRQ_LAST, IRQ_REMAP_OFFSET
      <3> QED
        BY <3>1 DEF Number, Exceptions, IRQ_REMAP_OFFSET
    <2>2. CASE e.asked[1] = "fault"
      <3>1. e.asked[2] \in Exceptions /\ VectorOf(e.asked) = e.asked[2]
        BY <1>2, <2>2, EntryTypes DEF VectorOf
      <3> QED
        BY <3>1 DEF Number
    <2> QED
      BY <1>2, <2>1, <2>2
  <1>8. w[Len(w) - 1 + 1] = Sel(e.was.cpu.seg["gs"]) /\ w[Len(w) - 10 + 1] = e.was.cpu.gen["ebx"]
    <2>1. PopOrder[1] = "gs" /\ PopOrder[10] = "ebx"
      BY DEF PopOrder
    <2>2. "gs" \in Segments /\ "ebx" \notin Segments
      BY DEF Segments
    <2>3. \A i \in 1 .. 11 : w[Len(w) - i + 1] = WordOf(e.was.cpu, PopOrder[i])
      BY <1>6
    <2>4. /\ w[Len(w) - 1 + 1] = WordOf(e.was.cpu, PopOrder[1])
          /\ w[Len(w) - 10 + 1] = WordOf(e.was.cpu, PopOrder[10])
      <3>1. 1 \in 1 .. 11 /\ 10 \in 1 .. 11
        OBVIOUS
      <3> QED
        BY <2>3, <3>1, Zenon
    <2> QED
      BY <2>1, <2>2, <2>4 DEF WordOf
  <1>9. /\ regs("number") = Num(e.asked[2])
        /\ regs("eip") = e.was.cpu.eip /\ regs("cs") = Sel(e.was.cpu.cs)
        /\ regs("eflags") = Flags(e.was.cpu.iflag, e.was.cpu.nt)
    <2>1. /\ Len(w) - 12 + 1 = Len(w) - 11 /\ Len(w) - 14 + 1 = Len(w) - 13
          /\ Len(w) - 15 + 1 = Len(w) - 14 /\ Len(w) - 16 + 1 = Len(w) - 15
      BY <1>6
    <2> QED
      BY <1>4, <1>5, <1>6, <1>7, <2>1, Fields
  <1> QED
    BY <1>1, <1>3, <1>4, <1>5, <1>8, <1>9, Fields

\* syscall_handler finds its arguments in order.
LEMMA ArgumentsSeen ==
    ASSUME Types, Nested, Tables, cpu.eip = Code(KERNEL, "syscall_handler")
    PROVE  /\ Last(taken).asked = <<"int", SYSCALL>>
           /\ [i \in 1 .. 5 |-> Stk[Len(Stk) - i + 1]] =
              [i \in 1 .. 5 |-> Val(Current, <<"nb", "arg1", "arg2", "arg3", "arg4">>[i])]
  <1>1. PICK e : e = Last(taken)
    OBVIOUS
  <1>2. /\ Began(e) /\ e.asked = <<"int", SYSCALL>> /\ SysState(e.was, cpu, Stk)
        /\ e.was \in States /\ Ctx(cpu) = Ctx(e.was.cpu)
    BY <1>1, SysRuns
  <1>3. Stk = Frame(e.was) \o SyscallWords(e.was.cpu)
    <2>1. cpu.eip # Entry(SYSCALL) /\ cpu.eip # Code(KERNEL, "syscall_iret")
      BY CodeFacts
    <2> QED
      BY <1>2, <2>1 DEF SysState
  <1>4. e.was.cpu \in Cpus
    BY <1>2 DEF States
  <1>5. PICK f, t : f = Frame(e.was) /\ t = SyscallWords(e.was.cpu)
    OBVIOUS
  <1>6. f \in Seq(Words)
    BY <1>2, <1>5, FrameShape
  <1>7. /\ t \in Seq(Words) /\ Len(t) = 9
        /\ t[5] = e.was.cpu.gen["esi"] /\ t[6] = e.was.cpu.gen["edx"]
        /\ t[7] = e.was.cpu.gen["ecx"] /\ t[8] = e.was.cpu.gen["ebx"]
        /\ t[9] = e.was.cpu.gen["eax"]
    BY <1>4, <1>5, SyscallWordsPushed
  <1>8. \A i \in 1 .. 5 : Stk[Len(Stk) - i + 1] = t[10 - i]
    <2>1. \A i \in 1 .. Len(t) : (f \o t)[Len(f \o t) - i + 1] = t[Len(t) - i + 1]
      BY <1>6, <1>7, OnTop
    <2>2. Stk = f \o t
      BY <1>3, <1>5
    <2>3. \A i \in 1 .. 5 : i \in 1 .. Len(t) /\ Len(t) - i + 1 = 10 - i
      BY <1>7
    <2> QED
      BY <2>1, <2>2, <2>3
  <1>9. Asking(Ctx(cpu), e.was.cpu.gen)
    <2>1. e.asked[1] = "int"
      BY <1>2
    <2> QED
      BY <1>2, <2>1 DEF Began
  <1>10. /\ e.was.cpu.gen["eax"] = Val(Ctx(cpu), "nb") /\ e.was.cpu.gen["ebx"] = Val(Ctx(cpu), "arg1")
         /\ e.was.cpu.gen["ecx"] = Val(Ctx(cpu), "arg2") /\ e.was.cpu.gen["edx"] = Val(Ctx(cpu), "arg3")
         /\ e.was.cpu.gen["esi"] = Val(Ctx(cpu), "arg4")
    BY <1>9 DEF Asking, Arguments
  <1>11. Current = Ctx(cpu)
    BY Here
  <1>12. ASSUME NEW i \in 1 .. 5
         PROVE  t[10 - i] = Val(Current, <<"nb", "arg1", "arg2", "arg3", "arg4">>[i])
    <2>1. i = 1 \/ i = 2 \/ i = 3 \/ i = 4 \/ i = 5
      OBVIOUS
    <2> QED
      BY <1>7, <1>10, <1>11, <2>1
  <1> QED
    BY <1>1, <1>2, <1>8, <1>12

\* The C handlers find in regs_t and in their arguments what was interrupted and
\* what was asked, with or without an error code (idt.c:44-50, syscall.c:115-124,
\* syscall_asm.s:28-32).
THEOREM HandlerSeesCorrect == Spec => []HandlerSees
  <1>1. ASSUME Inv PROVE HandlerSees
    <2>1. CASE Starting
      <3>1. \E l \in {"gdt_init", "idt_init", "tasks_init"} : cpu.eip = Code(KERNEL, l)
        BY <2>1 DEF Starting
      <3>2. \A l \in {"exception_handler", "irq_handler", "syscall_handler"} :
                cpu.eip # Code(KERNEL, l)
        BY <3>1, CodeFacts
      <3> QED
        BY <3>2 DEF HandlerSees, At
    <2>2. CASE Chained
      <3>1. Types /\ Nested /\ Tables
        BY <1>1, <2>2 DEF Inv, Chained
      <3>2. At(KERNEL, "exception_handler") => cpu.eip = Code(KERNEL, "exception_handler")
        BY DEF At
      <3>3. At(KERNEL, "irq_handler") => cpu.eip = Code(KERNEL, "irq_handler")
        BY DEF At
      <3>4. At(KERNEL, "syscall_handler") => cpu.eip = Code(KERNEL, "syscall_handler")
        BY DEF At
      <3> QED
        BY <3>1, <3>2, <3>3, <3>4, FrameSeen, ArgumentsSeen DEF HandlerSees
    <2> QED
      BY <1>1, <2>1, <2>2 DEF Inv
  <1> QED
    BY <1>1, MachineInvariant, PTL

\* C code runs with the kernel's segments.
LEMMA FlatInC ==
    ASSUME Types, Nested, Tables, KernelShape(cpu), cpu.eip[3] \in CLabels
    PROVE  cpu.seg = KernelSegments
  <1>1. Above(Len(taken), cpu, Stk) /\ Len(taken) \in Nat
    BY LenProperties DEF Nested, Types
  <1>2. CASE Len(taken) = 0
    BY <1>1, <1>2 DEF Above, MainState
  <1>3. CASE Len(taken) # 0
    <2>1. PICK e : e = taken[Len(taken)]
      OBVIOUS
    <2>2. Len(taken) \in 1 .. Len(taken)
      BY <1>1, <1>3
    <2>3. e \in Entries /\ Began(e) /\ After(e, cpu, Stk)
      <3>1. e \in Entries
        BY <2>1, <2>2, ElementOfSeq DEF Types
      <3>2. Began(e)
        BY <2>1, <2>2 DEF Nested
      <3>3. After(e, cpu, Stk)
        BY <1>1, <1>3, <2>1 DEF Above
      <3> QED
        BY <3>1, <3>2, <3>3
    <2>4. \A n : cpu.eip # Entry(n)
      BY CodeFacts DEF CLabels
    <2>5. \A l \in {"syscall_exit", "syscall_iret", "exception_exit", "irq_exit"} :
              cpu.eip # Code(KERNEL, l)
      BY CodeFacts DEF CLabels
    <2>6. CASE e.asked[1] = "call"
      <3>1. e.asked[2] \in Slots /\ UserState(e.asked[2], cpu, Stk)
        BY <2>3, <2>6, EntryTypes DEF After
      <3> QED
        BY <3>1, UserShape DEF KernelShape
    <2>7. CASE e.asked[1] = "int"
      BY <2>3, <2>4, <2>5, <2>7 DEF After, SysState
    <2>8. CASE e.asked[1] \in {"irq", "fault"}
      <3>1. HandlerState(e, cpu, Stk)
        BY <2>3, <2>8 DEF After
      <3>2. cpu.eip # Code(KERNEL, ExitLabel(e.asked))
        BY <2>5 DEF ExitLabel
      <3> QED
        BY <2>4, <3>1, <3>2 DEF HandlerState
    <2> QED
      BY <2>3, <2>6, <2>7, <2>8, EntryTypes
  <1> QED
    BY <1>2, <1>3

LEMMA EnvironmentHolds ==
    ASSUME Inv
    PROVE  Environment
  <1>1. CASE Starting
    <2>1. \E l \in {"gdt_init", "idt_init", "tasks_init"} : cpu.eip = Code(KERNEL, l)
      BY <1>1 DEF Starting
    <2> QED
      BY <1>1, <2>1 DEF Starting, Environment
  <1>2. CASE Chained
    <2>1. Types /\ Nested /\ Tables
      BY <1>2 DEF Inv, Chained
    <2>2. /\ Current = Ctx(cpu) /\ Ctx(cpu) \in Contexts /\ Ctx(cpu) \in Live
          /\ \/ KernelShape(cpu) /\ Cpl = 0
             \/ Ctx(cpu) \in Slots /\ UserState(Ctx(cpu), cpu, Stk) /\ Cpl = 3
      BY <2>1, Here
    <2>3. /\ DataOk(GDT_KERNEL_DATA_SELECTOR, 0)
          /\ \A x \in {GDT_KERNEL_CODE_SELECTOR, GDT_KERNEL_DATA_SELECTOR, GDT_USER_CODE_SELECTOR} :
                 Flat(gdt[Index(x)])
      BY <2>1, SegmentsLoadable DEF Tables
    <2>4. CASE KernelShape(cpu) /\ Cpl = 0
      <3>1. cpu.eip[2] = KERNEL /\ cpu.cs = GDT_KERNEL_CODE_SELECTOR /\ cpu.area = KernelStack(Current)
        BY <2>2, <2>4 DEF KernelShape, KernelRegs
      <3>2. cpu.eip[3] \in CLabels => \A r \in Segments : cpu.seg[r] = GDT_KERNEL_DATA_SELECTOR
        BY <2>1, <2>4, FlatInC DEF KernelSegments
      <3>3. GDT_KERNEL_DATA_SELECTOR # 0
        BY DEF GDT_KERNEL_DATA_SELECTOR, DPL_KERNEL
      <3>4. cpu.eip[3] \in CLabels =>
                \A r \in Segments : cpu.seg[r] # 0 /\ DataOk(cpu.seg[r], 0)
                                    /\ Flat(gdt[Index(cpu.seg[r])])
        BY <2>3, <3>2, <3>3
      <3>5. Flat(gdt[Index(cpu.cs)])
        BY <2>3, <3>1
      <3> QED
        BY <2>4, <3>1, <3>4, <3>5 DEF Environment, KernelStack
    <2>5. CASE Ctx(cpu) \in Slots /\ UserState(Ctx(cpu), cpu, Stk) /\ Cpl = 3
      <3>1. UserRegs(cpu) /\ cpu.area = User(Ctx(cpu)) /\ cpu.eip[2] = Ctx(cpu)
        BY <2>5, UserShape
      <3>2. in_use[Ctx(cpu)]
        BY <2>1, <2>2, <2>5 DEF Tables
      <3>3. Flat(gdt[Index(cpu.cs)])
        BY <2>3, <3>1 DEF UserRegs
      <3>4. cpu.eip[3] = "main" => \A r \in General \ {"eax"} : cpu.gen[r] = Val(Ctx(cpu), r)
        BY <2>5, CodeFacts DEF UserState
      <3>5. \A r \in Segments \ {"fs"} : cpu.seg[r] = GDT_USER_DATA_SELECTOR
        BY <3>1 DEF UserRegs, UserSegments
      <3>6. cpu.iflag /\ cpu.nt
        BY <3>1 DEF UserRegs
      <3> QED
        BY <2>2, <2>5, <3>1, <3>2, <3>3, <3>4, <3>5, <3>6 DEF Environment
    <2> QED
      BY <2>2, <2>4, <2>5
  <1> QED
    BY <1>1, <1>2 DEF Inv

\* Kernel code runs at privilege 0 on the stack of the current context, C code
\* with flat segments; an application at privilege 3 in its own TSS, with
\* interrupts enabled and NT set (task.c:77-85).
THEOREM EnvironmentCorrect == Spec => []Environment
  <1>1. Inv => Environment
    BY EnvironmentHolds
  <1> QED
    BY <1>1, MachineInvariant, PTL
=============================================================================
