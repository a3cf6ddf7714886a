----------------------------- MODULE TasksProof -----------------------------
(***************************************************************************)
(* Proofs about Tasks, for any number of slots, frames, pages and modules: *)
(* the chain of calls, where the kernel keeps its data, and that task_exec *)
(* is a nested procedure call, so that Tasks implements ExecStack.         *)
(***************************************************************************)
EXTENDS Tasks, TLAPS, Sequences, FiniteSetTheorems, WellFoundedInduction

---------------------------------------------------------------------------
(* The inductive invariant.                                                *)

HoldPcs == ExecPcs \ {"load"}

\* A context inside task_exec with a task of its own: the module exists, the
\* slot is a slot, and paging_alloc has a page left to map.
Loading ==
    \A c \in Contexts :
        /\ pc[c] \in HoldPcs => prog[c] \in Modules /\ child[c] \in Slots
        /\ pc[c] = "alloc" => page[c] < Pages[prog[c]]

\* Every context but the running one waits in task_exec or is not active, and
\* the task a context waits for is busy.
OneRuns ==
    /\ \A c \in Contexts : c # tr => pc[c] \in {"wait", "idle"}
    /\ \A c \in Contexts : pc[c] = "wait" => busy[child[c]]

ControlInv == TypeOK /\ CallChain /\ SlotsAccounted /\ Loading /\ OneRuns

LEMMA ConstantFacts ==
    /\ KERNEL \in Contexts /\ KERNEL \notin Slots
    /\ NoTask \notin Contexts
    /\ Slots \subseteq Contexts /\ 0 \in Slots
    /\ BadFrame \notin Frames /\ 0 \in Reserved /\ Reserved \subseteq Frames
    /\ 0 \in PteIdx /\ PteIdx \subseteq Nat /\ PdeIdx \subseteq Nat
    /\ Frames \subseteq Nat
BY SizesAssumption DEF KERNEL, NoTask, BadFrame, Slots, Contexts, Frames, Reserved, PteIdx, PdeIdx

LEMMA InitControl == Init => ControlInv
<1> SUFFICES ASSUME Init PROVE ControlInv
    OBVIOUS
<1> USE ConstantFacts
<1>1. TypeOK
    BY ModulesAssumption, SizesAssumption
    DEF Init, TypeOK, ZeroFrame, NoEntry, NoTables, EntryType, TableType, Frames, Reserved, PcValues, ExecPcs
<1>2. CallChain
    BY DEF Init, CallChain, Contexts
<1>3. SlotsAccounted
    BY DEF Init, SlotsAccounted, Holds, ExecPcs
<1>4. Loading /\ OneRuns
    BY DEF Init, Loading, OneRuns, HoldPcs, ExecPcs
<1>5. QED
    BY <1>1, <1>2, <1>3, <1>4 DEF ControlInv

---------------------------------------------------------------------------
(* Types.                                                                  *)

LEMMA AllocatedType ==
    ASSUME TypeOK, NEW F, F \subseteq Frames \union {BadFrame}
    PROVE  Allocated(F) \subseteq Frames
BY DEF Allocated, TypeOK

LEMMA MappedType ==
    ASSUME TypeOK, NEW F, NEW t, NEW i \in PteIdx,
           NEW f \in Frames \union {BadFrame}
    PROVE  Mapped(F, t, i, f) \in [Frames -> [PteIdx -> EntryType]]
<1>1. ZeroFrame \in [PteIdx -> EntryType]
    BY SizesAssumption DEF ZeroFrame, NoEntry, EntryType
<1>2. [frame |-> f, present |-> TRUE] \in EntryType
    BY DEF EntryType, Frames
<1>3. QED
    BY <1>1, <1>2 DEF Mapped, TypeOK

LEMMA ClearedType ==
    ASSUME TypeOK, NEW s \in Slots
    PROVE  ClearedTables(s) \in [Frames -> [PteIdx -> EntryType]]
<1>1. \A e \in EntryType : [e EXCEPT !.present = FALSE] \in EntryType
    BY DEF EntryType
<1>2. QED
    BY <1>1, ConstantFacts DEF ClearedTables, TypeOK

LEMMA PageIndex ==
    ASSUME TypeOK, Loading, NEW c \in Contexts, pc[c] = "alloc"
    PROVE  /\ child[c] \in Slots
           /\ prog[c] \in Modules
           /\ page[c] \div PAGES_IN_PT \in PdeIdx
           /\ page[c] % PAGES_IN_PT \in PteIdx
<1>1. prog[c] \in Modules /\ child[c] \in Slots /\ page[c] < Pages[prog[c]]
    BY DEF Loading, HoldPcs, ExecPcs
<1>2. page[c] \in 0 .. Pages[prog[c]] - 1
    BY <1>1, ModulesAssumption DEF TypeOK
<1>3. page[c] % PAGES_IN_PT \in 0 .. PAGES_IN_PT - 1
    BY SizesAssumption DEF TypeOK
<1>4. QED
    BY <1>1, <1>2, <1>3, ModulesAssumption DEF PteIdx

\* The steps of the exception handler that return to the application, and the
\* instruction that faults again.
Handled(c) ==
    \/ ExceptionHandler(c) \/ ExceptionHandlerInLostPage(c)
    \/ ExceptionHandlerInKernelPage(c) \/ FaultAgain(c)
HandledPcs == {"patched", "unpatched", "resumed", "fault_lost", "fault_kernel"}

LEMMA HandledStep ==
    ASSUME NEW c \in Contexts, Handled(c)
    PROVE  /\ Running(c) /\ pc[c] \in FaultPcs \union {"unpatched", "resumed"}
           /\ \E x \in HandledPcs : pc' = [pc EXCEPT ![c] = x]
           /\ sys' \in {"up", "corrupt"}
           /\ UNCHANGED <<memory, slots, cpu, locals, colors>>
<1>1. CASE ExceptionHandler(c)
    BY <1>1 DEF ExceptionHandler, Running, HandledPcs, FaultPcs
<1>2. CASE ExceptionHandlerInLostPage(c)
    BY <1>2 DEF ExceptionHandlerInLostPage, Running, HandledPcs, FaultPcs
<1>3. CASE ExceptionHandlerInKernelPage(c)
    BY <1>3 DEF ExceptionHandlerInKernelPage, Running, HandledPcs, FaultPcs
<1>4. CASE FaultAgain(c)
    BY <1>4 DEF FaultAgain, Running, HandledPcs, FaultPcs
<1>5. QED
    BY <1>1, <1>2, <1>3, <1>4 DEF Handled

LEMMA ExecReturnsType ==
    ASSUME TypeOK, NEW c \in Contexts, ExecReturns(c)
    PROVE  pc' \in [Contexts -> PcValues] /\ sys' \in {"up", "halted", "panic", "wild", "corrupt"}
BY DEF TypeOK, ExecReturns, PcValues

LEMMA TypeStep == ControlInv /\ [Next]_vars => TypeOK'
<1> SUFFICES ASSUME ControlInv, [Next]_vars PROVE TypeOK'
    OBVIOUS
<1> USE ConstantFacts
<1>0. TypeOK /\ CallChain /\ Loading
    BY DEF ControlInv
<1>1. ASSUME NEW c \in Contexts, NEW n \in Names, Exec(c, n) PROVE TypeOK'
    BY <1>0, <1>1 DEF TypeOK, Exec, memory, slots, cpu, PcValues, ExecPcs
<1>2. ASSUME NEW c \in Contexts, NEW col \in Colors, SetColors(c, col) PROVE TypeOK'
    BY <1>0, <1>2 DEF TypeOK, SetColors, memory, slots, cpu, locals
<1>3. ASSUME NEW c \in Contexts, NEW where \in FaultPcs, Fault(c, where) PROVE TypeOK'
    BY <1>0, <1>3 DEF TypeOK, Fault, memory, slots, cpu, locals, PcValues
<1>4. ASSUME NEW c \in Slots, c = tr, TaskReturn(c) PROVE TypeOK'
    <2>1. link[c] \in Contexts
        BY <1>0, <1>4 DEF CallChain
    <2>2. QED
        BY <1>0, <1>4, <2>1 DEF TypeOK, TaskReturn, memory, slots, locals, PcValues, ExecPcs
<1>5. ASSUME NEW c \in Contexts, TaskLoadFails(c) PROVE TypeOK'
    BY <1>0, <1>5, ExecReturnsType DEF TypeOK, TaskLoadFails, memory, slots, cpu, locals
<1>6. ASSUME NEW c \in Contexts, TaskCreate(c) PROVE TypeOK'
    <2>1. NoTables \in TableType
        BY SizesAssumption DEF NoTables, TableType, Frames
    <2>2. PICK s \in Slots :
            /\ in_use' = [in_use EXCEPT ![s] = TRUE]
            /\ pagedir' = [pagedir EXCEPT ![s] = NoTables]
            /\ page_tables' = [page_tables EXCEPT ![s] = NoTables]
            /\ busy' = [busy EXCEPT ![s] = FALSE]
            /\ link' = [link EXCEPT ![s] = NoTask]
            /\ child' = [child EXCEPT ![c] = s]
        BY <1>6 DEF TaskCreate
    <2>3. QED
        BY <1>0, <1>6, <2>1, <2>2 DEF TypeOK, TaskCreate, memory, PcValues, ExecPcs
<1>7. ASSUME NEW c \in Contexts, PagingAlloc(c) PROVE TypeOK'
    <2> DEFINE t == pagedir[child[c]][page[c] \div PAGES_IN_PT]
    <2> DEFINE i == page[c] % PAGES_IN_PT
    <2>1. PICK f \in Frames \union {BadFrame} :
            /\ bitmap' = Allocated({f})
            /\ pte' = Mapped({f}, t, i, f)
            /\ image' = ZeroedImage({f})
        BY <1>7 DEF PagingAlloc
    <2>2. pte' \in [Frames -> [PteIdx -> EntryType]]
        BY <1>0, <1>7, <2>1, PageIndex, MappedType DEF PagingAlloc
    <2>3. bitmap' \subseteq Frames
        BY <1>0, <2>1, AllocatedType
    <2>4. image' \in [Frames -> Modules \union {NoImage}]
        BY <1>0, <2>1 DEF ZeroedImage, TypeOK
    <2>5. page' \in [Contexts -> Nat] /\ pc' \in [Contexts -> PcValues]
        BY <1>0, <1>7 DEF PagingAlloc, NextPage, TypeOK, PcValues, ExecPcs
    <2>6. QED
        BY <1>0, <1>7, <2>2, <2>3, <2>4, <2>5 DEF TypeOK, PagingAlloc, slots, cpu
<1>8. ASSUME NEW c \in Contexts, PagingAllocTable(c) PROVE TypeOK'
    <2> DEFINE j == page[c] \div PAGES_IN_PT
    <2> DEFINE i == page[c] % PAGES_IN_PT
    <2>1. PICK f \in Frames, t \in Frames :
            /\ bitmap' = Allocated({f, t})
            /\ pte' = Mapped({f, t}, t, i, f)
            /\ image' = ZeroedImage({f, t})
            /\ pagedir' = [pagedir EXCEPT ![child[c]][j] = t]
            /\ page_tables' = [page_tables EXCEPT ![child[c]][j] = t]
        BY <1>8 DEF PagingAllocTable
    <2>2. pte' \in [Frames -> [PteIdx -> EntryType]]
        BY <1>0, <1>8, <2>1, PageIndex, MappedType DEF PagingAllocTable
    <2>3. bitmap' \subseteq Frames
        BY <1>0, <2>1, AllocatedType
    <2>4. image' \in [Frames -> Modules \union {NoImage}]
        BY <1>0, <2>1 DEF ZeroedImage, TypeOK
    <2>5. page' \in [Contexts -> Nat] /\ pc' \in [Contexts -> PcValues]
        BY <1>0, <1>8 DEF PagingAllocTable, NextPage, TypeOK, PcValues, ExecPcs
    <2>6. pagedir' \in [Slots -> TableType] /\ page_tables' \in [Slots -> TableType]
        BY <1>0, <2>1 DEF TypeOK, TableType
    <2>7. QED
        BY <1>0, <1>8, <2>2, <2>3, <2>4, <2>5, <2>6 DEF TypeOK, PagingAllocTable, cpu
<1>9. ASSUME NEW c \in Contexts, PagingAllocFails(c) PROVE TypeOK'
    <2> DEFINE j == page[c] \div PAGES_IN_PT
    <2>1. PICK f \in Frames \union {BadFrame} :
            /\ bitmap' = Allocated({f})
            /\ image' = ZeroedImage({f})
            /\ pte' = [g \in Frames |-> IF g = f THEN ZeroFrame ELSE pte[g]]
        BY <1>9 DEF PagingAllocFails
    <2>2. ZeroFrame \in [PteIdx -> EntryType]
        BY SizesAssumption DEF ZeroFrame, NoEntry, EntryType
    <2>3. bitmap' \subseteq Frames
        BY <1>0, <2>1, AllocatedType
    <2>4. image' \in [Frames -> Modules \union {NoImage}]
        BY <1>0, <2>1 DEF ZeroedImage, TypeOK
    <2>5. pagedir' \in [Slots -> TableType]
        BY <1>0, <1>9 DEF PagingAllocFails, TypeOK, TableType
    <2>6. sys' \in {"up", "halted", "panic", "wild", "corrupt"}
        BY <1>9 DEF PagingAllocFails, KernelException
    <2>7. QED
        BY <1>0, <1>9, <2>1, <2>2, <2>3, <2>4, <2>5, <2>6
        DEF TypeOK, PagingAllocFails, cpu, locals
<1>10. ASSUME NEW c \in Contexts, CopyImage(c) PROVE TypeOK'
    <2>1. prog[c] \in Modules /\ child[c] \in Slots
        BY <1>0, <1>10 DEF CopyImage, Loading, HoldPcs, ExecPcs
    <2>2. QED
        BY <1>0, <1>10, <2>1 DEF TypeOK, CopyImage, slots, PcValues, ExecPcs
<1>11. ASSUME NEW c \in Contexts, RestorePagedir(c) PROVE TypeOK'
    BY <1>0, <1>11 DEF TypeOK, RestorePagedir, memory, slots, locals, PcValues, ExecPcs
<1>12. ASSUME NEW c \in Contexts, TaskSwitch(c) PROVE TypeOK'
    <2>1. child[c] \in Slots
        BY <1>0, <1>12 DEF TaskSwitch, Loading, HoldPcs, ExecPcs
    <2>2. QED
        BY <1>0, <1>12, <2>1 DEF TypeOK, TaskSwitch, memory, slots, PcValues, ExecPcs
<1>13. ASSUME NEW c \in Contexts, TaskFree(c) PROVE TypeOK'
    <2>1. child[c] \in Slots
        BY <1>0, <1>13 DEF TaskFree, Loading, HoldPcs, ExecPcs
    <2>2. pte' \in [Frames -> [PteIdx -> EntryType]]
        BY <1>0, <1>13, <2>1, ClearedType DEF TaskFree
    <2>3. QED
        BY <1>0, <1>13, <2>1, <2>2, ExecReturnsType DEF TypeOK, TaskFree, cpu, locals
<1>14. ASSUME NEW c \in Contexts, Handled(c) PROVE TypeOK'
    <2>1. PICK x \in HandledPcs : pc' = [pc EXCEPT ![c] = x]
        BY <1>14, HandledStep
    <2>2. sys' \in {"up", "corrupt"} /\ UNCHANGED <<memory, slots, cpu, locals, colors>>
        BY <1>14, HandledStep
    <2>3. x \in PcValues
        BY DEF HandledPcs, PcValues, FaultPcs
    <2>4. QED
        BY <1>0, <2>1, <2>2, <2>3 DEF TypeOK, memory, slots, cpu, locals
<1>15. ASSUME NEW c \in Contexts, ExceptionHandlerFaults(c) PROVE TypeOK'
    BY <1>0, <1>15
    DEF TypeOK, ExceptionHandlerFaults, KernelException, memory, slots, cpu, locals
<1>16. CASE UNCHANGED vars
    BY <1>0, <1>16 DEF TypeOK, vars, memory, slots, cpu, locals
<1>17. QED
    BY <1>1, <1>2, <1>3, <1>4, <1>5, <1>6, <1>7, <1>8, <1>9, <1>10, <1>11, <1>12,
       <1>13, <1>14, <1>15, <1>16
    DEF Next, UserStep, KernelStep, Handled, Exit, PatchedIret, Stopped, Running

---------------------------------------------------------------------------
(* Control: the chain of calls and the slots.                              *)

ControlFlow == CallChain /\ SlotsAccounted /\ OneRuns

\* A step of the running context that neither creates, calls, ends nor frees a
\* task leaves the chain of calls and the slots as they were.
LEMMA QuietStep ==
    ASSUME ControlInv, NEW c \in Contexts, c = tr, NEW x \in PcValues,
           pc' = [pc EXCEPT ![c] = x], pc[c] # "wait", x # "wait",
           pc[c] \in HoldPcs <=> x \in HoldPcs,
           UNCHANGED <<in_use, busy, link, tr, child>>
    PROVE  ControlFlow'
<1> USE ConstantFacts
<1>1. CallChain'
    BY DEF ControlInv, TypeOK, CallChain
<1>2. \A d \in Contexts, s \in Slots : Holds(d, s)' <=> Holds(d, s)
    BY DEF ControlInv, TypeOK, Holds, HoldPcs
<1>3. SlotsAccounted'
    BY <1>2 DEF ControlInv, SlotsAccounted
<1>4. OneRuns'
    BY DEF ControlInv, TypeOK, OneRuns
<1>5. QED
    BY <1>1, <1>3, <1>4 DEF ControlFlow

LEMMA CreateControl ==
    ASSUME ControlInv, NEW c \in Contexts, TaskCreate(c)
    PROVE  ControlFlow'
<1> USE ConstantFacts
<1>1. PICK s \in Slots :
        /\ ~in_use[s]
        /\ in_use' = [in_use EXCEPT ![s] = TRUE]
        /\ busy' = [busy EXCEPT ![s] = FALSE]
        /\ link' = [link EXCEPT ![s] = NoTask]
        /\ child' = [child EXCEPT ![c] = s]
    BY DEF TaskCreate
<1>2. c = tr /\ tr' = tr /\ pc[c] = "load" /\ pc' = [pc EXCEPT ![c] = "alloc"]
    BY DEF TaskCreate, Running
<1>3. ~busy[s] /\ s # c /\ pc[s] # "wait"
    \* a busy slot has a context that waits for it, and so is in use
    <2>1. ~\E d \in Contexts : Holds(d, s)
        BY <1>1 DEF ControlInv, SlotsAccounted
    <2>2. ~busy[s]
        BY <2>1 DEF ControlInv, CallChain, Holds, ExecPcs
    <2>3. QED
        BY <1>2, <2>2 DEF ControlInv, CallChain
<1>4. CallChain'
    BY <1>1, <1>2, <1>3 DEF ControlInv, TypeOK, CallChain
<1>5. SlotsAccounted'
    <2>1. ~\E d \in Contexts : Holds(d, s)
        BY <1>1 DEF ControlInv, SlotsAccounted
    <2>2. Holds(c, s)' /\ \A r \in Slots : ~Holds(c, r)
        BY <1>1, <1>2 DEF ControlInv, TypeOK, Holds, ExecPcs
    <2>3. \A d \in Contexts \ {c}, r \in Slots : Holds(d, r)' <=> Holds(d, r)
        BY <1>1, <1>2 DEF ControlInv, TypeOK, Holds
    <2>4. \A r \in Slots : Holds(c, r)' => r = s
        BY <1>1 DEF ControlInv, TypeOK, Holds
    <2>5. ControlInv => SlotsAccounted /\ in_use \in [Slots -> BOOLEAN]
        BY DEF ControlInv, TypeOK
    <2>6. \A r \in Slots : in_use'[r] <=> \E d \in Contexts : Holds(d, r)'
        BY <1>1, <2>2, <2>3, <2>4, <2>5 DEF SlotsAccounted
    <2>7. \A r \in Slots, d, e \in Contexts : Holds(d, r)' /\ Holds(e, r)' => d = e
        BY <2>1, <2>2, <2>3, <2>4, <2>5 DEF SlotsAccounted
    <2>8. QED
        BY <2>6, <2>7 DEF SlotsAccounted
<1>6. OneRuns'
    BY <1>1, <1>2, <1>3 DEF ControlInv, TypeOK, OneRuns, CallChain, SlotsAccounted, Holds, ExecPcs
<1>7. QED
    BY <1>4, <1>5, <1>6 DEF ControlFlow

LEMMA SwitchControl ==
    ASSUME ControlInv, NEW c \in Contexts, TaskSwitch(c)
    PROVE  ControlFlow'
<1> USE ConstantFacts
<1> DEFINE s == child[c]
<1>1. s \in Slots /\ c = tr /\ pc[c] = "switch" /\ ~busy[s]
    BY DEF TaskSwitch, Running, ControlInv, Loading, HoldPcs, ExecPcs
<1>2. /\ busy' = [busy EXCEPT ![s] = TRUE]
      /\ link' = [link EXCEPT ![s] = c]
      /\ tr' = s
      /\ pc' = [pc EXCEPT ![c] = "wait", ![s] = "user"]
      /\ UNCHANGED <<in_use, child>>
    BY DEF TaskSwitch, slots
<1>3. s # c /\ pc[s] = "idle"
    BY <1>1 DEF ControlInv, CallChain, OneRuns
<1>4. CallChain'
    BY <1>1, <1>2, <1>3 DEF ControlInv, TypeOK, CallChain
<1>5. \A d \in Contexts, r \in Slots : Holds(d, r)' <=> Holds(d, r)
    BY <1>1, <1>2, <1>3 DEF ControlInv, TypeOK, Holds, ExecPcs
<1>6. SlotsAccounted'
    BY <1>2, <1>5 DEF ControlInv, SlotsAccounted
<1>7. OneRuns'
    BY <1>1, <1>2, <1>3, SMTT(40) DEF ControlInv, TypeOK, OneRuns
<1>8. QED
    BY <1>4, <1>6, <1>7 DEF ControlFlow

LEMMA ReturnControl ==
    ASSUME ControlInv, NEW c \in Slots, c = tr, pc[c] \in {"user", "patched"}, TaskReturn(c)
    PROVE  ControlFlow'
<1> USE ConstantFacts
<1> DEFINE d == link[c]
<1>1. busy[c] /\ d \in Contexts /\ pc[d] = "wait" /\ child[d] = c /\ d # c
    BY DEF ControlInv, CallChain
<1>2. /\ busy' = [busy EXCEPT ![c] = FALSE]
      /\ tr' = d
      /\ pc' = [pc EXCEPT ![c] = "idle", ![d] = "free"]
      /\ UNCHANGED <<in_use, link, child>>
    BY DEF TaskReturn, slots, locals
<1>3. CallChain'
    BY <1>1, <1>2 DEF ControlInv, TypeOK, CallChain
<1>4. \A e \in Contexts, r \in Slots : Holds(e, r)' <=> Holds(e, r)
    BY <1>1, <1>2 DEF ControlInv, TypeOK, Holds, ExecPcs
<1>5. SlotsAccounted'
    BY <1>2, <1>4 DEF ControlInv, SlotsAccounted
<1>6. OneRuns'
    <2>1. \A e \in Contexts : pc'[e] = "wait" => busy'[child'[e]]
        <3> SUFFICES ASSUME NEW e \in Contexts, pc'[e] = "wait" PROVE busy'[child'[e]]
            OBVIOUS
        <3>1. e # c /\ e # d /\ pc[e] = "wait"
            BY <1>1, <1>2 DEF ControlInv, TypeOK
        <3>2. child[e] \in Slots /\ busy[child[e]]
            BY <3>1 DEF ControlInv, OneRuns, Loading, HoldPcs, ExecPcs
        <3>3. Holds(e, child[e]) /\ Holds(d, c)
            BY <3>1, <1>1 DEF Holds, ExecPcs
        <3>4. child[e] # c
            BY <1>1, <3>1, <3>3 DEF ControlInv, SlotsAccounted
        <3>5. QED
            BY <1>2, <3>2, <3>4 DEF ControlInv, TypeOK
    <2>2. \A e \in Contexts : e # tr' => pc'[e] \in {"wait", "idle"}
        BY <1>1, <1>2 DEF ControlInv, TypeOK, OneRuns
    <2>3. QED
        BY <2>1, <2>2 DEF OneRuns
<1>7. QED
    BY <1>3, <1>5, <1>6 DEF ControlFlow

LEMMA FreeControl ==
    ASSUME ControlInv, NEW c \in Contexts, TaskFree(c)
    PROVE  ControlFlow'
<1> USE ConstantFacts
<1> DEFINE s == child[c]
<1>1. s \in Slots /\ c = tr /\ pc[c] = "free" /\ Holds(c, s)
    BY DEF TaskFree, Running, ControlInv, Loading, HoldPcs, Holds, ExecPcs
<1>2. PICK x \in {"idle", "user"} : pc' = [pc EXCEPT ![c] = x]
    BY DEF TaskFree, ExecReturns
<1>3. in_use' = [in_use EXCEPT ![s] = FALSE] /\ UNCHANGED <<busy, link, tr, child>>
    BY DEF TaskFree, cpu, locals
<1>4. CallChain'
    BY <1>1, <1>2, <1>3 DEF ControlInv, TypeOK, CallChain
<1>5. SlotsAccounted'
    <2>1. \A d \in Contexts \ {c}, r \in Slots : Holds(d, r)' <=> Holds(d, r)
        BY <1>2, <1>3 DEF ControlInv, TypeOK, Holds
    <2>2. \A r \in Slots : ~Holds(c, r)'
        BY <1>2 DEF ControlInv, TypeOK, Holds, ExecPcs
    <2>3. \A r \in Slots : Holds(c, r) => r = s
        BY DEF Holds
    <2>4. \A d \in Contexts : Holds(d, s) => d = c
        BY <1>1 DEF ControlInv, SlotsAccounted
    <2>5. SlotsAccounted /\ in_use \in [Slots -> BOOLEAN]
        BY DEF ControlInv, TypeOK
    <2>6. \A r \in Slots : in_use'[r] <=> \E d \in Contexts : Holds(d, r)'
        BY <1>1, <1>3, <2>1, <2>2, <2>3, <2>4, <2>5 DEF SlotsAccounted
    <2>7. \A r \in Slots, d, e \in Contexts : Holds(d, r)' /\ Holds(e, r)' => d = e
        BY <2>1, <2>2, <2>5 DEF SlotsAccounted
    <2>8. QED
        BY <2>6, <2>7 DEF SlotsAccounted
<1>6. OneRuns'
    BY <1>1, <1>2, <1>3 DEF ControlInv, TypeOK, OneRuns
<1>7. QED
    BY <1>4, <1>5, <1>6 DEF ControlFlow

LEMMA ControlFlowStep == ControlInv /\ [Next]_vars => ControlFlow'
<1> SUFFICES ASSUME ControlInv, [Next]_vars PROVE ControlFlow'
    OBVIOUS
<1> USE ConstantFacts
<1>0. TypeOK /\ CallChain /\ Loading /\ ControlFlow
    BY DEF ControlInv, ControlFlow
<1>1. ASSUME NEW c \in Contexts, NEW n \in Names, Exec(c, n) PROVE ControlFlow'
    BY <1>1, QuietStep DEF Exec, Running, slots, cpu, PcValues, HoldPcs, ExecPcs
<1>2. ASSUME NEW c \in Contexts, NEW col \in Colors, SetColors(c, col) PROVE ControlFlow'
    BY <1>0, <1>2
    DEF SetColors, slots, cpu, locals, ControlFlow, CallChain, SlotsAccounted, Holds, OneRuns
<1>3. ASSUME NEW c \in Contexts, NEW where \in FaultPcs, Fault(c, where) PROVE ControlFlow'
    BY <1>3, QuietStep DEF Fault, Running, slots, cpu, locals, PcValues, FaultPcs, HoldPcs, ExecPcs
<1>4. ASSUME NEW c \in Slots, c = tr, pc[c] \in {"user", "patched"}, TaskReturn(c)
      PROVE ControlFlow'
    BY <1>4, ReturnControl
<1>5. ASSUME NEW c \in Contexts, TaskLoadFails(c) PROVE ControlFlow'
    <2>1. PICK x \in {"idle", "user"} : pc' = [pc EXCEPT ![c] = x]
        BY <1>5 DEF TaskLoadFails, ExecReturns
    <2>2. QED
        BY <1>5, <2>1, QuietStep
        DEF TaskLoadFails, Running, slots, cpu, locals, PcValues, HoldPcs, ExecPcs
<1>6. ASSUME NEW c \in Contexts, TaskCreate(c) PROVE ControlFlow'
    BY <1>6, CreateControl
<1>7. ASSUME NEW c \in Contexts, PagingAlloc(c) \/ PagingAllocTable(c) PROVE ControlFlow'
    <2>1. PICK x \in {"alloc", "copy"} : pc' = [pc EXCEPT ![c] = x]
        BY <1>7 DEF PagingAlloc, PagingAllocTable, NextPage
    <2>2. c = tr /\ pc[c] = "alloc" /\ UNCHANGED <<in_use, busy, link, tr, child>>
        BY <1>7 DEF PagingAlloc, PagingAllocTable, Running, slots, cpu
    <2>3. QED
        BY <2>1, <2>2, QuietStep DEF PcValues, HoldPcs, ExecPcs
<1>8. ASSUME NEW c \in Contexts, PagingAllocFails(c) \/ ExceptionHandlerFaults(c)
      PROVE ControlFlow'
    BY <1>0, <1>8
    DEF PagingAllocFails, ExceptionHandlerFaults, slots, cpu, locals,
        ControlFlow, CallChain, SlotsAccounted, Holds, OneRuns
<1>9. ASSUME NEW c \in Contexts, CopyImage(c) \/ RestorePagedir(c) PROVE ControlFlow'
    <2>1. PICK x \in {"restore", "switch"} : pc' = [pc EXCEPT ![c] = x]
        BY <1>9 DEF CopyImage, RestorePagedir
    <2>2. QED
        BY <1>9, <2>1, QuietStep
        DEF CopyImage, RestorePagedir, Running, slots, locals, PcValues, HoldPcs, ExecPcs
<1>10. ASSUME NEW c \in Contexts, TaskSwitch(c) PROVE ControlFlow'
    BY <1>10, SwitchControl
<1>11. ASSUME NEW c \in Contexts, TaskFree(c) PROVE ControlFlow'
    BY <1>11, FreeControl
<1>12. ASSUME NEW c \in Contexts, Handled(c) PROVE ControlFlow'
    <2>1. PICK x \in HandledPcs : pc' = [pc EXCEPT ![c] = x]
        BY <1>12, HandledStep
    <2>2. /\ c = tr /\ pc[c] \in FaultPcs \union {"unpatched", "resumed"}
          /\ UNCHANGED <<in_use, busy, link, tr, child>>
        BY <1>12, HandledStep DEF Running, slots, cpu, locals
    <2>3. QED
        BY <2>1, <2>2, QuietStep DEF HandledPcs, PcValues, FaultPcs, HoldPcs, ExecPcs
<1>13. CASE UNCHANGED vars
    BY <1>0, <1>13
    DEF vars, slots, cpu, locals, ControlFlow, CallChain, SlotsAccounted, Holds, OneRuns
<1>14. QED
    BY <1>1, <1>2, <1>3, <1>4, <1>5, <1>6, <1>7, <1>8, <1>9, <1>10, <1>11, <1>12, <1>13
    DEF Next, UserStep, KernelStep, Handled, Exit, PatchedIret, Stopped, Running

LEMMA LoadingStep == ControlInv /\ [Next]_vars => Loading'
<1> SUFFICES ASSUME ControlInv, [Next]_vars PROVE Loading'
    OBVIOUS
<1> USE ConstantFacts DEF HoldPcs, ExecPcs
<1>0. TypeOK /\ CallChain /\ Loading
    BY DEF ControlInv
<1>1. ASSUME NEW c \in Contexts, NEW n \in Names, Exec(c, n) PROVE Loading'
    BY <1>0, <1>1 DEF Exec, TypeOK, Loading
<1>2. ASSUME NEW c \in Contexts, NEW col \in Colors, SetColors(c, col) PROVE Loading'
    BY <1>0, <1>2 DEF SetColors, locals, Loading
<1>3. ASSUME NEW c \in Contexts, NEW where \in FaultPcs, Fault(c, where) PROVE Loading'
    BY <1>0, <1>3 DEF Fault, locals, FaultPcs, TypeOK, Loading
<1>4. ASSUME NEW c \in Slots, c = tr, TaskReturn(c) PROVE Loading'
    BY <1>0, <1>4 DEF TaskReturn, locals, CallChain, TypeOK, Loading
<1>5. ASSUME NEW c \in Contexts, TaskLoadFails(c) \/ TaskFree(c) PROVE Loading'
    <2>1. PICK x \in {"idle", "user"} : pc' = [pc EXCEPT ![c] = x]
        BY <1>5 DEF TaskLoadFails, TaskFree, ExecReturns
    <2>2. QED
        BY <1>0, <1>5, <2>1 DEF TaskLoadFails, TaskFree, locals, TypeOK, Loading
<1>6. ASSUME NEW c \in Contexts, TaskCreate(c) PROVE Loading'
    <2>1. PICK s \in Slots : child' = [child EXCEPT ![c] = s]
        BY <1>6 DEF TaskCreate
    <2>2. prog[c] \in Modules /\ Pages[prog[c]] > 0
        BY <1>6, ModulesAssumption DEF TaskCreate
    <2>3. QED
        BY <1>0, <1>6, <2>1, <2>2 DEF TaskCreate, TypeOK, Loading
<1>7. ASSUME NEW c \in Contexts, PagingAlloc(c) \/ PagingAllocTable(c) PROVE Loading'
    <2>1. /\ page' = [page EXCEPT ![c] = @ + 1]
          /\ pc' = [pc EXCEPT ![c] = IF page[c] + 1 < Pages[prog[c]] THEN "alloc" ELSE "copy"]
          /\ pc[c] = "alloc" /\ UNCHANGED <<prog, child>>
        BY <1>7 DEF PagingAlloc, PagingAllocTable, NextPage, Size
    <2>2. QED
        BY <1>0, <2>1 DEF TypeOK, Loading
<1>8. ASSUME NEW c \in Contexts, PagingAllocFails(c) \/ ExceptionHandlerFaults(c)
      PROVE Loading'
    BY <1>0, <1>8 DEF PagingAllocFails, ExceptionHandlerFaults, locals, Loading
<1>9. ASSUME NEW c \in Contexts, CopyImage(c) \/ RestorePagedir(c) PROVE Loading'
    BY <1>0, <1>9 DEF CopyImage, RestorePagedir, locals, TypeOK, Loading
<1>10. ASSUME NEW c \in Contexts, TaskSwitch(c) PROVE Loading'
    BY <1>0, <1>10 DEF TaskSwitch, TypeOK, Loading
<1>11. ASSUME NEW c \in Contexts, Handled(c) PROVE Loading'
    <2>1. PICK x \in HandledPcs : pc' = [pc EXCEPT ![c] = x]
        BY <1>11, HandledStep
    <2>2. UNCHANGED locals
        BY <1>11, HandledStep
    <2>3. QED
        BY <1>0, <2>1, <2>2 DEF HandledPcs, locals, TypeOK, Loading
<1>12. CASE UNCHANGED vars
    BY <1>0, <1>12 DEF vars, locals, Loading
<1>13. QED
    BY <1>1, <1>2, <1>3, <1>4, <1>5, <1>6, <1>7, <1>8, <1>9, <1>10, <1>11, <1>12
    DEF Next, UserStep, KernelStep, Handled, Exit, PatchedIret, Stopped, Running

\* The control invariant holds in every state of the task subsystem.
THEOREM ControlInvariant == Spec => []ControlInv
<1>1. Init => ControlInv
    BY InitControl
<1>2. ControlInv /\ [Next]_vars => ControlInv'
    BY TypeStep, ControlFlowStep, LoadingStep DEF ControlInv, ControlFlow
<1>3. QED
    BY <1>1, <1>2, PTL DEF Spec

\* Every variable always has its type, for any number of slots, frames, pages
\* and modules (tasks[], the page tables and the TSS links of task.c).
THEOREM TypeCorrect == Spec => []TypeOK
<1>1. ControlInv => TypeOK
    BY DEF ControlInv
<1>2. QED
    BY <1>1, ControlInvariant, PTL

\* The TSS links always form the chain of the suspended task_exec calls.
THEOREM CallChainCorrect == Spec => []CallChain
<1>1. ControlInv => CallChain
    BY DEF ControlInv
<1>2. QED
    BY <1>1, ControlInvariant, PTL

\* A slot is always in use exactly while one task_exec holds it.
THEOREM SlotsCorrect == Spec => []SlotsAccounted
<1>1. ControlInv => SlotsAccounted
    BY DEF ControlInv
<1>2. QED
    BY <1>1, ControlInvariant, PTL

\* An exec of a loaded module is refused only when every slot runs a nested task.
THEOREM RefusalsJustified == Spec => RefusalJustified
<1> DEFINE Justified ==
    \A c \in Contexts :
        pc[c] = "load" /\ pc'[c] \notin {"load", "alloc"} /\ prog[c] \in Modules
            => \A s \in Slots : busy[s]
<1>1. ControlInv /\ [Next]_vars => [Justified]_vars
    <2> SUFFICES ASSUME ControlInv, Next, NEW c \in Contexts,
                        pc[c] = "load", pc'[c] \notin {"load", "alloc"}, prog[c] \in Modules,
                        NEW s \in Slots
                 PROVE  busy[s]
        BY DEF Justified
    <2> USE ConstantFacts
    <2>1. c = tr
        BY DEF ControlInv, OneRuns
    <2>2. TaskLoadFails(c)
        \* every other step of the running context needs another pc, or leads to "alloc"
        <3>1. PICK d \in Contexts : UserStep(d) \/ KernelStep(d)
            BY DEF Next, Stopped, vars
        <3>2. d = c
            BY <2>1, <3>1
            DEF UserStep, Exec, SetColors, Fault, Exit, KernelStep, TaskLoadFails, TaskCreate,
                PagingAlloc, PagingAllocTable, PagingAllocFails, CopyImage, RestorePagedir,
                TaskSwitch, TaskFree, ExceptionHandler, PatchedIret,
                ExceptionHandlerInLostPage, ExceptionHandlerInKernelPage, FaultAgain,
                ExceptionHandlerFaults, Running
        <3>3. ~UserStep(c)
            BY DEF UserStep, Exec, SetColors, Fault, Exit
        <3>4. ~TaskCreate(c)
            BY DEF TaskCreate, ControlInv, TypeOK
        <3>5. QED
            BY <3>1, <3>2, <3>3, <3>4
            DEF KernelStep, PagingAlloc, PagingAllocTable, PagingAllocFails, CopyImage,
                RestorePagedir, TaskSwitch, TaskFree, ExceptionHandler, PatchedIret,
                ExceptionHandlerInLostPage, ExceptionHandlerInKernelPage, FaultAgain,
                ExceptionHandlerFaults
    <2>3. in_use[s]
        BY <2>2 DEF TaskLoadFails
    <2>4. PICK d \in Contexts : Holds(d, s)
        BY <2>3 DEF ControlInv, SlotsAccounted
    <2>5. pc[d] = "wait"
        BY <2>1, <2>4 DEF ControlInv, OneRuns, Holds, ExecPcs
    <2>6. QED
        BY <2>4, <2>5 DEF ControlInv, OneRuns, Holds
<1>2. QED
    BY <1>1, ControlInvariant, PTL DEF Spec, RefusalJustified

---------------------------------------------------------------------------
(* The address space.  AddressSpace is not inductive: when task_load goes  *)
(* back to the page directory it saved, it ends in its own one only        *)
(* because that is where it was when it saved it.                          *)

\* The page directory task_load saved is the one of the context it runs in.
SavedPagedir == sys = "up" /\ pc[tr] = "restore" => olddir[tr] = tr

SpaceInv == AddressSpace /\ SavedPagedir

LEMMA InitSpace == Init => SpaceInv
BY ConstantFacts DEF Init, SpaceInv, AddressSpace, SavedPagedir

\* A step of the running context from a pc other than "restore" to another such
\* pc, in which it stays current and in its own address space.
LEMMA SameSpace ==
    ASSUME TypeOK, SpaceInv, Running(tr), pc[tr] # "restore",
           pc'[tr] # "restore", UNCHANGED <<tr, cr3>>
    PROVE  SpaceInv'
BY DEF SpaceInv, AddressSpace, SavedPagedir, Running

\* A hardware task switch loads the page directory of the TSS it enters.
LEMMA SwitchedSpace ==
    ASSUME cr3' = tr', pc'[tr'] # "restore"
    PROVE  SpaceInv'
BY DEF SpaceInv, AddressSpace, SavedPagedir

LEMMA SpaceStep == ControlInv /\ SpaceInv /\ [Next]_vars => SpaceInv'
<1> SUFFICES ASSUME ControlInv, SpaceInv, [Next]_vars PROVE SpaceInv'
    OBVIOUS
<1> USE ConstantFacts
<1>0. TypeOK /\ CallChain /\ Loading
    BY DEF ControlInv
<1>1. ASSUME NEW c \in Contexts, UserStep(c), ~Exit(c) PROVE SpaceInv'
    <2>1. Running(c) /\ pc[c] = "user" /\ UNCHANGED <<tr, cr3>>
        BY <1>1 DEF UserStep, Exec, SetColors, Fault, cpu
    <2>2. pc'[c] \in {"load", "user"} \union FaultPcs
        BY <1>0, <1>1, <2>1 DEF UserStep, Exec, SetColors, Fault, TypeOK
    <2>3. QED
        BY <1>0, <2>1, <2>2, SameSpace DEF Running, FaultPcs
<1>2. ASSUME NEW c \in Slots, c = tr, TaskReturn(c) PROVE SpaceInv'
    <2>1. link[c] \in Contexts
        BY <1>0, <1>2 DEF CallChain
    <2>2. cr3' = tr' /\ pc'[tr'] = "free"
        BY <1>0, <1>2, <2>1 DEF TaskReturn, TypeOK
    <2>3. QED
        BY <2>2, SwitchedSpace
<1>3. ASSUME NEW c \in Contexts, TaskLoadFails(c) \/ TaskFree(c) PROVE SpaceInv'
    <2>1. PICK x \in {"idle", "user"} : pc' = [pc EXCEPT ![c] = x]
        BY <1>3 DEF TaskLoadFails, TaskFree, ExecReturns
    <2>2. Running(c) /\ pc[c] # "restore" /\ UNCHANGED <<tr, cr3>>
        BY <1>3 DEF TaskLoadFails, TaskFree, cpu
    <2>3. QED
        BY <1>0, <2>1, <2>2, SameSpace DEF Running, TypeOK
<1>4. ASSUME NEW c \in Contexts, TaskCreate(c) \/ PagingAlloc(c) \/ PagingAllocTable(c)
      PROVE SpaceInv'
    <2>1. PICK x \in {"alloc", "copy"} : pc' = [pc EXCEPT ![c] = x]
        BY <1>4 DEF TaskCreate, PagingAlloc, PagingAllocTable, NextPage
    <2>2. Running(c) /\ pc[c] # "restore" /\ UNCHANGED <<tr, cr3>>
        BY <1>4 DEF TaskCreate, PagingAlloc, PagingAllocTable, cpu
    <2>3. QED
        BY <1>0, <2>1, <2>2, SameSpace DEF Running, TypeOK
<1>5. ASSUME NEW c \in Contexts, PagingAllocFails(c) \/ ExceptionHandlerFaults(c)
      PROVE SpaceInv'
    \* the machine panics or no longer runs the program
    BY <1>5
    DEF PagingAllocFails, ExceptionHandlerFaults, KernelException, SpaceInv, AddressSpace,
        SavedPagedir
<1>6. ASSUME NEW c \in Contexts, CopyImage(c) PROVE SpaceInv'
    <2>1. c = tr /\ cr3 = tr
        BY <1>6 DEF CopyImage, Running, SpaceInv, AddressSpace
    <2>2. olddir'[tr'] = tr' /\ cr3' = child'[tr'] /\ pc'[tr'] = "restore"
        BY <1>0, <1>6, <2>1 DEF CopyImage, TypeOK
    <2>3. QED
        BY <2>2 DEF SpaceInv, AddressSpace, SavedPagedir
<1>7. ASSUME NEW c \in Contexts, RestorePagedir(c) PROVE SpaceInv'
    <2>1. c = tr /\ olddir[c] = c
        BY <1>7 DEF RestorePagedir, Running, SpaceInv, SavedPagedir
    <2>2. cr3' = tr' /\ pc'[tr'] = "switch"
        BY <1>0, <1>7, <2>1 DEF RestorePagedir, TypeOK
    <2>3. QED
        BY <2>2, SwitchedSpace
<1>8. ASSUME NEW c \in Contexts, TaskSwitch(c) PROVE SpaceInv'
    <2>1. child[c] \in Slots
        BY <1>0, <1>8 DEF Loading, HoldPcs, ExecPcs, TaskSwitch
    <2>2. cr3' = tr' /\ pc'[tr'] = "user"
        BY <1>0, <1>8, <2>1 DEF TaskSwitch, TypeOK
    <2>3. QED
        BY <2>2, SwitchedSpace
<1>9. ASSUME NEW c \in Contexts, Handled(c) PROVE SpaceInv'
    <2>1. PICK x \in HandledPcs : pc' = [pc EXCEPT ![c] = x]
        BY <1>9, HandledStep
    <2>2. Running(c) /\ pc[c] # "restore" /\ UNCHANGED <<tr, cr3>>
        BY <1>9, HandledStep DEF FaultPcs, cpu
    <2>3. QED
        BY <1>0, <2>1, <2>2, SameSpace DEF HandledPcs, Running, TypeOK
<1>10. CASE UNCHANGED vars
    BY <1>10 DEF vars, cpu, locals, SpaceInv, AddressSpace, SavedPagedir
<1>11. QED
    BY <1>1, <1>2, <1>3, <1>4, <1>5, <1>6, <1>7, <1>8, <1>9, <1>10
    DEF Next, KernelStep, Handled, Exit, PatchedIret, Stopped, Running

\* Code always runs in the address space of its own context, except while
\* task_load copies the image of a new task: after every call, return, fault
\* and refused exec the page directory is the one of the current TSS.
THEOREM AddressSpaceCorrect == Spec => []AddressSpace
<1>1. Init => ControlInv /\ SpaceInv
    BY InitControl, InitSpace
<1>2. ControlInv /\ SpaceInv /\ [Next]_vars => (ControlInv /\ SpaceInv)'
    BY SpaceStep, TypeStep, ControlFlowStep, LoadingStep DEF ControlInv, ControlFlow
<1>3. ControlInv /\ SpaceInv => AddressSpace
    BY DEF SpaceInv
<1>4. QED
    BY <1>1, <1>2, <1>3, PTL DEF Spec

---------------------------------------------------------------------------
(* Tasks implements ExecStack.  The activations of ExecStack are found     *)
(* along the children, from the kernel to the innermost caller.  The proof *)
(* needs that this walk meets every caller once and stops at the running   *)
(* context.                                                                *)

---------------------------------------------------------------------------
(* Induction, for a set of natural numbers.                                *)

LEMMA NatSetInduction ==
    ASSUME NEW S, 0 \in S, \A n \in Nat : n \in S => n + 1 \in S
    PROVE  Nat \subseteq S
<1> DEFINE R == {p \in Nat \X Nat : p[1] < p[2]}
<1>1. IsWellFoundedOn(R, Nat)
    BY NatLessThanWellFounded DEF OpToRel
<1>2. SUFFICES ASSUME Nat \ S # {} PROVE FALSE
    OBVIOUS
<1>3. PICK n \in Nat \ S : \A m \in Nat \ S : ~(<<m, n>> \in R)
    <2>1. Nat \ S \subseteq Nat
        OBVIOUS
    <2> HIDE DEF R
    <2>2. QED
        BY <1>1, <1>2, <2>1, WFMin
<1>4. n # 0 /\ n - 1 \in Nat /\ n = (n - 1) + 1
    BY <1>3
<1>5. n - 1 \in S
    <2>1. n - 1 < n
        BY <1>4
    <2>2. <<n - 1, n>> \in R
        BY <1>4, <2>1
    <2>3. QED
        BY <1>3, <1>4, <2>2
<1>6. QED
    BY <1>3, <1>4, <1>5

---------------------------------------------------------------------------
(* Functions on 1 .. D are sequences.                                      *)

LEMMA SeqLen ==
    ASSUME NEW D \in Nat, NEW f, f = [n \in 1 .. D |-> f[n]]
    PROVE  Len(f) = D /\ (f # <<>> <=> D # 0)
<1>1. Len(f) = D
    OBVIOUS
<1>2. f = <<>> => D = 0
    BY <1>1
<1>3. D = 0 => f = <<>>
    OBVIOUS
<1>4. QED
    BY <1>1, <1>2, <1>3

LEMMA SeqAppend ==
    ASSUME NEW D \in Nat, NEW f, f = [n \in 1 .. D |-> f[n]], NEW e
    PROVE  Append(f, e) = [n \in 1 .. D + 1 |-> IF n = D + 1 THEN e ELSE f[n]]
OBVIOUS

LEMMA SeqButLast ==
    ASSUME NEW D \in Nat, D # 0, NEW f, f = [n \in 1 .. D |-> f[n]]
    PROVE  SubSeq(f, 1, D - 1) = [n \in 1 .. D - 1 |-> f[n]]
OBVIOUS

---------------------------------------------------------------------------
(* The walk along the children.                                            *)

\* f is the walk, for the first m contexts.
Walk(f, m) == f = [n \in 1 .. m |-> IF n = 1 THEN KERNEL ELSE child[f[n - 1]]]

LEMMA WalkExists == \A m \in Nat : \E f : Walk(f, m)
<1> DEFINE S == {m \in Nat : \E f : Walk(f, m)}
<1>1. 0 \in S
    <2>1. Walk([n \in 1 .. 0 |-> KERNEL], 0)
        BY DEF Walk
    <2>2. QED
        BY <2>1
<1>2. ASSUME NEW m \in Nat, m \in S PROVE m + 1 \in S
    <2>1. PICK f : Walk(f, m)
        BY <1>2
    <2> DEFINE g == [n \in 1 .. m + 1 |->
                        IF n \in 1 .. m THEN f[n] ELSE IF n = 1 THEN KERNEL ELSE child[f[m]]]
    <2>2. ASSUME NEW n \in 1 .. m + 1
          PROVE  g[n] = IF n = 1 THEN KERNEL ELSE child[g[n - 1]]
        <3>1. CASE n = 1
            BY <2>1, <3>1 DEF Walk
        <3>2. CASE n # 1 /\ n \in 1 .. m
            <4>1. n - 1 \in 1 .. m
                BY <3>2
            <4>2. g[n] = f[n] /\ g[n - 1] = f[n - 1]
                BY <3>2, <4>1
            <4>3. f[n] = child[f[n - 1]]
                BY <2>1, <3>2 DEF Walk
            <4>4. QED
                BY <3>2, <4>2, <4>3
        <3>3. CASE n # 1 /\ n \notin 1 .. m
            <4>1. n = m + 1 /\ m \in 1 .. m /\ n - 1 = m
                BY <3>3
            <4>2. QED
                BY <3>3, <4>1
        <3>4. QED
            BY <3>1, <3>2, <3>3
    <2>3. Walk(g, m + 1)
        BY <2>2 DEF Walk
    <2>4. QED
        BY <2>3
<1>3. Nat \subseteq S
    <2> HIDE DEF S
    <2>1. QED
        BY <1>1, <1>2, NatSetInduction
<1>4. QED
    BY <1>3

LEMMA CallerAtWalk == Walk(CallerAt, MAX_TASK_COUNT)
<1>1. \E f : Walk(f, MAX_TASK_COUNT)
    BY WalkExists, SizesAssumption
<1>2. QED
    BY <1>1 DEF CallerAt, Walk

WalkSteps ==
    /\ CallerAt[1] = KERNEL
    /\ \A n \in 1 .. MAX_TASK_COUNT - 1 : CallerAt[n + 1] = child[CallerAt[n]]

LEMMA CallerAtSteps == WalkSteps
<1>1. 1 \in 1 .. MAX_TASK_COUNT
    BY SizesAssumption
<1>2. CallerAt[1] = KERNEL
    BY <1>1, CallerAtWalk DEF Walk
<1>3. ASSUME NEW n \in 1 .. MAX_TASK_COUNT - 1 PROVE CallerAt[n + 1] = child[CallerAt[n]]
    <2>1. n + 1 \in 1 .. MAX_TASK_COUNT /\ n + 1 # 1 /\ (n + 1) - 1 = n
        BY SizesAssumption
    <2>2. CallerAt[n + 1] = child[CallerAt[(n + 1) - 1]]
        BY <2>1, CallerAtWalk DEF Walk
    <2>3. QED
        BY <2>1, <2>2
<1>4. QED
    BY <1>2, <1>3 DEF WalkSteps

LEMMA CallerAtStepsNext == WalkSteps'
BY CallerAtSteps, PTL

Depth == Cardinality(Callers)

\* The walk meets every caller, once, and then the running context.
ChainInv ==
    /\ \A n \in 1 .. Depth : CallerAt[n] \in Callers
    /\ \A n, m \in 1 .. Depth : CallerAt[n] = CallerAt[m] => n = m
    /\ Depth = 0 => tr = KERNEL
    /\ Depth > 0 => tr = IF pc[tr] = "free" THEN CallerAt[Depth] ELSE child[CallerAt[Depth]]
    /\ pc[KERNEL] # "user"

\* The callers hold different slots.
LEMMA CallersFinite == IsFiniteSet(Callers) /\ Depth \in Nat
<1>1. IsFiniteSet(Slots)
    BY FS_Interval, SizesAssumption DEF Slots
<1>2. IsFiniteSet(Contexts)
    BY <1>1, FS_AddElement DEF Contexts
<1>3. Callers \in SUBSET Contexts
    BY DEF Callers
<1>4. IsFiniteSet(Callers)
    BY <1>2, <1>3, FS_Subset
<1>5. QED
    BY <1>4, FS_CardinalityType DEF Depth

LEMMA CallersFiniteNext == (IsFiniteSet(Callers) /\ Depth \in Nat)'
BY CallersFinite, PTL

\* A set of contexts that hold slots is no larger than the set of slots.
LEMMA HoldersBound ==
    ASSUME ControlInv, NEW H \in SUBSET Contexts, \A c \in H : pc[c] \in HoldPcs
    PROVE  IsFiniteSet(H) /\ Cardinality(H) <= MAX_TASK_COUNT
<1> DEFINE f == [c \in H |-> child[c]]
<1>1. \A c \in H : child[c] \in Slots
    BY DEF ControlInv, Loading
<1>2. \A c, d \in H : child[c] = child[d] => c = d
    BY <1>1 DEF ControlInv, SlotsAccounted, Holds, HoldPcs
<1>3. f \in Injection(H, Slots)
    BY <1>1, <1>2 DEF Injection, IsInjective
<1>4. IsFiniteSet(Slots) /\ Cardinality(Slots) = MAX_TASK_COUNT
    BY FS_Interval, SizesAssumption DEF Slots
<1>5. QED
    <2> HIDE DEF f
    <2>1. QED
        BY <1>3, <1>4, FS_Injection

LEMMA DepthBound ==
    ASSUME ControlInv
    PROVE  /\ Depth <= MAX_TASK_COUNT
           /\ \A c \in Contexts : pc[c] \in HoldPcs /\ c \notin Callers => Depth < MAX_TASK_COUNT
<1>1. \A c \in Callers : c \in Contexts /\ pc[c] \in HoldPcs
    BY DEF Callers, HoldPcs, ExecPcs
<1>2. Depth <= MAX_TASK_COUNT
    BY <1>1, HoldersBound DEF Depth
<1>3. ASSUME NEW c \in Contexts, pc[c] \in HoldPcs, c \notin Callers
      PROVE  Depth < MAX_TASK_COUNT
    <2>1. Cardinality(Callers \union {c}) = Depth + 1
        BY <1>3, CallersFinite, FS_AddElement DEF Depth
    <2>2. Cardinality(Callers \union {c}) <= MAX_TASK_COUNT
        BY <1>1, <1>3, HoldersBound
    <2>3. QED
        BY <2>1, <2>2, CallersFinite, SizesAssumption
<1>4. QED
    BY <1>2, <1>3

\* The walk up to a depth depends on the children of the callers only.
LEMMA WalkKept ==
    ASSUME ControlInv, ChainInv, \A c \in Callers : child'[c] = child[c]
    PROVE  \A n \in 1 .. Depth + 1 : n <= MAX_TASK_COUNT => CallerAt'[n] = CallerAt[n]
<1>1. Depth \in Nat /\ MAX_TASK_COUNT \in Nat \ {0}
    BY CallersFinite, SizesAssumption
<1> DEFINE S == {n \in Nat : n + 1 <= Depth + 1 /\ n + 1 <= MAX_TASK_COUNT
                                => CallerAt'[n + 1] = CallerAt[n + 1]}
<1>2. 0 \in S
    BY CallerAtSteps, CallerAtStepsNext DEF WalkSteps
<1>3. ASSUME NEW n \in Nat, n \in S PROVE n + 1 \in S
    <2> SUFFICES ASSUME n + 2 <= Depth + 1, n + 2 <= MAX_TASK_COUNT
                 PROVE  CallerAt'[n + 2] = CallerAt[n + 2]
        OBVIOUS
    <2>1. n + 1 \in 1 .. Depth /\ n + 1 \in 1 .. MAX_TASK_COUNT - 1 /\ (n + 1) + 1 = n + 2
        BY <1>1
    <2>2. CallerAt'[n + 1] = CallerAt[n + 1]
        BY <1>1, <1>3, <2>1
    <2>3. CallerAt[n + 2] = child[CallerAt[n + 1]] /\ CallerAt'[n + 2] = child'[CallerAt'[n + 1]]
        BY <2>1, CallerAtSteps, CallerAtStepsNext DEF WalkSteps
    <2>4. CallerAt[n + 1] \in Callers
        BY <2>1 DEF ChainInv
    <2>5. QED
        BY <2>2, <2>3, <2>4
<1>4. Nat \subseteq S
    <2> HIDE DEF S
    <2>1. QED
        BY <1>2, <1>3, NatSetInduction
<1>5. ASSUME NEW n \in 1 .. Depth + 1, n <= MAX_TASK_COUNT PROVE CallerAt'[n] = CallerAt[n]
    <2>1. n - 1 \in Nat /\ (n - 1) + 1 = n
        BY <1>1
    <2>2. n - 1 \in S
        BY <1>4, <2>1
    <2>3. QED
        BY <1>1, <1>5, <2>1, <2>2
<1>6. QED
    BY <1>5

---------------------------------------------------------------------------
(* Steps that neither start nor end an activation.                         *)

LEMMA SameStack ==
    ASSUME ControlInv, ChainInv, Callers' = Callers,
           \A c \in Callers :
                child'[c] = child[c] /\ prog'[c] = prog[c] /\ saved'[c] = saved[c]
    PROVE  /\ CallStack' = CallStack
           /\ Depth' = Depth /\ Depth \in Nat
           /\ \A n \in 1 .. Depth : CallerAt'[n] = CallerAt[n] /\ CallerAt[n] \in Callers
<1>1. Depth' = Depth /\ Depth \in Nat /\ Depth <= MAX_TASK_COUNT
    BY CallersFinite, DepthBound DEF Depth
<1>2. \A n \in 1 .. Depth : CallerAt'[n] = CallerAt[n]
    BY <1>1, WalkKept, SizesAssumption
<1>3. \A n \in 1 .. Depth : CallerAt[n] \in Callers
    BY DEF ChainInv
<1> DEFINE a(n) == [prog |-> prog[CallerAt[n]], cols |-> saved[CallerAt[n]]]
<1>4. \A n \in 1 .. Depth : prog'[CallerAt'[n]] = prog[CallerAt[n]]
                            /\ saved'[CallerAt'[n]] = saved[CallerAt[n]]
    BY <1>2, <1>3
<1>5. \A n \in 1 .. Depth : a(n)' = a(n)
    BY <1>4
<1>6. CallStack = [n \in 1 .. Depth |-> a(n)] /\ CallStack' = [n \in 1 .. Depth |-> a(n)']
    BY <1>1 DEF CallStack, Depth
<1> HIDE DEF a
<1>7. QED
    BY <1>1, <1>2, <1>3, <1>5, <1>6

LEMMA SameCallers ==
    ASSUME ControlInv, ChainInv, Callers' = Callers, tr' = tr,
           pc'[tr] = "free" <=> pc[tr] = "free", pc'[KERNEL] # "user",
           \A c \in Callers :
                child'[c] = child[c] /\ prog'[c] = prog[c] /\ saved'[c] = saved[c]
    PROVE  ChainInv' /\ CallStack' = CallStack
<1>1. /\ CallStack' = CallStack
      /\ Depth' = Depth /\ Depth \in Nat
      /\ \A n \in 1 .. Depth : CallerAt'[n] = CallerAt[n] /\ CallerAt[n] \in Callers
    BY SameStack
<1>2. Depth > 0 => Depth \in 1 .. Depth
    BY <1>1
<1>3. QED
    BY <1>1, <1>2 DEF ChainInv

\* A step of the running context outside the steps of a call.
LEMMA QuietNesting ==
    ASSUME ControlInv, ChainInv, NEW c \in Contexts, c = tr, NEW x,
           pc' = [pc EXCEPT ![c] = x], pc[c] \notin {"wait", "free"},
           x \notin {"wait", "free"}, c = KERNEL => x # "user", tr' = tr,
           \A d \in Contexts \ {c} :
                child'[d] = child[d] /\ prog'[d] = prog[d] /\ saved'[d] = saved[d]
    PROVE  ChainInv' /\ CallStack' = CallStack
<1>1. pc'[c] = x /\ \A d \in Contexts \ {c} : pc'[d] = pc[d]
    BY DEF ControlInv, TypeOK
<1>2. Callers' = Callers /\ c \notin Callers
    BY <1>1 DEF Callers
<1>3. pc'[KERNEL] # "user"
    BY <1>1, ConstantFacts DEF ChainInv
<1>4. \A d \in Callers : d \in Contexts \ {c}
    BY <1>2 DEF Callers
<1>5. QED
    BY <1>1, <1>2, <1>3, <1>4, SameCallers

---------------------------------------------------------------------------
(* The call, and its return.                                               *)

LEMMA SwitchNesting ==
    ASSUME ControlInv, ChainInv, NEW c \in Contexts, TaskSwitch(c)
    PROVE  /\ ChainInv' /\ prog[c] \in Modules
           /\ Depth < MAX_TASK_COUNT
           /\ CallStack' = [n \in 1 .. Depth + 1 |->
                    IF n = Depth + 1 THEN [prog |-> prog[c], cols |-> colors] ELSE CallStack[n]]
<1> USE ConstantFacts
<1> DEFINE s == child[c]
<1>1. s \in Slots /\ prog[c] \in Modules /\ c = tr /\ pc[c] = "switch" /\ ~busy[s] /\ pc[c] \in HoldPcs
    BY DEF TaskSwitch, Running, ControlInv, Loading, HoldPcs, ExecPcs
<1>2. /\ tr' = s /\ saved' = [saved EXCEPT ![c] = colors]
      /\ pc' = [pc EXCEPT ![c] = "wait", ![s] = "user"]
      /\ UNCHANGED <<child, prog>>
    BY DEF TaskSwitch
<1>3. s # c /\ pc[s] = "idle"
    BY <1>1 DEF ControlInv, CallChain, OneRuns
<1>4. pc'[c] = "wait" /\ pc'[s] = "user" /\ \A d \in Contexts \ {c, s} : pc'[d] = pc[d]
    BY <1>1, <1>2, <1>3 DEF ControlInv, TypeOK
<1>5. c \notin Callers /\ Callers' = Callers \union {c}
    BY <1>1, <1>3, <1>4 DEF Callers
<1>6. Depth' = Depth + 1 /\ Depth \in Nat /\ Depth < MAX_TASK_COUNT
    BY <1>1, <1>5, CallersFinite, FS_AddElement, DepthBound DEF Depth
<1>7. \A n \in 1 .. Depth + 1 : CallerAt'[n] = CallerAt[n]
    BY <1>2, <1>6, WalkKept, SizesAssumption
<1>8. CallerAt[Depth + 1] = c
    <2>1. CASE Depth = 0
        BY <1>1, <2>1, CallerAtSteps DEF WalkSteps, ChainInv
    <2>2. CASE Depth > 0
        <3>1. tr = child[CallerAt[Depth]]
            BY <1>1, <2>2 DEF ChainInv
        <3>2. Depth \in 1 .. MAX_TASK_COUNT - 1
            BY <1>6, <2>2, SizesAssumption
        <3>3. QED
            BY <1>1, <3>1, <3>2, CallerAtSteps DEF WalkSteps
    <2>3. QED
        BY <1>6, <2>1, <2>2
<1>9. \A n \in 1 .. Depth : CallerAt[n] \in Callers /\ CallerAt[n] # c
    BY <1>5 DEF ChainInv
<1>10. ChainInv'
    <2>1. \A n \in 1 .. Depth + 1 : n \in 1 .. Depth \/ n = Depth + 1
        BY <1>6
    <2>2. \A n \in 1 .. Depth + 1 : CallerAt'[n] \in Callers'
        BY <1>5, <1>7, <1>8, <1>9, <2>1
    <2>3. \A n, m \in 1 .. Depth + 1 : CallerAt'[n] = CallerAt'[m] => n = m
        BY <1>7, <1>8, <1>9, <2>1 DEF ChainInv
    <2>4. CallerAt'[Depth'] = c /\ Depth' > 0
        BY <1>6, <1>7, <1>8
    <2>5. tr' = child'[CallerAt'[Depth']] /\ pc'[tr'] # "free" /\ pc'[KERNEL] # "user"
        BY <1>1, <1>2, <1>3, <1>4, <2>4 DEF ChainInv
    <2>6. QED
        BY <1>6, <2>2, <2>3, <2>4, <2>5 DEF ChainInv
<1>11. CallStack' = [n \in 1 .. Depth + 1 |->
            IF n = Depth + 1 THEN [prog |-> prog[c], cols |-> colors] ELSE CallStack[n]]
    <2> DEFINE a(n) == [prog |-> prog[CallerAt[n]], cols |-> saved[CallerAt[n]]]
    <2> DEFINE new == [prog |-> prog[c], cols |-> colors]
    <2>1. CallStack = [n \in 1 .. Depth |-> a(n)]
          /\ CallStack' = [n \in 1 .. Depth + 1 |-> a(n)']
        BY <1>6 DEF CallStack, Depth
    <2>2. saved'[c] = colors /\ \A d \in Contexts \ {c} : saved'[d] = saved[d]
        BY <1>2 DEF ControlInv, TypeOK
    <2>3. \A n \in 1 .. Depth : a(n)' = a(n)
        <3>1. \A n \in 1 .. Depth : CallerAt'[n] = CallerAt[n] /\ CallerAt[n] \in Contexts \ {c}
            BY <1>6, <1>7, <1>9 DEF Callers
        <3>2. \A n \in 1 .. Depth : prog'[CallerAt'[n]] = prog[CallerAt[n]]
                                    /\ saved'[CallerAt'[n]] = saved[CallerAt[n]]
            BY <1>2, <2>2, <3>1
        <3>3. QED
            BY <3>2
    <2>4. PICK D \in Nat : D = Depth
        BY <1>6
    <2>5. a(D + 1)' = new
        BY <1>2, <1>6, <1>7, <1>8, <2>2, <2>4
    <2> HIDE DEF a, new
    <2>6. \A n \in 1 .. D + 1 : n \in 1 .. D \/ n = D + 1
        OBVIOUS
    <2>7. \A n \in 1 .. D + 1 : a(n)' = IF n = D + 1 THEN new ELSE CallStack[n]
        BY <2>1, <2>3, <2>4, <2>5, <2>6
    <2>8. CallStack' = [n \in 1 .. D + 1 |-> IF n = D + 1 THEN new ELSE CallStack[n]]
        BY <2>1, <2>4, <2>7
    <2>9. QED
        BY <2>4, <2>8 DEF new
<1>12. QED
    BY <1>1, <1>6, <1>10, <1>11

LEMMA ReturnNesting ==
    ASSUME ControlInv, ChainInv, NEW c \in Slots, c = tr, pc[c] \in {"user", "patched"},
           TaskReturn(c)
    PROVE  ChainInv' /\ CallStack' = CallStack
<1> USE ConstantFacts
<1> DEFINE d == link[c]
<1>1. busy[c] /\ d \in Contexts /\ pc[d] = "wait" /\ child[d] = c /\ d # c
    BY DEF ControlInv, CallChain
<1>2. tr' = d /\ pc' = [pc EXCEPT ![c] = "idle", ![d] = "free"] /\ UNCHANGED <<child, prog, saved>>
    BY DEF TaskReturn, locals
<1>3. pc'[d] = "free" /\ pc'[c] = "idle" /\ \A e \in Contexts \ {c, d} : pc'[e] = pc[e]
    BY <1>1, <1>2 DEF ControlInv, TypeOK
<1>4. Callers' = Callers
    BY <1>1, <1>3 DEF Callers
<1>5. /\ CallStack' = CallStack
      /\ Depth' = Depth /\ Depth \in Nat
      /\ \A n \in 1 .. Depth : CallerAt'[n] = CallerAt[n] /\ CallerAt[n] \in Callers
    BY <1>2, <1>4, SameStack
<1>6. Depth > 0 /\ Depth \in 1 .. Depth
    BY <1>5 DEF ChainInv
\* the innermost caller is the context linked to
<1>7. CallerAt[Depth] = d
    <2>1. c = child[CallerAt[Depth]]
        BY <1>6 DEF ChainInv
    <2>2. Holds(CallerAt[Depth], c) /\ Holds(d, c) /\ CallerAt[Depth] \in Contexts
        BY <1>1, <1>5, <1>6, <2>1 DEF Holds, Callers, ExecPcs
    <2>3. QED
        BY <1>1, <2>2 DEF ControlInv, SlotsAccounted
<1>8. ChainInv'
    <2>1. tr' = CallerAt'[Depth'] /\ pc'[tr'] = "free" /\ pc'[KERNEL] # "user"
        BY <1>2, <1>3, <1>5, <1>6, <1>7 DEF ChainInv
    <2>2. QED
        BY <1>4, <1>5, <1>6, <2>1 DEF ChainInv
<1>9. QED
    BY <1>5, <1>8

LEMMA FreeNesting ==
    ASSUME ControlInv, ChainInv, NEW c \in Contexts, TaskFree(c)
    PROVE  /\ ChainInv' /\ Depth \in Nat \ {0}
           /\ CallStack' = [n \in 1 .. Depth - 1 |-> CallStack[n]]
           /\ colors' = CallStack[Depth].cols
<1> USE ConstantFacts
<1>1. c = tr /\ pc[c] = "free" /\ tr' = tr /\ colors' = saved[c] /\ UNCHANGED <<child, prog, saved>>
    BY DEF TaskFree, Running, cpu, locals
<1>2. /\ pc'[c] \notin {"wait", "free"} /\ (c = KERNEL => pc'[c] # "user")
      /\ \A d \in Contexts \ {c} : pc'[d] = pc[d]
    BY DEF TaskFree, ExecReturns, ControlInv, TypeOK
<1>3. c \in Callers /\ Callers' = Callers \ {c}
    BY <1>1, <1>2 DEF Callers
<1>4. Depth' = Depth - 1 /\ Depth \in Nat \ {0} /\ Depth <= MAX_TASK_COUNT
    <2>1. Depth' = Depth - 1 /\ Depth \in Nat /\ Depth' \in Nat /\ Depth <= MAX_TASK_COUNT
        BY <1>3, CallersFinite, CallersFiniteNext, DepthBound, FS_RemoveElement DEF Depth
    <2>2. QED
        BY <2>1
<1>5. PICK D \in Nat \ {0} : D = Depth
    BY <1>4
<1>6. \A n \in 1 .. D : CallerAt'[n] = CallerAt[n] /\ CallerAt[n] \in Callers
    BY <1>1, <1>4, <1>5, WalkKept, SizesAssumption DEF ChainInv
<1>7. CallerAt[D] = c
    BY <1>1, <1>5 DEF ChainInv
<1>8. D \in 1 .. D /\ \A n \in 1 .. D - 1 : n \in 1 .. D /\ n # D
    OBVIOUS
<1>9. ChainInv'
    <2>1. \A n \in 1 .. D - 1 : CallerAt[n] # c
        BY <1>5, <1>7, <1>8 DEF ChainInv
    <2>2. \A n \in 1 .. D - 1 : CallerAt'[n] \in Callers'
        BY <1>3, <1>6, <1>8, <2>1
    <2>3. \A n, m \in 1 .. D - 1 : CallerAt'[n] = CallerAt'[m] => n = m
        BY <1>5, <1>6, <1>8 DEF ChainInv
    <2>4. D - 1 = 0 => tr' = KERNEL
        BY <1>1, <1>7, CallerAtSteps DEF WalkSteps
    <2>5. ASSUME D - 1 > 0 PROVE tr' = child'[CallerAt'[D - 1]]
        <3>1. D - 1 \in 1 .. MAX_TASK_COUNT - 1 /\ (D - 1) + 1 = D /\ D - 1 \in 1 .. D
            BY <1>4, <1>5, <2>5, SizesAssumption
        <3>2. CallerAt[D] = child[CallerAt[D - 1]]
            BY <3>1, CallerAtSteps DEF WalkSteps
        <3>3. CallerAt'[D - 1] = CallerAt[D - 1]
            BY <1>6, <3>1
        <3>4. QED
            BY <1>1, <1>7, <3>2, <3>3
    <2>6. pc'[tr'] # "free" /\ pc'[KERNEL] # "user"
        BY <1>1, <1>2 DEF ChainInv
    <2>7. Depth' = D - 1
        BY <1>4, <1>5
    <2>8. QED
        BY <2>2, <2>3, <2>4, <2>5, <2>6, <2>7 DEF ChainInv
<1>10. CallStack' = [n \in 1 .. D - 1 |-> CallStack[n]] /\ colors' = CallStack[D].cols
    <2> DEFINE a(n) == [prog |-> prog[CallerAt[n]], cols |-> saved[CallerAt[n]]]
    <2>1. CallStack = [n \in 1 .. D |-> a(n)]
          /\ CallStack' = [n \in 1 .. D - 1 |-> a(n)']
        BY <1>4, <1>5 DEF CallStack, Depth
    <2>2. \A n \in 1 .. D - 1 : a(n)' = a(n)
        BY <1>1, <1>6, <1>8
    <2>3. a(D).cols = saved[c]
        BY <1>7
    <2> HIDE DEF a
    <2>4. QED
        BY <1>1, <1>8, <2>1, <2>2, <2>3
<1>11. QED
    BY <1>5, <1>9, <1>10

---------------------------------------------------------------------------
(* The refinement.                                                         *)

LEMMA StackIsSequence ==
    CallStack = [n \in 1 .. Depth |-> CallStack[n]] /\ Depth \in Nat
BY CallersFinite DEF CallStack, Depth

LEMMA InitNesting == Init => ChainInv /\ Calls!Init
<1> SUFFICES ASSUME Init PROVE ChainInv /\ Calls!Init
    OBVIOUS
<1>1. \A c \in Contexts : pc[c] \in {"load", "idle"}
    BY DEF Init
<1>2. Callers = {}
    BY <1>1 DEF Callers
<1>3. Depth = 0
    BY <1>2, FS_EmptySet DEF Depth
<1>4. ChainInv
    BY <1>1, <1>3, ConstantFacts DEF ChainInv, Init
<1>5. CallStack = <<>>
    BY <1>3, StackIsSequence, SeqLen
<1>6. QED
    BY <1>4, <1>5 DEF Init, Calls!Init

LEMMA UserNesting ==
    ASSUME ControlInv, ChainInv, NEW c \in Contexts, UserStep(c)
    PROVE  ChainInv' /\ [Calls!Next]_(Calls!vars)
<1> USE ConstantFacts
<1>1. ASSUME NEW n \in Names, Exec(c, n)
      PROVE  ChainInv' /\ [Calls!Next]_(Calls!vars)
    <2>1. ChainInv' /\ CallStack' = CallStack
        BY <1>1, QuietNesting DEF Exec, Running, cpu, ControlInv, TypeOK
    <2>2. QED
        BY <1>1, <2>1 DEF Exec, Calls!vars
\* the running application is not the kernel, so there is an activation
<1>2. ASSUME NEW col \in Colors, SetColors(c, col)
      PROVE  ChainInv' /\ [Calls!Next]_(Calls!vars)
    <2>1. c = tr /\ pc[c] = "user" /\ UNCHANGED <<pc, tr, child, prog, saved>> /\ colors' \in Colors
        BY <1>2 DEF SetColors, Running, cpu, locals
    <2>2. ChainInv' /\ CallStack' = CallStack
        BY <2>1, SameCallers DEF Callers, ChainInv
    <2>3. Depth # 0
        BY <2>1 DEF ChainInv
    <2>4. CallStack # <<>>
        BY <2>3, StackIsSequence, SeqLen
    <2>5. QED
        BY <2>1, <2>2, <2>4 DEF Calls!Next, Calls!SetColors
<1>3. ASSUME NEW where \in FaultPcs, Fault(c, where)
      PROVE  ChainInv' /\ [Calls!Next]_(Calls!vars)
    <2>1. ChainInv' /\ CallStack' = CallStack
        BY <1>3, QuietNesting DEF Fault, Running, cpu, locals, FaultPcs
    <2>2. QED
        BY <1>3, <2>1 DEF Fault, Calls!vars
<1>4. ASSUME Exit(c) PROVE ChainInv' /\ [Calls!Next]_(Calls!vars)
    BY <1>4, ReturnNesting DEF Exit, Running, TaskReturn, Calls!vars
<1>5. QED
    BY <1>1, <1>2, <1>3, <1>4 DEF UserStep

\* The steps of task_exec, and of the exception handler, between a call and a
\* return.
LEMMA BetweenNesting ==
    ASSUME ControlInv, ChainInv, NEW c \in Contexts,
           \/ TaskLoadFails(c) \/ TaskCreate(c) \/ PagingAlloc(c) \/ PagingAllocTable(c)
           \/ CopyImage(c) \/ RestorePagedir(c) \/ Handled(c)
    PROVE  ChainInv' /\ CallStack' = CallStack /\ colors' = colors
<1>1. ASSUME TaskLoadFails(c) PROVE ChainInv' /\ CallStack' = CallStack /\ colors' = colors
    <2>1. PICK x \in {"idle", "user"} :
            pc' = [pc EXCEPT ![c] = x] /\ (c = KERNEL => x # "user")
        BY <1>1 DEF TaskLoadFails, ExecReturns
    <2>2. QED
        BY <1>1, <2>1, QuietNesting DEF TaskLoadFails, Running, cpu, locals
<1>2. ASSUME TaskCreate(c) PROVE ChainInv' /\ CallStack' = CallStack /\ colors' = colors
    <2>1. \A d \in Contexts \ {c} : child'[d] = child[d]
        BY <1>2 DEF TaskCreate, ControlInv, TypeOK
    <2>2. /\ c = tr /\ pc[c] = "load" /\ pc' = [pc EXCEPT ![c] = "alloc"]
          /\ tr' = tr /\ prog' = prog /\ saved' = saved /\ colors' = colors
        BY <1>2 DEF TaskCreate, Running
    <2>3. QED
        BY <2>1, <2>2, QuietNesting
<1>3. ASSUME PagingAlloc(c) \/ PagingAllocTable(c)
      PROVE  ChainInv' /\ CallStack' = CallStack /\ colors' = colors
    <2>1. PICK x \in {"alloc", "copy"} : pc' = [pc EXCEPT ![c] = x]
        BY <1>3 DEF PagingAlloc, PagingAllocTable, NextPage
    <2>2. /\ Running(c) /\ pc[c] = "alloc"
          /\ UNCHANGED <<tr, child, prog, saved, colors>>
        BY <1>3 DEF PagingAlloc, PagingAllocTable, NextPage, cpu
    <2>3. QED
        BY <2>1, <2>2, QuietNesting DEF Running
<1>4. ASSUME CopyImage(c) \/ RestorePagedir(c)
      PROVE  ChainInv' /\ CallStack' = CallStack /\ colors' = colors
    BY <1>4, QuietNesting DEF CopyImage, RestorePagedir, Running, locals
<1>5. ASSUME Handled(c) PROVE ChainInv' /\ CallStack' = CallStack /\ colors' = colors
    <2>1. PICK x \in HandledPcs : pc' = [pc EXCEPT ![c] = x]
        BY <1>5, HandledStep
    <2>2. /\ c = tr /\ pc[c] \in FaultPcs \union {"unpatched", "resumed"}
          /\ UNCHANGED <<tr, child, prog, saved, colors>>
        BY <1>5, HandledStep DEF Running, cpu, locals
    <2>3. QED
        BY <2>1, <2>2, QuietNesting DEF HandledPcs, FaultPcs
<1>6. QED
    BY <1>1, <1>2, <1>3, <1>4, <1>5

LEMMA KernelNesting ==
    ASSUME ControlInv, ChainInv, NEW c \in Contexts, KernelStep(c)
    PROVE  ChainInv' /\ [Calls!Next]_(Calls!vars)
<1> USE ConstantFacts
<1>1. ASSUME TaskSwitch(c) PROVE ChainInv' /\ [Calls!Next]_(Calls!vars)
    <2>0. PICK D \in Nat : D = Depth
        BY StackIsSequence
    <2>1. PICK stack : D = Depth /\ stack = CallStack
        BY <2>0
    <2>2. PICK e : e = [prog |-> prog[c], cols |-> colors]
        OBVIOUS
    <2>3. /\ ChainInv' /\ prog[c] \in Modules /\ D < MAX_TASK_COUNT
          /\ CallStack' = [n \in 1 .. D + 1 |-> IF n = D + 1 THEN e ELSE stack[n]]
        BY <1>1, <2>1, <2>2, SwitchNesting
    <2>4. Len(stack) = D /\ CallStack' = Append(stack, e)
        BY <2>1, <2>3, StackIsSequence, SeqLen, SeqAppend
    <2>5. colors' = colors
        BY <1>1 DEF TaskSwitch
    <2>6. Calls!Exec(prog[c])
        BY <2>1, <2>2, <2>3, <2>4, <2>5 DEF Calls!Exec
    <2>7. QED
        BY <2>3, <2>6 DEF Calls!Next
<1>2. ASSUME TaskFree(c) PROVE ChainInv' /\ [Calls!Next]_(Calls!vars)
    <2>0. PICK D \in Nat : D = Depth
        BY StackIsSequence
    <2>1. PICK stack : D = Depth /\ stack = CallStack
        BY <2>0
    <2>2. /\ ChainInv' /\ D # 0 /\ CallStack' = [n \in 1 .. D - 1 |-> stack[n]]
          /\ colors' = stack[D].cols
        BY <1>2, <2>1, FreeNesting
    <2>3. Len(stack) = D /\ stack # <<>> /\ CallStack' = SubSeq(stack, 1, D - 1)
        BY <2>1, <2>2, StackIsSequence, SeqLen, SeqButLast
    <2>4. Calls!Return
        BY <2>1, <2>2, <2>3 DEF Calls!Return
    <2>5. QED
        BY <2>2, <2>4 DEF Calls!Next
<1>3. ASSUME PatchedIret(c) PROVE ChainInv' /\ [Calls!Next]_(Calls!vars)
    BY <1>3, ReturnNesting DEF PatchedIret, Running, TaskReturn, Calls!vars
<1>4. ASSUME PagingAllocFails(c) \/ ExceptionHandlerFaults(c)
      PROVE  ChainInv' /\ [Calls!Next]_(Calls!vars)
    <2>1. UNCHANGED <<pc, tr, child, prog, saved, colors>>
        BY <1>4 DEF PagingAllocFails, ExceptionHandlerFaults, cpu, locals
    <2>2. ChainInv' /\ CallStack' = CallStack
        BY <2>1, SameCallers DEF Callers, ChainInv
    <2>3. QED
        BY <2>1, <2>2 DEF Calls!vars
<1>5. QED
    BY <1>1, <1>2, <1>3, <1>4, BetweenNesting DEF KernelStep, Handled, Calls!vars

LEMMA NestingStep ==
    ControlInv /\ ChainInv /\ [Next]_vars => ChainInv' /\ [Calls!Next]_(Calls!vars)
<1> SUFFICES ASSUME ControlInv, ChainInv, [Next]_vars
             PROVE  ChainInv' /\ [Calls!Next]_(Calls!vars)
    OBVIOUS
<1>1. CASE UNCHANGED vars
    <2>1. UNCHANGED <<pc, tr, child, prog, saved, colors>>
        BY <1>1 DEF vars, cpu, locals
    <2>2. ChainInv' /\ CallStack' = CallStack
        BY <2>1, SameCallers DEF Callers, ChainInv
    <2>3. QED
        BY <2>1, <2>2 DEF Calls!vars
<1>2. ASSUME NEW c \in Contexts, UserStep(c) \/ KernelStep(c)
      PROVE  ChainInv' /\ [Calls!Next]_(Calls!vars)
    BY <1>2, UserNesting, KernelNesting
<1>3. QED
    BY <1>1, <1>2 DEF Next, Stopped

\* Applications nest as procedure calls do: every behaviour of task_exec, with
\* its slots, page tables, TSS links, refusals and faults, is one of ExecStack.
\* An exec that succeeds pushes one activation, the end of the application -
\* by exit or by a fault - pops that activation and restores its colours, and
\* never more than MAX_TASK_COUNT activations exist.
THEOREM CallsNest == Spec => NestedCalls
<1>1. Init => ControlInv /\ ChainInv /\ Calls!Init
    BY InitControl, InitNesting
<1>2. ControlInv /\ ChainInv /\ [Next]_vars
        => (ControlInv /\ ChainInv)' /\ [Calls!Next]_(Calls!vars)
    BY NestingStep, TypeStep, ControlFlowStep, LoadingStep DEF ControlInv, ControlFlow
<1>3. QED
    BY <1>1, <1>2, PTL DEF Spec, NestedCalls, Calls!Spec
=============================================================================
