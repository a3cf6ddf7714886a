-------------------------- MODULE TasksMemoryProof --------------------------
(***************************************************************************)
(* The memory of the tasks, for any number of slots, frames, pages and     *)
(* modules: their address spaces are always disjoint, the frames that are  *)
(* allocated are known exactly, and the image of a task stays in memory.   *)
(*                                                                         *)
(* FrameIsolation alone is not inductive.  task_free works on page_tables, *)
(* so the frames it gives back are the task's own only if page_tables      *)
(* repeats the page directory; a frame taken by frame_alloc is new to      *)
(* every task only if the frames of all tasks, and of the kernel, are      *)
(* marked in the bitmap.                                                   *)
(*                                                                         *)
(* The other two rest on what paging_alloc has done for each task: the     *)
(* pages up to its loop counter are mapped, in tables that were needed for *)
(* them, and nothing else is.  So task_free meets every page and every     *)
(* table of the task it frees, and no table is given back.                 *)
(***************************************************************************)
EXTENDS TasksProof

\* page_tables holds page tables of the directory, and while the machine is up
\* no directory entry holds the error value of frame_alloc.
Recording ==
    \A s \in Slots, j \in PdeIdx : in_use[s] =>
        /\ page_tables[s][j] # 0 => page_tables[s][j] = pagedir[s][j] /\ HasTable(s, j)
        /\ sys = "up" => pagedir[s][j] # BadFrame

MemoryInv == Reserved \subseteq bitmap /\ Recording /\ FrameIsolation

LEMMA InitMemory == Init => MemoryInv
BY DEF Init, MemoryInv, Recording, FrameIsolation, TablesIsolated, PagesIsolated

\* A frame of RAM that frame_alloc returns was not allocated.
LEMMA FreshFrame ==
    ASSUME NEW B, NEW f \in Frames, FrameAlloc(f, B)
    PROVE  f \notin B
BY ConstantFacts DEF FrameAlloc

LEMMA QuietMemory ==
    ASSUME MemoryInv, UNCHANGED <<bitmap, pte, in_use, pagedir, page_tables>>,
           sys' = "up" => sys = "up"
    PROVE  MemoryInv'
BY DEF MemoryInv, Recording, FrameIsolation, TablesIsolated, PagesIsolated, MapsPage,
       HasTable, PageFrame

LEMMA CreateMemory ==
    ASSUME ControlInv, MemoryInv, NEW c \in Contexts, TaskCreate(c)
    PROVE  MemoryInv'
<1> USE ConstantFacts
<1>1. PICK s \in Slots :
        /\ in_use' = [in_use EXCEPT ![s] = TRUE]
        /\ pagedir' = [pagedir EXCEPT ![s] = NoTables]
        /\ page_tables' = [page_tables EXCEPT ![s] = NoTables]
    BY DEF TaskCreate
<1>2. UNCHANGED <<bitmap, pte, sys>>
    BY DEF TaskCreate, memory
<1>3. \A j \in PdeIdx : pagedir'[s][j] = 0 /\ page_tables'[s][j] = 0
    BY <1>1 DEF NoTables, ControlInv, TypeOK
<1>4. \A r \in Slots \ {s} :
        in_use'[r] = in_use[r] /\ pagedir'[r] = pagedir[r] /\ page_tables'[r] = page_tables[r]
    BY <1>1 DEF ControlInv, TypeOK
<1>5. \A j \in PdeIdx : ~HasTable(s, j)'
    BY <1>3 DEF HasTable
<1>6. \A r \in Slots \ {s}, j \in PdeIdx : HasTable(r, j)' <=> HasTable(r, j)
    BY <1>4 DEF HasTable
<1>7. \A r \in Slots \ {s}, j \in PdeIdx, i \in PteIdx :
        (MapsPage(r, j, i)' <=> MapsPage(r, j, i)) /\ PageFrame(r, j, i)' = PageFrame(r, j, i)
    BY <1>2, <1>4, <1>6 DEF MapsPage, PageFrame
<1>8. Recording'
    BY <1>2, <1>3, <1>4, <1>6 DEF MemoryInv, Recording, BadFrame
<1>9. TablesIsolated'
    <2> SUFFICES ASSUME NEW r \in Slots, NEW j \in PdeIdx, in_use'[r], HasTable(r, j)'
                 PROVE  /\ pagedir'[r][j] \in bitmap' \ Reserved
                        /\ \A t \in Slots, k \in PdeIdx :
                            in_use'[t] /\ pagedir'[t][k] = pagedir'[r][j] => t = r /\ k = j
        BY DEF TablesIsolated
    <2>1. r # s /\ in_use[r] /\ HasTable(r, j) /\ pagedir[r][j] # 0
        BY <1>4, <1>5, <1>6 DEF HasTable
    <2>2. QED
        BY <1>2, <1>3, <1>4, <2>1 DEF MemoryInv, FrameIsolation, TablesIsolated
<1>10. PagesIsolated'
    <2> SUFFICES ASSUME NEW r \in Slots, NEW j \in PdeIdx, NEW i \in PteIdx,
                        in_use'[r], MapsPage(r, j, i)'
                 PROVE  /\ PageFrame(r, j, i)' \in bitmap' \ Reserved
                        /\ \A t \in Slots, k \in PdeIdx : in_use'[t] =>
                            /\ pagedir'[t][k] # PageFrame(r, j, i)'
                            /\ \A l \in PteIdx :
                                MapsPage(t, k, l)' /\ PageFrame(t, k, l)' = PageFrame(r, j, i)'
                                    => t = r /\ k = j /\ l = i
        BY DEF PagesIsolated
    <2>1. r # s /\ in_use[r] /\ MapsPage(r, j, i) /\ PageFrame(r, j, i)' = PageFrame(r, j, i)
        BY <1>4, <1>5, <1>7 DEF MapsPage
    <2>2. PageFrame(r, j, i) \in bitmap \ Reserved
        BY <2>1 DEF MemoryInv, FrameIsolation, PagesIsolated
    <2>3. ASSUME NEW t \in Slots, NEW k \in PdeIdx, in_use'[t]
          PROVE  /\ pagedir'[t][k] # PageFrame(r, j, i)
                 /\ \A l \in PteIdx :
                     MapsPage(t, k, l)' /\ PageFrame(t, k, l)' = PageFrame(r, j, i)
                         => t = r /\ k = j /\ l = i
        <3>1. CASE t = s
            BY <1>3, <1>5, <2>2, <3>1 DEF MapsPage
        <3>2. CASE t # s
            BY <1>4, <1>7, <2>1, <2>3, <3>2 DEF MemoryInv, FrameIsolation, PagesIsolated
        <3>3. QED
            BY <3>1, <3>2
    <2>4. QED
        BY <1>2, <2>1, <2>2, <2>3
<1>11. QED
    BY <1>2, <1>8, <1>9, <1>10 DEF MemoryInv, FrameIsolation

\* The slot paging_alloc works for is in use.
LEMMA HeldInUse ==
    ASSUME ControlInv, NEW c \in Contexts, pc[c] \in HoldPcs
    PROVE  child[c] \in Slots /\ in_use[child[c]]
BY DEF ControlInv, Loading, SlotsAccounted, Holds, HoldPcs

\* The two halves of FrameIsolation, for one table and for one page.
LEMMA TableFrame ==
    ASSUME MemoryInv, NEW s \in Slots, NEW j \in PdeIdx, in_use[s], HasTable(s, j)
    PROVE  /\ pagedir[s][j] \in bitmap \ Reserved
           /\ \A t \in Slots, k \in PdeIdx :
                in_use[t] /\ pagedir[t][k] = pagedir[s][j] => t = s /\ k = j
BY DEF MemoryInv, FrameIsolation, TablesIsolated

LEMMA PageFrameIsolated ==
    ASSUME MemoryInv, NEW s \in Slots, NEW j \in PdeIdx, NEW i \in PteIdx,
           in_use[s], MapsPage(s, j, i)
    PROVE  /\ PageFrame(s, j, i) \in bitmap \ Reserved
           /\ \A t \in Slots, k \in PdeIdx : in_use[t] =>
                /\ pagedir[t][k] # PageFrame(s, j, i)
                /\ \A l \in PteIdx :
                    MapsPage(t, k, l) /\ PageFrame(t, k, l) = PageFrame(s, j, i)
                        => t = s /\ k = j /\ l = i
BY DEF MemoryInv, FrameIsolation, PagesIsolated

\* A new frame f (or the error value) is mapped at entry i of table t ...
EntryMapped(t, i, f) ==
    /\ f \notin bitmap /\ t # f
    /\ pte'[t][i] = [frame |-> f, present |-> TRUE]
    /\ \A g \in Frames \ {t, f} : pte'[g] = pte[g]
    /\ f \in Frames => pte'[f] = ZeroFrame

\* ... and no entry of a task but the one at s, j, i has changed.
OthersKept(s, j, i) ==
    \A r \in Slots, k \in PdeIdx, l \in PteIdx :
        in_use[r] /\ HasTable(r, k) /\ ~(r = s /\ k = j /\ l = i)
            => pte'[pagedir[r][k]][l] = pte[pagedir[r][k]][l]

LEMMA MappedEntries ==
    ASSUME ControlInv, MemoryInv,
           NEW s \in Slots, in_use[s], NEW j \in PdeIdx, NEW i \in PteIdx,
           NEW t \in Frames \ {0}, t = pagedir[s][j],
           NEW f \in Frames \union {BadFrame}, FrameAlloc(f, bitmap),
           pte' = Mapped({f}, t, i, f)
    PROVE  EntryMapped(t, i, f) /\ OthersKept(s, j, i)
<1> USE ConstantFacts
<1>1. HasTable(s, j)
    BY DEF HasTable
<1>2. f \notin bitmap
    BY FreshFrame DEF ControlInv, TypeOK
<1>3. \A r \in Slots, k \in PdeIdx : in_use[r] /\ HasTable(r, k) => pagedir[r][k] # f
    BY <1>2, TableFrame
<1>4. t # f
    BY <1>1, <1>3
<1>5. pte'[t][i] = [frame |-> f, present |-> TRUE]
      /\ \A l \in PteIdx \ {i} : pte'[t][l] = pte[t][l]
    <2>1. pte'[t] = [pte[t] EXCEPT ![i] = [frame |-> f, present |-> TRUE]]
        BY <1>4 DEF Mapped
    <2>2. pte[t] \in [PteIdx -> EntryType]
        BY DEF ControlInv, TypeOK
    <2>3. QED
        BY <2>1, <2>2
<1>6. /\ \A g \in Frames \ {t, f} : pte'[g] = pte[g]
      /\ f \in Frames => pte'[f] = ZeroFrame
    BY <1>4 DEF Mapped
<1>7. ASSUME NEW r \in Slots, NEW k \in PdeIdx, NEW l \in PteIdx, in_use[r],
              ~(r = s /\ k = j /\ l = i), HasTable(r, k)
       PROVE  pte'[pagedir[r][k]][l] = pte[pagedir[r][k]][l]
    <2>1. CASE pagedir[r][k] = t
        <3>1. r = s /\ k = j
            BY <1>1, <1>7, <2>1, TableFrame
        <3>2. QED
            BY <1>5, <1>7, <2>1, <3>1
    <2>2. CASE pagedir[r][k] # t
        BY <1>3, <1>6, <1>7, <2>2 DEF HasTable
    <2>3. QED
        BY <2>1, <2>2
<1>8. QED
    <2>1. EntryMapped(t, i, f)
        BY <1>2, <1>4, <1>5, <1>6 DEF EntryMapped
    <2>2. OthersKept(s, j, i)
        BY <1>7, ZenonT(60) DEF OthersKept
    <2>3. QED
        BY <2>1, <2>2

\* Mapping a new frame f (or the error value) at entry i of table j of a task.
LEMMA MapNewFrame ==
    ASSUME ControlInv, MemoryInv, UNCHANGED <<in_use, pagedir, page_tables, sys>>,
           NEW s \in Slots, in_use[s], NEW j \in PdeIdx, NEW i \in PteIdx,
           NEW t \in Frames \ {0}, t = pagedir[s][j],
           NEW f \in Frames \union {BadFrame}, FrameAlloc(f, bitmap),
           bitmap' = Allocated({f}), pte' = Mapped({f}, t, i, f)
    PROVE  MemoryInv'
<1> USE ConstantFacts
<1>1. HasTable(s, j)
    BY DEF HasTable
<1>2. EntryMapped(t, i, f) /\ OthersKept(s, j, i)
    BY MappedEntries
<1>3. bitmap' = bitmap \union ({f} \ {BadFrame})
    BY DEF Allocated
<1>4. ASSUME NEW r \in Slots, NEW k \in PdeIdx, in_use[r], HasTable(r, k)
      PROVE  pagedir[r][k] # f
    BY <1>2, <1>4, TableFrame DEF EntryMapped
<1>5. \A r \in Slots, k \in PdeIdx : HasTable(r, k)' <=> HasTable(r, k)
    BY DEF HasTable
\* only the new entry changes
<1>6. ASSUME NEW r \in Slots, NEW k \in PdeIdx, NEW l \in PteIdx, in_use[r],
              ~(r = s /\ k = j /\ l = i), HasTable(r, k)
       PROVE  pte'[pagedir[r][k]][l] = pte[pagedir[r][k]][l]
    BY <1>2, <1>6 DEF OthersKept
<1>7. ASSUME NEW r \in Slots, NEW k \in PdeIdx, NEW l \in PteIdx, in_use[r],
              ~(r = s /\ k = j /\ l = i)
       PROVE  /\ MapsPage(r, k, l)' <=> MapsPage(r, k, l)
              /\ MapsPage(r, k, l) => PageFrame(r, k, l)' = PageFrame(r, k, l)
    BY <1>5, <1>6, <1>7, SMTT(40) DEF MapsPage, PageFrame
<1>8. PageFrame(s, j, i)' = f
    BY <1>2 DEF EntryMapped, PageFrame
<1>9. Recording'
    BY <1>5 DEF MemoryInv, Recording
<1>10. TablesIsolated'
    BY <1>3, <1>5 DEF MemoryInv, FrameIsolation, TablesIsolated
<1>11. PagesIsolated'
    <2> SUFFICES ASSUME NEW r \in Slots, NEW k \in PdeIdx, NEW l \in PteIdx,
                        in_use'[r], MapsPage(r, k, l)'
                 PROVE  /\ PageFrame(r, k, l)' \in bitmap' \ Reserved
                        /\ \A q \in Slots, m \in PdeIdx : in_use'[q] =>
                            /\ pagedir'[q][m] # PageFrame(r, k, l)'
                            /\ \A n \in PteIdx :
                                MapsPage(q, m, n)' /\ PageFrame(q, m, n)' = PageFrame(r, k, l)'
                                    => q = r /\ m = k /\ n = l
        BY DEF PagesIsolated
    <2>1. CASE r = s /\ k = j /\ l = i
        <3>1. f \in Frames /\ f \notin Reserved /\ f # 0
            BY <1>2, <1>8, <2>1 DEF EntryMapped, MapsPage, PageFrame, MemoryInv
        <3>2. \A q \in Slots, m \in PdeIdx : in_use[q] => pagedir[q][m] # f
            BY <1>4, <3>1 DEF HasTable
        <3>3. \A q \in Slots, m \in PdeIdx, n \in PteIdx :
                in_use[q] /\ MapsPage(q, m, n) => PageFrame(q, m, n) # f
            BY <1>2, PageFrameIsolated DEF EntryMapped
        <3>4. QED
            BY <1>3, <1>7, <1>8, <2>1, <3>1, <3>2, <3>3
    <2>2. CASE ~(r = s /\ k = j /\ l = i)
        <3>1. in_use[r] /\ MapsPage(r, k, l) /\ PageFrame(r, k, l)' = PageFrame(r, k, l)
            BY <1>7, <2>2
        <3>2. /\ PageFrame(r, k, l) \in bitmap \ Reserved
              /\ \A q \in Slots, m \in PdeIdx : in_use[q] =>
                    /\ pagedir[q][m] # PageFrame(r, k, l)
                    /\ \A n \in PteIdx :
                        MapsPage(q, m, n) /\ PageFrame(q, m, n) = PageFrame(r, k, l)
                            => q = r /\ m = k /\ n = l
            BY <3>1, PageFrameIsolated, Zenon
        <3>3. PageFrame(r, k, l) # f
            BY <1>2, <3>2 DEF EntryMapped
        <3>4. ASSUME NEW q \in Slots, NEW m \in PdeIdx, in_use[q]
               PROVE  \A n \in PteIdx :
                        MapsPage(q, m, n)' /\ PageFrame(q, m, n)' = PageFrame(r, k, l)
                            => q = r /\ m = k /\ n = l
            BY <1>7, <1>8, <3>2, <3>3, <3>4
        <3>5. QED
            BY <1>3, <3>1, <3>2, <3>4
    <2>3. QED
        BY <2>1, <2>2
<1>12. QED
    BY <1>3, <1>9, <1>10, <1>11 DEF MemoryInv, FrameIsolation

LEMMA AllocMemory ==
    ASSUME ControlInv, MemoryInv, NEW c \in Contexts, PagingAlloc(c)
    PROVE  MemoryInv'
<1>1. PICK s \in Slots, j \in PdeIdx, i \in PteIdx :
        s = child[c] /\ j = page[c] \div PAGES_IN_PT /\ i = page[c] % PAGES_IN_PT
    BY PageIndex DEF PagingAlloc, ControlInv
<1>2. in_use[s]
    BY <1>1, HeldInUse DEF PagingAlloc, HoldPcs, ExecPcs
<1>3. PICK f \in Frames \union {BadFrame} :
        /\ FrameAlloc(f, bitmap)
        /\ bitmap' = Allocated({f})
        /\ pte' = Mapped({f}, pagedir[s][j], i, f)
    BY <1>1 DEF PagingAlloc
<1>4. pagedir[s][j] # 0 /\ sys = "up" /\ UNCHANGED <<in_use, pagedir, page_tables, sys>>
    BY <1>1 DEF PagingAlloc, Running, slots
<1>5. pagedir[s][j] \in Frames \ {0}
    BY <1>2, <1>4 DEF MemoryInv, Recording, ControlInv, TypeOK, TableType
<1>6. QED
    BY <1>2, <1>3, <1>4, <1>5, MapNewFrame

\* A new page table t whose entry i maps a new frame f.
LEMMA MapNewTable ==
    ASSUME ControlInv, MemoryInv, UNCHANGED <<in_use, sys>>,
           NEW s \in Slots, in_use[s], NEW j \in PdeIdx, NEW i \in PteIdx,
           NEW f \in Frames, f \notin bitmap, NEW t \in Frames, t \notin bitmap, t # f,
           bitmap' = Allocated({f, t}), pte' = Mapped({f, t}, t, i, f),
           pagedir' = [pagedir EXCEPT ![s][j] = t],
           page_tables' = [page_tables EXCEPT ![s][j] = t]
    PROVE  MemoryInv'
<1> USE ConstantFacts
<1>1. bitmap' = bitmap \union {f, t} /\ t # 0 /\ f # 0 /\ t \notin Reserved /\ f \notin Reserved
    BY DEF Allocated, MemoryInv
<1>2. /\ pagedir'[s][j] = t /\ page_tables'[s][j] = t
      /\ \A r \in Slots, k \in PdeIdx : ~(r = s /\ k = j) =>
            pagedir'[r][k] = pagedir[r][k] /\ page_tables'[r][k] = page_tables[r][k]
    BY DEF ControlInv, TypeOK, TableType
<1>3. /\ HasTable(s, j)'
      /\ \A r \in Slots, k \in PdeIdx : ~(r = s /\ k = j) =>
            (HasTable(r, k)' <=> HasTable(r, k))
    BY <1>1, <1>2 DEF HasTable
<1>4. \A r \in Slots, k \in PdeIdx : in_use[r] /\ HasTable(r, k) =>
        pagedir[r][k] # f /\ pagedir[r][k] # t
    BY TableFrame
<1>5. /\ pte'[t][i] = [frame |-> f, present |-> TRUE]
      /\ \A l \in PteIdx \ {i} : ~pte'[t][l].present
    <2>1. pte'[t] = [ZeroFrame EXCEPT ![i] = [frame |-> f, present |-> TRUE]]
        BY DEF Mapped
    <2>2. pte'[t][i] = [frame |-> f, present |-> TRUE]
        BY <2>1 DEF ZeroFrame
    <2>3. \A l \in PteIdx \ {i} : pte'[t][l] = NoEntry
        BY <2>1 DEF ZeroFrame
    <2>4. ~NoEntry.present
        BY DEF NoEntry
    <2>5. QED
        BY <2>2, <2>3, <2>4
<1>6. \A g \in Frames \ {t, f} : pte'[g] = pte[g]
    BY DEF Mapped
\* an entry of another table is what it was, and table t has the one entry i
<1>7. ASSUME NEW r \in Slots, NEW k \in PdeIdx, NEW l \in PteIdx, in_use[r],
             ~(r = s /\ k = j)
      PROVE  /\ MapsPage(r, k, l)' <=> MapsPage(r, k, l)
             /\ MapsPage(r, k, l) => PageFrame(r, k, l)' = PageFrame(r, k, l)
    <2>1. CASE HasTable(r, k)
        <3>1. pte'[pagedir'[r][k]] = pte[pagedir[r][k]]
            BY <1>2, <1>4, <1>6, <1>7, <2>1, ZenonT(40) DEF HasTable
        <3>2. QED
            BY <1>3, <1>7, <2>1, <3>1 DEF MapsPage, PageFrame
    <2>2. CASE ~HasTable(r, k)
        BY <1>3, <1>7, <2>2 DEF MapsPage
    <2>3. QED
        BY <2>1, <2>2
<1>8. PageFrame(s, j, i)' = f /\ \A l \in PteIdx : MapsPage(s, j, l)' => l = i
    <2>1. PageFrame(s, j, i)' = f
        BY <1>2, <1>5 DEF PageFrame
    <2>2. ASSUME NEW l \in PteIdx \ {i} PROVE ~MapsPage(s, j, l)'
        BY <1>2, <1>5 DEF MapsPage
    <2>3. QED
        BY <2>1, <2>2
<1>9. Recording'
    <2> SUFFICES ASSUME NEW r \in Slots, NEW k \in PdeIdx, in_use[r]
                 PROVE  /\ page_tables'[r][k] # 0 =>
                            page_tables'[r][k] = pagedir'[r][k] /\ HasTable(r, k)'
                        /\ sys = "up" => pagedir'[r][k] # BadFrame
        BY DEF Recording
    <2>1. CASE r = s /\ k = j
        BY <1>2, <1>3, <2>1
    <2>2. CASE ~(r = s /\ k = j)
        BY <1>2, <1>3, <2>2 DEF MemoryInv, Recording
    <2>3. QED
        BY <2>1, <2>2
<1>10. TablesIsolated'
    <2> SUFFICES ASSUME NEW r \in Slots, NEW k \in PdeIdx, in_use'[r], HasTable(r, k)'
                 PROVE  /\ pagedir'[r][k] \in bitmap' \ Reserved
                        /\ \A q \in Slots, m \in PdeIdx :
                            in_use'[q] /\ pagedir'[q][m] = pagedir'[r][k] => q = r /\ m = k
        BY DEF TablesIsolated
    <2>1. \A q \in Slots, m \in PdeIdx : in_use[q] => pagedir[q][m] # t
        BY <1>1, <1>4 DEF HasTable
    <2>2. CASE r = s /\ k = j
        <3>1. pagedir'[r][k] = t /\ t \in bitmap' \ Reserved
            BY <1>1, <1>2, <2>2
        <3>2. ASSUME NEW q \in Slots, NEW m \in PdeIdx, in_use'[q], pagedir'[q][m] = t,
                     ~(q = s /\ m = j)
              PROVE  FALSE
            BY <1>2, <2>1, <3>2
        <3>3. QED
            BY <2>2, <3>1, <3>2
    <2>3. CASE ~(r = s /\ k = j)
        <3>1. HasTable(r, k) /\ in_use[r] /\ pagedir'[r][k] = pagedir[r][k]
            BY <1>2, <1>3, <2>3
        <3>2. pagedir'[r][k] \in bitmap' \ Reserved
            BY <1>1, <3>1, TableFrame
        <3>3. pagedir'[s][j] # pagedir'[r][k]
            BY <1>2, <1>4, <3>1
        <3>4. ASSUME NEW q \in Slots, NEW m \in PdeIdx, in_use'[q],
                     pagedir'[q][m] = pagedir'[r][k]
              PROVE  q = r /\ m = k
            <4>1. pagedir[q][m] = pagedir[r][k] /\ in_use[q]
                BY <1>2, <3>1, <3>3, <3>4
            <4>2. QED
                BY <3>1, <4>1, TableFrame
        <3>5. QED
            BY <3>2, <3>4
    <2>4. QED
        BY <2>2, <2>3
<1>11. PagesIsolated'
    <2> SUFFICES ASSUME NEW r \in Slots, NEW k \in PdeIdx, NEW l \in PteIdx,
                        in_use'[r], MapsPage(r, k, l)'
                 PROVE  /\ PageFrame(r, k, l)' \in bitmap' \ Reserved
                        /\ \A q \in Slots, m \in PdeIdx : in_use'[q] =>
                            /\ pagedir'[q][m] # PageFrame(r, k, l)'
                            /\ \A n \in PteIdx :
                                MapsPage(q, m, n)' /\ PageFrame(q, m, n)' = PageFrame(r, k, l)'
                                    => q = r /\ m = k /\ n = l
        BY DEF PagesIsolated
    <2>1. CASE r = s /\ k = j
        <3>1. l = i /\ PageFrame(r, k, l)' = f
            BY <1>8, <2>1
        <3>2. \A q \in Slots, m \in PdeIdx : in_use[q] => pagedir[q][m] # f
            BY <1>1, <1>4 DEF HasTable
        <3>3. \A q \in Slots, m \in PdeIdx, n \in PteIdx :
                in_use[q] /\ MapsPage(q, m, n) => PageFrame(q, m, n) # f
            BY PageFrameIsolated
        <3>4. ASSUME NEW q \in Slots, NEW m \in PdeIdx, in_use[q]
              PROVE  /\ pagedir'[q][m] # f
                     /\ \A n \in PteIdx : MapsPage(q, m, n)' /\ PageFrame(q, m, n)' = f
                            => q = s /\ m = j /\ n = i
            <4>1. CASE q = s /\ m = j
                BY <1>2, <1>8, <4>1
            <4>2. CASE ~(q = s /\ m = j)
                BY <1>2, <1>7, <3>2, <3>3, <3>4, <4>2
            <4>3. QED
                BY <4>1, <4>2
        <3>5. QED
            BY <1>1, <2>1, <3>1, <3>4
    <2>2. CASE ~(r = s /\ k = j)
        <3>1. /\ in_use[r] /\ MapsPage(r, k, l)
              /\ PageFrame(r, k, l)' = PageFrame(r, k, l)
            BY <1>7, <2>2
        <3>2. PageFrame(r, k, l) \in bitmap \ Reserved
            BY <3>1, PageFrameIsolated
        <3>3. ASSUME NEW q \in Slots, NEW m \in PdeIdx, in_use[q]
              PROVE  /\ pagedir'[q][m] # PageFrame(r, k, l)
                     /\ \A n \in PteIdx :
                            MapsPage(q, m, n)' /\ PageFrame(q, m, n)' = PageFrame(r, k, l)
                                => q = r /\ m = k /\ n = l
            <4>1. CASE q = s /\ m = j
                BY <1>2, <1>8, <3>2, <4>1
            <4>2. CASE ~(q = s /\ m = j)
                BY <1>2, <1>7, <3>1, <3>3, <4>2, PageFrameIsolated
            <4>3. QED
                BY <4>1, <4>2
        <3>4. QED
            BY <1>1, <3>1, <3>2, <3>3
    <2>3. QED
        BY <2>1, <2>2
<1>12. QED
    BY <1>1, <1>9, <1>10, <1>11 DEF MemoryInv, FrameIsolation

LEMMA AllocTableMemory ==
    ASSUME ControlInv, MemoryInv, NEW c \in Contexts, PagingAllocTable(c)
    PROVE  MemoryInv'
<1>1. PICK s \in Slots, j \in PdeIdx, i \in PteIdx :
        s = child[c] /\ j = page[c] \div PAGES_IN_PT /\ i = page[c] % PAGES_IN_PT
    BY PageIndex DEF PagingAllocTable, ControlInv
<1>2. in_use[s] /\ UNCHANGED <<in_use, sys>>
    BY <1>1, HeldInUse DEF PagingAllocTable, HoldPcs, ExecPcs
<1>3. PICK f \in Frames, t \in Frames :
        /\ FrameAlloc(f, bitmap)
        /\ FrameAlloc(t, Allocated({f}))
        /\ bitmap' = Allocated({f, t})
        /\ pte' = Mapped({f, t}, t, i, f)
        /\ pagedir' = [pagedir EXCEPT ![s][j] = t]
        /\ page_tables' = [page_tables EXCEPT ![s][j] = t]
    BY <1>1 DEF PagingAllocTable
<1>4. f \notin bitmap /\ t \notin Allocated({f})
    BY <1>3, FreshFrame
<1>5. t \notin bitmap /\ t # f
    BY <1>4, ConstantFacts DEF Allocated
<1>6. QED
    BY <1>2, <1>3, <1>4, <1>5, MapNewTable

\* When no frame is left for a page table, the last frame may go to the page,
\* and the directory entry holds the error value: the machine stops.
LEMMA AllocFailsMemory ==
    ASSUME ControlInv, MemoryInv, NEW c \in Contexts, PagingAllocFails(c)
    PROVE  MemoryInv'
<1> USE ConstantFacts
<1>1. PICK s \in Slots, j \in PdeIdx :
        s = child[c] /\ j = page[c] \div PAGES_IN_PT
    BY PageIndex DEF PagingAllocFails, ControlInv
<1>2. pagedir[s][j] = 0 /\ pagedir' = [pagedir EXCEPT ![s][j] = BadFrame]
    BY <1>1 DEF PagingAllocFails
<1>3. sys' # "up" /\ UNCHANGED <<in_use, page_tables>>
    BY DEF PagingAllocFails, KernelException
<1>4. PICK f \in Frames \union {BadFrame} :
        /\ FrameAlloc(f, bitmap)
        /\ bitmap' = Allocated({f})
        /\ pte' = [g \in Frames |-> IF g = f THEN ZeroFrame ELSE pte[g]]
    BY DEF PagingAllocFails
<1>5. f \notin bitmap
    BY <1>4, FreshFrame DEF ControlInv, TypeOK
<1>6. bitmap \subseteq bitmap'
    BY <1>4 DEF Allocated
<1>7. /\ pagedir'[s][j] = BadFrame /\ ~HasTable(s, j) /\ ~HasTable(s, j)'
      /\ \A r \in Slots, k \in PdeIdx : ~(r = s /\ k = j) => pagedir'[r][k] = pagedir[r][k]
    BY <1>2 DEF HasTable, ControlInv, TypeOK, TableType
<1>8. \A r \in Slots, k \in PdeIdx : HasTable(r, k)' <=> HasTable(r, k)
    BY <1>7 DEF HasTable
<1>9. ASSUME NEW r \in Slots, NEW k \in PdeIdx, in_use[r], HasTable(r, k)
      PROVE  ~(r = s /\ k = j) /\ pagedir'[r][k] = pagedir[r][k]
             /\ pte'[pagedir[r][k]] = pte[pagedir[r][k]]
    BY <1>4, <1>5, <1>7, <1>9, TableFrame DEF HasTable
<1>10. ASSUME NEW r \in Slots, NEW k \in PdeIdx, NEW l \in PteIdx, in_use[r]
       PROVE  /\ MapsPage(r, k, l)' <=> MapsPage(r, k, l)
              /\ MapsPage(r, k, l) => PageFrame(r, k, l)' = PageFrame(r, k, l)
    BY <1>8, <1>9, <1>10 DEF MapsPage, PageFrame
<1>11. Recording'
    <2>1. \A r \in Slots, k \in PdeIdx : in_use[r] /\ page_tables[r][k] # 0 =>
            page_tables[r][k] = pagedir'[r][k] /\ HasTable(r, k)'
        BY <1>8, <1>9 DEF MemoryInv, Recording
    <2>2. QED
        BY <1>3, <2>1 DEF Recording
<1>12. TablesIsolated'
    <2> SUFFICES ASSUME NEW r \in Slots, NEW k \in PdeIdx, in_use'[r], HasTable(r, k)'
                 PROVE  /\ pagedir'[r][k] \in bitmap' \ Reserved
                        /\ \A q \in Slots, m \in PdeIdx :
                            in_use'[q] /\ pagedir'[q][m] = pagedir'[r][k] => q = r /\ m = k
        BY DEF TablesIsolated
    <2>1. in_use[r] /\ HasTable(r, k) /\ pagedir'[r][k] = pagedir[r][k]
        BY <1>3, <1>8, <1>9
    <2>2. pagedir[r][k] # BadFrame
        BY <2>1 DEF HasTable
    <2>3. QED
        BY <1>3, <1>6, <1>7, <2>1, <2>2, TableFrame
<1>13. PagesIsolated'
    <2> SUFFICES ASSUME NEW r \in Slots, NEW k \in PdeIdx, NEW l \in PteIdx,
                        in_use'[r], MapsPage(r, k, l)'
                 PROVE  /\ PageFrame(r, k, l)' \in bitmap' \ Reserved
                        /\ \A q \in Slots, m \in PdeIdx : in_use'[q] =>
                            /\ pagedir'[q][m] # PageFrame(r, k, l)'
                            /\ \A n \in PteIdx :
                                MapsPage(q, m, n)' /\ PageFrame(q, m, n)' = PageFrame(r, k, l)'
                                    => q = r /\ m = k /\ n = l
        BY DEF PagesIsolated
    <2>1. in_use[r] /\ MapsPage(r, k, l) /\ PageFrame(r, k, l)' = PageFrame(r, k, l)
        BY <1>3, <1>10
    <2>2. PageFrame(r, k, l) \in Frames
        BY <2>1 DEF MapsPage, PageFrame
    <2>3. QED
        BY <1>3, <1>6, <1>7, <1>10, <2>1, <2>2, PageFrameIsolated
<1>14. QED
    BY <1>6, <1>11, <1>12, <1>13 DEF MemoryInv, FrameIsolation

LEMMA VisitedTable ==
    ASSUME NEW s \in Slots, NEW j \in Visited(s)
    PROVE  j \in PdeIdx /\ page_tables[s][j] # 0 /\ pte[page_tables[s][j]][0].present
<1>1. j \in Recorded(s) /\ pte[page_tables[s][j]][0].present
    BY DEF Visited
<1>2. j \in PdeIdx /\ \A k \in 0 .. j : page_tables[s][k] # 0
    BY <1>1 DEF Recorded
<1>3. j \in 0 .. j
    BY <1>2 DEF PdeIdx
<1>4. QED
    BY <1>1, <1>2, <1>3

\* Every frame task_free gives back is a page of the task.
LEMMA FreedPages ==
    ASSUME ControlInv, MemoryInv, NEW s \in Slots, in_use[s],
           NEW f \in FreedFrames(s), f \in Frames
    PROVE  \E j \in PdeIdx, i \in PteIdx : MapsPage(s, j, i) /\ PageFrame(s, j, i) = f
<1> USE ConstantFacts
<1>1. PICK j \in Visited(s), i \in PteIdx :
        /\ pte[page_tables[s][j]][i].frame = f
        /\ pte[page_tables[s][j]][i].present \/ i = 0
    BY DEF FreedFrames
<1>2. j \in PdeIdx /\ page_tables[s][j] # 0 /\ pte[page_tables[s][j]][0].present
    BY VisitedTable
<1>3. page_tables[s][j] = pagedir[s][j] /\ HasTable(s, j)
    BY <1>2 DEF MemoryInv, Recording
<1>4. QED
    BY <1>1, <1>2, <1>3 DEF MapsPage, PageFrame

LEMMA FreeMemory ==
    ASSUME ControlInv, MemoryInv, NEW c \in Contexts, TaskFree(c)
    PROVE  MemoryInv'
<1> USE ConstantFacts
<1>1. PICK s \in Slots : s = child[c] /\ in_use[s]
    BY HeldInUse DEF TaskFree, HoldPcs, ExecPcs
<1>2. /\ bitmap' = bitmap \ FreedFrames(s)
      /\ pte' = ClearedTables(s)
      /\ in_use' = [in_use EXCEPT ![s] = FALSE]
      /\ UNCHANGED <<pagedir, page_tables>>
      /\ sys = "up"
    BY <1>1 DEF TaskFree, Running
<1>3. \A r \in Slots : in_use'[r] => in_use[r] /\ r # s
    BY <1>2 DEF ControlInv, TypeOK
\* no frame of another task, nor of the kernel, is given back
<1>4. ASSUME NEW f \in FreedFrames(s), f \in Frames
      PROVE  /\ f \notin Reserved
             /\ \A r \in Slots \ {s}, k \in PdeIdx : in_use[r] =>
                    /\ pagedir[r][k] # f
                    /\ \A l \in PteIdx : MapsPage(r, k, l) => PageFrame(r, k, l) # f
    <2>1. PICK j \in PdeIdx, i \in PteIdx : MapsPage(s, j, i) /\ PageFrame(s, j, i) = f
        BY <1>1, <1>4, FreedPages
    <2>2. f \in bitmap \ Reserved
        BY <1>1, <2>1, PageFrameIsolated
    <2>3. ASSUME NEW r \in Slots \ {s}, NEW k \in PdeIdx, in_use[r]
          PROVE  /\ pagedir[r][k] # f
                 /\ \A l \in PteIdx : MapsPage(r, k, l) => PageFrame(r, k, l) # f
        BY <1>1, <2>1, <2>3, PageFrameIsolated
    <2>4. QED
        BY <2>2, <2>3
<1>5. ASSUME NEW r \in Slots \ {s}, NEW k \in PdeIdx, in_use[r], HasTable(r, k)
      PROVE  pagedir[r][k] \notin FreedFrames(s)
    BY <1>4, <1>5 DEF HasTable
<1>6. ASSUME NEW r \in Slots \ {s}, NEW k \in PdeIdx, NEW l \in PteIdx,
             in_use[r], MapsPage(r, k, l)
      PROVE  PageFrame(r, k, l) \notin FreedFrames(s)
    BY <1>4, <1>6 DEF MapsPage, PageFrame
\* no entry of another task changes
<1>7. ASSUME NEW r \in Slots \ {s}, NEW k \in PdeIdx, in_use[r], HasTable(r, k)
      PROVE  pte'[pagedir[r][k]] = pte[pagedir[r][k]]
    <2>1. ASSUME NEW j \in Visited(s), page_tables[s][j] = pagedir[r][k] PROVE FALSE
        <3>1. j \in PdeIdx /\ page_tables[s][j] # 0
            BY VisitedTable
        <3>2. page_tables[s][j] = pagedir[s][j]
            BY <1>1, <3>1 DEF MemoryInv, Recording
        <3>3. QED
            BY <1>1, <1>7, <2>1, <3>1, <3>2, TableFrame, ZenonT(40)
    <2>2. QED
        BY <1>2, <1>7, <2>1 DEF ClearedTables, HasTable
<1>8. ASSUME NEW r \in Slots \ {s}, NEW k \in PdeIdx, NEW l \in PteIdx, in_use[r]
      PROVE  /\ HasTable(r, k)' <=> HasTable(r, k)
             /\ MapsPage(r, k, l)' <=> MapsPage(r, k, l)
             /\ MapsPage(r, k, l) => PageFrame(r, k, l)' = PageFrame(r, k, l)
    BY <1>2, <1>7, <1>8 DEF MapsPage, PageFrame, HasTable
<1>9. Reserved \subseteq bitmap'
    BY <1>2, <1>4 DEF MemoryInv
<1>10. Recording'
    BY <1>2, <1>3 DEF MemoryInv, Recording, HasTable
<1>11. TablesIsolated'
    <2> SUFFICES ASSUME NEW r \in Slots, NEW k \in PdeIdx, in_use'[r], HasTable(r, k)'
                 PROVE  /\ pagedir'[r][k] \in bitmap' \ Reserved
                        /\ \A q \in Slots, m \in PdeIdx :
                            in_use'[q] /\ pagedir'[q][m] = pagedir'[r][k] => q = r /\ m = k
        BY DEF TablesIsolated
    <2>1. r # s /\ in_use[r] /\ HasTable(r, k)
        BY <1>2, <1>3 DEF HasTable
    <2>2. QED
        BY <1>2, <1>3, <1>5, <2>1, TableFrame
<1>12. PagesIsolated'
    <2> SUFFICES ASSUME NEW r \in Slots, NEW k \in PdeIdx, NEW l \in PteIdx,
                        in_use'[r], MapsPage(r, k, l)'
                 PROVE  /\ PageFrame(r, k, l)' \in bitmap' \ Reserved
                        /\ \A q \in Slots, m \in PdeIdx : in_use'[q] =>
                            /\ pagedir'[q][m] # PageFrame(r, k, l)'
                            /\ \A n \in PteIdx :
                                MapsPage(q, m, n)' /\ PageFrame(q, m, n)' = PageFrame(r, k, l)'
                                    => q = r /\ m = k /\ n = l
        BY DEF PagesIsolated
    <2>1. r # s /\ in_use[r] /\ MapsPage(r, k, l) /\ PageFrame(r, k, l)' = PageFrame(r, k, l)
        BY <1>3, <1>8
    <2>2. QED
        BY <1>2, <1>3, <1>6, <1>8, <2>1, PageFrameIsolated
<1>13. QED
    BY <1>9, <1>10, <1>11, <1>12 DEF MemoryInv, FrameIsolation

LEMMA MemoryStep == ControlInv /\ MemoryInv /\ [Next]_vars => MemoryInv'
<1> SUFFICES ASSUME ControlInv, MemoryInv, [Next]_vars PROVE MemoryInv'
    OBVIOUS
<1>1. ASSUME NEW c \in Contexts, UserStep(c) PROVE MemoryInv'
    BY <1>1, QuietMemory
    DEF UserStep, Exec, SetColors, Fault, Exit, TaskReturn, Running, memory, slots
<1>2. ASSUME NEW c \in Contexts, TaskCreate(c) PROVE MemoryInv'
    BY <1>2, CreateMemory
<1>3. ASSUME NEW c \in Contexts, PagingAlloc(c) PROVE MemoryInv'
    BY <1>3, AllocMemory
<1>4. ASSUME NEW c \in Contexts, PagingAllocTable(c) PROVE MemoryInv'
    BY <1>4, AllocTableMemory
<1>5. ASSUME NEW c \in Contexts, PagingAllocFails(c) PROVE MemoryInv'
    BY <1>5, AllocFailsMemory
<1>6. ASSUME NEW c \in Contexts, TaskFree(c) PROVE MemoryInv'
    BY <1>6, FreeMemory
<1>7. ASSUME NEW c \in Contexts,
             TaskLoadFails(c) \/ CopyImage(c) \/ RestorePagedir(c) \/ TaskSwitch(c)
       PROVE MemoryInv'
    BY <1>7, QuietMemory
    DEF TaskLoadFails, ExecReturns, CopyImage, RestorePagedir, TaskSwitch, Running, memory, slots
<1>8. ASSUME NEW c \in Contexts, Handled(c) \/ PatchedIret(c) \/ ExceptionHandlerFaults(c)
      PROVE MemoryInv'
    <2>1. UNCHANGED <<memory, slots>> /\ (sys' = "up" => sys = "up")
        BY <1>8, HandledStep
        DEF PatchedIret, TaskReturn, ExceptionHandlerFaults, Running
    <2>2. QED
        BY <2>1, QuietMemory DEF memory, slots
<1>9. CASE UNCHANGED vars
    BY <1>9, QuietMemory DEF vars, memory, slots
<1>10. QED
    BY <1>1, <1>2, <1>3, <1>4, <1>5, <1>6, <1>7, <1>8, <1>9
    DEF Next, KernelStep, Handled, Stopped

\* The frames of the tasks that exist - page tables and pages - are always
\* allocated, not the kernel's, and each in one place of one address space:
\* paging_alloc and task_free never give a frame twice or take one in use.
THEOREM FramesIsolated == Spec => []FrameIsolation
<1>1. Init => ControlInv /\ MemoryInv
    BY InitControl, InitMemory
<1>2. ControlInv /\ MemoryInv /\ [Next]_vars => (ControlInv /\ MemoryInv)'
    BY MemoryStep, TypeStep, ControlFlowStep, LoadingStep DEF ControlInv, ControlFlow
<1>3. ControlInv /\ MemoryInv => FrameIsolation
    BY DEF MemoryInv
<1>4. QED
    BY <1>1, <1>2, <1>3, PTL DEF Spec

---------------------------------------------------------------------------
(* Page numbers, directory indexes and table indexes.                      *)

LEMMA DivMod ==
    ASSUME NEW d \in Nat \ {0}, NEW n \in Nat
    PROVE  /\ n \div d \in Nat /\ n % d \in 0 .. d - 1
           /\ n = d * (n \div d) + (n % d)
OBVIOUS

\* A page is at one place of one table.
LEMMA PlaceOfPage ==
    ASSUME NEW d \in Nat \ {0}, NEW n \in Nat, NEW m \in Nat,
           n \div d = m \div d, n % d = m % d
    PROVE  n = m
BY DivMod

\* The first page of table k, and the pages it comes before.
LEMMA FirstPage ==
    ASSUME NEW d \in Nat \ {0}, NEW k \in Nat
    PROVE  k * d \in Nat /\ (k * d) \div d = k /\ (k * d) % d = 0
OBVIOUS

LEMMA FirstPageBelow ==
    ASSUME NEW d \in Nat \ {0}, NEW n \in Nat, NEW k \in Nat, k <= n \div d
    PROVE  k * d <= n
BY DivMod

\* The page before one that is not the first of its table is in the same table.
LEMMA PreviousPage ==
    ASSUME NEW d \in Nat \ {0}, NEW n \in Nat, n % d # 0
    PROVE  n - 1 \in Nat /\ (n - 1) \div d = n \div d
OBVIOUS

\* Every page of a module has an entry in the user area.
LEMMA PlaceInUserArea ==
    ASSUME NEW m \in Modules, NEW v \in 0 .. Pages[m] - 1
    PROVE  v \in Nat /\ v \div PAGES_IN_PT \in PdeIdx /\ v % PAGES_IN_PT \in PteIdx
<1>1. Pages[m] \in Nat /\ PAGES_IN_PT \in Nat \ {0}
    BY ModulesAssumption, SizesAssumption
<1>2. v \in Nat
    BY <1>1
<1>3. v % PAGES_IN_PT \in 0 .. PAGES_IN_PT - 1
    BY <1>1, <1>2, DivMod
<1>4. QED
    BY <1>2, <1>3, ModulesAssumption DEF PteIdx

---------------------------------------------------------------------------
(* The inductive invariant.                                                *)

EntryPresent(s, j, i) == HasTable(s, j) /\ pte[pagedir[s][j]][i].present

\* The first n pages of slot s are mapped, in tables that ...
PagesMapped(s, n) ==
    \A v \in 0 .. n - 1 : EntryPresent(s, v \div PAGES_IN_PT, v % PAGES_IN_PT)

\* ... hold at least one of them, and ...
TablesNeeded(s, n) ==
    \A j \in PdeIdx : pagedir[s][j] # 0 => \E v \in 0 .. n - 1 : j = v \div PAGES_IN_PT

\* ... nothing else.
NothingElse(s, n) ==
    \A j \in PdeIdx, i \in PteIdx :
        EntryPresent(s, j, i) => \E v \in 0 .. n - 1 : j = v \div PAGES_IN_PT /\ i = v % PAGES_IN_PT

Populates(s, n) == PagesMapped(s, n) /\ TablesNeeded(s, n) /\ NothingElse(s, n)

\* paging_alloc has mapped page[c] pages for the task of c; all when it is done.
Populated ==
    \A c \in Contexts : pc[c] \in HoldPcs =>
        /\ Populates(child[c], page[c])
        /\ pc[c] # "alloc" => page[c] = Pages[prog[c]]

\* Every table of a task is recorded for task_free, and no page is at frame 0.
RecordedFor(s) ==
    \A j \in PdeIdx :
        /\ page_tables[s][j] = pagedir[s][j]
        /\ \A i \in PteIdx : EntryPresent(s, j, i) => PageFrame(s, j, i) # 0
TablesRecorded == \A s \in Slots : in_use[s] => RecordedFor(s)

LiveNotAbandoned == \A f \in LiveFrames : f \notin Abandoned

AccountInv ==
    sys = "up" => Populated /\ TablesRecorded /\ LiveNotAbandoned /\ BitmapAccounted

FramesInv == AccountInv /\ ImageIntact

\* Frame f is a table or a page of slot s.
TableAt(f, s, j) == HasTable(s, j) /\ pagedir[s][j] = f
PageAt(f, s, j, i) == MapsPage(s, j, i) /\ PageFrame(s, j, i) = f
Owns(s, f) ==
    \E j \in PdeIdx : TableAt(f, s, j) \/ \E i \in PteIdx : PageAt(f, s, j, i)

LiveFramesOwned ==
    \A f : f \in LiveFrames <=> f \in Frames /\ \E s \in Slots : in_use[s] /\ Owns(s, f)

LEMMA LiveOwned == LiveFramesOwned
<1>1. \A s \in Slots : \A f : f \in TablesOf(s) <=> f \in Frames /\ \E j \in PdeIdx : TableAt(f, s, j)
    BY DEF TablesOf, TableAt, HasTable
<1>2. \A s \in Slots : \A f : f \in PagesOf(s) <=>
        f \in Frames /\ \E j \in PdeIdx, i \in PteIdx : PageAt(f, s, j, i)
    BY DEF PagesOf, PageAt
<1>3. \A f : f \in LiveFrames <=>
        \E s \in Slots : in_use[s] /\ (f \in TablesOf(s) \/ f \in PagesOf(s))
    BY DEF LiveFrames
<1>4. QED
    BY <1>1, <1>2, <1>3 DEF Owns, LiveFramesOwned

LEMMA LiveOwnedNext == LiveFramesOwned'
BY LiveOwned, PTL

---------------------------------------------------------------------------
(* Steps that leave memory alone.                                          *)

LEMMA InitFrames == Init => FramesInv
<1> SUFFICES ASSUME Init PROVE FramesInv
    OBVIOUS
<1>1. \A c \in Contexts : pc[c] \in {"load", "idle"}
    BY DEF Init
<1>2. Populated /\ ImageIntact
    BY <1>1 DEF Populated, HoldPcs, ExecPcs, ImageIntact
<1>3. TablesRecorded
    BY DEF Init, TablesRecorded, RecordedFor
<1>4. LiveFrames = {}
    BY LiveOwned DEF LiveFramesOwned, Init
<1>5. Abandoned = {}
    <2>1. ASSUME NEW f \in Frames PROVE pte[f][0].frame = 0
        <3>1. pte[f] = ZeroFrame
            BY DEF Init
        <3>2. ZeroFrame[0] = NoEntry /\ NoEntry.frame = 0
            BY ConstantFacts DEF ZeroFrame, NoEntry
        <3>3. QED
            BY <3>1, <3>2
    <2>2. QED
        BY <2>1 DEF Abandoned
<1>6. BitmapAccounted
    BY <1>4, <1>5 DEF BitmapAccounted, Init
<1>7. QED
    BY <1>2, <1>3, <1>4, <1>6 DEF FramesInv, AccountInv, LiveNotAbandoned

\* No context begins to hold a task, and none gets further with it than before.
HoldsKept ==
    \A c \in Contexts : pc'[c] \in HoldPcs =>
        /\ pc[c] \in HoldPcs
        /\ child'[c] = child[c] /\ page'[c] = page[c] /\ prog'[c] = prog[c]
        /\ pc'[c] # "alloc" => pc[c] # "alloc"
ImagePcs == {"restore", "switch", "wait"}
ImagesKept ==
    \A c \in Contexts : pc'[c] \in ImagePcs =>
        /\ pc[c] \in ImagePcs
        /\ child'[c] = child[c] /\ prog'[c] = prog[c]

LEMMA QuietAccount ==
    ASSUME AccountInv, HoldsKept, UNCHANGED <<bitmap, pte, in_use, pagedir, page_tables>>,
           sys' = "up" => sys = "up"
    PROVE  AccountInv'
<1> SUFFICES ASSUME sys' = "up"
             PROVE  (Populated /\ TablesRecorded /\ LiveNotAbandoned /\ BitmapAccounted)'
    BY DEF AccountInv
<1>1. Populated /\ TablesRecorded /\ LiveNotAbandoned /\ BitmapAccounted /\ sys = "up"
    BY DEF AccountInv
<1>2. \A s, n : Populates(s, n)' <=> Populates(s, n)
    BY DEF Populates, PagesMapped, TablesNeeded, NothingElse, HasTable, EntryPresent
<1>3. Populated'
    BY <1>1, <1>2 DEF Populated, HoldsKept
<1>4. TablesRecorded'
    BY <1>1 DEF TablesRecorded, RecordedFor, EntryPresent, PageFrame, HasTable
<1>5. \A s \in Slots : \A f : Owns(s, f)' <=> Owns(s, f)
    BY DEF Owns, TableAt, PageAt, HasTable, MapsPage, PageFrame
<1>6. LiveFrames' = LiveFrames
    BY <1>5, LiveOwned, LiveOwnedNext DEF LiveFramesOwned
<1>7. Abandoned' = Abandoned
    BY DEF Abandoned
<1>8. QED
    BY <1>1, <1>3, <1>4, <1>6, <1>7 DEF LiveNotAbandoned, BitmapAccounted

LEMMA QuietImages ==
    ASSUME ImageIntact, ImagesKept, UNCHANGED <<pte, image, pagedir>>
    PROVE  ImageIntact'
BY DEF ImageIntact, ImagesKept, ImagePcs, EntryOf

---------------------------------------------------------------------------
(* Steps that change one task's memory, or its slot, and leave the others.  *)

\* The directory and the tables of slot r are what they were.
SlotKept(r) ==
    /\ pagedir'[r] = pagedir[r] /\ page_tables'[r] = page_tables[r]
    /\ \A k \in PdeIdx : HasTable(r, k) => pte'[pagedir[r][k]] = pte[pagedir[r][k]]

\* The page numbers of a task are those of pages of the user area.
PageNumbers(n) ==
    \A v \in 0 .. n - 1 : v \in Nat /\ v \div PAGES_IN_PT \in PdeIdx /\ v % PAGES_IN_PT \in PteIdx

LEMMA HeldPages ==
    ASSUME ControlInv, Populated, NEW c \in Contexts, pc[c] \in HoldPcs
    PROVE  /\ prog[c] \in Modules /\ child[c] \in Slots /\ in_use[child[c]]
           /\ page[c] \in Nat /\ Pages[prog[c]] \in Nat /\ page[c] <= Pages[prog[c]]
           /\ PageNumbers(page[c])
<1>1. prog[c] \in Modules /\ child[c] \in Slots /\ in_use[child[c]]
    BY HeldInUse DEF ControlInv, Loading
<1>2. page[c] \in Nat /\ Pages[prog[c]] \in Nat
    BY <1>1, ModulesAssumption DEF ControlInv, TypeOK
<1>3. page[c] <= Pages[prog[c]]
    BY <1>2 DEF ControlInv, Loading, Populated
<1>4. \A v \in 0 .. page[c] - 1 : v \in 0 .. Pages[prog[c]] - 1
    BY <1>2, <1>3
<1>5. QED
    BY <1>1, <1>2, <1>3, <1>4, PlaceInUserArea DEF PageNumbers

LEMMA KeptTables ==
    ASSUME NEW r \in Slots, SlotKept(r)
    PROVE  /\ \A k \in PdeIdx : HasTable(r, k)' <=> HasTable(r, k)
           /\ \A k \in PdeIdx, l \in PteIdx :
                /\ EntryPresent(r, k, l)' <=> EntryPresent(r, k, l)
                /\ MapsPage(r, k, l)' <=> MapsPage(r, k, l)
                /\ EntryPresent(r, k, l) => PageFrame(r, k, l)' = PageFrame(r, k, l)
<1>1. \A k \in PdeIdx : HasTable(r, k)' <=> HasTable(r, k)
    BY DEF SlotKept, HasTable
<1>2. ASSUME NEW k \in PdeIdx, NEW l \in PteIdx
      PROVE  /\ EntryPresent(r, k, l)' <=> EntryPresent(r, k, l)
             /\ MapsPage(r, k, l)' <=> MapsPage(r, k, l)
             /\ EntryPresent(r, k, l) => PageFrame(r, k, l)' = PageFrame(r, k, l)
    BY <1>1, <1>2 DEF SlotKept, EntryPresent, MapsPage, PageFrame
<1>3. QED
    BY <1>1, <1>2

LEMMA KeptOwns ==
    ASSUME NEW r \in Slots, SlotKept(r)
    PROVE  \A f : Owns(r, f)' <=> Owns(r, f)
<1>1. \A f : \A k \in PdeIdx : TableAt(f, r, k)' <=> TableAt(f, r, k)
    BY KeptTables DEF TableAt, SlotKept
<1>2. \A f : \A k \in PdeIdx, l \in PteIdx : PageAt(f, r, k, l)' <=> PageAt(f, r, k, l)
    BY KeptTables DEF PageAt, MapsPage, EntryPresent
<1>3. QED
    BY <1>1, <1>2 DEF Owns

LEMMA KeptPopulates ==
    ASSUME NEW r \in Slots, SlotKept(r), NEW n, PageNumbers(n), Populates(r, n)
    PROVE  Populates(r, n)'
<1>1. PagesMapped(r, n)'
    <2> SUFFICES ASSUME NEW v \in 0 .. n - 1
                 PROVE  EntryPresent(r, v \div PAGES_IN_PT, v % PAGES_IN_PT)'
        BY DEF PagesMapped
    <2>1. v \div PAGES_IN_PT \in PdeIdx /\ v % PAGES_IN_PT \in PteIdx
        BY DEF PageNumbers
    <2>2. EntryPresent(r, v \div PAGES_IN_PT, v % PAGES_IN_PT)
        BY DEF Populates, PagesMapped
    <2>3. QED
        BY <2>1, <2>2, KeptTables
<1>2. TablesNeeded(r, n)'
    BY DEF Populates, TablesNeeded, SlotKept
<1>3. NothingElse(r, n)'
    BY KeptTables DEF Populates, NothingElse
<1>4. QED
    BY <1>1, <1>2, <1>3 DEF Populates

\* Only the task of context c, in slot s, has changed.
OnlySlot(s) == \A r \in Slots \ {s} : in_use'[r] = in_use[r] /\ (in_use[r] => SlotKept(r))
OnlyContext(c, s) ==
    \A d \in Contexts \ {c} :
        /\ pc'[d] = pc[d] /\ child'[d] = child[d] /\ page'[d] = page[d] /\ prog'[d] = prog[d]
        /\ pc[d] \in HoldPcs => child[d] # s

LEMMA OthersPopulated ==
    ASSUME ControlInv, Populated, NEW c \in Contexts, NEW s \in Slots,
           OnlySlot(s), OnlyContext(c, s),
           pc'[c] \in HoldPcs => /\ Populates(child[c], page[c])'
                                 /\ pc'[c] # "alloc" => page'[c] = Pages[prog'[c]]
    PROVE  Populated'
<1> SUFFICES ASSUME NEW d \in Contexts, pc'[d] \in HoldPcs
             PROVE  /\ Populates(child[d], page[d])'
                    /\ pc'[d] # "alloc" => page'[d] = Pages[prog'[d]]
    BY DEF Populated
<1>1. CASE d = c
    BY <1>1
<1>2. CASE d # c
    <2>1. /\ pc'[d] = pc[d] /\ child'[d] = child[d] /\ page'[d] = page[d] /\ prog'[d] = prog[d]
          /\ child[d] # s
        BY <1>2 DEF OnlyContext
    <2>2. child[d] \in Slots /\ in_use[child[d]] /\ PageNumbers(page[d])
        BY <2>1, HeldPages
    <2>3. SlotKept(child[d])
        BY <2>1, <2>2 DEF OnlySlot
    <2>4. Populates(child[d], page[d]) /\ (pc[d] # "alloc" => page[d] = Pages[prog[d]])
        BY <2>1 DEF Populated
    <2>5. Populates(child[d], page[d])'
        <3> DEFINE r == child[d]
        <3> DEFINE n == page[d]
        <3>1. r \in Slots /\ SlotKept(r) /\ PageNumbers(n) /\ Populates(r, n)
            BY <2>2, <2>3, <2>4
        <3>2. ASSUME NEW q, NEW m, q = r, m = n PROVE Populates(q, m)'
            BY <3>1, <3>2, KeptPopulates
        <3>3. QED
            BY <2>1, <3>2 DEF Populates, PagesMapped, TablesNeeded, NothingElse, HasTable, EntryPresent
    <2>6. QED
        BY <2>1, <2>4, <2>5
<1>3. QED
    BY <1>1, <1>2

LEMMA OthersRecorded ==
    ASSUME TablesRecorded, NEW s \in Slots, OnlySlot(s), in_use'[s] => RecordedFor(s)'
    PROVE  TablesRecorded'
<1> SUFFICES ASSUME NEW r \in Slots, in_use'[r], r # s PROVE RecordedFor(r)'
    BY DEF TablesRecorded
<1>1. SlotKept(r) /\ RecordedFor(r)
    BY DEF OnlySlot, TablesRecorded
<1>2. QED
    BY <1>1, KeptTables DEF RecordedFor, SlotKept

\* The frames of the other tasks stay live.
OwnedByOthers(s, f) == \E r \in Slots \ {s} : in_use[r] /\ Owns(r, f)

LEMMA LiveBefore ==
    ASSUME NEW s \in Slots
    PROVE  \A f : f \in LiveFrames <=>
            f \in Frames /\ ((in_use[s] /\ Owns(s, f)) \/ OwnedByOthers(s, f))
BY LiveOwned DEF LiveFramesOwned, OwnedByOthers

LEMMA LiveAfter ==
    ASSUME NEW s \in Slots, OnlySlot(s)
    PROVE  \A f : f \in LiveFrames' <=>
            f \in Frames /\ ((in_use'[s] /\ Owns(s, f)') \/ OwnedByOthers(s, f))
<1>1. \A f : f \in LiveFrames' <=> f \in Frames /\ \E r \in Slots : in_use'[r] /\ Owns(r, f)'
    BY LiveOwnedNext DEF LiveFramesOwned
<1>2. \A r \in Slots \ {s} : in_use'[r] = in_use[r]
    BY DEF OnlySlot
<1>3. ASSUME NEW r \in Slots \ {s}, in_use[r] PROVE \A f : Owns(r, f)' <=> Owns(r, f)
    BY <1>3, KeptOwns DEF OnlySlot
<1>4. QED
    BY <1>1, <1>2, <1>3 DEF OwnedByOthers

\* A page of the image of a task is mapped.
LEMMA ImagePage ==
    ASSUME ControlInv, Populated, NEW d \in Contexts, pc[d] \in HoldPcs, pc[d] # "alloc",
           NEW v \in 0 .. Image[prog[d]] - 1
    PROVE  \E s \in Slots, j \in PdeIdx, i \in PteIdx :
            /\ s = child[d] /\ j = v \div PAGES_IN_PT /\ i = v % PAGES_IN_PT
            /\ in_use[s] /\ EntryPresent(s, j, i)
            /\ EntryOf(s, v).frame = PageFrame(s, j, i)
<1>1. /\ prog[d] \in Modules /\ child[d] \in Slots /\ in_use[child[d]]
      /\ Populates(child[d], page[d]) /\ page[d] = Pages[prog[d]]
    BY HeldPages DEF Populated
<1>2. Pages[prog[d]] \in Nat /\ Image[prog[d]] \in Nat /\ Image[prog[d]] <= Pages[prog[d]]
    BY <1>1, ModulesAssumption
<1>3. v \in 0 .. Pages[prog[d]] - 1
    BY <1>2
<1>4. v \div PAGES_IN_PT \in PdeIdx /\ v % PAGES_IN_PT \in PteIdx
    BY <1>1, <1>3, PlaceInUserArea
<1>5. EntryPresent(child[d], v \div PAGES_IN_PT, v % PAGES_IN_PT)
    BY <1>1, <1>3 DEF Populates, PagesMapped
<1>6. EntryOf(child[d], v).frame = PageFrame(child[d], v \div PAGES_IN_PT, v % PAGES_IN_PT)
    BY DEF EntryOf, PageFrame
<1>7. QED
    BY <1>1, <1>4, <1>5, <1>6

\* A step for the task of context c that writes frames not allocated before.
LEMMA OthersImages ==
    ASSUME ControlInv, MemoryInv, Populated, ImageIntact,
           NEW c \in Contexts, NEW s \in Slots, OnlySlot(s), OnlyContext(c, s),
           pc'[c] \notin ImagePcs, \A g \in bitmap : image'[g] = image[g]
    PROVE  ImageIntact'
<1> SUFFICES ASSUME NEW d \in Contexts, pc'[d] \in ImagePcs,
                    NEW v \in 0 .. Image[prog'[d]] - 1,
                    EntryOf(child[d], v)'.frame \in Frames
             PROVE  image'[EntryOf(child[d], v)'.frame] = prog'[d]
    BY DEF ImageIntact, ImagePcs
<1>1. d # c /\ pc[d] \in ImagePcs /\ child'[d] = child[d] /\ prog'[d] = prog[d]
      /\ pc[d] \in HoldPcs /\ pc[d] # "alloc" /\ child[d] # s
    BY DEF OnlyContext, ImagePcs, HoldPcs, ExecPcs
<1>2. PICK r \in Slots, j \in PdeIdx, i \in PteIdx :
        /\ r = child[d] /\ j = v \div PAGES_IN_PT /\ i = v % PAGES_IN_PT
        /\ in_use[r] /\ EntryPresent(r, j, i)
        /\ EntryOf(r, v).frame = PageFrame(r, j, i)
    BY <1>1, ImagePage
<1>3. SlotKept(r)
    BY <1>1, <1>2 DEF OnlySlot
<1>4. EntryOf(child[d], v)'.frame = PageFrame(r, j, i)'
    BY <1>1, <1>2 DEF EntryOf, PageFrame
<1>5. PageFrame(r, j, i)' = PageFrame(r, j, i)
    BY <1>2, <1>3, KeptTables
<1>6. PageFrame(r, j, i) \in bitmap
    <2>1. MapsPage(r, j, i)
        BY <1>2, <1>4, <1>5 DEF MapsPage, EntryPresent, PageFrame
    <2>2. QED
        BY <1>2, <2>1, PageFrameIsolated
<1>7. image[PageFrame(r, j, i)] = prog[d]
    BY <1>1, <1>2, <1>4, <1>5 DEF ImageIntact, ImagePcs
<1>8. QED
    BY <1>1, <1>4, <1>5, <1>6, <1>7

LEMMA CreateFrames ==
    ASSUME ControlInv, MemoryInv, FramesInv, NEW c \in Contexts, TaskCreate(c)
    PROVE  FramesInv'
<1> USE ConstantFacts
<1>1. PICK s \in Slots :
        /\ ~in_use[s]
        /\ in_use' = [in_use EXCEPT ![s] = TRUE]
        /\ pagedir' = [pagedir EXCEPT ![s] = NoTables]
        /\ page_tables' = [page_tables EXCEPT ![s] = NoTables]
        /\ child' = [child EXCEPT ![c] = s]
    BY DEF TaskCreate
<1>2. /\ UNCHANGED <<bitmap, pte, prog, sys>> /\ sys = "up"
      /\ page' = [page EXCEPT ![c] = 0] /\ pc' = [pc EXCEPT ![c] = "alloc"]
    BY DEF TaskCreate, Running, memory
<1>3. Populated /\ TablesRecorded /\ LiveNotAbandoned /\ BitmapAccounted /\ ImageIntact
    BY <1>2 DEF FramesInv, AccountInv
<1>4. OnlySlot(s)
    BY <1>1, <1>2 DEF OnlySlot, SlotKept, ControlInv, TypeOK
<1>5. OnlyContext(c, s)
    <2>1. \A d \in Contexts : pc[d] \in HoldPcs => child[d] # s
        BY <1>1, HeldInUse
    <2>2. QED
        BY <1>1, <1>2, <2>1 DEF OnlyContext, ControlInv, TypeOK
<1>6. \A j \in PdeIdx : pagedir'[s][j] = 0 /\ page_tables'[s][j] = 0 /\ ~HasTable(s, j)'
    BY <1>1 DEF NoTables, HasTable, ControlInv, TypeOK
<1>7. Populates(s, 0)'
    <2>1. PagesMapped(s, 0)'
        BY DEF PagesMapped
    <2>2. TablesNeeded(s, 0)' /\ NothingElse(s, 0)'
        BY <1>6 DEF TablesNeeded, NothingElse, EntryPresent
    <2>3. QED
        BY <2>1, <2>2 DEF Populates
<1>8. Populated'
    <2>1. child'[c] = s /\ page'[c] = 0 /\ pc'[c] = "alloc"
        BY <1>1, <1>2 DEF ControlInv, TypeOK
    <2>2. Populates(child[c], page[c])'
        BY <1>7, <2>1 DEF Populates, PagesMapped, TablesNeeded, NothingElse, HasTable, EntryPresent
    <2>3. QED
        BY <1>3, <1>4, <1>5, <2>1, <2>2, OthersPopulated
<1>9. TablesRecorded'
    BY <1>3, <1>4, <1>6, OthersRecorded DEF RecordedFor, EntryPresent
<1>10. LiveFrames' = LiveFrames
    <2>1. \A f : ~Owns(s, f)'
        BY <1>6 DEF Owns, TableAt, PageAt, MapsPage
    <2>2. QED
        BY <1>1, <1>4, <2>1, LiveBefore, LiveAfter
<1>11. Abandoned' = Abandoned
    BY <1>2 DEF Abandoned
<1>12. AccountInv'
    BY <1>2, <1>3, <1>8, <1>9, <1>10, <1>11 DEF AccountInv, LiveNotAbandoned, BitmapAccounted
<1>13. ImageIntact'
    <2>1. pc'[c] \notin ImagePcs /\ image' = image
        BY <1>2 DEF ControlInv, TypeOK, ImagePcs, TaskCreate, memory
    <2>2. QED
        BY <1>3, <1>4, <1>5, <2>1, OthersImages
<1>14. QED
    BY <1>12, <1>13 DEF FramesInv

---------------------------------------------------------------------------
(* One more page.                                                          *)

\* Entry i of table j, empty before, is the only one of slot s that changes.
PageAdded(s, j, i) ==
    /\ ~EntryPresent(s, j, i) /\ EntryPresent(s, j, i)'
    /\ \A k \in PdeIdx \ {j} : pagedir'[s][k] = pagedir[s][k]
    /\ \A k \in PdeIdx, l \in PteIdx : ~(k = j /\ l = i) =>
        /\ EntryPresent(s, k, l)' <=> EntryPresent(s, k, l)
        /\ EntryPresent(s, k, l) => PageFrame(s, k, l)' = PageFrame(s, k, l)

LEMMA AddedPopulates ==
    ASSUME NEW s \in Slots, NEW n \in Nat, PageNumbers(n), Populates(s, n),
           NEW j \in PdeIdx, NEW i \in PteIdx, j = n \div PAGES_IN_PT, i = n % PAGES_IN_PT,
           PageAdded(s, j, i)
    PROVE  Populates(s, n + 1)'
<1>1. PAGES_IN_PT \in Nat \ {0}
    BY SizesAssumption
<1>2. PagesMapped(s, n + 1)'
    <2> SUFFICES ASSUME NEW v \in 0 .. n
                 PROVE  EntryPresent(s, v \div PAGES_IN_PT, v % PAGES_IN_PT)'
        BY DEF PagesMapped
    <2>1. CASE v = n
        BY <2>1 DEF PageAdded
    <2>2. CASE v # n
        <3>1. v \in 0 .. n - 1
            BY <2>2
        <3>2. v \div PAGES_IN_PT \in PdeIdx /\ v % PAGES_IN_PT \in PteIdx
            BY <3>1 DEF PageNumbers
        <3>3. EntryPresent(s, v \div PAGES_IN_PT, v % PAGES_IN_PT)
            BY <3>1 DEF Populates, PagesMapped
        <3>4. QED
            BY <3>2, <3>3 DEF PageAdded
    <2>3. QED
        BY <2>1, <2>2
<1>3. TablesNeeded(s, n + 1)'
    <2> SUFFICES ASSUME NEW k \in PdeIdx, pagedir'[s][k] # 0
                 PROVE  \E v \in 0 .. n : k = v \div PAGES_IN_PT
        BY DEF TablesNeeded
    <2>1. CASE k = j
        BY <2>1
    <2>2. CASE k # j
        <3>1. pagedir[s][k] # 0
            BY <2>2 DEF PageAdded
        <3>2. PICK v \in 0 .. n - 1 : k = v \div PAGES_IN_PT
            BY <3>1 DEF Populates, TablesNeeded
        <3>3. QED
            BY <3>2
    <2>3. QED
        BY <2>1, <2>2
<1>4. NothingElse(s, n + 1)'
    <2> SUFFICES ASSUME NEW k \in PdeIdx, NEW l \in PteIdx, EntryPresent(s, k, l)'
                 PROVE  \E v \in 0 .. n : k = v \div PAGES_IN_PT /\ l = v % PAGES_IN_PT
        BY DEF NothingElse
    <2>1. CASE k = j /\ l = i
        BY <2>1
    <2>2. CASE ~(k = j /\ l = i)
        <3>1. EntryPresent(s, k, l)
            BY <2>2 DEF PageAdded
        <3>2. PICK v \in 0 .. n - 1 : k = v \div PAGES_IN_PT /\ l = v % PAGES_IN_PT
            BY <3>1 DEF Populates, NothingElse
        <3>3. QED
            BY <3>2
    <2>3. QED
        BY <2>1, <2>2
<1>5. QED
    BY <1>2, <1>3, <1>4 DEF Populates

\* The entry of the next page is still empty.
LEMMA NextEntryEmpty ==
    ASSUME NEW s, NEW n \in Nat, PageNumbers(n), Populates(s, n),
           NEW j \in PdeIdx, NEW i \in PteIdx, j = n \div PAGES_IN_PT, i = n % PAGES_IN_PT
    PROVE  ~EntryPresent(s, j, i)
<1> SUFFICES ASSUME EntryPresent(s, j, i) PROVE FALSE
    OBVIOUS
<1>1. PICK v \in 0 .. n - 1 : j = v \div PAGES_IN_PT /\ i = v % PAGES_IN_PT
    BY DEF Populates, NothingElse
<1>2. v \in Nat
    BY <1>1
<1>3. v = n
    BY <1>1, <1>2, SizesAssumption, PlaceOfPage
<1>4. QED
    BY <1>1, <1>3

\* The context that runs paging_alloc, after its page.
LEMMA NextHeld ==
    ASSUME ControlInv, NEW c \in Contexts, pc[c] = "alloc", NextPage(c),
           UNCHANGED <<child, prog>>
    PROVE  /\ OnlyContext(c, child[c])
           /\ page'[c] = page[c] + 1
           /\ pc'[c] # "alloc" => page'[c] = Pages[prog'[c]]
<1>1. pc[c] \in HoldPcs
    BY DEF HoldPcs, ExecPcs
<1>2. page[c] \in Nat /\ prog[c] \in Modules /\ child[c] \in Slots
    BY <1>1 DEF ControlInv, TypeOK, Loading
<1>3. Pages[prog[c]] \in Nat /\ page[c] < Pages[prog[c]]
    BY <1>2, ModulesAssumption DEF ControlInv, Loading
<1>4. page'[c] = page[c] + 1
      /\ pc'[c] = IF page[c] + 1 < Pages[prog[c]] THEN "alloc" ELSE "copy"
    BY DEF NextPage, Size, ControlInv, TypeOK
<1>5. \A d \in Contexts \ {c} : pc[d] \in HoldPcs => child[d] # child[c]
    BY <1>1, <1>2 DEF ControlInv, SlotsAccounted, Holds, HoldPcs
<1>6. OnlyContext(c, child[c])
    BY <1>5 DEF OnlyContext, NextPage, ControlInv, TypeOK
<1>7. pc'[c] # "alloc" => ~(page[c] + 1 < Pages[prog[c]])
    BY <1>4
<1>8. pc'[c] # "alloc" => page[c] + 1 = Pages[prog[c]]
    BY <1>2, <1>3, <1>7
<1>9. QED
    BY <1>4, <1>6, <1>8

\* The frames slot s has gained: f, if it is a frame of RAM, and those of T.
LEMMA AddedOwns ==
    ASSUME NEW s \in Slots, NEW j \in PdeIdx, NEW i \in PteIdx, NEW f, NEW T,
           PageAdded(s, j, i), PageFrame(s, j, i)' = f,
           \A g \in Frames : TableAt(g, s, j)' <=> TableAt(g, s, j) \/ g \in T
    PROVE  \A g \in Frames : Owns(s, g)' <=> Owns(s, g) \/ g = f \/ g \in T
<1>1. \A g \in Frames : \A k \in PdeIdx \ {j} : TableAt(g, s, k)' <=> TableAt(g, s, k)
    BY DEF PageAdded, TableAt, HasTable
<1>2. ASSUME NEW g \in Frames, NEW k \in PdeIdx, NEW l \in PteIdx
      PROVE  PageAt(g, s, k, l) <=> EntryPresent(s, k, l) /\ PageFrame(s, k, l) = g
    BY DEF PageAt, MapsPage, EntryPresent, PageFrame
<1>3. ASSUME NEW g \in Frames, NEW k \in PdeIdx, NEW l \in PteIdx
      PROVE  PageAt(g, s, k, l)' <=> EntryPresent(s, k, l)' /\ PageFrame(s, k, l)' = g
    BY DEF PageAt, MapsPage, EntryPresent, PageFrame
<1>4. ASSUME NEW g \in Frames, NEW k \in PdeIdx, NEW l \in PteIdx
      PROVE  PageAt(g, s, k, l)' <=> PageAt(g, s, k, l) \/ (k = j /\ l = i /\ g = f)
    BY <1>2, <1>3 DEF PageAdded
<1>5. QED
    BY <1>1, <1>4 DEF Owns

LEMMA AllocFrames ==
    ASSUME ControlInv, MemoryInv, FramesInv, NEW c \in Contexts, PagingAlloc(c)
    PROVE  FramesInv'
<1> USE ConstantFacts
<1>1. PICK s \in Slots, j \in PdeIdx, i \in PteIdx :
        s = child[c] /\ j = page[c] \div PAGES_IN_PT /\ i = page[c] % PAGES_IN_PT
    BY PageIndex DEF PagingAlloc, ControlInv
<1>2. /\ pc[c] = "alloc" /\ pc[c] \in HoldPcs /\ sys = "up" /\ sys' = "up"
      /\ NextPage(c) /\ UNCHANGED <<in_use, pagedir, page_tables, prog, child>>
    BY DEF PagingAlloc, Running, slots, HoldPcs, ExecPcs
<1>3. PICK f \in Frames \union {BadFrame} :
        /\ FrameAlloc(f, bitmap)
        /\ bitmap' = Allocated({f})
        /\ pte' = Mapped({f}, pagedir[s][j], i, f)
        /\ image' = ZeroedImage({f})
    BY <1>1 DEF PagingAlloc
<1>4. Populated /\ TablesRecorded /\ LiveNotAbandoned /\ BitmapAccounted /\ ImageIntact
    BY <1>2 DEF FramesInv, AccountInv
<1>5. PICK t \in Frames \ {0} : t = pagedir[s][j]
    BY <1>1, <1>2, HeldInUse DEF PagingAlloc, MemoryInv, Recording, ControlInv, TypeOK, TableType
<1>6. in_use[s] /\ HasTable(s, j) /\ page[c] \in Nat /\ PageNumbers(page[c])
    BY <1>1, <1>2, <1>4, <1>5, HeldPages DEF HasTable
<1>7. EntryMapped(t, i, f) /\ OthersKept(s, j, i)
    BY <1>3, <1>5, <1>6, MappedEntries
<1>8. /\ f \notin bitmap /\ t # f /\ f # 0 /\ bitmap' = bitmap \union ({f} \ {BadFrame})
      /\ pte'[t][i].present /\ pte'[t][i].frame = f
    BY <1>3, <1>7 DEF EntryMapped, Allocated, MemoryInv
<1>9. OnlySlot(s)
    <2> SUFFICES ASSUME NEW r \in Slots \ {s}, in_use[r], NEW k \in PdeIdx, HasTable(r, k)
                 PROVE  pte'[pagedir[r][k]] = pte[pagedir[r][k]]
        BY <1>2 DEF OnlySlot, SlotKept
    <2>1. pagedir[r][k] \in bitmap /\ pagedir[r][k] # t
        BY <1>5, <1>6, TableFrame
    <2>2. QED
        BY <1>7, <1>8, <2>1 DEF EntryMapped, HasTable
<1>10. OnlyContext(c, s) /\ page'[c] = page[c] + 1 /\ (pc'[c] # "alloc" => page'[c] = Pages[prog'[c]])
    BY <1>1, <1>2, NextHeld
<1>11. Populates(s, page[c])
    BY <1>1, <1>2, <1>4 DEF Populated
<1>12. PageAdded(s, j, i)
    <2>1. ~EntryPresent(s, j, i)
        BY <1>1, <1>6, <1>11, NextEntryEmpty
    <2>2. EntryPresent(s, j, i)'
        BY <1>2, <1>5, <1>6, <1>8 DEF EntryPresent, HasTable
    <2>3. ASSUME NEW k \in PdeIdx, NEW l \in PteIdx, ~(k = j /\ l = i)
          PROVE  /\ EntryPresent(s, k, l)' <=> EntryPresent(s, k, l)
                 /\ EntryPresent(s, k, l) => PageFrame(s, k, l)' = PageFrame(s, k, l)
        BY <1>2, <1>6, <1>7, <2>3 DEF OthersKept, EntryPresent, PageFrame, HasTable
    <2>4. QED
        BY <1>2, <2>1, <2>2, <2>3 DEF PageAdded
<1>13. Populated'
    <2>1. PICK n \in Nat : n = page[c]
        BY <1>6
    <2>2. Populates(child[c], page[c])'
        <3>1. Populates(s, n + 1)'
            BY <1>1, <1>6, <1>11, <1>12, <2>1, AddedPopulates
        <3>2. child'[c] = s /\ page'[c] = n + 1
            BY <1>1, <1>2, <1>10, <2>1
        <3>3. QED
            BY <3>1, <3>2 DEF Populates, PagesMapped, TablesNeeded, NothingElse, HasTable, EntryPresent
    <2>3. QED
        BY <1>4, <1>9, <1>10, <2>2, OthersPopulated
<1>14. PageFrame(s, j, i)' = f
    BY <1>2, <1>5, <1>8 DEF PageFrame
<1>15. TablesRecorded'
    <2>1. RecordedFor(s)
        BY <1>4, <1>6 DEF TablesRecorded
    <2>2. RecordedFor(s)'
        BY <1>2, <1>8, <1>12, <1>14, <2>1 DEF RecordedFor, PageAdded
    <2>3. QED
        BY <1>4, <1>9, <2>2, OthersRecorded
<1>16. \A g : g \in LiveFrames' <=> g \in LiveFrames \/ (g = f /\ f \in Frames)
    <2>1. PICK T : T = {}
        OBVIOUS
    <2>2. \A g \in Frames : TableAt(g, s, j)' <=> TableAt(g, s, j) \/ g \in T
        BY <1>2, <2>1 DEF TableAt, HasTable
    <2>3. \A g \in Frames : Owns(s, g)' <=> Owns(s, g) \/ g = f \/ g \in T
        BY <1>12, <1>14, <2>2, AddedOwns
    <2>4. QED
        BY <1>2, <1>6, <1>9, <2>1, <2>3, LiveBefore, LiveAfter
<1>17. Abandoned' = Abandoned
    <2>1. t \in LiveFrames
        BY <1>5, <1>6, LiveBefore DEF Owns, TableAt
    <2>2. t \notin Abandoned /\ f \notin Abandoned
        BY <1>2, <1>4, <1>8, <2>1 DEF LiveNotAbandoned, BitmapAccounted
    <2>3. ~(pte'[t][0].frame # 0 /\ ~pte'[t][0].present)
        <3>1. CASE i = 0
            BY <1>8, <3>1
        <3>2. CASE i # 0
            <4>1. pte'[t][0] = pte[t][0]
                BY <1>5, <1>6, <1>7, <3>2 DEF OthersKept
            <4>2. QED
                BY <2>2, <4>1 DEF Abandoned
        <3>3. QED
            BY <3>1, <3>2
    <2>4. f \in Frames => pte'[f][0].frame = 0
        BY <1>7 DEF EntryMapped, ZeroFrame, NoEntry
    <2>5. \A g \in Frames \ {t, f} : pte'[g] = pte[g]
        BY <1>7 DEF EntryMapped
    <2>6. ASSUME NEW g \in Frames PROVE g \in Abandoned' <=> g \in Abandoned
        BY <2>2, <2>3, <2>4, <2>5 DEF Abandoned
    <2>7. QED
        BY <2>6 DEF Abandoned
<1>18. LiveNotAbandoned'
    BY <1>2, <1>4, <1>8, <1>16, <1>17 DEF LiveNotAbandoned, BitmapAccounted
<1>19. BitmapAccounted'
    BY <1>2, <1>4, <1>8, <1>16, <1>17 DEF BitmapAccounted
<1>20. ImageIntact'
    <2>1. \A g \in bitmap : image'[g] = image[g]
        BY <1>3, <1>8 DEF ZeroedImage, ControlInv, TypeOK
    <2>2. pc'[c] \notin ImagePcs
        BY <1>2 DEF NextPage, ImagePcs, ControlInv, TypeOK
    <2>3. QED
        BY <1>4, <1>9, <1>10, <2>1, <2>2, OthersImages
<1>21. QED
    BY <1>13, <1>15, <1>18, <1>19, <1>20 DEF FramesInv, AccountInv

\* The new table t, with the one entry i, and the two frames that are new.
TableMapped(s, j, i, t, f) ==
    /\ f \notin bitmap /\ t \notin bitmap /\ bitmap' = bitmap \union {f, t}
    /\ pte'[t][i].present /\ pte'[t][i].frame = f
    /\ \A l \in PteIdx \ {i} : ~pte'[t][l].present
    /\ pte'[f][0].frame = 0
    /\ \A g \in Frames \ {t, f} : pte'[g] = pte[g]
    /\ pagedir'[s][j] = t /\ page_tables'[s][j] = t
    /\ \A r \in Slots, k \in PdeIdx : ~(r = s /\ k = j) =>
            pagedir'[r][k] = pagedir[r][k] /\ page_tables'[r][k] = page_tables[r][k]
    /\ \A r \in Slots \ {s} : pagedir'[r] = pagedir[r] /\ page_tables'[r] = page_tables[r]

LEMMA TableMappedEntries ==
    ASSUME ControlInv, NEW s \in Slots, NEW j \in PdeIdx, NEW i \in PteIdx,
           NEW f \in Frames, NEW t \in Frames,
           FrameAlloc(f, bitmap), FrameAlloc(t, Allocated({f})),
           bitmap' = Allocated({f, t}), pte' = Mapped({f, t}, t, i, f),
           pagedir' = [pagedir EXCEPT ![s][j] = t],
           page_tables' = [page_tables EXCEPT ![s][j] = t]
    PROVE  f # t /\ TableMapped(s, j, i, t, f)
<1> USE ConstantFacts
<1>1. f \notin bitmap /\ t \notin Allocated({f})
    BY FreshFrame
<1>2. t \notin bitmap /\ t # f /\ bitmap' = bitmap \union {f, t}
    BY <1>1 DEF Allocated
<1>3. NoEntry.frame = 0 /\ ~NoEntry.present
    BY DEF NoEntry
<1>4. pte'[t] = [ZeroFrame EXCEPT ![i] = [frame |-> f, present |-> TRUE]]
    BY DEF Mapped
<1>5. pte'[t][i] = [frame |-> f, present |-> TRUE]
    BY <1>4 DEF ZeroFrame
<1>6. \A l \in PteIdx \ {i} : pte'[t][l] = NoEntry
    BY <1>4 DEF ZeroFrame
<1>7. pte'[f][0] = NoEntry /\ \A g \in Frames \ {t, f} : pte'[g] = pte[g]
    BY <1>2 DEF Mapped, ZeroFrame
<1>8. /\ pagedir'[s][j] = t /\ page_tables'[s][j] = t
      /\ \A r \in Slots, k \in PdeIdx : ~(r = s /\ k = j) =>
            pagedir'[r][k] = pagedir[r][k] /\ page_tables'[r][k] = page_tables[r][k]
      /\ \A r \in Slots \ {s} : pagedir'[r] = pagedir[r] /\ page_tables'[r] = page_tables[r]
    BY DEF ControlInv, TypeOK, TableType
<1>9. pte'[t][i].present /\ pte'[t][i].frame = f
    BY <1>5
<1>10. (\A l \in PteIdx \ {i} : ~pte'[t][l].present) /\ pte'[f][0].frame = 0
    BY <1>3, <1>6, <1>7
<1>11. QED
    BY <1>1, <1>2, <1>7, <1>8, <1>9, <1>10 DEF TableMapped

LEMMA AllocTableFrames ==
    ASSUME ControlInv, MemoryInv, FramesInv, NEW c \in Contexts, PagingAllocTable(c)
    PROVE  FramesInv'
<1> USE ConstantFacts
<1>1. PICK s \in Slots, j \in PdeIdx, i \in PteIdx :
        s = child[c] /\ j = page[c] \div PAGES_IN_PT /\ i = page[c] % PAGES_IN_PT
    BY PageIndex DEF PagingAllocTable, ControlInv
<1>2. /\ pc[c] = "alloc" /\ pc[c] \in HoldPcs /\ sys = "up" /\ sys' = "up"
      /\ NextPage(c) /\ UNCHANGED <<in_use, prog, child>>
    BY DEF PagingAllocTable, Running, HoldPcs, ExecPcs
<1>3. PICK f \in Frames, t \in Frames :
        f # t /\ TableMapped(s, j, i, t, f) /\ image' = ZeroedImage({f, t})
    <2>1. PICK f \in Frames, t \in Frames :
            /\ FrameAlloc(f, bitmap)
            /\ FrameAlloc(t, Allocated({f}))
            /\ bitmap' = Allocated({f, t})
            /\ pte' = Mapped({f, t}, t, i, f)
            /\ image' = ZeroedImage({f, t})
            /\ pagedir' = [pagedir EXCEPT ![s][j] = t]
            /\ page_tables' = [page_tables EXCEPT ![s][j] = t]
        BY <1>1 DEF PagingAllocTable
    <2>2. f # t /\ TableMapped(s, j, i, t, f)
        BY <2>1, TableMappedEntries
    <2>3. QED
        BY <2>1, <2>2
<1>4. Populated /\ TablesRecorded /\ LiveNotAbandoned /\ BitmapAccounted /\ ImageIntact
    BY <1>2 DEF FramesInv, AccountInv
<1>5. in_use[s] /\ page[c] \in Nat /\ PageNumbers(page[c])
    BY <1>1, <1>2, <1>4, HeldPages
<1>6. Populates(s, page[c])
    BY <1>1, <1>2, <1>4 DEF Populated
<1>7. pagedir[s][j] = 0 /\ ~HasTable(s, j)
    BY <1>1 DEF PagingAllocTable, HasTable
<1>8. /\ f \notin bitmap /\ t \notin bitmap /\ f # 0 /\ t # 0
      /\ bitmap' = bitmap \union {f, t} /\ pagedir'[s][j] = t /\ HasTable(s, j)'
    BY <1>3 DEF TableMapped, MemoryInv, HasTable
<1>9. i = 0
    \* otherwise the page before would already have made the table
    <2> SUFFICES ASSUME page[c] % PAGES_IN_PT # 0 PROVE FALSE
        BY <1>1
    <2>1. page[c] - 1 \in Nat /\ (page[c] - 1) \div PAGES_IN_PT = j
        BY <1>1, <1>5, PreviousPage, SizesAssumption
    <2>2. page[c] - 1 \in 0 .. page[c] - 1
        BY <2>1
    <2>3. HasTable(s, j)
        BY <1>6, <2>1, <2>2 DEF Populates, PagesMapped, EntryPresent
    <2>4. QED
        BY <1>7, <2>3
<1>10. \A r \in Slots, k \in PdeIdx :
        in_use[r] /\ HasTable(r, k) => pagedir[r][k] # t /\ pagedir[r][k] # f
    BY <1>8, TableFrame
<1>11. OnlySlot(s)
    <2> SUFFICES ASSUME NEW r \in Slots \ {s}, in_use[r], NEW k \in PdeIdx, HasTable(r, k)
                 PROVE  pte'[pagedir[r][k]] = pte[pagedir[r][k]]
        BY <1>2, <1>3 DEF OnlySlot, SlotKept, TableMapped
    <2>1. QED
        BY <1>3, <1>10 DEF TableMapped, HasTable
<1>12. OnlyContext(c, s) /\ page'[c] = page[c] + 1 /\ (pc'[c] # "alloc" => page'[c] = Pages[prog'[c]])
    BY <1>1, <1>2, NextHeld
<1>13. PageAdded(s, j, i)
    <2>1. ~EntryPresent(s, j, i) /\ EntryPresent(s, j, i)'
        BY <1>3, <1>7, <1>8 DEF EntryPresent, TableMapped
    <2>2. \A k \in PdeIdx \ {j} : pagedir'[s][k] = pagedir[s][k]
        BY <1>3 DEF TableMapped
    <2>3. ASSUME NEW k \in PdeIdx, NEW l \in PteIdx, ~(k = j /\ l = i)
          PROVE  /\ EntryPresent(s, k, l)' <=> EntryPresent(s, k, l)
                 /\ EntryPresent(s, k, l) => PageFrame(s, k, l)' = PageFrame(s, k, l)
        <3>1. CASE k = j
            BY <1>3, <1>7, <1>8, <2>3, <3>1 DEF EntryPresent, TableMapped
        <3>2. CASE k # j
            <4>1. HasTable(s, k)' <=> HasTable(s, k)
                BY <2>2, <3>2 DEF HasTable
            <4>2. HasTable(s, k) => pte'[pagedir[s][k]] = pte[pagedir[s][k]]
                BY <1>3, <1>5, <1>10 DEF TableMapped, HasTable
            <4>3. QED
                BY <2>2, <3>2, <4>1, <4>2 DEF EntryPresent, PageFrame
        <3>3. QED
            BY <3>1, <3>2
    <2>4. QED
        BY <2>1, <2>2, <2>3 DEF PageAdded
<1>14. Populated'
    <2>1. PICK n \in Nat : n = page[c]
        BY <1>5
    <2>2. Populates(child[c], page[c])'
        <3>1. Populates(s, n + 1)'
            BY <1>1, <1>5, <1>6, <1>13, <2>1, AddedPopulates
        <3>2. child'[c] = s /\ page'[c] = n + 1
            BY <1>1, <1>2, <1>12, <2>1
        <3>3. QED
            BY <3>1, <3>2 DEF Populates, PagesMapped, TablesNeeded, NothingElse, HasTable, EntryPresent
    <2>3. QED
        BY <1>4, <1>11, <1>12, <2>2, OthersPopulated
<1>15. PageFrame(s, j, i)' = f
    BY <1>3 DEF PageFrame, TableMapped
<1>16. TablesRecorded'
    <2>1. RecordedFor(s)
        BY <1>4, <1>5 DEF TablesRecorded
    <2>2. \A k \in PdeIdx : page_tables'[s][k] = pagedir'[s][k]
        BY <1>3, <2>1 DEF RecordedFor, TableMapped
    <2>3. RecordedFor(s)'
        BY <1>8, <1>13, <1>15, <2>1, <2>2 DEF RecordedFor, PageAdded
    <2>4. QED
        BY <1>4, <1>11, <2>3, OthersRecorded
<1>17. \A g : g \in LiveFrames' <=> g \in LiveFrames \/ g = f \/ g = t
    <2>1. PICK T : T = {t}
        OBVIOUS
    <2>2. \A g \in Frames : TableAt(g, s, j)' <=> TableAt(g, s, j) \/ g \in T
        BY <1>7, <1>8, <2>1 DEF TableAt
    <2>3. \A g \in Frames : Owns(s, g)' <=> Owns(s, g) \/ g = f \/ g \in T
        BY <1>13, <1>15, <2>2, AddedOwns
    <2>4. \A g \in Frames : Owns(s, g)' <=> Owns(s, g) \/ g = f \/ g = t
        BY <2>1, <2>3
    <2>5. ASSUME NEW g \in Frames
          PROVE  g \in LiveFrames' <=> g \in LiveFrames \/ g = f \/ g = t
        BY <1>2, <1>5, <1>11, <2>4, LiveBefore, LiveAfter
    <2>6. QED
        BY <2>5, LiveOwned, LiveOwnedNext DEF LiveFramesOwned
<1>18. Abandoned' = Abandoned
    <2>1. t \notin Abandoned /\ f \notin Abandoned
        BY <1>2, <1>4, <1>8 DEF BitmapAccounted
    <2>2. pte'[t][0].present /\ pte'[f][0].frame = 0
        BY <1>3, <1>9 DEF TableMapped
    <2>3. ASSUME NEW g \in Frames PROVE g \in Abandoned' <=> g \in Abandoned
        BY <1>3, <2>1, <2>2 DEF Abandoned, TableMapped
    <2>4. QED
        BY <2>3 DEF Abandoned
<1>19. LiveNotAbandoned'
    BY <1>2, <1>4, <1>8, <1>17, <1>18 DEF LiveNotAbandoned, BitmapAccounted
<1>20. BitmapAccounted'
    BY <1>2, <1>4, <1>8, <1>17, <1>18 DEF BitmapAccounted
<1>21. ImageIntact'
    <2>1. \A g \in bitmap : image'[g] = image[g]
        BY <1>3, <1>8 DEF ZeroedImage, ControlInv, TypeOK
    <2>2. pc'[c] \notin ImagePcs
        BY <1>2 DEF NextPage, ImagePcs, ControlInv, TypeOK
    <2>3. QED
        BY <1>4, <1>11, <1>12, <2>1, <2>2, OthersImages
<1>22. QED
    BY <1>14, <1>16, <1>19, <1>20, <1>21 DEF FramesInv, AccountInv

---------------------------------------------------------------------------
(* The end of a task.                                                      *)

\* task_free visits every table of the task: those before a table are there,
\* and the first page of each is mapped.
LEMMA AllVisited ==
    ASSUME MemoryInv, NEW s \in Slots, in_use[s], RecordedFor(s), NEW n \in Nat, Populates(s, n)
    PROVE  \A j \in PdeIdx : /\ j \in Visited(s) <=> HasTable(s, j)
                             /\ HasTable(s, j) => EntryPresent(s, j, 0)
<1> USE ConstantFacts
<1>1. PAGES_IN_PT \in Nat \ {0}
    BY SizesAssumption
<1>2. ASSUME NEW j \in Visited(s) PROVE HasTable(s, j)
    BY <1>2, VisitedTable DEF MemoryInv, Recording
<1>3. ASSUME NEW j \in PdeIdx, HasTable(s, j), NEW k \in 0 .. j
      PROVE  EntryPresent(s, k, 0)
    <2>1. PICK v \in 0 .. n - 1 : j = v \div PAGES_IN_PT
        BY <1>3 DEF Populates, TablesNeeded, HasTable
    <2>2. j \in Nat /\ k \in Nat /\ k <= j /\ v \in Nat
        BY <1>3, <2>1
    <2>3. k * PAGES_IN_PT <= v /\ k * PAGES_IN_PT \in Nat
        BY <1>1, <2>1, <2>2, FirstPage, FirstPageBelow
    <2>4. PICK w \in Nat : w = k * PAGES_IN_PT
        BY <2>3
    <2>5. w \in 0 .. n - 1
        BY <2>1, <2>3, <2>4
    <2>6. w \div PAGES_IN_PT = k /\ w % PAGES_IN_PT = 0
        BY <1>1, <2>2, <2>4, FirstPage
    <2>7. QED
        BY <2>5, <2>6 DEF Populates, PagesMapped
<1>4. ASSUME NEW j \in PdeIdx, HasTable(s, j)
      PROVE  j \in Visited(s) /\ EntryPresent(s, j, 0)
    <2>1. j \in 0 .. j /\ 0 .. j \subseteq PdeIdx
        BY SizesAssumption DEF PdeIdx
    <2>2. \A k \in 0 .. j : page_tables[s][k] # 0
        BY <1>3, <1>4, <2>1 DEF EntryPresent, HasTable, RecordedFor
    <2>3. EntryPresent(s, j, 0)
        BY <1>3, <1>4, <2>1
    <2>4. pte[page_tables[s][j]][0].present
        BY <2>3 DEF EntryPresent, RecordedFor
    <2>5. j \in Recorded(s)
        BY <2>2 DEF Recorded
    <2>6. QED
        BY <2>3, <2>4, <2>5 DEF Visited
<1>5. QED
    BY <1>2, <1>4

\* No frame belongs to two tasks.
LEMMA OwnedOnce ==
    ASSUME MemoryInv, NEW s \in Slots, in_use[s], NEW f, Owns(s, f)
    PROVE  ~OwnedByOthers(s, f) /\ f \notin Reserved
<1>1. ASSUME NEW j \in PdeIdx, TableAt(f, s, j)
      PROVE  ~OwnedByOthers(s, f) /\ f \notin Reserved
    <2>1. HasTable(s, j) /\ pagedir[s][j] = f
        BY <1>1 DEF TableAt
    <2>2. f \notin Reserved /\ \A r \in Slots \ {s}, k \in PdeIdx : in_use[r] => pagedir[r][k] # f
        BY <2>1, TableFrame
    <2>3. ASSUME NEW r \in Slots \ {s}, in_use[r], NEW k \in PdeIdx, NEW l \in PteIdx, PageAt(f, r, k, l)
          PROVE  FALSE
        <3>1. MapsPage(r, k, l) /\ PageFrame(r, k, l) = f
            BY <2>3 DEF PageAt
        <3>2. pagedir[s][j] # f
            BY <2>3, <3>1, PageFrameIsolated
        <3>3. QED
            BY <2>1, <3>2
    <2>4. QED
        BY <2>2, <2>3 DEF OwnedByOthers, Owns, TableAt
<1>2. ASSUME NEW j \in PdeIdx, NEW i \in PteIdx, PageAt(f, s, j, i)
      PROVE  ~OwnedByOthers(s, f) /\ f \notin Reserved
    <2>1. MapsPage(s, j, i) /\ PageFrame(s, j, i) = f
        BY <1>2 DEF PageAt
    <2>2. /\ f \notin Reserved
          /\ \A r \in Slots, k \in PdeIdx : in_use[r] =>
                /\ pagedir[r][k] # f
                /\ \A l \in PteIdx : MapsPage(r, k, l) /\ PageFrame(r, k, l) = f => r = s
        BY <2>1, PageFrameIsolated
    <2>3. QED
        BY <2>2 DEF OwnedByOthers, Owns, TableAt, PageAt
<1>3. QED
    BY <1>1, <1>2 DEF Owns

\* The frames task_free gives back are exactly the pages of the task.
HasPage(s, f) == \E j \in PdeIdx, i \in PteIdx : PageAt(f, s, j, i)
IsTable(s, f) == \E j \in PdeIdx : TableAt(f, s, j)

LEMMA PageNotTable ==
    ASSUME MemoryInv, NEW s \in Slots, in_use[s], NEW f, HasPage(s, f)
    PROVE  ~IsTable(s, f)
<1>1. PICK j \in PdeIdx, i \in PteIdx : MapsPage(s, j, i) /\ PageFrame(s, j, i) = f
    BY DEF HasPage, PageAt
<1>2. ASSUME NEW k \in PdeIdx, TableAt(f, s, k) PROVE FALSE
    <2>1. pagedir[s][k] = f
        BY <1>2 DEF TableAt
    <2>2. pagedir[s][k] # PageFrame(s, j, i)
        BY <1>1, PageFrameIsolated
    <2>3. QED
        BY <1>1, <2>1, <2>2
<1>3. QED
    BY <1>2 DEF IsTable

LEMMA FreedAreThePages ==
    ASSUME ControlInv, MemoryInv, NEW s \in Slots, in_use[s], RecordedFor(s),
           NEW n \in Nat, Populates(s, n), NEW f \in Frames
    PROVE  f \in FreedFrames(s) <=> HasPage(s, f)
<1>1. f \in FreedFrames(s) => HasPage(s, f)
    BY FreedPages DEF HasPage, PageAt
<1>2. ASSUME NEW j \in PdeIdx, NEW i \in PteIdx, PageAt(f, s, j, i)
      PROVE  f \in FreedFrames(s)
    <2>1. HasTable(s, j) /\ pte[pagedir[s][j]][i].present /\ pte[pagedir[s][j]][i].frame = f
        BY <1>2 DEF PageAt, MapsPage, PageFrame
    <2>2. j \in Visited(s) /\ page_tables[s][j] = pagedir[s][j]
        BY <2>1, AllVisited DEF RecordedFor
    <2>3. QED
        BY <2>1, <2>2 DEF FreedFrames
<1>3. QED
    BY <1>1, <1>2 DEF HasPage

LEMMA FreeFrames ==
    ASSUME ControlInv, MemoryInv, FramesInv, NEW c \in Contexts, TaskFree(c)
    PROVE  FramesInv'
<1> USE ConstantFacts
<1>1. /\ pc[c] = "free" /\ pc[c] \in HoldPcs /\ sys = "up"
      /\ pc'[c] \notin HoldPcs /\ \A d \in Contexts \ {c} : pc'[d] = pc[d]
      /\ UNCHANGED <<pagedir, page_tables, prog, child, page>>
    BY DEF TaskFree, Running, ExecReturns, locals, HoldPcs, ExecPcs, ControlInv, TypeOK
<1>2. Populated /\ TablesRecorded /\ LiveNotAbandoned /\ BitmapAccounted /\ ImageIntact
    BY <1>1 DEF FramesInv, AccountInv
<1>3. PICK s \in Slots : s = child[c] /\ in_use[s]
    BY <1>1, HeldInUse
<1>4. PICK n \in Nat : n = page[c] /\ Populates(s, n)
    BY <1>1, <1>2, <1>3, HeldPages DEF Populated
<1>5. /\ bitmap' = bitmap \ FreedFrames(s)
      /\ pte' = ClearedTables(s)
      /\ in_use' = [in_use EXCEPT ![s] = FALSE]
    BY <1>3 DEF TaskFree
<1>6. RecordedFor(s)
    BY <1>2, <1>3 DEF TablesRecorded
<1>7. ~in_use'[s] /\ \A r \in Slots \ {s} : in_use'[r] = in_use[r]
    BY <1>5 DEF ControlInv, TypeOK
\* only the tables of the task are written: their first entries are cleared
<1>8. ASSUME NEW g \in Frames, ~IsTable(s, g) PROVE pte'[g] = pte[g]
    <2>1. ASSUME NEW j \in Visited(s), page_tables[s][j] = g PROVE FALSE
        BY <1>3, <1>4, <1>6, <1>8, <2>1, VisitedTable, AllVisited DEF RecordedFor, IsTable, TableAt
    <2>2. QED
        BY <1>5, <2>1 DEF ClearedTables
<1>9. ASSUME NEW g \in Frames, IsTable(s, g)
      PROVE  pte'[g][0].frame # 0 /\ ~pte'[g][0].present
    <2>1. PICK j \in PdeIdx : HasTable(s, j) /\ pagedir[s][j] = g
        BY <1>9 DEF IsTable, TableAt
    <2>2. j \in Visited(s) /\ EntryPresent(s, j, 0) /\ page_tables[s][j] = g
        BY <1>3, <1>4, <1>6, <2>1, AllVisited DEF RecordedFor
    <2>3. pte[g][0].frame # 0
        BY <1>6, <2>1, <2>2 DEF RecordedFor, PageFrame
    <2>4. pte'[g] = [pte[g] EXCEPT ![0].present = FALSE]
        BY <1>5, <2>2 DEF ClearedTables
    <2>5. pte[g] \in [PteIdx -> EntryType] /\ pte[g][0] \in EntryType
        BY DEF ControlInv, TypeOK
    <2>6. pte'[g][0] = [pte[g][0] EXCEPT !.present = FALSE]
        BY <2>4, <2>5
    <2>7. \A e \in EntryType : LET x == [e EXCEPT !.present = FALSE]
                              IN  x.frame = e.frame /\ ~x.present
        BY DEF EntryType
    <2>8. QED
        BY <2>3, <2>5, <2>6, <2>7
<1>10. OnlySlot(s)
    <2> SUFFICES ASSUME NEW r \in Slots \ {s}, in_use[r], NEW k \in PdeIdx, HasTable(r, k)
                 PROVE  pte'[pagedir[r][k]] = pte[pagedir[r][k]]
        BY <1>1, <1>7 DEF OnlySlot, SlotKept
    <2>1. pagedir[r][k] \in Frames /\ \A j \in PdeIdx : pagedir[s][j] # pagedir[r][k]
        BY <1>3, TableFrame DEF HasTable
    <2>2. QED
        BY <1>8, <2>1 DEF IsTable, TableAt
<1>11. OnlyContext(c, s)
    BY <1>1, <1>3 DEF OnlyContext, ControlInv, SlotsAccounted, Holds, HoldPcs
<1>12. Populated'
    BY <1>1, <1>2, <1>10, <1>11, OthersPopulated
<1>13. TablesRecorded'
    BY <1>2, <1>7, <1>10, OthersRecorded
<1>14. \A f : f \in LiveFrames' <=> f \in Frames /\ OwnedByOthers(s, f)
    BY <1>7, <1>10, LiveAfter
<1>15. \A f : f \in LiveFrames <=>
        f \in Frames /\ (HasPage(s, f) \/ IsTable(s, f) \/ OwnedByOthers(s, f))
    BY <1>3, LiveBefore DEF Owns, HasPage, IsTable
<1>16. \A f : f \in Abandoned' <=> f \in Abandoned \/ (f \in Frames /\ IsTable(s, f))
    <2>1. ASSUME NEW g \in Frames
          PROVE  g \in Abandoned' <=> g \in Abandoned \/ IsTable(s, g)
        BY <1>8, <1>9 DEF Abandoned
    <2>2. QED
        BY <2>1 DEF Abandoned
<1>17. \A f : HasPage(s, f) \/ IsTable(s, f) => ~OwnedByOthers(s, f) /\ f \notin Reserved
    BY <1>3, OwnedOnce DEF Owns, HasPage, IsTable
<1>18. \A f : HasPage(s, f) => ~IsTable(s, f)
    BY <1>3, PageNotTable
<1>19. LiveNotAbandoned'
    BY <1>2, <1>14, <1>15, <1>16, <1>17 DEF LiveNotAbandoned
<1>20. BitmapAccounted'
    <2>1. ASSUME NEW f \in Frames
          PROVE  f \in bitmap' <=> f \in Reserved \/ f \in Abandoned' \/ f \in LiveFrames'
        <3>1. f \in bitmap' <=> f \in bitmap /\ ~HasPage(s, f)
            BY <1>3, <1>4, <1>5, <1>6, FreedAreThePages
        <3>2. f \in bitmap <=> f \in Reserved \/ f \in Abandoned \/ f \in LiveFrames
            BY <1>1, <1>2 DEF BitmapAccounted
        <3>3. HasPage(s, f) => f \notin Abandoned
            BY <1>2, <1>15 DEF LiveNotAbandoned
        <3>4. QED
            BY <1>14, <1>15, <1>16, <1>17, <1>18, <3>1, <3>2, <3>3
    <2>2. bitmap' \subseteq Frames /\ Abandoned' \subseteq Frames /\ LiveFrames' \subseteq Frames
        BY <1>5, <1>14 DEF ControlInv, TypeOK, Abandoned
    <2>3. QED
        BY <2>1, <2>2 DEF BitmapAccounted
<1>21. ImageIntact'
    <2>1. image' = image /\ pc'[c] \notin ImagePcs
        BY <1>1 DEF TaskFree, HoldPcs, ExecPcs, ImagePcs
    <2>2. QED
        BY <1>2, <1>10, <1>11, <2>1, OthersImages
<1>22. QED
    BY <1>12, <1>13, <1>19, <1>20, <1>21 DEF FramesInv, AccountInv

---------------------------------------------------------------------------
(* The other steps.                                                        *)

\* No frame is left for a page table: the machine stops.
LEMMA AllocFailsFrames ==
    ASSUME ControlInv, MemoryInv, FramesInv, NEW c \in Contexts, PagingAllocFails(c)
    PROVE  FramesInv'
<1> USE ConstantFacts
<1>1. PICK s \in Slots, j \in PdeIdx :
        s = child[c] /\ in_use[s] /\ j = page[c] \div PAGES_IN_PT
    BY PageIndex, HeldInUse DEF PagingAllocFails, ControlInv, HoldPcs, ExecPcs
<1>2. /\ pc[c] = "alloc" /\ sys = "up" /\ sys' # "up" /\ UNCHANGED <<in_use, page_tables, pc, locals>>
      /\ pagedir' = [pagedir EXCEPT ![s][j] = BadFrame]
    BY <1>1 DEF PagingAllocFails, Running, KernelException
<1>3. PICK f \in Frames \union {BadFrame} :
        /\ FrameAlloc(f, bitmap)
        /\ image' = ZeroedImage({f})
        /\ pte' = [g \in Frames |-> IF g = f THEN ZeroFrame ELSE pte[g]]
    BY DEF PagingAllocFails
<1>4. Populated /\ ImageIntact
    BY <1>2 DEF FramesInv, AccountInv
<1>5. f \notin bitmap
    BY <1>3, FreshFrame DEF ControlInv, TypeOK
<1>6. OnlySlot(s)
    <2>1. \A r \in Slots \ {s} : pagedir'[r] = pagedir[r] /\ page_tables'[r] = page_tables[r]
        BY <1>2 DEF ControlInv, TypeOK
    <2>2. ASSUME NEW r \in Slots \ {s}, in_use[r], NEW k \in PdeIdx, HasTable(r, k)
          PROVE  pte'[pagedir[r][k]] = pte[pagedir[r][k]]
        <3>1. pagedir[r][k] \in Frames /\ pagedir[r][k] \in bitmap
            BY <2>2, TableFrame DEF HasTable
        <3>2. QED
            BY <1>3, <1>5, <3>1
    <2>3. QED
        BY <1>2, <2>1, <2>2 DEF OnlySlot, SlotKept
<1>7. OnlyContext(c, s)
    BY <1>1, <1>2 DEF OnlyContext, locals, ControlInv, SlotsAccounted, Holds, HoldPcs, ExecPcs
<1>8. (\A g \in bitmap : image'[g] = image[g]) /\ pc'[c] \notin ImagePcs
    BY <1>2, <1>3, <1>5 DEF ZeroedImage, ImagePcs, ControlInv, TypeOK
<1>9. QED
    BY <1>2, <1>4, <1>6, <1>7, <1>8, OthersImages DEF FramesInv, AccountInv

\* The copy of an image writes frames of its own task only.
LEMMA CopyFrames ==
    ASSUME ControlInv, MemoryInv, FramesInv, NEW c \in Contexts, CopyImage(c)
    PROVE  FramesInv'
<1>1. /\ pc[c] = "copy" /\ pc' = [pc EXCEPT ![c] = "restore"] /\ sys = "up" /\ sys' = sys
      /\ UNCHANGED <<bitmap, pte, in_use, pagedir, page_tables, prog, child, page>>
      /\ image' = [f \in Frames |->
                    IF \E v \in 0 .. Image[prog[c]] - 1 : EntryOf(child[c], v).frame = f
                    THEN prog[c] ELSE image[f]]
    BY DEF CopyImage, Running, slots
<1>2. Populated /\ ImageIntact
    BY <1>1 DEF FramesInv, AccountInv
<1>3. HoldsKept
    BY <1>1 DEF HoldsKept, HoldPcs, ExecPcs, ControlInv, TypeOK
<1>4. AccountInv'
    BY <1>1, <1>3, QuietAccount DEF FramesInv
<1>5. ASSUME NEW d \in Contexts, pc'[d] \in ImagePcs, NEW v \in 0 .. Image[prog[d]] - 1,
             NEW f \in Frames, f = EntryOf(child[d], v).frame
      PROVE  image'[f] = prog[d]
    <2>1. CASE d = c
        BY <1>1, <1>5, <2>1
    <2>2. CASE d # c
        <3>1. pc[d] \in ImagePcs /\ pc[d] \in HoldPcs /\ pc[c] \in HoldPcs
              /\ pc[d] # "alloc" /\ pc[c] # "alloc"
            BY <1>1, <1>5, <2>2 DEF ImagePcs, HoldPcs, ExecPcs, ControlInv, TypeOK
        <3>2. image[f] = prog[d]
            BY <1>2, <1>5, <3>1 DEF ImageIntact, ImagePcs
        <3>3. ASSUME NEW w \in 0 .. Image[prog[c]] - 1, EntryOf(child[c], w).frame = f
              PROVE  FALSE
            <4>1. PICK s \in Slots, j \in PdeIdx, i \in PteIdx :
                    /\ s = child[d] /\ in_use[s] /\ EntryPresent(s, j, i)
                    /\ PageFrame(s, j, i) = f
                BY <1>2, <1>5, <3>1, ImagePage
            <4>2. PICK r \in Slots, k \in PdeIdx, l \in PteIdx :
                    /\ r = child[c] /\ in_use[r] /\ EntryPresent(r, k, l)
                    /\ PageFrame(r, k, l) = f
                BY <1>2, <3>1, <3>3, ImagePage
            <4>3. MapsPage(s, j, i) /\ MapsPage(r, k, l)
                BY <4>1, <4>2 DEF MapsPage, EntryPresent, PageFrame
            <4>4. r = s
                BY <4>1, <4>2, <4>3, PageFrameIsolated
            <4>5. QED
                BY <2>2, <3>1, <4>1, <4>2, <4>4 DEF ControlInv, SlotsAccounted, Holds, HoldPcs
        <3>4. QED
            BY <1>1, <3>2, <3>3
    <2>3. QED
        BY <2>1, <2>2
<1>6. ImageIntact'
    <2> SUFFICES ASSUME NEW d \in Contexts, pc'[d] \in ImagePcs,
                        NEW v \in 0 .. Image[prog'[d]] - 1,
                        EntryOf(child[d], v)'.frame \in Frames
                 PROVE  image'[EntryOf(child[d], v)'.frame] = prog'[d]
        BY DEF ImageIntact, ImagePcs
    <2>1. EntryOf(child[d], v)' = EntryOf(child[d], v) /\ prog'[d] = prog[d]
        BY <1>1 DEF EntryOf
    <2>2. QED
        BY <1>5, <2>1
<1>7. QED
    BY <1>4, <1>6 DEF FramesInv

\* A step that writes neither frames, nor directories, nor slots.
LEMMA QuietFrames ==
    ASSUME FramesInv, HoldsKept, ImagesKept, UNCHANGED <<memory, slots>>,
           sys' = "up" => sys = "up"
    PROVE  FramesInv'
BY QuietAccount, QuietImages DEF FramesInv, memory, slots

LEMMA ReturnFrames ==
    ASSUME ControlInv, FramesInv, NEW c \in Slots, c = tr, sys = "up", TaskReturn(c)
    PROVE  FramesInv'
<1>1. busy[c] /\ link[c] \in Contexts /\ pc[link[c]] = "wait"
    BY DEF ControlInv, CallChain
<1>2. HoldsKept /\ ImagesKept
    BY <1>1, ConstantFacts
    DEF TaskReturn, locals, HoldsKept, ImagesKept, ImagePcs, HoldPcs, ExecPcs, ControlInv, TypeOK
<1>3. QED
    BY <1>2, QuietFrames DEF TaskReturn

LEMMA UserFrames ==
    ASSUME ControlInv, FramesInv, NEW c \in Contexts, UserStep(c)
    PROVE  FramesInv'
<1>1. ASSUME NEW n \in Names, Exec(c, n) PROVE FramesInv'
    <2>1. HoldsKept /\ ImagesKept
        BY <1>1 DEF Exec, HoldsKept, ImagesKept, ImagePcs, HoldPcs, ExecPcs, ControlInv, TypeOK
    <2>2. QED
        BY <1>1, <2>1, QuietFrames DEF Exec
<1>2. ASSUME NEW col \in Colors, SetColors(c, col) PROVE FramesInv'
    <2>1. HoldsKept /\ ImagesKept
        BY <1>2 DEF SetColors, locals, HoldsKept, ImagesKept
    <2>2. QED
        BY <1>2, <2>1, QuietFrames DEF SetColors
<1>3. ASSUME NEW where \in FaultPcs, Fault(c, where) PROVE FramesInv'
    <2>1. HoldsKept /\ ImagesKept
        BY <1>3 DEF Fault, locals, HoldsKept, ImagesKept, ImagePcs, HoldPcs, ExecPcs, FaultPcs, ControlInv, TypeOK
    <2>2. QED
        BY <1>3, <2>1, QuietFrames DEF Fault
<1>4. ASSUME Exit(c) PROVE FramesInv'
    BY <1>4, ReturnFrames DEF Exit, Running
<1>5. QED
    BY <1>1, <1>2, <1>3, <1>4 DEF UserStep

LEMMA KernelFramesStep ==
    ASSUME ControlInv, MemoryInv, FramesInv, NEW c \in Contexts, KernelStep(c)
    PROVE  FramesInv'
<1>1. ASSUME TaskLoadFails(c) PROVE FramesInv'
    <2>1. HoldsKept /\ ImagesKept
        BY <1>1 DEF TaskLoadFails, ExecReturns, locals, HoldsKept, ImagesKept, ImagePcs, HoldPcs,
                    ExecPcs, ControlInv, TypeOK
    <2>2. QED
        BY <1>1, <2>1, QuietFrames DEF TaskLoadFails, Running
<1>2. ASSUME RestorePagedir(c) PROVE FramesInv'
    <2>1. HoldsKept /\ ImagesKept
        BY <1>2 DEF RestorePagedir, locals, HoldsKept, ImagesKept, ImagePcs, HoldPcs, ExecPcs,
                    ControlInv, TypeOK
    <2>2. QED
        BY <1>2, <2>1, QuietFrames DEF RestorePagedir
<1>3. ASSUME TaskSwitch(c) PROVE FramesInv'
    <2>1. child[c] \in Slots
        BY <1>3 DEF TaskSwitch, ControlInv, Loading, HoldPcs, ExecPcs
    <2>2. HoldsKept /\ ImagesKept
        BY <1>3, <2>1, ConstantFacts DEF TaskSwitch, HoldsKept, ImagesKept, ImagePcs, HoldPcs, ExecPcs,
                    ControlInv, TypeOK
    <2>3. QED
        BY <1>3, <2>2, QuietFrames DEF TaskSwitch
<1>4. ASSUME Handled(c) PROVE FramesInv'
    <2>1. PICK x \in HandledPcs : pc' = [pc EXCEPT ![c] = x]
        BY <1>4, HandledStep
    <2>2. /\ pc[c] \in FaultPcs \union {"unpatched", "resumed"} /\ sys = "up"
          /\ UNCHANGED <<memory, slots, locals>>
        BY <1>4, HandledStep DEF Running
    <2>3. HoldsKept /\ ImagesKept
        BY <2>1, <2>2 DEF HandledPcs, FaultPcs, locals, HoldsKept, ImagesKept, ImagePcs,
                          HoldPcs, ExecPcs, ControlInv, TypeOK
    <2>4. QED
        BY <2>2, <2>3, QuietFrames
<1>5. ASSUME ExceptionHandlerFaults(c) PROVE FramesInv'
    <2>1. HoldsKept /\ ImagesKept /\ sys = "up"
        BY <1>5 DEF ExceptionHandlerFaults, Running, locals, HoldsKept, ImagesKept
    <2>2. QED
        BY <1>5, <2>1, QuietFrames DEF ExceptionHandlerFaults
<1>6. ASSUME PatchedIret(c) PROVE FramesInv'
    BY <1>6, ReturnFrames DEF PatchedIret, Running
<1>7. QED
    BY <1>1, <1>2, <1>3, <1>4, <1>5, <1>6, CreateFrames, AllocFrames, AllocTableFrames,
       AllocFailsFrames, CopyFrames, FreeFrames DEF KernelStep, Handled

LEMMA FramesStep == ControlInv /\ MemoryInv /\ FramesInv /\ [Next]_vars => FramesInv'
<1> SUFFICES ASSUME ControlInv, MemoryInv, FramesInv, [Next]_vars PROVE FramesInv'
    OBVIOUS
<1>1. CASE UNCHANGED vars
    <2>1. HoldsKept /\ ImagesKept
        BY <1>1 DEF vars, locals, HoldsKept, ImagesKept
    <2>2. QED
        BY <1>1, <2>1, QuietFrames DEF vars
<1>2. ASSUME NEW c \in Contexts, UserStep(c) \/ KernelStep(c) PROVE FramesInv'
    BY <1>2, UserFrames, KernelFramesStep
<1>3. QED
    BY <1>1, <1>2 DEF Next, Stopped

LEMMA FramesInvariant == Spec => [](ControlInv /\ MemoryInv /\ FramesInv)
<1>1. Init => ControlInv /\ MemoryInv /\ FramesInv
    BY InitControl, InitMemory, InitFrames
<1>2. ControlInv /\ MemoryInv /\ FramesInv /\ [Next]_vars
        => (ControlInv /\ MemoryInv /\ FramesInv)'
    BY MemoryStep, FramesStep, TypeStep, ControlFlowStep, LoadingStep DEF ControlInv, ControlFlow
<1>3. QED
    BY <1>1, <1>2, PTL DEF Spec

\* While the machine is up, the frames marked as allocated are exactly the
\* kernel's, the tables and pages of the tasks that exist, and the tables that
\* task_free left behind: frame_alloc, paging_alloc and task_free lose and
\* duplicate no other frame, however many tasks were created, nested and freed.
THEOREM BitmapIsAccounted == Spec => []BitmapAccounted
<1>1. FramesInv => BitmapAccounted
    BY DEF FramesInv, AccountInv, BitmapAccounted
<1>2. QED
    BY <1>1, FramesInvariant, PTL

\* What task_load copied for a task is in the task's frames until it ends: no
\* copy for another task, and no frame cleared by frame_alloc, is one of them.
THEOREM ImagesIntact == Spec => []ImageIntact
<1>1. FramesInv => ImageIntact
    BY DEF FramesInv
<1>2. QED
    BY <1>1, FramesInvariant, PTL
=============================================================================
