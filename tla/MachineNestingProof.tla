------------------------ MODULE MachineNestingProof ------------------------
(***************************************************************************)
(* The entry and exit code is a stack of activations: Machine implements   *)
(* Control, for any number of task slots.                                  *)
(*                                                                         *)
(* The activations of Control are read off the stacks and the task links.  *)
(* The proof shows that they are those of the history `taken', which the   *)
(* invariant of MachineProof describes: each frame on a stack holds the    *)
(* address of the activation below, each link leads to the context that    *)
(* called, and nothing else on the stacks is an address.                   *)
(***************************************************************************)
EXTENDS MachineProof, FiniteSetTheorems, WellFoundedInduction

---------------------------------------------------------------------------
(* Induction, for a set of natural numbers.                                *)

LEMMA NatSetInduction ==
    ASSUME NEW S, 0 \in S, \A n \in Nat : n \in S => n + 1 \in S
    PROVE  Nat \subseteq S
  <1> DEFINE R == {p \in Nat \X Nat : p[1] < p[2]}
  <1>1. IsWellFoundedOn(R, Nat)
    BY NatLessThanWellFounded DEF OpToRel
  <1>2. SUFFICES ASSUME Nat \ S # {} PROVE FALSE
    OBVIOUS
  <1>3. PICK n \in Nat \ S : \A m \in Nat \ S : ~(<<m, n>> \in R)
    <2>1. Nat \ S \subseteq Nat
      OBVIOUS
    <2> HIDE DEF R
    <2> QED
      BY <1>1, <1>2, <2>1, WFMin
  <1>4. n # 0 /\ n - 1 \in Nat /\ n = (n - 1) + 1
    BY <1>3
  <1>5. n - 1 \in S
    <2>1. n - 1 < n
      BY <1>4
    <2>2. <<n - 1, n>> \in R
      BY <1>4, <2>1
    <2> QED
      BY <1>3, <1>4, <2>2
  <1> QED
    BY <1>3, <1>4, <1>5

---------------------------------------------------------------------------
(* The addresses among the words of a stack.                               *)

\* f[n] holds the addresses among the first n words.
Collects(f, words) ==
    f = [n \in 0 .. Len(words) |->
            IF n = 0 THEN <<>>
            ELSE IF words[n][1] = "code" THEN Append(f[n - 1], words[n]) ELSE f[n - 1]]

LEMMA CollectsExists ==
    ASSUME NEW words, NEW size \in Nat, Len(words) = size
    PROVE  \E f : Collects(f, words)
  <1> DEFINE next(q, n) == IF words[n][1] = "code" THEN Append(q, words[n]) ELSE q
             Upwards(f, m) == f = [n \in 0 .. m |-> IF n = 0 THEN <<>> ELSE next(f[n - 1], n)]
             S == {m \in Nat : \E f : Upwards(f, m)}
  <1>1. 0 \in S
    <2>1. Upwards([n \in 0 .. 0 |-> <<>>], 0)
      OBVIOUS
    <2> QED
      BY <2>1
  <1>2. ASSUME NEW m \in Nat, m \in S PROVE m + 1 \in S
    <2>1. PICK f : Upwards(f, m)
      BY <1>2
    <2> HIDE DEF next
    <2> DEFINE g == [n \in 0 .. m + 1 |-> IF n = m + 1 THEN next(f[m], m + 1) ELSE f[n]]
    <2>2. ASSUME NEW n \in 0 .. m + 1
          PROVE  g[n] = IF n = 0 THEN <<>> ELSE next(g[n - 1], n)
      <3>1. CASE n = m + 1
        <4>1. n # 0 /\ n - 1 = m /\ m \in 0 .. m + 1 /\ m # m + 1
          BY <3>1
        <4> QED
          BY <3>1, <4>1
      <3>2. CASE n # m + 1 /\ n = 0
        BY <2>1, <3>2
      <3>3. CASE n # m + 1 /\ n # 0
        <4>1. n \in 0 .. m /\ n - 1 \in 0 .. m + 1 /\ n - 1 # m + 1
          BY <3>3
        <4>2. g[n] = f[n] /\ g[n - 1] = f[n - 1]
          BY <3>3, <4>1
        <4>3. f[n] = next(f[n - 1], n)
          BY <2>1, <3>3, <4>1
        <4> QED
          BY <3>3, <4>2, <4>3
      <3> QED
        BY <3>1, <3>2, <3>3
    <2>3. Upwards(g, m + 1)
      BY <2>2
    <2>4. m + 1 \in Nat
      OBVIOUS
    <2> HIDE DEF g, Upwards
    <2> QED
      BY <2>3, <2>4
  <1>3. Nat \subseteq S
    <2> HIDE DEF S
    <2> QED
      BY <1>1, <1>2, NatSetInduction
  <1>4. PICK f : Upwards(f, size)
    BY <1>3
  <1> QED
    BY <1>4 DEF Collects

\* They depend on the words only.
LEMMA CollectsSame ==
    ASSUME NEW s, NEW t, NEW f, NEW g, Collects(f, s), Collects(g, t),
           NEW m \in Nat, Len(s) \in Nat, Len(t) \in Nat, m <= Len(s), m <= Len(t),
           \A i \in 1 .. m : s[i] = t[i]
    PROVE  f[m] = g[m]
  <1> DEFINE S == {k \in Nat : k <= m => f[k] = g[k]}
  <1>1. 0 \in S
    BY DEF Collects
  <1>2. ASSUME NEW k \in Nat, k \in S PROVE k + 1 \in S
    <2> SUFFICES ASSUME k + 1 <= m PROVE f[k + 1] = g[k + 1]
      OBVIOUS
    <2>1. k + 1 \in 1 .. m /\ k + 1 # 0 /\ (k + 1) - 1 = k /\ k <= m
          /\ k + 1 \in 0 .. Len(s) /\ k + 1 \in 0 .. Len(t)
      OBVIOUS
    <2>2. f[k] = g[k] /\ s[k + 1] = t[k + 1]
      BY <1>2, <2>1
    <2>3. \A n \in 0 .. Len(s) : n # 0 =>
              f[n] = IF s[n][1] = "code" THEN Append(f[n - 1], s[n]) ELSE f[n - 1]
      BY DEF Collects
    <2>4. \A n \in 0 .. Len(t) : n # 0 =>
              g[n] = IF t[n][1] = "code" THEN Append(g[n - 1], t[n]) ELSE g[n - 1]
      BY DEF Collects
    <2>5. f[k + 1] = IF s[k + 1][1] = "code" THEN Append(f[k], s[k + 1]) ELSE f[k]
      BY <2>1, <2>3
    <2>6. g[k + 1] = IF t[k + 1][1] = "code" THEN Append(g[k], t[k + 1]) ELSE g[k]
      BY <2>1, <2>4
    <2> QED
      BY <2>2, <2>5, <2>6
  <1>3. Nat \subseteq S
    <2> HIDE DEF S
    <2> QED
      BY <1>1, <1>2, NatSetInduction
  <1> QED
    BY <1>3

\* The addresses among the lowest m words.
Below(words, m) == CodesIn(SubSeq(words, 1, m))

LEMMA CodesCollected ==
    ASSUME NEW words, Len(words) \in Nat, NEW f, Collects(f, words)
    PROVE  CodesIn(words) = f[Len(words)]
  <1> DEFINE g == CHOOSE g : Collects(g, words)
  <1>1. Collects(g, words)
    BY CollectsExists
  <1>2. CodesIn(words) = g[Len(words)]
    BY DEF CodesIn, Collects
  <1> HIDE DEF g
  <1>3. g[Len(words)] = f[Len(words)]
    BY <1>1, CollectsSame
  <1> QED
    BY <1>2, <1>3

LEMMA Lowest ==
    ASSUME NEW S, NEW s \in Seq(S), NEW m \in 0 .. Len(s)
    PROVE  /\ SubSeq(s, 1, m) \in Seq(S) /\ Len(SubSeq(s, 1, m)) = m
           /\ \A i \in 1 .. m : SubSeq(s, 1, m)[i] = s[i]
  <1>1. PICK n \in Nat : n = Len(s)
    BY LenProperties
  <1>2. \A i \in 1 .. m : s[i] \in S
    BY <1>1, ElementOfSeq
  <1>3. m \in Nat
    BY <1>1
  <1>4. /\ SubSeq(s, 1, m) \in Seq(S)
        /\ Len(SubSeq(s, 1, m)) = IF 1 <= m THEN m - 1 + 1 ELSE 0
        /\ \A i \in 1 .. m - 1 + 1 : SubSeq(s, 1, m)[i] = s[1 + i - 1]
    BY <1>2, <1>3, SubSeqProperties
  <1> QED
    BY <1>3, <1>4

\* From the bottom of a stack to its top, one word at a time.
LEMMA CodesSteps ==
    ASSUME NEW S, NEW s \in Seq(S)
    PROVE  /\ \A m \in 1 .. Len(s) :
                 Below(s, m) = IF s[m][1] = "code" THEN Append(Below(s, m - 1), s[m])
                               ELSE Below(s, m - 1)
           /\ Below(s, 0) = <<>> /\ Below(s, Len(s)) = CodesIn(s)
  <1>1. PICK n \in Nat : n = Len(s)
    BY LenProperties
  <1>2. PICK f : Collects(f, s)
    BY <1>1, CollectsExists
  <1>3. ASSUME NEW m \in 0 .. n PROVE Below(s, m) = f[m]
    <2>1. PICK low : low = SubSeq(s, 1, m) /\ Len(low) = m /\ \A i \in 1 .. m : low[i] = s[i]
      BY <1>1, Lowest
    <2>2. m \in Nat /\ m <= Len(low) /\ m <= Len(s) /\ Len(s) \in Nat /\ Len(low) \in Nat
      BY <1>1, <2>1
    <2>3. PICK g : Collects(g, low)
      BY <2>1, <2>2, CollectsExists
    <2>4. \A i \in 1 .. m : low[i] = s[i]
      BY <2>1
    <2>5. g[m] = f[m]
      BY <1>2, <2>2, <2>3, <2>4, CollectsSame
    <2>6. CodesIn(low) = g[m]
      BY <2>1, <2>2, <2>3, CodesCollected
    <2> QED
      BY <2>1, <2>5, <2>6 DEF Below
  <1>4. ASSUME NEW m \in 1 .. n
        PROVE  Below(s, m) = IF s[m][1] = "code" THEN Append(Below(s, m - 1), s[m])
                             ELSE Below(s, m - 1)
    <2>1. m \in 0 .. n /\ m - 1 \in 0 .. n /\ m # 0
      OBVIOUS
    <2>2. f[m] = IF s[m][1] = "code" THEN Append(f[m - 1], s[m]) ELSE f[m - 1]
      BY <1>1, <1>2, <2>1 DEF Collects
    <2> QED
      BY <1>3, <2>1, <2>2
  <1>5. Below(s, 0) = <<>>
    BY <1>1, <1>2, <1>3 DEF Collects
  <1>6. Below(s, n) = CodesIn(s)
    BY <1>1, <1>2, <1>3, CodesCollected
  <1> QED
    BY <1>1, <1>4, <1>5, <1>6

LEMMA NoCodes == CodesIn(<<>>) = <<>>
  <1>1. <<>> \in Seq(Words) /\ Len(<<>>) = 0
    BY EmptySeq
  <1>2. Below(<<>>, 0) = <<>> /\ Below(<<>>, Len(<<>>)) = CodesIn(<<>>)
    BY <1>1, CodesSteps
  <1> QED
    BY <1>1, <1>2

\* Words that are no addresses.
Unaddressed(t) == \A i \in 1 .. Len(t) : t[i][1] # "code"

LEMMA UnaddressedAbove ==
    ASSUME NEW s \in Seq(Words), NEW t \in Seq(Words), Unaddressed(t)
    PROVE  CodesIn(s \o t) = CodesIn(s)
  <1>1. PICK a \in Nat, b \in Nat : a = Len(s) /\ b = Len(t)
    BY LenProperties
  <1>2. PICK q \in Seq(Words) : q = s \o t
    BY OnTop
  <1>3. Len(q) = a + b /\ \A i \in 1 .. b : q[a + i] = t[i]
    BY <1>1, <1>2, OnTop
  <1>4. SubSeq(q, 1, a) = s
    <2>1. Without(q, b) = s
      BY <1>1, <1>2, OnTop
    <2>2. Without(q, b) = SubSeq(q, 1, Len(q) - b)
      BY DEF Without
    <2>3. Len(q) - b = a
      BY <1>1, <1>3
    <2> QED
      BY <2>1, <2>2, <2>3
  <1>5. \A m \in 1 .. a + b :
            Below(q, m) = IF q[m][1] = "code" THEN Append(Below(q, m - 1), q[m])
                          ELSE Below(q, m - 1)
    BY <1>3, CodesSteps
  <1>6. Below(q, a + b) = CodesIn(q)
    BY <1>3, CodesSteps
  <1> DEFINE S == {k \in Nat : k <= b => Below(q, a + k) = Below(q, a)}
  <1>7. 0 \in S
    BY <1>1
  <1>8. ASSUME NEW k \in Nat, k \in S PROVE k + 1 \in S
    <2> SUFFICES ASSUME k + 1 <= b PROVE Below(q, a + (k + 1)) = Below(q, a)
      OBVIOUS
    <2>1. /\ k + 1 \in 1 .. b /\ k <= b /\ a + (k + 1) \in 1 .. a + b
          /\ (a + (k + 1)) - 1 = a + k
      BY <1>1
    <2>2. q[a + (k + 1)][1] # "code"
      BY <1>1, <1>3, <2>1 DEF Unaddressed
    <2>3. Below(q, a + (k + 1)) = Below(q, a + k)
      BY <1>5, <2>1, <2>2
    <2> QED
      BY <1>8, <2>1, <2>3
  <1>9. Nat \subseteq S
    <2> HIDE DEF S
    <2> QED
      BY <1>7, <1>8, NatSetInduction
  <1>10. Below(q, a + b) = Below(q, a)
    BY <1>1, <1>9
  <1>11. Below(q, a) = CodesIn(s)
    BY <1>4 DEF Below
  <1> QED
    BY <1>2, <1>6, <1>10, <1>11

\* The words of an interrupted state that are still below the entry.
Own(s) == IF FromUser(s.cpu) THEN <<>> ELSE s.words

\* The addresses of a state: those below it, and its own.
Codes(s) == Append(CodesIn(Own(s)), s.cpu.eip)

LEMMA WordTags ==
    /\ \A n : Sel(n)[1] # "code" /\ Num(n)[1] # "code"
    /\ \A a, b : Val(a, b)[1] # "code" /\ Esp(a, b)[1] # "code" /\ Flags(a, b)[1] # "code"
BY DEF Sel, Num, Val, Esp, Flags

\* An entry puts one address on the stack.
LEMMA FrameCodes ==
    ASSUME NEW s \in States, s.cpu.eip[1] = "code"
    PROVE  CodesIn(Frame(s)) = Codes(s)
  <1>1. PICK f \in Seq(Words), n \in Nat : f = Frame(s) /\ n = Len(f)
    BY FrameShape
  <1>2. /\ n >= 3 /\ f[n] = s.cpu.eip /\ f[n - 1] = Sel(s.cpu.cs)
        /\ f[n - 2] = Flags(s.cpu.iflag, s.cpu.nt)
        /\ Outer(s) \in Seq(Words) /\ Without(f, 3) = Outer(s)
        /\ FromUser(s.cpu) =>
            n = 5 /\ f[n - 3] = Esp(s.cpu.area, Len(s.words)) /\ f[n - 4] = Sel(s.cpu.ss)
    BY <1>1, FrameShape
  <1>3. /\ \A m \in 1 .. n :
            Below(f, m) = IF f[m][1] = "code" THEN Append(Below(f, m - 1), f[m])
                          ELSE Below(f, m - 1)
        /\ Below(f, 0) = <<>> /\ Below(f, n) = CodesIn(f)
    BY <1>1, CodesSteps
  <1>4. n \in 1 .. n /\ n - 1 \in 1 .. n /\ n - 2 \in 1 .. n /\ (n - 1) - 1 = n - 2
        /\ (n - 2) - 1 = n - 3
    BY <1>1, <1>2
  <1>5. Below(f, n) = Append(Below(f, n - 1), s.cpu.eip)
    BY <1>2, <1>3, <1>4
  <1>6. Below(f, n - 1) = Below(f, n - 2)
    BY <1>2, <1>3, <1>4, WordTags, ZenonT(60)
  <1>7. Below(f, n - 2) = Below(f, n - 3)
    BY <1>2, <1>3, <1>4, WordTags, ZenonT(60)
  <1>8. Below(f, n - 3) = CodesIn(Own(s))
    <2>1. CASE FromUser(s.cpu)
      <3>1. n = 5 /\ f[2] = Esp(s.cpu.area, Len(s.words)) /\ f[1] = Sel(s.cpu.ss)
        BY <1>2, <2>1
      <3>2. Below(f, 2) = Below(f, 1) /\ Below(f, 1) = Below(f, 0)
        BY <1>3, <3>1, WordTags
      <3> QED
        BY <1>3, <2>1, <3>1, <3>2, NoCodes DEF Own
    <2>2. CASE ~FromUser(s.cpu)
      <3>1. Without(f, 3) = s.words
        BY <1>2, <2>2 DEF Outer
      <3>2. SubSeq(f, 1, n - 3) = s.words
        BY <1>1, <3>1 DEF Without
      <3> QED
        BY <2>2, <3>2 DEF Own, Below
    <2> QED
      BY <2>1, <2>2
  <1> QED
    BY <1>1, <1>3, <1>5, <1>6, <1>7, <1>8 DEF Codes

\* No general register holds an address.
Addressless(u) == \A r \in General : u.gen[r][1] # "code"

LEMMA PushedUnaddressed ==
    ASSUME NEW u \in Cpus, Addressless(u), NEW order \in Seq(Registers)
    PROVE  Unaddressed(PushedOf(u, order))
  <1>1. \A i \in 1 .. Len(order) : order[i] \in Registers
    BY ElementOfSeq
  <1>2. \A r \in Registers : WordOf(u, r)[1] # "code"
    BY WordTags DEF WordOf, Addressless, Registers
  <1> QED
    BY <1>1, <1>2, PushedWords DEF Unaddressed

LEMMA HeaderUnaddressed ==
    ASSUME NEW n \in Installed \ {SYSCALL}
    PROVE  Unaddressed(ErrorCode(n)) /\ Unaddressed(Header(n))
  <1>1. Unaddressed(<<>>)
    BY EmptySeq DEF Unaddressed
  <1>2. \A w : w[1] # "code" => Unaddressed(<<w>>)
    BY DEF Unaddressed
  <1>3. Unaddressed(ErrorCode(n))
    BY <1>1, <1>2, WordTags DEF ErrorCode
  <1>4. PICK a \in Words, b \in Words : a = Num(0) /\ b = Num(Number(n))
    <2>1. Number(n) \in Nat
      BY DEF Number, Installed, Exceptions, IRQ_REMAP_OFFSET, IRQ_FIRST, IRQ_LAST, SYSCALL
    <2> QED
      BY <2>1, WordFacts
  <1>5. a[1] # "code" /\ b[1] # "code"
    BY <1>4, WordTags
  <1>6. <<a>> \o <<b>> = <<a, b>> /\ <<>> \o <<b>> = <<b>>
    BY Pairing, ConcatEmptySeq
  <1>7. Unaddressed(<<a, b>>)
    BY <1>5 DEF Unaddressed
  <1>8. Header(n) \in {<<b>>, <<a, b>>}
    BY <1>4, <1>6 DEF Header
  <1> QED
    BY <1>2, <1>3, <1>5, <1>7, <1>8

---------------------------------------------------------------------------
(* The activations of the history.                                         *)

\* The activation that entry e began, and the one above the first k entries.
Begun(e) ==
    [ctx  |-> IF e.asked[1] = "call" THEN e.asked[2] ELSE Ctx(e.was.cpu),
     kind |-> IF e.asked[1] = "call" THEN "user"
              ELSE IF e.asked[1] = "int" THEN "sys"
              ELSE IF e.asked[1] = "irq" THEN "irq" ELSE "exc"]
Act(k) == IF k = 0 THEN [ctx |-> KERNEL, kind |-> "main"] ELSE Begun(taken[k])

\* The state of that activation: what was left, or what runs.
Now(k) == IF k < Len(taken) THEN Left(k + 1) ELSE [cpu |-> cpu, words |-> Stk]

\* The code of an activation tells its kind.
LEMMA MainKind ==
    ASSUME NEW u, NEW w, MainState(u, w)
    PROVE  KindOf(Ctx(u), u.eip) = "main"
  <1>1. PICK l \in {"kernel_main", "task_switch", "task_free", "halt", "sti", "hlt"} :
            u.eip = Code(KERNEL, l)
    BY MainShape
  <1>2. Ctx(u) = KERNEL
    BY MainShape
  <1>3. u.eip # Entry(SYSCALL)
    BY <1>1, CodeFacts
  <1>4. u.eip[2] = KERNEL /\ u.eip[3] = l
    BY <1>1, CodeFacts
  <1> QED
    BY <1>2, <1>3, <1>4 DEF KindOf

LEMMA UserKind ==
    ASSUME NEW c \in Slots, NEW u, NEW w, UserState(c, u, w)
    PROVE  KindOf(Ctx(u), u.eip) = "user"
BY UserShape DEF KindOf

LEMMA SysKind ==
    ASSUME NEW e \in Entries, Began(e), NEW u, NEW w, e.asked[1] = "int", SysState(e.was, u, w)
    PROVE  KindOf(Ctx(u), u.eip) = "sys"
  <1>1. Ctx(u) # KERNEL /\ u.eip[2] = KERNEL
    BY SysShape, EntryTypes, ContextFacts DEF KernelShape
  <1>2. CASE u.eip = Entry(SYSCALL)
    BY <1>1, <1>2 DEF KindOf
  <1>3. CASE \E l \in {"syscall_handler", "task_switch", "task_free", "syscall_exit",
                       "syscall_iret"} : u.eip = Code(KERNEL, l)
    <2>1. u.eip[3] \in {"syscall_handler", "task_switch", "task_free", "syscall_exit",
                        "syscall_iret"}
      BY <1>3, CodeFacts
    <2> QED
      BY <1>1, <2>1 DEF KindOf
  <1> QED
    BY <1>2, <1>3, SysShape

LEMMA HandlerKind ==
    ASSUME NEW e \in Entries, Began(e), NEW u, NEW w, e.asked[1] \in {"irq", "fault"},
           HandlerState(e, u, w)
    PROVE  KindOf(Ctx(u), u.eip) = IF e.asked[1] = "irq" THEN "irq" ELSE "exc"
  <1>1. u.eip[2] = KERNEL
    BY HandlerShape DEF KernelShape
  <1>2. CASE u.eip = Entry(VectorOf(e.asked))
    <2>1. PICK n : n = VectorOf(e.asked)
      OBVIOUS
    <2>2. /\ u.eip[3] = "entry" /\ u.eip[4] = n
          /\ n # SYSCALL => u.eip # Entry(SYSCALL)
      BY <1>2, <2>1, CodeFacts
    <2>3. n # SYSCALL /\ (n \in Exceptions <=> e.asked[1] = "fault")
      <3>1. CASE e.asked[1] = "irq"
        <4>1. n = 32 + e.asked[2] /\ e.asked[2] \in 0 .. 15
          BY <2>1, <3>1, EntryTypes DEF VectorOf, IRQ_REMAP_OFFSET, IRQ_FIRST, IRQ_LAST
        <4> QED
          BY <3>1, <4>1 DEF Exceptions, SYSCALL
      <3>2. CASE e.asked[1] = "fault"
        <4>1. n \in Exceptions
          BY <2>1, <3>2, EntryTypes DEF VectorOf
        <4> QED
          BY <3>2, <4>1 DEF Exceptions, SYSCALL
      <3> QED
        BY <3>1, <3>2
    <2> QED
      BY <1>1, <2>2, <2>3 DEF KindOf
  <1>3. CASE u.eip = Code(KERNEL, HandlerLabel(e.asked)) \/ u.eip = Code(KERNEL, ExitLabel(e.asked))
    <2>1. /\ u.eip[3] = HandlerLabel(e.asked) \/ u.eip[3] = ExitLabel(e.asked)
          /\ u.eip[3] # "entry" => u.eip # Entry(SYSCALL)
      BY <1>3, CodeFacts
    <2>2. CASE e.asked[1] = "irq"
      <3>1. u.eip[3] \in {"irq_handler", "irq_exit"}
        BY <2>1, <2>2 DEF HandlerLabel, ExitLabel
      <3> QED
        BY <1>1, <2>1, <2>2, <3>1 DEF KindOf
    <2>3. CASE e.asked[1] = "fault"
      <3>1. u.eip[3] \in {"exception_handler", "exception_exit"}
        BY <2>1, <2>3 DEF HandlerLabel, ExitLabel
      <3> QED
        BY <1>1, <2>1, <2>3, <3>1 DEF KindOf
    <2> QED
      BY <2>2, <2>3
  <1> QED
    BY <1>2, <1>3, HandlerShape

\* The code, the context and the privilege of each activation.
LEMMA ActivationCode ==
    ASSUME Types, Nested, NEW k \in 0 .. Len(taken), NEW u, NEW w, Above(k, u, w)
    PROVE  /\ u.eip[1] = "code" /\ Ctx(u) = Act(k).ctx /\ Ctx(u) \in Contexts
           /\ KindOf(Ctx(u), u.eip) = Act(k).kind
           /\ ~FromUser(u) => u.area = KernelStack(Ctx(u)) /\ ~(k # 0 /\ Called(k))
           /\ FromUser(u) =>
                k # 0 /\ Called(k) /\ Ctx(u) \in Slots /\ u.area = User(Ctx(u))
  <1>1. CASE k = 0
    <2>1. MainState(u, w)
      BY <1>1 DEF Above
    <2> QED
      BY <1>1, <2>1, MainShape, MainKind DEF Act, KernelShape
  <1>2. CASE k # 0
    <2>1. PICK e \in Entries : e = taken[k] /\ Began(e) /\ After(e, u, w)
      <3>1. Len(taken) \in Nat /\ k \in 1 .. Len(taken)
        BY <1>2, LenProperties DEF Types
      <3>2. taken[k] \in Entries
        BY <3>1, ElementOfSeq DEF Types
      <3> QED
        BY <1>2, <3>1, <3>2 DEF Nested, Above
    <2>2. Act(k) = Begun(e) /\ (Called(k) <=> e.asked[1] = "call")
      BY <1>2, <2>1 DEF Act, Called
    <2>3. CASE e.asked[1] = "call" /\ UserState(e.asked[2], u, w)
      <3>1. PICK c \in Slots : c = e.asked[2]
        BY <2>1, <2>3, EntryTypes
      <3>2. Act(k).ctx = c /\ Act(k).kind = "user"
        BY <2>2, <2>3, <3>1 DEF Begun
      <3>3. /\ FromUser(u) /\ u.area = User(c) /\ Ctx(u) = c /\ u.eip[1] = "code"
            /\ KindOf(Ctx(u), u.eip) = "user"
        BY <2>3, <3>1, UserShape, UserKind
      <3> QED
        BY <1>2, <2>2, <2>3, <3>2, <3>3, ContextFacts
    <2>4. CASE e.asked[1] = "int" /\ SysState(e.was, u, w)
      <3>1. Act(k).ctx = Ctx(e.was.cpu) /\ Act(k).kind = "sys" /\ ~Called(k)
        BY <2>2, <2>4 DEF Begun
      <3>2. KernelShape(u) /\ Ctx(u) = Ctx(e.was.cpu) /\ KindOf(Ctx(u), u.eip) = "sys"
        BY <2>1, <2>4, SysShape, SysKind
      <3> QED
        BY <3>1, <3>2 DEF KernelShape
    <2>5. CASE e.asked[1] \in {"irq", "fault"} /\ HandlerState(e, u, w)
      <3>1. /\ Act(k).ctx = Ctx(e.was.cpu) /\ ~Called(k)
            /\ Act(k).kind = IF e.asked[1] = "irq" THEN "irq" ELSE "exc"
        BY <2>2, <2>5 DEF Begun
      <3>2. /\ KernelShape(u) /\ Ctx(u) = Ctx(e.was.cpu)
            /\ KindOf(Ctx(u), u.eip) = IF e.asked[1] = "irq" THEN "irq" ELSE "exc"
        BY <2>1, <2>5, HandlerShape, HandlerKind
      <3> QED
        BY <3>1, <3>2 DEF KernelShape
    <2> QED
      BY <2>1, <2>3, <2>4, <2>5 DEF After
  <1> QED
    BY <1>1, <1>2

---------------------------------------------------------------------------
(* The stacks and links of the chain of activations.                       *)

\* No register is an address, and the kernel stack of an application that runs
\* is empty.
Plain ==
    /\ Addressless(cpu)
    /\ \A i \in 1 .. Len(taken) : Addressless(Left(i).cpu)
    /\ FromUser(cpu) => stack[Kernel(Ctx(cpu))] = <<>>

\* A handler finds, below its own words, the address it was entered from.
LEMMA SysCodes ==
    ASSUME NEW e \in Entries, Began(e), NEW u, NEW w, SysState(e.was, u, w),
           Addressless(e.was.cpu), e.was.cpu.eip[1] = "code"
    PROVE  CodesIn(w) = Codes(e.was)
  <1>1. e.was \in States /\ e.was.cpu \in Cpus
    BY EntryTypes
  <1>2. CodesIn(Frame(e.was)) = Codes(e.was)
    BY <1>1, FrameCodes
  <1>3. w = Frame(e.was) \/ w = Frame(e.was) \o SyscallWords(e.was.cpu)
    BY DEF SysState
  <1>4. SyscallWords(e.was.cpu) \in Seq(Words) /\ Unaddressed(SyscallWords(e.was.cpu))
    <2>1. PICK u0 \in Cpus : u0 = e.was.cpu
      BY <1>1
    <2>2. PICK t \in Seq(Words) : t = SyscallWords(u0)
      BY SyscallWordsPushed
    <2>3. /\ Len(t) = 9
          /\ t[1] = Sel(u0.seg["ds"]) /\ t[2] = Sel(u0.seg["es"])
          /\ t[3] = Sel(u0.seg["fs"]) /\ t[4] = Sel(u0.seg["gs"])
          /\ t[5] = u0.gen["esi"] /\ t[6] = u0.gen["edx"]
          /\ t[7] = u0.gen["ecx"] /\ t[8] = u0.gen["ebx"]
          /\ t[9] = u0.gen["eax"]
      BY <2>2, SyscallWordsPushed
    <2>4. \A r \in General : u0.gen[r][1] # "code"
      BY <2>1 DEF Addressless
    <2>5. /\ t[1][1] # "code" /\ t[2][1] # "code" /\ t[3][1] # "code" /\ t[4][1] # "code"
          /\ t[5][1] # "code" /\ t[6][1] # "code" /\ t[7][1] # "code" /\ t[8][1] # "code"
          /\ t[9][1] # "code"
      BY <2>3, <2>4, WordTags DEF General
    <2>6. \A i \in 1 .. 9 : t[i][1] # "code"
      BY <2>5
    <2> QED
      BY <2>1, <2>2, <2>3, <2>6 DEF Unaddressed
  <1>5. Frame(e.was) \in Seq(Words)
    BY <1>1, FrameShape
  <1> QED
    BY <1>2, <1>3, <1>4, <1>5, UnaddressedAbove

LEMMA HandlerCodes ==
    ASSUME NEW e \in Entries, Began(e), NEW u, NEW w, e.asked[1] \in {"irq", "fault"},
           HandlerState(e, u, w), Addressless(e.was.cpu), e.was.cpu.eip[1] = "code"
    PROVE  CodesIn(w) = Codes(e.was)
  <1>1. PICK s \in States, n \in Installed \ {SYSCALL} : s = e.was /\ n = VectorOf(e.asked)
    BY EntryTypes
  <1>2. s.cpu \in Cpus
    BY <1>1, EntryTypes
  <1>3. Frame(s) \in Seq(Words) /\ CodesIn(Frame(s)) = Codes(s)
    BY <1>1, FrameShape, FrameCodes
  <1>4. /\ ErrorCode(n) \in Seq(Words) /\ Header(n) \in Seq(Words)
        /\ Unaddressed(ErrorCode(n)) /\ Unaddressed(Header(n))
    BY HeaderShape, HeaderUnaddressed
  <1>5. /\ Frame(s) \o ErrorCode(n) \in Seq(Words)
        /\ CodesIn(Frame(s) \o ErrorCode(n)) = Codes(s)
    BY <1>3, <1>4, OnTop, UnaddressedAbove
  <1>6. PICK q \in Seq(Words) : q = (Frame(s) \o ErrorCode(n)) \o Header(n) /\ CodesIn(q) = Codes(s)
    <2>1. PICK p \in Seq(Words) : p = Frame(s) \o ErrorCode(n) /\ CodesIn(p) = Codes(s)
      BY <1>5
    <2>2. p \o Header(n) \in Seq(Words) /\ CodesIn(p \o Header(n)) = Codes(s)
      BY <1>4, <2>1, OnTop, UnaddressedAbove
    <2> QED
      BY <2>1, <2>2
  <1>7. PushedOf(s.cpu, PushOrder) \in Seq(Words) /\ Unaddressed(PushedOf(s.cpu, PushOrder))
    BY <1>1, <1>2, Orders, PushedWords, PushedUnaddressed
  <1>8. CodesIn(WrapperWords(s, n)) = Codes(s)
    BY <1>6, <1>7, UnaddressedAbove DEF WrapperWords
  <1>9. w = Frame(s) \o ErrorCode(n) \/ w = WrapperWords(s, n)
    BY <1>1 DEF HandlerState
  <1> QED
    BY <1>1, <1>5, <1>8, <1>9

LEMMA NowFacts ==
    ASSUME Types, Nested, NEW k \in 0 .. Len(taken)
    PROVE  /\ Now(k) \in States /\ Now(k).cpu \in Cpus /\ Now(k).words \in Seq(Words)
           /\ Above(k, Now(k).cpu, Now(k).words)
           /\ k # 0 => Left(k) = Now(k - 1) /\ k - 1 \in 0 .. Len(taken) /\ k \in 1 .. Len(taken)
           /\ k = Len(taken) => Now(k).cpu = cpu /\ Now(k).words = Stk
           /\ Len(taken) \in Nat
  <1>1. Len(taken) \in Nat
    BY LenProperties DEF Types
  <1>2. CASE k < Len(taken)
    <2>1. k + 1 \in 1 .. Len(taken) /\ (k + 1) - 1 = k /\ k # Len(taken)
      BY <1>1, <1>2
    <2>2. Now(k) = Left(k + 1)
      BY <1>2 DEF Now
    <2>3. taken[k + 1] \in Entries /\ Above(k, Left(k + 1).cpu, Left(k + 1).words)
      <3>1. taken[k + 1] \in Entries
        BY <2>1, ElementOfSeq DEF Types
      <3>2. Above((k + 1) - 1, Left(k + 1).cpu, Left(k + 1).words)
        BY <2>1 DEF Nested
      <3> QED
        BY <2>1, <3>1, <3>2
    <2>4. Left(k + 1) \in States
      BY <2>3 DEF Entries, Left
    <2>5. Left(k + 1).cpu \in Cpus /\ Left(k + 1).words \in Seq(Words)
      BY <2>4 DEF States
    <2>6. k # 0 => Left(k) = Now(k - 1) /\ k - 1 \in 0 .. Len(taken) /\ k \in 1 .. Len(taken)
      BY <1>1, <1>2 DEF Now
    <2> QED
      BY <1>1, <2>1, <2>2, <2>3, <2>4, <2>5, <2>6
  <1>3. CASE k = Len(taken)
    <2>1. Now(k) = [cpu |-> cpu, words |-> Stk]
      BY <1>1, <1>3 DEF Now
    <2>2. cpu \in Cpus /\ Stk \in Seq(Words)
      BY DEF Types, Cpus, Stk
    <2>3. Now(k) \in States /\ Now(k).cpu = cpu /\ Now(k).words = Stk
      BY <2>1, <2>2 DEF States
    <2>4. k # 0 => Left(k) = Now(k - 1) /\ k - 1 \in 0 .. Len(taken) /\ k \in 1 .. Len(taken)
      BY <1>1, <1>3 DEF Now
    <2> QED
      BY <1>1, <1>3, <2>2, <2>3, <2>4 DEF Nested
  <1> QED
    BY <1>1, <1>2, <1>3

LEMMA EntryCodes ==
    ASSUME Types, Nested, Plain, NEW k \in 1 .. Len(taken), ~Called(k)
    PROVE  /\ ~FromUser(Now(k).cpu) /\ Ctx(Now(k).cpu) = Ctx(Now(k - 1).cpu)
           /\ Codes(Now(k)) = Append(Codes(Now(k - 1)), Now(k).cpu.eip)
  <1>1. PICK e \in Entries : e = taken[k] /\ Began(e)
    BY ElementOfSeq DEF Types, Nested
  <1>2. PICK s : s = Now(k)
    OBVIOUS
  <1>3. k \in 0 .. Len(taken) /\ k # 0
    BY LenProperties DEF Types
  <1>4. Above(k, s.cpu, s.words) /\ e.was = Now(k - 1) /\ k - 1 \in 0 .. Len(taken)
    BY <1>1, <1>2, <1>3, NowFacts DEF Left
  <1>5. After(e, s.cpu, s.words)
    BY <1>1, <1>3, <1>4 DEF Above
  <1>6. e.was.cpu.eip[1] = "code" /\ Addressless(e.was.cpu)
    <2>1. e.was.cpu.eip[1] = "code"
      BY <1>4, NowFacts, ActivationCode
    <2>2. Addressless(e.was.cpu)
      BY <1>1 DEF Plain, Left
    <2> QED
      BY <2>1, <2>2
  <1>7. ~FromUser(s.cpu)
    BY <1>3, <1>4, ActivationCode
  <1>8. e.asked[1] # "call"
    BY <1>1 DEF Called
  <1>9. CodesIn(s.words) = Codes(e.was) /\ Ctx(s.cpu) = Ctx(e.was.cpu)
    <2>1. CASE e.asked[1] = "int" /\ SysState(e.was, s.cpu, s.words)
      BY <1>1, <1>6, <2>1, SysCodes, SysShape
    <2>2. CASE e.asked[1] \in {"irq", "fault"} /\ HandlerState(e, s.cpu, s.words)
      BY <1>1, <1>6, <2>2, HandlerCodes, HandlerShape
    <2> QED
      BY <1>5, <1>8, <2>1, <2>2 DEF After
  <1>10. Codes(s) = Append(CodesIn(s.words), s.cpu.eip)
    BY <1>7 DEF Codes, Own
  <1> QED
    BY <1>2, <1>4, <1>7, <1>9, <1>10

---------------------------------------------------------------------------
(* Sequences of activations.                                               *)

\* The activations of context c with these addresses.
Kinds(c, codes) == [i \in 1 .. Len(codes) |-> [ctx |-> c, kind |-> KindOf(c, codes[i])]]

LEMMA KindsLonger ==
    ASSUME NEW S, NEW codes \in Seq(S), NEW code \in S, NEW c
    PROVE  Kinds(c, Append(codes, code)) =
           Append(Kinds(c, codes), [ctx |-> c, kind |-> KindOf(c, code)])
  <1>1. PICK n \in Nat : n = Len(codes)
    BY LenProperties
  <1>2. PICK more : more = Append(codes, code)
    OBVIOUS
  <1>3. Len(more) = n + 1 /\ more[n + 1] = code /\ \A i \in 1 .. n : more[i] = codes[i]
    BY <1>1, <1>2, AppendProperties
  <1> DEFINE a(w) == [ctx |-> c, kind |-> KindOf(c, w)]
  <1>4. Kinds(c, more) = [i \in 1 .. n + 1 |-> a(more[i])]
    BY <1>3 DEF Kinds
  <1>5. Kinds(c, codes) = [i \in 1 .. n |-> a(codes[i])]
    BY <1>1 DEF Kinds
  <1> HIDE DEF a
  <1>6. Append([i \in 1 .. n |-> a(codes[i])], a(code)) =
            [i \in 1 .. n + 1 |-> IF i = n + 1 THEN a(code) ELSE a(codes[i])]
    OBVIOUS
  <1>7. \A i \in 1 .. n + 1 : a(more[i]) = IF i = n + 1 THEN a(code) ELSE a(codes[i])
    BY <1>3
  <1>8. Kinds(c, more) = Append(Kinds(c, codes), a(code))
    BY <1>4, <1>5, <1>6, <1>7
  <1> QED
    BY <1>2, <1>8 DEF a

LEMMA KindsOfOne ==
    ASSUME NEW c, NEW code
    PROVE  Kinds(c, Append(<<>>, code)) = <<[ctx |-> c, kind |-> KindOf(c, code)]>>
BY DEF Kinds

LEMMA CodesTyped ==
    ASSUME NEW s \in Seq(Words)
    PROVE  CodesIn(s) \in Seq(Words)
  <1>1. PICK n \in Nat : n = Len(s)
    BY LenProperties
  <1>2. /\ \A m \in 1 .. n : Below(s, m) = IF s[m][1] = "code" THEN Append(Below(s, m - 1), s[m])
                                           ELSE Below(s, m - 1)
        /\ Below(s, 0) = <<>> /\ Below(s, n) = CodesIn(s)
    BY <1>1, CodesSteps
  <1>3. \A m \in 1 .. n : s[m] \in Words
    BY <1>1, ElementOfSeq
  <1> DEFINE S == {m \in Nat : m <= n => Below(s, m) \in Seq(Words)}
  <1>4. 0 \in S
    BY <1>2, EmptySeq
  <1>5. ASSUME NEW m \in Nat, m \in S PROVE m + 1 \in S
    <2> SUFFICES ASSUME m + 1 <= n PROVE Below(s, m + 1) \in Seq(Words)
      OBVIOUS
    <2>1. m + 1 \in 1 .. n /\ m <= n /\ (m + 1) - 1 = m
      BY <1>1
    <2>2. Below(s, m) \in Seq(Words) /\ s[m + 1] \in Words
      BY <1>3, <1>5, <2>1
    <2>3. Append(Below(s, m), s[m + 1]) \in Seq(Words)
      BY <2>2, AppendProperties
    <2>4. Below(s, m + 1) = IF s[m + 1][1] = "code" THEN Append(Below(s, m), s[m + 1])
                            ELSE Below(s, m)
      BY <1>2, <2>1
    <2> QED
      BY <2>2, <2>3, <2>4
  <1>6. Nat \subseteq S
    <2> HIDE DEF S
    <2> QED
      BY <1>4, <1>5, NatSetInduction
  <1> QED
    BY <1>1, <1>2, <1>6

LEMMA StateCodes ==
    ASSUME NEW s \in States
    PROVE  Codes(s) \in Seq(Words) /\ s.cpu.eip \in Words
  <1>1. s.cpu \in Cpus /\ s.words \in Seq(Words)
    BY DEF States
  <1>2. s.cpu.eip \in Words
    BY <1>1 DEF Cpus
  <1>3. Own(s) \in Seq(Words)
    BY <1>1, EmptySeq DEF Own
  <1> QED
    BY <1>2, <1>3, CodesTyped, AppendProperties DEF Codes

---------------------------------------------------------------------------
(* The walk along the links.                                               *)

LEMMA LinkedContext == \A c : Linked(c) \in Contexts
  <1> SUFFICES ASSUME NEW c PROVE Linked(c) \in Contexts
    OBVIOUS
  <1> DEFINE d == ContextAt(tss[c].link)
  <1>1. d \subseteq Contexts
    BY DEF ContextAt
  <1>2. Linked(c) = IF d = {} THEN KERNEL ELSE CHOOSE e \in d : TRUE
    BY DEF Linked
  <1> HIDE DEF d
  <1>3. d # {} => (CHOOSE e \in d : TRUE) \in d
    OBVIOUS
  <1> QED
    BY <1>1, <1>2, <1>3, ContextFacts

\* f[n] goes at most n links outwards.
Outwards(f, size) ==
    f = [n \in 0 .. size |->
            [c \in Contexts |->
                (IF c = KERNEL \/ n = 0 THEN <<>> ELSE f[n - 1][Linked(c)]) \o OfContext(c)]]

LEMMA OutwardsExists == \A size \in Nat : \E f : Outwards(f, size)
  <1> DEFINE next(g, n) == [c \in Contexts |->
                 (IF c = KERNEL \/ n = 0 THEN <<>> ELSE g[Linked(c)]) \o OfContext(c)]
             Upwards(f, m) == f = [n \in 0 .. m |-> next(f[n - 1], n)]
             S == {m \in Nat : \E f : Upwards(f, m)}
  <1>0. \A g, h : next(g, 0) = next(h, 0)
    OBVIOUS
  <1> HIDE DEF next
  <1>1. 0 \in S
    <2> DEFINE f == [n \in 0 .. 0 |-> next(KERNEL, n)]
    <2>1. \A n \in 0 .. 0 : f[n] = next(f[n - 1], n)
      BY <1>0
    <2>2. Upwards(f, 0)
      BY <2>1
    <2> HIDE DEF f, Upwards
    <2> QED
      BY <2>2
  <1>2. ASSUME NEW m \in Nat, m \in S PROVE m + 1 \in S
    <2>1. PICK f : Upwards(f, m)
      BY <1>2
    <2> DEFINE g == [n \in 0 .. m + 1 |-> IF n = m + 1 THEN next(f[m], m + 1) ELSE f[n]]
    <2>2. ASSUME NEW n \in 0 .. m + 1
          PROVE  g[n] = next(g[n - 1], n)
      <3>1. CASE n = m + 1
        <4>1. n - 1 = m /\ m \in 0 .. m + 1 /\ m # m + 1
          BY <3>1
        <4> QED
          BY <3>1, <4>1
      <3>2. CASE n # m + 1 /\ n = 0
        <4>1. f[0] = next(f[0 - 1], 0)
          BY <2>1
        <4>2. g[0] = f[0]
          BY <3>2
        <4> QED
          BY <1>0, <3>2, <4>1, <4>2
      <3>3. CASE n # m + 1 /\ n # 0
        <4>1. n \in 0 .. m /\ n - 1 \in 0 .. m + 1 /\ n - 1 # m + 1
          BY <3>3
        <4>2. g[n] = f[n] /\ g[n - 1] = f[n - 1]
          BY <3>3, <4>1
        <4>3. f[n] = next(f[n - 1], n)
          BY <2>1, <4>1
        <4> QED
          BY <4>2, <4>3
      <3> QED
        BY <3>1, <3>2, <3>3
    <2>3. Upwards(g, m + 1)
      BY <2>2
    <2>4. m + 1 \in Nat
      OBVIOUS
    <2> HIDE DEF g, Upwards
    <2> QED
      BY <2>3, <2>4
  <1>3. Nat \subseteq S
    <2> HIDE DEF S
    <2> QED
      BY <1>1, <1>2, NatSetInduction
  <1>4. ASSUME NEW size \in Nat PROVE \E f : Outwards(f, size)
    <2>1. PICK f : Upwards(f, size)
      BY <1>3
    <2> QED
      BY <2>1 DEF Outwards, next
  <1> QED
    BY <1>4

\* The activations outside context c, from at most n links.
Under(n, c) == IF c = KERNEL \/ n = 0 THEN <<>> ELSE Upto[n - 1][Linked(c)]

LEMMA UptoSteps ==
    \A n \in 0 .. MAX_TASK_COUNT : \A c \in Contexts : Upto[n][c] = Under(n, c) \o OfContext(c)
  <1>1. \E f : Outwards(f, MAX_TASK_COUNT)
    BY OutwardsExists, ContextFacts
  <1>2. Outwards(Upto, MAX_TASK_COUNT)
    BY <1>1 DEF Upto, Outwards
  <1>3. ASSUME NEW n \in 0 .. MAX_TASK_COUNT, NEW c \in Contexts
        PROVE  Upto[n][c] = Under(n, c) \o OfContext(c)
    <2> DEFINE g == [d \in Contexts |->
                (IF d = KERNEL \/ n = 0 THEN <<>> ELSE Upto[n - 1][Linked(d)]) \o OfContext(d)]
    <2>1. Upto[n] = g
      BY <1>2 DEF Outwards
    <2>2. g[c] = Under(n, c) \o OfContext(c)
      BY DEF Under
    <2> QED
      BY <2>1, <2>2
  <1> QED
    BY <1>3

---------------------------------------------------------------------------
(* The activations read off the stacks are those of the history.           *)

LEMMA OfContextKinds ==
    ASSUME NEW c \in Contexts
    PROVE  OfContext(c) =
           Kinds(c, Append(CodesIn(stack[KernelStack(c)]),
                           IF c = Current THEN cpu.eip ELSE tss[c].cpu.eip))
BY DEF OfContext, Kinds, KernelStack

\* The context that runs ...
LEMMA RunningContext ==
    ASSUME Types, Chained, Plain, NEW k, k = Len(taken)
    PROVE  /\ Current = Ctx(Now(k).cpu) /\ Ctx(Now(k).cpu) \in Contexts
           /\ OfContext(Current) = Kinds(Ctx(Now(k).cpu), Codes(Now(k)))
  <1>1. k \in 0 .. Len(taken)
    BY LenProperties DEF Types
  <1>2. PICK s \in States : s = Now(k) /\ s.cpu = cpu /\ s.words = Stk
    BY <1>1, NowFacts DEF Chained
  <1>3. Current = Ctx(cpu) /\ Ctx(cpu) \in Contexts
    BY Here DEF Chained
  <1>4. Above(k, cpu, Stk)
    BY <1>1, <1>2, NowFacts DEF Chained
  <1>5. stack[KernelStack(Ctx(cpu))] = Own(s)
    <2>1. CASE FromUser(cpu)
      <3>1. Ctx(cpu) \in Slots
        BY <1>1, <1>4, <2>1, ActivationCode DEF Chained
      <3>2. stack[KernelStack(Ctx(cpu))] = <<>>
        BY <2>1, <3>1, AreaFacts DEF Plain
      <3> QED
        BY <1>2, <2>1, <3>2 DEF Own
    <2>2. CASE ~FromUser(cpu)
      <3>1. cpu.area = KernelStack(Ctx(cpu))
        BY <1>1, <1>4, <2>2, ActivationCode DEF Chained
      <3> QED
        BY <1>2, <2>2, <3>1 DEF Own, Stk
    <2> QED
      BY <2>1, <2>2
  <1> QED
    BY <1>2, <1>3, <1>5, OfContextKinds DEF Codes

\* ... and one that called.
LEMMA CallingContext ==
    ASSUME Types, Chained, NEW k \in 1 .. Len(taken), Called(k)
    PROVE  /\ Ctx(Left(k).cpu) \in Contexts /\ Callee(k) \in Slots
           /\ Linked(Callee(k)) = Ctx(Left(k).cpu)
           /\ OfContext(Ctx(Left(k).cpu)) = Kinds(Ctx(Left(k).cpu), Codes(Left(k)))
  <1>1. PICK e \in Entries : e = taken[k] /\ Began(e) /\ e.asked[1] = "call"
    BY ElementOfSeq DEF Types, Chained, Nested, Called
  <1>2. PICK s \in States, c \in Contexts : s = Left(k) /\ c = Ctx(s.cpu)
    BY <1>1, EntryTypes DEF Left
  <1>3. /\ Callee(k) \in Slots /\ Callee(k) \in Contexts /\ c \in Live
    BY <1>2, Chain, ContextFacts DEF Chained
  <1>4. k - 1 \in 0 .. Len(taken) /\ Above(k - 1, s.cpu, s.words)
    BY <1>2, LenProperties DEF Types, Chained, Nested
  <1>5. s.cpu.eip = Code(KERNEL, "task_free")
    BY <1>1, <1>2 DEF Began, Left
  <1>6. ~FromUser(s.cpu) /\ s.cpu.area = KernelStack(c)
    BY <1>2, <1>4, <1>5, ExecutingCode DEF Chained, KernelShape
  <1>7. /\ tss[c].cpu = s.cpu /\ stack[KernelStack(c)] = s.words
        /\ tss[Callee(k)].link = Selector(c)
    BY <1>2, <1>6 DEF Chained, Intact, Suspended
  <1>8. c # Current
    BY <1>2, Here DEF Chained, Separate
  <1>9. OfContext(c) = Kinds(c, Codes(s))
    BY <1>6, <1>7, <1>8, OfContextKinds DEF Codes, Own
  <1>10. Linked(Callee(k)) = c
    <2>1. gdt[TssIndex(c)] = TssEntry(c, TYPE_TSS_BUSY)
      BY <1>3 DEF Chained, Tables
    <2>2. ContextAt(tss[Callee(k)].link) = {c}
      BY <1>7, <2>1, TssFound
    <2> QED
      BY <2>2 DEF Linked
  <1> QED
    BY <1>2, <1>3, <1>9, <1>10

\* The number of calls among the first k entries.
CallsTo(k) == Cardinality({j \in 1 .. k : Called(j)})

LEMMA CallsCounted ==
    ASSUME Types, Chained
    PROVE  /\ CallsTo(0) = 0 /\ CallsTo(Len(taken)) <= MAX_TASK_COUNT
           /\ \A k \in 0 .. Len(taken) : CallsTo(k) \in Nat
           /\ \A k \in 1 .. Len(taken) :
                  CallsTo(k) = IF Called(k) THEN CallsTo(k - 1) + 1 ELSE CallsTo(k - 1)
  <1> DEFINE calls(k) == {j \in 1 .. k : Called(j)}
  <1>1. PICK size \in Nat : size = Len(taken)
    BY LenProperties DEF Types
  <1>2. \A k \in 0 .. size : IsFiniteSet(calls(k)) /\ Cardinality(calls(k)) \in Nat
    <2> SUFFICES ASSUME NEW k \in 0 .. size
                 PROVE  IsFiniteSet(calls(k)) /\ Cardinality(calls(k)) \in Nat
      OBVIOUS
    <2>1. IsFiniteSet(1 .. k)
      BY FS_Interval
    <2>2. calls(k) \in SUBSET (1 .. k)
      OBVIOUS
    <2> HIDE DEF calls
    <2> QED
      BY <2>1, <2>2, FS_Subset, FS_CardinalityType
  <1>3. calls(0) = {}
    OBVIOUS
  <1>4. ASSUME NEW k \in 1 .. size
        PROVE  Cardinality(calls(k)) = IF Called(k) THEN Cardinality(calls(k - 1)) + 1
                                       ELSE Cardinality(calls(k - 1))
    <2>1. k - 1 \in 0 .. size /\ k \notin calls(k - 1)
      OBVIOUS
    <2>2. CASE Called(k)
      <3>1. calls(k) = calls(k - 1) \union {k}
        BY <2>2
      <3>2. IsFiniteSet(calls(k - 1))
        BY <1>2, <2>1
      <3> HIDE DEF calls
      <3>3. Cardinality(calls(k - 1) \union {k}) = Cardinality(calls(k - 1)) + 1
        BY <2>1, <3>2, FS_AddElement
      <3> QED
        BY <2>2, <3>1, <3>3
    <2>3. CASE ~Called(k)
      <3>1. calls(k) = calls(k - 1)
        BY <2>3
      <3> HIDE DEF calls
      <3> QED
        BY <2>3, <3>1
    <2> QED
      BY <2>2, <2>3
  <1>5. Cardinality(calls(size)) <= MAX_TASK_COUNT
    <2> DEFINE f == [j \in calls(size) |-> Callee(j)]
    <2>1. \A j \in calls(size) : Callee(j) \in Slots
      BY <1>1, CallingContext
    <2>2. ASSUME NEW i \in calls(size), NEW j \in calls(size), Callee(i) = Callee(j)
          PROVE  i = j
      <3>1. i \in 1 .. Len(taken) /\ j \in 1 .. Len(taken) /\ Called(i) /\ Called(j)
        BY <1>1
      <3>2. i < j => Callee(j) # Callee(i)
        BY <3>1 DEF Chained, Separate
      <3>3. j < i => Callee(i) # Callee(j)
        BY <3>1 DEF Chained, Separate
      <3> QED
        BY <1>1, <2>2, <3>1, <3>2, <3>3
    <2>3. f \in Injection(calls(size), Slots)
      <3> HIDE DEF calls
      <3> QED
        BY <2>1, <2>2 DEF Injection, IsInjective
    <2>4. IsFiniteSet(Slots) /\ Cardinality(Slots) = MAX_TASK_COUNT
      BY FS_Interval, ContextFacts DEF Slots
    <2>5. size \in 0 .. size
      OBVIOUS
    <2> HIDE DEF f, calls
    <2> QED
      BY <1>2, <2>3, <2>4, <2>5, FS_Injection
  <1>6. \A k : CallsTo(k) = Cardinality(calls(k))
    BY DEF CallsTo
  <1> HIDE DEF calls
  <1> QED
    BY <1>1, <1>2, <1>3, <1>4, <1>5, <1>6, FS_EmptySet

\* The activations of the first k entries, and all of them.
HistTo(k) == [i \in 1 .. k + 1 |-> Act(i - 1)]
Hist == HistTo(Len(taken))

LEMMA HistLonger ==
    ASSUME NEW k \in Nat, k # 0
    PROVE  HistTo(k) = Append(HistTo(k - 1), Act(k))
  <1> DEFINE f(i) == Act(i - 1)
  <1>1. f(k + 1) = Act(k)
    OBVIOUS
  <1>2. HistTo(k) = [i \in 1 .. k + 1 |-> f(i)] /\ HistTo(k - 1) = [i \in 1 .. k |-> f(i)]
    BY DEF HistTo
  <1> HIDE DEF f
  <1>3. Append([i \in 1 .. k |-> f(i)], f(k + 1)) = [i \in 1 .. k + 1 |-> f(i)]
    OBVIOUS
  <1> QED
    BY <1>1, <1>2, <1>3

\* Appending to the second of two sequences.
LEMMA AppendLast ==
    ASSUME NEW S, NEW s \in Seq(S), NEW t \in Seq(S), NEW e \in S
    PROVE  s \o Append(t, e) = Append(s \o t, e)
  <1>1. PICK a \in Nat, b \in Nat : a = Len(s) /\ b = Len(t)
    BY LenProperties
  <1> DEFINE more == Append(t, e)
             lhs  == s \o more
             both == s \o t
             rhs  == Append(both, e)
  <1>2. /\ more \in Seq(S) /\ Len(more) = b + 1 /\ more[b + 1] = e
        /\ \A i \in 1 .. b : more[i] = t[i]
    BY <1>1, AppendProperties
  <1>3. /\ both \in Seq(S) /\ Len(both) = a + b
        /\ \A i \in 1 .. a + b : both[i] = IF i <= a THEN s[i] ELSE t[i - a]
    BY <1>1, ConcatProperties
  <1>4. /\ lhs \in Seq(S) /\ Len(lhs) = a + (b + 1)
        /\ \A i \in 1 .. a + (b + 1) : lhs[i] = IF i <= a THEN s[i] ELSE more[i - a]
    <2>1. PICK m \in Seq(S) : m = more
      BY <1>2
    <2>2. Len(m) = b + 1
      BY <1>2, <2>1
    <2> HIDE DEF more
    <2>3. /\ s \o m \in Seq(S) /\ Len(s \o m) = Len(s) + Len(m)
          /\ \A i \in 1 .. Len(s) + Len(m) : (s \o m)[i] = IF i <= Len(s) THEN s[i] ELSE m[i - Len(s)]
      BY ConcatProperties
    <2> QED
      BY <1>1, <2>1, <2>2, <2>3
  <1>5. /\ rhs \in Seq(S) /\ Len(rhs) = (a + b) + 1 /\ rhs[(a + b) + 1] = e
        /\ \A i \in 1 .. a + b : rhs[i] = both[i]
    <2>1. PICK m \in Seq(S) : m = both
      BY <1>3
    <2>2. Len(m) = a + b
      BY <1>3, <2>1
    <2> HIDE DEF both
    <2>3. /\ Append(m, e) \in Seq(S) /\ Len(Append(m, e)) = Len(m) + 1
          /\ Append(m, e)[Len(m) + 1] = e /\ \A i \in 1 .. Len(m) : Append(m, e)[i] = m[i]
      BY AppendProperties
    <2> QED
      BY <2>1, <2>2, <2>3
  <1> HIDE DEF lhs, rhs, both, more
  <1>6. ASSUME NEW i \in 1 .. a + (b + 1) PROVE lhs[i] = rhs[i]
    <2>1. CASE i = a + (b + 1)
      <3>1. ~(i <= a) /\ i - a = b + 1 /\ i = (a + b) + 1
        BY <2>1
      <3> QED
        BY <1>2, <1>4, <1>5, <3>1
    <2>2. CASE i # a + (b + 1) /\ i <= a
      <3>1. i \in 1 .. a + b
        BY <2>2
      <3>2. lhs[i] = s[i] /\ both[i] = s[i]
        BY <1>3, <1>4, <2>2, <3>1
      <3> QED
        BY <1>5, <3>1, <3>2
    <2>3. CASE i # a + (b + 1) /\ ~(i <= a)
      <3>1. i \in 1 .. a + b /\ i - a \in 1 .. b
        BY <2>3
      <3> QED
        BY <1>2, <1>3, <1>4, <1>5, <2>3, <3>1
    <2> QED
      BY <2>1, <2>2, <2>3
  <1>7. Len(lhs) = Len(rhs) /\ \A i \in 1 .. Len(lhs) : lhs[i] = rhs[i]
    BY <1>4, <1>5, <1>6
  <1>8. lhs = rhs
    BY <1>4, <1>5, <1>7, SeqEqual
  <1> QED
    BY <1>8 DEF lhs, rhs, both, more

KindNames == {"main", "user", "sys", "irq", "exc"}
Activity == [ctx : Contexts, kind : KindNames]

LEMMA KindsTyped ==
    ASSUME NEW S, NEW codes \in Seq(S), NEW c \in Contexts
    PROVE  Kinds(c, codes) \in Seq(Activity)
  <1>1. PICK n \in Nat : n = Len(codes)
    BY LenProperties
  <1>2. \A code : KindOf(c, code) \in KindNames
    BY DEF KindOf, KindNames
  <1> DEFINE a(i) == [ctx |-> c, kind |-> KindOf(c, codes[i])]
  <1>3. \A i \in 1 .. n : a(i) \in Activity
    BY <1>2 DEF Activity
  <1>4. Kinds(c, codes) = [i \in 1 .. n |-> a(i)]
    BY <1>1 DEF Kinds
  <1> HIDE DEF a
  <1>5. [i \in 1 .. n |-> a(i)] \in Seq(Activity)
    BY <1>3
  <1> QED
    BY <1>4, <1>5

\* What the stacks and links hold up to the activation above the first k entries.
Read(k, n) ==
    /\ Under(n, Ctx(Now(k).cpu)) \in Seq(Activity)
    /\ Under(n, Ctx(Now(k).cpu)) \o Kinds(Ctx(Now(k).cpu), Codes(Now(k))) = HistTo(k)

\* The activation itself.
LEMMA ThisActivation ==
    ASSUME Types, Chained, NEW k \in 0 .. Len(taken)
    PROVE  /\ Ctx(Now(k).cpu) \in Contexts
           /\ Act(k) = [ctx |-> Ctx(Now(k).cpu), kind |-> KindOf(Ctx(Now(k).cpu), Now(k).cpu.eip)]
           /\ Act(k) \in Activity
  <1>1. Above(k, Now(k).cpu, Now(k).words)
    BY NowFacts DEF Chained
  <1>2. /\ Ctx(Now(k).cpu) = Act(k).ctx /\ Ctx(Now(k).cpu) \in Contexts
        /\ KindOf(Ctx(Now(k).cpu), Now(k).cpu.eip) = Act(k).kind
    BY <1>1, ActivationCode DEF Chained
  <1>3. Act(k) = [ctx |-> Act(k).ctx, kind |-> Act(k).kind]
    BY DEF Act, Begun
  <1>4. Act(k).kind \in KindNames
    BY <1>2 DEF KindOf, KindNames
  <1> QED
    BY <1>2, <1>3, <1>4 DEF Activity

LEMMA ReadFirst ==
    ASSUME Types, Chained, NEW n \in 0 .. MAX_TASK_COUNT
    PROVE  Read(0, n)
  <1>1. 0 \in 0 .. Len(taken)
    BY LenProperties DEF Types
  <1>2. PICK s \in States : s = Now(0)
    BY <1>1, NowFacts DEF Chained
  <1>3. MainState(s.cpu, s.words)
    BY <1>1, <1>2, NowFacts DEF Chained, Above
  <1>4. Ctx(s.cpu) = KERNEL /\ s.words = <<>> /\ ~FromUser(s.cpu)
    BY <1>3, MainShape DEF MainState, KernelShape
  <1>5. Codes(s) = Append(<<>>, s.cpu.eip)
    BY <1>4, NoCodes DEF Codes, Own
  <1>6. Kinds(Ctx(s.cpu), Codes(s)) = <<Act(0)>>
    BY <1>1, <1>2, <1>5, KindsOfOne, ThisActivation
  <1>7. HistTo(0) = <<Act(0)>>
    BY DEF HistTo
  <1>8. Under(n, Ctx(s.cpu)) = <<>>
    BY <1>4 DEF Under
  <1>9. <<Act(0)>> \in Seq(Activity)
    BY <1>1, ThisActivation
  <1>10. <<>> \o <<Act(0)>> = <<Act(0)>> /\ <<>> \in Seq(Activity)
    BY <1>9, ConcatEmptySeq, EmptySeq
  <1> QED
    BY <1>2, <1>6, <1>7, <1>8, <1>10 DEF Read

LEMMA ReadEntry ==
    ASSUME Types, Chained, Plain, NEW k \in 1 .. Len(taken), ~Called(k),
           NEW n \in 0 .. MAX_TASK_COUNT, Read(k - 1, n)
    PROVE  Read(k, n)
  <1>1. k \in 0 .. Len(taken) /\ k - 1 \in 0 .. Len(taken) /\ k \in Nat /\ k # 0
    BY LenProperties DEF Types
  <1>2. PICK s \in States, t \in States : s = Now(k) /\ t = Now(k - 1)
    BY <1>1, NowFacts DEF Chained
  <1>3. PICK c \in Contexts : c = Ctx(s.cpu) /\ c = Ctx(t.cpu)
    BY <1>1, <1>2, EntryCodes, ThisActivation DEF Chained
  <1>4. Codes(s) = Append(Codes(t), s.cpu.eip)
    BY <1>2, EntryCodes DEF Chained
  <1>5. Codes(t) \in Seq(Words) /\ s.cpu.eip \in Words
    BY StateCodes
  <1>6. Act(k) = [ctx |-> c, kind |-> KindOf(c, s.cpu.eip)] /\ Act(k) \in Activity
    BY <1>1, <1>2, <1>3, ThisActivation
  <1>7. Kinds(c, Codes(s)) = Append(Kinds(c, Codes(t)), Act(k))
    BY <1>4, <1>5, <1>6, KindsLonger
  <1>8. Kinds(c, Codes(t)) \in Seq(Activity)
    BY <1>5, KindsTyped
  <1>9. Under(n, c) \in Seq(Activity) /\ Under(n, c) \o Kinds(c, Codes(t)) = HistTo(k - 1)
    BY <1>2, <1>3 DEF Read
  <1>10. Under(n, c) \o Append(Kinds(c, Codes(t)), Act(k)) = Append(HistTo(k - 1), Act(k))
    BY <1>6, <1>8, <1>9, AppendLast, SMTT(60)
  <1>11. HistTo(k) = Append(HistTo(k - 1), Act(k))
    BY <1>1, HistLonger
  <1> QED
    BY <1>2, <1>3, <1>7, <1>9, <1>10, <1>11 DEF Read

LEMMA ReadCall ==
    ASSUME Types, Chained, NEW k \in 1 .. Len(taken), Called(k),
           NEW n \in 1 .. MAX_TASK_COUNT, Read(k - 1, n - 1)
    PROVE  Read(k, n)
  <1>1. /\ k \in 0 .. Len(taken) /\ k - 1 \in 0 .. Len(taken) /\ k \in Nat /\ k # 0
        /\ n # 0 /\ n - 1 \in 0 .. MAX_TASK_COUNT
    BY LenProperties, ContextFacts DEF Types
  <1>2. PICK s \in States, t \in States : s = Now(k) /\ t = Now(k - 1) /\ t = Left(k)
    BY <1>1, NowFacts DEF Chained
  <1>3. PICK c \in Slots, d \in Contexts :
            /\ c = Callee(k) /\ d = Ctx(t.cpu)
            /\ Linked(c) = d /\ OfContext(d) = Kinds(d, Codes(t))
    BY <1>2, CallingContext
  <1>4. Ctx(s.cpu) = c /\ FromUser(s.cpu) /\ c # KERNEL
    <2>1. Above(k, s.cpu, s.words)
      BY <1>1, <1>2, NowFacts DEF Chained
    <2>2. Ctx(s.cpu) = Act(k).ctx
      BY <1>1, <2>1, ActivationCode DEF Chained
    <2>3. Act(k).ctx = c
      BY <1>1, <1>3 DEF Act, Begun, Called, Callee
    <2>4. FromUser(s.cpu)
      BY <1>1, <2>1, ActivationCode DEF Chained
    <2> QED
      BY <2>2, <2>3, <2>4, ContextFacts
  <1>5. Under(n, c) = Upto[n - 1][d]
    BY <1>1, <1>3, <1>4 DEF Under
  <1>6. Upto[n - 1][d] = Under(n - 1, d) \o OfContext(d)
    BY <1>1, UptoSteps
  <1>7. Under(n - 1, d) \in Seq(Activity) /\ Under(n - 1, d) \o Kinds(d, Codes(t)) = HistTo(k - 1)
    BY <1>2, <1>3 DEF Read
  <1>8. Kinds(d, Codes(t)) \in Seq(Activity)
    BY StateCodes, KindsTyped
  <1>9. HistTo(k - 1) \in Seq(Activity)
    BY <1>7, <1>8, ConcatProperties
  <1>10. Under(n, c) = HistTo(k - 1)
    BY <1>3, <1>5, <1>6, <1>7
  <1>11. Codes(s) = Append(<<>>, s.cpu.eip)
    BY <1>4, NoCodes DEF Codes, Own
  <1>12. Kinds(c, Codes(s)) = <<Act(k)>> /\ Act(k) \in Activity
    BY <1>1, <1>2, <1>4, <1>11, KindsOfOne, ThisActivation
  <1>13. HistTo(k) = Append(HistTo(k - 1), Act(k))
    BY <1>1, HistLonger
  <1>14. HistTo(k - 1) \o <<Act(k)>> = Append(HistTo(k - 1), Act(k))
    <2>1. PICK q \in Seq(Activity) : q = HistTo(k - 1)
      BY <1>9
    <2>2. PICK e \in Activity : e = Act(k)
      BY <1>12
    <2>3. <<>> \in Seq(Activity) /\ q \o <<>> = q /\ Append(<<>>, e) = <<e>>
      BY EmptySeq, ConcatEmptySeq
    <2>4. q \o Append(<<>>, e) = Append(q \o <<>>, e)
      BY <2>3, AppendLast
    <2> QED
      BY <2>1, <2>2, <2>3, <2>4
  <1> QED
    BY <1>2, <1>4, <1>9, <1>10, <1>12, <1>13, <1>14 DEF Read

LEMMA ActivationsChained ==
    ASSUME Types, Chained, Plain
    PROVE  Activations = Hist
  <1>1. PICK size \in Nat : size = Len(taken)
    BY LenProperties DEF Types
  <1>2. /\ CallsTo(0) = 0 /\ CallsTo(size) <= MAX_TASK_COUNT
        /\ \A k \in 0 .. size : CallsTo(k) \in Nat
        /\ \A k \in 1 .. size :
               CallsTo(k) = IF Called(k) THEN CallsTo(k - 1) + 1 ELSE CallsTo(k - 1)
    BY <1>1, CallsCounted
  <1> DEFINE S == {k \in Nat : k <= size =>
                      \A n \in 0 .. MAX_TASK_COUNT : CallsTo(k) <= n => Read(k, n)}
  <1>3. 0 \in S
    BY ReadFirst
  <1>4. ASSUME NEW k \in Nat, k \in S PROVE k + 1 \in S
    <2> SUFFICES ASSUME k + 1 <= size, NEW n \in 0 .. MAX_TASK_COUNT, CallsTo(k + 1) <= n
                 PROVE  Read(k + 1, n)
      OBVIOUS
    <2>1. k + 1 \in 1 .. size /\ k \in 0 .. size /\ k <= size /\ (k + 1) - 1 = k
      BY <1>1
    <2>2. CallsTo(k) \in Nat /\ MAX_TASK_COUNT \in Nat
      BY <1>2, <2>1, ContextFacts
    <2>3. CASE Called(k + 1)
      <3>1. CallsTo(k + 1) = CallsTo(k) + 1
        BY <1>2, <2>1, <2>3
      <3>2. n \in 1 .. MAX_TASK_COUNT /\ n - 1 \in 0 .. MAX_TASK_COUNT /\ CallsTo(k) <= n - 1
        BY <2>2, <3>1
      <3>3. Read(k, n - 1)
        BY <1>4, <2>1, <3>2
      <3> QED
        BY <1>1, <2>1, <2>3, <3>2, <3>3, ReadCall
    <2>4. CASE ~Called(k + 1)
      <3>1. CallsTo(k + 1) = CallsTo(k)
        BY <1>2, <2>1, <2>4
      <3>2. Read(k, n)
        BY <1>4, <2>1, <3>1
      <3> QED
        BY <1>1, <2>1, <2>4, <3>2, ReadEntry
    <2> QED
      BY <2>3, <2>4
  <1>5. Nat \subseteq S
    <2> HIDE DEF S
    <2> QED
      BY <1>3, <1>4, NatSetInduction
  <1>6. Read(size, MAX_TASK_COUNT)
    <2>1. MAX_TASK_COUNT \in 0 .. MAX_TASK_COUNT /\ size \in S
      BY <1>5, ContextFacts
    <2> QED
      BY <1>2, <2>1
  <1>7. PICK c \in Contexts :
            /\ c = Current /\ c = Ctx(Now(size).cpu)
            /\ OfContext(c) = Kinds(c, Codes(Now(size)))
    BY <1>1, RunningContext
  <1>8. Under(MAX_TASK_COUNT, c) \o OfContext(c) = HistTo(size)
    BY <1>6, <1>7 DEF Read
  <1>9. Upto[MAX_TASK_COUNT][c] = Under(MAX_TASK_COUNT, c) \o OfContext(c)
    BY UptoSteps, ContextFacts
  <1> QED
    BY <1>1, <1>7, <1>8, <1>9 DEF Activations, Hist

\* Before there is a task register, kernel_main is alone.
LEMMA ActivationsStarting ==
    ASSUME Types, Starting, gdt[0] = gdt_make_null_segment
    PROVE  Activations = Hist
  <1>1. ContextAt(tr) = {}
    <2>1. tr = 0 /\ Index(0) = 0
      BY DEF Starting, Index
    <2>2. Base(gdt[0]) = 0
      BY DEF Base, gdt_make_null_segment
    <2>3. ContextAt(0) \subseteq {c \in Contexts : TssAddress[c] = 0}
      BY <2>1, <2>2 DEF ContextAt
    <2> QED
      BY <2>1, <2>3, AddressAssumption
  <1>2. Current = KERNEL
    BY <1>1 DEF Current
  <1>3. stack[KernelStack(KERNEL)] = <<>>
    BY AreaFacts DEF Starting, KernelStack
  <1>4. OfContext(KERNEL) = <<[ctx |-> KERNEL, kind |-> KindOf(KERNEL, cpu.eip)]>>
    BY <1>2, <1>3, OfContextKinds, KindsOfOne, NoCodes, ContextFacts
  <1>5. KindOf(KERNEL, cpu.eip) = "main"
    <2>1. PICK l \in {"gdt_init", "idt_init", "tasks_init"} : cpu.eip = Code(KERNEL, l)
      BY DEF Starting
    <2>2. cpu.eip[2] = KERNEL /\ cpu.eip[3] = l /\ cpu.eip # Entry(SYSCALL)
      BY <2>1, CodeFacts
    <2> QED
      BY <2>2 DEF KindOf
  <1>6. OfContext(KERNEL) = <<Act(0)>>
    BY <1>4, <1>5 DEF Act
  <1>7. Upto[MAX_TASK_COUNT][KERNEL] = <<>> \o <<Act(0)>>
    <2>1. Upto[MAX_TASK_COUNT][KERNEL] = Under(MAX_TASK_COUNT, KERNEL) \o OfContext(KERNEL)
      BY UptoSteps, ContextFacts
    <2>2. Under(MAX_TASK_COUNT, KERNEL) = <<>>
      BY DEF Under
    <2> QED
      BY <1>6, <2>1, <2>2
  <1>8. <<>> \o <<Act(0)>> = <<Act(0)>>
    <2>1. <<Act(0)>> \in Seq({Act(0)})
      OBVIOUS
    <2> QED
      BY <2>1, ConcatEmptySeq
  <1>9. HistTo(0) = <<Act(0)>>
    BY DEF HistTo
  <1>10. Len(taken) = 0
    BY EmptySeq DEF Starting
  <1> QED
    BY <1>2, <1>7, <1>8, <1>9, <1>10 DEF Activations, Hist

---------------------------------------------------------------------------
(* The steps of Control.                                                   *)

\* A handler runs with interrupts disabled.
LEMMA Interruptible ==
    ASSUME Types, Nested, NEW k \in 0 .. Len(taken), NEW u, NEW w, Above(k, u, w), u.iflag
    PROVE  Act(k).kind \in {"main", "user", "sys"}
  <1>1. CASE k = 0
    BY <1>1 DEF Act
  <1>2. CASE k # 0
    <2>1. k \in 1 .. Len(taken)
      BY <1>2, LenProperties DEF Types
    <2>2. PICK e \in Entries : e = taken[k] /\ Began(e)
      BY <2>1, ElementOfSeq DEF Types, Nested
    <2>3. After(e, u, w)
      BY <1>2, <2>2 DEF Above
    <2>4. e.asked[1] = "call" \/ e.asked[1] = "int"
      BY <2>3 DEF After, HandlerState
    <2>5. Act(k).kind = IF e.asked[1] = "call" THEN "user"
                        ELSE IF e.asked[1] = "int" THEN "sys"
                        ELSE IF e.asked[1] = "irq" THEN "irq" ELSE "exc"
      BY <1>2, <2>2 DEF Act, Begun
    <2> QED
      BY <2>4, <2>5
  <1> QED
    BY <1>1, <1>2

\* The last of the activations, and the others.
LEMMA HistEnds ==
    ASSUME Types, NEW n, n = Len(taken)
    PROVE  /\ n \in Nat /\ Len(Hist) = n + 1 /\ Hist[n + 1] = Act(n)
           /\ \A i \in 1 .. n + 1 : Hist[i] = Act(i - 1)
           /\ Hist = HistTo(n)
  <1>1. n \in Nat
    BY LenProperties DEF Types
  <1>2. Hist = [i \in 1 .. n + 1 |-> Act(i - 1)]
    BY DEF Hist, HistTo
  <1> DEFINE f(i) == Act(i - 1)
  <1>3. \A i \in 1 .. n + 1 : Hist[i] = f(i)
    BY <1>2
  <1>4. Hist = [i \in 1 .. n + 1 |-> f(i)]
    BY <1>2
  <1> HIDE DEF f
  <1>5. Len(Hist) = n + 1
    BY <1>1, <1>4
  <1>6. Hist[n + 1] = f(n + 1) /\ (n + 1) - 1 = n
    BY <1>1, <1>3
  <1>7. \A i \in 1 .. n + 1 : Hist[i] = Act(i - 1)
    BY <1>3 DEF f
  <1> QED
    BY <1>1, <1>5, <1>6, <1>7 DEF f, Hist

\* An entry or a call.
LEMMA HistAppend ==
    ASSUME Types, Types', Chained, Chained', NEW e, taken' = Append(taken, e),
           NEW n, n = Len(taken)
    PROVE  /\ n \in Nat /\ e \in Entries /\ Began(e)
           /\ Above(n, e.was.cpu, e.was.words)
           /\ Hist' = Append(Hist, Begun(e))
           /\ e.asked[1] = "call" => \A i \in 1 .. n + 1 : Hist[i].ctx # e.asked[2]
  <1>1. n \in Nat
    BY LenProperties DEF Types
  <1>2. Len(taken') = n + 1 /\ taken'[n + 1] = e /\ \A i \in 1 .. n : taken'[i] = taken[i]
    BY <1>1 DEF Types
  <1>3. n + 1 \in 1 .. n + 1 /\ (n + 1) - 1 = n
    BY <1>1
  <1>4. e \in Entries
    <2>1. taken' \in Seq(Entries)
      BY DEF Types
    <2> QED
      BY <1>2, <1>3, <2>1, ElementOfSeq
  <1>5. \A i \in 1 .. n : i # n + 1 /\ taken'[i] = taken[i]
    BY <1>1, <1>2
  <1>7. /\ \A i \in 1 .. n + 1 : Began(taken'[i])
        /\ \A i \in 1 .. n + 1 : Above(i - 1, Left(i).cpu, Left(i).words)'
    BY <1>2 DEF Chained, Nested
  <1>8. \A i \in 1 .. n + 1 : Above(i - 1, taken'[i].was.cpu, taken'[i].was.words)
    <2> SUFFICES ASSUME NEW i \in 1 .. n + 1
                 PROVE  Above(i - 1, taken'[i].was.cpu, taken'[i].was.words)
      OBVIOUS
    <2>1. i - 1 \in 0 .. n
      BY <1>1
    <2>2. Above(i - 1, Left(i).cpu, Left(i).words)'
      BY <1>7
    <2>3. i - 1 # 0 => i - 1 # n + 1 /\ taken'[i - 1] = taken[i - 1]
      BY <1>1, <1>5, <2>1
    <2> QED
      BY <2>2, <2>3 DEF Above, Left
  <1>9. Began(e) /\ Above(n, e.was.cpu, e.was.words)
    <2>1. Began(e)
      BY <1>2, <1>3, <1>7
    <2>2. Above((n + 1) - 1, e.was.cpu, e.was.words)
      BY <1>2, <1>3, <1>8
    <2> QED
      BY <1>3, <2>1, <2>2
  <1>10. Hist' = Append(Hist, Begun(e))
    <2>1. \A i \in 1 .. n : Begun(taken'[i]) = Begun(taken[i])
      BY <1>5
    <2>2. \A i \in 0 .. n : Act(i)' = Act(i)
      BY <1>1, <2>1 DEF Act
    <2>3. Act(n + 1)' = Begun(e)
      BY <1>1, <1>2 DEF Act
    <2> DEFINE f(i) == Act(i - 1)
               g(i) == Act(i - 1)'
    <2>4. \A i \in 1 .. n + 1 : g(i) = f(i)
      BY <1>1, <2>2
    <2>5. Hist = [i \in 1 .. n + 1 |-> f(i)]
      BY DEF Hist, HistTo
    <2>6. Hist' = [i \in 1 .. (n + 1) + 1 |-> g(i)]
      BY <1>2 DEF Hist, HistTo
    <2>7. g((n + 1) + 1) = Begun(e)
      <3>1. ((n + 1) + 1) - 1 = n + 1
        BY <1>1
      <3> QED
        BY <2>3, <3>1
    <2> HIDE DEF f, g
    <2>8. Append([i \in 1 .. n + 1 |-> f(i)], g((n + 1) + 1)) = [i \in 1 .. (n + 1) + 1 |-> g(i)]
      <3>1. PICK m \in Nat : m = n + 1
        BY <1>1
      <3>2. \A i \in 1 .. m : g(i) = f(i)
        BY <2>4, <3>1
      <3>3. Append([i \in 1 .. m |-> f(i)], g(m + 1)) = [i \in 1 .. m + 1 |-> g(i)]
        BY <3>2
      <3> QED
        BY <3>1, <3>3
    <2> QED
      BY <2>5, <2>6, <2>7, <2>8
  <1>11. ASSUME e.asked[1] = "call", NEW i \in 1 .. n + 1 PROVE Hist[i].ctx # e.asked[2]
    <2>1. i - 1 \in 0 .. n
      BY <1>1
    <2>2. Above(i - 1, taken'[i].was.cpu, taken'[i].was.words)
      BY <1>8
    <2>3. Ctx(taken'[i].was.cpu) = Act(i - 1).ctx
      BY <2>1, <2>2, ActivationCode DEF Chained
    <2>4. Called(n + 1)' /\ Callee(n + 1)' = e.asked[2]
      BY <1>2, <1>11 DEF Called, Callee
    <2>5. Ctx(taken'[i].was.cpu) # Callee(n + 1)'
      <3>1. \A j \in 1 .. n + 1 : Called(j)' =>
                \A m \in 1 .. j : Ctx(Left(m)'.cpu) # Callee(j)'
        BY <1>2 DEF Chained, Separate
      <3> QED
        BY <1>3, <2>4, <3>1 DEF Left
    <2>6. Hist[i] = Act(i - 1)
      BY HistEnds
    <2> QED
      BY <2>3, <2>4, <2>5, <2>6
  <1> QED
    BY <1>1, <1>4, <1>9, <1>10, <1>11

LEMMA FlowEnters ==
    ASSUME Types, Types', Chained, Chained', NEW e, taken' = Append(taken, e),
           Activations = Hist, Activations' = Hist'
    PROVE  Flow!Next
  <1>1. PICK n \in Nat : n = Len(taken)
    BY LenProperties DEF Types
  <1>2. /\ e \in Entries /\ Began(e) /\ Above(n, e.was.cpu, e.was.words)
        /\ Hist' = Append(Hist, Begun(e))
        /\ e.asked[1] = "call" => \A i \in 1 .. n + 1 : Hist[i].ctx # e.asked[2]
    BY <1>1, HistAppend
  <1>3. Len(Hist) = n + 1 /\ Hist[n + 1] = Act(n)
    BY <1>1, HistEnds
  <1>4. PICK h, a, u : h = Activations /\ a = Act(n) /\ u = e.was.cpu
    OBVIOUS
  <1>5. /\ Len(h) = n + 1 /\ h[Len(h)] = a /\ Activations' = Append(h, Begun(e))
        /\ e.asked[1] = "call" => \A i \in 1 .. Len(h) : h[i].ctx # e.asked[2]
    BY <1>2, <1>3, <1>4
  <1>6. n \in 0 .. Len(taken)
    BY <1>1
  <1>7. /\ a.ctx = Ctx(u) /\ a.kind = KindOf(Ctx(u), u.eip)
        /\ FromUser(u) => a.kind = "user"
    <2>1. Ctx(u) = Act(n).ctx /\ KindOf(Ctx(u), u.eip) = Act(n).kind
      BY <1>2, <1>4, <1>6, ActivationCode DEF Chained
    <2>2. FromUser(u) => n # 0 /\ Called(n)
      BY <1>2, <1>4, <1>6, ActivationCode DEF Chained
    <2> QED
      BY <1>4, <2>1, <2>2 DEF Act, Begun, Called
  <1>8. CASE e.asked[1] = "call"
    <2>1. e.asked[2] \in Slots /\ u.eip = Code(KERNEL, "task_free")
      BY <1>2, <1>4, <1>8, EntryTypes DEF Began
    <2>2. a.kind \in {"main", "sys"}
      <3>1. u.eip[2] = KERNEL /\ u.eip[3] = "task_free" /\ u.eip # Entry(SYSCALL)
        BY <2>1, CodeFacts
      <3> QED
        BY <1>7, <3>1 DEF KindOf
    <2>3. Begun(e) = [ctx |-> e.asked[2], kind |-> "user"]
      BY <1>8 DEF Begun
    <2>4. Flow!Call(e.asked[2])
      BY <1>4, <1>5, <1>8, <2>2, <2>3 DEF Flow!Call, Flow!Push, Flow!Innermost
    <2> QED
      BY <2>1, <2>4 DEF Flow!Next
  <1>9. CASE e.asked[1] # "call"
    <2>1. e.asked[1] \in {"int", "irq", "fault"}
      BY <1>2, <1>9, EntryTypes
    <2>2. PICK k \in {"sys", "irq", "exc"} :
              /\ k = Begun(e).kind /\ Begun(e) = [ctx |-> Ctx(u), kind |-> k]
              /\ k = "irq" <=> e.asked[1] = "irq"
      BY <1>4, <1>9, <2>1 DEF Begun
    <2>3. k = "irq" => a.kind \in {"main", "user", "sys"}
      <3>1. e.asked[1] = "irq" => u.iflag
        BY <1>2, <1>4 DEF Began
      <3> QED
        BY <1>2, <1>4, <1>6, <2>2, <3>1, Interruptible DEF Chained
    <2>4. k # "irq" => a.kind = "user"
      <3>1. k # "irq" => UserRegs(u)
        BY <1>2, <1>4, <1>9, <2>2 DEF Began
      <3> QED
        BY <1>7, <3>1 DEF UserRegs, FromUser
    <2>5. Flow!Interrupt(k)
      BY <1>4, <1>5, <1>7, <2>2, <2>3, <2>4 DEF Flow!Interrupt, Flow!Push, Flow!Innermost
    <2> QED
      BY <2>5 DEF Flow!Next
  <1> QED
    BY <1>8, <1>9

LEMMA FlowLeaves ==
    ASSUME Types, Chained, taken # <<>>, taken' = Without(taken, 1),
           Activations = Hist, Activations' = Hist'
    PROVE  Flow!Next
  <1>1. PICK n \in Nat \ {0} : n = Len(taken)
    BY EmptySeq DEF Types
  <1>2. Len(taken') = n - 1 /\ \A i \in 1 .. n - 1 : taken'[i] = taken[i]
    BY <1>1, Removing DEF Types
  <1>3. \A i \in 0 .. n - 1 : Act(i)' = Act(i)
    <2>1. \A i \in 1 .. n - 1 : Begun(taken'[i]) = Begun(taken[i])
      BY <1>2
    <2> QED
      BY <1>1, <2>1 DEF Act
  <1> DEFINE f(i) == Act(i - 1)
             g(i) == Act(i - 1)'
  <1>4. \A i \in 1 .. n : g(i) = f(i)
    BY <1>1, <1>3
  <1>5. Hist = [i \in 1 .. n + 1 |-> f(i)]
    BY <1>1 DEF Hist, HistTo
  <1>6. Hist' = [i \in 1 .. n |-> g(i)]
    <2>1. Hist' = [i \in 1 .. (n - 1) + 1 |-> g(i)]
      BY <1>2 DEF Hist, HistTo
    <2>2. (n - 1) + 1 = n
      BY <1>1
    <2> QED
      BY <2>1, <2>2
  <1>7. f(n + 1) = Act(n)
    BY <1>1
  <1>8. Act(n).kind # "main"
    BY <1>1 DEF Act, Begun
  <1> HIDE DEF f, g
  <1>9. PICK h : h = Hist /\ h = [i \in 1 .. n + 1 |-> f(i)]
    BY <1>5
  <1>10. Len(h) = n + 1 /\ h[n + 1] = f(n + 1) /\ SubSeq(h, 1, (n + 1) - 1) = [i \in 1 .. n |-> f(i)]
    BY <1>1, <1>9
  <1>11. Hist' = SubSeq(h, 1, (n + 1) - 1)
    <2>1. [i \in 1 .. n |-> g(i)] = [i \in 1 .. n |-> f(i)]
      BY <1>4
    <2> QED
      BY <1>6, <1>10, <2>1
  <1>12. h = Activations /\ Activations' = SubSeq(h, 1, Len(h) - 1) /\ h[Len(h)].kind # "main"
    BY <1>7, <1>8, <1>9, <1>10, <1>11
  <1>13. Flow!Return
    BY <1>12 DEF Flow!Return, Flow!Innermost
  <1> QED
    BY <1>13 DEF Flow!Next

---------------------------------------------------------------------------
(* Plain holds in every state.                                             *)

LEMMA NoAddress ==
    /\ \A c, r : Val(c, r)[1] # "code"
    /\ \A n : Num(n)[1] # "code"
    /\ \A a, n : Esp(a, n)[1] # "code"
  BY DEF Val, Num, Esp

\* A step within an activation.
LEMMA PlainKept ==
    ASSUME Types, Types', Chained, Plain, taken' = taken,
           cpu'.cs = cpu.cs, cpu'.area = cpu.area,
           \A a \in Areas : stack'[a] = stack[a] \/ a = cpu.area \/ stack'[a] = <<>>,
           Addressless(cpu')
    PROVE  Plain'
  <1>1. \A i \in 1 .. Len(taken') : Addressless(Left(i)'.cpu)
    BY DEF Plain, Left
  <1>2. ASSUME FromUser(cpu') PROVE stack'[Kernel(Ctx(cpu'))] = <<>>
    <2>1. FromUser(cpu) /\ Ctx(cpu') = Ctx(cpu)
      BY <1>2 DEF FromUser, Ctx
    <2>2. Ctx(cpu) \in Slots /\ cpu.area = User(Ctx(cpu))
      <3>1. Len(taken) \in 0 .. Len(taken) /\ Above(Len(taken), cpu, Stk)
        BY LenProperties DEF Types, Chained, Nested
      <3> QED
        BY <2>1, <3>1, ActivationCode DEF Chained
    <2>3. Kernel(Ctx(cpu)) \in Areas /\ Kernel(Ctx(cpu)) # cpu.area
      BY <2>2, AreaFacts, ContextFacts
    <2>4. stack[Kernel(Ctx(cpu))] = <<>>
      BY <2>1 DEF Plain
    <2> QED
      BY <2>1, <2>3, <2>4
  <1> QED
    BY <1>1, <1>2 DEF Plain

LEMMA AddresslessClobbered ==
    ASSUME NEW u, NEW v, Addressless(u), v.gen = Clobbered(u.gen)
    PROVE  Addressless(v)
  <1>1. \A r \in General : v.gen[r] = IF r \in {"eax", "ecx", "edx"} THEN Val(KERNEL, r) ELSE u.gen[r]
    BY DEF Clobbered
  <1> QED
    BY <1>1, NoAddress DEF Addressless

\* Kernel code that computes, and entries of the low-level handlers.
LEMMA PlainKernel ==
    ASSUME Types, Types', Chained, Plain, NEW s \in Slots, NEW n \in Installed,
           \/ Sti \/ Halt \/ NoShell \/ TaskCreate(s) \/ TaskFree
           \/ IsrEnter(n) \/ IrqHandler \/ SyscallEnter \/ SyscallFunction
    PROVE  Plain'
  <1>1. cpu \in Cpus /\ stack \in [Areas -> Seq(Words)] /\ Addressless(cpu)
    BY DEF Types, Plain
  <1>2. CASE Sti \/ Halt \/ NoShell
    <2>1. /\ cpu'.gen = cpu.gen /\ cpu'.cs = cpu.cs /\ cpu'.area = cpu.area
          /\ stack' = stack /\ taken' = taken
      BY <1>1, <1>2 DEF Sti, Halt, NoShell, Goto, Cpus
    <2> QED
      BY <1>1, <2>1, PlainKept DEF Addressless
  <1>3. CASE TaskCreate(s)
    <2>1. /\ cpu' = [cpu EXCEPT !.eip = Code(KERNEL, "task_switch")] /\ taken' = taken
          /\ stack' = [stack EXCEPT ![Kernel(s)] = <<>>, ![User(s)] = <<>>]
      BY <1>3 DEF TaskCreate, Goto
    <2>2. cpu'.gen = cpu.gen /\ cpu'.cs = cpu.cs /\ cpu'.area = cpu.area
      BY <1>1, <2>1 DEF Cpus
    <2>3. \A a \in Areas : stack'[a] = stack[a] \/ stack'[a] = <<>>
      BY <1>1, <2>1
    <2> QED
      BY <1>1, <2>1, <2>2, <2>3, PlainKept DEF Addressless
  <1>4. CASE TaskFree \/ IrqHandler \/ SyscallFunction
    <2>1. /\ cpu'.gen = Clobbered(cpu.gen) /\ cpu'.cs = cpu.cs /\ cpu'.area = cpu.area
          /\ stack' = stack /\ taken' = taken
      BY <1>1, <1>4 DEF TaskFree, IrqHandler, SyscallFunction, Cpus
    <2> QED
      BY <1>1, <2>1, AddresslessClobbered, PlainKept
  <1>5. CASE IsrEnter(n) \/ SyscallEnter
    <2>1. /\ cpu'.gen = cpu.gen /\ cpu'.cs = cpu.cs /\ cpu'.area = cpu.area
          /\ taken' = taken
      BY <1>1, <1>5 DEF IsrEnter, SyscallEnter, Cpus
    <2>2. PICK w : stack' = [stack EXCEPT ![cpu.area] = w]
      BY <1>5 DEF IsrEnter, SyscallEnter
    <2>3. \A a \in Areas : stack'[a] = stack[a] \/ a = cpu.area
      BY <1>1, <2>2
    <2> QED
      BY <1>1, <2>1, <2>3, PlainKept DEF Addressless
  <1> QED
    BY <1>2, <1>3, <1>4, <1>5

LEMMA PlainException ==
    ASSUME Types, Types', Chained, Chained', Plain, ExceptionHandler
    PROVE  Plain'
  <1>1. cpu \in Cpus /\ Addressless(cpu)
    BY DEF Types, Plain
  <1>2. ~rejected'
    BY DEF Chained, Tables
  <1>3. /\ cpu' = [cpu EXCEPT !.gen = Clobbered(@), !.eip = Code(KERNEL, "exception_exit")]
        /\ UNCHANGED <<stack, taken>>
    BY <1>2 DEF ExceptionHandler, Checked
  <1>4. /\ cpu'.gen = Clobbered(cpu.gen) /\ cpu'.cs = cpu.cs /\ cpu'.area = cpu.area
    BY <1>1, <1>3 DEF Cpus
  <1> QED
    BY <1>1, <1>3, <1>4, AddresslessClobbered, PlainKept

\* The pops of the system call handler, and those of the stub.
LEMMA PlainSyscallExit ==
    ASSUME Types, Types', Chained, Chained', Plain, SyscallExit
    PROVE  Plain'
  <1>1. cpu \in Cpus /\ Addressless(cpu) /\ stack \in [Areas -> Seq(Words)]
    BY DEF Types, Plain
  <1>2. ~rejected'
    BY DEF Chained, Tables
  <1>3. /\ cpu' = [cpu EXCEPT !.gen = GenAfter(SyscallPops, Stk),
                          !.seg = SegAfter(SyscallPops, Stk),
                          !.eip = Code(KERNEL, "syscall_iret")]
        /\ stack' = [stack EXCEPT ![cpu.area] = Without(Stk, Len(SyscallPops))]
        /\ taken' = taken
    BY <1>2 DEF SyscallExit, Checked
  <1>4. /\ cpu'.gen = GenAfter(SyscallPops, Stk) /\ cpu'.cs = cpu.cs /\ cpu'.area = cpu.area
        /\ \A a \in Areas : stack'[a] = stack[a] \/ a = cpu.area
    BY <1>1, <1>3 DEF Cpus
  <1>5. PICK e : e = Last(taken)
    OBVIOUS
  <1>6. /\ taken # <<>> /\ e.was \in States
        /\ Stk = Frame(e.was) \o SyscallWords(e.was.cpu)
    <2>1. cpu.eip = Code(KERNEL, "syscall_exit")
      BY DEF SyscallExit, At
    <2>2. taken # <<>> /\ e.was \in States /\ SysState(e.was, cpu, Stk)
      BY <1>5, <2>1, SysRuns DEF Chained
    <2> QED
      BY <2>1, <2>2, CodeFacts DEF SysState
  <1>7. Addressless(e.was.cpu)
    <2>1. PICK n \in 1 .. Len(taken) : e = taken[n]
      <3>1. taken \in Seq(Entries) /\ Len(taken) \in Nat \ {0}
        BY <1>6, Removing DEF Types
      <3> QED
        BY <1>5, <3>1 DEF Last
    <2> QED
      BY <2>1 DEF Plain, Left
  <1>8. e.was.cpu \in Cpus /\ Frame(e.was) \in Seq(Words)
    BY <1>6, FrameShape DEF States
  <1>9. /\ Popped(SyscallPops, Stk, "ebx") = e.was.cpu.gen["esi"]
        /\ Among(SyscallPops) = Segments \union {"ebx"}
    BY <1>6, <1>8, SyscallPopped
  <1>10. \A r \in General : cpu'.gen[r] = IF r = "ebx" THEN e.was.cpu.gen["esi"] ELSE cpu.gen[r]
    <2>1. \A r \in General : r \in Among(SyscallPops) <=> r = "ebx"
      BY <1>9 DEF General, Segments
    <2>2. \A r \in General : cpu'.gen[r] = IF r \in Among(SyscallPops) THEN Popped(SyscallPops, Stk, r)
                                      ELSE cpu.gen[r]
      BY <1>4 DEF GenAfter
    <2> QED
      BY <1>9, <2>1, <2>2
  <1>11. Addressless(cpu')
    <2>1. "esi" \in General
      BY DEF General
    <2> QED
      BY <1>1, <1>7, <1>10, <2>1 DEF Addressless
  <1> QED
    BY <1>3, <1>4, <1>11, PlainKept

\* Steps of an application, between its calls.
LEMMA PlainApp ==
    ASSUME Types, Types', Chained, Plain, NEW s \in Slots, AppStart(s) \/ Syscall(s) \/ Exit(s)
    PROVE  Plain'
  <1>1. cpu \in Cpus /\ Addressless(cpu) /\ stack \in [Areas -> Seq(Words)]
    BY DEF Types, Plain
  <1>2. CASE AppStart(s)
    <2>1. /\ cpu'.gen = [r \in General |-> Val(s, r)] /\ cpu'.cs = cpu.cs
          /\ cpu'.area = cpu.area /\ stack' = stack /\ taken' = taken
      BY <1>1, <1>2 DEF AppStart, Cpus
    <2>2. Addressless(cpu')
      BY <2>1, NoAddress DEF Addressless
    <2> QED
      BY <2>1, <2>2, PlainKept
  <1>3. CASE Syscall(s)
    <2>1. PICK n, w :
              /\ stack' = [stack EXCEPT ![cpu.area] = w]
              /\ cpu' = [cpu EXCEPT
                     !.gen = [r \in General |->
                                  IF r = "ebp" THEN Esp(cpu.area, n)
                                  ELSE IF r \in DOMAIN Arguments THEN Val(s, Arguments[r])
                                  ELSE @[r]],
                     !.eip = Code(s, "int48")]
              /\ taken' = taken
      BY <1>3 DEF Syscall
    <2>2. /\ cpu'.gen = [r \in General |->
                             IF r = "ebp" THEN Esp(cpu.area, n)
                             ELSE IF r \in DOMAIN Arguments THEN Val(s, Arguments[r])
                             ELSE cpu.gen[r]]
          /\ cpu'.cs = cpu.cs /\ cpu'.area = cpu.area
      BY <1>1, <2>1 DEF Cpus
    <2>3. \A r \in General : cpu'.gen[r] = IF r = "ebp" THEN Esp(cpu.area, n)
                             ELSE IF r \in DOMAIN Arguments THEN Val(s, Arguments[r])
                             ELSE cpu.gen[r]
      BY <2>2
    <2>4. Addressless(cpu')
      BY <1>1, <2>3, NoAddress DEF Addressless
    <2>5. \A a \in Areas : stack'[a] = stack[a] \/ a = cpu.area
      BY <1>1, <2>1
    <2> QED
      BY <2>1, <2>2, <2>4, <2>5, PlainKept
  <1>4. CASE Exit(s)
    <2>1. /\ cpu'.gen = cpu.gen /\ cpu'.cs = cpu.cs /\ cpu'.area = cpu.area
          /\ stack' = stack /\ taken' = taken
      BY <1>1, <1>4 DEF Exit, Cpus
    <2> QED
      BY <1>1, <2>1, PlainKept DEF Addressless
  <1> QED
    BY <1>2, <1>3, <1>4

\* The end of the stub: the registers are the application's again.
LEMMA PlainStub ==
    ASSUME Types, Types', Chained, Chained', Plain, NEW s \in Slots, SyscallReturns(s)
    PROVE  Plain'
  <1>1. cpu \in Cpus /\ Addressless(cpu) /\ stack \in [Areas -> Seq(Words)]
    BY DEF Types, Plain
  <1>2. ~rejected'
    BY DEF Chained, Tables
  <1>3. PICK x, w :
            /\ cpu' = [cpu EXCEPT !.gen = [GenAfter(StubPops, Stk) EXCEPT !["ebp"] = x],
                                  !.eip = Code(s, "main")]
            /\ stack' = [stack EXCEPT ![cpu.area] = w] /\ taken' = taken
    BY <1>2 DEF SyscallReturns, Checked
  <1>4. /\ cpu'.cs = cpu.cs /\ cpu'.area = cpu.area /\ cpu'.eip = Code(s, "main")
        /\ cpu'.gen = [GenAfter(StubPops, Stk) EXCEPT !["ebp"] = x]
        /\ \A a \in Areas : stack'[a] = stack[a] \/ a = cpu.area
    BY <1>1, <1>3 DEF Cpus
  <1>5. \A r \in General \ {"eax"} : cpu'.gen[r] = Val(s, r)
    <2>1. \A u, w1 : Above(Len(taken), u, w1) <=> UserState(s, u, w1)
      <3>1. cpu.eip = Code(s, "stub")
        BY DEF SyscallReturns, At
      <3> QED
        BY <3>1, AppRuns DEF Chained
    <2>2. Above(Len(taken), cpu, Stk)'
      BY DEF Chained, Nested
    <2>3. Above(Len(taken), cpu', Stk')
      BY <1>3, <2>2 DEF Above
    <2>4. UserState(s, cpu', Stk')
      BY <2>1, <2>3
    <2> QED
      BY <1>4, <2>4, CodeFacts DEF UserState
  <1>6. cpu'.gen["eax"] = cpu.gen["eax"]
    <2>1. "eax" \notin Among(StubPops) /\ "eax" \in General
      <3>1. Len(StubPops) = 5
        BY DEF StubPops
      <3> QED
        BY <3>1 DEF Among, StubPops, General
    <2>2. GenAfter(StubPops, Stk)["eax"] = cpu.gen["eax"]
      BY <2>1 DEF GenAfter
    <2>3. PICK h : h = GenAfter(StubPops, Stk)
      OBVIOUS
    <2>4. "eax" \in DOMAIN h
      BY <2>1, <2>3 DEF GenAfter
    <2> QED
      BY <1>4, <2>2, <2>3, <2>4
  <1>7. Addressless(cpu')
    BY <1>1, <1>5, <1>6, NoAddress DEF Addressless
  <1> QED
    BY <1>3, <1>4, <1>7, PlainKept

\* What an application or a line asks for is delivered by a gate that is installed.
LEMMA Delivers ==
    ASSUME Types, Chained,
           \/ \E s \in Slots : \/ Int48(s) \/ (\E n \in Faults : Fault(s, n))
                               \/ \E n \in SoftInts : SoftInt(s, n)
           \/ \E i \in Irqs : Irq(i)
    PROVE  \E n \in Installed, eip \in Words : \E asked : Deliver(n, eip, asked)
  <1>1. cpu.eip \in Words
    BY DEF Types, Cpus
  <1>2. 13 \in Installed /\ SYSCALL \in Installed /\ Exceptions \subseteq Installed
    BY DEF Installed, Exceptions
  <1>3. CASE \E s \in Slots : Int48(s)
    <2>1. PICK s \in Slots : Int48(s)
      BY <1>3
    <2>2. Code(s, "stub") \in Words
      BY KernelLabels DEF Labels
    <2> QED
      BY <1>1, <1>2, <2>1, <2>2 DEF Int48, SoftwareInterrupt
  <1>4. CASE \E s \in Slots : \E n \in Faults : Fault(s, n)
    <2>1. Faults \subseteq Installed
      BY <1>2, VectorsAssumption
    <2> QED
      BY <1>1, <1>4, <2>1 DEF Fault
  <1>5. CASE \E s \in Slots : \E n \in SoftInts : SoftInt(s, n)
    <2>1. PICK s \in Slots, n \in SoftInts : SoftInt(s, n)
      BY <1>5
    <2>2. n \in Vectors
      BY VectorsAssumption DEF Vectors
    <2>3. idt[n].p = 1 => n \in Installed
      <3>1. n \notin Installed => idt[n] = NoGate
        BY <2>2 DEF idt, Gate, Installed, Vectors
      <3> QED
        BY <3>1 DEF NoGate
    <2> QED
      BY <1>1, <1>2, <2>1, <2>3 DEF SoftInt, SoftwareInterrupt
  <1>6. CASE \E i \in Irqs : Irq(i)
    <2>1. PICK i \in Irqs : Irq(i)
      BY <1>6
    <2>2. IRQ_REMAP_OFFSET + i \in Installed
      <3>1. i \in IRQ_FIRST .. IRQ_LAST
        BY VectorsAssumption
      <3> QED
        BY <3>1 DEF Installed, IRQ_FIRST, IRQ_LAST, IRQ_REMAP_OFFSET
    <2> QED
      BY <1>1, <2>1, <2>2 DEF Irq
  <1> QED
    BY <1>3, <1>4, <1>5, <1>6

LEMMA PlainEntered ==
    ASSUME Types, Chained, Plain, NEW n \in Installed, NEW eip \in Words, NEW asked,
           Deliver(n, eip, asked)
    PROVE  Plain' /\ \E e : taken' = Append(taken, e)
  <1>1. cpu \in Cpus /\ Stk \in Seq(Words) /\ taken \in Seq(Entries) /\ Nested /\ Tables
    BY Here DEF Types, Chained
  <1>2. /\ taken' = Append(taken, [asked |-> asked, was |-> State(eip)])
        /\ cpu'.gen = cpu.gen /\ cpu'.cs = GDT_KERNEL_CODE_SELECTOR
    BY <1>1, Delivered
  <1>3. State(eip).cpu.gen = cpu.gen
    BY <1>1, StateFields
  <1>4. PICK e : e = [asked |-> asked, was |-> State(eip)]
    OBVIOUS
  <1>5. PICK m \in Nat : m = Len(taken)
    BY <1>1, LenProperties
  <1>6. /\ Len(taken') = m + 1 /\ taken'[m + 1] = e
        /\ \A i \in 1 .. m : taken'[i] = taken[i]
    BY <1>1, <1>2, <1>4, <1>5
  <1>7. Addressless(cpu') /\ Addressless(e.was.cpu)
    BY <1>2, <1>3, <1>4 DEF Plain, Addressless
  <1>8. \A i \in 1 .. m + 1 : Addressless(taken'[i].was.cpu)
    <2>1. \A i \in 1 .. m : Addressless(taken[i].was.cpu)
      BY <1>5 DEF Plain, Left
    <2>2. ASSUME NEW i \in 1 .. m + 1 PROVE Addressless(taken'[i].was.cpu)
      <3>1. CASE i = m + 1
        BY <1>6, <1>7, <3>1
      <3>2. CASE i # m + 1
        <4>1. i \in 1 .. m
          BY <3>2
        <4> QED
          BY <1>6, <2>1, <4>1
      <3> QED
        BY <3>1, <3>2
    <2> QED
      BY <2>2
  <1>9. ~FromUser(cpu')
    BY <1>2 DEF FromUser, GDT_KERNEL_CODE_SELECTOR, GDT_USER_CODE_SELECTOR, DPL_KERNEL, DPL_USER
  <1> QED
    BY <1>2, <1>6, <1>7, <1>8, <1>9 DEF Plain, Left

\* A task is called with the registers task_create gave it.
LEMMA PlainCalled ==
    ASSUME Types, Chained, Chained', Plain, TaskSwitch
    PROVE  Plain' /\ \E e : taken' = Append(taken, e)
  <1>0. Nested /\ Intact /\ Separate /\ Tables /\ Child
    BY DEF Chained
  <1>1. cpu.eip = Code(KERNEL, "task_switch")
    BY DEF TaskSwitch, At
  <1>2. KernelShape(cpu) /\ Top = cpu
    BY <1>0, <1>1, WhoExecs
  <1>3. PICK s : s = child[Ctx(cpu)]
    OBVIOUS
  <1>4. Ready(s) /\ s \in Slots /\ s \in Contexts
    BY <1>0, <1>1, <1>2, <1>3, ContextFacts DEF Child, Ready
  <1>5. PICK eip : eip = Code(KERNEL, "task_free")
    OBVIOUS
  <1>6. CallFar(Selector(s), eip)
    BY <1>0, <1>3, <1>5, Here DEF TaskSwitch
  <1>7. eip \in Words /\ cpu \in Cpus /\ Stk \in Seq(Words) /\ taken \in Seq(Entries)
    BY <1>0, <1>5, KernelLabels, Here DEF Types, Labels
  <1>8. /\ stack' = stack /\ cpu'.area = User(s)
        /\ taken' = Append(taken, [asked |-> <<"call", s>>, was |-> State(eip)])
    BY <1>0, <1>2, <1>4, <1>6, <1>7, TaskCalled
  <1>9. cpu'.gen = [r \in General |-> Num(0)]
    <2>1. ContextAt(Selector(s)) = {s} /\ tss[s] = NewTss(s)
      BY <1>4, TssFound DEF Ready
    <2>2. ~rejected'
      BY DEF Chained, Tables
    <2>3. \E c \in ContextAt(Selector(s)) : Loaded(c, TRUE)
      BY <1>6, <2>2 DEF CallFar, Checked
    <2>4. cpu' = [NewTss(s).cpu EXCEPT !.nt = TRUE]
      BY <2>1, <2>3 DEF Loaded
    <2>5. NewTss(s).cpu \in Cpus
      BY <1>4, NewTssFacts
    <2>6. PICK x \in Cpus : x = NewTss(s).cpu
      BY <2>5
    <2>7. x.gen = [r \in General |-> Num(0)]
      BY <1>4, <2>6, NewTssFacts
    <2>8. cpu'.gen = x.gen
      BY <2>4, <2>6 DEF Cpus
    <2> QED
      BY <2>7, <2>8
  <1>10. State(eip).cpu.gen = cpu.gen
    BY <1>7, StateFields
  <1>11. PICK e : e = [asked |-> <<"call", s>>, was |-> State(eip)]
    OBVIOUS
  <1>12. PICK m \in Nat : m = Len(taken)
    BY <1>7, LenProperties
  <1>13. /\ Len(taken') = m + 1 /\ taken'[m + 1] = e
         /\ \A i \in 1 .. m : taken'[i] = taken[i]
    BY <1>7, <1>8, <1>11, <1>12
  <1>14. Addressless(cpu') /\ Addressless(e.was.cpu)
    BY <1>9, <1>10, <1>11, NoAddress DEF Plain, Addressless
  <1>15. \A i \in 1 .. m + 1 : Addressless(taken'[i].was.cpu)
    <2>1. \A i \in 1 .. m : Addressless(taken[i].was.cpu)
      BY <1>12 DEF Plain, Left
    <2>2. ASSUME NEW i \in 1 .. m + 1 PROVE Addressless(taken'[i].was.cpu)
      <3>1. CASE i = m + 1
        BY <1>13, <1>14, <3>1
      <3>2. CASE i # m + 1
        <4>1. i \in 1 .. m
          BY <3>2
        <4> QED
          BY <1>13, <2>1, <4>1
      <3> QED
        BY <3>1, <3>2
    <2> QED
      BY <2>2
  <1>16. stack'[Kernel(Ctx(cpu'))] = <<>>
    <2>1. Ctx(cpu') = s
      BY <1>4, <1>8, AreaFacts DEF Ctx
    <2> QED
      BY <1>4, <1>8, <2>1 DEF Ready
  <1> QED
    BY <1>8, <1>13, <1>14, <1>15, <1>16 DEF Plain, Left

LEMMA LastEntry ==
    ASSUME Types, Chained, taken # <<>>, NEW e, e = Last(taken)
    PROVE  /\ Len(taken) \in Nat \ {0} /\ e = taken[Len(taken)] /\ e \in Entries /\ Began(e)
           /\ e.was \in States /\ e.was.cpu \in Cpus /\ e.was.words \in Seq(Words)
           /\ Above(Len(taken) - 1, e.was.cpu, e.was.words)
           /\ FromUser(e.was.cpu) =>
                e.was.cpu.area = User(Ctx(e.was.cpu)) /\ Ctx(e.was.cpu) \in Slots
           /\ Plain => Addressless(e.was.cpu)
  <1>1. PICK n \in Nat \ {0} : n = Len(taken)
    BY EmptySeq DEF Types
  <1>2. e = taken[n] /\ n \in 1 .. Len(taken)
    BY <1>1 DEF Last
  <1>3. /\ taken[n] \in Entries /\ Began(taken[n]) /\ Left(n) \in States
        /\ Left(n).cpu \in Cpus /\ Left(n).words \in Seq(Words)
        /\ FromUser(Left(n).cpu) =>
             Left(n).cpu.area = User(Ctx(Left(n).cpu)) /\ Ctx(Left(n).cpu) \in Slots
    BY <1>2, Chain DEF Chained
  <1>4. Above(n - 1, Left(n).cpu, Left(n).words) /\ (Plain => Addressless(Left(n).cpu))
    BY <1>2 DEF Chained, Nested, Plain
  <1> QED
    BY <1>1, <1>2, <1>3, <1>4 DEF Left

\* An entry or a call ends: what it interrupted has its registers again.
LEMMA PlainResumed ==
    ASSUME Types, Types', Chained, Plain, Resumes, taken # <<>>, taken' = Without(taken, 1),
           NEW e, e = Last(taken), Addressless(cpu'),
           FromUser(e.was.cpu) => stack'[Kernel(Ctx(e.was.cpu))] = <<>>
    PROVE  Plain'
  <1>1. e.was.cpu \in Cpus /\ cpu' \in Cpus
    BY LastEntry DEF Types
  <1>2. PICK u \in Cpus, v \in Cpus : u = e.was.cpu /\ v = cpu'
    BY <1>1
  <1>3. [v EXCEPT !.gen = u.gen] = u
    BY <1>2 DEF Resumes
  <1>4. v.cs = u.cs /\ v.area = u.area
    BY <1>3 DEF Cpus
  <1>5. PICK n \in Nat \ {0} : n = Len(taken)
    BY EmptySeq DEF Types
  <1>6. Len(taken') = n - 1 /\ \A i \in 1 .. n - 1 : taken'[i] = taken[i]
    BY <1>5, Removing, ZenonT(60) DEF Types
  <1>7. \A i \in 1 .. n - 1 : Addressless(taken'[i].was.cpu)
    <2>1. \A i \in 1 .. n : Addressless(taken[i].was.cpu)
      BY <1>5 DEF Plain, Left
    <2> QED
      BY <1>5, <1>6, <2>1
  <1>8. FromUser(cpu') => stack'[Kernel(Ctx(cpu'))] = <<>>
    BY <1>2, <1>4 DEF FromUser, Ctx
  <1> QED
    BY <1>6, <1>7, <1>8 DEF Plain, Left

\* The iret of a handler, with the registers it took back, takes the last words
\* of an application's frame off the kernel's stack.
LEMMA Irets ==
    ASSUME Types, Chained, Chained', taken # <<>>, NEW e, e = Last(taken),
           NEW gen, NEW seg, NEW words, words = Frame(e.was),
           KernelShape(cpu), Ctx(cpu) = Ctx(e.was.cpu), Iret(gen, seg, words)
    PROVE  /\ taken' = Without(taken, 1) /\ cpu'.gen = gen
           /\ FromUser(e.was.cpu) => stack'[Kernel(Ctx(e.was.cpu))] = <<>>
  <1> DEFINE n == Len(words)
             cs == words[n - 1]
             esp == words[n - 3]
             outer == Rpl(cs[2]) # Cpl
  <1>1. ~rejected'
    BY DEF Chained, Tables
  <1>2. InterruptReturn(gen, seg, words)
    BY DEF Iret, KernelShape, KernelRegs
  <1>3. /\ taken' = Without(taken, 1) /\ cpu'.gen = gen
        /\ outer => /\ n >= 5
                    /\ stack' = [stack EXCEPT ![cpu.area] = Without(words, 5),
                                      ![esp[2]] = SubSeq(@, 1, esp[3])]
    BY <1>1, <1>2 DEF InterruptReturn, Checked
  <1>4. ASSUME FromUser(e.was.cpu) PROVE stack'[Kernel(Ctx(e.was.cpu))] = <<>>
    <2>1. PICK s \in States : s = e.was
      BY LastEntry
    <2>2. /\ words \in Seq(Words) /\ n = 5 /\ words[n - 1] = Sel(s.cpu.cs)
          /\ words[n - 3] = Esp(s.cpu.area, Len(s.words))
      BY <1>4, <2>1, FrameShape
    <2>3. Rpl(GDT_KERNEL_CODE_SELECTOR) = 0 /\ Rpl(GDT_USER_CODE_SELECTOR) = 3
      BY SegmentsLoadable DEF Chained, Tables
    <2>4. outer
      BY <1>4, <2>1, <2>2, <2>3 DEF Cpl, KernelShape, KernelRegs, Sel, FromUser
    <2>5. Without(words, 5) = <<>>
      <3>1. SubSeq(words, 1, 0) = <<>>
        BY <2>2
      <3> QED
        BY <2>2, <3>1 DEF Without
    <2>6. esp[2] = s.cpu.area
      BY <2>2 DEF Esp
    <2>7. PICK c \in Slots : c = Ctx(e.was.cpu)
      BY <1>4, LastEntry
    <2>8. cpu.area = Kernel(c) /\ Kernel(c) \in Areas
      BY <2>7, AreaFacts, ContextFacts DEF KernelShape
    <2>9. s.cpu.area # Kernel(c)
      BY <1>4, <2>1, LastEntry, AreaFacts
    <2>10. stack \in [Areas -> Seq(Words)]
      BY DEF Types
    <2> QED
      BY <1>3, <2>4, <2>5, <2>6, <2>7, <2>8, <2>9, <2>10
  <1> QED
    BY <1>3, <1>4

\* The returns.
LEMMA PlainIsrExit ==
    ASSUME Types, Types', Chained, Chained', Plain, Resumes, IsrExit
    PROVE  Plain' /\ taken # <<>> /\ taken' = Without(taken, 1)
  <1>1. PICK e : e = Last(taken)
    OBVIOUS
  <1>2. PICK l \in {"exception_exit", "irq_exit"} : cpu.eip = Code(KERNEL, l)
    BY DEF IsrExit, At
  <1>3. /\ taken # <<>> /\ e.asked[1] \in {"irq", "fault"} /\ HandlerState(e, cpu, Stk)
        /\ Ctx(cpu) = Ctx(e.was.cpu) /\ KernelShape(cpu)
        /\ e.was \in States /\ VectorOf(e.asked) \in Installed \ {SYSCALL}
    BY <1>1, <1>2, HandlerRuns DEF Chained
  <1>4. Stk = WrapperWords(e.was, VectorOf(e.asked))
    BY <1>2, <1>3, CodeFacts DEF HandlerState, HandlerLabel
  <1>5. Without(Stk, 13) = Frame(e.was) /\ Len(PopOrder) + 2 = 13
    BY <1>3, <1>4, WrapperShape, Orders
  <1>6. ~rejected'
    BY DEF Chained, Tables
  <1>7. Iret(GenAfter(PopOrder, Stk), SegAfter(PopOrder, Stk), Without(Stk, Len(PopOrder) + 2))
    BY <1>6 DEF IsrExit, Checked
  <1>8. PICK gen, seg, words : gen = GenAfter(PopOrder, Stk) /\ seg = SegAfter(PopOrder, Stk)
                              /\ words = Without(Stk, Len(PopOrder) + 2)
    OBVIOUS
  <1>9. /\ taken' = Without(taken, 1)
        /\ FromUser(e.was.cpu) => stack'[Kernel(Ctx(e.was.cpu))] = <<>>
    <2>1. words = Frame(e.was) /\ Iret(gen, seg, words)
      BY <1>5, <1>7, <1>8
    <2> QED
      BY <1>1, <1>3, <2>1, Irets
  <1>10. Addressless(cpu')
    <2>1. \A r \in General : cpu'.gen[r] = e.was.cpu.gen[r]
      BY <1>1, <1>3 DEF Resumes
    <2>2. Addressless(e.was.cpu)
      BY <1>1, <1>3, LastEntry
    <2> QED
      BY <2>1, <2>2 DEF Addressless
  <1> QED
    BY <1>1, <1>3, <1>9, <1>10, PlainResumed

LEMMA PlainSyscallIret ==
    ASSUME Types, Types', Chained, Chained', Plain, Resumes, SyscallIret
    PROVE  Plain' /\ taken # <<>> /\ taken' = Without(taken, 1)
  <1>1. PICK e : e = Last(taken)
    OBVIOUS
  <1>2. cpu.eip = Code(KERNEL, "syscall_iret")
    BY DEF SyscallIret, At
  <1>3. /\ taken # <<>> /\ SysState(e.was, cpu, Stk)
        /\ Ctx(cpu) = Ctx(e.was.cpu) /\ KernelShape(cpu)
    BY <1>1, <1>2, SysRuns DEF Chained
  <1>4. Stk = Frame(e.was)
    BY <1>2, <1>3, CodeFacts DEF SysState
  <1>5. PICK gen, seg, words : gen = cpu.gen /\ seg = cpu.seg /\ words = Stk
    OBVIOUS
  <1>6. /\ taken' = Without(taken, 1) /\ cpu'.gen = gen
        /\ FromUser(e.was.cpu) => stack'[Kernel(Ctx(e.was.cpu))] = <<>>
    <2>1. words = Frame(e.was) /\ Iret(gen, seg, words)
      BY <1>4, <1>5 DEF SyscallIret
    <2> QED
      BY <1>1, <1>3, <2>1, Irets
  <1>7. Addressless(cpu')
    BY <1>5, <1>6 DEF Addressless, Plain
  <1> QED
    BY <1>1, <1>3, <1>6, <1>7, PlainResumed

LEMMA PlainAppIret ==
    ASSUME Types, Types', Chained, Chained', Plain, Resumes, AppIret
    PROVE  Plain' /\ taken # <<>> /\ taken' = Without(taken, 1)
  <1>1. PICK e : e = Last(taken)
    OBVIOUS
  <1>2. PICK s \in Slots, l \in {"exit", "main"} : cpu.eip = Code(s, l)
    BY DEF AppIret, Types
  <1>3. /\ taken # <<>> /\ e.asked[1] = "call" /\ Ctx(cpu) = s /\ UserState(s, cpu, Stk)
    BY <1>1, <1>2, AppRuns DEF Chained
  <1>4. TaskReturn(cpu.eip)
    BY <1>3 DEF AppIret, Iret, UserState, UserRegs
  <1>5. taken' = Without(taken, 1)
    <2>1. ~rejected'
      BY DEF Chained, Tables
    <2> QED
      BY <1>4, <2>1 DEF TaskReturn, Checked
  <1>6. ~FromUser(e.was.cpu)
    <2>1. e.was.cpu.eip = Code(KERNEL, "task_free")
      BY <1>1, <1>3, LastEntry DEF Began
    <2>2. PICK m : m = Len(taken) - 1
      OBVIOUS
    <2>3. Above(m, e.was.cpu, e.was.words) /\ m \in 0 .. Len(taken)
      BY <1>1, <1>3, <2>2, LastEntry
    <2> QED
      BY <2>1, <2>3, ExecutingCode DEF Chained, KernelShape
  <1>7. Addressless(cpu')
    <2>1. \A r \in General : cpu'.gen[r] = e.was.cpu.gen[r]
      BY <1>1, <1>3 DEF Resumes
    <2>2. Addressless(e.was.cpu)
      BY <1>1, <1>3, LastEntry
    <2> QED
      BY <2>1, <2>2 DEF Addressless
  <1> QED
    BY <1>1, <1>3, <1>5, <1>6, <1>7, PlainResumed

\* A step enters or calls, ends the innermost activation, or does neither.
Nests ==
    \/ taken' = taken
    \/ \E e : taken' = Append(taken, e)
    \/ taken # <<>> /\ taken' = Without(taken, 1)

LEMMA PlainStep ==
    ASSUME Types, Chained, Plain, Next
    PROVE  Types' /\ Chained' /\ Plain' /\ Nests
  <1>1. Types' /\ Chained'
    BY ChainedStep
  <1>2. 0 \in Slots /\ 0 \in Installed
    BY ContextFacts DEF Slots, Installed, Exceptions
  <1>3. CASE Booting
    <2>1. Sti \/ Halt \/ NoShell
      BY <1>3, NoBoot DEF Booting
    <2> QED
      BY <1>1, <1>2, <2>1, PlainKernel, WithinActivation DEF Nests
  <1>4. CASE Executing
    <2>1. CASE \E s \in Slots : TaskCreate(s)
      BY <1>1, <1>2, <2>1, PlainKernel, WithinActivation DEF Nests
    <2>2. CASE TaskSwitch
      BY <1>1, <2>2, PlainCalled DEF Nests
    <2>3. CASE TaskFree
      BY <1>1, <1>2, <2>3, PlainKernel, WithinActivation DEF Nests
    <2> QED
      BY <1>4, <2>1, <2>2, <2>3 DEF Executing
  <1>5. CASE Handling
    <2>1. CASE \E n \in Installed : IsrEnter(n)
      BY <1>1, <1>2, <2>1, PlainKernel, WithinActivation DEF Nests
    <2>2. CASE ExceptionHandler
      BY <1>1, <1>2, <2>2, PlainException, WithinActivation DEF Nests
    <2>3. CASE IrqHandler \/ SyscallEnter \/ SyscallFunction
      BY <1>1, <1>2, <2>3, PlainKernel, WithinActivation DEF Nests
    <2>4. CASE SyscallExit
      BY <1>1, <1>2, <2>4, PlainSyscallExit, WithinActivation DEF Nests
    <2>5. CASE IsrExit
      BY <1>1, <2>5, IsrExits, PlainIsrExit DEF Nests
    <2>6. CASE SyscallIret
      BY <1>1, <2>6, SyscallIrets, PlainSyscallIret DEF Nests
    <2> QED
      BY <1>5, <2>1, <2>2, <2>3, <2>4, <2>5, <2>6 DEF Handling
  <1>6. CASE AppIret
    BY <1>1, <1>6, AppIrets, PlainAppIret DEF Nests
  <1>7. CASE \/ \E s \in Slots : \/ Int48(s) \/ (\E n \in Faults : Fault(s, n))
                                 \/ \E n \in SoftInts : SoftInt(s, n)
             \/ \E i \in Irqs : Irq(i)
    <2>1. PICK n \in Installed, eip \in Words : \E asked : Deliver(n, eip, asked)
      BY <1>7, Delivers
    <2>2. PICK asked : Deliver(n, eip, asked)
      BY <2>1
    <2> QED
      BY <1>1, <2>2, PlainEntered DEF Nests
  <1>8. ASSUME NEW s \in Slots, AppGoesOn(s) \/ AppChooses(s) PROVE Plain' /\ Nests
    <2>1. CASE AppStart(s) \/ Syscall(s) \/ Exit(s)
      BY <1>1, <1>2, <2>1, PlainApp, WithinActivation DEF Nests
    <2>2. CASE SyscallReturns(s)
      BY <1>1, <1>2, <2>2, PlainStub, WithinActivation DEF Nests
    <2> QED
      BY <1>7, <1>8, <2>1, <2>2 DEF AppGoesOn, AppChooses
  <1> QED
    BY <1>1, <1>3, <1>4, <1>5, <1>6, <1>7, <1>8 DEF Next, Running

\* Before there is a task register the first descriptor is null.
NullFirst == Starting => gdt[0] = gdt_make_null_segment

LEMMA PlainStarting ==
    ASSUME Types, Starting, Addressless(cpu)
    PROVE  Plain
  <1>1. \A i : i \notin 1 .. Len(taken)
    BY EmptySeq DEF Starting
  <1>2. stack[Kernel(Ctx(cpu))] = <<>>
    <2>1. Ctx(cpu) = KERNEL /\ Kernel(KERNEL) \in Areas
      BY AreaFacts, ContextFacts DEF Starting, Ctx
    <2> QED
      BY <2>1 DEF Starting
  <1> QED
    BY <1>1, <1>2 DEF Plain

LEMMA BootPlain ==
    ASSUME Types, Starting, Plain, gdt[0] = gdt_make_null_segment,
           GdtInit \/ IdtInit \/ TasksInit
    PROVE  Plain' /\ (TasksInit \/ gdt'[0] = gdt_make_null_segment)
  <1>1. cpu \in Cpus /\ Addressless(cpu)
    BY DEF Types, Plain
  <1>2. /\ cpu'.gen = cpu.gen /\ cpu'.area = cpu.area
    BY <1>1 DEF GdtInit, IdtInit, TasksInit, Goto, Cpus
  <1>3. stack' = stack /\ taken' = taken
    BY DEF GdtInit, IdtInit, TasksInit
  <1>4. \A i : i \notin 1 .. Len(taken')
    BY <1>3, EmptySeq DEF Starting
  <1>5. stack'[Kernel(Ctx(cpu'))] = <<>>
    <2>1. Ctx(cpu') = KERNEL /\ Kernel(KERNEL) \in Areas
      BY <1>2, AreaFacts, ContextFacts DEF Starting, Ctx
    <2> QED
      BY <1>3, <2>1 DEF Starting
  <1>6. Plain'
    BY <1>1, <1>2, <1>4, <1>5 DEF Plain, Addressless
  <1>7. CASE GdtInit
    <2>1. gdt_init[0] = gdt_make_null_segment
      <3> DEFINE made == <<gdt_make_code_segment(0, 1048575, DPL_KERNEL),
                           gdt_make_data_segment(0, 1048575, DPL_KERNEL),
                           gdt_make_code_segment(0, 1048575, DPL_USER),
                           gdt_make_data_segment(0, 1048575, DPL_USER)>>
      <3>1. gdt_init = [i \in GdtIndexes |-> IF i \in 1 .. 4 THEN made[i] ELSE gdt_make_null_segment]
        BY DEF gdt_init
      <3> HIDE DEF made
      <3>2. 0 \in GdtIndexes
        BY ContextFacts DEF GdtIndexes, KERNEL_TSS_INDEX
      <3> QED
        BY <3>1, <3>2
    <2> QED
      BY <1>6, <1>7, <2>1 DEF GdtInit
  <1>8. CASE IdtInit
    BY <1>6, <1>8 DEF IdtInit
  <1> QED
    BY <1>6, <1>7, <1>8

\* Once there is a task register, the kernel does not start again.
LEMMA Started ==
    ASSUME NEW c \in Contexts
    PROVE  Selector(c) # 0
  BY ContextFacts, AddressAssumption DEF Selector, gdt_entry_to_selector, TssIndex, KERNEL_TSS_INDEX, Contexts, Slots, KERNEL

---------------------------------------------------------------------------
(* Machine implements Control.                                             *)

NestingInv == Inv /\ Plain /\ NullFirst

LEMMA Starts ==
    ASSUME Init
    PROVE  NestingInv
  <1>1. Types /\ Starting
    BY Initially
  <1>2. Addressless(cpu)
    <2>1. PICK g : g = [r \in General |-> Val(KERNEL, r)]
      OBVIOUS
    <2>2. cpu.gen = g
      BY <2>1 DEF Init
    <2> QED
      BY <2>1, <2>2, NoAddress DEF Addressless
  <1>3. gdt[0] = gdt_make_null_segment
    <2>1. gdt = [i \in GdtIndexes |-> gdt_make_null_segment]
      BY DEF Init
    <2>2. 0 \in GdtIndexes
      BY ContextFacts DEF GdtIndexes, KERNEL_TSS_INDEX
    <2> QED
      BY <2>1, <2>2
  <1> QED
    BY <1>1, <1>2, <1>3, PlainStarting DEF NestingInv, Inv, NullFirst

LEMMA NestingStep ==
    ASSUME NestingInv, [Next]_vars
    PROVE  NestingInv' /\ Nests
  <1>1. Inv'
    BY InvStep DEF NestingInv
  <1>2. Types /\ Types' /\ Plain /\ NullFirst
    BY <1>1 DEF NestingInv, Inv
  <1>3. CASE UNCHANGED vars
    <2>1. UNCHANGED <<cpu, stack, tr, gdt, tss, patched, rejected, taken, idtr>>
      BY <1>3 DEF vars, tables, tasks
    <2>2. Plain'
      BY <1>2, <2>1 DEF Plain, Left
    <2>3. NullFirst'
      BY <1>2, <2>1 DEF NullFirst, Starting, KernelRegs
    <2> QED
      BY <1>1, <2>1, <2>2, <2>3 DEF NestingInv, Nests
  <1>4. CASE Next /\ Chained
    <2>1. Chained' /\ Plain' /\ Nests
      BY <1>2, <1>4, PlainStep
    <2>2. tr' # 0
      <3>1. Ctx(cpu') \in Contexts
        BY <1>1, AreaOwner DEF Inv, Types, Cpus, Ctx
      <3>2. tr' = Selector(Ctx(cpu'))
        BY <2>1 DEF Chained, Tables
      <3> QED
        BY <3>1, <3>2, Started
    <2>3. NullFirst'
      BY <2>2 DEF NullFirst, Starting
    <2> QED
      BY <1>1, <2>1, <2>3 DEF NestingInv
  <1>5. CASE Next /\ Starting
    <2>1. GdtInit \/ IdtInit \/ TasksInit
      BY <1>2, <1>5, BootOnly
    <2>2. taken' = taken
      BY <1>2, <1>5, <2>1, BootSteps
    <2>3. Plain' /\ (TasksInit \/ gdt'[0] = gdt_make_null_segment)
      BY <1>2, <1>5, <2>1, BootPlain DEF NullFirst
    <2>4. TasksInit => tr' # 0
      BY Started, ContextFacts DEF TasksInit
    <2>5. NullFirst'
      BY <2>3, <2>4 DEF NullFirst, Starting
    <2> QED
      BY <1>1, <2>2, <2>3, <2>5 DEF NestingInv, Nests
  <1> QED
    BY <1>3, <1>4, <1>5 DEF NestingInv, Inv

\* What the stacks and links tell is the history.
Faithful == Activations = Hist

LEMMA ReadsHistory ==
    ASSUME NestingInv
    PROVE  Faithful
  <1>1. CASE Chained
    BY <1>1, ActivationsChained DEF NestingInv, Inv, Faithful
  <1>2. CASE Starting
    BY <1>2, ActivationsStarting DEF NestingInv, Inv, NullFirst, Faithful
  <1> QED
    BY <1>1, <1>2 DEF NestingInv, Inv, Faithful

LEMMA FlowStep ==
    ASSUME NestingInv, NestingInv', Nests, [Next]_vars,
           Activations = Hist, Activations' = Hist'
    PROVE  [Flow!Next]_Activations
  <1>1. CASE taken' = taken
    <2>1. Hist' = Hist
      BY <1>1 DEF Hist, HistTo, Act, Begun
    <2> QED
      BY <2>1
  <1>2. CASE taken' # taken
    <2>1. Types /\ Types' /\ Chained /\ Chained'
      <3>1. Next
        BY <1>2 DEF vars
      <3>2. ~Starting
        <4>1. Starting => taken' = taken
          BY <3>1, BootOnly, BootSteps DEF NestingInv, Inv
        <4> QED
          BY <1>2, <4>1
      <3>3. Chained'
        BY <3>1, <3>2, ChainedStep DEF NestingInv, Inv
      <3> QED
        BY <3>2, <3>3 DEF NestingInv, Inv
    <2>2. CASE \E e : taken' = Append(taken, e)
      BY <2>1, <2>2, FlowEnters
    <2>3. CASE taken # <<>> /\ taken' = Without(taken, 1)
      BY <2>1, <2>3, FlowLeaves
    <2> QED
      BY <1>2, <2>2, <2>3 DEF Nests
  <1> QED
    BY <1>1, <1>2

LEMMA FlowStarts ==
    ASSUME Init
    PROVE  Flow!Init
  <1>1. Activations = Hist
    BY Starts, ReadsHistory DEF Faithful
  <1>2. Len(taken) = 0
    BY EmptySeq DEF Init
  <1>3. Hist = <<Act(0)>>
    BY <1>2 DEF Hist, HistTo
  <1> QED
    BY <1>1, <1>3 DEF Flow!Init, Act

\* The entry and exit code implements Control: the activations that the frames
\* on the stacks, the saved registers and the task links tell of begin with
\* kernel_main, an interrupt, system call, exception or far call adds one on top
\* of those it may interrupt, and an iret takes the innermost one off; no other
\* instruction changes them (idt_asm.s, syscall_asm.s, task_asm.s:290-296).
THEOREM NestedControlCorrect == Spec => NestedControl
  <1>1. Init => NestingInv /\ Flow!Init
    BY Starts, FlowStarts
  <1>2. NestingInv /\ [Next]_vars => NestingInv' /\ Nests
    BY NestingStep
  <1>3. NestingInv => Faithful
    BY ReadsHistory
  <1>4. /\ NestingInv /\ NestingInv' /\ Nests /\ [Next]_vars /\ Faithful /\ Faithful'
        => [Flow!Next]_Activations
    BY FlowStep DEF Faithful
  <1> QED
    BY <1>1, <1>2, <1>3, <1>4, PTL DEF Spec, NestedControl, Flow!Spec
=============================================================================
