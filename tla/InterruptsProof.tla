-------------------------- MODULE InterruptsProof --------------------------
(***************************************************************************)
(* Handlers do not nest, the keyboard buffer is a queue and its space_left *)
(* keeps a possible value, and timer_sleep sleeps long enough: for every   *)
(* size of the buffer, range of the ticks and set of interrupt lines.      *)
(***************************************************************************)
EXTENDS Interrupts, TLAPS

B == BUFFER_SIZE

\* The stack holds one handler at most, which runs with interrupts disabled and
\* returns to code that was interruptible.
FlagInv ==
    /\ isrs = <<>> \/ \E f \in Frames : isrs = <<f>> /\ f.flag = TRUE
    /\ Handling => ~iflag

\* keyb_get_key works on a buffer that is not empty, and the slots between the
\* indexes are as many as the keys held.
RingInv ==
    /\ SpaceInRange
    /\ pc \in {"read", "load"} => space < B
    /\ pc = "store" => loaded \in 0 .. B - 1
    /\ ~raced => Held \in 0 .. B /\ write = (read + Held) % B
    /\ KeysInOrder

\* The ticks that timer_sleep computes are not more than there were.
SleepInv ==
    /\ pc \notin {"begin", "poll", "iret"} => ms = 0
    /\ pc = "poll" => Elapsed <= slept
    /\ SleepsLongEnough

IInv == TypeOK /\ FlagInv /\ RingInv /\ SleepInv

---------------------------------------------------------------------------
(* Arithmetic modulo the size of the buffer.                               *)

LEMMA Sizes == B \in Nat /\ B > 0 /\ TickRange \in Nat /\ TickRange > 0
               /\ Freq \in Nat /\ Freq > 0 /\ 1000 * TickRange \in Nat
BY InterruptsAssumption DEF B

\* An index at most one round too far wraps around once.
LEMMA Wrap ==
    ASSUME NEW n \in Nat, n > 0, NEW x \in 0 .. 2 * n - 1
    PROVE  x % n = IF x < n THEN x ELSE x - n
<1>1. CASE x < n
    BY <1>1
<1>2. CASE x >= n
    <2>1. x - n \in 0 .. n - 1
        BY <1>2
    <2>2. x = n * 1 + (x - n)
        BY <1>2
    <2>3. x % n = x - n
        BY <2>1, <2>2
    <2>4. QED
        BY <1>2, <2>3
<1>3. QED
    BY <1>1, <1>2

\* Different distances from an index lead to different slots.
LEMMA SlotsDiffer ==
    ASSUME NEW n \in Nat, n > 0, NEW r \in 0 .. n - 1,
           NEW x \in 0 .. n - 1, NEW y \in 0 .. n - 1, x # y
    PROVE  (r + x) % n # (r + y) % n
<1>1. (r + x) % n = IF r + x < n THEN r + x ELSE r + x - n
    BY Wrap
<1>2. (r + y) % n = IF r + y < n THEN r + y ELSE r + y - n
    BY Wrap
<1>3. QED
    BY <1>1, <1>2

\* One step of the index is one step of the distance.
LEMMA SlotsShift ==
    ASSUME NEW n \in Nat, n > 0, NEW r \in 0 .. n - 1, NEW x \in 0 .. n - 1
    PROVE  /\ (((r + 1) % n) + x) % n = (r + (x + 1)) % n
           /\ (((r + x) % n) + 1) % n = (r + (x + 1)) % n
           /\ (r + x) % n \in 0 .. n - 1
<1>1. (r + x) % n = IF r + x < n THEN r + x ELSE r + x - n
    BY Wrap
<1>2. (r + 1) % n = IF r + 1 < n THEN r + 1 ELSE r + 1 - n
    BY Wrap
<1>3. (r + (x + 1)) % n = IF r + (x + 1) < n THEN r + (x + 1) ELSE r + (x + 1) - n
    BY Wrap
<1>4. (r + x) % n \in 0 .. n - 1 /\ (r + 1) % n \in 0 .. n - 1
    BY <1>1, <1>2
<1>5. (((r + 1) % n) + x) % n =
        IF ((r + 1) % n) + x < n THEN ((r + 1) % n) + x ELSE ((r + 1) % n) + x - n
    BY <1>4, Wrap
<1>6. (((r + x) % n) + 1) % n =
        IF ((r + x) % n) + 1 < n THEN ((r + x) % n) + 1 ELSE ((r + x) % n) + 1 - n
    BY <1>4, Wrap
<1>7. (((r + 1) % n) + x) % n = (r + (x + 1)) % n
    BY <1>2, <1>3, <1>4, <1>5
<1>8. (((r + x) % n) + 1) % n = (r + (x + 1)) % n
    BY <1>1, <1>3, <1>4, <1>6
<1>9. QED
    BY <1>4, <1>7, <1>8

\* One tick more is at most one more of the ticks elapsed.
LEMMA TickElapsed ==
    ASSUME NEW n \in Nat, n > 0, NEW t \in 0 .. n - 1, NEW s \in 0 .. n - 1
    PROVE  /\ (t + 1) % n \in 0 .. n - 1
           /\ (t - s) % n \in 0 .. n - 1
           /\ (((t + 1) % n) - s) % n <= ((t - s) % n) + 1
<1>1. (t + 1) % n = IF t + 1 < n THEN t + 1 ELSE t + 1 - n
    BY Wrap
<1>2. \A d \in -n .. n - 1 : d % n = IF d < 0 THEN d + n ELSE d
    <2>1. ASSUME NEW d \in -n .. n - 1, d < 0 PROVE d % n = d + n
        <3>1. d = n * (-1) + (d + n) /\ d + n \in 0 .. n - 1
            BY <2>1
        <3>2. QED
            BY <3>1
    <2>2. ASSUME NEW d \in -n .. n - 1, d >= 0 PROVE d % n = d
        BY <2>2
    <2>3. QED
        BY <2>1, <2>2
<1>3. (t - s) % n = IF t - s < 0 THEN t - s + n ELSE t - s
    BY <1>2
<1>4. (t + 1) % n \in 0 .. n - 1
    BY <1>1
<1>5. (((t + 1) % n) - s) % n =
        IF ((t + 1) % n) - s < 0 THEN ((t + 1) % n) - s + n ELSE ((t + 1) % n) - s
    BY <1>2, <1>4
<1>6. QED
    BY <1>1, <1>3, <1>4, <1>5

\* The milliseconds that timer_sleep computes are rounded down.
LEMMA Milliseconds ==
    ASSUME NEW n \in Nat, n > 0, NEW x \in Nat, NEW m \in Nat, m <= x \div n
    PROVE  m * n <= x
<1>1. x = n * (x \div n) + (x % n) /\ x % n >= 0 /\ x \div n \in Nat
    OBVIOUS
<1>2. n * m <= n * (x \div n)
    BY <1>1
<1>3. QED
    BY <1>1, <1>2

---------------------------------------------------------------------------
(* The initial states.                                                     *)

LEMMA InitInvariant == Init => IInv
<1> SUFFICES ASSUME Init PROVE IInv
    OBVIOUS
<1> USE Sizes
<1>1. TypeOK
    <2>1. 0 \in 0 .. B - 1 /\ 0 \in 0 .. TickRange - 1 /\ BUFFER_SIZE \in Int
        BY DEF B
    <2>2. buf \in [0 .. B - 1 -> Keys \union {NoKey}]
        BY DEF Init, B
    <2>3. isrs \in Seq(Frames) /\ unread \in Seq(Keys)
        BY DEF Init
    <2>4. iflag \in BOOLEAN /\ userif \in BOOLEAN /\ raced \in BOOLEAN
        BY DEF Init
    <2>5. irr \subseteq Lines /\ quiet \subseteq Lines
          /\ master \subseteq 0 .. 7 /\ slave \subseteq 8 .. 15
        BY DEF Init
    <2>6. QED
        BY <2>1, <2>2, <2>3, <2>4, <2>5 DEF Init, TypeOK, B
<1>2. FlagInv
    BY DEF Init, FlagInv, Handling
<1>3. Held = 0 /\ (read + Held) % B = 0
    <2>1. Held = BUFFER_SIZE - BUFFER_SIZE - 0
        BY DEF Init, Held
    <2>2. 0 % B = 0
        OBVIOUS
    <2>3. Held = 0
        BY <2>1 DEF B
    <2>4. QED
        BY <2>2, <2>3 DEF Init
<1>4. KeysInOrder
    BY <1>3 DEF Init, KeysInOrder
<1>5. RingInv
    BY <1>3, <1>4 DEF Init, RingInv, SpaceInRange, B
<1>6. SleepInv
    BY DEF Init, SleepInv, SleepsLongEnough
<1>7. QED
    BY <1>1, <1>2, <1>5, <1>6 DEF IInv

---------------------------------------------------------------------------
(* Handlers do not nest.                                                   *)

\* The handler on the stack is the only one.
LEMMA OneHandler ==
    ASSUME FlagInv, Handling
    PROVE  /\ Len(isrs) = 1 /\ Top \in Frames /\ isrs = <<Top>> /\ Top.flag = TRUE
           /\ iflag # TRUE
<1>1. PICK f \in Frames : isrs = <<f>> /\ f.flag = TRUE
    BY DEF FlagInv, Handling
<1>2. Len(isrs) = 1 /\ Top = f
    BY <1>1 DEF Top
<1>3. QED
    BY <1>1, <1>2 DEF FlagInv

LEMMA FlagStep ==
    ASSUME TypeOK, FlagInv, [Next]_vars
    PROVE  FlagInv'
<1>1. CASE UNCHANGED <<iflag, isrs>>
    BY <1>1 DEF FlagInv, Handling
<1>2. ASSUME NEW i \in Lines, Interrupt(i) PROVE FlagInv'
    <2>1. isrs = <<>> /\ iflag = TRUE
        BY <1>2 DEF Interrupt, FlagInv, Handling, TypeOK
    <2>2. isrs' = <<[irq |-> i, at |-> "cli", flag |-> TRUE]>>
        BY <1>2, <2>1 DEF Interrupt
    <2>3. [irq |-> i, at |-> "cli", flag |-> TRUE] \in Frames
        BY DEF Frames
    <2>4. 32 + i # 48
        BY InterruptsAssumption
    <2>5. ~iflag'
        BY <1>2, <2>4 DEF Interrupt, FlagAfter, Gate
    <2>6. QED
        BY <2>2, <2>3, <2>5 DEF FlagInv, Handling
<1>3. ASSUME NEW step \in {"handle", "iret"}, Handling, Goto(step), ~iflag' PROVE FlagInv'
    <2>1. isrs = <<Top>> /\ Top \in Frames /\ Top.flag = TRUE /\ Len(isrs) = 1
        BY <1>3, OneHandler
    <2>2. isrs' = <<[Top EXCEPT !.at = step]>>
        BY <1>3, <2>1 DEF Goto
    <2>3. [Top EXCEPT !.at = step] \in Frames /\ [Top EXCEPT !.at = step].flag = TRUE
        BY <2>1 DEF Frames
    <2>4. QED
        BY <1>3, <2>2, <2>3 DEF FlagInv
<1>4. ASSUME IsrCli PROVE FlagInv'
    BY <1>3, <1>4 DEF IsrCli, At
<1>5. ASSUME IsrHandle PROVE FlagInv'
    BY <1>3, <1>5, OneHandler DEF IsrHandle, At, TypeOK
<1>6. ASSUME IsrIret PROVE FlagInv'
    <2>1. isrs = <<Top>> /\ Len(isrs) = 1
        BY <1>6, OneHandler DEF IsrIret, At
    <2>2. isrs' = <<>>
        BY <1>6, <2>1 DEF IsrIret
    <2>3. QED
        BY <2>2 DEF FlagInv, Handling
<1>7. ASSUME isrs = <<>>, UNCHANGED isrs PROVE FlagInv'
    BY <1>7 DEF FlagInv, Handling
<1>8. ASSUME NEW f, Int48(f) PROVE FlagInv'
    BY <1>7, <1>8 DEF Int48, Main, Handling
<1>9. ASSUME Sti \/ SyscallIret PROVE FlagInv'
    BY <1>7, <1>9 DEF Sti, SyscallIret, Main, Handling
<1>10. CASE Hardware
    BY <1>1, <1>10 DEF Hardware, Tick, KeyStroke, OtherIrq, cpu
<1>11. CASE GetKeyTest \/ GetKeyRead \/ GetKeyLoad \/ GetKeyStore \/ SleepBegin \/ SleepPoll
    BY <1>1, <1>11
    DEF GetKeyTest, GetKeyRead, GetKeyLoad, GetKeyStore, SleepBegin, SleepPoll
<1>12. CASE UserRuns \/ UNCHANGED vars
    BY <1>1, <1>12 DEF UserRuns, vars, cpu
<1>13. CASE Application
    BY <1>8, <1>12, <1>13 DEF Application, CallGetKey, CallSleep
<1>14. CASE Processor
    BY <1>2, <1>4, <1>5, <1>6, <1>9, <1>11, <1>14 DEF Processor
<1>15. QED
    BY <1>10, <1>12, <1>13, <1>14 DEF Next

LEMMA FlagImplies == FlagInv => HandlersNotNested
<1>1. ASSUME FlagInv, ~Handling PROVE HandlersNotNested
    <2>1. Len(isrs) = 0
        BY <1>1 DEF Handling
    <2>2. QED
        BY <1>1, <2>1 DEF HandlersNotNested
<1>2. ASSUME FlagInv, Handling PROVE HandlersNotNested
    <2>1. Len(isrs) = 1
        BY <1>2, OneHandler
    <2>2. Len(isrs) <= 1
        BY <2>1
    <2>3. QED
        BY <1>2, <2>2, Zenon DEF FlagInv, HandlersNotNested
<1>3. QED
    BY <1>1, <1>2


---------------------------------------------------------------------------
(* The buffer of the keyboard driver is a queue.                           *)

\* The keys not yet read, by their distance from the read index.
LEMMA Queue ==
    ASSUME TypeOK, RingInv, ~raced
    PROVE  /\ Held \in 0 .. B /\ write = (read + Held) % B
           /\ read \in 0 .. B - 1 /\ write \in 0 .. B - 1
           /\ Len(unread) = Held
           /\ \A n \in 1 .. Held : unread[n] = buf[(read + (n - 1)) % B]
<1>1. Held \in 0 .. B /\ write = (read + Held) % B
    BY DEF RingInv
<1>2. unread = [n \in 1 .. Held |-> buf[(read + n - 1) % B]]
    BY DEF RingInv, KeysInOrder, B
<1>3. Len(unread) = Held
    BY <1>1, <1>2, Sizes
<1>4. read \in 0 .. B - 1 /\ write \in 0 .. B - 1
    BY DEF TypeOK, B
<1>5. \A n \in 1 .. Held : unread[n] = buf[(read + (n - 1)) % B]
    <2> SUFFICES ASSUME NEW n \in 1 .. Held PROVE unread[n] = buf[(read + (n - 1)) % B]
        OBVIOUS
    <2>1. read + n - 1 = read + (n - 1)
        BY <1>4, <1>1, Sizes
    <2>2. QED
        BY <1>2, <2>1
<1>6. QED
    BY <1>1, <1>3, <1>4, <1>5

\* Conversely, a sequence with these elements is the queue.
LEMMA QueueIs ==
    ASSUME NEW r \in 0 .. B - 1, NEW h \in Nat, NEW b, NEW u \in Seq(Keys), Len(u) = h,
           \A n \in 1 .. h : u[n] = b[(r + (n - 1)) % B]
    PROVE  u = [n \in 1 .. h |-> b[(r + n - 1) % B]]
<1>1. \A n \in 1 .. h : r + n - 1 = r + (n - 1)
    BY Sizes
<1>2. u = [n \in 1 .. h |-> u[n]]
    OBVIOUS
<1>3. \A n \in 1 .. h : u[n] = b[(r + n - 1) % B]
    BY <1>1
<1>4. QED
    BY <1>2, <1>3

LEMMA AcceptStep ==
    ASSUME TypeOK, RingInv, NEW code \in Keys, KeyAccepted(code),
           UNCHANGED <<pc, loaded, raced>>
    PROVE  /\ buf' \in [0 .. B - 1 -> Keys \union {NoKey}]
           /\ read' \in 0 .. B - 1 /\ write' \in 0 .. B - 1
           /\ space' \in Int /\ unread' \in Seq(Keys)
           /\ RingInv'
<1> USE Sizes
<1>1. CASE space = 0
    BY <1>1 DEF KeyAccepted, ring, TypeOK, RingInv, SpaceInRange, Held, KeysInOrder, B
<1>2. CASE space # 0
    <2>1. /\ buf' = [buf EXCEPT ![write] = code]
          /\ write' = (write + 1) % B /\ space' = space - 1 /\ read' = read
          /\ unread' = IF raced THEN <<>> ELSE Append(unread, code)
        BY <1>2 DEF KeyAccepted, B
    <2>2. /\ space \in 1 .. B /\ read \in 0 .. B - 1 /\ write \in 0 .. B - 1
          /\ buf \in [0 .. B - 1 -> Keys \union {NoKey}] /\ unread \in Seq(Keys)
        BY <1>2 DEF TypeOK, RingInv, SpaceInRange, B
    <2>3. /\ buf' \in [0 .. B - 1 -> Keys \union {NoKey}] /\ buf'[write] = code
          /\ \A k \in 0 .. B - 1 : k # write => buf'[k] = buf[k]
        BY <2>1, <2>2
    <2>4. write' \in 0 .. B - 1 /\ unread' \in Seq(Keys)
        BY <2>1, <2>2, SlotsShift
    <2>5. SpaceInRange' /\ (pc' \in {"read", "load"} => space' < B)
          /\ (pc' = "store" => loaded' \in 0 .. B - 1)
        BY <2>1, <2>2 DEF RingInv, SpaceInRange, B
    <2>6. ASSUME ~raced PROVE /\ Held' \in 0 .. B /\ write' = (read' + Held') % B
                              /\ KeysInOrder'
        <3>1. Held \in 0 .. B - 1 /\ Held' = Held + 1
            <4>1. Held <= B - space
                BY <2>2 DEF Held, B
            <4>2. Held' = Held + 1
                BY <2>1, <2>2 DEF Held, B
            <4>3. QED
                BY <2>2, <2>6, <4>1, <4>2, Queue
        <3>2. write = (read + Held) % B
            BY <2>6, Queue
        <3>3. write' = (read' + Held') % B
            BY <2>1, <2>2, <3>1, <3>2, SlotsShift
        <3>4. Len(unread') = Held'
            BY <2>1, <2>2, <2>6, <3>1, Queue
        <3>5. ASSUME NEW n \in 1 .. Held' PROVE unread'[n] = buf'[(read + (n - 1)) % B]
            <4>1. CASE n <= Held
                <5>1. unread'[n] = unread[n] /\ unread[n] = buf[(read + (n - 1)) % B]
                    BY <2>1, <2>2, <2>6, <3>1, <4>1, Queue
                <5>2. n - 1 \in 0 .. B - 1 /\ n - 1 # Held
                    BY <3>1, <4>1
                <5>3. (read + (n - 1)) % B # write
                    BY <2>2, <3>1, <3>2, <5>2, SlotsDiffer
                <5>4. (read + (n - 1)) % B \in 0 .. B - 1
                    BY <2>2, <5>2, SlotsShift
                <5>5. QED
                    BY <2>3, <5>1, <5>3, <5>4
            <4>2. CASE n = Held + 1
                <5>1. unread'[n] = code
                    BY <2>1, <2>2, <2>6, <4>2, Queue
                <5>2. (read + (n - 1)) % B = write
                    BY <2>2, <3>1, <3>2, <4>2
                <5>3. QED
                    BY <2>3, <5>1, <5>2
            <4>3. QED
                BY <3>1, <4>1, <4>2
        <3>6. unread' = [n \in 1 .. Held' |-> buf'[(read' + n - 1) % B]]
            <4>1. read' \in 0 .. B - 1 /\ Held' \in Nat
                BY <2>1, <2>2, <3>1
            <4>2. \A n \in 1 .. Held' : unread'[n] = buf'[(read' + (n - 1)) % B]
                BY <2>1, <3>5
            <4>3. QED
                BY <2>4, <3>4, <4>1, <4>2, QueueIs
        <3>7. KeysInOrder'
            BY <3>6 DEF KeysInOrder, B, Held
        <3>8. QED
            BY <3>1, <3>3, <3>7
    <2>7. KeysInOrder'
        BY <2>6 DEF KeysInOrder
    <2>8. QED
        BY <2>1, <2>2, <2>3, <2>4, <2>5, <2>6, <2>7 DEF RingInv
<1>3. QED
    BY <1>1, <1>2

LEMMA ReadStep ==
    ASSUME TypeOK, RingInv, GetKeyRead
    PROVE  /\ key' \in Keys \union {NoKey}
           /\ read' \in 0 .. B - 1 /\ unread' \in Seq(Keys)
           /\ RingInv'
<1> USE Sizes
<1>1. /\ pc = "read" /\ pc' = "load" /\ key' = buf[read] /\ read' = (read + 1) % B
      /\ unread' = IF raced THEN <<>> ELSE Tail(unread)
      /\ UNCHANGED <<buf, write, space, loaded, raced>>
    BY DEF GetKeyRead, Main, B
<1>2. /\ space \in 0 .. B - 1 /\ read \in 0 .. B - 1 /\ write \in 0 .. B - 1
      /\ buf \in [0 .. B - 1 -> Keys \union {NoKey}] /\ unread \in Seq(Keys)
    BY <1>1 DEF TypeOK, RingInv, SpaceInRange, B
<1>3. Held = B - space
    BY <1>1, <1>2 DEF Held, B
<1>4. Held' = B - space - 1
    BY <1>1, <1>2 DEF Held, B
<1>5. key' \in Keys \union {NoKey}
    BY <1>1, <1>2
<1>6. read' \in 0 .. B - 1
    BY <1>1, <1>2
<1>7. ~raced => Len(unread) > 0
    BY <1>2, <1>3, Queue
<1>8. unread' \in Seq(Keys)
    BY <1>1, <1>2, <1>7
<1>9. ASSUME ~raced
      PROVE  Held' \in 0 .. B /\ write' = (read' + Held') % B /\ KeysInOrder'
    <2>1. Held \in 1 .. B /\ Held' = Held - 1
        BY <1>2, <1>3, <1>4
    <2>2. \A x \in 0 .. B - 1 : (read' + x) % B = (read + (x + 1)) % B
        BY <1>1, <1>2, SlotsShift
    <2>3. write' = (read' + Held') % B
        <3>1. write' = (read + Held) % B
            BY <1>1, <1>9, Queue
        <3>2. Held' \in 0 .. B - 1 /\ Held' + 1 = Held
            BY <2>1
        <3>3. QED
            BY <2>2, <3>1, <3>2
    <2>4. unread' = Tail(unread) /\ Len(unread) = Held
        BY <1>1, <1>9, Queue
    <2>5. Len(unread') = Held'
        BY <1>2, <2>1, <2>4
    <2>6. ASSUME NEW n \in 1 .. Held' PROVE unread'[n] = buf'[(read' + (n - 1)) % B]
        <3>1. unread'[n] = unread[n + 1]
            BY <1>2, <2>1, <2>4
        <3>2. n + 1 \in 1 .. Held /\ (n + 1) - 1 = (n - 1) + 1 /\ n - 1 \in 0 .. B - 1
            BY <2>1
        <3>3. unread[n + 1] = buf[(read + ((n - 1) + 1)) % B]
            BY <1>9, <3>2, Queue
        <3>4. QED
            BY <1>1, <2>2, <3>1, <3>2, <3>3
    <2>7. unread' = [n \in 1 .. Held' |-> buf'[(read' + n - 1) % B]]
        BY <1>6, <1>8, <2>1, <2>5, <2>6, QueueIs
    <2>8. QED
        BY <2>1, <2>3, <2>7 DEF KeysInOrder, B
<1>10. KeysInOrder'
    BY <1>1, <1>9 DEF KeysInOrder
<1>11. QED
    BY <1>1, <1>2, <1>5, <1>6, <1>8, <1>9, <1>10 DEF RingInv, SpaceInRange, B

\* Nothing changes but the step of the main code, and the keys held stay as many.
LEMMA RingKept ==
    ASSUME TypeOK, RingInv, UNCHANGED <<ring, raced>>, Held' = Held,
           pc' \in {"read", "load"} => space < B,
           pc' = "store" => loaded' \in 0 .. B - 1
    PROVE  RingInv'
BY DEF RingInv, SpaceInRange, KeysInOrder, ring, B

LEMMA GetKeyStep ==
    ASSUME TypeOK, RingInv, GetKeyTest \/ GetKeyLoad \/ GetKeyStore
    PROVE  RingInv'
<1> USE Sizes
<1>1. CASE GetKeyTest
    <2>1. Held' = Held
        BY <1>1 DEF GetKeyTest, Main, Held, ring
    <2>2. pc' = "read" => space < B
        BY <1>1 DEF GetKeyTest, RingInv, SpaceInRange, B
    <2>3. pc' \in {"iret", "read"} /\ UNCHANGED <<ring, raced>>
        BY <1>1 DEF GetKeyTest, getter
    <2>4. QED
        BY <2>1, <2>2, <2>3, RingKept
<1>2. CASE GetKeyLoad
    <2>1. Held' = Held
        BY <1>2 DEF GetKeyLoad, Main, Held, ring
    <2>2. pc' = "store" /\ loaded' \in 0 .. B - 1
        BY <1>2 DEF GetKeyLoad, Main, RingInv, SpaceInRange, B
    <2>3. QED
        BY <1>2, <2>1, <2>2, RingKept DEF GetKeyLoad
<1>3. CASE GetKeyStore
    <2>1. /\ pc = "store" /\ pc' = "iret" /\ space' = loaded + 1 /\ loaded \in 0 .. B - 1
          /\ UNCHANGED <<buf, read, write>>
          /\ raced' = (raced \/ loaded # space)
          /\ unread' = IF raced' THEN <<>> ELSE unread
        BY <1>3 DEF GetKeyStore, Main, RingInv
    <2>2. SpaceInRange'
        BY <2>1 DEF SpaceInRange, B
    <2>3. ASSUME ~raced' PROVE ~raced /\ Held' = Held /\ unread' = unread
        <3>1. ~raced /\ loaded = space /\ unread' = unread
            BY <2>1, <2>3
        <3>2. Held = B - space - 1
            BY <2>1 DEF Held, B
        <3>3. Held' = B - space' - 0
            BY <2>1 DEF Held, B
        <3>4. QED
            BY <2>1, <3>1, <3>2, <3>3
    <2>4. KeysInOrder'
        BY <2>1, <2>3 DEF RingInv, KeysInOrder
    <2>5. QED
        BY <2>1, <2>2, <2>3, <2>4 DEF RingInv
<1>4. QED
    BY <1>1, <1>2, <1>3

LEMMA RingStep ==
    ASSUME TypeOK, RingInv, [Next]_vars
    PROVE  RingInv'
<1>1. ASSUME UNCHANGED <<ring, getter, pc>> PROVE RingInv'
    <2>1. Held' = Held
        BY <1>1 DEF Held, ring
    <2>2. QED
        BY <1>1, <2>1, RingKept DEF getter, RingInv
\* the main code goes from a step outside keyb_get_key to another one
<1>2. ASSUME UNCHANGED <<ring, loaded, raced>>, pc \notin {"load", "store"},
             pc' \notin {"read", "load", "store"}
      PROVE  RingInv'
    <2>1. Held' = Held
        BY <1>2 DEF Held, ring
    <2>2. QED
        BY <1>2, <2>1, RingKept
<1>3. CASE Hardware
    BY <1>1, <1>3 DEF Hardware, Tick, KeyStroke, OtherIrq, cpu
<1>4. ASSUME NEW i \in Lines, Interrupt(i) PROVE RingInv'
    BY <1>1, <1>4 DEF Interrupt
<1>5. CASE IsrCli \/ IsrIret \/ UserRuns \/ UNCHANGED vars
    BY <1>1, <1>5 DEF IsrCli, IsrIret, UserRuns, vars, cpu
<1>6. CASE IsrHandle
    <2>1. CASE kbd \in Keys /\ KeyAccepted(kbd)
        BY <1>6, <2>1, AcceptStep DEF IsrHandle, getter
    <2>2. CASE UNCHANGED ring
        BY <1>1, <1>6, <2>2 DEF IsrHandle
    <2>3. QED
        BY <1>6, <2>1, <2>2 DEF IsrHandle, timer_handler, keyboard_handler
<1>7. CASE Sti \/ SleepBegin \/ SleepPoll \/ SyscallIret
    BY <1>2, <1>7 DEF Sti, SleepBegin, SleepPoll, SyscallIret, Main, getter
<1>8. CASE CallGetKey \/ \E n \in Durations : CallSleep(n)
    BY <1>2, <1>8 DEF CallGetKey, CallSleep, Int48, Main, getter
<1>9. CASE GetKeyTest \/ GetKeyRead \/ GetKeyLoad \/ GetKeyStore
    BY <1>9, ReadStep, GetKeyStep
<1>10. QED
    BY <1>3, <1>4, <1>5, <1>6, <1>7, <1>8, <1>9 DEF Next, Processor, Application

---------------------------------------------------------------------------
(* Type correctness.                                                       *)

\* The types of the hardware, of the main code, and of the data.
TypeCpu ==
    /\ iflag \in BOOLEAN /\ userif \in BOOLEAN /\ raced \in BOOLEAN
    /\ pc \in {"boot", "user", "test", "read", "load", "store", "begin", "poll", "iret"}
    /\ isrs \in Seq(Frames)
TypePic ==
    /\ irr \subseteq Lines /\ quiet \subseteq Lines
    /\ master \subseteq 0 .. 7 /\ slave \subseteq 8 .. 15
    /\ kbd \in Scancodes \union {NoKey}
TypeRing ==
    /\ buf \in [0 .. B - 1 -> Keys \union {NoKey}]
    /\ read \in 0 .. B - 1 /\ write \in 0 .. B - 1
    /\ space \in Int /\ loaded \in Int
    /\ key \in Keys \union {NoKey}
    /\ unread \in Seq(Keys)
TypeTime ==
    /\ ticks \in 0 .. TickRange - 1 /\ start \in 0 .. TickRange - 1
    /\ ms \in Nat /\ slept \in Nat

LEMMA TypeCpuStep ==
    ASSUME TypeOK, FlagInv, FlagInv', [Next]_vars
    PROVE  TypeCpu'
<1>1. isrs' \in Seq(Frames)
    <2>1. CASE isrs' = <<>>
        BY <2>1
    <2>2. CASE \E f \in Frames : isrs' = <<f>>
        BY <2>2
    <2>3. QED
        BY <2>1, <2>2 DEF FlagInv
<1>2. ASSUME UNCHANGED <<iflag, userif, raced, pc>> PROVE TypeCpu'
    BY <1>1, <1>2 DEF TypeOK, TypeCpu
<1>3. CASE Hardware
    BY <1>2, <1>3 DEF Hardware, Tick, KeyStroke, OtherIrq, cpu, getter
<1>4. CASE \E i \in Lines : Interrupt(i)
    BY <1>1, <1>4 DEF Interrupt, FlagAfter, TypeOK, TypeCpu, getter
<1>5. CASE IsrCli \/ IsrHandle \/ UserRuns \/ UNCHANGED vars
    BY <1>1, <1>5 DEF IsrCli, IsrHandle, UserRuns, vars, cpu, getter, TypeOK, TypeCpu
<1>6. CASE IsrIret
    <2>1. Top.flag \in BOOLEAN
        BY <1>6, OneHandler DEF IsrIret, At, Frames
    <2>2. QED
        BY <1>1, <1>6, <2>1 DEF IsrIret, getter, TypeOK, TypeCpu
<1>7. CASE Sti \/ GetKeyTest \/ GetKeyRead \/ GetKeyLoad \/ SleepBegin \/ SleepPoll
           \/ SyscallIret
    BY <1>1, <1>7 DEF Sti, GetKeyTest, GetKeyRead, GetKeyLoad, SleepBegin, SleepPoll,
                      SyscallIret, getter, TypeOK, TypeCpu
<1>8. CASE GetKeyStore
    BY <1>1, <1>8 DEF GetKeyStore, TypeOK, TypeCpu
<1>9. CASE CallGetKey \/ \E n \in Durations : CallSleep(n)
    BY <1>1, <1>9 DEF CallGetKey, CallSleep, Int48, FlagAfter, getter, TypeOK, TypeCpu
<1>10. QED
    BY <1>3, <1>4, <1>5, <1>6, <1>7, <1>8, <1>9 DEF Next, Processor, Application

LEMMA TypePicStep ==
    ASSUME TypeOK, FlagInv, [Next]_vars
    PROVE  TypePic'
<1>1. ASSUME UNCHANGED <<pic, kbd>>, quiet' \in {quiet, Lines} PROVE TypePic'
    BY <1>1 DEF TypeOK, TypePic, pic
<1>2. CASE Hardware
    BY <1>2 DEF Hardware, Tick, KeyStroke, OtherIrq, TypeOK, TypePic
<1>3. ASSUME NEW i \in Lines, Interrupt(i) PROVE TypePic'
    <2>1. i \in 0 .. 15
        BY InterruptsAssumption
    <2>2. Level(i) \in 0 .. 7 /\ (i > 7 => i \in 8 .. 15)
        BY <2>1 DEF Level
    <2>3. QED
        BY <1>3, <2>2 DEF Interrupt, TypeOK, TypePic
<1>4. CASE IsrHandle
    BY <1>4 DEF IsrHandle, timer_handler, keyboard_handler, pic_eoi, Ended, TypeOK, TypePic
<1>5. CASE IsrCli \/ IsrIret \/ UNCHANGED vars
    BY <1>1, <1>5 DEF IsrCli, IsrIret, vars, pic
<1>6. CASE \/ Sti \/ GetKeyTest \/ GetKeyRead \/ GetKeyLoad \/ GetKeyStore
           \/ SleepBegin \/ SleepPoll \/ SyscallIret \/ Application
    BY <1>1, <1>6 DEF Sti, GetKeyTest, GetKeyRead, GetKeyLoad, GetKeyStore, SleepBegin,
                      SleepPoll, SyscallIret, Application, UserRuns, CallGetKey, CallSleep,
                      Int48, Main
<1>7. QED
    BY <1>2, <1>3, <1>4, <1>5, <1>6 DEF Next, Processor

LEMMA TypeRingStep ==
    ASSUME TypeOK, RingInv, [Next]_vars
    PROVE  TypeRing'
<1>1. ASSUME UNCHANGED <<ring, getter>> PROVE TypeRing'
    BY <1>1 DEF TypeOK, TypeRing, ring, getter, B
<1>2. CASE Hardware
    BY <1>1, <1>2 DEF Hardware, Tick, KeyStroke, OtherIrq
<1>3. CASE (\E i \in Lines : Interrupt(i)) \/ IsrCli \/ IsrIret \/ UNCHANGED vars
    BY <1>1, <1>3 DEF Interrupt, IsrCli, IsrIret, vars
<1>4. CASE IsrHandle
    <2>1. CASE kbd \in Keys /\ KeyAccepted(kbd)
        BY <1>4, <2>1, AcceptStep DEF IsrHandle, getter, TypeOK, TypeRing
    <2>2. CASE UNCHANGED ring
        BY <1>1, <1>4, <2>2 DEF IsrHandle
    <2>3. QED
        BY <1>4, <2>1, <2>2 DEF IsrHandle, timer_handler, keyboard_handler
<1>5. CASE Sti \/ GetKeyTest \/ SleepBegin \/ SleepPoll \/ Application
    BY <1>1, <1>5 DEF Sti, GetKeyTest, SleepBegin, SleepPoll, Application, UserRuns,
                      CallGetKey, CallSleep, Int48
<1>6. CASE GetKeyRead
    BY <1>6, ReadStep DEF GetKeyRead, TypeOK, TypeRing, B
<1>7. CASE GetKeyLoad
    BY <1>7 DEF GetKeyLoad, ring, TypeOK, TypeRing, B
<1>8. CASE GetKeyStore
    BY <1>8 DEF GetKeyStore, TypeOK, TypeRing, B
<1>9. CASE SyscallIret
    BY <1>9 DEF SyscallIret, ring, TypeOK, TypeRing, B
<1>10. QED
    BY <1>2, <1>3, <1>4, <1>5, <1>6, <1>7, <1>8, <1>9 DEF Next, Processor

LEMMA TypeTimeStep ==
    ASSUME TypeOK, [Next]_vars
    PROVE  TypeTime'
<1>1. ASSUME UNCHANGED <<ticks, sleeper>> PROVE TypeTime'
    BY <1>1 DEF TypeOK, TypeTime, sleeper
<1>2. CASE Hardware
    BY <1>1, <1>2 DEF Hardware, Tick, KeyStroke, OtherIrq
<1>3. CASE (\E i \in Lines : Interrupt(i)) \/ IsrCli \/ IsrIret \/ UNCHANGED vars
    BY <1>1, <1>3 DEF Interrupt, IsrCli, IsrIret, vars
<1>4. CASE IsrHandle
    <2>1. CASE timer_handler
        BY <2>1, Sizes, TickElapsed DEF timer_handler, TypeOK, TypeTime
    <2>2. CASE UNCHANGED <<ticks, sleeper>>
        BY <1>1, <2>2
    <2>3. QED
        BY <1>4, <2>1, <2>2 DEF IsrHandle, keyboard_handler
<1>5. CASE Sti \/ GetKeyTest \/ GetKeyRead \/ GetKeyLoad \/ GetKeyStore \/ SleepPoll
           \/ UserRuns \/ CallGetKey
    BY <1>1, <1>5 DEF Sti, GetKeyTest, GetKeyRead, GetKeyLoad, GetKeyStore, SleepPoll,
                      UserRuns, CallGetKey, Int48
<1>6. CASE \E n \in Durations : CallSleep(n)
    BY <1>6, InterruptsAssumption DEF CallSleep, Int48, TypeOK, TypeTime
<1>7. CASE SleepBegin \/ SyscallIret
    BY <1>7, Sizes DEF SleepBegin, SyscallIret, TypeOK, TypeTime
<1>8. QED
    BY <1>2, <1>3, <1>4, <1>5, <1>6, <1>7 DEF Next, Processor, Application

---------------------------------------------------------------------------
(* timer_sleep.                                                            *)

\* The timer counts while timer_sleep polls.
LEMMA TickStep ==
    ASSUME TypeOK, SleepInv, timer_handler, UNCHANGED pc
    PROVE  SleepInv'
<1> USE Sizes
<1>1. ticks \in 0 .. TickRange - 1 /\ start \in 0 .. TickRange - 1 /\ slept \in Nat
    BY DEF TypeOK
<1>2. UNCHANGED <<start, ms>>
    BY DEF timer_handler
<1>3. ASSUME pc = "poll" PROVE Elapsed' <= slept'
    <2>1. Elapsed <= slept /\ slept' = IF slept < TickRange THEN slept + 1 ELSE slept
        BY <1>3 DEF SleepInv, timer_handler
    <2>2. Elapsed' = (((ticks + 1) % TickRange) - start) % TickRange
        BY <1>2 DEF Elapsed, timer_handler
    <2>3. Elapsed' <= Elapsed + 1
        BY <1>1, <2>2, TickElapsed DEF Elapsed
    <2>4. Elapsed' \in 0 .. TickRange - 1 /\ Elapsed \in 0 .. TickRange - 1
        BY <1>1, <2>2, TickElapsed DEF Elapsed
    <2>5. QED
        BY <1>1, <2>1, <2>3, <2>4
<1>4. pc # "poll" => slept' = slept
    BY DEF timer_handler
<1>5. QED
    BY <1>2, <1>3, <1>4 DEF SleepInv, SleepsLongEnough

LEMMA PollStep ==
    ASSUME TypeOK, SleepInv, SleepPoll
    PROVE  SleepInv'
<1> USE Sizes
<1>1. pc = "poll" /\ UNCHANGED <<ticks, start, ms, slept>>
    BY DEF SleepPoll, Main, sleeper
<1>2. Elapsed \in 0 .. TickRange - 1 /\ Elapsed' = Elapsed /\ Elapsed <= slept
    BY <1>1, TickElapsed DEF Elapsed, TypeOK, SleepInv
<1>3. ASSUME pc' = "iret" PROVE slept * 1000 >= ms * Freq
    <2>1. ms \in Nat /\ slept \in Nat /\ Elapsed * 1000 \in Nat
        BY <1>2 DEF TypeOK
    <2>2. ~((Elapsed * 1000) \div Freq < ms)
        BY <1>3 DEF SleepPoll
    <2>3. ms <= (Elapsed * 1000) \div Freq
        BY <2>1, <2>2
    <2>4. ms * Freq <= Elapsed * 1000
        BY <2>1, <2>3, Milliseconds
    <2>5. Elapsed * 1000 <= slept * 1000
        BY <1>2, <2>1
    <2>6. ms * Freq \in Nat /\ slept * 1000 \in Nat
        BY <2>1
    <2>7. QED
        BY <2>1, <2>4, <2>5, <2>6
<1>4. pc' \in {"poll", "iret"}
    BY DEF SleepPoll
<1>5. QED
    BY <1>1, <1>2, <1>3, <1>4 DEF SleepInv, SleepsLongEnough

LEMMA SleepStep ==
    ASSUME TypeOK, SleepInv, [Next]_vars
    PROVE  SleepInv'
<1>1. ASSUME UNCHANGED <<pc, ticks, sleeper>> PROVE SleepInv'
    BY <1>1 DEF SleepInv, SleepsLongEnough, Elapsed, sleeper
<1>2. CASE Hardware
    BY <1>1, <1>2 DEF Hardware, Tick, KeyStroke, OtherIrq, cpu
<1>3. CASE (\E i \in Lines : Interrupt(i)) \/ IsrCli \/ IsrIret \/ UserRuns \/ UNCHANGED vars
    BY <1>1, <1>3 DEF Interrupt, IsrCli, IsrIret, UserRuns, vars, cpu
<1>4. CASE IsrHandle
    <2>1. CASE timer_handler
        BY <1>4, <2>1, TickStep DEF IsrHandle
    <2>2. CASE UNCHANGED <<ticks, sleeper>>
        BY <1>1, <1>4, <2>2 DEF IsrHandle
    <2>3. QED
        BY <1>4, <2>1, <2>2 DEF IsrHandle, keyboard_handler
\* outside timer_sleep its argument is 0
<1>5. CASE Sti \/ GetKeyTest \/ GetKeyRead \/ GetKeyLoad \/ GetKeyStore \/ CallGetKey
    BY <1>5 DEF Sti, GetKeyTest, GetKeyRead, GetKeyLoad, GetKeyStore, CallGetKey, Int48,
                Main, sleeper, SleepInv, SleepsLongEnough
<1>6. CASE (\E n \in Durations : CallSleep(n)) \/ SyscallIret
    BY <1>6 DEF CallSleep, Int48, SyscallIret, SleepInv, SleepsLongEnough
<1>7. CASE SleepBegin
    <2>1. Elapsed' = 0 /\ slept' = 0 /\ pc' = "poll"
        BY <1>7, Sizes DEF SleepBegin, Elapsed, TypeOK
    <2>2. QED
        BY <2>1 DEF SleepInv, SleepsLongEnough
<1>8. QED
    BY <1>2, <1>3, <1>4, <1>5, <1>6, <1>7, PollStep DEF Next, Processor, Application

---------------------------------------------------------------------------
(* The theorems.                                                           *)

\* The strengthened invariant holds in every reachable state, for every size of
\* the keyboard buffer, range of the ticks, timer frequency and set of lines.
THEOREM InterruptsInvariant == Spec => []IInv
<1>1. Init => IInv
    BY InitInvariant
<1>2. IInv /\ [Next]_vars => IInv'
    <2> SUFFICES ASSUME IInv, [Next]_vars PROVE IInv'
        OBVIOUS
    <2> USE DEF IInv
    <2>1. FlagInv'
        BY FlagStep
    <2>2. RingInv'
        BY RingStep
    <2>3. SleepInv'
        BY SleepStep
    <2>4. TypeCpu' /\ TypePic' /\ TypeRing' /\ TypeTime'
        BY <2>1, TypeCpuStep, TypePicStep, TypeRingStep, TypeTimeStep
    <2>5. TypeOK'
        BY <2>4 DEF TypeOK, TypeCpu, TypePic, TypeRing, TypeTime, B
    <2>6. QED
        BY <2>1, <2>2, <2>3, <2>5
<1>3. QED
    BY <1>1, <1>2, PTL DEF Spec

\* The indexes of the buffer, the PICs' levels and the ticks keep their types
\* (keyboard.c:72-112, pic.c:39-45, timer.c:11-21).
THEOREM InterruptsTypeCorrect == Spec => []TypeOK
<1>1. IInv => TypeOK
    BY DEF IInv
<1>2. QED
    BY <1>1, InterruptsInvariant, PTL

\* A handler never interrupts another one, although the end of interrupt is sent
\* before the handler runs (idt.c:171-180, idt_asm.s:31-38).
THEOREM HandlersDoNotNest == Spec => []HandlersNotNested
<1>1. IInv => HandlersNotNested
    BY FlagImplies DEF IInv
<1>2. QED
    BY <1>1, InterruptsInvariant, PTL

\* The keyboard buffer is a queue of the keys pressed as long as the handler does
\* not run between the load and the store of buf_space_left in keyb_get_key.
THEOREM BufferIsQueue == Spec => []KeysInOrder
<1>1. IInv => KeysInOrder
    BY DEF IInv, RingInv
<1>2. QED
    BY <1>1, InterruptsInvariant, PTL

\* Even when it does, buf_space_left stays between 0 and the size of the buffer.
THEOREM SpaceStaysInRange == Spec => []SpaceInRange
<1>1. IInv => SpaceInRange
    BY DEF IInv, RingInv
<1>2. QED
    BY <1>1, InterruptsInvariant, PTL

\* timer_sleep never returns early, whenever the counter of the ticks wraps around.
THEOREM SleepNeverShort == Spec => []SleepsLongEnough
<1>1. IInv => SleepsLongEnough
    BY DEF IInv, SleepInv
<1>2. QED
    BY <1>1, InterruptsInvariant, PTL
=============================================================================
