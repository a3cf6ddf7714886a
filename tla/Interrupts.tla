----------------------------- MODULE Interrupts -----------------------------
(***************************************************************************)
(* Interrupts of YoctOS: the gates of the IDT and the ISR wrappers         *)
(* (interrupt/idt.c, idt_asm.s), the two PICs (drivers/pic.c), the timer   *)
(* and keyboard handlers, and the two system calls that poll what they     *)
(* write: keyb_get_key and timer_sleep (syscall/syscall.c).                *)
(*                                                                         *)
(* One processor runs the main code - kernel_main, then an application and *)
(* its system calls - one instruction that matters at a time.  While       *)
(* interrupts are enabled it takes a requested interrupt before its next   *)
(* instruction; isrs is the stack of handlers that interrupted one another.*)
(***************************************************************************)
EXTENDS Integers, Sequences

CONSTANTS
    BUFFER_SIZE,    \* keys in the buffer of the keyboard driver (16)
    TickRange,      \* 2^32: ticks are counted modulo this number
    Freq,           \* frequency of the timer in Hz
    Durations,      \* milliseconds an application sleeps
    Keys,           \* keys of the keymap
    Lines           \* IRQ lines that are raised; 0 timer, 1 keyboard

Released == "released"      \* a scan code that is no key: a release, a shift
NoKey    == "none"
Scancodes == Keys \union {Released}

ASSUME InterruptsAssumption ==
    /\ BUFFER_SIZE \in Nat \ {0} /\ TickRange \in Nat \ {0} /\ Freq \in Nat \ {0}
    /\ Durations \subseteq Nat
    /\ \A ms \in Durations : ms * Freq <= 1000 * (TickRange - 1)
    /\ Lines \subseteq 0 .. 15
    /\ Keys \intersect {Released, NoKey} = {}

VARIABLES
    iflag,      \* the interrupt flag of the processor
    pc,         \* the next instruction of the main code
    userif,     \* the flag saved when the system call was entered
    isrs,       \* the handlers on the stack, each with the flag it saved
    irr,        \* lines whose interrupt is requested
    master,     \* levels in service in the master PIC
    slave,      \* levels in service in the slave PIC
    kbd,        \* the scan code in the keyboard controller
    buf,        \* buf of the keyboard driver
    read,       \* its index of the next key to read
    write,      \* its index of the next key to write
    space,      \* its buf_space_left
    loaded,     \* buf_space_left in the register of keyb_get_key
    key,        \* the value keyb_get_key returns
    ticks,      \* the ticks of the timer
    start,      \* local of timer_sleep
    ms,         \* argument of timer_sleep
    quiet,      \* lines that may be raised before the main code has run again
    unread,     \* history: the keys accepted and not yet returned
    raced,      \* history: keyb_get_key overwrote a change of buf_space_left
    slept       \* history: timer interrupts handled since timer_sleep began

cpu == <<iflag, pc, userif, isrs>>
pic == <<irr, master, slave>>
ring == <<buf, read, write, space, unread>>
getter == <<loaded, key, raced>>
sleeper == <<start, ms, slept>>
vars == <<cpu, pic, kbd, ring, getter, ticks, sleeper, quiet>>

Handling == isrs # <<>>
Top == isrs[Len(isrs)]

---------------------------------------------------------------------------
(* The IDT and the PICs.                                                   *)

\* Variant: the system call has an interrupt gate, as the other entries do.
GateAllInterrupt(n) == "interrupt"

\* Variant: hardware interrupts have trap gates.
GateAllTrap(n) == "trap"

\* idt_init: an interrupt gate for each IRQ (32-47), a trap gate for entry 48.
Gate(n) == IF n = 48 THEN "trap" ELSE "interrupt"

\* Through an interrupt gate the processor clears the flag; a trap gate keeps it.
FlagAfter(n) == iflag /\ Gate(n) = "trap"

\* The slave PIC is cascaded on line 2 of the master.
Level(i) == IF i > 7 THEN 2 ELSE i

\* A PIC passes a request on when no level of the same or a higher priority is
\* in service.
Requests(i) ==
    /\ i \in irr
    /\ \A l \in master : Level(i) < l
    /\ i > 7 => \A l \in slave : i < l

Interrupted == iflag /\ \E i \in Lines : Requests(i)

\* The main code runs: no handler is active, no interrupt is taken first, and
\* each line may be raised again.
Main(from) == pc = from /\ ~Handling /\ ~Interrupted /\ quiet' = Lines

\* The non-specific end of interrupt: the level of highest priority.
Ended(levels) == {l \in levels : \E k \in levels : k < l}

Init ==
    /\ iflag = FALSE
    /\ pc = "boot"
    /\ userif = FALSE
    /\ isrs = <<>>
    /\ irr = {} /\ master = {} /\ slave = {}
    /\ kbd = NoKey
    /\ buf = [n \in 0 .. BUFFER_SIZE - 1 |-> NoKey]
    /\ read = 0 /\ write = 0 /\ space = BUFFER_SIZE
    /\ loaded = 0
    /\ key = NoKey
    /\ ticks = 0
    /\ start = 0 /\ ms = 0
    /\ quiet = Lines
    /\ unread = <<>> /\ raced = FALSE /\ slept = 0

---------------------------------------------------------------------------
(* The hardware.  The timer interval and the time between keys are long    *)
(* enough for the main code to execute an instruction: between two of them *)
(* each line is raised at most once.                                       *)

\* The timer reaches the end of its interval.
Tick ==
    /\ 0 \in quiet
    /\ irr' = irr \union {0}
    /\ quiet' = quiet \ {0}
    /\ UNCHANGED <<cpu, master, slave, kbd, ring, getter, ticks, sleeper>>

\* The keyboard controller receives a scan code; it holds one at a time.
KeyStroke(code) ==
    /\ 1 \in quiet /\ kbd = NoKey
    /\ kbd' = code
    /\ irr' = irr \union {1}
    /\ quiet' = quiet \ {1}
    /\ UNCHANGED <<cpu, master, slave, ring, getter, ticks, sleeper>>

\* A device without a driver raises its line: no line is masked by pic_init.
OtherIrq(i) ==
    /\ i \in quiet \ {0, 1}
    /\ irr' = irr \union {i}
    /\ quiet' = quiet \ {i}
    /\ UNCHANGED <<cpu, master, slave, kbd, ring, getter, ticks, sleeper>>

\* The processor takes the requested interrupt of highest priority and pushes
\* its flags; entry 32 + i of the IDT leads to _irq<i>.
Interrupt(i) ==
    /\ iflag /\ Requests(i)
    /\ \A j \in Lines : Requests(j) =>
        Level(i) < Level(j) \/ (Level(i) = Level(j) /\ i <= j)
    /\ irr' = irr \ {i}
    /\ master' = master \union {Level(i)}
    /\ slave' = IF i > 7 THEN slave \union {i} ELSE slave
    /\ isrs' = Append(isrs, [irq |-> i, at |-> "cli", flag |-> iflag])
    /\ iflag' = FlagAfter(32 + i)
    /\ UNCHANGED <<pc, userif, kbd, ring, getter, ticks, sleeper, quiet>>

---------------------------------------------------------------------------
(* The handlers: _irq<i>, irq_wrapper, irq_handler.                        *)

At(step) == Handling /\ ~Interrupted /\ Top.at = step
Goto(step) == isrs' = [isrs EXCEPT ![Len(isrs)].at = step]

IsrCli ==
    /\ At("cli")
    /\ iflag' = FALSE
    /\ Goto("handle")
    /\ UNCHANGED <<pc, userif, pic, kbd, ring, getter, ticks, sleeper, quiet>>

\* Variant: the slave PIC is not told.
pic_eoi_master(irq) == master' = Ended(master) /\ UNCHANGED slave

pic_eoi(irq) ==
    /\ slave' = IF irq > 7 THEN Ended(slave) ELSE slave
    /\ master' = Ended(master)

\* The handler of the timer counts a tick (and draws the logo).
timer_handler ==
    /\ ticks' = (ticks + 1) % TickRange
    /\ slept' = IF pc = "poll" /\ slept < TickRange THEN slept + 1 ELSE slept
    /\ UNCHANGED <<kbd, ring, start, ms>>

\* Variant: the handler does not test that there is room.
KeyAcceptedAlways(code) ==
    /\ buf' = [buf EXCEPT ![write] = code]
    /\ write' = (write + 1) % BUFFER_SIZE
    /\ space' = space - 1
    /\ unread' = IF raced THEN <<>> ELSE Append(unread, code)
    /\ UNCHANGED read

\* Variant: the index does not wrap around.
KeyAcceptedNoWrap(code) ==
    IF space = 0
    THEN UNCHANGED ring
    ELSE /\ buf' = [buf EXCEPT ![write] = code]
         /\ write' = write + 1
         /\ space' = space - 1
         /\ unread' = IF raced THEN <<>> ELSE Append(unread, code)
         /\ UNCHANGED read

\* The key is stored, or dropped with a message when the buffer is full.
KeyAccepted(code) ==
    IF space = 0
    THEN UNCHANGED ring
    ELSE /\ buf' = [buf EXCEPT ![write] = code]
         /\ write' = (write + 1) % BUFFER_SIZE
         /\ space' = space - 1
         /\ unread' = IF raced THEN <<>> ELSE Append(unread, code)
         /\ UNCHANGED read

\* Variant: the scan code stays in the controller when the buffer is full.
keyboard_handler_unread ==
    /\ IF kbd \in Keys /\ space > 0 THEN KeyAccepted(kbd) ELSE UNCHANGED ring
    /\ kbd' = IF space = 0 THEN kbd ELSE NoKey
    /\ UNCHANGED <<ticks, sleeper>>

\* The handler of the keyboard reads the scan code from the controller.
keyboard_handler ==
    /\ IF kbd \in Keys THEN KeyAccepted(kbd) ELSE UNCHANGED ring
    /\ kbd' = NoKey
    /\ UNCHANGED <<ticks, sleeper>>

\* irq_handler tells the PICs that the interrupt was handled, then calls the
\* installed handler, if there is one.
IsrHandle ==
    /\ At("handle")
    /\ pic_eoi(Top.irq)
    /\ \/ Top.irq = 0 /\ timer_handler
       \/ Top.irq = 1 /\ keyboard_handler
       \/ Top.irq \notin {0, 1} /\ UNCHANGED <<kbd, ring, ticks, sleeper>>
    /\ Goto("iret")
    /\ UNCHANGED <<iflag, pc, userif, irr, getter, quiet>>

IsrIret ==
    /\ At("iret")
    /\ iflag' = Top.flag
    /\ isrs' = SubSeq(isrs, 1, Len(isrs) - 1)
    /\ UNCHANGED <<pc, userif, pic, kbd, ring, getter, ticks, sleeper, quiet>>

---------------------------------------------------------------------------
(* The main code.                                                          *)

\* kernel_main enables interrupts, then an application runs.
Sti ==
    /\ Main("boot")
    /\ iflag' = TRUE
    /\ pc' = "user"
    /\ UNCHANGED <<userif, isrs, pic, kbd, ring, getter, ticks, sleeper>>

\* The application computes.
UserRuns ==
    /\ Main("user")
    /\ UNCHANGED <<cpu, pic, kbd, ring, getter, ticks, sleeper>>

\* int 48 with number 2 or 4: the handler calls keyb_get_key or timer_sleep.
Int48(function) ==
    /\ Main("user")
    /\ userif' = iflag
    /\ iflag' = FlagAfter(48)
    /\ pc' = function
    /\ UNCHANGED <<isrs, pic, kbd, ring, getter, ticks>>

CallGetKey == Int48("test") /\ UNCHANGED sleeper
CallSleep(n) == Int48("begin") /\ ms' = n /\ UNCHANGED <<start, slept>>

\* keyb_get_key returns 0 when it finds the buffer empty; otherwise ...
GetKeyTest ==
    /\ Main("test")
    /\ pc' = IF space = BUFFER_SIZE THEN "iret" ELSE "read"
    /\ UNCHANGED <<iflag, userif, isrs, pic, kbd, ring, getter, ticks, sleeper>>

\* Variant: the index of the next key does not move.
GetKeyReadAgain ==
    /\ Main("read")
    /\ key' = buf[read]
    /\ unread' = IF raced THEN <<>> ELSE Tail(unread)
    /\ pc' = "load"
    /\ UNCHANGED <<iflag, userif, isrs, pic, kbd, buf, read, write, space, loaded, raced,
                   ticks, sleeper>>

\* ... it takes the key at its index and advances the index, ...
GetKeyRead ==
    /\ Main("read")
    /\ key' = buf[read]
    /\ read' = (read + 1) % BUFFER_SIZE
    /\ unread' = IF raced THEN <<>> ELSE Tail(unread)
    /\ pc' = "load"
    /\ UNCHANGED <<iflag, userif, isrs, pic, kbd, buf, write, space, loaded, raced, ticks,
                   sleeper>>

\* ... loads the room left, and stores it increased by one.
GetKeyLoad ==
    /\ Main("load")
    /\ loaded' = space
    /\ pc' = "store"
    /\ UNCHANGED <<iflag, userif, isrs, pic, kbd, ring, key, raced, ticks, sleeper>>

GetKeyStore ==
    /\ Main("store")
    /\ space' = loaded + 1
    /\ raced' = (raced \/ loaded # space)
    /\ unread' = IF raced' THEN <<>> ELSE unread
    /\ loaded' = 0
    /\ pc' = "iret"
    /\ UNCHANGED <<iflag, userif, isrs, pic, kbd, buf, read, write, key, ticks, sleeper>>

\* timer_sleep notes the time, ...
SleepBegin ==
    /\ Main("begin")
    /\ start' = ticks
    /\ slept' = 0
    /\ pc' = "poll"
    /\ UNCHANGED <<iflag, userif, isrs, pic, kbd, ring, getter, ticks, ms>>

\* Variant: the difference of the times is negative after ticks wrapped around.
ElapsedAbsolute == IF ticks >= start THEN ticks - start ELSE start - ticks

\* The ticks since then, in the arithmetic of an unsigned int.
Elapsed == (ticks - start) % TickRange

\* ... and polls until enough milliseconds have passed.
SleepPoll ==
    /\ Main("poll")
    /\ pc' = IF (Elapsed * 1000) \div Freq < ms THEN "poll" ELSE "iret"
    /\ UNCHANGED <<iflag, userif, isrs, pic, kbd, ring, getter, ticks, sleeper>>

\* The system call returns to the application.
SyscallIret ==
    /\ Main("iret")
    /\ iflag' = userif
    /\ pc' = "user"
    /\ key' = NoKey
    /\ start' = 0 /\ ms' = 0 /\ slept' = 0
    /\ UNCHANGED <<userif, isrs, pic, kbd, ring, loaded, raced, ticks>>

---------------------------------------------------------------------------
Hardware ==
    \/ Tick
    \/ \E code \in Scancodes : KeyStroke(code)
    \/ \E i \in Lines : OtherIrq(i)

\* What the processor does by itself.
Processor ==
    \/ \E i \in Lines : Interrupt(i)
    \/ IsrCli \/ IsrHandle \/ IsrIret
    \/ Sti \/ GetKeyTest \/ GetKeyRead \/ GetKeyLoad \/ GetKeyStore
    \/ SleepBegin \/ SleepPoll \/ SyscallIret

\* What an application chooses to do.
Application == UserRuns \/ CallGetKey \/ \E n \in Durations : CallSleep(n)

Next == Hardware \/ Processor \/ Application

\* The processor executes kernel code and takes interrupts, and the timer runs.
Spec == Init /\ [][Next]_vars /\ WF_vars(Processor) /\ WF_vars(Tick)
---------------------------------------------------------------------------
(* Properties.                                                             *)

Frames == [irq : Lines, at : {"cli", "handle", "iret"}, flag : BOOLEAN]

\* Every variable has its type; the indexes stay within the buffer.
TypeOK ==
    /\ iflag \in BOOLEAN /\ userif \in BOOLEAN /\ raced \in BOOLEAN
    /\ pc \in {"boot", "user", "test", "read", "load", "store", "begin", "poll", "iret"}
    /\ isrs \in Seq(Frames)
    /\ irr \subseteq Lines /\ quiet \subseteq Lines
    /\ master \subseteq 0 .. 7 /\ slave \subseteq 8 .. 15
    /\ kbd \in Scancodes \union {NoKey}
    /\ buf \in [0 .. BUFFER_SIZE - 1 -> Keys \union {NoKey}]
    /\ read \in 0 .. BUFFER_SIZE - 1 /\ write \in 0 .. BUFFER_SIZE - 1
    /\ space \in Int /\ loaded \in Int
    /\ key \in Keys \union {NoKey}
    /\ ticks \in 0 .. TickRange - 1 /\ start \in 0 .. TickRange - 1
    /\ ms \in Nat /\ slept \in Nat
    /\ unread \in Seq(Keys)

\* Handlers do not interrupt one another, although irq_handler tells the PICs
\* that it is done before it does anything: a kernel stack holds at most one
\* system call and one handler (idt.c:171-180, 213-215; idt_asm.s:31-38).
HandlersNotNested == Len(isrs) <= 1 /\ (Handling => ~iflag)

\* The buffer is a queue: it holds the accepted keys in the order in which they
\* were pressed, each one once, as long as no key arrived between the load and
\* the store of buf_space_left in keyb_get_key.
Held == BUFFER_SIZE - space - (IF pc \in {"load", "store"} THEN 1 ELSE 0)
KeysInOrder ==
    ~raced => unread = [n \in 1 .. Held |-> buf[(read + n - 1) % BUFFER_SIZE]]

\* Even then buf_space_left keeps a possible value: the two internal errors the
\* driver tests for never happen.
SpaceInRange == space \in 0 .. BUFFER_SIZE

\* timer_sleep returns after at least the ticks of ms milliseconds, also when
\* the counter of the ticks wraps around in the meantime (timer.h:12-13).
SleepsLongEnough ==
    pc = "iret" /\ ms > 0 => slept * 1000 >= ms * Freq

\* Every interrupt that is requested is taken: no PIC keeps a level in service
\* and the flag is never left cleared (pic.c:39-45, idt_asm.s:80-85).
InterruptsServed == \A i \in Lines : i \in irr ~> i \notin irr

\* The keyboard controller is emptied, or it would send nothing more.
ScancodesRead == kbd # NoKey ~> kbd = NoKey

\* A system call returns: keyb_get_key never blocks, and timer_sleep sees the
\* ticks it waits for, because entry 48 of the IDT leaves interrupts enabled
\* (idt.c:220; keyboard.h:7; timer.h:12-13).
SyscallsReturn == pc \notin {"boot", "user"} ~> pc = "user"

---------------------------------------------------------------------------
(* What keyboard.h says, and the program does not do.                      *)

\* keyboard.h:6: "Returns the key that was pressed or 0 if no key is present in
\* the internal buffer"; so keyb_get_key returns 0 only for an empty buffer.
ZeroMeansNoKey == pc = "test" /\ space = BUFFER_SIZE => read = write
=============================================================================
