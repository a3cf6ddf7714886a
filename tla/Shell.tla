------------------------------- MODULE Shell -------------------------------
(***************************************************************************)
(* The shell of YoctOS (user/shell.c) with the functions of the user       *)
(* library it is built from (user/ulibc.c, common/string.c), the dispatch  *)
(* of system calls (kernel/syscall/syscall.c) and the search of a module   *)
(* (kernel/boot/module_by_name.c).                                         *)
(*                                                                         *)
(* The line being typed is in the memory buf, which trim and tolower       *)
(* change in place.  Shells execute applications and other shells; of the  *)
(* shells that wait only the number is kept: that task_exec gives each one *)
(* its memory back is shown in Tasks.                                      *)
(***************************************************************************)
EXTENDS Integers, SequencesExt

CONSTANTS
    LINE_SIZE,      \* characters in buf of run (512)
    TAB_SIZE,       \* blanks for a tab (4)
    MAX_TASK_COUNT, \* tasks that may exist, suspended ones included
    UINT,           \* 2^32: the value of atoi is computed modulo this number
    CharOf,         \* the character a key is converted to, for each key but the three below
    Lower,          \* the lower case form of a character
    DigitOf,        \* the value of a character that is a digit
    HELP, SLEEP, TICKS, EXIT,   \* the words of the shell: "help", "sleep ", ...
    SHELL,          \* file name of the shell
    Modules,        \* the command lines of the modules, in the order of GRUB's menu
    MaxKeys         \* bound of the model: keys typed for one line, without Enter

Backspace == "backspace"
Tab       == "tab"
Blank     == " "
NUL       == "NUL"      \* the terminal 0 of a string
Stale     == "stale"    \* what was in buf before the line was typed

Keys  == DOMAIN CharOf
Chars == DOMAIN Lower
Addr  == 0 .. LINE_SIZE - 1

\* Every module has a command line: Makefile:92 gives it the name of its file,
\* so module_cmdline never returns NULL.
ASSUME ShellAssumption ==
    /\ LINE_SIZE \in Nat \ {0} /\ TAB_SIZE \in Nat /\ MAX_TASK_COUNT \in Nat \ {0}
    /\ UINT \in Nat \ {0} /\ MaxKeys \in Nat
    /\ CharOf \in [Keys -> Chars] /\ {Backspace, Tab} \intersect Keys = {}
    /\ Lower \in [Chars -> Chars] /\ Blank \in Chars /\ {NUL, Stale} \intersect Chars = {}
    /\ DOMAIN DigitOf \subseteq Chars /\ \A d \in DOMAIN DigitOf : DigitOf[d] \in 0 .. 9
    /\ {HELP, SLEEP, TICKS, EXIT, SHELL} \subseteq Seq(Chars)
    /\ Modules \in Seq(Seq(Chars)) /\ \A i \in DOMAIN Modules : Modules[i] # <<>>
    /\ Cardinality({<<>>, HELP, TICKS, EXIT}) = 4
    /\ SLEEP # <<>> /\ \A word \in {HELP, TICKS, EXIT} : ~IsPrefix(SLEEP, word)

VARIABLES
    at,         \* where the innermost shell is
    buf,        \* its buffer
    pos,        \* what read_string has stored in it
    line,       \* where the trimmed line begins
    job,        \* the command, and its argument
    depth,      \* shells that were executed and have not ended
    screen,     \* the characters right of the prompt
    typed       \* history: the keys of this line

vars == <<at, buf, pos, line, job, depth, screen, typed>>

NoJob == [does |-> "nothing", arg |-> <<>>]

---------------------------------------------------------------------------
(* System calls.                                                           *)

syscall_func == <<"puts", "set_colors", "get_key", "timer_info", "sleep", "fb_info",
                  "setpix", "exec", "putc", "mod_size", "addr_by_id">>

\* Variant: the bound of the numbers is one too small.
syscall_handlerShort(nb) == IF nb \in 0 .. 7 THEN syscall_func[nb + 1] ELSE "invalid"

\* The function a number stands for; 9 and 10 are refused, although they are in
\* the table.
syscall_handler(nb) == IF nb \in 0 .. 8 THEN syscall_func[nb + 1] ELSE "invalid"

\* putc: the terminal appends characters ...
Echo(cs) == screen' = IF syscall_handler(8) = "putc" THEN screen \o cs ELSE screen

\* ... and a backspace removes the last one.
EchoBackspace == screen' = IF syscall_handler(8) = "putc" THEN Front(screen) ELSE screen

---------------------------------------------------------------------------
(* Strings in memory.                                                      *)

\* Where the string at p ends: at its terminal 0, or where memory is not known.
End(mem, p) == Min({k \in p .. LINE_SIZE : k = LINE_SIZE \/ mem[k] \notin Chars})

IsString(mem, p) == End(mem, p) < LINE_SIZE /\ mem[End(mem, p)] = NUL

\* The string at p.
Str(mem, p) == [n \in 1 .. End(mem, p) - p |-> mem[p + n - 1]]

\* trim skips the heading blanks, ...
Skipped(mem, p) == Min({k \in p .. End(mem, p) : k = End(mem, p) \/ mem[k] # Blank})

\* Variant: the 0 replaces the last character that is not blank.
CutEarly(mem, p) ==
    IF Skipped(mem, p) = End(mem, p) \/ mem[End(mem, p) - 1] # Blank
    THEN mem
    ELSE [mem EXCEPT ![Max({k \in p .. End(mem, p) - 1 : mem[k] # Blank})] = NUL]

\* ... and puts a terminal 0 in the place of the first trailing one.
Cut(mem, p) ==
    IF Skipped(mem, p) = End(mem, p) \/ mem[End(mem, p) - 1] # Blank
    THEN mem
    ELSE [mem EXCEPT ![Max({k \in p .. End(mem, p) - 1 : mem[k] # Blank}) + 1] = NUL]

\* The string at p in lower case, in place.
tolower(mem, p) ==
    [k \in Addr |-> IF k \in p .. End(mem, p) - 1 THEN Lower[mem[k]] ELSE mem[k]]

\* The value of the digits a string begins with.
atoi(s) ==
    LET digits == Max({n \in 0 .. Len(s) : \A i \in 1 .. n : s[i] \in DOMAIN DigitOf})
        value[n \in 0 .. digits] ==
            IF n = 0 THEN 0 ELSE (value[n - 1] * 10 + DigitOf[s[n]]) % UINT
    IN  value[digits]

\* The callers of strcmp only compare its result with 0.
Same(s1, s2) == s1 = s2

starts_with(prefix, s) == IsPrefix(prefix, s)

\* The index of the first module with this command line, or -1.
mod_by_name(name) ==
    IF \E i \in DOMAIN Modules : Same(name, Modules[i])
    THEN Min({i \in DOMAIN Modules : Same(name, Modules[i])}) - 1
    ELSE -1

---------------------------------------------------------------------------
Init ==
    /\ at = "prompt"
    /\ buf = [k \in Addr |-> Stale]
    /\ pos = 0 /\ line = 0
    /\ job = NoJob
    /\ depth = 1
    /\ screen = <<>> /\ typed = <<>>

\* The shell prints its prompt and calls read_string.
Prompt ==
    /\ at = "prompt"
    /\ at' = "read"
    /\ buf' = [k \in Addr |-> Stale]
    /\ pos' = 0 /\ line' = 0
    /\ job' = NoJob
    /\ screen' = <<>> /\ typed' = <<>>
    /\ UNCHANGED depth

---------------------------------------------------------------------------
(* read_string.                                                            *)

Reading == at = "read" /\ UNCHANGED <<line, job, depth>>

\* The key is a new one of the line.
Typed(key) == Len(typed) < MaxKeys /\ typed' = Append(typed, key)

\* Characters are stored one after the other, without a test of the room in buf;
\* what happens when memory behind it is overwritten is not modelled.
Store(cs) ==
    IF pos + Len(cs) <= LINE_SIZE
    THEN /\ buf' = [k \in Addr |-> IF k \in pos .. pos + Len(cs) - 1
                                   THEN cs[k - pos + 1] ELSE buf[k]]
         /\ pos' = pos + Len(cs)
         /\ UNCHANGED at
    ELSE at' = "lost" /\ UNCHANGED <<buf, pos>>

\* getc returns 0 as long as no key was pressed.
NoKey == Reading /\ UNCHANGED <<at, buf, pos, screen, typed>>

TypeChar(key) ==
    /\ Reading /\ Typed(key)
    /\ Echo(<<CharOf[key]>>)
    /\ Store(<<CharOf[key]>>)

TypeTab ==
    /\ Reading /\ Typed(Tab)
    /\ LET blanks == [n \in 1 .. TAB_SIZE |-> Blank]
       IN  Echo(blanks) /\ Store(blanks)

\* Variant: the beginning of the buffer is not tested.
TypeBackspaceAlways ==
    /\ Reading /\ Typed(Backspace)
    /\ pos' = pos - 1 /\ EchoBackspace
    /\ UNCHANGED <<at, buf>>

TypeBackspace ==
    /\ Reading /\ Typed(Backspace)
    /\ IF pos > 0 THEN pos' = pos - 1 /\ EchoBackspace ELSE UNCHANGED <<pos, screen>>
    /\ UNCHANGED <<at, buf>>

\* Variant: the line gets no terminal 0.
TypeEnterUnterminated ==
    /\ Reading
    /\ at' = "trim"
    /\ UNCHANGED <<buf, pos, screen, typed>>

TypeEnter ==
    /\ Reading
    /\ IF pos < LINE_SIZE
       THEN at' = "trim" /\ buf' = [buf EXCEPT ![pos] = NUL]
       ELSE at' = "lost" /\ UNCHANGED buf
    /\ UNCHANGED <<pos, screen, typed>>

---------------------------------------------------------------------------
(* The command.                                                            *)

\* line = tolower(trim(buf)).
Trim ==
    /\ at = "trim"
    /\ IF IsString(buf, 0)
       THEN /\ at' = "command"
            /\ line' = Skipped(buf, 0)
            /\ buf' = tolower(Cut(buf, 0), Skipped(buf, 0))
       ELSE at' = "lost" /\ UNCHANGED <<line, buf>>
    /\ UNCHANGED <<pos, job, depth, screen, typed>>

\* The argument of sleep: trim again, behind the word.
Milliseconds ==
    LET p == line + Len(SLEEP)
    IN  atoi(Str(Cut(buf, p), Skipped(buf, p)))

\* Everything that is no word of the shell is a file name.
Parsed(word) ==
    CASE word = <<>>              -> NoJob
      [] Same(HELP, word)         -> [does |-> "help", arg |-> <<>>]
      [] starts_with(SLEEP, word) -> [does |-> "sleep", arg |-> Milliseconds]
      [] Same(TICKS, word)        -> [does |-> "ticks", arg |-> <<>>]
      [] Same(EXIT, word)         -> [does |-> "exit", arg |-> <<>>]
      [] OTHER                    -> [does |-> "exec", arg |-> word]

Command ==
    /\ at = "command"
    /\ at' = "run"
    /\ job' = Parsed(Str(buf, line))
    /\ UNCHANGED <<buf, pos, line, depth, screen, typed>>

Running(commands) ==
    /\ at = "run" /\ job.does \in commands
    /\ UNCHANGED <<buf, pos, line, job, screen, typed>>

\* Variant: an empty line is not skipped.
PrintUnlessEmpty == Running({"help", "ticks"}) /\ at' = "prompt" /\ UNCHANGED depth

\* Commands that only print.
PrintCommand ==
    Running({"nothing", "help", "ticks"}) /\ at' = "prompt" /\ UNCHANGED depth

\* The system call returns after the time (Interrupts).
SleepCommand == Running({"sleep"}) /\ at' = "prompt" /\ UNCHANGED depth

\* The shell ends: the one that executed it continues, or kernel_main, which halts.
ExitCommand ==
    /\ Running({"exit"})
    /\ depth' = depth - 1
    /\ at' = IF depth = 1 THEN "halted" ELSE "result"

\* task_exec fails without a module of that name and without a free task.
Refuses(file) == mod_by_name(file) = -1 \/ depth = MAX_TASK_COUNT

ExecCommand ==
    /\ Running({"exec"})
    /\ IF Refuses(job.arg)
       THEN at' = "result" /\ UNCHANGED depth
       ELSE IF Same(job.arg, SHELL)
            THEN at' = "prompt" /\ depth' = depth + 1
            ELSE at' = "app" /\ UNCHANGED depth

\* The application ends, or is terminated.
AppEnds ==
    /\ at = "app"
    /\ at' = "result"
    /\ UNCHANGED <<buf, pos, line, job, depth, screen, typed>>

\* What the shell would print when id is -1 is left out: ulibc's task_exec has no return
\* statement and a byte is never -1, so that a failed exec is not told from another.
ExecResult ==
    /\ at = "result"
    /\ at' = "prompt"
    /\ UNCHANGED <<buf, pos, line, job, depth, screen, typed>>

---------------------------------------------------------------------------
Type == TypeTab \/ TypeBackspace \/ TypeEnter \/ \E key \in Keys : TypeChar(key)

ShellStep ==
    \/ Prompt \/ Trim \/ Command \/ PrintCommand \/ SleepCommand \/ ExitCommand
    \/ ExecCommand \/ ExecResult

Next == ShellStep \/ NoKey \/ Type \/ AppEnds

\* The processor executes the shell; nobody has to type, applications need not end.
Spec == Init /\ [][Next]_vars /\ WF_vars(ShellStep)

---------------------------------------------------------------------------
(* Properties.                                                             *)

\* Every variable has its type.
TypeOK ==
    /\ at \in {"prompt", "read", "trim", "command", "run", "result", "app", "lost", "halted"}
    /\ buf \in [Addr -> Chars \union {NUL, Stale}]
    /\ pos \in 0 .. LINE_SIZE /\ line \in 0 .. LINE_SIZE
    /\ job.does \in {"nothing", "help", "sleep", "ticks", "exit", "exec"}
    /\ depth \in 0 .. MAX_TASK_COUNT
    /\ screen \in Seq(Chars)
    /\ typed \in Seq(Keys \union {Backspace, Tab})

\* After a line was entered the shell asks for the next one, has executed an
\* application that runs, or has ended: no command leaves it stuck (shell.c:18-54).
PromptReturns ==
    at \in {"trim", "command", "run", "result"} ~> at \in {"read", "app", "lost", "halted"}
=============================================================================
