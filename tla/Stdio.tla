------------------------------- MODULE Stdio -------------------------------
(***************************************************************************)
(* vsnprintf and printint_rev of common/stdio.c, the formatter behind      *)
(* term_printf in the kernel and printf in the applications.               *)
(*                                                                         *)
(* A format is a sequence of directives: an ordinary character, a          *)
(* conversion with its argument, an unknown conversion, or the "%" that    *)
(* ends a format.  An int is its bit pattern, a number in 0..2*HALF-1: the *)
(* patterns from HALF on are the negative ints.                            *)
(***************************************************************************)
EXTENDS Integers, Sequences

CONSTANTS
    HALF,       \* 2^31 in the code
    Chars,      \* characters of strings and formats
    Formats,    \* formats, with their arguments, that may be printed
    MaxSize     \* the largest destination

Ints == 0 .. 2 * HALF - 1
Numeric == {"d", "u", "x"}
Kinds == Numeric \union {"char", "c", "s", "%", "other", "end"}

Directive == [kind : Kinds, text : Seq(Chars), num : Ints]

NUL == "NUL"   \* the terminal 0 of a string

DIGITS == <<"0", "1", "2", "3", "4", "5", "6", "7", "8", "9", "A", "B", "C", "D", "E", "F">>
Base(d) == IF d.kind = "x" THEN 16 ELSE 10
Negative(d) == d.kind = "d" /\ d.num >= HALF

ASSUME StdioAssumption ==
    /\ HALF \in Nat \ {0}
    /\ MaxSize \in Nat
    /\ {DIGITS[i] : i \in 1 .. 16} \union {"-", "%"} \subseteq Chars
    /\ Formats \subseteq Seq(Directive)
    /\ \A f \in Formats : \A i \in DOMAIN f :
        /\ f[i].kind \in {"char", "c"} => Len(f[i].text) = 1
        /\ f[i].kind = "end" => i = Len(f)

VARIABLES
    fmt,        \* the format and its arguments
    size0,      \* the argument size
    size,       \* the same variable in the code: room left in dest
    dest,       \* everything written to dest
    count,      \* local count, the value returned
    pos,        \* the directive fmt points at
    str,        \* what is left of the string s
    x,          \* local x of printint_rev
    sign,       \* parameter sign of printint_rev
    buf,        \* the digits in reverse; len is its length
    pc          \* scan, string, digits, sign, emit, done or overflow

output == <<size, dest, count>>
number == <<x, sign, buf>>
vars == <<fmt, size0, output, pos, str, number, pc>>

Init ==
    /\ fmt \in Formats
    /\ size0 \in 0 .. MaxSize
    /\ size = size0
    /\ dest = <<>>
    /\ count = 0
    /\ pos = 1
    /\ str = <<>>
    /\ x = 0
    /\ sign = FALSE
    /\ buf = <<>>
    /\ pc = "scan"

At(kinds) == pc = "scan" /\ pos <= Len(fmt) /\ fmt[pos].kind \in kinds

\* Variant: the macro does not test that there is room.
PutUnchecked(c) ==
    /\ dest' = Append(dest, c)
    /\ size' = size - 1
    /\ count' = count + 1

\* The macro putc: nothing happens when dest is full.
Put(c) ==
    IF size > 0
    THEN /\ dest' = Append(dest, c)
         /\ size' = size - 1
         /\ count' = count + 1
    ELSE UNCHANGED output

---------------------------------------------------------------------------
\* The end of the format, or a "%" with nothing after it: dest is terminated,
\* whether there is room left or not.
Return ==
    /\ pos > Len(fmt) \/ At({"end"})
    /\ pc = "scan"
    /\ dest' = Append(dest, NUL)
    /\ pc' = "done"
    /\ UNCHANGED <<fmt, size0, size, count, pos, str, number>>

\* An ordinary character, %c, or %%.
PutChar ==
    /\ At({"char", "c", "%"})
    /\ Put(IF fmt[pos].kind = "%" THEN "%" ELSE fmt[pos].text[1])
    /\ pos' = pos + 1
    /\ UNCHANGED <<fmt, size0, str, number, pc>>

\* An unknown conversion is ignored.
Ignore ==
    /\ At({"other"})
    /\ pos' = pos + 1
    /\ UNCHANGED <<fmt, size0, output, str, number, pc>>

\* %s: takes the argument ...
StringStart ==
    /\ At({"s"})
    /\ str' = fmt[pos].text
    /\ pc' = "string"
    /\ UNCHANGED <<fmt, size0, output, pos, number>>

\* Variant: the loop advances only when the character was written.
StringCharIfRoom ==
    /\ pc = "string" /\ str # <<>>
    /\ Put(Head(str))
    /\ str' = IF size > 0 THEN Tail(str) ELSE str
    /\ UNCHANGED <<fmt, size0, pos, number, pc>>

\* ... and goes through it, with or without room for its characters.
StringChar ==
    /\ pc = "string" /\ str # <<>>
    /\ Put(Head(str))
    /\ str' = Tail(str)
    /\ UNCHANGED <<fmt, size0, pos, number, pc>>

StringEnd ==
    /\ pc = "string" /\ str = <<>>
    /\ pos' = pos + 1
    /\ pc' = "scan"
    /\ UNCHANGED <<fmt, size0, output, str, number>>

---------------------------------------------------------------------------
(* %d, %u and %x: printint_rev, then the digits in the right order.        *)

\* Variant: a negative value is not negated.
NumberStartSigned ==
    /\ At(Numeric)
    /\ LET d == fmt[pos]
       IN  /\ x' = IF Negative(d) THEN d.num - 2 * HALF ELSE d.num
           /\ sign' = Negative(d)
    /\ buf' = <<>>
    /\ pc' = "digits"
    /\ UNCHANGED <<fmt, size0, output, pos, str>>

\* The magnitude of the value; that of the least int is HALF.
NumberStart ==
    /\ At(Numeric)
    /\ LET d == fmt[pos]
       IN  /\ x' = IF Negative(d) THEN 2 * HALF - d.num ELSE d.num
           /\ sign' = Negative(d)
    /\ buf' = <<>>
    /\ pc' = "digits"
    /\ UNCHANGED <<fmt, size0, output, pos, str>>

\* Variant: buf is declared without room for its terminal 0.
BufSizeTight == size0

\* The declaration char buf[size+1].
BufSize == size0 + 1

\* Variant: a while loop in place of the do-while: 0 has no digit.
DigitUnlessZero ==
    /\ pc = "digits" /\ Len(buf) < BufSize
    /\ LET base == Base(fmt[pos])
       IN  /\ buf' = IF x = 0 THEN buf ELSE Append(buf, DIGITS[(x % base) + 1])
           /\ x' = x \div base
           /\ pc' = IF x \div base = 0 THEN "sign" ELSE "digits"
    /\ UNCHANGED <<fmt, size0, output, pos, str, sign>>

\* One iteration of the do-while loop over the digits.
Digit ==
    /\ pc = "digits" /\ Len(buf) < BufSize
    /\ LET base == Base(fmt[pos])
       IN  /\ buf' = Append(buf, DIGITS[(x % base) + 1])
           /\ x' = x \div base
           /\ pc' = IF x \div base = 0 THEN "sign" ELSE "digits"
    /\ UNCHANGED <<fmt, size0, output, pos, str, sign>>

Signed == IF sign THEN Append(buf, "-") ELSE buf

\* The minus sign, and the terminal 0 after it.
SignAndTerminate ==
    /\ pc = "sign" /\ Len(Signed) < BufSize
    /\ buf' = Signed
    /\ pc' = "emit"
    /\ UNCHANGED <<fmt, size0, output, pos, str, x, sign>>

\* A digit, the sign or the terminal 0 is written past the end of buf, on the
\* stack: nothing is known of what follows.
Overflow ==
    /\ \/ pc = "digits" /\ Len(buf) >= BufSize
       \/ pc = "sign" /\ Len(Signed) >= BufSize
    /\ pc' = "overflow"
    /\ UNCHANGED <<fmt, size0, output, pos, str, number>>

\* while (len) putc(buf[--len]), with room in dest.
EmitDigit ==
    /\ pc = "emit" /\ buf # <<>> /\ size > 0
    /\ Put(buf[Len(buf)])
    /\ buf' = SubSeq(buf, 1, Len(buf) - 1)
    /\ UNCHANGED <<fmt, size0, pos, str, x, sign, pc>>

\* The same loop when dest is full: putc does not evaluate its argument, so len
\* keeps its value and the loop never ends.
EmitSpins ==
    /\ pc = "emit" /\ buf # <<>> /\ size = 0
    /\ UNCHANGED vars

EmitEnd ==
    /\ pc = "emit" /\ buf = <<>>
    /\ pos' = pos + 1
    /\ pc' = "scan"
    /\ UNCHANGED <<fmt, size0, output, str, number>>

Stopped == pc \in {"done", "overflow"} /\ UNCHANGED vars

---------------------------------------------------------------------------
Step ==
    \/ Return \/ PutChar \/ Ignore
    \/ StringStart \/ StringChar \/ StringEnd
    \/ NumberStart \/ Digit \/ SignAndTerminate \/ Overflow
    \/ EmitDigit \/ EmitSpins \/ EmitEnd

Next == Step \/ Stopped

\* A function that was called keeps running.
Spec == Init /\ [][Next]_vars /\ WF_vars(Step)
---------------------------------------------------------------------------
(* Properties.                                                             *)

\* Every variable has its type; x stays the value of an unsigned int and the
\* room left in dest is never negative.
TypeOK ==
    /\ fmt \in Formats
    /\ size0 \in 0 .. MaxSize
    /\ size \in Nat
    /\ dest \in Seq(Chars \union {NUL})
    /\ count \in Nat
    /\ pos \in Nat \ {0}
    /\ str \in Seq(Chars)
    /\ x \in Ints
    /\ sign \in BOOLEAN
    /\ buf \in Seq(Chars)
    /\ pc \in {"scan", "string", "digits", "sign", "emit", "done", "overflow"}

\* The value returned is the number of characters written before the terminal 0,
\* which is at that index of dest; there are never more than size of them, for
\* every format and size (stdio.c:38-44, 106-107).
TerminatedAtCount ==
    /\ count <= size0 /\ size + count = size0
    /\ IF pc = "done" THEN Len(dest) = count + 1 /\ dest[count + 1] = NUL
                      ELSE Len(dest) = count
=============================================================================
