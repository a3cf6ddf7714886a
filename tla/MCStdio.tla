------------------------------ MODULE MCStdio ------------------------------
(***************************************************************************)
(* What a format prints, defined without reference to the code, and        *)
(* instances of Stdio for TLC.                                             *)
(***************************************************************************)
EXTENDS Stdio, SequencesExt

CONSTANT MaxDirectives   \* directives in a format

\* The numerals of the unsigned ints in the given base: that of all digits of
\* n but the last, and its last digit.
Numerals(base) ==
    LET numeral[n \in Ints] ==
            IF n < base THEN <<DIGITS[n + 1]>>
            ELSE Append(numeral[n \div base], DIGITS[(n % base) + 1])
    IN  numeral
Numeral(n, base) == Numerals(base)[n]

\* What directive d stands for.
Text(d) ==
    CASE d.kind \in {"char", "c", "s"} -> d.text
      [] d.kind = "%" -> <<"%">>
      [] d.kind = "d" -> IF d.num < HALF THEN Numeral(d.num, 10)
                         ELSE <<"-">> \o Numeral(2 * HALF - d.num, 10)
      [] d.kind = "u" -> Numeral(d.num, 10)
      [] d.kind = "x" -> Numeral(d.num, 16)
      [] OTHER -> <<>>

\* What the first n directives of format f stand for.
Expansions(f) ==
    LET text[n \in 0 .. Len(f)] == IF n = 0 THEN <<>> ELSE text[n - 1] \o Text(f[n])
    IN  text
Expansion(f, n) == Expansions(f)[n]

\* Directive i of f is a number that does not fit in the destination.
NumberCut(f, i) == f[i].kind \in Numeric /\ Len(Expansion(f, i)) > size0

\* The characters in dest, without the terminal 0.
Printed == IF pc = "done" THEN SubSeq(dest, 1, Len(dest) - 1) ELSE dest

---------------------------------------------------------------------------
\* dest always holds the beginning of what the format stands for; on return it
\* holds all of it that fits, and no number is cut (stdio.c:50-104 with
\* printint_rev, stdio.c:8-27).
Formatted ==
    LET whole == Expansion(fmt, Len(fmt))
    IN  /\ IsPrefix(Printed, whole)
        /\ pc = "done" => /\ Len(Printed) = IF size0 < Len(whole) THEN size0 ELSE Len(whole)
                          /\ \A i \in DOMAIN fmt : ~NumberCut(fmt, i)

\* buf is written past its end only for a number that alone is longer than the
\* destination: buf[size+1] is enough for every number that fits (stdio.c:47).
OverflowJustified == pc = "overflow" => Len(Text(fmt[pos])) > size0

\* vsnprintf returns, unless it comes to a number that does not fit: characters
\* and strings that do not fit are dropped (stdio.c:63-66).
ReturnsUnlessNumberCut ==
    (\A i \in DOMAIN fmt : ~NumberCut(fmt, i)) ~> pc = "done"

---------------------------------------------------------------------------
(* What stdio.h says, and the code does not do.                            *)

\* stdio.h:5: "Writes at most size characters (including terminal 0)": what is
\* written to a destination of size characters stays in it (for a size of 0 the
\* sentence cannot be true of a function that writes a terminal 0 at all).
WritesBounded == size0 > 0 => Len(dest) <= size0

\* stdio.h:8: "Returns the number of characters written": it returns (what it
\* does once it has overwritten its stack is left out of the question).
Returns == <>(pc \in {"done", "overflow"})

---------------------------------------------------------------------------
D(k, t, n) == [kind |-> k, text |-> t, num |-> n]

\* One directive of each kind, with the strings and numbers where lengths and
\* signs change: 0, one and two digits, the largest and the least int.
MCDirectives ==
    {D("char", <<"a">>, 0), D("c", <<"b">>, 0), D("%", <<>>, 0), D("other", <<>>, 0)}
    \union {D("s", t, 0) : t \in {<<>>, <<"a", "b", "a">>}}
    \union {D("d", <<>>, n) : n \in {0, HALF - 1, HALF, 2 * HALF - 1}}
    \union {D("u", <<>>, n) : n \in {9, 10, 2 * HALF - 1}}
    \union {D("x", <<>>, n) : n \in {15, 2 * HALF - 1}}

MCFormats ==
    LET complete == UNION {[1 .. n -> MCDirectives] : n \in 0 .. MaxDirectives}
    IN  complete \union {Append(f, D("end", <<>>, 0)) : f \in complete}

MCChars == {DIGITS[i] : i \in 1 .. 16} \union {"-", "%", "a", "b"}
=============================================================================
