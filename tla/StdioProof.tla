----------------------------- MODULE StdioProof -----------------------------
(***************************************************************************)
(* vsnprintf prints what the format stands for, as much of it as fits, and *)
(* overruns buf only for a number longer than the destination: for every   *)
(* format, every size and every width of an int.                           *)
(***************************************************************************)
EXTENDS MCStdio, TLAPS, SequenceTheorems, WellFoundedInduction

\* A directive of the format that is being printed has its type.
LEMMA DirectiveType ==
    ASSUME TypeOK, pos <= Len(fmt)
    PROVE  /\ fmt[pos] \in Directive
           /\ fmt[pos].kind \in {"char", "c"} => fmt[pos].text[1] \in Chars
<1>1. fmt \in Seq(Directive) /\ pos \in DOMAIN fmt
  BY StdioAssumption DEF TypeOK
<1>2. fmt[pos] \in Directive
  BY <1>1
<1>3. fmt[pos].kind \in {"char", "c"} => Len(fmt[pos].text) = 1
  BY <1>1, StdioAssumption DEF TypeOK
<1>4. fmt[pos].text \in Seq(Chars)
  BY <1>2 DEF Directive
<1> QED
  BY <1>2, <1>3, <1>4

\* The digits are characters.
LEMMA DigitType == \A i \in 0 .. 15 : DIGITS[i + 1] \in Chars
BY StdioAssumption

\* printint_rev divides by 10 or 16: the quotient is an unsigned int again, and
\* the remainder selects a digit.
LEMMA Division ==
    ASSUME NEW d, NEW n \in Ints
    PROVE  n \div Base(d) \in Ints /\ n % Base(d) \in 0 .. 15
<1>1. n \in Nat /\ n < 2 * HALF /\ HALF \in Nat
  BY StdioAssumption DEF Ints
<1>2. n \div 10 \in 0 .. n /\ n \div 16 \in 0 .. n /\ n % 10 \in 0 .. 9 /\ n % 16 \in 0 .. 15
  BY <1>1
<1> QED
  BY <1>1, <1>2 DEF Base, Ints

\* Until it is terminated, dest holds characters of the text only.
Unterminated == pc # "done" => dest \in Seq(Chars)

Inv == TypeOK /\ TerminatedAtCount /\ Unterminated

\* A text may be followed by a terminal 0.
LEMMA TextIsTerminable ==
    ASSUME NEW w \in Seq(Chars)
    PROVE  w \in Seq(Chars \union {NUL})
OBVIOUS

\* The macro putc keeps the room left and the number of characters in balance.
LEMMA PutBounded ==
    ASSUME Inv, pc # "done", NEW c \in Chars, Put(c)
    PROVE  /\ size' \in Nat /\ dest' \in Seq(Chars) /\ count' \in Nat
           /\ count' <= size0 /\ count' = Len(dest') /\ size' + count' = size0
<1>1. /\ dest \in Seq(Chars) /\ count = Len(dest) /\ size + count = size0 /\ count <= size0
      /\ size \in Nat /\ count \in Nat /\ size0 \in Nat
  BY StdioAssumption DEF Inv, TypeOK, TerminatedAtCount, Unterminated
<1>2. CASE size > 0
  <2>1. dest' = Append(dest, c) /\ size' = size - 1 /\ count' = count + 1
    BY <1>2 DEF Put
  <2>2. dest' \in Seq(Chars) /\ Len(dest') = Len(dest) + 1
    BY <1>1, <2>1
  <2> QED
    BY <1>1, <1>2, <2>1, <2>2
<1>3. CASE ~(size > 0)
  BY <1>1, <1>3 DEF Put, output
<1> QED
  BY <1>2, <1>3

\* dest is empty and all of it is room.
LEMMA InitInv == Init => Inv
<1> SUFFICES ASSUME Init PROVE Inv
  OBVIOUS
<1>1. 0 \in Ints
  BY StdioAssumption DEF Ints
<1>2. <<>> \in Seq(Chars) /\ Len(<<>>) = 0
  OBVIOUS
<1>3. size0 \in 0 .. MaxSize /\ size = size0 /\ size \in Nat
  BY StdioAssumption DEF Init
<1>4. fmt \in Formats /\ x \in Ints /\ sign \in BOOLEAN
  BY <1>1 DEF Init
<1>5. dest \in Seq(Chars) /\ str \in Seq(Chars) /\ buf \in Seq(Chars)
  BY <1>2 DEF Init
<1> dest \in Seq(Chars \union {NUL})
  BY <1>5, TextIsTerminable
<1>6. /\ count \in Nat /\ pos \in Nat \ {0}
      /\ pc \in {"scan", "string", "digits", "sign", "emit", "done", "overflow"}
  BY DEF Init
<1>7. TypeOK
  BY <1>3, <1>4, <1>5, <1>6 DEF TypeOK
<1>8. TerminatedAtCount
  BY <1>2, <1>3 DEF Init, TerminatedAtCount
<1> QED
  BY <1>5, <1>7, <1>8 DEF Inv, Unterminated

\* The steps that write to dest.
LEMMA PutStep ==
    ASSUME Inv, PutChar \/ StringChar \/ EmitDigit
    PROVE  Inv'
<1>1. CASE PutChar
  <2> DEFINE c == IF fmt[pos].kind = "%" THEN "%" ELSE fmt[pos].text[1]
  <2>1. c \in Chars
    BY <1>1, DirectiveType, StdioAssumption DEF Inv, PutChar, At
  <2>2. Put(c)
    BY <1>1 DEF PutChar
  <2> HIDE DEF c
  <2>3. /\ size' \in Nat /\ dest' \in Seq(Chars) /\ count' \in Nat
        /\ count' <= size0 /\ count' = Len(dest') /\ size' + count' = size0
    BY <1>1, <2>1, <2>2, PutBounded DEF PutChar, At
  <2>4. dest' \in Seq(Chars \union {NUL}) /\ pc' = "scan"
    BY <1>1, <2>3, TextIsTerminable DEF PutChar, At
  <2> QED
    BY <1>1, <2>3, <2>4 DEF PutChar, number, Inv, TypeOK, TerminatedAtCount, Unterminated
<1>2. CASE StringChar
  <2>1. Head(str) \in Chars /\ Tail(str) \in Seq(Chars)
    BY <1>2 DEF StringChar, Inv, TypeOK
  <2>2. /\ size' \in Nat /\ dest' \in Seq(Chars) /\ count' \in Nat
        /\ count' <= size0 /\ count' = Len(dest') /\ size' + count' = size0
    BY <1>2, <2>1, PutBounded DEF StringChar
  <2>3. dest' \in Seq(Chars \union {NUL}) /\ pc' = "string"
    BY <1>2, <2>2, TextIsTerminable DEF StringChar
  <2> QED
    BY <1>2, <2>1, <2>2, <2>3
    DEF StringChar, number, Inv, TypeOK, TerminatedAtCount, Unterminated
<1>3. CASE EmitDigit
  <2>1. Len(buf) \in Nat \ {0} /\ buf[Len(buf)] \in Chars
    BY <1>3 DEF EmitDigit, Inv, TypeOK
  <2>2. SubSeq(buf, 1, Len(buf) - 1) \in Seq(Chars)
    BY <2>1 DEF Inv, TypeOK
  <2>3. /\ size' \in Nat /\ dest' \in Seq(Chars) /\ count' \in Nat
        /\ count' <= size0 /\ count' = Len(dest') /\ size' + count' = size0
    BY <1>3, <2>1, PutBounded DEF EmitDigit
  <2>4. dest' \in Seq(Chars \union {NUL}) /\ pc' = "emit"
    BY <1>3, <2>3, TextIsTerminable DEF EmitDigit
  <2> QED
    BY <1>3, <2>2, <2>3, <2>4 DEF EmitDigit, Inv, TypeOK, TerminatedAtCount, Unterminated
<1> QED
  BY <1>1, <1>2, <1>3

\* The steps of printint_rev.
LEMMA NumberStep ==
    ASSUME Inv, NumberStart \/ Digit \/ SignAndTerminate
    PROVE  Inv'
<1>1. CASE NumberStart
  <2>1. fmt[pos] \in Directive
    BY <1>1, DirectiveType DEF Inv, NumberStart, At
  <2>2. fmt[pos].num \in Ints /\ HALF \in Nat \ {0}
    BY <2>1, StdioAssumption DEF Directive
  <2>3. x' \in Ints /\ sign' \in BOOLEAN
    BY <1>1, <2>2 DEF NumberStart, Negative, Ints
  <2> QED
    BY <1>1, <2>3
    DEF NumberStart, At, output, Inv, TypeOK, TerminatedAtCount, Unterminated
<1>2. CASE Digit
  <2>1. x \div Base(fmt[pos]) \in Ints /\ x % Base(fmt[pos]) \in 0 .. 15
    BY Division DEF Inv, TypeOK
  <2>2. DIGITS[(x % Base(fmt[pos])) + 1] \in Chars
    BY <2>1, DigitType
  <2>3. x' \in Ints /\ buf' \in Seq(Chars) /\ pc' \in {"sign", "digits"}
    BY <1>2, <2>1, <2>2 DEF Digit, Inv, TypeOK
  <2> QED
    BY <1>2, <2>3 DEF Digit, output, Inv, TypeOK, TerminatedAtCount, Unterminated
<1>3. CASE SignAndTerminate
  <2>1. buf' \in Seq(Chars)
    BY <1>3, StdioAssumption DEF SignAndTerminate, Signed, Inv, TypeOK
  <2> QED
    BY <1>3, <2>1 DEF SignAndTerminate, output, Inv, TypeOK, TerminatedAtCount, Unterminated
<1> QED
  BY <1>1, <1>2, <1>3

\* The other steps move on in the format.
LEMMA ControlStep ==
    ASSUME Inv,
           \/ Return \/ Ignore \/ StringStart \/ StringEnd
           \/ Overflow \/ EmitSpins \/ EmitEnd \/ Stopped
    PROVE  Inv'
<1>1. CASE Return
  <2>1. dest \in Seq(Chars) /\ Len(dest) = count /\ count \in Nat /\ pc' = "done"
    BY <1>1 DEF Return, Inv, TypeOK, TerminatedAtCount, Unterminated
  <2>2. dest \in Seq(Chars \union {NUL}) /\ dest' = Append(dest, NUL)
    BY <1>1, <2>1, TextIsTerminable DEF Return
  <2>3. /\ dest' \in Seq(Chars \union {NUL})
        /\ Len(dest') = count + 1 /\ dest'[count + 1] = NUL
    BY <2>1, <2>2
  <2> QED
    BY <1>1, <2>1, <2>3 DEF Return, number, Inv, TypeOK, TerminatedAtCount, Unterminated
<1>2. CASE Ignore
  BY <1>2 DEF Ignore, output, number, Inv, TypeOK, TerminatedAtCount, Unterminated
<1>3. CASE StringStart
  <2>1. fmt[pos].text \in Seq(Chars)
    BY <1>3, DirectiveType DEF Inv, StringStart, At, Directive
  <2> QED
    BY <1>3, <2>1
    DEF StringStart, At, output, number, Inv, TypeOK, TerminatedAtCount, Unterminated
<1>4. CASE StringEnd
  BY <1>4 DEF StringEnd, output, number, Inv, TypeOK, TerminatedAtCount, Unterminated
<1>5. CASE Overflow
  BY <1>5 DEF Overflow, output, number, Inv, TypeOK, TerminatedAtCount, Unterminated
<1>6. CASE EmitSpins \/ Stopped
  BY <1>6 DEF EmitSpins, Stopped, vars, output, number, Inv, TypeOK, TerminatedAtCount, Unterminated
<1>7. CASE EmitEnd
  BY <1>7 DEF EmitEnd, output, number, Inv, TypeOK, TerminatedAtCount, Unterminated
<1> QED
  BY <1>1, <1>2, <1>3, <1>4, <1>5, <1>6, <1>7

\* Every variable keeps its type, and dest ends after the characters counted.
THEOREM StdioInvariant == Spec => []Inv
<1>1. Init => Inv
  BY InitInv
<1>2. Inv /\ [Next]_vars => Inv'
  <2> SUFFICES ASSUME Inv, [Next]_vars PROVE Inv'
    OBVIOUS
  <2>1. CASE Next
    BY <2>1, PutStep, NumberStep, ControlStep DEF Next, Step
  <2>2. CASE UNCHANGED vars
    BY <2>2 DEF vars, output, number, Inv, TypeOK, TerminatedAtCount, Unterminated
  <2> QED
    BY <2>1, <2>2
<1> QED
  BY <1>1, <1>2, PTL DEF Spec

\* vsnprintf writes at most size characters before the terminal 0, returns their
\* number, and terminates dest there (stdio.c:38-44, 106-107): an array of size+1
\* characters is large enough.
THEOREM WritesAreCounted == Spec => []TerminatedAtCount
<1>1. Inv => TerminatedAtCount
  BY DEF Inv
<1> QED
  BY <1>1, StdioInvariant, PTL

\* No conversion of an int leaves the range of an unsigned int, and the room
\* left in dest is never negative (stdio.c:8-27, 38-44).
THEOREM StdioTypeCorrect == Spec => []TypeOK
<1>1. Inv => TypeOK
  BY DEF Inv
<1> QED
  BY <1>1, StdioInvariant, PTL

---------------------------------------------------------------------------
(* Sequences of characters: what fits, and the reversal.                   *)

\* As much of w as fits in m characters.
Cut(w, m) == IF Len(w) <= m THEN w ELSE SubSeq(w, 1, m)

\* What fits is characters of the text, as many as there is room for, in order.
LEMMA CutType ==
    ASSUME NEW w \in Seq(Chars), NEW m \in Nat
    PROVE  /\ Cut(w, m) \in Seq(Chars)
           /\ Len(Cut(w, m)) = IF Len(w) <= m THEN Len(w) ELSE m
           /\ \A i \in 1 .. Len(w) : i <= m => Cut(w, m)[i] = w[i]
<1>1. CASE Len(w) <= m
    BY <1>1 DEF Cut
<1>2. CASE Len(w) > m
    <2>1. Cut(w, m) = SubSeq(w, 1, m)
        BY <1>2 DEF Cut
    <2>2. \A i \in 1 .. m : w[i] \in Chars
        BY <1>2
    <2>3. /\ SubSeq(w, 1, m) \in Seq(Chars)
          /\ Len(SubSeq(w, 1, m)) = IF 1 <= m THEN m - 1 + 1 ELSE 0
          /\ \A i \in 1 .. m - 1 + 1 : SubSeq(w, 1, m)[i] = w[1 + i - 1]
        BY <2>2, SubSeqProperties
    <2>4. Len(w) \in Nat
        OBVIOUS
    <2>5. QED
        BY <1>2, <2>1, <2>3, <2>4
<1>3. QED
    BY <1>1, <1>2

\* One more character is kept when there is room for it, and dropped otherwise.
LEMMA CutAppend ==
    ASSUME NEW w \in Seq(Chars), NEW c \in Chars, NEW m \in Nat
    PROVE  Cut(Append(w, c), m) = IF Len(Cut(w, m)) < m THEN Append(Cut(w, m), c) ELSE Cut(w, m)
<1>1. Append(w, c) \in Seq(Chars) /\ Len(Append(w, c)) = Len(w) + 1 /\ Len(w) \in Nat
    OBVIOUS
<1>2. CASE Len(w) < m
    BY <1>1, <1>2 DEF Cut
<1>3. CASE Len(w) >= m
    <2>1. PICK a : a = Cut(Append(w, c), m)
        OBVIOUS
    <2>2. PICK b : b = Cut(w, m)
        OBVIOUS
    <2>3. PICK v : v = Append(w, c)
        OBVIOUS
    <2>4. /\ v \in Seq(Chars) /\ Len(v) = Len(w) + 1
          /\ \A i \in 1 .. Len(w) : v[i] = w[i]
        BY <2>3
    <2>5. /\ a \in Seq(Chars) /\ Len(a) = m
          /\ \A i \in 1 .. Len(v) : i <= m => a[i] = v[i]
        <3>1. a = Cut(v, m)
            BY <2>1, <2>3
        <3>2. /\ a \in Seq(Chars) /\ Len(a) = IF Len(v) <= m THEN Len(v) ELSE m
              /\ \A i \in 1 .. Len(v) : i <= m => a[i] = v[i]
            BY <2>4, <3>1, CutType
        <3>3. QED
            BY <1>1, <1>3, <2>4, <3>2
    <2>6. /\ b \in Seq(Chars) /\ Len(b) = m
          /\ \A i \in 1 .. Len(w) : i <= m => b[i] = w[i]
        <3>1. /\ b \in Seq(Chars) /\ Len(b) = IF Len(w) <= m THEN Len(w) ELSE m
              /\ \A i \in 1 .. Len(w) : i <= m => b[i] = w[i]
            BY <2>2, CutType
        <3>2. QED
            BY <1>1, <1>3, <3>1
    <2>7. \A i \in 1 .. Len(a) : a[i] = b[i]
        BY <1>1, <1>3, <2>4, <2>5, <2>6
    <2>8. a = b
        BY <2>5, <2>6, <2>7, SeqEqual
    <2>9. QED
        BY <2>1, <2>2, <2>6, <2>8
<1>4. QED
    BY <1>1, <1>2, <1>3

\* What fits of a text is a beginning of every text that goes on with it.
LEMMA CutIsPrefix ==
    ASSUME NEW w \in Seq(Chars), NEW t \in Seq(Chars), NEW m \in Nat
    PROVE  IsPrefix(Cut(w, m), w \o t)
<1>1. PICK a : a = Cut(w, m)
    OBVIOUS
<1>2. PICK v : v = w \o t
    OBVIOUS
<1>3. /\ v \in Seq(Chars) /\ Len(v) = Len(w) + Len(t) /\ Len(w) \in Nat /\ Len(t) \in Nat
      /\ \A i \in 1 .. Len(w) : v[i] = w[i]
    BY <1>2
<1>4. /\ a \in Seq(Chars) /\ Len(a) = IF Len(w) <= m THEN Len(w) ELSE m
      /\ \A i \in 1 .. Len(w) : i <= m => a[i] = w[i]
    BY <1>1, CutType
<1>5. /\ Len(a) \in Nat /\ Len(a) <= Len(w) /\ Len(a) <= Len(v)
      /\ \A i \in 1 .. Len(a) : a[i] = v[i]
    <2>1. Len(a) \in Nat /\ Len(a) <= Len(w) /\ Len(a) <= m /\ Len(a) <= Len(v)
        BY <1>3, <1>4
    <2>2. ASSUME NEW i \in 1 .. Len(a) PROVE a[i] = v[i]
        <3>1. i \in 1 .. Len(w) /\ i <= m
            BY <1>3, <2>1
        <3>2. QED
            BY <1>3, <1>4, <3>1
    <2>3. QED
        BY <2>1, <2>2
<1>6. SubSeq(a, 1, Len(a)) = SubSeq(v, 1, Len(a))
    <2>1. PICK p : p = SubSeq(v, 1, Len(a))
        OBVIOUS
    <2>2. \A i \in 1 .. Len(a) : v[i] \in Chars
        BY <1>3, <1>5
    <2>3. p \in Seq(Chars) /\ Len(p) = Len(a) /\ \A i \in 1 .. Len(a) : p[i] = v[i]
        BY <1>5, <2>1, <2>2, SubSeqProperties
    <2>4. p = a
        BY <1>4, <1>5, <2>3, SeqEqual
    <2>5. QED
        BY <1>4, <2>1, <2>4, SubSeqFull
<1>7. QED
    BY <1>1, <1>2, <1>5, <1>6 DEF IsPrefix

\* A beginning of a text is one of every text that goes on with it.
LEMMA PrefixOfConcat ==
    ASSUME NEW a \in Seq(Chars), NEW t \in Seq(Chars)
    PROVE  IsPrefix(a, a \o t)
<1>1. Cut(a, Len(a)) = a /\ Len(a) \in Nat
    BY DEF Cut
<1>2. QED
    BY <1>1, CutIsPrefix

\* One text after another is a text.
LEMMA ConcatType == \A a, b \in Seq(Chars) : a \o b \in Seq(Chars)
OBVIOUS

\* The same when the text goes on in two parts.
LEMMA PrefixOfLonger ==
    ASSUME NEW a \in Seq(Chars), NEW r \in Seq(Chars), NEW u \in Seq(Chars)
    PROVE  IsPrefix(a, (a \o r) \o u)
<1>1. PICK t : t = r \o u
    OBVIOUS
<1>2. t \in Seq(Chars)
    BY <1>1
<1>3. (a \o r) \o u = a \o t
    BY <1>1, ConcatAssociative
<1>4. QED
    BY <1>2, <1>3, PrefixOfConcat

\* What fits of a text is a beginning of what goes on with the rest of a string
\* and with more.
LEMMA CutOfLonger ==
    ASSUME NEW b \in Seq(Chars), NEW p \in Seq(Chars), NEW s \in Seq(Chars), NEW u \in Seq(Chars),
           NEW m \in Nat
    PROVE  IsPrefix(Cut(b \o p, m), (b \o (p \o s)) \o u)
<1>1. PICK v : v = b \o p
    OBVIOUS
<1>2. v \in Seq(Chars)
    BY <1>1
<1>3. b \o (p \o s) = v \o s
    BY <1>1, ConcatAssociative
<1>4. PICK t : t = s \o u
    OBVIOUS
<1>5. t \in Seq(Chars)
    BY <1>4
<1>6. (v \o s) \o u = v \o t
    BY <1>2, <1>4, ConcatAssociative
<1>7. (b \o (p \o s)) \o u = v \o t
    BY <1>3, <1>6
<1>8. QED
    BY <1>1, <1>2, <1>5, <1>7, CutIsPrefix

\* The reversal of a text is a text of the same length.
LEMMA ReverseType ==
    ASSUME NEW b \in Seq(Chars)
    PROVE  Reverse(b) \in Seq(Chars) /\ Len(Reverse(b)) = Len(b)
<1>1. \A i \in 1 .. Len(b) : b[(Len(b) - i) + 1] \in Chars
    OBVIOUS
<1>2. QED
    BY <1>1 DEF Reverse

\* The last element comes first in the reversal.
LEMMA ReverseAppend ==
    ASSUME NEW b \in Seq(Chars), NEW c \in Chars
    PROVE  Reverse(Append(b, c)) = <<c>> \o Reverse(b)
<1>1. PICK v : v = Append(b, c)
    OBVIOUS
<1>2. /\ v \in Seq(Chars) /\ Len(v) = Len(b) + 1 /\ Len(b) \in Nat
      /\ \A i \in 1 .. Len(b) : v[i] = b[i]
      /\ v[Len(b) + 1] = c
    BY <1>1
<1>3. PICK r : r = Reverse(b)
    OBVIOUS
<1>4. /\ r \in Seq(Chars) /\ Len(r) = Len(b)
      /\ \A i \in 1 .. Len(b) : r[i] = b[(Len(b) - i) + 1]
    BY <1>3, ReverseType DEF Reverse
<1>5. PICK rv : rv = Reverse(v)
    OBVIOUS
<1>6. /\ rv \in Seq(Chars) /\ Len(rv) = Len(v)
      /\ \A i \in 1 .. Len(v) : rv[i] = v[(Len(v) - i) + 1]
    BY <1>2, <1>5, ReverseType DEF Reverse
<1>7. PICK s : s = <<c>> \o r
    OBVIOUS
<1>8. /\ s \in Seq(Chars) /\ Len(s) = 1 + Len(r)
      /\ s[1] = c
      /\ \A i \in 1 .. Len(r) : s[i + 1] = r[i]
    <2>1. <<c>> \in Seq(Chars) /\ Len(<<c>>) = 1 /\ <<c>>[1] = c
        OBVIOUS
    <2>2. /\ s \in Seq(Chars) /\ Len(s) = 1 + Len(r)
          /\ \A i \in 1 .. 1 + Len(r) : s[i] = IF i <= 1 THEN <<c>>[i] ELSE r[i - 1]
        BY <1>4, <1>7, <2>1, ConcatProperties
    <2>3. QED
        BY <1>2, <1>4, <2>1, <2>2
<1>9. \A i \in 1 .. Len(rv) : rv[i] = s[i]
    <2>1. TAKE i \in 1 .. Len(rv)
    <2>2. CASE i = 1
        BY <1>2, <1>6, <1>8, <2>2
    <2>3. CASE i # 1
        <3>1. i - 1 \in 1 .. Len(b) /\ (i - 1) + 1 = i
            BY <1>2, <1>6, <2>3
        <3>2. s[i] = b[(Len(b) - (i - 1)) + 1]
            BY <1>4, <1>8, <3>1
        <3>3. (Len(v) - i) + 1 \in 1 .. Len(b) /\ (Len(v) - i) + 1 = (Len(b) - (i - 1)) + 1
            BY <1>2, <3>1
        <3>4. QED
            BY <1>2, <1>6, <3>2, <3>3
    <2>4. QED
        BY <2>2, <2>3
<1>10. rv = s
    BY <1>2, <1>4, <1>6, <1>8, <1>9, SeqEqual
<1>11. QED
    BY <1>1, <1>3, <1>5, <1>7, <1>10

---------------------------------------------------------------------------
(* Induction over the natural numbers, for a set.                          *)

\* A set with 0 and the successors of its numbers has every natural number.
LEMMA NatSetInduction ==
    ASSUME NEW S, 0 \in S, \A n \in Nat : n \in S => n + 1 \in S
    PROVE  Nat \subseteq S
<1> DEFINE R == {p \in Nat \X Nat : p[1] < p[2]}
<1>1. IsWellFoundedOn(R, Nat)
    BY NatLessThanWellFounded DEF OpToRel
<1>2. SUFFICES ASSUME Nat \ S # {} PROVE FALSE
    OBVIOUS
<1>3. PICK n \in Nat \ S : \A m \in Nat \ S : ~(<<m, n>> \in R)
    <2>1. Nat \ S \subseteq Nat
        OBVIOUS
    <2> HIDE DEF R
    <2>2. QED
        BY <1>1, <1>2, <2>1, WFMin
<1>4. n # 0 /\ n - 1 \in Nat /\ n = (n - 1) + 1
    BY <1>3
<1>5. n - 1 \in S
    <2>1. n - 1 < n
        BY <1>4
    <2>2. <<n - 1, n>> \in R
        BY <1>4, <2>1
    <2>3. QED
        BY <1>3, <1>4, <2>2
<1>6. QED
    BY <1>3, <1>4, <1>5

---------------------------------------------------------------------------
(* The numeral of a number.                                                *)

Bases == {10, 16}

\* The numeral of n, when f gives those of the numbers below n.
NumeralOf(f, n, base) ==
    IF n < base THEN <<DIGITS[n + 1]>>
    ELSE Append(f[n \div base], DIGITS[(n % base) + 1])

\* Division by a base ends: a quotient is less than the number, until it is 0.
LEMMA Quotient ==
    ASSUME NEW base \in Bases, NEW n \in Nat
    PROVE  /\ n \div base \in Nat /\ n \div base <= n
           /\ n % base \in 0 .. base - 1
           /\ n >= base => n \div base < n /\ n \div base # 0
           /\ n < base => n \div base = 0 /\ n % base = n
<1>1. CASE base = 10
    BY <1>1
<1>2. CASE base = 16
    BY <1>2
<1>3. QED
    BY <1>1, <1>2 DEF Bases

\* f is the numerals of the numbers up to m.
Numbers(f, base, m) == f = [n \in 0 .. m |-> NumeralOf(f, n, base)]

\* The recursive definition of the numerals has a solution, up to any number.
LEMMA NumbersExist ==
    ASSUME NEW base \in Bases
    PROVE  \A m \in Nat : \E f : Numbers(f, base, m)
<1> DEFINE S == {m \in Nat : \E f : Numbers(f, base, m)}
<1>1. 0 \in S
    <2>1. PICK f : f = [n \in 0 .. 0 |-> <<DIGITS[n + 1]>>]
        OBVIOUS
    <2>2. \A n \in 0 .. 0 : n < base
        BY DEF Bases
    <2>3. Numbers(f, base, 0)
        BY <2>1, <2>2 DEF Numbers, NumeralOf
    <2>4. QED
        BY <2>3
<1>2. ASSUME NEW m \in Nat, m \in S PROVE m + 1 \in S
    <2>1. PICK f : Numbers(f, base, m)
        BY <1>2
    <2>2. PICK g : g = [n \in 0 .. m + 1 |-> IF n <= m THEN f[n] ELSE NumeralOf(f, n, base)]
        OBVIOUS
    <2>3. ASSUME NEW n \in 0 .. m + 1 PROVE g[n] = NumeralOf(g, n, base)
        <3>1. g[n] = NumeralOf(f, n, base)
            <4>1. CASE n <= m
                <5>1. n \in 0 .. m
                    BY <4>1
                <5>2. QED
                    BY <2>1, <2>2, <4>1, <5>1 DEF Numbers
            <4>2. CASE ~(n <= m)
                BY <2>2, <4>2
            <4>3. QED
                BY <4>1, <4>2
        <3>2. CASE n < base
            BY <3>1, <3>2 DEF NumeralOf
        <3>3. CASE ~(n < base)
            <4>1. PICK k : k = n \div base
                OBVIOUS
            <4>2. n \in Nat /\ base \in Nat
                BY DEF Bases
            <4>3. k \in Nat /\ k < n
                BY <3>3, <4>1, <4>2, Quotient
            <4>4. k \in 0 .. m + 1 /\ k <= m
                BY <4>3
            <4>5. g[k] = f[k]
                BY <2>2, <4>4
            <4>6. QED
                BY <3>1, <3>3, <4>1, <4>5 DEF NumeralOf
        <3>4. QED
            BY <3>2, <3>3
    <2>4. Numbers(g, base, m + 1)
        BY <2>2, <2>3 DEF Numbers
    <2>5. m + 1 \in Nat
        OBVIOUS
    <2>6. QED
        BY <2>4, <2>5
<1>3. QED
    <2> HIDE DEF S
    <2>1. Nat \subseteq S
        BY <1>1, <1>2, NatSetInduction
    <2>2. QED
        BY <2>1 DEF S

\* So Numeral satisfies its definition.
LEMMA NumeralUnfold ==
    ASSUME NEW base \in Bases, NEW n \in Ints
    PROVE  Numeral(n, base) =
             IF n < base THEN <<DIGITS[n + 1]>>
             ELSE Append(Numeral(n \div base, base), DIGITS[(n % base) + 1])
<1>1. 2 * HALF - 1 \in Nat
    BY StdioAssumption
<1>2. \E f : f = [k \in Ints |-> NumeralOf(f, k, base)]
    BY <1>1, NumbersExist DEF Numbers, Ints
<1>3. Numerals(base) = [k \in Ints |-> NumeralOf(Numerals(base), k, base)]
    BY <1>2 DEF Numerals, NumeralOf
<1>4. Numeral(n, base) = NumeralOf(Numerals(base), n, base)
    BY <1>3 DEF Numeral
<1>5. QED
    BY <1>4 DEF NumeralOf, Numeral

\* A numeral has at least one digit.
LEMMA NumeralType ==
    ASSUME NEW base \in Bases
    PROVE  \A n \in Ints : Numeral(n, base) \in Seq(Chars) /\ Len(Numeral(n, base)) >= 1
<1> DEFINE Good(n) == Numeral(n, base) \in Seq(Chars) /\ Len(Numeral(n, base)) >= 1
<1> DEFINE S == {m \in Nat : \A n \in Ints : n <= m => Good(n)}
<1>1. ASSUME NEW n \in Ints, \A k \in Ints : k < n => Good(k) PROVE Good(n)
    <2>1. n \in Nat /\ \A k \in Nat : k < n => k \in Ints
        BY StdioAssumption DEF Ints
    <2>2. n % base \in 0 .. base - 1 /\ base \in {10, 16}
        BY <2>1, Quotient DEF Bases
    <2>3. CASE n < base
        <3>1. n \in 0 .. 15
            BY <2>1, <2>2, <2>3
        <3>2. PICK c \in Chars : c = DIGITS[n + 1]
            BY <3>1, DigitType
        <3>3. Numeral(n, base) = <<c>>
            BY <2>3, <3>2, NumeralUnfold
        <3>4. QED
            BY <3>3
    <2>4. CASE ~(n < base)
        <3>1. n \div base \in Nat /\ n \div base < n
            BY <2>1, <2>2, <2>4, Quotient
        <3>2. PICK w : w = Numeral(n \div base, base)
            OBVIOUS
        <3>3. w \in Seq(Chars)
            BY <1>1, <2>1, <3>1, <3>2
        <3>4. n % base \in 0 .. 15
            BY <2>2
        <3>5. PICK c \in Chars : c = DIGITS[(n % base) + 1]
            BY <3>4, DigitType
        <3>6. Numeral(n, base) = Append(w, c)
            BY <2>4, <3>2, <3>5, NumeralUnfold
        <3>7. Append(w, c) \in Seq(Chars) /\ Len(Append(w, c)) >= 1
            BY <3>3
        <3>8. QED
            BY <3>6, <3>7
    <2>5. QED
        BY <2>3, <2>4
<1> HIDE DEF Good
<1>2. Ints \subseteq Nat
    BY StdioAssumption DEF Ints
<1>3. 0 \in S
    <2>1. ASSUME NEW n \in Ints, n <= 0 PROVE Good(n)
        <3>1. n \in Nat /\ \A k \in Ints : ~(k < n)
            BY <1>2, <2>1
        <3>2. QED
            BY <1>1, <3>1
    <2>2. QED
        BY <2>1
<1>4. ASSUME NEW m \in Nat, m \in S PROVE m + 1 \in S
    <2>1. ASSUME NEW n \in Ints, n <= m + 1 PROVE Good(n)
        <3>1. ASSUME NEW k \in Ints, k < n PROVE Good(k)
            <4>1. k <= m
                BY <1>2, <2>1, <3>1
            <4>2. QED
                BY <1>4, <4>1
        <3>2. QED
            BY <1>1, <3>1
    <2>2. QED
        BY <2>1
<1>5. Nat \subseteq S
    <2> HIDE DEF S
    <2>1. QED
        BY <1>3, <1>4, NatSetInduction
<1>6. ASSUME NEW n \in Ints PROVE Good(n)
    <2>1. n \in S /\ n <= n
        BY <1>2, <1>5
    <2>2. QED
        BY <2>1
<1>7. QED
    BY <1>6 DEF Good

---------------------------------------------------------------------------
(* What a directive, and the beginning of a format, stand for.             *)

\* The minus sign of a number that has one.
Minus(b) == IF b THEN <<"-">> ELSE <<>>

\* Text by kind of directive.
LEMMA TextCases ==
    ASSUME NEW d
    PROVE  /\ d.kind \in {"char", "c", "s"} => Text(d) = d.text
           /\ d.kind = "%" => Text(d) = <<"%">>
           /\ d.kind = "d" => Text(d) = IF d.num < HALF THEN Numeral(d.num, 10)
                                        ELSE <<"-">> \o Numeral(2 * HALF - d.num, 10)
           /\ d.kind = "u" => Text(d) = Numeral(d.num, 10)
           /\ d.kind = "x" => Text(d) = Numeral(d.num, 16)
           /\ d.kind \in {"other", "end"} => Text(d) = <<>>
BY Zenon DEF Text

\* printint_rev is called with the magnitude of the value, which is an unsigned
\* int, and its sign.
LEMMA NumberText ==
    ASSUME NEW d \in Directive, d.kind \in Numeric,
           NEW n, n = IF Negative(d) THEN 2 * HALF - d.num ELSE d.num
    PROVE  /\ n \in Ints
           /\ Base(d) \in Bases
           /\ Text(d) = Minus(Negative(d)) \o Numeral(n, Base(d))
<1>1. HALF \in Nat \ {0} /\ d.num \in 0 .. 2 * HALF - 1
    BY StdioAssumption DEF Directive, Ints
<1>2. n \in Ints
    BY <1>1 DEF Negative, Ints
<1>3. Base(d) \in Bases /\ Base(d) = IF d.kind = "x" THEN 16 ELSE 10
    BY DEF Base, Bases
<1>4. PICK w : w = Numeral(n, Base(d))
    OBVIOUS
<1>5. w \in Seq(Chars)
    BY <1>2, <1>3, <1>4, NumeralType
<1>6. <<>> \o w = w
    BY <1>5
<1>7. CASE Negative(d)
    <2>1. d.kind = "d" /\ ~(d.num < HALF) /\ n = 2 * HALF - d.num
        BY <1>1, <1>7 DEF Negative
    <2>2. d.kind # "x"
        BY <2>1
    <2>3. Text(d) = <<"-">> \o Numeral(n, 10) /\ Base(d) = 10
        BY <1>3, <2>1, <2>2, TextCases
    <2>4. Minus(Negative(d)) = <<"-">>
        BY <1>7 DEF Minus
    <2>5. QED
        BY <1>2, <1>3, <2>3, <2>4
<1>8. CASE ~Negative(d)
    <2>1. n = d.num
        BY <1>8
    <2>2. d.kind = "d" => d.num < HALF
        BY <1>1, <1>8 DEF Negative
    <2>3. d.kind \in {"d", "u", "x"}
        BY DEF Numeric
    <2>4. Text(d) = w
        BY <1>3, <1>4, <2>1, <2>2, <2>3, TextCases
    <2>5. Minus(Negative(d)) = <<>>
        BY <1>8 DEF Minus
    <2>6. QED
        BY <1>2, <1>3, <1>4, <1>6, <2>4, <2>5
<1>9. QED
    BY <1>7, <1>8

\* The sign is a text.
LEMMA MinusType == \A b \in BOOLEAN : Minus(b) \in Seq(Chars)
BY StdioAssumption DEF Minus

\* What a directive stands for is a text.
LEMMA TextType == \A d \in Directive : Text(d) \in Seq(Chars)
<1>1. TAKE d \in Directive
<1>2. d.kind \in Kinds /\ d.text \in Seq(Chars)
    BY DEF Directive
<1>3. CASE d.kind \in Numeric
    <2>1. PICK n : n = IF Negative(d) THEN 2 * HALF - d.num ELSE d.num
        OBVIOUS
    <2>2. n \in Ints /\ Base(d) \in Bases /\ Text(d) = Minus(Negative(d)) \o Numeral(n, Base(d))
        BY <1>3, <2>1, NumberText
    <2>3. Numeral(n, Base(d)) \in Seq(Chars)
        BY <2>2, NumeralType
    <2>4. Minus(Negative(d)) \in Seq(Chars)
        BY MinusType DEF Negative
    <2>5. QED
        BY <2>2, <2>3, <2>4
<1>4. CASE d.kind \in {"char", "c", "s"}
    BY <1>2, <1>4, TextCases
<1>5. CASE d.kind = "%"
    <2>1. Text(d) = <<"%">> /\ "%" \in Chars
        BY <1>5, TextCases, StdioAssumption
    <2>2. QED
        BY <2>1
<1>6. CASE d.kind \in {"other", "end"}
    <2>1. Text(d) = <<>>
        BY <1>6, TextCases
    <2>2. QED
        BY <2>1
<1>7. QED
    BY <1>2, <1>3, <1>4, <1>5, <1>6 DEF Kinds

\* g is what the first n directives of f stand for.
Texts(g, f, n) == g = [m \in 0 .. n |-> IF m = 0 THEN <<>> ELSE g[m - 1] \o Text(f[m])]

\* The recursive definition of Expansions has a solution.
LEMMA TextsExist ==
    ASSUME NEW f
    PROVE  \A n \in Nat : \E g : Texts(g, f, n)
<1> DEFINE S == {n \in Nat : \E g : Texts(g, f, n)}
<1>1. 0 \in S
    <2>1. Texts([m \in 0 .. 0 |-> <<>>], f, 0)
        BY DEF Texts
    <2>2. QED
        BY <2>1
<1>2. ASSUME NEW n \in Nat, n \in S PROVE n + 1 \in S
    <2>1. PICK g : Texts(g, f, n)
        BY <1>2
    <2> DEFINE h == [m \in 0 .. n + 1 |-> IF m \in 0 .. n THEN g[m] ELSE g[n] \o Text(f[n + 1])]
    <2>2. ASSUME NEW m \in 0 .. n + 1
          PROVE  h[m] = IF m = 0 THEN <<>> ELSE h[m - 1] \o Text(f[m])
        <3>1. CASE m = 0
            BY <2>1, <3>1 DEF Texts
        <3>2. CASE m # 0 /\ m \in 0 .. n
            <4>1. m - 1 \in 0 .. n
                BY <3>2
            <4>2. h[m] = g[m] /\ h[m - 1] = g[m - 1]
                BY <3>2, <4>1
            <4>3. g[m] = g[m - 1] \o Text(f[m])
                BY <2>1, <3>2 DEF Texts
            <4>4. QED
                BY <3>2, <4>2, <4>3
        <3>3. CASE m \notin 0 .. n
            <4>1. m = n + 1 /\ m # 0 /\ m - 1 = n /\ n \in 0 .. n
                BY <3>3
            <4>2. QED
                BY <3>3, <4>1
        <3>4. QED
            BY <3>1, <3>2, <3>3
    <2>3. Texts(h, f, n + 1)
        BY <2>2 DEF Texts
    <2>4. QED
        BY <2>3
<1>3. QED
    <2> HIDE DEF S
    <2>1. Nat \subseteq S
        BY <1>1, <1>2, NatSetInduction
    <2>2. QED
        BY <2>1 DEF S

\* So one more directive adds what it stands for.
LEMMA ExpansionStep ==
    ASSUME NEW f \in Seq(Directive)
    PROVE  /\ Expansion(f, 0) = <<>>
           /\ \A n \in 1 .. Len(f) : Expansion(f, n) = Expansion(f, n - 1) \o Text(f[n])
<1>1. Len(f) \in Nat
    OBVIOUS
<1>2. \E g : Texts(g, f, Len(f))
    BY <1>1, TextsExist
<1>3. Texts(Expansions(f), f, Len(f))
    BY <1>2 DEF Expansions, Texts
<1>4. ASSUME NEW n \in 0 .. Len(f)
      PROVE  Expansions(f)[n] = IF n = 0 THEN <<>> ELSE Expansions(f)[n - 1] \o Text(f[n])
    BY <1>3, <1>4 DEF Texts
<1>5. 0 \in 0 .. Len(f) /\ \A n \in 1 .. Len(f) : n \in 0 .. Len(f) /\ n # 0
    BY <1>1
<1>6. QED
    BY <1>4, <1>5 DEF Expansion

\* What the beginning of a format stands for is a text.
LEMMA ExpansionType ==
    ASSUME NEW f \in Seq(Directive)
    PROVE  \A n \in 0 .. Len(f) : Expansion(f, n) \in Seq(Chars)
<1> DEFINE S == {n \in Nat : n <= Len(f) => Expansion(f, n) \in Seq(Chars)}
<1>1. 0 \in S
    <2>1. Expansion(f, 0) = <<>> /\ <<>> \in Seq(Chars)
        BY ExpansionStep
    <2>2. QED
        BY <2>1
<1>2. ASSUME NEW n \in Nat, n \in S PROVE n + 1 \in S
    <2>1. SUFFICES ASSUME n + 1 <= Len(f) PROVE Expansion(f, n + 1) \in Seq(Chars)
        OBVIOUS
    <2>2. n + 1 \in 1 .. Len(f) /\ (n + 1) - 1 = n /\ n <= Len(f)
        BY <2>1
    <2>3. PICK u \in Seq(Chars) : u = Text(f[n + 1])
        BY <2>2, TextType
    <2>4. PICK w \in Seq(Chars) : w = Expansion(f, n)
        BY <1>2, <2>2
    <2>5. Expansion(f, n + 1) = w \o u
        BY <2>2, <2>3, <2>4, ExpansionStep
    <2>6. w \o u \in Seq(Chars)
        OBVIOUS
    <2>7. QED
        BY <2>5, <2>6
<1>3. QED
    <2> HIDE DEF S
    <2>1. Nat \subseteq S
        BY <1>1, <1>2, NatSetInduction
    <2>2. QED
        BY <2>1 DEF S

\* What a format stands for goes on with what its beginnings stand for.
LEMMA ExpansionGoesOn ==
    ASSUME NEW f \in Seq(Directive), NEW n \in 0 .. Len(f)
    PROVE  \E t \in Seq(Chars) : Expansion(f, Len(f)) = Expansion(f, n) \o t
<1> DEFINE S == {k \in Nat : n + k <= Len(f) =>
                    \E t \in Seq(Chars) : Expansion(f, n + k) = Expansion(f, n) \o t}
<1>1. 0 \in S
    <2>1. Expansion(f, n) \in Seq(Chars)
        BY ExpansionType
    <2>2. Expansion(f, n) = Expansion(f, n) \o <<>> /\ <<>> \in Seq(Chars)
        BY <2>1
    <2>3. n + 0 = n
        OBVIOUS
    <2>4. QED
        BY <2>2, <2>3
<1>2. ASSUME NEW k \in Nat, k \in S PROVE k + 1 \in S
    <2>1. SUFFICES ASSUME n + (k + 1) <= Len(f)
                   PROVE  \E t \in Seq(Chars) : Expansion(f, n + (k + 1)) = Expansion(f, n) \o t
        OBVIOUS
    <2>2. PICK m : m = n + (k + 1)
        OBVIOUS
    <2>3. m \in 1 .. Len(f) /\ m - 1 = n + k /\ n + k <= Len(f)
        BY <2>1, <2>2
    <2>4. PICK t \in Seq(Chars) : Expansion(f, m - 1) = Expansion(f, n) \o t
        BY <1>2, <2>3
    <2>5. PICK u \in Seq(Chars) : u = Text(f[m])
        BY <2>3, TextType
    <2>6. Expansion(f, m) = Expansion(f, m - 1) \o u
        BY <2>3, <2>5, ExpansionStep
    <2>7. PICK w \in Seq(Chars) : w = Expansion(f, n)
        BY ExpansionType
    <2>8. (w \o t) \o u = w \o (t \o u)
        BY ConcatAssociative
    <2>9. t \o u \in Seq(Chars)
        OBVIOUS
    <2>10. QED
        BY <2>2, <2>4, <2>6, <2>7, <2>8, <2>9
<1>3. Nat \subseteq S
    <2> HIDE DEF S
    <2>1. QED
        BY <1>1, <1>2, NatSetInduction
<1>4. Len(f) - n \in Nat /\ n + (Len(f) - n) = Len(f) /\ Len(f) <= Len(f)
    OBVIOUS
<1>5. Len(f) - n \in S
    BY <1>3, <1>4
<1>6. QED
    BY <1>4, <1>5

---------------------------------------------------------------------------
(* How far vsnprintf is.                                                   *)

Current == fmt[pos]
Before == Expansion(fmt, pos - 1)

\* No number was cut so far.
NothingCut == pos <= Len(fmt) + 1 /\ \A i \in 1 .. pos - 1 : ~NumberCut(fmt, i)

\* Between two directives, dest holds what fits of those before.
Scanning == pc = "scan" => dest = Cut(Before, size0)

\* So much of the string is printed, p, and the rest is in str.
PrintingString ==
    pc = "string" =>
        /\ pos <= Len(fmt) /\ Current.kind = "s"
        /\ \E p \in Seq(Chars) : Current.text = p \o str /\ dest = Cut(Before \o p, size0)

ConvertingNumber ==
    pc \in {"digits", "sign", "overflow"} =>
        pos <= Len(fmt) /\ Current.kind \in Numeric /\ dest = Cut(Before, size0)

\* x has the digits to come, buf those there are.
MoreDigits ==
    pc = "digits" =>
        /\ Base(Current) \in Bases
        /\ Text(Current) = Minus(sign) \o (Numeral(x, Base(Current)) \o Reverse(buf))

NoMoreDigits ==
    pc = "sign" => buf # <<>> /\ Text(Current) = Minus(sign) \o Reverse(buf)

\* dest and the digits to come are the whole number; or there was no room even
\* for what comes before the number, and the loop does not end.
PrintingNumber ==
    pc = "emit" =>
        /\ pos <= Len(fmt)
        /\ \/ Len(Before) <= size0 /\ Before \o Text(Current) = dest \o Reverse(buf)
           \/ Len(Before) > size0 /\ dest = Cut(Before, size0) /\ buf # <<>>

Finished ==
    pc = "done" =>
        /\ dest = Append(Cut(Expansion(fmt, Len(fmt)), size0), NUL)
        /\ \A i \in DOMAIN fmt : ~NumberCut(fmt, i)

Progress ==
    /\ NothingCut /\ Scanning /\ PrintingString
    /\ ConvertingNumber /\ MoreDigits /\ NoMoreDigits /\ OverflowJustified
    /\ PrintingNumber /\ Finished

\* What is known of the directive that is printed.
LEMMA CurrentType ==
    ASSUME Inv, pos <= Len(fmt)
    PROVE  /\ fmt \in Seq(Directive) /\ size0 \in Nat /\ pos \in 1 .. Len(fmt)
           /\ Current \in Directive
           /\ Before \in Seq(Chars) /\ Text(Current) \in Seq(Chars)
           /\ Expansion(fmt, pos) = Before \o Text(Current)
<1>1. fmt \in Seq(Directive) /\ size0 \in Nat
    BY StdioAssumption DEF Inv, TypeOK
<1>2. pos \in 1 .. Len(fmt) /\ pos - 1 \in 0 .. Len(fmt)
    BY <1>1 DEF Inv, TypeOK
<1>3. Current \in Directive
    BY DirectiveType DEF Inv, Current
<1>4. Before \in Seq(Chars)
    BY <1>1, <1>2, ExpansionType DEF Before
<1>5. Text(Current) \in Seq(Chars)
    BY <1>3, TextType
<1>6. Expansion(fmt, pos) = Before \o Text(Current)
    BY <1>1, <1>2, ExpansionStep DEF Before, Current
<1>7. QED
    BY <1>1, <1>2, <1>3, <1>4, <1>5, <1>6

\* putc keeps what fits.
LEMMA PutCut ==
    ASSUME Inv, pc # "done", NEW w \in Seq(Chars), dest = Cut(w, size0),
           NEW c \in Chars, Put(c)
    PROVE  dest' = Cut(Append(w, c), size0)
<1>1. size0 \in Nat /\ size \in Nat /\ Len(dest) \in Nat /\ size + Len(dest) = size0
    <2>1. size + count = size0 /\ Len(dest) = count
        BY DEF Inv, TerminatedAtCount
    <2>2. QED
        BY <2>1, StdioAssumption DEF Inv, TypeOK
<1>2. Cut(Append(w, c), size0) = IF Len(dest) < size0 THEN Append(dest, c) ELSE dest
    BY <1>1, CutAppend
<1>3. CASE size > 0
    BY <1>1, <1>2, <1>3 DEF Put
<1>4. CASE ~(size > 0)
    BY <1>1, <1>2, <1>4 DEF Put, output
<1>5. QED
    BY <1>3, <1>4

\* The steps that end a directive.
LEMMA NextDirective ==
    ASSUME Inv, NothingCut, pos <= Len(fmt),
           fmt' = fmt, size0' = size0, pos' = pos + 1, pc' = "scan",
           dest' = Cut(Expansion(fmt, pos), size0), ~NumberCut(fmt, pos)
    PROVE  Progress'
<1>1. pos \in 1 .. Len(fmt) /\ Len(fmt) \in Nat /\ pos' - 1 = pos
    BY CurrentType
<1>2. \A i \in 1 .. pos : ~NumberCut(fmt, i)
    BY <1>1 DEF NothingCut
<1>3. NothingCut'
    BY <1>1, <1>2 DEF NothingCut, NumberCut
<1>4. Scanning'
    BY <1>1 DEF Scanning, Before
<1>5. (PrintingString /\ ConvertingNumber /\ MoreDigits /\ NoMoreDigits)'
    BY DEF PrintingString, ConvertingNumber, MoreDigits, NoMoreDigits
<1>6. (OverflowJustified /\ PrintingNumber /\ Finished)'
    BY DEF OverflowJustified, PrintingNumber, Finished
<1>7. QED
    BY <1>3, <1>4, <1>5, <1>6 DEF Progress

\* What does not change within a directive.
LEMMA SameDirective ==
    ASSUME fmt' = fmt, size0' = size0, pos' = pos
    PROVE  /\ Current' = Current /\ Before' = Before
           /\ NothingCut => NothingCut'
<1>1. Current' = Current /\ Before' = Before
    BY DEF Current, Before
<1>2. ASSUME NothingCut PROVE NothingCut'
    BY <1>2 DEF NothingCut, NumberCut
<1>3. QED
    BY <1>1, <1>2

\* Nothing is printed before the first directive.
LEMMA InitProgress == Init => Progress
<1> SUFFICES ASSUME Init PROVE Progress
    OBVIOUS
<1>1. Inv
    BY InitInv
<1>2. fmt \in Seq(Directive) /\ size0 \in Nat /\ Len(fmt) \in Nat
    BY <1>1, StdioAssumption DEF Inv, TypeOK
<1>3. pos = 1 /\ pc = "scan" /\ dest = <<>> /\ pos - 1 = 0
    BY DEF Init
<1>4. NothingCut
    BY <1>2, <1>3 DEF NothingCut
<1>5. Scanning
    <2>1. Before = <<>>
        BY <1>2, <1>3, ExpansionStep DEF Before
    <2>2. Cut(<<>>, size0) = <<>>
        BY <1>2 DEF Cut
    <2>3. QED
        BY <1>3, <2>1, <2>2 DEF Scanning
<1>6. PrintingString /\ ConvertingNumber /\ MoreDigits /\ NoMoreDigits
    BY <1>3 DEF PrintingString, ConvertingNumber, MoreDigits, NoMoreDigits
<1>7. OverflowJustified /\ PrintingNumber /\ Finished
    BY <1>3 DEF OverflowJustified, PrintingNumber, Finished
<1>8. QED
    BY <1>4, <1>5, <1>6, <1>7 DEF Progress

\* Characters and unknown conversions.
LEMMA PlainProgress ==
    ASSUME Inv, Progress, PutChar \/ Ignore
    PROVE  Progress'
<1>1. /\ pc = "scan" /\ pos <= Len(fmt) /\ fmt' = fmt /\ size0' = size0
      /\ pos' = pos + 1 /\ pc' = "scan" /\ Current.kind \in {"char", "c", "%", "other"}
    BY DEF PutChar, Ignore, At, Current
<1>2. /\ fmt \in Seq(Directive) /\ size0 \in Nat /\ Current \in Directive
      /\ Before \in Seq(Chars) /\ Text(Current) \in Seq(Chars)
      /\ Expansion(fmt, pos) = Before \o Text(Current)
    BY <1>1, CurrentType
<1>3. dest = Cut(Before, size0)
    BY <1>1 DEF Progress, Scanning
<1>4. ~NumberCut(fmt, pos)
    BY <1>1 DEF NumberCut, Numeric, Current
<1>5. CASE PutChar
    <2>1. PICK c : c = IF Current.kind = "%" THEN "%" ELSE Current.text[1]
        OBVIOUS
    <2>2. Put(c)
        BY <1>5, <2>1 DEF PutChar, Current
    <2>3. c \in Chars /\ Text(Current) = <<c>>
        <3>1. CASE Current.kind = "%"
            BY <2>1, <3>1, TextCases, StdioAssumption
        <3>2. CASE Current.kind # "%"
            <4>1. Current.kind \in {"char", "c"}
                BY <1>5, <3>2 DEF PutChar, At, Current
            <4>2. c = Current.text[1] /\ c \in Chars
                BY <1>1, <2>1, <3>2, <4>1, DirectiveType DEF Inv, Current
            <4>3. Text(Current) = Current.text
                BY <4>1, TextCases
            <4>4. Len(Current.text) = 1
                <5>1. fmt \in Formats /\ pos \in DOMAIN fmt
                    BY <1>1, CurrentType DEF Inv, TypeOK
                <5>2. QED
                    BY <4>1, <5>1, StdioAssumption DEF Current
            <4>5. PICK t \in Seq(Chars) : t = Current.text
                BY <1>2 DEF Directive
            <4>6. t = <<t[1]>>
                BY <4>4, <4>5
            <4>7. QED
                BY <4>2, <4>3, <4>5, <4>6
        <3>3. QED
            BY <3>1, <3>2
    <2>4. PICK w \in Seq(Chars) : w = Before
        BY <1>2
    <2>5. dest' = Cut(Append(w, c), size0)
        BY <1>1, <1>3, <2>2, <2>3, <2>4, PutCut
    <2>6. Append(w, c) = w \o <<c>>
        BY <2>3, AppendIsConcat
    <2>7. dest' = Cut(Expansion(fmt, pos), size0)
        BY <1>2, <2>3, <2>4, <2>5, <2>6
    <2>8. QED
        BY <1>1, <1>4, <2>7, NextDirective DEF Progress
<1>6. CASE Ignore
    <2>1. dest' = dest /\ Current.kind = "other"
        BY <1>6 DEF Ignore, At, Current, output
    <2>2. Text(Current) = <<>>
        BY <2>1, TextCases
    <2>3. Expansion(fmt, pos) = Before
        BY <1>2, <2>2
    <2>4. QED
        BY <1>1, <1>3, <1>4, <2>1, <2>3, NextDirective DEF Progress
<1>7. QED
    BY <1>5, <1>6

\* The end of the format.
LEMMA ReturnProgress ==
    ASSUME Inv, Progress, Return
    PROVE  Progress'
<1>1. /\ fmt' = fmt /\ size0' = size0 /\ pos' = pos
      /\ pc = "scan" /\ pc' = "done" /\ dest' = Append(dest, NUL)
    BY DEF Return
<1>2. fmt \in Seq(Directive) /\ Len(fmt) \in Nat /\ DOMAIN fmt = 1 .. Len(fmt) /\ pos \in Nat \ {0}
    BY StdioAssumption DEF Inv, TypeOK
<1>3. dest = Cut(Before, size0) /\ NothingCut
    BY <1>1 DEF Progress, Scanning
<1>4. Before = Expansion(fmt, Len(fmt)) /\ \A i \in DOMAIN fmt : ~NumberCut(fmt, i)
    <2>1. CASE pos > Len(fmt)
        <3>1. pos - 1 = Len(fmt)
            BY <1>2, <1>3, <2>1 DEF NothingCut
        <3>2. QED
            BY <1>2, <1>3, <3>1 DEF NothingCut, Before
    <2>2. CASE ~(pos > Len(fmt))
        <3>1. pos <= Len(fmt) /\ Current.kind = "end"
            BY <1>2, <2>2 DEF Return, At, Current
        <3>2. pos = Len(fmt)
            <4>1. pos \in DOMAIN fmt /\ fmt \in Formats
                BY <1>2, <3>1 DEF Inv, TypeOK
            <4>2. QED
                BY <3>1, <4>1, StdioAssumption DEF Current
        <3>3. Text(Current) = <<>>
            BY <3>1, TextCases
        <3>4. Expansion(fmt, pos) = Before \o <<>> /\ Before \in Seq(Chars)
            BY <3>1, <3>3, CurrentType
        <3>5. Expansion(fmt, Len(fmt)) = Before
            BY <3>2, <3>4
        <3>6. ~NumberCut(fmt, pos)
            BY <3>1 DEF NumberCut, Numeric, Current
        <3>7. ASSUME NEW i \in DOMAIN fmt PROVE ~NumberCut(fmt, i)
            <4>1. i \in 1 .. pos - 1 \/ i = pos
                BY <1>2, <3>2
            <4>2. QED
                BY <1>3, <3>6, <4>1 DEF NothingCut
        <3>8. QED
            BY <3>5, <3>7
    <2>3. QED
        BY <2>1, <2>2
<1>5. Finished'
    BY <1>1, <1>3, <1>4 DEF Finished, NumberCut
<1>6. NothingCut'
    BY <1>1, <1>3, SameDirective
<1>7. (Scanning /\ PrintingString /\ ConvertingNumber /\ MoreDigits /\ NoMoreDigits)'
    BY <1>1 DEF Scanning, PrintingString, ConvertingNumber, MoreDigits, NoMoreDigits
<1>8. (OverflowJustified /\ PrintingNumber)'
    BY <1>1 DEF OverflowJustified, PrintingNumber
<1>9. QED
    BY <1>5, <1>6, <1>7, <1>8 DEF Progress

\* The loop over a string.
LEMMA StringProgress ==
    ASSUME Inv, Progress, StringStart \/ StringChar \/ StringEnd
    PROVE  Progress'
<1>1. fmt' = fmt /\ size0' = size0 /\ pos <= Len(fmt) /\ Current.kind = "s" /\ NothingCut
    BY DEF StringStart, StringChar, StringEnd, At, Current, Progress, PrintingString
<1>2. /\ fmt \in Seq(Directive) /\ size0 \in Nat /\ Current \in Directive
      /\ Before \in Seq(Chars) /\ Text(Current) \in Seq(Chars)
      /\ Expansion(fmt, pos) = Before \o Text(Current)
    BY <1>1, CurrentType
<1>3. Text(Current) = Current.text
    BY <1>1, TextCases
<1>4. CASE StringStart \/ StringChar
    <2>1. pos' = pos /\ pc' = "string"
        BY <1>4 DEF StringStart, StringChar, number
    <2>2. Current' = Current /\ Before' = Before /\ NothingCut'
        BY <1>1, <2>1, SameDirective
    <2>3. \E p \in Seq(Chars) : Current.text = p \o str' /\ dest' = Cut(Before \o p, size0)
        <3>1. CASE StringStart
            <4>1. str' = Current.text /\ dest' = dest /\ dest = Cut(Before, size0)
                BY <3>1 DEF StringStart, At, Current, output, Progress, Scanning
            <4>2. PICK e : e = <<>>
                OBVIOUS
            <4>3. e \in Seq(Chars) /\ Current.text = e \o str' /\ Before \o e = Before
                BY <1>2, <1>3, <4>1, <4>2
            <4>4. QED
                BY <4>1, <4>3, Zenon
        <3>2. CASE StringChar
            <4>1. /\ str # <<>> /\ str \in Seq(Chars) /\ str' = Tail(str)
                  /\ Put(Head(str)) /\ pc = "string"
                BY <3>2 DEF StringChar, Inv, TypeOK
            <4>2. PICK p \in Seq(Chars) : Current.text = p \o str /\ dest = Cut(Before \o p, size0)
                BY <4>1 DEF Progress, PrintingString
            <4>3. PICK c \in Chars : c = Head(str)
                BY <4>1
            <4>4. PICK r \in Seq(Chars) : r = Tail(str)
                BY <4>1
            <4>5. str = <<c>> \o r
                BY <4>1, <4>3, <4>4
            <4>6. PICK q : q = p \o <<c>>
                OBVIOUS
            <4>7. q \in Seq(Chars) /\ Current.text = q \o r
                <5>1. <<c>> \in Seq(Chars)
                    OBVIOUS
                <5>2. (p \o <<c>>) \o r = p \o (<<c>> \o r)
                    BY <5>1, ConcatAssociative
                <5>3. QED
                    BY <4>2, <4>5, <4>6, <5>1, <5>2
            <4>8. PICK w \in Seq(Chars) : w = Before \o p
                BY <1>2, ConcatType, Zenon
            <4>9. dest' = Cut(Append(w, c), size0)
                BY <4>1, <4>2, <4>3, <4>8, PutCut
            <4>10. Append(w, c) = Before \o q
                <5>1. PICK b \in Seq(Chars) : b = Before
                    BY <1>2
                <5>2. <<c>> \in Seq(Chars) /\ (b \o p) \o <<c>> = b \o (p \o <<c>>)
                    BY ConcatAssociative
                <5>3. Append(w, c) = w \o <<c>>
                    BY AppendIsConcat
                <5>4. QED
                    BY <4>6, <4>8, <5>1, <5>2, <5>3
            <4>11. QED
                BY <4>1, <4>4, <4>7, <4>9, <4>10
        <3>3. QED
            BY <1>4, <3>1, <3>2
    <2>4. PrintingString'
        BY <1>1, <2>1, <2>2, <2>3 DEF PrintingString
    <2>5. (Scanning /\ ConvertingNumber /\ MoreDigits /\ NoMoreDigits)'
        BY <2>1 DEF Scanning, ConvertingNumber, MoreDigits, NoMoreDigits
    <2>6. (OverflowJustified /\ PrintingNumber /\ Finished)'
        BY <2>1 DEF OverflowJustified, PrintingNumber, Finished
    <2>7. QED
        BY <2>2, <2>4, <2>5, <2>6 DEF Progress
<1>5. CASE StringEnd
    <2>1. pos' = pos + 1 /\ pc' = "scan" /\ dest' = dest /\ str = <<>> /\ pc = "string"
        BY <1>5 DEF StringEnd, output
    <2>2. PICK p \in Seq(Chars) : Current.text = p \o <<>> /\ dest = Cut(Before \o p, size0)
        BY <2>1 DEF Progress, PrintingString
    <2>3. Current.text = p
        BY <2>2
    <2>4. dest' = Cut(Expansion(fmt, pos), size0)
        BY <1>2, <1>3, <2>1, <2>2, <2>3
    <2>5. ~NumberCut(fmt, pos)
        BY <1>1 DEF NumberCut, Numeric, Current
    <2>6. QED
        BY <1>1, <2>1, <2>4, <2>5, NextDirective
<1>6. QED
    BY <1>4, <1>5

\* A number is converted in place: what is known of dest stays.
LEMMA NumberFrame ==
    ASSUME NothingCut, fmt' = fmt, size0' = size0, pos' = pos, dest' = dest,
           pos <= Len(fmt), Current.kind \in Numeric, dest = Cut(Before, size0),
           pc' \in {"digits", "sign", "overflow"}
    PROVE  (/\ NothingCut /\ Scanning /\ PrintingString /\ ConvertingNumber
            /\ PrintingNumber /\ Finished)'
<1>1. Current' = Current /\ Before' = Before /\ NothingCut'
    BY SameDirective
<1>2. ConvertingNumber'
    BY <1>1 DEF ConvertingNumber
<1>3. (Scanning /\ PrintingString /\ PrintingNumber /\ Finished)'
    BY DEF Scanning, PrintingString, PrintingNumber, Finished
<1>4. QED
    BY <1>1, <1>2, <1>3

\* printint_rev is called with the magnitude and the sign (stdio.c:71-90).
LEMMA NumberStartProgress ==
    ASSUME Inv, Progress, NumberStart
    PROVE  Progress'
<1>1. /\ fmt' = fmt /\ size0' = size0 /\ pos' = pos /\ dest' = dest /\ pc = "scan" /\ pc' = "digits"
      /\ pos <= Len(fmt) /\ Current.kind \in Numeric /\ buf' = <<>> /\ sign' = Negative(Current)
      /\ x' = IF Negative(Current) THEN 2 * HALF - Current.num ELSE Current.num
    BY DEF NumberStart, At, Current, output
<1>2. dest = Cut(Before, size0) /\ NothingCut
    BY <1>1 DEF Progress, Scanning
<1>3. (/\ NothingCut /\ Scanning /\ PrintingString /\ ConvertingNumber
       /\ PrintingNumber /\ Finished)'
    BY <1>1, <1>2, NumberFrame
<1>4. Current' = Current
    BY <1>1, SameDirective
<1>5. MoreDigits'
    <2>1. Current \in Directive
        BY <1>1, CurrentType
    <2>2. PICK n : n = x'
        OBVIOUS
    <2>3. n = IF Negative(Current) THEN 2 * HALF - Current.num ELSE Current.num
        BY <1>1, <2>2
    <2>4. /\ n \in Ints /\ Base(Current) \in Bases
          /\ Text(Current) = Minus(Negative(Current)) \o Numeral(n, Base(Current))
        BY <1>1, <2>1, <2>3, NumberText
    <2>5. PICK w \in Seq(Chars) : w = Numeral(n, Base(Current))
        BY <2>4, NumeralType
    <2>6. Reverse(<<>>) = <<>>
        <3>1. <<>> \in Seq(Chars) /\ Len(<<>>) = 0
            OBVIOUS
        <3>2. PICK r : r = Reverse(<<>>)
            OBVIOUS
        <3>3. r \in Seq(Chars) /\ Len(r) = 0
            BY <3>1, <3>2, ReverseType
        <3>4. QED
            BY <3>2, <3>3
    <2>7. w \o <<>> = w
        OBVIOUS
    <2>8. Text(Current) = Minus(sign') \o (Numeral(x', Base(Current)) \o Reverse(buf'))
        BY <1>1, <2>2, <2>4, <2>5, <2>6, <2>7
    <2>9. QED
        BY <1>4, <2>4, <2>8 DEF MoreDigits
<1>6. (NoMoreDigits /\ OverflowJustified)'
    BY <1>1 DEF NoMoreDigits, OverflowJustified
<1>7. QED
    BY <1>3, <1>5, <1>6 DEF Progress

\* A digit moves from x to buf.
LEMMA DigitProgress ==
    ASSUME Inv, Progress, Digit
    PROVE  Progress'
<1>1. /\ fmt' = fmt /\ size0' = size0 /\ pos' = pos /\ dest' = dest /\ pc = "digits" /\ sign' = sign
    BY DEF Digit, output
<1>2. /\ pos <= Len(fmt) /\ Current.kind \in Numeric /\ dest = Cut(Before, size0) /\ NothingCut
      /\ Base(Current) \in Bases
      /\ Text(Current) = Minus(sign) \o (Numeral(x, Base(Current)) \o Reverse(buf))
    BY <1>1 DEF Progress, ConvertingNumber, MoreDigits
<1>3. PICK base \in Bases : base = Base(Current)
    BY <1>2
<1>4. x \in Ints /\ x \in Nat /\ buf \in Seq(Chars) /\ base \in Nat
    BY StdioAssumption DEF Inv, TypeOK, Ints, Bases
<1>5. x % base \in 0 .. 15
    BY <1>4, Quotient DEF Bases
<1>6. PICK c \in Chars : c = DIGITS[(x % base) + 1]
    BY <1>5, DigitType
<1>7. /\ buf' = Append(buf, c) /\ x' = x \div base
      /\ pc' = IF x \div base = 0 THEN "sign" ELSE "digits"
    BY <1>3, <1>6 DEF Digit, Current
<1>8. PICK r \in Seq(Chars) : r = Reverse(buf)
    BY <1>4, ReverseType
<1>9. Reverse(buf') = <<c>> \o r /\ buf' # <<>>
    <2>1. Reverse(buf') = <<c>> \o r
        BY <1>4, <1>7, <1>8, ReverseAppend
    <2>2. Append(buf, c) # <<>>
        BY <1>4, AppendProperties
    <2>3. QED
        BY <1>7, <2>1, <2>2
<1>10. Current' = Current
    BY <1>1, SameDirective
<1>11. (/\ NothingCut /\ Scanning /\ PrintingString /\ ConvertingNumber
        /\ PrintingNumber /\ Finished)'
    BY <1>1, <1>2, <1>7, NumberFrame
<1>12. OverflowJustified'
    BY <1>7 DEF OverflowJustified
<1>13. (MoreDigits /\ NoMoreDigits)'
    <2>1. CASE x < base
        <3>1. x \div base = 0 /\ x % base = x
            BY <1>4, <2>1, Quotient
        <3>2. pc' = "sign"
            BY <1>7, <3>1
        <3>3. Numeral(x, base) = <<c>>
            BY <1>4, <1>6, <2>1, <3>1, NumeralUnfold
        <3>4. Text(Current) = Minus(sign) \o (<<c>> \o r)
            BY <1>2, <1>3, <1>8, <3>3
        <3>5. QED
            BY <1>1, <1>9, <1>10, <3>2, <3>4 DEF MoreDigits, NoMoreDigits
    <2>2. CASE ~(x < base)
        <3>1. x \div base # 0 /\ x \div base < x /\ x \div base \in Nat
            BY <1>4, <2>2, Quotient
        <3>2. pc' = "digits"
            BY <1>7, <3>1
        <3>3. x \div base \in Ints
            BY <1>4, <3>1, StdioAssumption DEF Ints
        <3>4. PICK w \in Seq(Chars) : w = Numeral(x \div base, base)
            BY <3>3, NumeralType
        <3>5. Numeral(x, base) = Append(w, c)
            BY <1>4, <1>6, <2>2, <3>4, NumeralUnfold
        <3>6. Append(w, c) = w \o <<c>> /\ <<c>> \in Seq(Chars)
            BY AppendIsConcat
        <3>7. (w \o <<c>>) \o r = w \o (<<c>> \o r)
            BY <3>6, ConcatAssociative
        <3>8. Text(Current) = Minus(sign) \o (w \o (<<c>> \o r))
            BY <1>2, <1>3, <1>8, <3>5, <3>6, <3>7
        <3>9. w = Numeral(x', Base(Current))
            BY <1>3, <1>7, <3>4
        <3>10. QED
            BY <1>1, <1>2, <1>9, <1>10, <3>2, <3>8, <3>9 DEF MoreDigits, NoMoreDigits
    <2>3. QED
        BY <2>1, <2>2
<1>14. QED
    BY <1>11, <1>12, <1>13 DEF Progress

\* With the sign, buf is the whole number, in reverse.
LEMMA SignedText ==
    ASSUME Inv, Progress, pc = "sign"
    PROVE  /\ Signed \in Seq(Chars) /\ Signed # <<>>
           /\ Text(Current) = Reverse(Signed)
<1>1. buf # <<>> /\ Text(Current) = Minus(sign) \o Reverse(buf)
    BY DEF Progress, NoMoreDigits
<1>2. buf \in Seq(Chars) /\ "-" \in Chars
    BY StdioAssumption DEF Inv, TypeOK
<1>3. PICK r \in Seq(Chars) : r = Reverse(buf)
    BY <1>2, ReverseType
<1>4. CASE sign
    <2>1. Signed = Append(buf, "-") /\ Minus(sign) = <<"-">>
        BY <1>4 DEF Signed, Minus
    <2>2. Reverse(Signed) = <<"-">> \o Reverse(buf)
        BY <1>2, <2>1, ReverseAppend
    <2>3. QED
        BY <1>1, <1>2, <2>1, <2>2, AppendProperties
<1>5. CASE ~sign
    <2>1. Signed = buf /\ Minus(sign) = <<>>
        BY <1>5 DEF Signed, Minus
    <2>2. <<>> \o r = r
        OBVIOUS
    <2>3. QED
        BY <1>1, <1>2, <1>3, <2>1, <2>2
<1>6. QED
    BY <1>4, <1>5

\* buf then holds the number in reverse.
LEMMA SignProgress ==
    ASSUME Inv, Progress, SignAndTerminate
    PROVE  Progress'
<1>1. /\ fmt' = fmt /\ size0' = size0 /\ pos' = pos /\ dest' = dest
      /\ pc = "sign" /\ pc' = "emit" /\ buf' = Signed
    BY DEF SignAndTerminate, output
<1>2. pos <= Len(fmt) /\ dest = Cut(Before, size0) /\ NothingCut
    BY <1>1 DEF Progress, ConvertingNumber
<1>3. size0 \in Nat /\ Before \in Seq(Chars) /\ Len(Before) \in Nat
    BY <1>2, CurrentType
<1>4. Current' = Current /\ Before' = Before /\ NothingCut'
    BY <1>1, <1>2, SameDirective
<1>5. Text(Current) = Reverse(buf') /\ buf' # <<>>
    BY <1>1, SignedText
<1>6. PrintingNumber'
    <2>1. CASE Len(Before) <= size0
        <3>1. dest = Before
            BY <1>2, <2>1 DEF Cut
        <3>2. QED
            BY <1>1, <1>2, <1>4, <1>5, <2>1, <3>1 DEF PrintingNumber
    <2>2. CASE Len(Before) > size0
        BY <1>1, <1>2, <1>4, <1>5, <2>2 DEF PrintingNumber
    <2>3. QED
        BY <1>3, <2>1, <2>2
<1>7. (Scanning /\ PrintingString /\ ConvertingNumber /\ MoreDigits /\ NoMoreDigits)'
    BY <1>1 DEF Scanning, PrintingString, ConvertingNumber, MoreDigits, NoMoreDigits
<1>8. (OverflowJustified /\ Finished)'
    BY <1>1 DEF OverflowJustified, Finished
<1>9. QED
    BY <1>4, <1>6, <1>7, <1>8 DEF Progress

\* buf[size+1] is too small only for a number longer than the destination.
LEMMA OverflowProgress ==
    ASSUME Inv, Progress, Overflow
    PROVE  Progress'
<1>1. /\ fmt' = fmt /\ size0' = size0 /\ pos' = pos /\ dest' = dest
      /\ pc \in {"digits", "sign"} /\ pc' = "overflow"
    BY DEF Overflow, output
<1>2. /\ pos <= Len(fmt) /\ Current.kind \in Numeric /\ dest = Cut(Before, size0) /\ NothingCut
    BY <1>1 DEF Progress, ConvertingNumber
<1>3. (/\ NothingCut /\ Scanning /\ PrintingString /\ ConvertingNumber
       /\ PrintingNumber /\ Finished)'
    BY <1>1, <1>2, NumberFrame
<1>4. (MoreDigits /\ NoMoreDigits)'
    BY <1>1 DEF MoreDigits, NoMoreDigits
<1>5. size0 \in Nat /\ buf \in Seq(Chars) /\ x \in Ints /\ sign \in BOOLEAN
    BY StdioAssumption DEF Inv, TypeOK
<1>6. Len(Text(Current)) > size0
    <2>1. CASE pc = "digits"
        <3>1. Len(buf) >= size0 + 1
            BY <2>1 DEF Overflow, BufSize
        <3>2. /\ Base(Current) \in Bases
              /\ Text(Current) = Minus(sign) \o (Numeral(x, Base(Current)) \o Reverse(buf))
            BY <2>1 DEF Progress, MoreDigits
        <3>3. PICK w \in Seq(Chars) : w = Numeral(x, Base(Current))
            BY <1>5, <3>2, NumeralType
        <3>4. PICK r \in Seq(Chars) : r = Reverse(buf) /\ Len(r) = Len(buf)
            BY <1>5, ReverseType
        <3>5. PICK m \in Seq(Chars) : m = Minus(sign)
            BY <1>5, MinusType
        <3>6. w \o r \in Seq(Chars) /\ Len(w \o r) = Len(w) + Len(r)
            OBVIOUS
        <3>7. Len(m \o (w \o r)) = Len(m) + (Len(w) + Len(r))
            BY <3>6
        <3>8. Len(m) \in Nat /\ Len(w) \in Nat /\ Len(r) \in Nat
            OBVIOUS
        <3>9. Len(Text(Current)) = Len(m) + (Len(w) + Len(r))
            BY <3>2, <3>3, <3>4, <3>5, <3>7
        <3>10. QED
            BY <1>5, <3>1, <3>4, <3>8, <3>9
    <2>2. CASE pc = "sign"
        <3>1. Len(Signed) >= size0 + 1
            BY <2>2 DEF Overflow, BufSize
        <3>2. Signed \in Seq(Chars) /\ Text(Current) = Reverse(Signed)
            BY <2>2, SignedText
        <3>3. Len(Text(Current)) = Len(Signed) /\ Len(Signed) \in Nat
            BY <3>2, ReverseType
        <3>4. QED
            BY <1>5, <3>1, <3>3
    <2>3. QED
        BY <1>1, <2>1, <2>2
<1>7. OverflowJustified'
    BY <1>1, <1>6 DEF OverflowJustified, Current
<1>8. QED
    BY <1>3, <1>4, <1>7 DEF Progress

\* The loop over the digits.
LEMMA EmitProgress ==
    ASSUME Inv, Progress, EmitDigit \/ EmitEnd
    PROVE  Progress'
<1>1. fmt' = fmt /\ size0' = size0 /\ pc = "emit"
    BY DEF EmitDigit, EmitEnd
<1>2. /\ NothingCut /\ pos <= Len(fmt)
      /\ \/ Len(Before) <= size0 /\ Before \o Text(Current) = dest \o Reverse(buf)
         \/ Len(Before) > size0 /\ dest = Cut(Before, size0) /\ buf # <<>>
    BY <1>1 DEF Progress, PrintingNumber
<1>3. /\ fmt \in Seq(Directive) /\ size0 \in Nat /\ Current \in Directive
      /\ Before \in Seq(Chars) /\ Text(Current) \in Seq(Chars)
      /\ Expansion(fmt, pos) = Before \o Text(Current)
    BY <1>2, CurrentType
<1>4. /\ dest \in Seq(Chars) /\ buf \in Seq(Chars) /\ size \in Nat /\ Len(dest) \in Nat
      /\ Len(dest) <= size0 /\ size + Len(dest) = size0
    BY <1>1, <1>3 DEF Inv, TypeOK, TerminatedAtCount, Unterminated
<1>5. CASE EmitDigit
    <2>1. buf # <<>> /\ size > 0 /\ pos' = pos /\ pc' = "emit" /\ dest' = Append(dest, buf[Len(buf)])
          /\ buf' = SubSeq(buf, 1, Len(buf) - 1)
        BY <1>5 DEF EmitDigit, Put
    <2>2. PICK b \in Seq(Chars), c \in Chars : buf = Append(b, c)
        BY <1>4, <2>1, SequenceEmptyOrAppend
    <2>3. dest' = Append(dest, c) /\ buf' = b
        <3>1. Len(buf) = Len(b) + 1 /\ buf[Len(buf)] = c /\ Len(b) \in Nat
            BY <2>2, AppendProperties
        <3>2. PICK p : p = SubSeq(buf, 1, Len(b))
            OBVIOUS
        <3>3. \A i \in 1 .. Len(b) : buf[i] = b[i] /\ buf[i] \in Chars
            BY <2>2, AppendProperties
        <3>4. p \in Seq(Chars) /\ Len(p) = Len(b) /\ \A i \in 1 .. Len(b) : p[i] = buf[i]
            BY <3>1, <3>2, <3>3, SubSeqProperties
        <3>5. p = b
            BY <3>3, <3>4, SeqEqual
        <3>6. QED
            BY <2>1, <3>1, <3>2, <3>5
    <2>4. ~(Len(Before) > size0 /\ dest = Cut(Before, size0))
        BY <1>3, <1>4, <2>1, CutType
    <2>5. Len(Before) <= size0 /\ Before \o Text(Current) = dest \o Reverse(buf)
        BY <1>2, <2>4
    <2>6. PICK r \in Seq(Chars) : r = Reverse(b)
        BY ReverseType
    <2>7. Reverse(buf) = <<c>> \o r /\ <<c>> \in Seq(Chars)
        BY <2>2, <2>6, ReverseAppend
    <2>8. Append(dest, c) = dest \o <<c>>
        BY <1>4, AppendIsConcat
    <2>9. (dest \o <<c>>) \o r = dest \o (<<c>> \o r)
        BY <1>4, <2>7, ConcatAssociative
    <2>10. Before \o Text(Current) = dest' \o Reverse(buf')
        BY <2>3, <2>5, <2>6, <2>7, <2>8, <2>9
    <2>11. Current' = Current /\ Before' = Before /\ NothingCut'
        BY <1>1, <1>2, <2>1, SameDirective
    <2>12. PrintingNumber'
        BY <1>1, <1>2, <2>1, <2>5, <2>10, <2>11 DEF PrintingNumber
    <2>13. (Scanning /\ PrintingString /\ ConvertingNumber /\ MoreDigits /\ NoMoreDigits)'
        BY <2>1 DEF Scanning, PrintingString, ConvertingNumber, MoreDigits, NoMoreDigits
    <2>14. (OverflowJustified /\ Finished)'
        BY <2>1 DEF OverflowJustified, Finished
    <2>15. QED
        BY <2>11, <2>12, <2>13, <2>14 DEF Progress
<1>6. CASE EmitEnd
    <2>1. buf = <<>> /\ pos' = pos + 1 /\ pc' = "scan" /\ dest' = dest
        BY <1>6 DEF EmitEnd, output
    <2>2. Reverse(<<>>) \in Seq(Chars) /\ Len(Reverse(<<>>)) = Len(<<>>)
        <3>1. <<>> \in Seq(Chars)
            OBVIOUS
        <3>2. QED
            BY <3>1, ReverseType
    <2>3. PICK r \in Seq(Chars) : r = Reverse(<<>>) /\ Len(r) = 0
        BY <2>2
    <2>4. dest \o r = dest
        BY <1>4, <2>3
    <2>5. Expansion(fmt, pos) = dest
        BY <1>2, <1>3, <2>1, <2>3, <2>4
    <2>6. ~NumberCut(fmt, pos)
        BY <1>4, <2>5 DEF NumberCut
    <2>7. dest' = Cut(Expansion(fmt, pos), size0)
        BY <1>4, <2>1, <2>5 DEF Cut
    <2>8. QED
        BY <1>1, <1>2, <2>1, <2>6, <2>7, NextDirective
<1>7. QED
    BY <1>5, <1>6

\* A loop that does not end, and a function that returned, change nothing.
LEMMA StutterProgress ==
    ASSUME Progress, UNCHANGED vars
    PROVE  Progress'
<1>1. /\ fmt' = fmt /\ size0' = size0 /\ pos' = pos /\ dest' = dest /\ str' = str
      /\ x' = x /\ sign' = sign /\ buf' = buf /\ pc' = pc
    BY DEF vars, output, number
<1>2. Current' = Current /\ Before' = Before /\ (NothingCut => NothingCut')
    BY <1>1, SameDirective
<1>3. (Scanning /\ PrintingString)'
    BY <1>1, <1>2 DEF Progress, Scanning, PrintingString
<1>4. (ConvertingNumber /\ MoreDigits /\ NoMoreDigits)'
    BY <1>1, <1>2 DEF Progress, ConvertingNumber, MoreDigits, NoMoreDigits
<1>5. (OverflowJustified /\ PrintingNumber /\ Finished)'
    BY <1>1, <1>2 DEF Progress, OverflowJustified, PrintingNumber, Finished, NumberCut
<1>6. QED
    BY <1>2, <1>3, <1>4, <1>5 DEF Progress

\* What vsnprintf has written, and has still to write, is what the format
\* stands for (stdio.c:8-107).
THEOREM ProgressInvariant == Spec => [](Inv /\ Progress)
<1>1. Init => Progress
    BY InitProgress
<1>2. Inv /\ Progress /\ [Next]_vars => Progress'
    <2> SUFFICES ASSUME Inv, Progress, [Next]_vars PROVE Progress'
        OBVIOUS
    <2>1. CASE Return \/ PutChar \/ Ignore
        BY <2>1, ReturnProgress, PlainProgress
    <2>2. CASE StringStart \/ StringChar \/ StringEnd
        BY <2>2, StringProgress
    <2>3. CASE NumberStart \/ Digit \/ SignAndTerminate \/ Overflow
        BY <2>3, NumberStartProgress, DigitProgress, SignProgress, OverflowProgress
    <2>4. CASE EmitDigit \/ EmitEnd
        BY <2>4, EmitProgress
    <2>5. CASE EmitSpins \/ Stopped \/ UNCHANGED vars
        BY <2>5, StutterProgress DEF EmitSpins, Stopped
    <2>6. QED
        BY <2>1, <2>2, <2>3, <2>4, <2>5 DEF Next, Step
<1>3. QED
    BY <1>1, <1>2, StdioInvariant, PTL DEF Spec

\* Before its terminal 0, dest holds on return what fits of the whole format.
LEMMA PrintedWhole ==
    ASSUME Progress, pc = "done", size0 \in Nat,
           NEW whole \in Seq(Chars), whole = Expansion(fmt, Len(fmt))
    PROVE  Printed = Cut(whole, size0)
<1>1. PICK w \in Seq(Chars) : w = Cut(whole, size0)
    BY CutType
<1>2. dest = Append(w, NUL)
    BY <1>1 DEF Progress, Finished
<1>3. w \in Seq(Chars \union {NUL})
    BY TextIsTerminable
<1>4. Len(dest) - 1 = Len(w) /\ Len(w) \in Nat /\ \A i \in 1 .. Len(w) : dest[i] = w[i]
    BY <1>2, <1>3
<1>5. dest \in Seq(Chars \union {NUL}) /\ Len(w) <= Len(dest)
    BY <1>2, <1>3, <1>4
<1>6. SubSeq(dest, 1, Len(w)) = w
    BY <1>3, <1>4, <1>5
<1>7. QED
    BY <1>1, <1>4, <1>6 DEF Printed

\* dest always holds the beginning of what the format stands for, and all of it
\* that fits on return, when no number was cut (stdio.c:8-27, 50-104).
THEOREM OutputIsFormatted == Spec => []Formatted
<1>1. Inv /\ Progress => Formatted
    <2> SUFFICES ASSUME Inv, Progress PROVE Formatted
        OBVIOUS
    <2>1. fmt \in Seq(Directive) /\ size0 \in Nat /\ Len(fmt) \in Nat /\ pos \in Nat \ {0}
        BY StdioAssumption DEF Inv, TypeOK
    <2>2. PICK whole \in Seq(Chars) : whole = Expansion(fmt, Len(fmt))
        BY <2>1, ExpansionType
    <2>3. pos - 1 \in 0 .. Len(fmt)
        BY <2>1 DEF Progress, NothingCut
    <2>4. PICK b \in Seq(Chars) : b = Before
        BY <2>1, <2>3, ExpansionType DEF Before
    <2>5. PICK t \in Seq(Chars) : whole = b \o t
        BY <2>1, <2>2, <2>3, <2>4, ExpansionGoesOn DEF Before
    <2>6. ASSUME pos <= Len(fmt)
          PROVE  \E u \in Seq(Chars) : whole = (b \o Text(Current)) \o u
        <3>1. pos \in 0 .. Len(fmt) /\ Expansion(fmt, pos) = b \o Text(Current)
            BY <2>1, <2>4, <2>6, CurrentType
        <3>2. QED
            BY <2>1, <2>2, <3>1, ExpansionGoesOn
    <2>7. IsPrefix(Printed, whole)
        <3>1. CASE pc # "done" /\ dest = Cut(b, size0)
            BY <2>1, <2>5, <3>1, CutIsPrefix DEF Printed
        <3>2. CASE pc = "string"
            <4>1. /\ pos <= Len(fmt) /\ Current.kind = "s"
                  /\ \E p \in Seq(Chars) : Current.text = p \o str /\ dest = Cut(b \o p, size0)
                BY <2>4, <3>2 DEF Progress, PrintingString
            <4>2. PICK p \in Seq(Chars) : Current.text = p \o str /\ dest = Cut(b \o p, size0)
                BY <4>1
            <4>3. Text(Current) = p \o str
                BY <4>1, <4>2, TextCases
            <4>4. PICK u \in Seq(Chars) : whole = (b \o (p \o str)) \o u
                BY <2>6, <4>1, <4>3
            <4>5. PICK s \in Seq(Chars) : s = str
                BY DEF Inv, TypeOK
            <4>6. QED
                BY <2>1, <3>2, <4>2, <4>4, <4>5, CutOfLonger DEF Printed
        <3>3. CASE pc = "emit" /\ ~(dest = Cut(b, size0))
            <4>1. pos <= Len(fmt) /\ b \o Text(Current) = dest \o Reverse(buf)
                BY <2>4, <3>3 DEF Progress, PrintingNumber
            <4>2. PICK u \in Seq(Chars) : whole = (dest \o Reverse(buf)) \o u
                BY <2>6, <4>1
            <4>3. dest \in Seq(Chars) /\ buf \in Seq(Chars) /\ Printed = dest
                BY <3>3 DEF Inv, TypeOK, Unterminated, Printed
            <4>4. PICK r \in Seq(Chars) : r = Reverse(buf)
                BY <4>3, ReverseType
            <4>5. QED
                BY <4>2, <4>3, <4>4, PrefixOfLonger
        <3>4. CASE pc = "done"
            <4>1. Printed = Cut(whole, size0) /\ whole = whole \o <<>> /\ <<>> \in Seq(Chars)
                BY <2>1, <2>2, <3>4, PrintedWhole
            <4>2. IsPrefix(Cut(whole, size0), whole \o <<>>)
                BY <2>1, <4>1, CutIsPrefix
            <4>3. QED
                BY <4>1, <4>2
        <3>5. CASE pc \in {"scan", "digits", "sign", "overflow"}
            BY <2>4, <3>1, <3>5 DEF Progress, Scanning, ConvertingNumber
        <3>6. pc \in {"scan", "string", "digits", "sign", "emit", "done", "overflow"}
            BY DEF Inv, TypeOK
        <3>7. QED
            BY <3>1, <3>2, <3>3, <3>4, <3>5, <3>6
    <2>8. ASSUME pc = "done"
          PROVE  /\ Len(Printed) = IF size0 < Len(whole) THEN size0 ELSE Len(whole)
                 /\ \A i \in DOMAIN fmt : ~NumberCut(fmt, i)
        <3>1. Printed = Cut(whole, size0) /\ \A i \in DOMAIN fmt : ~NumberCut(fmt, i)
            BY <2>1, <2>2, <2>8, PrintedWhole DEF Progress, Finished
        <3>2. Len(Printed) = IF Len(whole) <= size0 THEN Len(whole) ELSE size0
            BY <2>1, <3>1, CutType
        <3>3. Len(whole) \in Nat
            OBVIOUS
        <3>4. QED
            BY <2>1, <3>1, <3>2, <3>3
    <2>9. QED
        BY <2>2, <2>7, <2>8 DEF Formatted
<1>2. QED
    BY <1>1, ProgressInvariant, PTL

\* buf is overrun only by a number that alone is longer than the destination
\* (stdio.c:47).
THEOREM OverflowIsJustified == Spec => []OverflowJustified
<1>1. Progress => OverflowJustified
    BY DEF Progress
<1>2. QED
    BY <1>1, ProgressInvariant, PTL
=============================================================================
