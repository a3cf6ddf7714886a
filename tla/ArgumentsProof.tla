--------------------------- MODULE ArgumentsProof ---------------------------
(***************************************************************************)
(* Proofs about the arguments of a new task, for any number of rows, any   *)
(* length of a row and any arguments: task_load reads only what it wrote,  *)
(* stays inside tmp_argv when the arguments fit in their rows, hands over  *)
(* exactly those that fit, and leaves the new task its whole stack.        *)
(***************************************************************************)
EXTENDS Arguments, TLAPS, SequenceTheorems, WellFoundedInduction

---------------------------------------------------------------------------
(* Natural numbers: least elements, and induction for a set.               *)

NatLess == {p \in Nat \X Nat : p[1] < p[2]}

LEMMA MinOfNats ==
    ASSUME NEW S, S \subseteq Nat, S # {}
    PROVE  Min(S) \in S /\ \A y \in S : Min(S) <= y
<1>1. IsWellFoundedOn(NatLess, Nat)
    BY NatLessThanWellFounded DEF OpToRel, NatLess
<1>2. PICK n \in S : \A m \in S : ~(<<m, n>> \in NatLess)
    BY <1>1, WFMin
<1>3. ASSUME NEW m \in S PROVE n <= m
    <2>1. m \in Nat /\ n \in Nat /\ (m < n => <<m, n>> \in NatLess)
        BY DEF NatLess
    <2>2. QED
        BY <1>2, <2>1
<1>4. QED
    BY <1>3 DEF Min

LEMMA NatSetInduction ==
    ASSUME NEW S, 0 \in S, \A n \in Nat : n \in S => n + 1 \in S
    PROVE  Nat \subseteq S
<1> DEFINE T == Nat \ S
<1>1. SUFFICES ASSUME T # {} PROVE FALSE
    OBVIOUS
<1> DEFINE n == Min(T)
<1>2. n \in T /\ \A m \in T : n <= m
    <2>1. T \subseteq Nat
        OBVIOUS
    <2> HIDE DEF T
    <2>2. QED
        BY <1>1, <2>1, MinOfNats
<1> HIDE DEF n
<1>3. n # 0 /\ n - 1 \in Nat /\ n = (n - 1) + 1 /\ ~(n <= n - 1)
    BY <1>2
<1>4. n - 1 \in S
    BY <1>2, <1>3
<1>5. QED
    BY <1>2, <1>3, <1>4

---------------------------------------------------------------------------
(* The rows of tmp_argv.                                                   *)

LEMMA ConstantFacts ==
    /\ MAX_ARGS \in Nat \ {0} /\ MAX_ARGS_LENGTH \in Nat \ {0} /\ INT \in Nat \ {0}
    /\ STACK_SIZE \in Nat \ {0} /\ PAGE_SIZE \in Nat \ {0}
    /\ ModSizes \subseteq Nat /\ MaxArgc \in Nat /\ MaxLength \in Nat
    /\ MaxLength + 1 < 256 /\ MaxArgc < 256
BY ArgumentsAssumption

LEMMA RowsOrdered ==
    /\ \A k \in Nat : Row(k) \in Nat /\ Row(k + 1) = Row(k) + MAX_ARGS_LENGTH
    /\ \A k \in Nat, n \in Nat : k < n => Row(k) + MAX_ARGS_LENGTH <= Row(n)
    /\ Room \in Nat /\ Row(MAX_ARGS) = Room
<1> USE ConstantFacts
<1>1. ASSUME NEW k \in Nat PROVE Row(k) \in Nat /\ Row(k + 1) = Row(k) + MAX_ARGS_LENGTH
    BY DEF Row
<1>2. ASSUME NEW k \in Nat, NEW n \in Nat, k < n PROVE Row(k) + MAX_ARGS_LENGTH <= Row(n)
    <2>1. PICK d \in Nat : n = k + 1 + d
        <3>1. n - k - 1 \in Nat /\ n = k + 1 + (n - k - 1)
            BY <1>2
        <3>2. QED
            BY <3>1
    <2>2. d * MAX_ARGS_LENGTH \in Nat
        OBVIOUS
    <2>3. n * MAX_ARGS_LENGTH = k * MAX_ARGS_LENGTH + MAX_ARGS_LENGTH + d * MAX_ARGS_LENGTH
        BY <2>1
    <2>4. QED
        BY <2>2, <2>3 DEF Row
<1>3. Room \in Nat /\ Row(MAX_ARGS) = Room
    BY DEF Row, Room
<1>4. QED
    BY <1>1, <1>2, <1>3

\* A row that begins in tmp_argv, or on len, is one of the first MAX_ARGS + 1.
LEMMA RowInRoom ==
    ASSUME NEW k \in Nat
    PROVE  /\ Row(k) <= Room => k <= MAX_ARGS
           /\ k < MAX_ARGS => Row(k) + MAX_ARGS_LENGTH <= Room
<1>1. MAX_ARGS < k => Room + MAX_ARGS_LENGTH <= Row(k)
    BY RowsOrdered, ConstantFacts
<1>2. k < MAX_ARGS => Row(k) + MAX_ARGS_LENGTH <= Room
    BY RowsOrdered, ConstantFacts
<1>3. QED
    BY <1>1, <1>2, RowsOrdered, ConstantFacts

LEMMA ArgvType ==
    ASSUME TypeOK
    PROVE  /\ argc \in 0 .. MaxArgc /\ argv \in [1 .. argc -> 0 .. MaxLength]
           /\ \A k \in 0 .. argc - 1 : Length(k) \in 0 .. MaxLength
<1>1. PICK n \in 0 .. MaxArgc : argv \in [1 .. n -> 0 .. MaxLength]
    BY DEF TypeOK
<1>2. n = argc
    BY <1>1 DEF argc
<1>3. argc \in 0 .. MaxArgc /\ argv \in [1 .. argc -> 0 .. MaxLength]
    BY <1>1, <1>2
<1>4. ASSUME NEW k \in 0 .. argc - 1 PROVE Length(k) \in 0 .. MaxLength
    <2>1. k + 1 \in 1 .. argc
        BY <1>3, ConstantFacts
    <2>2. QED
        BY <1>3, <2>1 DEF Length
<1>5. QED
    BY <1>3, <1>4

---------------------------------------------------------------------------
(* The bytes the arguments take.                                           *)

\* f is the bytes of the first m arguments, for every m up to n.
Sums(f, n) == f = [m \in 0 .. n |-> IF m = 0 THEN 0 ELSE f[m - 1] + argv[m] + 1]

LEMMA SumsExist == \A n \in Nat : \E f : Sums(f, n)
<1> DEFINE S == {n \in Nat : \E f : Sums(f, n)}
<1>1. 0 \in S
    <2>1. Sums([m \in 0 .. 0 |-> 0], 0)
        BY DEF Sums
    <2>2. QED
        BY <2>1
<1>2. ASSUME NEW n \in Nat, n \in S PROVE n + 1 \in S
    <2>1. PICK f : Sums(f, n)
        BY <1>2
    <2> DEFINE g == [m \in 0 .. n + 1 |-> IF m \in 0 .. n THEN f[m] ELSE f[n] + argv[n + 1] + 1]
    <2>2. ASSUME NEW m \in 0 .. n + 1
          PROVE  g[m] = IF m = 0 THEN 0 ELSE g[m - 1] + argv[m] + 1
        <3>1. CASE m = 0
            BY <2>1, <3>1 DEF Sums
        <3>2. CASE m # 0 /\ m \in 0 .. n
            <4>1. m - 1 \in 0 .. n
                BY <3>2
            <4>2. g[m] = f[m] /\ g[m - 1] = f[m - 1]
                BY <3>2, <4>1
            <4>3. f[m] = f[m - 1] + argv[m] + 1
                BY <2>1, <3>2 DEF Sums
            <4>4. QED
                BY <3>2, <4>2, <4>3
        <3>3. CASE m \notin 0 .. n
            <4>1. m = n + 1 /\ m # 0 /\ m - 1 = n /\ n \in 0 .. n
                BY <3>3
            <4>2. QED
                BY <3>3, <4>1
        <3>4. QED
            BY <3>1, <3>2, <3>3
    <2>3. Sums(g, n + 1)
        BY <2>2 DEF Sums
    <2>4. QED
        BY <2>3
<1>3. QED
    <2> HIDE DEF S
    <2>1. Nat \subseteq S
        BY <1>1, <1>2, NatSetInduction
    <2>2. QED
        BY <2>1 DEF S

LEMMA BytesSteps ==
    /\ Bytes[0] = 0
    /\ \A n \in 0 .. MaxArgc - 1 : Bytes[n + 1] = Bytes[n] + argv[n + 1] + 1
<1>1. \E f : Sums(f, MaxArgc)
    BY SumsExist, ConstantFacts
<1>2. Sums(Bytes, MaxArgc)
    BY <1>1 DEF Bytes, Sums
<1>3. Bytes[0] = 0
    BY <1>2, ConstantFacts DEF Sums
<1>4. ASSUME NEW n \in 0 .. MaxArgc - 1 PROVE Bytes[n + 1] = Bytes[n] + argv[n + 1] + 1
    <2>1. n + 1 \in 0 .. MaxArgc /\ n + 1 # 0 /\ (n + 1) - 1 = n
        BY ConstantFacts
    <2>2. Bytes[n + 1] = Bytes[(n + 1) - 1] + argv[n + 1] + 1
        BY <1>2, <2>1 DEF Sums
    <2>3. QED
        BY <2>1, <2>2
<1>5. QED
    BY <1>3, <1>4

LEMMA BytesType ==
    ASSUME TypeOK
    PROVE  \A n \in 0 .. argc : Bytes[n] \in Nat
<1> DEFINE S == {n \in Nat : n <= argc => Bytes[n] \in Nat}
<1>1. 0 \in S
    BY BytesSteps
<1>2. ASSUME NEW n \in Nat, n \in S PROVE n + 1 \in S
    <2>1. SUFFICES ASSUME n + 1 <= argc PROVE Bytes[n + 1] \in Nat
        OBVIOUS
    <2>2. n \in 0 .. MaxArgc - 1 /\ n \in 0 .. argc - 1 /\ n <= argc
        BY <2>1, ArgvType, ConstantFacts
    <2>3. Bytes[n + 1] = Bytes[n] + argv[n + 1] + 1 /\ Bytes[n] \in Nat
        BY <1>2, <2>2, BytesSteps
    <2>4. argv[n + 1] \in Nat
        BY <2>2, ArgvType, ConstantFacts DEF Length
    <2>5. QED
        BY <2>3, <2>4
<1>3. QED
    <2> HIDE DEF S
    <2>1. Nat \subseteq S
        BY <1>1, <1>2, NatSetInduction
    <2>2. QED
        BY <2>1, ArgvType DEF S

---------------------------------------------------------------------------
(* What tmp_argv holds.                                                    *)

\* The string at the beginning of row k ends in tmp_argv or on len, and was
\* written.
Ended(mem, k) ==
    \E o \in Row(k) .. Room : mem[o] = 0 /\ \A j \in Row(k) .. o - 1 : mem[j] \in 0 .. MaxArgc

\* That string is argument k.
InPlace(mem, k) ==
    /\ Row(k) + Length(k) <= Room /\ mem[Row(k) + Length(k)] = 0
    /\ \A o \in Row(k) .. Row(k) + Length(k) - 1 : mem[o] = k + 1

\* An argument whose terminal falls on len has lost its first character: the
\* second terminal is written at len, which is 0 by then.
Beheaded(mem, k) == Row(k) + Length(k) = Room /\ Length(k) # 0 => mem[Row(k)] = 0

CopiedArgs == IF pc = "copy_out" THEN i ELSE argc

RowWritten(k) ==
    /\ Row(k) + Length(k) <= Room /\ Row(k) <= Room
    /\ Ended(tmp, k) /\ Beheaded(tmp, k) /\ (Fits => InPlace(tmp, k))

RowsWritten == pc # "overrun" => \A k \in 0 .. CopiedArgs - 1 : RowWritten(k)

LEMMA CopyOutFacts ==
    ASSUME TypeOK, CopyOut
    PROVE  /\ i \in Nat /\ i \in 0 .. argc - 1 /\ i < argc /\ argc \in 0 .. MaxArgc
           /\ argc \in Nat /\ Room \in Nat /\ Row(i) \in Nat
           /\ Length(i) \in 0 .. MaxLength /\ Length(i) \in Nat
<1>1. i < argc /\ i \in 0 .. argc
    BY DEF TypeOK, CopyOut
<1>2. argc \in 0 .. MaxArgc /\ argc \in Nat
    BY ArgvType, ConstantFacts
<1>3. i \in Nat /\ i \in 0 .. argc - 1
    BY <1>1, <1>2
<1>4. Length(i) \in 0 .. MaxLength
    BY <1>3, ArgvType
<1>5. QED
    BY <1>1, <1>2, <1>3, <1>4, RowsOrdered, ConstantFacts

\* What one iteration of the copy leaves: memory before the row is as it was,
\* the row has the argument unless its terminal is on len.
LEMMA CopyOutResult ==
    ASSUME TypeOK, CopyOut, pc' # "overrun"
    PROVE  LET R == Row(i)  L == Length(i)
           IN  /\ tmp' \in [0 .. Room -> 0 .. UNSET] /\ i' = i + 1 /\ pc' = pc
               /\ R + L <= Room
               /\ \A o \in 0 .. Room : o < R /\ o # Room => tmp'[o] = tmp[o]
               /\ \A o \in R .. R + L - 1 : tmp'[o] \in 0 .. MaxArgc
               /\ tmp'[R + L] = 0
               /\ R + L < Room => \A o \in R .. R + L - 1 : tmp'[o] = i + 1
               /\ R + L = Room /\ L # 0 => tmp'[R] = 0
<1> USE ConstantFacts
<1>1. PICK R \in Nat : R = Row(i)
    BY CopyOutFacts
<1>2. PICK L \in 0 .. MaxLength : L = Length(i)
    BY CopyOutFacts
<1>3. Count(i) = L + 1 /\ Copied(i, Count(i)) = L
    BY <1>2 DEF Count, Copied
<1> DEFINE mem == [o \in 0 .. Room |->
                      IF o \in R .. R + L - 1 THEN i + 1
                      ELSE IF o = R + L THEN 0 ELSE IF o = Room THEN L + 1 ELSE tmp[o]]
<1>4. tmp \in [0 .. Room -> 0 .. UNSET] /\ Room \in Nat
    BY RowsOrdered DEF TypeOK
<1>5. strncpy([tmp EXCEPT ![Room] = Count(i)], Row(i), i, Count(i)) = mem
    BY <1>1, <1>3, <1>4 DEF strncpy
<1> DEFINE len == mem[Room]
<1>6. /\ R + L <= Room /\ R + len <= Room
      /\ tmp' = [mem EXCEPT ![R + len] = 0] /\ i' = i + 1 /\ pc' = pc
    BY <1>1, <1>3, <1>5 DEF CopyOut
<1>7. len = IF R + L = Room THEN 0 ELSE L + 1
    BY <1>4, <1>6
<1>8. i + 1 \in 1 .. MaxArgc /\ L + 1 \in 0 .. UNSET /\ MaxArgc \in 0 .. UNSET /\ i + 1 \in 0 .. UNSET
    BY <1>2, CopyOutFacts DEF UNSET
<1>9. mem \in [0 .. Room -> 0 .. UNSET]
    BY <1>4, <1>8 DEF UNSET
<1>10. \A o \in 0 .. Room : tmp'[o] = IF o = R + len THEN 0 ELSE mem[o]
    <2> HIDE DEF mem
    <2>1. QED
        BY <1>6, <1>9
<1>11. tmp' \in [0 .. Room -> 0 .. UNSET]
    <2>1. ASSUME NEW o \in 0 .. Room PROVE tmp'[o] \in 0 .. UNSET
        <3>1. mem[o] \in 0 .. UNSET
            BY <1>9
        <3>2. tmp'[o] = 0 \/ tmp'[o] = mem[o]
            BY <1>10
        <3>3. QED
            BY <3>1, <3>2 DEF UNSET
    <2>2. tmp' = [o \in 0 .. Room |-> tmp'[o]]
        BY <1>6
    <2>3. QED
        BY <2>1, <2>2
<1>12. ASSUME NEW o \in 0 .. Room, o < R, o # Room PROVE tmp'[o] = tmp[o]
    BY <1>6, <1>7, <1>10, <1>12
<1>13. ASSUME NEW o \in R .. R + L - 1 PROVE tmp'[o] \in 0 .. MaxArgc
    BY <1>4, <1>6, <1>8, <1>10
<1>14. tmp'[R + L] = 0
    <2>1. R + L \in 0 .. Room /\ R + L \notin R .. R + L - 1
        BY <1>4, <1>6
    <2>2. QED
        BY <1>10, <2>1
<1>15. ASSUME R + L < Room, NEW o \in R .. R + L - 1 PROVE tmp'[o] = i + 1
    <2>1. len = L + 1 /\ o \in 0 .. Room /\ o # R + (L + 1)
        BY <1>4, <1>7, <1>15
    <2>2. mem[o] = i + 1
        BY <2>1
    <2>3. QED
        BY <1>8, <1>10, <2>1, <2>2
<1>16. ASSUME R + L = Room, L # 0 PROVE tmp'[R] = 0
    <2>1. len = 0 /\ R \in 0 .. Room /\ R = R + len
        BY <1>4, <1>7, <1>16
    <2>2. QED
        BY <1>10, <2>1
<1>17. QED
    BY <1>1, <1>2, <1>6, <1>11, <1>12, <1>13, <1>14, <1>15, <1>16

\* The argument that is copied is a string afterwards.
LEMMA CopiedEnds ==
    ASSUME TypeOK, CopyOut, pc' # "overrun"
    PROVE  Row(i) <= Room /\ Ended(tmp', i)
<1> USE ConstantFacts
<1>1. /\ Row(i) + Length(i) <= Room /\ tmp'[Row(i) + Length(i)] = 0
      /\ \A o \in Row(i) .. Row(i) + Length(i) - 1 : tmp'[o] \in 0 .. MaxArgc
    BY CopyOutResult
<1>2. Row(i) \in Nat /\ Length(i) \in Nat /\ Room \in Nat
    BY CopyOutFacts
<1>3. Row(i) + Length(i) \in Row(i) .. Room
    BY <1>1, <1>2
<1>4. QED
    BY <1>1, <1>2, <1>3 DEF Ended

\* The strings copied before still end: in their own bytes, or in those of the
\* argument that was written over their end.
LEMMA OthersEnd ==
    ASSUME TypeOK, CopyOut, pc' # "overrun", NEW k \in 0 .. i - 1, Ended(tmp, k)
    PROVE  Ended(tmp', k)
<1> USE ConstantFacts
<1>1. PICK o \in Row(k) .. Room : tmp[o] = 0 /\ \A j \in Row(k) .. o - 1 : tmp[j] \in 0 .. MaxArgc
    BY DEF Ended
<1>2. PICK R \in Nat : R = Row(i)
    BY CopyOutFacts
<1>3. PICK L \in Nat : L = Length(i)
    BY CopyOutFacts
<1>4. PICK Q \in Nat : Q = Row(k)
    BY RowsOrdered
<1>5. Room \in Nat /\ Q < R
    <2>1. k \in Nat /\ i \in Nat /\ k < i
        BY DEF TypeOK
    <2>2. QED
        BY <1>2, <1>4, <2>1, RowsOrdered
<1>6. /\ R + L <= Room
      /\ \A j \in 0 .. Room : j < R /\ j # Room => tmp'[j] = tmp[j]
      /\ \A j \in R .. R + L - 1 : tmp'[j] \in 0 .. MaxArgc
      /\ tmp'[R + L] = 0
    BY <1>2, <1>3, CopyOutResult
<1>7. CASE o < R
    <2>1. \A j \in Q .. o : j \in 0 .. Room /\ j < R /\ j # Room
        BY <1>1, <1>4, <1>5, <1>6, <1>7
    <2>2. tmp'[o] = 0 /\ \A j \in Q .. o - 1 : tmp'[j] \in 0 .. MaxArgc
        BY <1>1, <1>4, <1>6, <2>1
    <2>3. QED
        BY <1>1, <1>4, <2>2 DEF Ended
<1>8. CASE ~(o < R)
    <2>1. ASSUME NEW j \in Q .. R + L - 1 PROVE tmp'[j] \in 0 .. MaxArgc
        <3>1. CASE j < R
            <4>1. j \in 0 .. Room /\ j # Room /\ j \in Row(k) .. o - 1
                BY <1>1, <1>4, <1>5, <1>6, <1>8, <3>1
            <4>2. QED
                BY <1>1, <1>6, <3>1, <4>1
        <3>2. CASE ~(j < R)
            BY <1>6, <3>2
        <3>3. QED
            BY <3>1, <3>2
    <2>2. R + L \in Row(k) .. Room
        BY <1>4, <1>5, <1>6
    <2>3. QED
        BY <1>4, <1>6, <2>1, <2>2 DEF Ended
<1>9. QED
    BY <1>7, <1>8

\* An argument that fits is in its place when it was copied ...
LEMMA CopiedInPlace ==
    ASSUME TypeOK, CopyOut, pc' # "overrun", Fits
    PROVE  InPlace(tmp', i)
<1> USE ConstantFacts
<1>1. PICK R \in Nat : R = Row(i)
    BY CopyOutFacts
<1>2. PICK L \in Nat : L = Length(i)
    BY CopyOutFacts
<1>3. i \in Nat /\ i \in 0 .. argc - 1 /\ Room \in Nat /\ argc \in Nat
    BY CopyOutFacts
<1>4. /\ R + L <= Room /\ tmp'[R + L] = 0
      /\ R + L < Room => \A o \in R .. R + L - 1 : tmp'[o] = i + 1
    BY <1>1, <1>2, CopyOutResult
<1>5. R + L = Room => L = 0
    <2>1. i < MAX_ARGS => R + MAX_ARGS_LENGTH <= Room
        BY <1>1, <1>3, RowInRoom
    <2>2. \/ L < MAX_ARGS_LENGTH /\ i < MAX_ARGS
          \/ R + L < Room
          \/ L = MAX_ARGS_LENGTH /\ i + 1 <= MAX_ARGS - 1
          \/ L = 0
        BY <1>1, <1>2, <1>3 DEF Fits
    <2>3. i + 1 < MAX_ARGS => R + MAX_ARGS_LENGTH + MAX_ARGS_LENGTH <= Room
        <3>1. i + 1 \in Nat /\ Row(i + 1) = R + MAX_ARGS_LENGTH
            BY <1>1, <1>3, RowsOrdered
        <3>2. i + 1 < MAX_ARGS => Row(i + 1) + MAX_ARGS_LENGTH <= Room
            BY <3>1, RowInRoom
        <3>3. QED
            BY <3>1, <3>2
    <2>4. QED
        BY <1>3, <1>4, <2>1, <2>2, <2>3
<1>6. \A o \in R .. R + L - 1 : tmp'[o] = i + 1
    BY <1>3, <1>4, <1>5
<1>7. QED
    BY <1>1, <1>2, <1>4, <1>6 DEF InPlace

\* ... and stays there while the others are copied.
LEMMA OthersInPlace ==
    ASSUME TypeOK, CopyOut, pc' # "overrun", Fits, NEW k \in 0 .. i - 1, InPlace(tmp, k)
    PROVE  InPlace(tmp', k)
<1> USE ConstantFacts
<1>1. PICK R \in Nat : R = Row(i)
    BY CopyOutFacts
<1>2. PICK L \in Nat : L = Length(i)
    BY CopyOutFacts
<1>3. PICK Q \in Nat : Q = Row(k)
    BY RowsOrdered
<1>4. /\ i \in Nat /\ i \in 0 .. argc - 1 /\ Room \in Nat /\ argc \in Nat
      /\ k \in Nat /\ k < i /\ k \in 0 .. argc - 1
    <2>1. /\ i \in Nat /\ i \in 0 .. argc - 1 /\ Room \in Nat /\ argc \in Nat
        BY CopyOutFacts
    <2>2. k \in Nat /\ k < i /\ k \in 0 .. argc - 1
        BY <2>1
    <2>3. QED
        BY <2>1, <2>2
<1>5. PICK N \in Nat : N = Length(k)
    BY <1>4, ArgvType
<1>6. /\ R + L <= Room
      /\ \A j \in 0 .. Room : j < R /\ j # Room => tmp'[j] = tmp[j]
      /\ tmp'[R + L] = 0
    BY <1>1, <1>2, CopyOutResult
<1>7. Q + MAX_ARGS_LENGTH <= R
    BY <1>1, <1>3, <1>4, RowsOrdered
<1>8. Q + N < R \/ (Q + N = R /\ L = 0)
    <2>1. \/ N < MAX_ARGS_LENGTH
          \/ N = MAX_ARGS_LENGTH /\ Length(k + 1) = 0
        BY <1>4, <1>5 DEF Fits
    <2>2. CASE N < MAX_ARGS_LENGTH
        BY <1>7, <2>2
    <2>3. CASE N = MAX_ARGS_LENGTH /\ Length(k + 1) = 0 /\ i = k + 1
        BY <1>2, <1>7, <2>3
    <2>4. CASE N = MAX_ARGS_LENGTH /\ i # k + 1
        <3>1. k + 1 \in Nat /\ k + 1 < i
            BY <1>4, <2>4
        <3>2. Row(k + 1) + MAX_ARGS_LENGTH <= R /\ Row(k + 1) = Q + MAX_ARGS_LENGTH
            BY <1>1, <1>3, <1>4, <3>1, RowsOrdered
        <3>3. QED
            BY <2>4, <3>2
    <2>5. QED
        BY <2>1, <2>2, <2>3, <2>4
<1>9. tmp[Q + N] = 0 /\ \A o \in Q .. Q + N - 1 : tmp[o] = k + 1
    BY <1>3, <1>5 DEF InPlace
<1>10. \A o \in Q .. Q + N - 1 : o \in 0 .. Room /\ o < R /\ o # Room
    BY <1>4, <1>6, <1>8
<1>11. \A o \in Q .. Q + N - 1 : tmp'[o] = k + 1
    BY <1>6, <1>9, <1>10
<1>12. tmp'[Q + N] = 0
    <2>1. CASE Q + N < R
        <3>1. Q + N \in 0 .. Room /\ Q + N # Room
            BY <1>4, <1>6, <2>1
        <3>2. QED
            BY <1>6, <1>9, <2>1, <3>1
    <2>2. CASE Q + N = R /\ L = 0
        BY <1>6, <2>2
    <2>3. QED
        BY <1>8, <2>1, <2>2
<1>13. Q + N <= Room
    BY <1>4, <1>6, <1>8
<1>14. QED
    BY <1>3, <1>5, <1>11, <1>12, <1>13 DEF InPlace

\* Nothing comes back to the beginning of an argument that was copied.
LEMMA StillBeheaded ==
    ASSUME TypeOK, CopyOut, pc' # "overrun", NEW k \in 0 .. i,
           k # i => Beheaded(tmp, k)
    PROVE  Beheaded(tmp', k)
<1> USE ConstantFacts
<1>1. PICK R \in Nat : R = Row(i)
    BY CopyOutFacts
<1>2. i \in Nat /\ Room \in Nat /\ argc \in Nat /\ i \in 0 .. argc - 1
    BY CopyOutFacts
<1>3. k \in Nat /\ k \in 0 .. argc - 1
    BY <1>2
<1>4. PICK Q \in Nat : Q = Row(k)
    BY <1>3, RowsOrdered
<1>5. PICK N \in Nat : N = Length(k)
    BY <1>3, ArgvType
<1>6. SUFFICES ASSUME Q + N = Room, N # 0 PROVE tmp'[Q] = 0
    BY <1>4, <1>5 DEF Beheaded
<1>7. CASE k = i
    BY <1>1, <1>4, <1>5, <1>6, <1>7, CopyOutResult
<1>8. CASE k # i
    <2>1. k < i
        BY <1>2, <1>3, <1>8
    <2>2. Q < R
        BY <1>1, <1>2, <1>3, <1>4, <2>1, RowsOrdered
    <2>3. Q \in 0 .. Room /\ Q # Room
        BY <1>2, <1>6
    <2>4. tmp'[Q] = tmp[Q]
        BY <1>1, <2>2, <2>3, CopyOutResult
    <2>5. QED
        BY <1>4, <1>5, <1>6, <1>8, <2>4 DEF Beheaded
<1>9. QED
    BY <1>7, <1>8

\* Arguments that fit in their rows are never written elsewhere.
LEMMA StaysInRows ==
    ASSUME TypeOK, CopyOut, InRows
    PROVE  pc' # "overrun"
<1> USE ConstantFacts
<1>1. PICK R \in Nat : R = Row(i)
    BY CopyOutFacts
<1>2. PICK L \in Nat : L = Length(i)
    BY CopyOutFacts
<1>3. R + L + 1 <= Room
    <2>1. L < MAX_ARGS_LENGTH /\ i \in Nat /\ i < MAX_ARGS
        BY <1>2, CopyOutFacts DEF InRows
    <2>2. R + MAX_ARGS_LENGTH <= Room /\ Room \in Nat
        BY <1>1, <2>1, RowInRoom, RowsOrdered
    <2>3. QED
        BY <2>1, <2>2
<1>4. Count(i) = L + 1 /\ Copied(i, Count(i)) = L
    BY <1>2 DEF Count, Copied
<1>5. tmp \in [0 .. Room -> 0 .. UNSET] /\ Room \in Nat
    BY RowsOrdered DEF TypeOK
<1> DEFINE mem == strncpy([tmp EXCEPT ![Room] = Count(i)], Row(i), i, Count(i))
<1>6. mem[Room] = L + 1
    <2>1. [tmp EXCEPT ![Room] = L + 1] = [o \in 0 .. Room |-> IF o = Room THEN L + 1 ELSE tmp[o]]
        BY <1>5
    <2>2. Room \in 0 .. Room /\ Room \notin R .. R + L - 1 /\ Room # R + L
        BY <1>3, <1>5
    <2>3. QED
        BY <1>1, <1>4, <2>1, <2>2 DEF strncpy
<1>7. Row(i) + Copied(i, Count(i)) <= Room /\ Row(i) + mem[Room] <= Room
    <2> HIDE DEF mem
    <2>1. R + L <= Room /\ R + (L + 1) <= Room
        BY <1>3, <1>5
    <2>2. QED
        BY <1>1, <1>4, <1>6, <2>1
<1>8. pc' = pc /\ pc = "copy_out"
    <2> HIDE DEF mem
    <2>1. QED
        BY <1>7 DEF CopyOut, mem
<1>9. QED
    BY <1>8

LEMMA FitsUnchanged ==
    ASSUME argv' = argv
    PROVE  /\ Fits' = Fits /\ Bytes' = Bytes /\ argc' = argc /\ InRows' = InRows
           /\ args_size' = args_size
BY DEF Fits, Bytes, argc, Length, InRows, args_size

---------------------------------------------------------------------------
(* What reaches the new task.                                              *)

\* strlen finds the terminal, and meets only bytes of arguments before it.
LEMMA StringLength ==
    ASSUME TypeOK, NEW k \in Nat, Ended(tmp, k)
    PROVE  /\ strlen(tmp, Row(k)) \in 0 .. Room - Row(k)
           /\ \A n \in 0 .. strlen(tmp, Row(k)) : tmp[Row(k) + n] \in 0 .. MaxArgc
           /\ tmp[Row(k) + strlen(tmp, Row(k))] = 0
           /\ \A n \in 0 .. strlen(tmp, Row(k)) - 1 : tmp[Row(k) + n] # 0
           /\ InPlace(tmp, k) /\ Length(k) \in Nat => strlen(tmp, Row(k)) = Length(k)
<1> USE ConstantFacts
<1>1. PICK R \in Nat : R = Row(k)
    BY RowsOrdered
<1>2. PICK o \in R .. Room : tmp[o] = 0 /\ \A j \in R .. o - 1 : tmp[j] \in 0 .. MaxArgc
    BY <1>1 DEF Ended
<1>3. Room \in Nat
    BY RowsOrdered
<1> DEFINE S == {n \in 0 .. Room - R : tmp[R + n] = 0}
<1>4. S \subseteq Nat /\ o - R \in S
    BY <1>2, <1>3
<1>5. PICK n : n = strlen(tmp, Row(k))
    OBVIOUS
<1>6. n \in S /\ \A y \in S : n <= y
    <2>1. n = Min(S)
        BY <1>1, <1>5 DEF strlen
    <2> HIDE DEF S
    <2>2. QED
        BY <1>4, <2>1, MinOfNats
<1>7. n \in 0 .. Room - R /\ tmp[R + n] = 0 /\ n <= o - R
    BY <1>4, <1>6
<1>8. ASSUME NEW m \in 0 .. n PROVE tmp[R + m] \in 0 .. MaxArgc
    <2>1. m = n \/ R + m \in R .. o - 1
        BY <1>2, <1>3, <1>7
    <2>2. QED
        BY <1>2, <1>7, <2>1
<1>9. ASSUME InPlace(tmp, k), Length(k) \in Nat PROVE n = Length(k)
    <2>1. PICK L \in Nat : L = Length(k)
        BY <1>9
    <2>2. R + L <= Room /\ tmp[R + L] = 0 /\ \A j \in R .. R + L - 1 : tmp[j] # 0
        <3>1. k + 1 # 0
            OBVIOUS
        <3>2. QED
            BY <1>1, <1>9, <2>1, <3>1 DEF InPlace
    <2>3. L \in S
        BY <1>3, <2>2
    <2>4. ~(n < L)
        BY <1>7, <2>2
    <2>5. QED
        BY <1>6, <1>7, <2>1, <2>3, <2>4
<1>10. ASSUME NEW m \in 0 .. n - 1 PROVE tmp[R + m] # 0
    <2>1. m \in 0 .. Room - R /\ ~(n <= m)
        BY <1>3, <1>7
    <2>2. QED
        BY <1>6, <2>1
<1>11. QED
    BY <1>1, <1>5, <1>7, <1>8, <1>9, <1>10

TaskSized ==
    pc \in {"copy_in", "loaded"} =>
        /\ mod_size \in ModSizes
        /\ task = [esp |-> Esp(mod_size), allocated |-> Allocated(mod_size)]
        /\ Len(args_copy) <= i * (Room + 1)
        /\ Fits => Len(args_copy) = Bytes[i]
        /\ pc = "loaded" => i = argc

NothingLoaded == pc \notin {"copy_in", "loaded"} => args_copy = <<>>

Inv == TypeOK /\ RowsWritten /\ TaskSized /\ NothingLoaded /\ OverrunJustified

LEMMA InitInv == Init => Inv
<1> SUFFICES ASSUME Init PROVE Inv
    OBVIOUS
<1> USE ConstantFacts
<1>1. tmp \in [0 .. Room -> 0 .. UNSET]
    BY DEF Init, UNSET
<1>2. PICK n \in 0 .. MaxArgc : argv \in [1 .. n -> 0 .. MaxLength]
    BY DEF Init
<1>3. argc = n /\ n \in Nat
    BY <1>2 DEF argc
<1>4. i \in 0 .. argc
    BY <1>3 DEF Init
<1>5. task \in [esp : Nat, allocated : Nat] /\ args_copy \in Seq(0 .. MaxArgc)
    BY DEF Init
<1>6. TypeOK
    BY <1>1, <1>4, <1>5 DEF Init, TypeOK
<1>7. RowsWritten
    BY DEF Init, RowWritten, RowsWritten, CopiedArgs
<1>8. QED
    BY <1>6, <1>7 DEF Init, Inv, TaskSized, NothingLoaded, OverrunJustified

LEMMA CopyOutStep == Inv /\ CopyOut => Inv'
<1> SUFFICES ASSUME Inv, CopyOut PROVE Inv'
    OBVIOUS
<1> USE ConstantFacts
<1>0. TypeOK /\ RowsWritten /\ pc = "copy_out" /\ UNCHANGED <<argv, mod_size, task, argc_copy, args_copy>>
    BY DEF Inv, CopyOut
<1>1. argc' = argc /\ Fits' = Fits /\ InRows' = InRows
    BY <1>0, FitsUnchanged
<1>2. Room' = Room /\ args_copy = <<>>
    BY <1>0 DEF Inv, NothingLoaded, Room
<1>3. CASE pc' = "overrun"
    <2>1. tmp' = tmp /\ i' = i
        BY <1>0, <1>3 DEF CopyOut
    <2>2. TypeOK'
        BY <1>0, <1>1, <1>3, <2>1 DEF TypeOK
    <2>3. ~InRows
        BY <1>0, <1>3, StaysInRows
    <2>4. QED
        BY <1>0, <1>1, <1>2, <1>3, <2>2, <2>3
        DEF Inv, RowWritten, RowsWritten, TaskSized, NothingLoaded, OverrunJustified
<1>4. CASE pc' # "overrun"
    <2>1. tmp' \in [0 .. Room -> 0 .. UNSET] /\ i' = i + 1 /\ pc' = pc
        BY <1>0, <1>4, CopyOutResult
    <2>2. i' \in 0 .. argc /\ i \in Nat
        BY <1>0, <2>1, CopyOutFacts
    <2>3. TypeOK'
        BY <1>0, <1>1, <2>1, <2>2 DEF TypeOK
    <2>4. ASSUME NEW k \in 0 .. i
          PROVE  /\ Row(k) + Length(k) <= Room /\ Row(k) <= Room
                 /\ Ended(tmp', k) /\ Beheaded(tmp', k) /\ (Fits => InPlace(tmp', k))
        <3>1. CASE k = i
            <4>1. Row(i) + Length(i) <= Room
                BY <1>0, <1>4, CopyOutResult
            <4>2. QED
                BY <1>0, <1>4, <3>1, <4>1, CopiedEnds, CopiedInPlace, StillBeheaded
        <3>2. CASE k # i
            <4>1. k \in 0 .. i - 1
                BY <2>2, <3>2
            <4>2. /\ Row(k) + Length(k) <= Room /\ Row(k) <= Room
                  /\ Ended(tmp, k) /\ Beheaded(tmp, k) /\ (Fits => InPlace(tmp, k))
                BY <1>0, <4>1 DEF RowWritten, RowsWritten, CopiedArgs
            <4>3. QED
                BY <1>0, <1>4, <4>1, <4>2, OthersEnd, OthersInPlace, StillBeheaded
        <3>3. QED
            BY <3>1, <3>2
    <2>5. RowsWritten'
        <3>1. CopiedArgs' = i + 1
            BY <1>0, <2>1 DEF CopiedArgs
        <3>2. \A k \in 0 .. i + 1 - 1 : k \in 0 .. i
            BY <2>2
        <3>3. \A k \in 0 .. i + 1 - 1 :
                 /\ Row(k) + Length(k) <= Room /\ Row(k) <= Room
                 /\ Ended(tmp', k) /\ Beheaded(tmp', k) /\ (Fits => InPlace(tmp', k))
            BY <2>4, <3>2
        <3>4. ASSUME NEW k \in 0 .. i + 1 - 1 PROVE RowWritten(k)'
            <4>1. Row(k)' = Row(k) /\ Room' = Room /\ Length(k)' = Length(k)
                BY <1>0 DEF Row, Room, Length
            <4>2. Ended(tmp', k) => Ended(tmp, k)'
                BY DEF Ended, Row, Room
            <4>3. InPlace(tmp', k) => InPlace(tmp, k)'
                BY <1>0 DEF InPlace, Length, Row, Room
            <4>4. Beheaded(tmp', k) => Beheaded(tmp, k)'
                BY <4>1 DEF Beheaded
            <4>5. QED
                BY <1>1, <3>3, <4>1, <4>2, <4>3, <4>4 DEF RowWritten
        <3>5. QED
            BY <2>2, <3>1, <3>4 DEF RowsWritten
    <2>6. QED
        BY <1>0, <1>2, <2>1, <2>3, <2>5
        DEF Inv, TaskSized, NothingLoaded, OverrunJustified
<1>5. QED
    BY <1>3, <1>4

\* The steps that leave tmp_argv as it is, when every argument was copied.
LEMMA RowsKept ==
    ASSUME RowsWritten, UNCHANGED <<argv, tmp>>, CopiedArgs' = CopiedArgs, pc # "overrun"
    PROVE  RowsWritten'
<1>1. Fits' = Fits
    BY FitsUnchanged
<1>2. QED
    BY <1>1 DEF RowWritten, RowsWritten, Ended, Beheaded, InPlace, Length, Row, Room

LEMMA BetweenStep == Inv /\ (CopiedOut \/ LoadFails) => Inv'
<1> SUFFICES ASSUME Inv, CopiedOut \/ LoadFails PROVE Inv'
    OBVIOUS
<1>1. /\ UNCHANGED <<argv, i, tmp, mod_size, task, argc_copy, args_copy>>
      /\ pc' \in {"create", "failed"} /\ pc \in {"copy_out", "create"}
    BY DEF CopiedOut, LoadFails
<1>2. argc' = argc /\ InRows' = InRows
    BY <1>1, FitsUnchanged
<1>3. CopiedArgs' = CopiedArgs
    BY <1>2 DEF CopiedOut, LoadFails, CopiedArgs
<1>4. RowsWritten'
    BY <1>1, <1>3, RowsKept DEF Inv
<1>5. TypeOK'
    BY <1>1, <1>2 DEF Inv, TypeOK, Room
<1>6. QED
    BY <1>1, <1>4, <1>5 DEF Inv, TaskSized, NothingLoaded, OverrunJustified

LEMMA SizesType ==
    ASSUME TypeOK, NEW size \in Nat
    PROVE  /\ args_size \in Nat /\ Esp(size) \in Nat /\ Allocated(size) \in Nat
           /\ Esp(size) <= Allocated(size)
<1> USE ConstantFacts
<1>1. args_size \in Nat
    <2>1. Bytes[argc] \in Nat
        BY BytesType, ArgvType
    <2>2. QED
        BY <2>1 DEF args_size
<1>2. Esp(size) \in Nat
    BY <1>1 DEF Esp
<1>3. PICK total \in Nat : total = size + args_size + STACK_SIZE + args_size
    BY <1>1
<1>4. (total + PAGE_SIZE - 1) \div PAGE_SIZE \in Nat
    BY <1>3
<1>5. total <= PAGE_SIZE * ((total + PAGE_SIZE - 1) \div PAGE_SIZE)
    BY <1>3
<1>6. Allocated(size) = PAGE_SIZE * ((total + PAGE_SIZE - 1) \div PAGE_SIZE)
    BY <1>3 DEF Allocated, PAGE_COUNT
<1>7. Esp(size) <= total
    BY <1>1, <1>3 DEF Esp
<1>8. QED
    BY <1>1, <1>2, <1>3, <1>4, <1>5, <1>6, <1>7

LEMMA TaskCreateStep == Inv /\ TaskCreate => Inv'
<1> SUFFICES ASSUME Inv, TaskCreate PROVE Inv'
    OBVIOUS
<1> USE ConstantFacts
<1>1. /\ pc = "create" /\ pc' = "copy_in" /\ i' = 0 /\ argc_copy' = argc
      /\ UNCHANGED <<argv, tmp, args_copy>>
      /\ mod_size' \in ModSizes
    BY DEF TaskCreate
<1>2. task' = [esp |-> Esp(mod_size'), allocated |-> Allocated(mod_size')]
    BY DEF TaskCreate
<1>3. PICK size \in ModSizes : size = mod_size'
    BY <1>1
<1>4. /\ argc' = argc /\ InRows' = InRows /\ Bytes' = Bytes /\ args_size' = args_size
      /\ argc \in 0 .. MaxArgc
    BY <1>1, FitsUnchanged, ArgvType DEF Inv
<1>5. Esp(size) \in Nat /\ Allocated(size) \in Nat
    BY SizesType DEF Inv
<1>6. task' = [esp |-> Esp(size), allocated |-> Allocated(size)]
    BY <1>2, <1>3
<1>7. task' \in [esp : Nat, allocated : Nat]
    BY <1>5, <1>6
<1>8. TypeOK'
    <2>1. 0 \in 0 .. argc
        BY <1>4
    <2>2. QED
        BY <1>1, <1>4, <1>7, <2>1 DEF Inv, TypeOK, Room
<1>9. RowsWritten'
    <2>1. CopiedArgs' = CopiedArgs
        BY <1>1, <1>4 DEF CopiedArgs
    <2>2. QED
        BY <1>1, <2>1, RowsKept DEF Inv
<1>10. TaskSized'
    <2>1. Esp(mod_size)' = Esp(size) /\ Allocated(mod_size)' = Allocated(size)
        BY <1>3, <1>4 DEF Esp, Allocated
    <2>2. args_copy' = <<>> /\ Len(<<>>) = 0
        BY <1>1 DEF Inv, NothingLoaded
    <2>3. Bytes'[0] = 0 /\ 0 * (Room + 1) = 0
        BY <1>4, BytesSteps, RowsOrdered
    <2>4. Len(args_copy') <= i' * (Room + 1) /\ Len(args_copy') = Bytes'[i']
        BY <1>1, <2>2, <2>3
    <2>5. Room' = Room
        BY DEF Room
    <2>6. QED
        BY <1>1, <1>6, <2>1, <2>4, <2>5 DEF TaskSized
<1>11. NothingLoaded' /\ OverrunJustified'
    BY <1>1 DEF NothingLoaded, OverrunJustified
<1>12. QED
    BY <1>8, <1>9, <1>10, <1>11 DEF Inv

LEMMA CopyInStep == Inv /\ CopyIn => Inv'
<1> SUFFICES ASSUME Inv, CopyIn PROVE Inv'
    OBVIOUS
<1> USE ConstantFacts
<1>1. /\ pc = "copy_in" /\ pc' = pc /\ i < argc /\ i' = i + 1
      /\ UNCHANGED <<argv, tmp, mod_size, task, argc_copy>>
      /\ args_copy' = args_copy \o memcpy(tmp, Row(i), strlen(tmp, Row(i)) + 1)
    BY DEF CopyIn
<1>2. /\ argc' = argc /\ InRows' = InRows /\ Bytes' = Bytes /\ args_size' = args_size
      /\ Fits' = Fits /\ argc \in 0 .. MaxArgc
    BY <1>1, FitsUnchanged, ArgvType DEF Inv
<1>3. i \in Nat /\ i \in 0 .. argc - 1 /\ i \in 0 .. MaxArgc - 1 /\ i + 1 \in 0 .. argc
    BY <1>1, <1>2 DEF Inv, TypeOK
<1>4. Length(i) \in Nat /\ Length(i) = argv[i + 1]
    <2>1. Length(i) \in 0 .. MaxLength
        BY <1>3, ArgvType DEF Inv
    <2>2. QED
        BY <2>1 DEF Length
<1>5. Ended(tmp, i) /\ (Fits => InPlace(tmp, i))
    BY <1>1, <1>3 DEF Inv, RowWritten, RowsWritten, CopiedArgs
<1>6. PICK n \in Nat : n = strlen(tmp, Row(i))
    BY <1>3, <1>5, StringLength, RowsOrdered DEF Inv
<1>7. /\ n <= Room
      /\ \A m \in 0 .. n : tmp[Row(i) + m] \in 0 .. MaxArgc
      /\ Fits => n = Length(i)
    <2>1. /\ n \in 0 .. Room - Row(i)
          /\ \A m \in 0 .. n : tmp[Row(i) + m] \in 0 .. MaxArgc
          /\ InPlace(tmp, i) => n = Length(i)
        BY <1>3, <1>4, <1>5, <1>6, StringLength DEF Inv
    <2>2. Row(i) \in Nat /\ Room \in Nat
        BY <1>3, RowsOrdered
    <2>3. QED
        BY <1>5, <2>1, <2>2
<1> DEFINE s == [x \in 1 .. n + 1 |-> tmp[Row(i) + x - 1]]
<1>8. s \in Seq(0 .. MaxArgc) /\ Len(s) = n + 1
    <2>1. ASSUME NEW x \in 1 .. n + 1 PROVE tmp[Row(i) + x - 1] \in 0 .. MaxArgc
        <3>1. x - 1 \in 0 .. n /\ Row(i) + x - 1 = Row(i) + (x - 1)
            BY <1>3, RowsOrdered
        <3>2. QED
            BY <1>7, <3>1
    <2>2. QED
        BY <2>1
<1>9. args_copy' = args_copy \o s
    BY <1>1, <1>6 DEF memcpy
<1>10. args_copy \in Seq(0 .. MaxArgc)
    BY DEF Inv, TypeOK
<1>11. args_copy' \in Seq(0 .. MaxArgc) /\ Len(args_copy') = Len(args_copy) + n + 1
    <2> HIDE DEF s
    <2>1. QED
        BY <1>6, <1>8, <1>9, <1>10
<1>12. TypeOK'
    BY <1>1, <1>2, <1>3, <1>11 DEF Inv, TypeOK, Room
<1>13. RowsWritten'
    <2>1. CopiedArgs' = CopiedArgs
        BY <1>1, <1>2 DEF CopiedArgs
    <2>2. QED
        BY <1>1, <2>1, RowsKept DEF Inv
<1>14. TaskSized'
    <2>1. /\ mod_size \in ModSizes
          /\ task = [esp |-> Esp(mod_size), allocated |-> Allocated(mod_size)]
          /\ Len(args_copy) <= i * (Room + 1)
          /\ Fits => Len(args_copy) = Bytes[i]
        BY <1>1 DEF Inv, TaskSized
    <2>2. Esp(mod_size)' = Esp(mod_size) /\ Allocated(mod_size)' = Allocated(mod_size)
        BY <1>1, <1>2 DEF Esp, Allocated
    <2>3. Len(args_copy) \in Nat /\ Room \in Nat
        BY <1>10, RowsOrdered
    <2>4. (i + 1) * (Room + 1) = i * (Room + 1) + (Room + 1)
        BY <1>3, <2>3
    <2>5. Len(args_copy') <= (i + 1) * (Room + 1)
        <3>1. PICK p \in Nat : p = i * (Room + 1)
            BY <1>3, <2>3
        <3>2. QED
            BY <1>6, <1>7, <1>11, <2>1, <2>3, <2>4, <3>1
    <2>6. Fits => Len(args_copy') = Bytes[i + 1]
        <3>1. Bytes[i + 1] = Bytes[i] + argv[i + 1] + 1
            BY <1>3, BytesSteps
        <3>2. QED
            BY <1>4, <1>6, <1>7, <1>11, <2>1, <2>3, <3>1
    <2>7. Room' = Room
        BY DEF Room
    <2>8. QED
        BY <1>1, <1>2, <2>1, <2>2, <2>5, <2>6, <2>7 DEF TaskSized
<1>15. NothingLoaded' /\ OverrunJustified'
    BY <1>1 DEF NothingLoaded, OverrunJustified
<1>16. QED
    BY <1>12, <1>13, <1>14, <1>15 DEF Inv

LEMMA UnchangedStep ==
    ASSUME Inv, UNCHANGED <<argv, i, tmp, mod_size, task, argc_copy, args_copy>>,
           pc' = pc \/ (pc = "copy_in" /\ pc' = "loaded" /\ i = argc)
    PROVE  Inv'
<1>1. /\ argc' = argc /\ InRows' = InRows /\ Bytes' = Bytes /\ args_size' = args_size
      /\ Fits' = Fits
    BY FitsUnchanged
<1>2. RowsWritten'
    <2>1. CopiedArgs' = CopiedArgs
        BY <1>1 DEF CopiedArgs
    <2>2. CASE pc = "overrun"
        BY <2>2 DEF RowWritten, RowsWritten
    <2>3. QED
        BY <2>1, <2>2, RowsKept DEF Inv
<1>3. TypeOK'
    BY <1>1 DEF Inv, TypeOK, Room
<1>4. TaskSized'
    <2>1. Esp(mod_size)' = Esp(mod_size) /\ Allocated(mod_size)' = Allocated(mod_size)
          /\ Room' = Room
        BY <1>1 DEF Esp, Allocated, Room
    <2>2. QED
        BY <1>1, <2>1 DEF Inv, TaskSized
<1>5. NothingLoaded' /\ OverrunJustified'
    BY <1>1 DEF Inv, NothingLoaded, OverrunJustified
<1>6. QED
    BY <1>2, <1>3, <1>4, <1>5 DEF Inv

\* Every argument that was copied ends where it can be read, and an argument
\* that fits is where it belongs.
THEOREM ArgumentsInvariant == Spec => []Inv
<1>1. Init => Inv
    BY InitInv
<1>2. Inv /\ [Next]_vars => Inv'
    <2> SUFFICES ASSUME Inv, [Next]_vars PROVE Inv'
        OBVIOUS
    <2>1. CASE UNCHANGED vars
        BY <2>1, UnchangedStep DEF vars
    <2>2. CASE Loaded
        BY <2>2, UnchangedStep DEF Loaded
    <2>3. QED
        BY <2>1, <2>2, CopyOutStep, BetweenStep, TaskCreateStep, CopyInStep DEF Next
<1>3. QED
    BY <1>1, <1>2, PTL DEF Spec

\* No byte of tmp_argv is read that was not written: whatever the arguments,
\* strlen ends on a terminal and the new task gets bytes of arguments only
\* (task.c:197-203, 225-232).
THEOREM ArgumentsTypeCorrect == Spec => []TypeOK
<1>1. Inv => TypeOK
    BY DEF Inv
<1>2. QED
    BY <1>1, ArgumentsInvariant, PTL

\* Arguments that fit in their rows stay in tmp_argv, although a second terminal
\* is written behind each (task.c:198-202).
THEOREM OverrunIsJustified == Spec => []OverrunJustified
<1>1. Inv => OverrunJustified
    BY DEF Inv
<1>2. QED
    BY <1>1, ArgumentsInvariant, PTL

\* The new task has room for its stack, all of it when the arguments arrived as
\* they were counted (task.c:35, 69, 85-89).
THEOREM StackHasRoom == Spec => []StackRoom
<1>1. Inv => StackRoom
    <2> SUFFICES ASSUME Inv, pc = "loaded"
                 PROVE  LET end == mod_size + INT + Len(args_copy)
                        IN  /\ end < task.esp /\ task.esp <= task.allocated
                            /\ Fits => task.esp - end = STACK_SIZE
        BY DEF StackRoom
    <2> USE ConstantFacts
    <2>1. /\ mod_size \in Nat /\ i = argc
          /\ task = [esp |-> Esp(mod_size), allocated |-> Allocated(mod_size)]
          /\ Len(args_copy) <= argc * (Room + 1)
          /\ Fits => Len(args_copy) = Bytes[argc]
        BY DEF Inv, TaskSized
    <2>2. task.esp = Esp(mod_size) /\ task.esp <= task.allocated
        BY <2>1, SizesType DEF Inv
    <2>3. PICK total \in Nat : total = Bytes[argc]
        BY BytesType, ArgvType DEF Inv
    <2>4. Esp(mod_size) = STACK_SIZE + INT + total + mod_size
        BY <2>1, <2>3 DEF Esp, args_size
    <2>5. Len(args_copy) \in Nat /\ Room \in Nat /\ argc \in 0 .. MaxArgc
        <3>1. args_copy \in Seq(0 .. MaxArgc)
            BY DEF Inv, TypeOK
        <3>2. QED
            BY <3>1, RowsOrdered, ArgvType DEF Inv
    <2>6. Len(args_copy) < STACK_SIZE + total
        <3>1. CASE argc = 0
            BY <2>1, <2>3, <2>5, <3>1
        <3>2. CASE argc # 0
            <4>1. argc - 1 \in 0 .. MaxArgc - 1 /\ argc - 1 \in Nat /\ argc - 1 \in 0 .. argc
                  /\ argc - 1 \in 0 .. argc - 1 /\ (argc - 1) + 1 = argc
                BY <2>5, <3>2
            <4>2. Row(argc - 1) <= Room
                BY <4>1 DEF Inv, RowWritten, RowsWritten, CopiedArgs
            <4>3. argc <= MAX_ARGS + 1
                BY <2>5, <4>1, <4>2, RowInRoom
            <4>4. argc * (Room + 1) <= (MAX_ARGS + 1) * (Room + 1)
                BY <2>5, <4>3
            <4>5. (MAX_ARGS + 1) * (Room + 1) <= STACK_SIZE
                BY ArgumentsAssumption DEF Room
            <4>6. total # 0
                <5>1. Bytes[argc] = Bytes[argc - 1] + argv[(argc - 1) + 1] + 1
                    BY <4>1, BytesSteps
                <5>2. Bytes[argc - 1] \in Nat /\ argv[(argc - 1) + 1] \in Nat
                    BY <4>1, BytesType, ArgvType DEF Inv, Length
                <5>3. QED
                    BY <2>3, <5>1, <5>2
            <4>7. PICK p \in Int : p = argc * (Room + 1)
                BY <2>5
            <4>8. PICK q \in Int : q = (MAX_ARGS + 1) * (Room + 1)
                BY <2>5
            <4>9. QED
                BY <2>1, <2>3, <2>5, <4>4, <4>5, <4>6, <4>7, <4>8
        <3>3. QED
            BY <3>1, <3>2
    <2>7. PICK n \in Nat : n = Len(args_copy)
        BY <2>5
    <2>8. mod_size + INT + n < STACK_SIZE + INT + total + mod_size
        BY <2>1, <2>6, <2>7
    <2>9. n = total => STACK_SIZE + INT + total + mod_size - (mod_size + INT + n) = STACK_SIZE
        BY <2>1
    <2>10. Fits => n = total
        BY <2>1, <2>3, <2>7
    <2>11. task.esp = STACK_SIZE + INT + total + mod_size
        BY <2>2, <2>4
    <2>12. PICK end : end = mod_size + INT + Len(args_copy)
        OBVIOUS
    <2>13. end < task.esp /\ (Fits => task.esp - end = STACK_SIZE)
        <3>1. end = mod_size + INT + n
            BY <2>7, <2>12
        <3>2. end < task.esp
            BY <2>8, <2>11, <3>1
        <3>3. ASSUME Fits PROVE task.esp - end = STACK_SIZE
            <4>1. n = total
                BY <2>10, <3>3
            <4>2. STACK_SIZE + INT + total + mod_size - (mod_size + INT + n) = STACK_SIZE
                BY <2>9, <4>1
            <4>3. QED
                BY <2>1, <2>11, <3>1, <4>2
        <3>4. QED
            BY <3>2, <3>3
    <2>14. QED
        BY <2>2, <2>12, <2>13
<1>2. QED
    BY <1>1, ArgumentsInvariant, PTL

---------------------------------------------------------------------------
(* Which arguments arrive.                                                 *)

\* f is the strings of the first m arguments, for every m up to n.
Joins(f, n) == f = [m \in 0 .. n |-> IF m = 0 THEN <<>> ELSE f[m - 1] \o Text(m)]

LEMMA JoinsExist == \A n \in Nat : \E f : Joins(f, n)
<1> DEFINE S == {n \in Nat : \E f : Joins(f, n)}
<1>1. 0 \in S
    <2>1. Joins([m \in 0 .. 0 |-> <<>>], 0)
        BY DEF Joins
    <2>2. QED
        BY <2>1
<1>2. ASSUME NEW n \in Nat, n \in S PROVE n + 1 \in S
    <2>1. PICK f : Joins(f, n)
        BY <1>2
    <2> DEFINE g == [m \in 0 .. n + 1 |-> IF m \in 0 .. n THEN f[m] ELSE f[n] \o Text(n + 1)]
    <2>2. ASSUME NEW m \in 0 .. n + 1
          PROVE  g[m] = IF m = 0 THEN <<>> ELSE g[m - 1] \o Text(m)
        <3>1. CASE m = 0
            BY <2>1, <3>1 DEF Joins
        <3>2. CASE m # 0 /\ m \in 0 .. n
            <4>1. m - 1 \in 0 .. n
                BY <3>2
            <4>2. g[m] = f[m] /\ g[m - 1] = f[m - 1]
                BY <3>2, <4>1
            <4>3. f[m] = f[m - 1] \o Text(m)
                BY <2>1, <3>2 DEF Joins
            <4>4. QED
                BY <3>2, <4>2, <4>3
        <3>3. CASE m \notin 0 .. n
            <4>1. m = n + 1 /\ m # 0 /\ m - 1 = n /\ n \in 0 .. n
                BY <3>3
            <4>2. QED
                BY <3>3, <4>1
        <3>4. QED
            BY <3>1, <3>2, <3>3
    <2>3. Joins(g, n + 1)
        BY <2>2 DEF Joins
    <2>4. QED
        BY <2>3
<1>3. QED
    <2> HIDE DEF S
    <2>1. Nat \subseteq S
        BY <1>1, <1>2, NatSetInduction
    <2>2. QED
        BY <2>1 DEF S

LEMMA StringsSteps ==
    /\ Strings[0] = <<>>
    /\ \A n \in 0 .. MaxArgc - 1 : Strings[n + 1] = Strings[n] \o Text(n + 1)
<1>1. \E f : Joins(f, MaxArgc)
    BY JoinsExist, ConstantFacts
<1>2. Joins(Strings, MaxArgc)
    BY <1>1 DEF Strings, Joins
<1>3. Strings[0] = <<>>
    BY <1>2, ConstantFacts DEF Joins
<1>4. ASSUME NEW n \in 0 .. MaxArgc - 1 PROVE Strings[n + 1] = Strings[n] \o Text(n + 1)
    <2>1. n + 1 \in 0 .. MaxArgc /\ n + 1 # 0 /\ (n + 1) - 1 = n
        BY ConstantFacts
    <2>2. Strings[n + 1] = Strings[(n + 1) - 1] \o Text(n + 1)
        BY <1>2, <2>1 DEF Joins
    <2>3. QED
        BY <2>1, <2>2
<1>5. QED
    BY <1>3, <1>4

LEMMA Joined ==
    ASSUME NEW S, NEW s \in Seq(S), NEW t \in Seq(S)
    PROVE  /\ s \o t \in Seq(S) /\ Len(s \o t) = Len(s) + Len(t)
           /\ \A p \in 1 .. Len(s) : (s \o t)[p] = s[p]
           /\ \A p \in 1 .. Len(t) : (s \o t)[Len(s) + p] = t[p]
OBVIOUS

\* The argument of row k as a string.
LEMMA TextType ==
    ASSUME TypeOK, NEW k \in 0 .. argc - 1
    PROVE  /\ Text(k + 1) \in Seq(0 .. MaxArgc) /\ Len(Text(k + 1)) = Length(k) + 1
           /\ \A p \in 1 .. Length(k) : Text(k + 1)[p] = k + 1
           /\ Text(k + 1)[Length(k) + 1] = 0
<1> USE ConstantFacts
<1>1. PICK L \in Nat : L = Length(k)
    BY ArgvType
<1>2. argv[k + 1] = L /\ k + 1 \in 0 .. MaxArgc
    BY <1>1, ArgvType DEF Length
<1>3. Text(k + 1) = [o \in 1 .. L + 1 |-> IF o <= L THEN k + 1 ELSE 0]
    BY <1>2 DEF Text
<1>4. Text(k + 1) \in Seq(0 .. MaxArgc) /\ Len(Text(k + 1)) = L + 1
    BY <1>2, <1>3
<1>5. QED
    BY <1>1, <1>3, <1>4

LEMMA StringsType ==
    ASSUME TypeOK
    PROVE  \A n \in 0 .. argc : Strings[n] \in Seq(0 .. MaxArgc)
<1> DEFINE S == {n \in Nat : n <= argc => Strings[n] \in Seq(0 .. MaxArgc)}
<1>1. 0 \in S
    <2>1. Strings[0] = <<>> /\ <<>> \in Seq(0 .. MaxArgc)
        BY StringsSteps
    <2>2. QED
        BY <2>1
<1>2. ASSUME NEW n \in Nat, n \in S PROVE n + 1 \in S
    <2>1. SUFFICES ASSUME n + 1 <= argc PROVE Strings[n + 1] \in Seq(0 .. MaxArgc)
        OBVIOUS
    <2>2. n \in 0 .. MaxArgc - 1 /\ n \in 0 .. argc - 1 /\ n <= argc
        BY <2>1, ArgvType, ConstantFacts
    <2>3. Strings[n + 1] = Strings[n] \o Text(n + 1) /\ Strings[n] \in Seq(0 .. MaxArgc)
        BY <1>2, <2>2, StringsSteps
    <2>4. Text(n + 1) \in Seq(0 .. MaxArgc)
        BY <2>2, TextType
    <2>5. QED
        BY <2>3, <2>4, Joined
<1>3. QED
    <2> HIDE DEF S
    <2>1. Nat \subseteq S
        BY <1>1, <1>2, NatSetInduction
    <2>2. QED
        BY <2>1, ArgvType DEF S

\* The strings of fewer arguments are the beginning of those of all.
LEMMA StringsBegin ==
    ASSUME TypeOK, NEW n \in 0 .. argc
    PROVE  /\ Len(Strings[n]) <= Len(Strings[argc])
           /\ \A p \in 1 .. Len(Strings[n]) : Strings[argc][p] = Strings[n][p]
<1> DEFINE Begin(m) == /\ Len(Strings[n]) <= Len(Strings[m])
                       /\ \A p \in 1 .. Len(Strings[n]) : Strings[m][p] = Strings[n][p]
           S == {d \in Nat : n + d <= argc => Begin(n + d)}
<1>0. n \in Nat /\ argc \in Nat /\ argc <= MaxArgc
    BY ArgvType, ConstantFacts
<1>1. 0 \in S
    <2>1. n + 0 = n /\ Strings[n] \in Seq(0 .. MaxArgc)
        BY <1>0, StringsType
    <2>2. Len(Strings[n]) \in Nat
        BY <2>1
    <2>3. QED
        BY <2>1, <2>2
<1>2. ASSUME NEW d \in Nat, d \in S PROVE d + 1 \in S
    <2>1. SUFFICES ASSUME n + (d + 1) <= argc PROVE Begin(n + (d + 1))
        OBVIOUS
    <2>2. PICK m \in Nat : m = n + d
        BY <1>0
    <2>3. n + (d + 1) = m + 1 /\ m \in 0 .. argc - 1 /\ m \in 0 .. argc /\ m \in 0 .. MaxArgc - 1
        BY <1>0, <2>1, <2>2, ConstantFacts
    <2>4. Begin(m)
        BY <1>2, <2>2, <2>3
    <2>5. Strings[m + 1] = Strings[m] \o Text(m + 1)
        BY <2>3, StringsSteps
    <2>6. PICK s \in Seq(0 .. MaxArgc) : s = Strings[m]
        BY <2>3, StringsType
    <2>7. PICK t \in Seq(0 .. MaxArgc) : t = Text(m + 1)
        BY <2>3, TextType
    <2>8. PICK r \in Seq(0 .. MaxArgc) : r = Strings[n]
        BY StringsType
    <2>9. Strings[m + 1] = s \o t
        BY <2>5, <2>6, <2>7
    <2>10. Len(s \o t) = Len(s) + Len(t) /\ \A p \in 1 .. Len(s) : (s \o t)[p] = s[p]
        BY Joined
    <2>11. Len(r) <= Len(s) /\ \A p \in 1 .. Len(r) : s[p] = r[p]
        BY <2>4, <2>6, <2>8
    <2>12. Len(r) <= Len(s \o t) /\ \A p \in 1 .. Len(r) : (s \o t)[p] = r[p]
        <3>1. Len(r) \in Nat /\ Len(s) \in Nat /\ Len(t) \in Nat
            OBVIOUS
        <3>2. Len(r) <= Len(s \o t) /\ \A p \in 1 .. Len(r) : p \in 1 .. Len(s)
            BY <2>10, <2>11, <3>1
        <3>3. QED
            BY <2>10, <2>11, <3>2
    <2>13. QED
        BY <2>3, <2>8, <2>9, <2>12
<1>3. QED
    <2> HIDE DEF S
    <2>1. Nat \subseteq S
        BY <1>1, <1>2, NatSetInduction
    <2>2. PICK d \in Nat : n + d = argc
        <3>1. argc - n \in Nat /\ n + (argc - n) = argc
            BY <1>0
        <3>2. QED
            BY <3>1
    <2> HIDE DEF Begin
    <2>3. n + d <= argc => Begin(n + d)
        BY <2>1 DEF S
    <2>4. Begin(argc)
        BY <1>0, <2>2, <2>3
    <2>5. QED
        BY <2>4 DEF Begin

\* The bytes that strlen and memcpy find in row k.
Piece(k) == memcpy(tmp, Row(k), strlen(tmp, Row(k)) + 1)

LEMMA PieceType ==
    ASSUME TypeOK, NEW k \in Nat, Ended(tmp, k)
    PROVE  LET n == strlen(tmp, Row(k))
           IN  /\ n \in Nat /\ Piece(k) \in Seq(0 .. MaxArgc) /\ Len(Piece(k)) = n + 1
               /\ \A p \in 1 .. n : Piece(k)[p] = tmp[Row(k) + (p - 1)] /\ Piece(k)[p] # 0
               /\ Piece(k)[n + 1] = 0
<1> USE ConstantFacts
<1>1. PICK R \in Nat : R = Row(k)
    BY RowsOrdered
<1>2. PICK n \in Nat : n = strlen(tmp, Row(k))
    BY <1>1, StringLength, RowsOrdered
<1>3. /\ \A m \in 0 .. n : tmp[R + m] \in 0 .. MaxArgc
      /\ tmp[R + n] = 0
      /\ \A m \in 0 .. n - 1 : tmp[R + m] # 0
    BY <1>1, <1>2, StringLength
<1>4. Piece(k) = [x \in 1 .. n + 1 |-> tmp[R + x - 1]]
    BY <1>1, <1>2 DEF Piece, memcpy
<1>5. ASSUME NEW x \in 1 .. n + 1 PROVE Piece(k)[x] = tmp[R + (x - 1)] /\ x - 1 \in 0 .. n
    <2>1. R + x - 1 = R + (x - 1)
        BY <1>1
    <2>2. QED
        BY <1>4, <2>1
<1>6. Piece(k) \in Seq(0 .. MaxArgc) /\ Len(Piece(k)) = n + 1
    <2>1. \A x \in 1 .. n + 1 : tmp[R + x - 1] \in 0 .. MaxArgc
        BY <1>3, <1>4, <1>5
    <2>2. QED
        BY <1>4, <2>1
<1>7. ASSUME NEW p \in 1 .. n PROVE Piece(k)[p] = tmp[R + (p - 1)] /\ Piece(k)[p] # 0
    <2>1. p \in 1 .. n + 1 /\ p - 1 \in 0 .. n - 1
        OBVIOUS
    <2>2. QED
        BY <1>3, <1>5, <2>1
<1>8. Piece(k)[n + 1] = 0
    <2>1. n + 1 \in 1 .. n + 1 /\ (n + 1) - 1 = n
        OBVIOUS
    <2>2. QED
        BY <1>3, <1>5, <2>1
<1>9. QED
    BY <1>1, <1>2, <1>6, <1>7, <1>8

LEMMA SameSequence ==
    ASSUME NEW S, NEW s \in Seq(S), NEW t \in Seq(S), Len(s) = Len(t),
           \A p \in 1 .. Len(s) : s[p] = t[p]
    PROVE  s = t
OBVIOUS

\* The string of a row is its argument if, and only if, that argument is there.
LEMMA PieceArrives ==
    ASSUME TypeOK, NEW k \in 0 .. argc - 1, Ended(tmp, k), Row(k) + Length(k) <= Room
    PROVE  /\ InPlace(tmp, k) => Piece(k) = Text(k + 1)
           /\ ~InPlace(tmp, k) =>
                 \E p \in 1 .. Len(Piece(k)) :
                     p <= Len(Text(k + 1)) /\ Piece(k)[p] # Text(k + 1)[p]
<1> USE ConstantFacts
<1>0. k \in Nat
    BY ArgvType
<1>1. PICK R \in Nat : R = Row(k)
    BY <1>0, RowsOrdered
<1>2. PICK L \in Nat : L = Length(k)
    BY ArgvType
<1>3. PICK n \in Nat : n = strlen(tmp, Row(k))
    BY <1>0, PieceType
<1>4. PICK s \in Seq(0 .. MaxArgc) : s = Piece(k)
    BY <1>0, PieceType
<1>5. PICK t \in Seq(0 .. MaxArgc) : t = Text(k + 1)
    BY TextType
<1>6. /\ Len(s) = n + 1 /\ s[n + 1] = 0
      /\ \A p \in 1 .. n : s[p] = tmp[R + (p - 1)] /\ s[p] # 0
    BY <1>0, <1>1, <1>3, <1>4, PieceType
<1>7. /\ Len(t) = L + 1 /\ t[L + 1] = 0
      /\ \A p \in 1 .. L : t[p] = k + 1
    BY <1>2, <1>5, TextType
<1>8. ASSUME InPlace(tmp, k) PROVE s = t
    <2>1. n = L
        BY <1>0, <1>2, <1>3, <1>8, StringLength
    <2>2. \A o \in R .. R + L - 1 : tmp[o] = k + 1
        BY <1>1, <1>2, <1>8 DEF InPlace
    <2>3. ASSUME NEW p \in 1 .. L PROVE s[p] = t[p]
        <3>1. R + (p - 1) \in R .. R + L - 1
            OBVIOUS
        <3>2. QED
            BY <1>6, <1>7, <2>1, <2>2, <3>1
    <2>4. \A p \in 1 .. Len(s) : s[p] = t[p]
        <3>1. ASSUME NEW p \in 1 .. L + 1 PROVE s[p] = t[p]
            <4>1. p \in 1 .. L \/ p = L + 1
                OBVIOUS
            <4>2. QED
                BY <1>6, <1>7, <2>1, <2>3, <4>1
        <3>2. QED
            BY <1>6, <2>1, <3>1
    <2>5. QED
        BY <1>6, <1>7, <2>1, <2>4, SameSequence
<1>9. ASSUME ~InPlace(tmp, k) PROVE \E p \in 1 .. Len(s) : p <= Len(t) /\ s[p] # t[p]
    <2>0. k + 1 # 0
        BY <1>0
    <2>1. CASE n < L
        <3>1. n + 1 \in 1 .. Len(s) /\ n + 1 <= Len(t) /\ n + 1 \in 1 .. L
            BY <1>6, <1>7, <2>1
        <3>2. s[n + 1] # t[n + 1]
            BY <1>6, <1>7, <2>0, <3>1
        <3>3. QED
            BY <3>1, <3>2
    <2>2. CASE L < n
        <3>1. L + 1 \in 1 .. Len(s) /\ L + 1 <= Len(t) /\ L + 1 \in 1 .. n
            BY <1>6, <1>7, <2>2
        <3>2. s[L + 1] # t[L + 1]
            BY <1>6, <1>7, <3>1
        <3>3. QED
            BY <3>1, <3>2
    <2>3. CASE n = L
        <3>1. tmp[R + L] = 0
            BY <1>0, <1>1, <1>3, <2>3, StringLength
        <3>2. PICK o \in R .. R + L - 1 : tmp[o] # k + 1
            BY <1>1, <1>2, <1>9, <3>1 DEF InPlace
        <3>3. PICK p \in Nat : p = o - R + 1
            BY <3>2
        <3>4. p \in 1 .. n /\ p \in 1 .. L /\ R + (p - 1) = o
            BY <2>3, <3>2, <3>3
        <3>5. s[p] # t[p]
            BY <1>6, <1>7, <3>2, <3>4
        <3>6. p \in 1 .. Len(s) /\ p <= Len(t)
            BY <1>6, <1>7, <2>3, <3>4
        <3>7. QED
            BY <3>5, <3>6
    <2>4. QED
        BY <2>1, <2>2, <2>3
<1>10. QED
    BY <1>4, <1>5, <1>8, <1>9

\* The bytes at args_copy differ from those of the arguments.
Differ == \E p \in 1 .. Len(args_copy) : p <= Len(Strings[argc]) /\ args_copy[p] # Strings[argc][p]

Arrived ==
    pc \in {"copy_in", "loaded"} =>
        /\ argc_copy = argc
        /\ (\A k \in 0 .. i - 1 : InPlace(tmp, k)) => args_copy = Strings[i]
        /\ (\E k \in 0 .. i - 1 : ~InPlace(tmp, k)) => Differ

LEMMA StringsUnchanged ==
    ASSUME argv' = argv
    PROVE  Strings' = Strings /\ argc' = argc /\ \A k : Length(k)' = Length(k)
BY DEF Strings, Text, argc, Length

\* What is behind a difference does not take it back.
LEMMA StillDiffer ==
    ASSUME NEW S, NEW s \in Seq(S), NEW t \in Seq(S), NEW r,
           NEW p \in 1 .. Len(s), s[p] # r[p]
    PROVE  p \in 1 .. Len(s \o t) /\ (s \o t)[p] # r[p]
<1>1. p \in 1 .. Len(s \o t) /\ (s \o t)[p] = s[p]
    BY Joined
<1>2. QED
    BY <1>1

LEMMA ArrivedCopyIn ==
    ASSUME Inv, Arrived, CopyIn
    PROVE  Arrived'
<1>1. /\ pc = "copy_in" /\ pc' = pc /\ i < argc /\ i' = i + 1
      /\ UNCHANGED <<argv, tmp, mod_size, task, argc_copy>>
      /\ args_copy' = args_copy \o Piece(i)
    BY DEF CopyIn, Piece
<1>2. Strings' = Strings /\ argc' = argc /\ \A k : Length(k)' = Length(k)
    BY <1>1, StringsUnchanged
<1>3. TypeOK /\ argc \in 0 .. MaxArgc /\ argc \in Nat
    BY ArgvType, ConstantFacts DEF Inv
<1>4. /\ i \in Nat /\ i \in 0 .. argc - 1 /\ i \in 0 .. argc /\ i \in 0 .. MaxArgc - 1
      /\ i + 1 \in 0 .. argc
    BY <1>1, <1>3, ConstantFacts DEF TypeOK
<1>5. Ended(tmp, i) /\ Row(i) + Length(i) <= Room
    BY <1>1, <1>4 DEF Inv, RowWritten, RowsWritten, CopiedArgs
<1>6. PICK s \in Seq(0 .. MaxArgc) : s = args_copy
    BY <1>3 DEF TypeOK
<1>7. PICK t \in Seq(0 .. MaxArgc) : t = Piece(i)
    BY <1>3, <1>4, <1>5, PieceType
<1>8. PICK u \in Seq(0 .. MaxArgc) : u = Text(i + 1)
    BY <1>3, <1>4, TextType
<1>9. PICK r \in Seq(0 .. MaxArgc) : r = Strings[argc]
    BY <1>3, StringsType
<1>10. Strings[i + 1] = Strings[i] \o u
    BY <1>4, <1>8, StringsSteps
<1>11. InPlace(tmp, i) => t = u
    BY <1>3, <1>4, <1>5, <1>7, <1>8, PieceArrives
<1>12. ~InPlace(tmp, i) => \E p \in 1 .. Len(t) : p <= Len(u) /\ t[p] # u[p]
    BY <1>3, <1>4, <1>5, <1>7, <1>8, PieceArrives
<1>13. ASSUME \A k \in 0 .. i : InPlace(tmp, k) PROVE args_copy' = Strings[i + 1]
    <2>1. s = Strings[i] /\ t = u
        BY <1>1, <1>4, <1>6, <1>11, <1>13 DEF Arrived
    <2>2. QED
        BY <1>1, <1>6, <1>7, <1>10, <2>1
<1>14. ASSUME NEW k \in 0 .. i, ~InPlace(tmp, k)
       PROVE  \E p \in 1 .. Len(s \o t) : p <= Len(r) /\ (s \o t)[p] # r[p]
    <2>1. CASE \E j \in 0 .. i - 1 : ~InPlace(tmp, j)
        <3>1. \E p \in 1 .. Len(s) : p <= Len(r) /\ s[p] # r[p]
            BY <1>1, <1>6, <1>9, <2>1 DEF Arrived, Differ
        <3>2. PICK p \in 1 .. Len(s) : p <= Len(r) /\ s[p] # r[p]
            BY <3>1
        <3>3. p \in 1 .. Len(s \o t) /\ (s \o t)[p] # r[p]
            BY <3>2, StillDiffer
        <3>4. QED
            BY <3>2, <3>3
    <2>2. CASE \A j \in 0 .. i - 1 : InPlace(tmp, j)
        <3>1. k = i
            BY <1>4, <1>14, <2>2
        <3>2. \E p \in 1 .. Len(t) : p <= Len(u) /\ t[p] # u[p]
            BY <1>12, <1>14, <3>1
        <3>3. s = Strings[i]
            BY <1>1, <1>6, <2>2 DEF Arrived
        <3>4. s \o u = Strings[i + 1]
            BY <1>10, <3>3
        <3>5. Len(s \o u) <= Len(r) /\ \A p \in 1 .. Len(s \o u) : r[p] = (s \o u)[p]
            BY <1>3, <1>4, <1>9, <3>4, StringsBegin
        <3>6. PICK p \in 1 .. Len(t) : p <= Len(u) /\ t[p] # u[p]
            BY <3>2
        <3>7. /\ Len(s) + p \in 1 .. Len(s \o t) /\ Len(s) + p <= Len(r)
              /\ (s \o t)[Len(s) + p] # r[Len(s) + p]
            <4>1. Len(s \o t) = Len(s) + Len(t) /\ \A o \in 1 .. Len(t) : (s \o t)[Len(s) + o] = t[o]
                BY Joined
            <4>2. Len(s \o u) = Len(s) + Len(u) /\ \A o \in 1 .. Len(u) : (s \o u)[Len(s) + o] = u[o]
                BY Joined
            <4>3. Len(s) \in Nat /\ Len(u) \in Nat /\ Len(t) \in Nat /\ Len(r) \in Nat
                OBVIOUS
            <4>4. p \in 1 .. Len(u) /\ Len(s) + p \in 1 .. Len(s \o u)
                BY <3>6, <4>2, <4>3
            <4>5. Len(s) + p \in 1 .. Len(s \o t) /\ Len(s) + p <= Len(r)
                BY <3>5, <3>6, <4>1, <4>3, <4>4
            <4>6. (s \o t)[Len(s) + p] = t[p] /\ r[Len(s) + p] = u[p]
                BY <3>5, <4>1, <4>2, <4>4
            <4>7. QED
                BY <3>6, <4>5, <4>6
        <3>8. QED
            BY <3>7
    <2>3. QED
        BY <2>1, <2>2
<1>15. \A k : InPlace(tmp, k)' = InPlace(tmp, k)
    BY <1>1, <1>2 DEF InPlace, Row, Room
<1>16. i' - 1 = i
    BY <1>1, <1>4
<1>17. (\E k \in 0 .. i : ~InPlace(tmp, k)) => Differ'
    BY <1>1, <1>2, <1>6, <1>7, <1>9, <1>14 DEF Differ
<1>18. QED
    BY <1>1, <1>2, <1>13, <1>15, <1>16, <1>17 DEF Arrived

LEMMA ArrivedStep ==
    ASSUME Inv, Arrived, [Next]_vars
    PROVE  Arrived'
<1>1. CASE CopyOut \/ CopiedOut \/ LoadFails
    BY <1>1 DEF CopyOut, CopiedOut, LoadFails, Arrived
<1>2. CASE TaskCreate
    <2>1. pc' = "copy_in" /\ i' = 0 /\ argc_copy' = argc /\ argv' = argv /\ args_copy' = <<>>
        BY <1>2 DEF TaskCreate, Inv, NothingLoaded
    <2>2. Strings' = Strings /\ argc' = argc
        BY <2>1, StringsUnchanged
    <2>3. Strings'[0] = <<>> /\ 0 .. 0 - 1 = {}
        BY <2>2, StringsSteps
    <2>4. QED
        BY <2>1, <2>2, <2>3 DEF Arrived
<1>3. CASE Loaded \/ UNCHANGED vars
    <2>1. UNCHANGED <<argv, i, tmp, argc_copy, args_copy>>
          /\ (pc' \in {"copy_in", "loaded"} => pc \in {"copy_in", "loaded"})
        BY <1>3 DEF Loaded, vars
    <2>2. Strings' = Strings /\ argc' = argc /\ \A k : Length(k)' = Length(k)
        BY <2>1, StringsUnchanged
    <2>3. \A k : InPlace(tmp, k)' = InPlace(tmp, k)
        BY <2>1, <2>2 DEF InPlace, Row, Room
    <2>4. Differ' = Differ
        BY <2>1, <2>2 DEF Differ
    <2>5. QED
        BY <2>1, <2>2, <2>3, <2>4 DEF Arrived
<1>4. QED
    BY <1>1, <1>2, <1>3, ArrivedCopyIn DEF Next

\* If every argument is where it belongs when all were copied, they fit: one
\* that is too long is cut by the next one or by its second terminal.
LEMMA InPlaceFits ==
    ASSUME TypeOK, \A k \in 0 .. argc - 1 : InPlace(tmp, k),
           \A k \in 0 .. argc - 1 :
               Row(k) + Length(k) <= Room /\ Row(k) <= Room /\ Beheaded(tmp, k)
    PROVE  Fits
<1> USE ConstantFacts
<1>1. SUFFICES ASSUME NEW k \in 0 .. argc - 1
               PROVE  \/ Length(k) < MAX_ARGS_LENGTH /\ k < MAX_ARGS
                      \/ k = argc - 1 /\ Row(k) + Length(k) < Room
                      \/ Length(k) = MAX_ARGS_LENGTH /\ k + 1 \in 0 .. argc - 1 \intersect 0 .. MAX_ARGS - 1
                            /\ Length(k + 1) = 0
                      \/ k = MAX_ARGS /\ k = argc - 1 /\ Length(k) = 0
    BY DEF Fits
<1>2. k \in Nat /\ argc \in Nat /\ k < argc /\ Room \in Nat
    BY ArgvType, RowsOrdered
<1>3. PICK Q \in Nat : Q = Row(k)
    BY <1>2, RowsOrdered
<1>4. PICK N \in Nat : N = Length(k)
    BY ArgvType
<1>5. /\ Q + N <= Room /\ (Q + N = Room /\ N # 0 => tmp[Q] = 0)
      /\ tmp[Q + N] = 0 /\ \A o \in Q .. Q + N - 1 : tmp[o] = k + 1
    BY <1>3, <1>4 DEF Beheaded, InPlace
<1>6. k <= MAX_ARGS
    BY <1>2, <1>3, RowInRoom
\* Its terminal is not on len, unless it is empty.
<1>7. Q + N = Room => N = 0
    <2>1. SUFFICES ASSUME Q + N = Room, N # 0 PROVE FALSE
        OBVIOUS
    <2>2. Q \in Q .. Q + N - 1
        BY <2>1
    <2>3. tmp[Q] = 0 /\ tmp[Q] = k + 1
        BY <1>5, <2>1, <2>2
    <2>4. QED
        BY <1>2, <2>3
<1>8. CASE k = argc - 1
    <2>1. CASE Q + N < Room
        BY <1>3, <1>4, <1>8, <2>1
    <2>2. CASE Q + N = Room
        <3>1. N = 0 /\ Q = Room
            BY <1>7, <2>2
        <3>2. k = MAX_ARGS
            <4>1. k < MAX_ARGS => Q + MAX_ARGS_LENGTH <= Room
                BY <1>2, <1>3, RowInRoom
            <4>2. QED
                BY <1>2, <1>6, <3>1, <4>1
        <3>3. QED
            BY <1>4, <1>8, <3>1, <3>2
    <2>3. QED
        BY <1>2, <1>5, <2>1, <2>2
<1>9. CASE k # argc - 1
    <2>1. k + 1 \in 0 .. argc - 1 /\ k + 1 \in Nat
        BY <1>2, <1>9
    <2>2. Row(k + 1) = Q + MAX_ARGS_LENGTH
        BY <1>2, <1>3, RowsOrdered
    <2>3. PICK M \in Nat : M = Length(k + 1)
        BY <2>1, ArgvType
    <2>4. /\ Q + MAX_ARGS_LENGTH + M <= Room /\ tmp[Q + MAX_ARGS_LENGTH + M] = 0
          /\ \A o \in Q + MAX_ARGS_LENGTH .. Q + MAX_ARGS_LENGTH + M - 1 : tmp[o] = (k + 1) + 1
        BY <2>1, <2>2, <2>3 DEF InPlace
    <2>5. k < MAX_ARGS
        <3>1. k + 1 <= MAX_ARGS
            BY <2>1, RowInRoom
        <3>2. QED
            BY <1>2, <3>1
    \* The byte behind its row is the first of the next argument.
    <2>6. N <= MAX_ARGS_LENGTH
        <3>1. SUFFICES ASSUME MAX_ARGS_LENGTH < N PROVE FALSE
            OBVIOUS
        <3>2. tmp[Q + MAX_ARGS_LENGTH] = k + 1
            <4>1. Q + MAX_ARGS_LENGTH \in Q .. Q + N - 1
                BY <3>1
            <4>2. QED
                BY <1>5, <4>1
        <3>3. tmp[Q + MAX_ARGS_LENGTH] = 0 \/ tmp[Q + MAX_ARGS_LENGTH] = (k + 1) + 1
            <4>1. M = 0 \/ Q + MAX_ARGS_LENGTH \in Q + MAX_ARGS_LENGTH .. Q + MAX_ARGS_LENGTH + M - 1
                OBVIOUS
            <4>2. QED
                BY <2>4, <4>1
        <3>4. QED
            BY <1>2, <3>2, <3>3
    <2>7. CASE N < MAX_ARGS_LENGTH
        BY <1>4, <2>5, <2>7
    <2>8. CASE N = MAX_ARGS_LENGTH
        <3>1. M = 0
            <4>1. SUFFICES ASSUME M # 0 PROVE FALSE
                OBVIOUS
            <4>2. Q + MAX_ARGS_LENGTH \in Q + MAX_ARGS_LENGTH .. Q + MAX_ARGS_LENGTH + M - 1
                BY <4>1
            <4>3. tmp[Q + MAX_ARGS_LENGTH] = (k + 1) + 1 /\ tmp[Q + MAX_ARGS_LENGTH] = 0
                BY <1>5, <2>4, <2>8, <4>2
            <4>4. QED
                BY <1>2, <4>3
        <3>2. k + 1 < MAX_ARGS
            <4>1. SUFFICES ASSUME k + 1 = MAX_ARGS PROVE FALSE
                BY <1>2, <2>5
            <4>2. Row(k + 1) = Room
                BY <4>1, RowsOrdered
            <4>3. QED
                BY <1>7, <2>2, <2>8, <4>2
        <3>3. k + 1 \in 0 .. MAX_ARGS - 1
            BY <1>2, <3>2
        <3>4. QED
            BY <1>4, <2>1, <2>3, <2>8, <3>1, <3>3
    <2>9. QED
        BY <2>6, <2>7, <2>8
<1>10. QED
    BY <1>8, <1>9

\* For any number of rows, any length of a row and any arguments: the new task
\* gets argc and exactly the arguments of its caller if, and only if, they fit
\* in tmp_argv (task.c:197-203, 225-232).
THEOREM ArgumentsArriveCorrect == Spec => []ArgumentsArrive
<1>1. Init => Arrived
    BY DEF Init, Arrived
<1>2. Inv /\ Inv' /\ Arrived /\ [Next]_vars => Arrived'
    BY ArrivedStep
<1>3. Inv /\ Arrived => ArgumentsArrive
    <2> SUFFICES ASSUME Inv, Arrived, pc = "loaded"
                 PROVE  argc_copy = argc /\ (args_copy = Strings[argc] <=> Fits)
        BY DEF ArgumentsArrive
    <2>1. i = argc /\ TypeOK
        BY DEF Inv, TaskSized
    <2>2. argc \in Nat
        BY <2>1, ArgvType, ConstantFacts
    <2>3. \A k \in 0 .. argc - 1 :
             /\ Row(k) + Length(k) <= Room /\ Row(k) <= Room
             /\ Beheaded(tmp, k) /\ (Fits => InPlace(tmp, k))
        BY DEF Inv, RowsWritten, RowWritten, CopiedArgs
    <2>4. ASSUME Fits PROVE args_copy = Strings[argc]
        BY <2>1, <2>3, <2>4 DEF Arrived
    <2>5. ASSUME ~Fits PROVE args_copy # Strings[argc]
        <3>1. \E k \in 0 .. argc - 1 : ~InPlace(tmp, k)
            BY <2>1, <2>3, <2>5, InPlaceFits
        <3>2. Differ
            BY <2>1, <3>1 DEF Arrived
        <3>3. QED
            BY <3>2 DEF Differ
    <2>6. QED
        BY <2>4, <2>5 DEF Arrived
<1>4. QED
    BY <1>1, <1>2, <1>3, ArgumentsInvariant, PTL DEF Spec
=============================================================================
