----------------------------- MODULE ShellProof -----------------------------
(***************************************************************************)
(* Proofs about the line the shell reads, for any buffer, keys and tab     *)
(* size: it is stored inside the buffer, the screen shows it, memory       *)
(* beyond the buffer is touched only by a line that does not fit, and the  *)
(* command that is carried out is the one the line means.                  *)
(***************************************************************************)
EXTENDS MCShell, TLAPS, SequenceTheorems, FiniteSetTheorems, WellFoundedInduction

---------------------------------------------------------------------------
(* Natural numbers: least elements, and induction for a set.               *)

NatLess == {p \in Nat \X Nat : p[1] < p[2]}

LEMMA MinOfNats ==
    ASSUME NEW S, S \subseteq Nat, S # {}
    PROVE  Min(S) \in S /\ \A y \in S : Min(S) <= y
<1>1. IsWellFoundedOn(NatLess, Nat)
    BY NatLessThanWellFounded DEF OpToRel, NatLess
<1>2. PICK n \in S : \A m \in S : ~(<<m, n>> \in NatLess)
    BY <1>1, WFMin
<1>3. ASSUME NEW m \in S PROVE n <= m
    <2>1. m \in Nat /\ n \in Nat /\ (m < n => <<m, n>> \in NatLess)
        BY DEF NatLess
    <2>2. QED
        BY <1>2, <2>1
<1>4. QED
    BY <1>3 DEF Min

LEMMA NatSetInduction ==
    ASSUME NEW S, 0 \in S, \A n \in Nat : n \in S => n + 1 \in S
    PROVE  Nat \subseteq S
<1> DEFINE T == Nat \ S
<1>1. SUFFICES ASSUME T # {} PROVE FALSE
    OBVIOUS
<1> DEFINE n == Min(T)
<1>2. n \in T /\ \A m \in T : n <= m
    <2>1. T \subseteq Nat
        OBVIOUS
    <2> HIDE DEF T
    <2>2. QED
        BY <1>1, <2>1, MinOfNats
<1> HIDE DEF n
<1>3. n # 0 /\ n - 1 \in Nat /\ n = (n - 1) + 1 /\ ~(n <= n - 1)
    BY <1>2
<1>4. n - 1 \in S
    BY <1>2, <1>3
<1>5. QED
    BY <1>2, <1>3, <1>4

---------------------------------------------------------------------------
(* Sequences.                                                              *)

LEMMA SameSequence ==
    ASSUME NEW S, NEW s \in Seq(S), NEW t \in Seq(S), Len(s) = Len(t),
           \A k \in 1 .. Len(s) : s[k] = t[k]
    PROVE  s = t
OBVIOUS

LEMMA Joined ==
    ASSUME NEW S, NEW s \in Seq(S), NEW t \in Seq(S)
    PROVE  /\ s \o t \in Seq(S) /\ Len(s \o t) = Len(s) + Len(t)
           /\ \A k \in 1 .. Len(s) : (s \o t)[k] = s[k]
           /\ \A k \in 1 .. Len(t) : (s \o t)[Len(s) + k] = t[k]
OBVIOUS

---------------------------------------------------------------------------
(* The line after some keys, one key after the other.                      *)

\* The line l after one more key.
AfterKey(l, key) ==
    CASE key = Backspace -> Front(l)
      [] key = Tab -> l \o [i \in 1 .. TAB_SIZE |-> Blank]
      [] OTHER -> Append(l, CharOf[key])

\* f is the lines after the first n keys.
Lines(f, keys, n) == f = [m \in 0 .. n |-> IF m = 0 THEN <<>> ELSE AfterKey(f[m - 1], keys[m])]

LEMMA LinesExist ==
    ASSUME NEW keys
    PROVE  \A n \in Nat : \E f : Lines(f, keys, n)
<1> DEFINE S == {n \in Nat : \E f : Lines(f, keys, n)}
<1>1. 0 \in S
    <2>1. Lines([m \in 0 .. 0 |-> <<>>], keys, 0)
        BY DEF Lines
    <2>2. QED
        BY <2>1
<1>2. ASSUME NEW n \in Nat, n \in S PROVE n + 1 \in S
    <2>1. PICK f : Lines(f, keys, n)
        BY <1>2
    <2> DEFINE g == [m \in 0 .. n + 1 |-> IF m \in 0 .. n THEN f[m] ELSE AfterKey(f[n], keys[n + 1])]
    <2>2. ASSUME NEW m \in 0 .. n + 1
          PROVE  g[m] = IF m = 0 THEN <<>> ELSE AfterKey(g[m - 1], keys[m])
        <3>1. CASE m = 0
            BY <2>1, <3>1 DEF Lines
        <3>2. CASE m # 0 /\ m \in 0 .. n
            <4>1. m - 1 \in 0 .. n
                BY <3>2
            <4>2. g[m] = f[m] /\ g[m - 1] = f[m - 1]
                BY <3>2, <4>1
            <4>3. f[m] = AfterKey(f[m - 1], keys[m])
                BY <2>1, <3>2 DEF Lines
            <4>4. QED
                BY <3>2, <4>2, <4>3
        <3>3. CASE m \notin 0 .. n
            <4>1. m = n + 1 /\ m # 0 /\ m - 1 = n /\ n \in 0 .. n
                BY <3>3
            <4>2. QED
                BY <3>3, <4>1
        <3>4. QED
            BY <3>1, <3>2, <3>3
    <2>3. Lines(g, keys, n + 1)
        BY <2>2 DEF Lines
    <2>4. QED
        BY <2>3
<1>3. QED
    <2> HIDE DEF S
    <2>1. Nat \subseteq S
        BY <1>1, <1>2, NatSetInduction
    <2>2. QED
        BY <2>1 DEF S

\* The first lines depend on the first keys only.
LEMMA LinesAgree ==
    ASSUME NEW keys, NEW more, NEW n \in Nat, NEW k \in Nat, n <= k,
           \A m \in 1 .. n : keys[m] = more[m],
           NEW f, Lines(f, keys, n), NEW g, Lines(g, more, k)
    PROVE  f[n] = g[n]
<1> DEFINE S == {m \in Nat : m <= n => f[m] = g[m]}
<1>1. 0 \in S
    BY DEF Lines
<1>2. ASSUME NEW m \in Nat, m \in S PROVE m + 1 \in S
    <2>1. SUFFICES ASSUME m + 1 <= n PROVE f[m + 1] = g[m + 1]
        OBVIOUS
    <2>2. /\ m + 1 \in 0 .. n /\ m + 1 \in 0 .. k /\ m + 1 # 0 /\ m <= n
          /\ (m + 1) - 1 = m /\ m + 1 \in 1 .. n
        BY <2>1
    <2>3. f[m + 1] = AfterKey(f[m], keys[m + 1])
        BY <2>2 DEF Lines
    <2>4. g[m + 1] = AfterKey(g[m], more[m + 1])
        BY <2>2 DEF Lines
    <2>5. QED
        BY <1>2, <2>2, <2>3, <2>4
<1>3. QED
    <2> HIDE DEF S
    <2>1. Nat \subseteq S
        BY <1>1, <1>2, NatSetInduction
    <2>2. QED
        BY <2>1 DEF S

LEMMA EditedIsLast ==
    ASSUME NEW K, NEW keys \in Seq(K)
    PROVE  \E f : Lines(f, keys, Len(keys)) /\ Edited(keys) = f[Len(keys)]
<1>1. \E f : Lines(f, keys, Len(keys))
    BY LinesExist
<1>2. QED
    BY <1>1 DEF Edited, Lines, AfterKey

LEMMA EditedNothing == Edited(<<>>) = <<>>
<1>1. PICK f : Lines(f, <<>>, Len(<<>>)) /\ Edited(<<>>) = f[Len(<<>>)]
    <2>1. <<>> \in Seq({})
        OBVIOUS
    <2>2. QED
        BY <2>1, EditedIsLast
<1>2. QED
    BY <1>1 DEF Lines

LEMMA EditedAppend ==
    ASSUME NEW K, NEW keys \in Seq(K), NEW key \in K
    PROVE  Edited(Append(keys, key)) = AfterKey(Edited(keys), key)
<1> DEFINE more == Append(keys, key)
           n == Len(keys)
<1>1. more \in Seq(K) /\ Len(more) = n + 1 /\ n \in Nat /\ more[n + 1] = key
    OBVIOUS
<1>2. \A m \in 1 .. n : keys[m] = more[m]
    OBVIOUS
<1> HIDE DEF more, n
<1>3. PICK f : Lines(f, keys, n) /\ Edited(keys) = f[n]
    BY EditedIsLast DEF n
<1>4. PICK g : Lines(g, more, n + 1) /\ Edited(more) = g[n + 1]
    BY <1>1, EditedIsLast
<1>5. f[n] = g[n]
    BY <1>1, <1>2, <1>3, <1>4, LinesAgree
<1>6. g[n + 1] = AfterKey(g[n], more[n + 1])
    <2>1. n + 1 \in 0 .. n + 1 /\ n + 1 # 0 /\ (n + 1) - 1 = n
        BY <1>1
    <2>2. QED
        BY <1>4, <2>1 DEF Lines
<1>7. QED
    BY <1>1, <1>3, <1>4, <1>5, <1>6 DEF more

---------------------------------------------------------------------------
(* The line in the buffer and on the screen.                               *)

\* The screen shows what was typed; in the buffer are the same characters, and
\* behind them the terminal 0 once the line was entered.
LineStored ==
    /\ at \in {"read", "trim", "lost"} => screen = Edited(typed)
    /\ at \in {"read", "trim"} => pos = Len(screen) /\ \A k \in 0 .. pos - 1 : buf[k] = screen[k + 1]
    /\ at = "trim" => pos < LINE_SIZE /\ buf[pos] = NUL
    /\ at = "lost" => Len(screen) >= LINE_SIZE

\* A shell that runs, or waits for an application, has not ended.
ShellAlive == at # "halted" => depth # 0

Inv == TypeOK /\ LineStored /\ ShellAlive

LEMMA ConstantFacts ==
    /\ LINE_SIZE \in Nat \ {0} /\ TAB_SIZE \in Nat /\ MAX_TASK_COUNT \in Nat \ {0}
    /\ CharOf \in [Keys -> Chars] /\ Backspace \notin Keys /\ Tab \notin Keys
    /\ Backspace # Tab
    /\ Lower \in [Chars -> Chars] /\ Blank \in Chars /\ NUL \notin Chars
BY ShellAssumption DEF Backspace, Tab

LEMMA InitInv == Init => Inv
<1> SUFFICES ASSUME Init PROVE Inv
    OBVIOUS
<1>1. <<>> \in Seq(Chars) /\ <<>> \in Seq(Keys \union {Backspace, Tab})
    OBVIOUS
<1>2. buf \in [Addr -> Chars \union {NUL, Stale}]
    BY DEF Init
<1>3. 0 \in 0 .. LINE_SIZE /\ 1 \in 0 .. MAX_TASK_COUNT
    BY ConstantFacts
<1>4. job.does = "nothing"
    BY DEF Init, NoJob
<1>5. TypeOK
    BY <1>1, <1>2, <1>3, <1>4 DEF Init, TypeOK
<1>6. QED
    BY <1>5 DEF Init, Inv, LineStored, ShellAlive

\* The characters of a key are echoed and stored, or do not fit.
LEMMA Stored ==
    ASSUME TypeOK, LineStored, at = "read", NEW cs \in Seq(Chars), Echo(cs), Store(cs)
    PROVE  /\ screen' = screen \o cs /\ screen' \in Seq(Chars)
           /\ buf' \in [Addr -> Chars \union {NUL, Stale}] /\ pos' \in 0 .. LINE_SIZE
           /\ \/ /\ at' = "read" /\ pos' = Len(screen')
                 /\ \A k \in 0 .. pos' - 1 : buf'[k] = screen'[k + 1]
              \/ at' = "lost" /\ Len(screen') >= LINE_SIZE
<1> USE ConstantFacts
<1>1. screen' = screen \o cs
    BY DEF Echo, syscall_handler, syscall_func
<1>2. screen \in Seq(Chars) /\ pos \in 0 .. LINE_SIZE /\ pos = Len(screen)
    BY DEF TypeOK, LineStored
<1>3. screen' \in Seq(Chars) /\ Len(screen') = pos + Len(cs) /\ Len(cs) \in Nat
    BY <1>1, <1>2
<1>4. CASE pos + Len(cs) <= LINE_SIZE
    <2>1. /\ pos' = pos + Len(cs) /\ at' = at
          /\ buf' = [k \in Addr |-> IF k \in pos .. pos + Len(cs) - 1
                                    THEN cs[k - pos + 1] ELSE buf[k]]
        BY <1>4 DEF Store
    <2>2. ASSUME NEW k \in pos .. pos + Len(cs) - 1 PROVE cs[k - pos + 1] \in Chars
        <3>1. k - pos + 1 \in 1 .. Len(cs)
            BY <1>2, <1>3
        <3>2. QED
            BY <3>1
    <2>3. buf' \in [Addr -> Chars \union {NUL, Stale}]
        BY <2>1, <2>2 DEF TypeOK
    <2>4. pos' \in 0 .. LINE_SIZE
        BY <1>2, <1>3, <1>4, <2>1
    <2>5. ASSUME NEW k \in 0 .. pos' - 1 PROVE buf'[k] = (screen \o cs)[k + 1]
        <3>1. k \in Addr
            BY <1>2, <1>3, <1>4, <2>1 DEF Addr
        <3>2. k \in 0 .. pos - 1 \/ k \in pos .. pos + Len(cs) - 1
            BY <1>2, <1>3, <2>1
        <3>3. CASE k \in 0 .. pos - 1
            <4>1. buf'[k] = buf[k] /\ buf[k] = screen[k + 1]
                BY <1>2, <2>1, <3>1, <3>3 DEF LineStored
            <4>2. k + 1 \in 1 .. Len(screen)
                BY <1>2, <3>3
            <4>3. QED
                BY <1>2, <4>1, <4>2, Joined
        <3>4. CASE k \in pos .. pos + Len(cs) - 1
            <4>1. buf'[k] = cs[k - pos + 1]
                BY <2>1, <3>1, <3>4
            <4>2. k - pos + 1 \in 1 .. Len(cs) /\ Len(screen) + (k - pos + 1) = k + 1
                BY <1>2, <1>3, <3>4
            <4>3. QED
                BY <1>2, <4>1, <4>2, Joined
        <3>5. QED
            BY <3>2, <3>3, <3>4
    <2>6. QED
        BY <1>1, <1>3, <2>1, <2>3, <2>4, <2>5
<1>5. CASE ~(pos + Len(cs) <= LINE_SIZE)
    <2>1. at' = "lost" /\ buf' = buf /\ pos' = pos
        BY <1>5 DEF Store
    <2>2. QED
        BY <1>1, <1>2, <1>3, <1>5, <2>1 DEF TypeOK
<1>6. QED
    BY <1>4, <1>5

\* The keys typed, and what does not change while a line is read.
LEMMA KeyTyped ==
    ASSUME TypeOK, LineStored, at = "read", NEW key \in Keys \union {Backspace, Tab}, Typed(key)
    PROVE  /\ typed' \in Seq(Keys \union {Backspace, Tab})
           /\ Edited(typed') = AfterKey(screen, key)
<1>1. typed \in Seq(Keys \union {Backspace, Tab}) /\ screen = Edited(typed)
    BY DEF TypeOK, LineStored
<1>2. typed' = Append(typed, key)
    BY DEF Typed
<1>3. QED
    BY <1>1, <1>2, EditedAppend

LEMMA CharacterStep ==
    ASSUME Inv, NEW key \in Keys, TypeChar(key)
    PROVE  Inv'
<1> USE ConstantFacts
<1>1. at = "read" /\ UNCHANGED <<line, job, depth>>
    BY DEF TypeChar, Reading
<1>2. typed' \in Seq(Keys \union {Backspace, Tab}) /\ Edited(typed') = AfterKey(screen, key)
    BY <1>1, KeyTyped DEF Inv, TypeChar
<1>3. screen \in Seq(Chars) /\ CharOf[key] \in Chars
    BY DEF Inv, TypeOK
<1>4. <<CharOf[key]>> \in Seq(Chars) /\ screen \o <<CharOf[key]>> = Append(screen, CharOf[key])
    BY <1>3
<1>5. AfterKey(screen, key) = Append(screen, CharOf[key])
    BY DEF AfterKey
<1>6. /\ screen' = screen \o <<CharOf[key]>> /\ screen' \in Seq(Chars)
      /\ buf' \in [Addr -> Chars \union {NUL, Stale}] /\ pos' \in 0 .. LINE_SIZE
      /\ \/ /\ at' = "read" /\ pos' = Len(screen')
            /\ \A k \in 0 .. pos' - 1 : buf'[k] = screen'[k + 1]
         \/ at' = "lost" /\ Len(screen') >= LINE_SIZE
    BY <1>1, <1>4, Stored DEF Inv, TypeChar
<1>7. TypeOK'
    BY <1>1, <1>2, <1>6 DEF Inv, TypeOK
<1>8. LineStored' /\ ShellAlive'
    BY <1>1, <1>2, <1>4, <1>5, <1>6 DEF Inv, LineStored, ShellAlive
<1>9. QED
    BY <1>7, <1>8 DEF Inv

LEMMA TabStep == Inv /\ TypeTab => Inv'
<1> SUFFICES ASSUME Inv, TypeTab PROVE Inv'
    OBVIOUS
<1> USE ConstantFacts
<1> DEFINE blanks == [n \in 1 .. TAB_SIZE |-> Blank]
<1>1. at = "read" /\ UNCHANGED <<line, job, depth>>
    BY DEF TypeTab, Reading
<1>2. typed' \in Seq(Keys \union {Backspace, Tab}) /\ Edited(typed') = AfterKey(screen, Tab)
    BY <1>1, KeyTyped DEF Inv, TypeTab
<1>3. blanks \in Seq(Chars)
    OBVIOUS
<1>4. AfterKey(screen, Tab) = screen \o blanks
    BY DEF AfterKey
<1>5. Echo(blanks) /\ Store(blanks)
    BY DEF TypeTab
<1> HIDE DEF blanks
<1>6. /\ screen' = screen \o blanks /\ screen' \in Seq(Chars)
      /\ buf' \in [Addr -> Chars \union {NUL, Stale}] /\ pos' \in 0 .. LINE_SIZE
      /\ \/ /\ at' = "read" /\ pos' = Len(screen')
            /\ \A k \in 0 .. pos' - 1 : buf'[k] = screen'[k + 1]
         \/ at' = "lost" /\ Len(screen') >= LINE_SIZE
    BY <1>1, <1>3, <1>5, Stored DEF Inv
<1>7. TypeOK'
    BY <1>1, <1>2, <1>6 DEF Inv, TypeOK
<1>8. LineStored' /\ ShellAlive'
    BY <1>1, <1>2, <1>4, <1>6 DEF Inv, LineStored, ShellAlive
<1>9. QED
    BY <1>7, <1>8 DEF Inv

\* A backspace at the beginning of the line removes nothing, in either place.
LEMMA FrontOf ==
    ASSUME NEW K, NEW s \in Seq(K)
    PROVE  /\ Len(s) = 0 => Front(s) = s
           /\ Len(s) # 0 => /\ Front(s) \in Seq(K) /\ Len(Front(s)) = Len(s) - 1
                            /\ \A k \in 1 .. Len(s) - 1 : Front(s)[k] = s[k]
<1>1. ASSUME Len(s) = 0 PROVE Front(s) = s
    <2>1. s = <<>> /\ SubSeq(s, 1, Len(s) - 1) = <<>>
        BY <1>1
    <2>2. QED
        BY <2>1 DEF Front
<1>2. ASSUME Len(s) # 0
      PROVE  /\ Front(s) \in Seq(K) /\ Len(Front(s)) = Len(s) - 1
             /\ \A k \in 1 .. Len(s) - 1 : Front(s)[k] = s[k]
    <2>1. Len(s) \in Nat \ {0} /\ Len(s) - 1 \in 0 .. Len(s)
        BY <1>2
    <2>2. \A i \in 1 .. Len(s) - 1 : s[i] \in K
        BY <2>1
    <2>3. /\ SubSeq(s, 1, Len(s) - 1) \in Seq(K)
          /\ Len(SubSeq(s, 1, Len(s) - 1)) = IF 1 <= Len(s) - 1 THEN Len(s) - 1 - 1 + 1 ELSE 0
        BY <2>1, <2>2, SubSeqProperties
    <2>4. (IF 1 <= Len(s) - 1 THEN Len(s) - 1 - 1 + 1 ELSE 0) = Len(s) - 1
        <3>1. PICK n \in Nat \ {0} : n = Len(s)
            BY <2>1
        <3>2. (IF 1 <= n - 1 THEN n - 1 - 1 + 1 ELSE 0) = n - 1
            OBVIOUS
        <3>3. QED
            BY <3>1, <3>2
    <2>5. Front(s) = SubSeq(s, 1, Len(s) - 1)
        BY DEF Front
    <2>6. \A k \in 1 .. Len(s) - 1 : SubSeq(s, 1, Len(s) - 1)[k] = s[k]
        <3>1. PICK n \in Nat \ {0} : n = Len(s)
            BY <2>1
        <3>2. \A k \in 1 .. n - 1 : SubSeq(s, 1, n - 1)[k] = s[k]
            BY <3>1
        <3>3. QED
            BY <3>1, <3>2
    <2>7. QED
        BY <2>3, <2>4, <2>5, <2>6
<1>3. QED
    BY <1>1, <1>2

LEMMA BackspaceStep == Inv /\ TypeBackspace => Inv'
<1> SUFFICES ASSUME Inv, TypeBackspace PROVE Inv'
    OBVIOUS
<1> USE ConstantFacts
<1>1. at = "read" /\ UNCHANGED <<at, buf, line, job, depth>>
    BY DEF TypeBackspace, Reading
<1>2. typed' \in Seq(Keys \union {Backspace, Tab}) /\ Edited(typed') = Front(screen)
    BY <1>1, KeyTyped DEF Inv, TypeBackspace, AfterKey
<1>3. screen \in Seq(Chars) /\ pos = Len(screen) /\ pos \in 0 .. LINE_SIZE
    BY <1>1 DEF Inv, TypeOK, LineStored
<1>4. /\ screen' = Front(screen) /\ screen' \in Seq(Chars) /\ pos' = Len(screen') /\ pos' \in 0 .. pos
      /\ \A k \in 1 .. pos' : screen'[k] = screen[k]
    <2>1. CASE pos > 0
        <3>1. pos' = pos - 1 /\ screen' = Front(screen)
            BY <2>1 DEF TypeBackspace, EchoBackspace, syscall_handler, syscall_func
        <3>2. /\ Front(screen) \in Seq(Chars) /\ Len(Front(screen)) = Len(screen) - 1
              /\ \A k \in 1 .. Len(screen) - 1 : Front(screen)[k] = screen[k]
            BY <1>3, <2>1, FrontOf
        <3>3. QED
            BY <1>3, <2>1, <3>1, <3>2
    <2>2. CASE ~(pos > 0)
        <3>1. pos' = pos /\ screen' = screen
            BY <2>2 DEF TypeBackspace
        <3>2. Front(screen) = screen
            BY <1>3, <2>2, FrontOf
        <3>3. QED
            BY <1>3, <3>1, <3>2
    <2>3. QED
        BY <2>1, <2>2
<1>5. TypeOK'
    BY <1>1, <1>2, <1>3, <1>4 DEF Inv, TypeOK
<1>6. ASSUME NEW k \in 0 .. pos' - 1 PROVE buf'[k] = screen'[k + 1]
    <2>1. k \in 0 .. pos - 1 /\ k + 1 \in 1 .. pos'
        BY <1>3, <1>4
    <2>2. buf[k] = screen[k + 1]
        BY <1>1, <2>1 DEF Inv, LineStored
    <2>3. QED
        BY <1>1, <1>4, <2>1, <2>2
<1>7. LineStored' /\ ShellAlive'
    BY <1>1, <1>2, <1>4, <1>6 DEF Inv, LineStored, ShellAlive
<1>8. QED
    BY <1>5, <1>7 DEF Inv

LEMMA EnterStep == Inv /\ TypeEnter => Inv'
<1> SUFFICES ASSUME Inv, TypeEnter PROVE Inv'
    OBVIOUS
<1> USE ConstantFacts
<1>1. at = "read" /\ UNCHANGED <<line, job, depth, pos, screen, typed>>
    BY DEF TypeEnter, Reading
<1>2. pos \in 0 .. LINE_SIZE /\ pos = Len(screen) /\ \A k \in 0 .. pos - 1 : buf[k] = screen[k + 1]
    BY <1>1 DEF Inv, TypeOK, LineStored
<1>3. CASE pos < LINE_SIZE
    <2>1. at' = "trim" /\ buf' = [buf EXCEPT ![pos] = NUL]
        BY <1>3 DEF TypeEnter
    <2>2. pos \in Addr /\ buf \in [Addr -> Chars \union {NUL, Stale}]
        BY <1>2, <1>3 DEF Addr, Inv, TypeOK
    <2>3. buf' \in [Addr -> Chars \union {NUL, Stale}] /\ buf'[pos] = NUL
        BY <2>1, <2>2
    <2>4. \A k \in 0 .. pos - 1 : buf'[k] = buf[k]
        BY <1>2, <2>1, <2>2 DEF Addr
    <2>5. TypeOK'
        BY <1>1, <2>1, <2>3 DEF Inv, TypeOK
    <2>6. QED
        BY <1>1, <1>2, <1>3, <2>1, <2>3, <2>4, <2>5 DEF Inv, LineStored, ShellAlive
<1>4. CASE ~(pos < LINE_SIZE)
    <2>1. at' = "lost" /\ buf' = buf
        BY <1>4 DEF TypeEnter
    <2>2. TypeOK'
        BY <1>1, <2>1 DEF Inv, TypeOK
    <2>3. Len(screen) >= LINE_SIZE
        BY <1>2, <1>4
    <2>4. QED
        BY <1>1, <2>1, <2>2, <2>3 DEF Inv, LineStored, ShellAlive
<1>5. QED
    BY <1>3, <1>4

---------------------------------------------------------------------------
(* The strings in the buffer.                                              *)

\* A line that was entered is a string, and tolower meets only its characters.
LEMMA EndOfLine ==
    ASSUME NEW mem, NEW p \in 0 .. LINE_SIZE
    PROVE  /\ End(mem, p) \in p .. LINE_SIZE
           /\ \A k \in p .. End(mem, p) - 1 : mem[k] \in Chars
           /\ End(mem, p) # LINE_SIZE => mem[End(mem, p)] \notin Chars
<1> USE ConstantFacts
<1> DEFINE S == {k \in p .. LINE_SIZE : k = LINE_SIZE \/ mem[k] \notin Chars}
<1>1. S \subseteq Nat /\ LINE_SIZE \in S
    OBVIOUS
<1>2. End(mem, p) = Min(S)
    BY DEF End
<1>3. Min(S) \in S /\ \A y \in S : Min(S) <= y
    <2> HIDE DEF S
    <2>1. QED
        BY <1>1, MinOfNats
<1>4. ASSUME NEW k \in p .. End(mem, p) - 1 PROVE mem[k] \in Chars
    <2>1. ~(Min(S) <= k) /\ k \in p .. LINE_SIZE
        BY <1>2, <1>3
    <2>2. QED
        BY <1>3, <2>1
<1>5. QED
    BY <1>2, <1>3, <1>4

LEMMA EnteredIsString ==
    ASSUME TypeOK, LineStored, at = "trim"
    PROVE  IsString(buf, 0)
<1> USE ConstantFacts
<1>1. pos \in 0 .. LINE_SIZE - 1 /\ buf[pos] = NUL /\ \A k \in 0 .. pos - 1 : buf[k] \in Chars
    <2>1. pos \in 0 .. LINE_SIZE - 1 /\ buf[pos] = NUL /\ screen \in Seq(Chars) /\ pos = Len(screen)
        BY DEF TypeOK, LineStored
    <2>2. ASSUME NEW k \in 0 .. pos - 1 PROVE buf[k] \in Chars
        <3>1. buf[k] = screen[k + 1] /\ k + 1 \in 1 .. Len(screen)
            BY <2>1 DEF LineStored
        <3>2. QED
            BY <2>1, <3>1
    <2>3. QED
        BY <2>1, <2>2
<1>2. /\ End(buf, 0) \in 0 .. LINE_SIZE
      /\ \A k \in 0 .. End(buf, 0) - 1 : buf[k] \in Chars
      /\ End(buf, 0) # LINE_SIZE => buf[End(buf, 0)] \notin Chars
    BY EndOfLine
<1>3. ~(End(buf, 0) < pos)
    BY <1>1, <1>2
<1>4. ~(pos < End(buf, 0))
    BY <1>1, <1>2
<1>5. QED
    BY <1>1, <1>2, <1>3, <1>4 DEF IsString

LEMMA Lowered ==
    ASSUME NEW mem \in [Addr -> Chars \union {NUL, Stale}], NEW p \in 0 .. LINE_SIZE
    PROVE  tolower(mem, p) \in [Addr -> Chars \union {NUL, Stale}]
<1>1. ASSUME NEW k \in Addr
      PROVE  (IF k \in p .. End(mem, p) - 1 THEN Lower[mem[k]] ELSE mem[k])
                \in Chars \union {NUL, Stale}
    BY EndOfLine, ConstantFacts
<1>2. QED
    BY <1>1 DEF tolower

LEMMA TrimmedInPlace ==
    ASSUME NEW mem \in [Addr -> Chars \union {NUL, Stale}], NEW p \in 0 .. LINE_SIZE
    PROVE  /\ Skipped(mem, p) \in p .. LINE_SIZE
           /\ Cut(mem, p) \in [Addr -> Chars \union {NUL, Stale}]
<1> DEFINE S == {k \in p .. End(mem, p) : k = End(mem, p) \/ mem[k] # Blank}
<1>1. End(mem, p) \in p .. LINE_SIZE /\ LINE_SIZE \in Nat
    BY EndOfLine, ConstantFacts
<1>2. S \subseteq Nat /\ S # {}
    BY <1>1
<1>3. Skipped(mem, p) = Min(S)
    BY DEF Skipped
<1>4. Min(S) \in S
    <2> HIDE DEF S
    <2>1. QED
        BY <1>2, MinOfNats
<1>5. Cut(mem, p) \in [Addr -> Chars \union {NUL, Stale}]
    BY DEF Cut
<1>6. QED
    BY <1>1, <1>3, <1>4, <1>5

LEMMA TrimStep == Inv /\ Trim => Inv'
<1> SUFFICES ASSUME Inv, Trim PROVE Inv'
    OBVIOUS
<1> USE ConstantFacts
<1>1. at = "trim" /\ UNCHANGED <<pos, job, depth, screen, typed>>
    BY DEF Trim
<1>2. /\ at' = "command" /\ line' = Skipped(buf, 0)
      /\ buf' = tolower(Cut(buf, 0), Skipped(buf, 0))
    BY <1>1, EnteredIsString DEF Inv, Trim
<1>3. buf \in [Addr -> Chars \union {NUL, Stale}] /\ 0 \in 0 .. LINE_SIZE
    BY DEF Inv, TypeOK
<1>4. Skipped(buf, 0) \in 0 .. LINE_SIZE /\ Cut(buf, 0) \in [Addr -> Chars \union {NUL, Stale}]
    BY <1>3, TrimmedInPlace
<1>5. buf' \in [Addr -> Chars \union {NUL, Stale}] /\ line' \in 0 .. LINE_SIZE
    BY <1>2, <1>4, Lowered
<1>6. TypeOK'
    BY <1>1, <1>2, <1>5 DEF Inv, TypeOK
<1>7. QED
    BY <1>1, <1>2, <1>6 DEF Inv, LineStored, ShellAlive

---------------------------------------------------------------------------
(* The commands.                                                           *)

Elsewhere == {"prompt", "command", "run", "result", "app", "halted"}

\* A step from the command to the next prompt, in which the line is not touched.
LEMMA CommandStep ==
    ASSUME Inv, at \in Elsewhere, at' \in Elsewhere, UNCHANGED <<buf, pos, line, screen, typed>>,
           job'.does \in {"nothing", "help", "sleep", "ticks", "exit", "exec"},
           depth' \in 0 .. MAX_TASK_COUNT, at' # "halted" => depth' # 0
    PROVE  Inv'
<1>1. TypeOK'
    BY DEF Inv, TypeOK, Elsewhere
<1>2. LineStored' /\ ShellAlive'
    BY DEF LineStored, ShellAlive, Elsewhere
<1>3. QED
    BY <1>1, <1>2 DEF Inv

LEMMA PromptStep == Inv /\ Prompt => Inv'
<1> SUFFICES ASSUME Inv, Prompt PROVE Inv'
    OBVIOUS
<1> USE ConstantFacts
<1>1. /\ at = "prompt" /\ at' = "read" /\ pos' = 0 /\ line' = 0 /\ screen' = <<>> /\ typed' = <<>>
      /\ depth' = depth
      /\ buf' = [k \in Addr |-> Stale] /\ job'.does = "nothing"
    BY DEF Prompt, NoJob
<1>2. <<>> \in Seq(Chars) /\ <<>> \in Seq(Keys \union {Backspace, Tab}) /\ Len(<<>>) = 0
    OBVIOUS
<1>3. buf' \in [Addr -> Chars \union {NUL, Stale}] /\ 0 \in 0 .. LINE_SIZE
    BY <1>1
<1>4. TypeOK'
    BY <1>1, <1>2, <1>3 DEF Inv, TypeOK
<1>5. LineStored' /\ ShellAlive'
    BY <1>1, <1>2, EditedNothing DEF Inv, LineStored, ShellAlive
<1>6. QED
    BY <1>4, <1>5 DEF Inv

LEMMA ParsedJob ==
    ASSUME NEW word
    PROVE  Parsed(word).does \in {"nothing", "help", "sleep", "ticks", "exit", "exec"}
BY DEF Parsed, NoJob

LEMMA RunStep ==
    Inv /\ (\/ Command \/ PrintCommand \/ SleepCommand \/ ExitCommand
            \/ ExecCommand \/ AppEnds \/ ExecResult) => Inv'
<1> SUFFICES ASSUME Inv, \/ Command \/ PrintCommand \/ SleepCommand \/ ExitCommand
                         \/ ExecCommand \/ AppEnds \/ ExecResult
             PROVE  Inv'
    OBVIOUS
<1> USE ConstantFacts
<1>0. /\ job.does \in {"nothing", "help", "sleep", "ticks", "exit", "exec"}
      /\ depth \in 0 .. MAX_TASK_COUNT /\ (at # "halted" => depth # 0)
    BY DEF Inv, TypeOK, ShellAlive
<1>1. CASE Command
    <2>1. job'.does \in {"nothing", "help", "sleep", "ticks", "exit", "exec"}
        BY <1>1, ParsedJob DEF Command
    <2>2. at = "command" /\ at' = "run" /\ UNCHANGED <<buf, pos, line, depth, screen, typed>>
        BY <1>1 DEF Command
    <2>3. QED
        BY <1>0, <2>1, <2>2, CommandStep DEF Elsewhere
<1>2. CASE PrintCommand \/ SleepCommand
    <2>1. /\ at = "run" /\ at' = "prompt"
          /\ UNCHANGED <<buf, pos, line, job, depth, screen, typed>>
        BY <1>2 DEF PrintCommand, SleepCommand, Running
    <2>2. QED
        BY <1>0, <2>1, CommandStep DEF Elsewhere
<1>3. CASE ExitCommand
    <2>1. /\ at = "run" /\ at' = (IF depth = 1 THEN "halted" ELSE "result") /\ depth' = depth - 1
          /\ UNCHANGED <<buf, pos, line, job, screen, typed>>
        BY <1>3 DEF ExitCommand, Running
    <2>2. depth' \in 0 .. MAX_TASK_COUNT /\ (at' # "halted" => depth' # 0)
        BY <1>0, <2>1
    <2>3. at \in Elsewhere /\ at' \in Elsewhere
        BY <2>1 DEF Elsewhere
    <2>4. QED
        BY <1>0, <2>1, <2>2, <2>3, CommandStep
<1>4. CASE ExecCommand
    <2>1. /\ at = "run" /\ UNCHANGED <<buf, pos, line, job, screen, typed>>
          /\ at' \in {"result", "prompt", "app"}
        BY <1>4 DEF ExecCommand, Running
    <2>2. depth' = depth \/ (depth # MAX_TASK_COUNT /\ depth' = depth + 1)
        BY <1>4 DEF ExecCommand, Refuses
    <2>3. depth' \in 0 .. MAX_TASK_COUNT /\ depth' # 0
        BY <1>0, <2>1, <2>2
    <2>4. at \in Elsewhere /\ at' \in Elsewhere
        BY <2>1 DEF Elsewhere
    <2>5. QED
        BY <1>0, <2>1, <2>3, <2>4, CommandStep
<1>5. CASE AppEnds
    <2>1. /\ at = "app" /\ at' = "result"
          /\ UNCHANGED <<buf, pos, line, job, depth, screen, typed>>
        BY <1>5 DEF AppEnds
    <2>2. QED
        BY <1>0, <2>1, CommandStep DEF Elsewhere
<1>6. CASE ExecResult
    <2>1. /\ at = "result" /\ at' = "prompt"
          /\ UNCHANGED <<buf, pos, line, job, depth, screen, typed>>
        BY <1>6 DEF ExecResult
    <2>2. QED
        BY <1>0, <2>1, CommandStep DEF Elsewhere
<1>7. QED
    BY <1>1, <1>2, <1>3, <1>4, <1>5, <1>6

LEMMA Unchanged == Inv /\ UNCHANGED vars => Inv'
BY DEF vars, Inv, TypeOK, LineStored, ShellAlive

\* The line is stored in the buffer and shown on the screen, whatever is typed
\* and whatever the commands do.
THEOREM ShellInvariant == Spec => []Inv
<1>1. Init => Inv
    BY InitInv
<1>2. Inv /\ [Next]_vars => Inv'
    <2> SUFFICES ASSUME Inv, [Next]_vars PROVE Inv'
        OBVIOUS
    <2>1. CASE UNCHANGED vars
        BY <2>1, Unchanged
    <2>2. CASE NoKey
        BY <2>2, Unchanged DEF NoKey, Reading, vars
    <2>3. CASE Type
        BY <2>3, CharacterStep, TabStep, BackspaceStep, EnterStep DEF Type
    <2>4. CASE ShellStep
        BY <2>4, PromptStep, TrimStep, RunStep DEF ShellStep
    <2>5. CASE AppEnds
        BY <2>5, RunStep
    <2>6. QED
        BY <2>1, <2>2, <2>3, <2>4, <2>5 DEF Next
<1>3. QED
    BY <1>1, <1>2, PTL DEF Spec

\* Position and line stay inside the buffer, only characters are lowered, and
\* the shells that wait are counted right (ulibc.c:112-182, shell.c:18-54).
THEOREM ShellTypeCorrect == Spec => []TypeOK
<1>1. Inv => TypeOK
    BY DEF Inv
<1>2. QED
    BY <1>1, ShellInvariant, PTL

\* The user sees the line that the shell will interpret (ulibc.c:118-141).
THEOREM ScreenShowsLine == Spec => []EchoMatches
<1>1. Inv => EchoMatches
    BY DEF Inv, LineStored, EchoMatches
<1>2. QED
    BY <1>1, ShellInvariant, PTL

\* Only a line that does not fit in the buffer touches memory behind it, and
\* trim always finds the terminal 0 (ulibc.c:112-145, 160-182).
THEOREM LossIsJustified == Spec => []LossJustified
<1>1. Inv => LossJustified
    BY DEF Inv, LineStored, LossJustified
<1>2. QED
    BY <1>1, ShellInvariant, PTL

---------------------------------------------------------------------------
(* A line without the blanks around it.                                    *)

LEMMA Repeated ==
    ASSUME NEW S, NEW b \in S, NEW i \in Nat
    PROVE  /\ [n \in 1 .. i |-> b] \in Seq(S) /\ Len([n \in 1 .. i |-> b]) = i
           /\ \A k \in 1 .. i : [n \in 1 .. i |-> b][k] = b
OBVIOUS

LEMMA InTheMiddle ==
    ASSUME NEW S, NEW u \in Seq(S), NEW w \in Seq(S), NEW v \in Seq(S)
    PROVE  LET s == u \o w \o v
           IN  /\ s \in Seq(S) /\ Len(s) = Len(u) + Len(w) + Len(v)
               /\ \A k \in 1 .. Len(u) : s[k] = u[k]
               /\ \A k \in 1 .. Len(w) : s[Len(u) + k] = w[k]
               /\ \A k \in 1 .. Len(v) : s[Len(u) + Len(w) + k] = v[k]
<1>1. PICK x \in Seq(S) : x = u \o w
    BY Joined
<1>2. PICK i \in Nat, m \in Nat, j \in Nat : i = Len(u) /\ m = Len(w) /\ j = Len(v)
    OBVIOUS
<1>3. Len(x) = i + m /\ (\A k \in 1 .. i : x[k] = u[k]) /\ \A k \in 1 .. m : x[i + k] = w[k]
    BY <1>1, <1>2, Joined
<1>4. /\ x \o v \in Seq(S) /\ Len(x \o v) = i + m + j
      /\ \A k \in 1 .. i + m : (x \o v)[k] = x[k]
      /\ \A k \in 1 .. j : (x \o v)[i + m + k] = v[k]
    <2>1. /\ x \o v \in Seq(S) /\ Len(x \o v) = Len(x) + Len(v)
          /\ \A k \in 1 .. Len(x) : (x \o v)[k] = x[k]
          /\ \A k \in 1 .. Len(v) : (x \o v)[Len(x) + k] = v[k]
        BY Joined
    <2>2. QED
        BY <1>2, <1>3, <2>1
<1>5. ASSUME NEW k \in 1 .. m PROVE (x \o v)[i + k] = w[k]
    <2>1. i + k \in 1 .. i + m
        OBVIOUS
    <2>2. QED
        BY <1>3, <1>4, <2>1
<1>6. \A k \in 1 .. i : (x \o v)[k] = u[k]
    BY <1>3, <1>4
<1>7. u \o w \o v = x \o v
    BY <1>1
<1>8. QED
    BY <1>2, <1>4, <1>5, <1>6, <1>7

\* Some blanks, a word and again some blanks.
LEMMA Padded ==
    ASSUME NEW w \in Seq(Chars), NEW i \in Nat, NEW j \in Nat, NEW s,
           s = [n \in 1 .. i |-> Blank] \o w \o [n \in 1 .. j |-> Blank]
    PROVE  /\ s \in Seq(Chars) /\ Len(s) = i + Len(w) + j
           /\ \A k \in 1 .. i : s[k] = Blank
           /\ \A k \in 1 .. Len(w) : s[i + k] = w[k]
           /\ \A k \in 1 .. j : s[i + Len(w) + k] = Blank
<1>1. PICK b \in Chars : b = Blank
    BY ConstantFacts
<1>2. PICK u : u = [n \in 1 .. i |-> b]
    OBVIOUS
<1>3. PICK v : v = [n \in 1 .. j |-> b]
    OBVIOUS
<1>4. u \in Seq(Chars) /\ Len(u) = i /\ \A k \in 1 .. i : u[k] = b
    BY <1>2, Repeated
<1>5. v \in Seq(Chars) /\ Len(v) = j /\ \A k \in 1 .. j : v[k] = b
    BY <1>3, Repeated
<1>6. s = u \o w \o v
    BY <1>1, <1>2, <1>3
<1> HIDE <1>2
<1>7. QED
    BY <1>1, <1>4, <1>5, <1>6, InTheMiddle

\* The words of l that IsTrimmed allows begin and end with the first and last
\* character that is not blank: w lies in l behind i blanks.
Within(w, l, i) ==
    /\ i \in Nat /\ i + Len(w) <= Len(l)
    /\ \A k \in 1 .. Len(w) : l[i + k] = w[k]
    /\ \A k \in 1 .. Len(l) : k <= i \/ k > i + Len(w) => l[k] = Blank

LEMMA TrimmedWithin ==
    ASSUME NEW l \in Seq(Chars), NEW w \in Seq(Chars), IsTrimmed(w, l)
    PROVE  \E i : Within(w, l, i)
<1> USE ConstantFacts
<1>1. PICK m \in Nat : m = Len(w)
    OBVIOUS
<1>2. PICK n \in Nat : n = Len(l)
    OBVIOUS
<1>3. PICK i \in 0 .. n - m :
         l = [k \in 1 .. i |-> Blank] \o w \o [k \in 1 .. n - m - i |-> Blank]
    BY <1>1, <1>2 DEF IsTrimmed
<1>4. PICK j \in Nat : j = n - m - i
    BY <1>3
<1>5. l = [k \in 1 .. i |-> Blank] \o w \o [k \in 1 .. j |-> Blank] /\ i \in Nat
    BY <1>3, <1>4
<1>6. /\ \A k \in 1 .. i : l[k] = Blank
      /\ \A k \in 1 .. m : l[i + k] = w[k]
      /\ \A k \in 1 .. j : l[i + m + k] = Blank
    BY <1>1, <1>5, Padded
<1>7. ASSUME NEW k \in 1 .. n, k <= i \/ k > i + m PROVE l[k] = Blank
    <2>1. CASE k <= i
        BY <1>6, <2>1
    <2>2. CASE k > i + m
        <3>1. k - i - m \in 1 .. j /\ i + m + (k - i - m) = k
            BY <1>3, <1>4, <2>2
        <3>2. QED
            BY <1>6, <3>1
    <2>3. QED
        BY <1>7, <2>1, <2>2
<1>8. Within(w, l, i)
    <2>1. i \in Nat /\ i + m <= n
        BY <1>3
    <2>2. QED
        BY <1>1, <1>2, <1>6, <1>7, <2>1 DEF Within
<1>9. QED
    BY <1>8

LEMMA WithinTrimmed ==
    ASSUME NEW l \in Seq(Chars), NEW w \in Seq(Chars), NEW i, Within(w, l, i),
           w # <<>> => w[1] # Blank /\ w[Len(w)] # Blank
    PROVE  IsTrimmed(w, l)
<1> USE ConstantFacts
<1>1. PICK m \in Nat : m = Len(w)
    OBVIOUS
<1>2. PICK n \in Nat : n = Len(l)
    OBVIOUS
<1>3. /\ i \in 0 .. n - m /\ i \in Nat
      /\ \A k \in 1 .. m : l[i + k] = w[k]
      /\ \A k \in 1 .. n : k <= i \/ k > i + m => l[k] = Blank
    BY <1>1, <1>2 DEF Within
<1>4. PICK j \in Nat : j = n - m - i
    BY <1>3
<1>5. PICK s : s = [k \in 1 .. i |-> Blank] \o w \o [k \in 1 .. j |-> Blank]
    OBVIOUS
<1>6. /\ s \in Seq(Chars) /\ Len(s) = i + m + j
      /\ \A k \in 1 .. i : s[k] = Blank
      /\ \A k \in 1 .. m : s[i + k] = w[k]
      /\ \A k \in 1 .. j : s[i + m + k] = Blank
    BY <1>1, <1>3, <1>5, Padded
<1>7. Len(s) = n
    BY <1>3, <1>4, <1>6
<1>8. ASSUME NEW k \in 1 .. n PROVE s[k] = l[k]
    <2>1. CASE k <= i
        BY <1>3, <1>6, <2>1
    <2>2. CASE k > i /\ k <= i + m
        <3>1. PICK x \in 1 .. m : k = i + x
            <4>1. k - i \in 1 .. m /\ k = i + (k - i)
                BY <1>3, <1>8, <2>2
            <4>2. QED
                BY <4>1
        <3>2. QED
            BY <1>3, <1>6, <3>1
    <2>3. CASE k > i + m
        <3>1. k - i - m \in 1 .. j /\ i + m + (k - i - m) = k
            BY <1>3, <1>4, <2>3
        <3>2. QED
            BY <1>3, <1>6, <2>3, <3>1
    <2>4. QED
        BY <1>3, <2>1, <2>2, <2>3
<1>9. s = l
    BY <1>2, <1>6, <1>7, <1>8, SameSequence
<1>10. \E x \in 0 .. n - m : l = [k \in 1 .. x |-> Blank] \o w \o [k \in 1 .. n - m - x |-> Blank]
    BY <1>3, <1>4, <1>5, <1>9
<1>11. w # <<>> => Head(w) = w[1] /\ Last(w) = w[Len(w)]
    BY DEF Last
<1>12. QED
    BY <1>1, <1>2, <1>10, <1>11 DEF IsTrimmed

\* There is only one.
LEMMA OneTrimmed ==
    ASSUME NEW l \in Seq(Chars), NEW w \in Seq(Chars), NEW v \in Seq(Chars),
           IsTrimmed(w, l), IsTrimmed(v, l)
    PROVE  w = v
<1>1. PICK i : Within(w, l, i)
    BY TrimmedWithin
<1>2. PICK j : Within(v, l, j)
    BY TrimmedWithin
<1>3. /\ w # <<>> => w[1] # Blank /\ w[Len(w)] # Blank
      /\ v # <<>> => v[1] # Blank /\ v[Len(v)] # Blank
    BY DEF IsTrimmed, Last
<1>4. PICK m \in Nat : m = Len(w)
    OBVIOUS
<1>5. PICK n \in Nat : n = Len(v)
    OBVIOUS
<1>6. PICK x \in Nat : x = Len(l)
    OBVIOUS
<1>7. /\ i \in Nat /\ i + m <= x /\ \A k \in 1 .. m : l[i + k] = w[k]
      /\ \A k \in 1 .. x : k <= i \/ k > i + m => l[k] = Blank
    BY <1>1, <1>4, <1>6 DEF Within
<1>8. /\ j \in Nat /\ j + n <= x /\ \A k \in 1 .. n : l[j + k] = v[k]
      /\ \A k \in 1 .. x : k <= j \/ k > j + n => l[k] = Blank
    BY <1>2, <1>5, <1>6 DEF Within
<1>9. m # 0 => l[i + 1] # Blank /\ l[i + m] # Blank
    <2>1. m # 0 => w # <<>> /\ 1 \in 1 .. m /\ m \in 1 .. m
        BY <1>4
    <2>2. QED
        BY <1>3, <1>4, <1>7, <2>1
<1>10. n # 0 => l[j + 1] # Blank /\ l[j + n] # Blank
    <2>1. n # 0 => v # <<>> /\ 1 \in 1 .. n /\ n \in 1 .. n
        BY <1>5
    <2>2. QED
        BY <1>3, <1>5, <1>8, <2>1
<1>11. m # 0 => n # 0 /\ j <= i /\ i + m <= j + n
    <2>1. SUFFICES ASSUME m # 0 PROVE n # 0 /\ j <= i /\ i + m <= j + n
        OBVIOUS
    <2>2. i + 1 \in 1 .. x /\ i + m \in 1 .. x
        BY <1>7, <2>1
    <2>3. ~(i + 1 <= j) /\ ~(i + 1 > j + n) /\ ~(i + m > j + n)
        BY <1>8, <1>9, <2>1, <2>2
    <2>4. QED
        BY <1>7, <1>8, <2>3
<1>12. n # 0 => m # 0 /\ i <= j /\ j + n <= i + m
    <2>1. SUFFICES ASSUME n # 0 PROVE m # 0 /\ i <= j /\ j + n <= i + m
        OBVIOUS
    <2>2. j + 1 \in 1 .. x /\ j + n \in 1 .. x
        BY <1>8, <2>1
    <2>3. ~(j + 1 <= i) /\ ~(j + 1 > i + m) /\ ~(j + n > i + m)
        BY <1>7, <1>10, <2>1, <2>2
    <2>4. QED
        BY <1>7, <1>8, <2>3
<1>13. m = n /\ (m # 0 => i = j)
    <2>1. i \in Nat /\ j \in Nat
        BY <1>7, <1>8
    <2>2. CASE m = 0 \/ n = 0
        BY <1>11, <1>12, <2>2
    <2>3. CASE m # 0 /\ n # 0
        BY <1>11, <1>12, <2>1, <2>3
    <2>4. QED
        BY <2>2, <2>3
<1>14. ASSUME NEW k \in 1 .. m PROVE w[k] = v[k]
    <2>1. m # 0
        OBVIOUS
    <2>2. m = n /\ i = j
        BY <1>13, <2>1
    <2>3. l[i + k] = w[k]
        BY <1>7
    <2>4. l[j + k] = v[k]
        BY <1>8, <2>2
    <2>5. QED
        BY <2>2, <2>3, <2>4
<1>15. QED
    BY <1>4, <1>5, <1>13, <1>14, SameSequence

LEMMA PartOf ==
    ASSUME NEW S, NEW l \in Seq(S), NEW a \in Nat, NEW m \in Nat, a + m <= Len(l)
    PROVE  /\ SubSeq(l, a + 1, a + m) \in Seq(S) /\ Len(SubSeq(l, a + 1, a + m)) = m
           /\ \A k \in 1 .. m : SubSeq(l, a + 1, a + m)[k] = l[a + k]
<1>1. PICK n \in Nat : n = Len(l)
    OBVIOUS
<1>2. ASSUME NEW k \in (a + 1) .. (a + m) PROVE l[k] \in S
    <2>1. k \in 1 .. n
        BY <1>1
    <2>2. QED
        BY <1>1, <2>1
<1>3. a + 1 \in Int /\ a + m \in Int
    OBVIOUS
<1>4. /\ SubSeq(l, a + 1, a + m) \in Seq(S)
      /\ Len(SubSeq(l, a + 1, a + m)) = (IF a + 1 <= a + m THEN (a + m) - (a + 1) + 1 ELSE 0)
      /\ \A i \in 1 .. (a + m) - (a + 1) + 1 :
            SubSeq(l, a + 1, a + m)[i] = l[(a + 1) + i - 1]
    BY <1>2, <1>3, SubSeqProperties
<1>5. (IF a + 1 <= a + m THEN (a + m) - (a + 1) + 1 ELSE 0) = m /\ (a + m) - (a + 1) + 1 = m
    OBVIOUS
<1>6. \A i \in 1 .. m : (a + 1) + i - 1 = a + i
    OBVIOUS
<1>7. QED
    BY <1>4, <1>5, <1>6

LEMMA PartsType ==
    ASSUME NEW S, NEW l \in Seq(S), NEW w \in SubSeqs(l)
    PROVE  w \in Seq(S)
<1>1. PICK i \in 0 .. Len(l), b \in 0 .. Len(l) : w = SubSeq(l, i + 1, b)
    BY DEF SubSeqs
<1> DEFINE a == i + 1
<1>2. PICK n \in Nat : n = Len(l)
    OBVIOUS
<1>3. a \in Int /\ b \in Int /\ \A k \in a .. b : l[k] \in S
    <2>1. a \in 1 .. n + 1 /\ b \in 0 .. n
        BY <1>2
    <2>2. ASSUME NEW k \in a .. b PROVE l[k] \in S
        <3>1. k \in 1 .. n
            BY <2>1
        <3>2. QED
            BY <1>2, <3>1
    <2>3. QED
        BY <2>1, <2>2
<1>4. QED
    BY <1>1, <1>3, SubSeqProperties

LEMMA PartIn ==
    ASSUME NEW S, NEW l \in Seq(S), NEW a \in Nat, NEW m \in Nat, a + m <= Len(l)
    PROVE  SubSeq(l, a + 1, a + m) \in SubSeqs(l)
<1>1. PICK n \in Nat : n = Len(l)
    OBVIOUS
<1>2. a \in 0 .. n /\ a + m \in 0 .. n
    BY <1>1
<1>3. QED
    BY <1>1, <1>2 DEF SubSeqs

LEMMA TrimmedIs ==
    ASSUME NEW l \in Seq(Chars), NEW w, w \in SubSeqs(l), IsTrimmed(w, l)
    PROVE  Trimmed(l) = w
<1>1. Trimmed(l) \in SubSeqs(l) /\ IsTrimmed(Trimmed(l), l)
    BY DEF Trimmed
<1>2. Trimmed(l) \in Seq(Chars) /\ w \in Seq(Chars)
    BY <1>1, PartsType
<1>3. QED
    BY <1>1, <1>2, OneTrimmed

---------------------------------------------------------------------------
(* The line in memory.                                                     *)

LEMMA MaxOfNats ==
    ASSUME NEW S, NEW n \in Nat, S \subseteq 0 .. n, S # {}
    PROVE  Max(S) \in S /\ \A y \in S : y <= Max(S)
<1> DEFINE T == {k \in 0 .. n : n - k \in S}
<1>1. T \subseteq Nat
    OBVIOUS
<1>2. T # {}
    <2>1. PICK y \in S : TRUE
        OBVIOUS
    <2>2. n - y \in 0 .. n /\ n - (n - y) = y
        OBVIOUS
    <2>3. QED
        BY <2>1, <2>2
<1>3. PICK m \in T : \A k \in T : m <= k
    <2> HIDE DEF T
    <2>1. QED
        BY <1>1, <1>2, MinOfNats
<1>4. n - m \in S
    BY <1>3
<1>5. ASSUME NEW y \in S PROVE y <= n - m
    <2>1. n - y \in 0 .. n /\ n - (n - y) = y
        OBVIOUS
    <2>2. n - y \in T
        BY <2>1
    <2>3. m <= n - y /\ m \in 0 .. n
        BY <1>3, <2>2
    <2>4. QED
        BY <2>3
<1>6. \A y \in S : n - m >= y
    BY <1>5
<1> HIDE DEF T
<1>7. Max(S) \in S /\ \A y \in S : Max(S) >= y
    BY <1>4, <1>6 DEF Max
<1>8. QED
    BY <1>7

\* The string l is at p.
HoldsAt(mem, p, l) ==
    /\ p \in Nat /\ l \in Seq(Chars) /\ p + Len(l) < LINE_SIZE
    /\ mem[p + Len(l)] = NUL
    /\ \A k \in 1 .. Len(l) : mem[p + k - 1] = l[k]

LEMMA HeldFacts ==
    ASSUME NEW mem, NEW p, NEW l, HoldsAt(mem, p, l)
    PROVE  /\ LINE_SIZE \in Nat /\ l \in Seq(Chars) /\ Len(l) \in Nat
           /\ p \in Nat /\ p + Len(l) < LINE_SIZE /\ mem[p + Len(l)] = NUL
           /\ \A k \in 1 .. Len(l) : mem[p + k - 1] = l[k]
BY ConstantFacts DEF HoldsAt

LEMMA HeldEnd ==
    ASSUME NEW mem, NEW p, NEW l, HoldsAt(mem, p, l)
    PROVE  /\ p \in 0 .. LINE_SIZE - 1 /\ p + Len(l) \in Addr
           /\ \A k \in p .. p + Len(l) - 1 : mem[k] = l[k - p + 1] /\ mem[k] \in Chars
           /\ End(mem, p) = p + Len(l)
<1> USE ConstantFacts
<1>1. PICK n \in Nat : n = Len(l)
    BY DEF HoldsAt
<1>2. p \in 0 .. LINE_SIZE - 1 /\ p + n \in 0 .. LINE_SIZE - 1 /\ mem[p + n] = NUL
    BY <1>1 DEF HoldsAt
<1>3. ASSUME NEW k \in p .. p + n - 1 PROVE mem[k] = l[k - p + 1] /\ mem[k] \in Chars
    <2>1. PICK x \in 1 .. n : x = k - p + 1
        BY <1>2
    <2>2. k = p + x - 1
        BY <1>2, <2>1
    <2>3. mem[p + x - 1] = l[x] /\ l[x] \in Chars
        BY <1>1 DEF HoldsAt
    <2>4. QED
        BY <2>1, <2>2, <2>3
<1>4. /\ End(mem, p) \in p .. LINE_SIZE
      /\ \A k \in p .. End(mem, p) - 1 : mem[k] \in Chars
      /\ End(mem, p) # LINE_SIZE => mem[End(mem, p)] \notin Chars
    BY <1>2, EndOfLine
<1>5. ~(End(mem, p) < p + n)
    BY <1>2, <1>3, <1>4
<1>6. ~(p + n < End(mem, p))
    BY <1>2, <1>4
<1>7. End(mem, p) = p + n
    BY <1>2, <1>4, <1>5, <1>6
<1>8. QED
    BY <1>1, <1>2, <1>3, <1>7 DEF Addr

LEMMA HeldString ==
    ASSUME NEW mem, NEW p, NEW l, HoldsAt(mem, p, l)
    PROVE  IsString(mem, p) /\ Str(mem, p) = l
<1>1. PICK n \in Nat : n = Len(l) /\ l \in Seq(Chars)
    BY HeldFacts
<1>2. /\ p \in Nat /\ End(mem, p) = p + n /\ mem[p + n] = NUL /\ p + n < LINE_SIZE
      /\ \A k \in 1 .. n : mem[p + k - 1] = l[k]
    BY <1>1, HeldEnd, HeldFacts
<1>3. PICK s : s = [k \in 1 .. n |-> mem[p + k - 1]]
    OBVIOUS
<1>4. \A k \in 1 .. n : s[k] = l[k] /\ l[k] \in Chars
    BY <1>1, <1>2, <1>3
<1>5. s \in Seq(Chars) /\ Len(s) = n
    BY <1>3, <1>4
<1>6. s = l
    BY <1>1, <1>4, <1>5, SameSequence
<1>7. (p + n) - p = n
    BY <1>2
<1>8. Str(mem, p) = s
    BY <1>2, <1>3, <1>7 DEF Str
<1>9. QED
    BY <1>2, <1>6, <1>8 DEF IsString

\* A string that begins inside another one.
LEMMA HeldRest ==
    ASSUME NEW mem, NEW p, NEW l, HoldsAt(mem, p, l), NEW m \in 0 .. Len(l)
    PROVE  HoldsAt(mem, p + m, SubSeq(l, m + 1, Len(l)))
<1>1. PICK n \in Nat : n = Len(l) /\ l \in Seq(Chars)
    BY HeldFacts
<1>2. PICK x \in Nat : x = n - m
    <2>1. m \in 0 .. n
        BY <1>1
    <2>2. n - m \in Nat
        BY <2>1
    <2>3. QED
        BY <2>2
<1>3. m \in Nat /\ m + x = n /\ p \in Nat /\ p + n < LINE_SIZE /\ mem[p + n] = NUL
    BY <1>1, <1>2, HeldFacts
<1>4. PICK s : s = SubSeq(l, m + 1, m + x)
    OBVIOUS
<1>5. s \in Seq(Chars) /\ Len(s) = x /\ \A k \in 1 .. x : s[k] = l[m + k]
    BY <1>1, <1>3, <1>4, PartOf
<1>6. ASSUME NEW k \in 1 .. x PROVE mem[(p + m) + k - 1] = s[k]
    <2>1. m + k \in 1 .. n /\ (p + m) + k - 1 = p + (m + k) - 1
        BY <1>3
    <2>2. mem[p + (m + k) - 1] = l[m + k]
        BY <1>1, <2>1 DEF HoldsAt
    <2>3. QED
        BY <1>5, <2>1, <2>2
<1>7. (p + m) + x = p + n /\ p + m \in Nat
    BY <1>3
<1>8. HoldsAt(mem, p + m, s)
    BY <1>3, <1>5, <1>6, <1>7 DEF HoldsAt
<1>9. QED
    BY <1>1, <1>3, <1>4, <1>8

\* The characters of l in lower case.
LowerOf(l) == [i \in DOMAIN l |-> Lower[l[i]]]

LEMMA LowerFacts ==
    ASSUME NEW l \in Seq(Chars)
    PROVE  /\ LowerOf(l) \in Seq(Chars) /\ Len(LowerOf(l)) = Len(l)
           /\ \A k \in 1 .. Len(l) : LowerOf(l)[k] = Lower[l[k]]
BY ConstantFacts DEF LowerOf

LEMMA HeldLower ==
    ASSUME NEW mem, NEW p, NEW l, HoldsAt(mem, p, l)
    PROVE  HoldsAt(tolower(mem, p), p, LowerOf(l))
<1>1. PICK n \in Nat : n = Len(l) /\ l \in Seq(Chars)
    BY HeldFacts
<1> USE ConstantFacts
<1>2. /\ p \in 0 .. LINE_SIZE - 1 /\ p + n \in Addr /\ End(mem, p) = p + n
      /\ mem[p + n] = NUL /\ p + n < LINE_SIZE
      /\ \A k \in 1 .. n : mem[p + k - 1] = l[k]
    BY <1>1, HeldEnd, HeldFacts
<1>3. PICK s \in Seq(Chars) : s = LowerOf(l) /\ Len(s) = n /\ \A k \in 1 .. n : s[k] = Lower[l[k]]
    BY <1>1, LowerFacts
<1>4. \A k \in Addr : tolower(mem, p)[k] = IF k \in p .. p + n - 1 THEN Lower[mem[k]] ELSE mem[k]
    BY <1>2 DEF tolower
<1>5. tolower(mem, p)[p + n] = NUL
    BY <1>2, <1>4
<1>6. ASSUME NEW k \in 1 .. n PROVE tolower(mem, p)[p + k - 1] = s[k]
    <2>1. p + k - 1 \in p .. p + n - 1 /\ p + k - 1 \in Addr
        BY <1>2 DEF Addr
    <2>2. QED
        BY <1>2, <1>3, <1>4, <2>1
<1>7. HoldsAt(tolower(mem, p), p, s)
    BY <1>2, <1>3, <1>5, <1>6 DEF HoldsAt
<1>8. QED
    BY <1>3, <1>7

\* trim finds the line without blanks, and ends it with a 0 of its own where there
\* are blanks behind it.
LEMMA HeldSkipped ==
    ASSUME NEW mem, NEW p, NEW l, HoldsAt(mem, p, l)
    PROVE  /\ Skipped(mem, p) \in p .. p + Len(l)
           /\ \A k \in p .. Skipped(mem, p) - 1 : mem[k] = Blank
           /\ Skipped(mem, p) # p + Len(l) => mem[Skipped(mem, p)] # Blank
<1>1. PICK n \in Nat : n = Len(l)
    BY HeldFacts
<1>2. p \in Nat /\ End(mem, p) = p + n
    BY <1>1, HeldEnd, HeldFacts
<1> DEFINE S == {k \in p .. p + n : k = p + n \/ mem[k] # Blank}
<1>3. S \subseteq Nat /\ p + n \in S
    BY <1>2
<1>4. Skipped(mem, p) = Min(S)
    BY <1>2 DEF Skipped
<1>5. Min(S) \in S /\ \A y \in S : Min(S) <= y
    <2> HIDE DEF S
    <2>1. QED
        BY <1>3, MinOfNats
<1>6. ASSUME NEW k \in p .. Min(S) - 1 PROVE mem[k] = Blank
    <2>1. ~(Min(S) <= k) /\ k \in p .. p + n
        BY <1>2, <1>5
    <2>2. QED
        BY <1>5, <2>1
<1>7. QED
    BY <1>1, <1>4, <1>5, <1>6

\* The last character that is not blank.
LEMMA HeldLast ==
    ASSUME NEW mem, NEW p \in Nat, NEW e \in Nat, NEW K \in p .. e - 1, mem[K] # Blank
    PROVE  LET M == Max({k \in p .. e - 1 : mem[k] # Blank})
           IN  /\ M \in K .. e - 1 /\ mem[M] # Blank
               /\ \A k \in M + 1 .. e - 1 : mem[k] = Blank
<1> DEFINE S == {k \in p .. e - 1 : mem[k] # Blank}
<1>1. S \subseteq 0 .. e /\ K \in S
    OBVIOUS
<1>2. Max(S) \in S /\ \A y \in S : y <= Max(S)
    <2> HIDE DEF S
    <2>1. QED
        BY <1>1, MaxOfNats
<1>3. ASSUME NEW k \in Max(S) + 1 .. e - 1 PROVE mem[k] = Blank
    <2>1. ~(k <= Max(S)) /\ k \in p .. e - 1
        BY <1>2
    <2>2. QED
        BY <1>2, <2>1
<1>4. K <= Max(S)
    BY <1>1, <1>2
<1>5. Max(S) \in K .. e - 1 /\ mem[Max(S)] # Blank
    BY <1>2, <1>4
<1>6. QED
    BY <1>3, <1>5

\* A part of l with blanks on both sides is the trimmed line.
LEMMA TrimmedPart ==
    ASSUME NEW l \in Seq(Chars), NEW a \in Nat, NEW m \in Nat, NEW n \in Nat,
           n = Len(l), a + m <= n,
           \A k \in 1 .. n : k <= a \/ k > a + m => l[k] = Blank,
           m # 0 => l[a + 1] # Blank /\ l[a + m] # Blank
    PROVE  Trimmed(l) = SubSeq(l, a + 1, a + m)
<1>1. PICK w : w = SubSeq(l, a + 1, a + m)
    OBVIOUS
<1>2. w \in Seq(Chars) /\ Len(w) = m /\ (\A k \in 1 .. m : w[k] = l[a + k]) /\ w \in SubSeqs(l)
    <2>1. a + m <= Len(l)
        OBVIOUS
    <2>2. /\ SubSeq(l, a + 1, a + m) \in Seq(Chars) /\ Len(SubSeq(l, a + 1, a + m)) = m
          /\ \A k \in 1 .. m : SubSeq(l, a + 1, a + m)[k] = l[a + k]
        BY <2>1, PartOf
    <2>3. SubSeq(l, a + 1, a + m) \in SubSeqs(l)
        BY <2>1, PartIn
    <2>4. QED
        BY <1>1, <2>2, <2>3
<1>3. Within(w, l, a)
    BY <1>2 DEF Within
<1>4. w # <<>> => w[1] # Blank /\ w[Len(w)] # Blank
    <2>1. SUFFICES ASSUME w # <<>> PROVE w[1] # Blank /\ w[m] # Blank
        BY <1>2
    <2>2. m # 0
        BY <1>2, <2>1
    <2>3. 1 \in 1 .. m /\ m \in 1 .. m
        BY <2>2
    <2>4. QED
        BY <1>2, <2>2, <2>3
<1>5. QED
    BY <1>1, <1>2, <1>3, <1>4, WithinTrimmed, TrimmedIs

LEMMA HeldTrimmed ==
    ASSUME NEW mem \in [Addr -> Chars \union {NUL, Stale}], NEW p, NEW l, HoldsAt(mem, p, l)
    PROVE  HoldsAt(Cut(mem, p), Skipped(mem, p), Trimmed(l))
<1>1. PICK n \in Nat : n = Len(l) /\ l \in Seq(Chars)
    BY HeldFacts
<1>2. PICK K : K = Skipped(mem, p)
    OBVIOUS
<1>3. /\ p \in Nat /\ End(mem, p) = p + n /\ mem[p + n] = NUL /\ p + n < LINE_SIZE /\ LINE_SIZE \in Nat
      /\ \A k \in 1 .. n : mem[p + k - 1] = l[k]
    BY <1>1, HeldEnd, HeldFacts
<1>4. /\ K \in p .. p + n /\ (\A k \in p .. K - 1 : mem[k] = Blank)
      /\ K # p + n => mem[K] # Blank
    BY <1>1, <1>2, HeldSkipped
<1>5. CASE K = p + n
    <2>1. Cut(mem, p) = mem
        BY <1>2, <1>3, <1>5 DEF Cut
    <2>2. ASSUME NEW k \in 1 .. n PROVE l[k] = Blank
        <3>1. p + k - 1 \in p .. K - 1
            BY <1>3, <1>5
        <3>2. QED
            BY <1>3, <1>4, <3>1
    <2>3. Trimmed(l) = SubSeq(l, 0 + 1, 0 + 0)
        BY <1>1, <2>2, TrimmedPart
    <2>4. Trimmed(l) = <<>>
        BY <2>3, <1>1
    <2>5. <<>> \in Seq(Chars) /\ Len(<<>>) = 0
        OBVIOUS
    <2>6. HoldsAt(mem, K, <<>>)
        BY <1>3, <1>5, <2>5 DEF HoldsAt
    <2>7. QED
        BY <1>2, <2>1, <2>4, <2>6
<1>6. CASE K # p + n
    <2>1. K \in p .. (p + n) - 1 /\ mem[K] # Blank /\ p + n \in Nat
        BY <1>3, <1>4, <1>6
    <2>2. PICK M : M = Max({k \in p .. (p + n) - 1 : mem[k] # Blank})
        OBVIOUS
    <2>3. /\ M \in K .. (p + n) - 1 /\ mem[M] # Blank
          /\ \A k \in M + 1 .. (p + n) - 1 : mem[k] = Blank
        <3>1. p \in Nat /\ p + n \in Nat
            BY <1>3
        <3>2. PICK e \in Nat : e = p + n
            BY <3>1
        <3>3. K \in p .. e - 1 /\ M = Max({k \in p .. e - 1 : mem[k] # Blank})
            BY <2>1, <2>2, <3>2
        <3>4. /\ M \in K .. e - 1 /\ mem[M] # Blank
              /\ \A k \in M + 1 .. e - 1 : mem[k] = Blank
            BY <2>1, <3>1, <3>3, HeldLast
        <3>5. QED
            BY <3>2, <3>4
    <2>4. PICK a \in Nat : a = K - p
        <3>1. K - p \in Nat
            BY <1>3, <2>1
        <3>2. QED
            BY <3>1
    <2>5. PICK m \in Nat : m = M - K + 1
        <3>1. M - K + 1 \in Nat
            BY <1>3, <2>1, <2>3
        <3>2. QED
            BY <3>1
    <2>6. /\ K \in Nat /\ M \in Nat /\ K = p + a /\ M = p + (a + m) - 1 /\ m # 0 /\ a + m <= n
        BY <1>3, <2>1, <2>3, <2>4, <2>5
    <2>7. ASSUME NEW k \in 1 .. n, k <= a \/ k > a + m PROVE l[k] = Blank
        <3>1. p + k - 1 \in p .. K - 1 \/ p + k - 1 \in M + 1 .. (p + n) - 1
            BY <1>3, <2>6, <2>7
        <3>2. QED
            BY <1>3, <1>4, <2>3, <3>1
    <2>8. l[a + 1] # Blank /\ l[a + m] # Blank
        <3>1. a + 1 \in 1 .. n /\ a + m \in 1 .. n /\ K = p + (a + 1) - 1
            BY <1>3, <2>6
        <3>2. QED
            BY <1>3, <2>1, <2>3, <2>6, <3>1
    <2>9. PICK w : w = SubSeq(l, a + 1, a + m)
        OBVIOUS
    <2>10. w \in Seq(Chars) /\ Len(w) = m /\ \A k \in 1 .. m : w[k] = l[a + k]
        <3>1. a + m <= Len(l) /\ l \in Seq(Chars)
            BY <1>1, <2>6
        <3>2. /\ SubSeq(l, a + 1, a + m) \in Seq(Chars) /\ Len(SubSeq(l, a + 1, a + m)) = m
              /\ \A k \in 1 .. m : SubSeq(l, a + 1, a + m)[k] = l[a + k]
            BY <3>1, PartOf
        <3>3. QED
            BY <2>9, <3>2
    <2>11. Trimmed(l) = w
        BY <1>1, <2>6, <2>7, <2>8, <2>9, TrimmedPart
    <2>12. \A k \in 1 .. m : mem[K + k - 1] = w[k]
        <3>1. TAKE k \in 1 .. m
        <3>2. a + k \in 1 .. n /\ K + k - 1 = p + (a + k) - 1
            BY <1>3, <2>6
        <3>3. QED
            BY <1>3, <2>10, <3>2
    <2>13. PICK c : c = Cut(mem, p)
        OBVIOUS
    <2>14. c[K + m] = NUL /\ \A k \in 1 .. m : c[K + k - 1] = mem[K + k - 1]
        <3>1. CASE mem[(p + n) - 1] # Blank
            <4>1. c = mem
                BY <1>2, <1>3, <2>13, <3>1 DEF Cut
            <4>2. ~(M < (p + n) - 1)
                BY <1>3, <2>1, <2>3, <3>1
            <4>3. K + m = p + n
                BY <1>3, <2>1, <2>3, <2>5, <4>2
            <4>4. QED
                BY <1>3, <4>1, <4>3
        <3>2. CASE ~(mem[(p + n) - 1] # Blank)
            <4>1. c = [mem EXCEPT ![M + 1] = NUL]
                BY <1>2, <1>3, <1>6, <2>2, <2>13, <3>2 DEF Cut
            <4>2. M + 1 \in Addr /\ K + m = M + 1
                BY <1>3, <2>1, <2>3, <2>5 DEF Addr
            <4>3. \A k \in 1 .. m : K + k - 1 # M + 1 /\ K + k - 1 \in Addr
                BY <1>3, <2>1, <2>3, <2>5 DEF Addr
            <4>4. QED
                BY <4>1, <4>2, <4>3
        <3>3. QED
            BY <3>1, <3>2
    <2>15. K + m < LINE_SIZE
        BY <1>3, <2>6
    <2>16. HoldsAt(c, K, w)
        BY <2>6, <2>10, <2>12, <2>14, <2>15 DEF HoldsAt
    <2>17. QED
        BY <1>2, <2>11, <2>13, <2>16
<1>7. QED
    BY <1>5, <1>6

---------------------------------------------------------------------------
(* atoi.                                                                   *)

LEMMA DivMod ==
    ASSUME NEW d \in Nat \ {0}, NEW n \in Nat
    PROVE  n \div d \in Nat /\ n % d \in 0 .. d - 1 /\ n = d * (n \div d) + (n % d)
OBVIOUS

LEMMA OneRemainder ==
    ASSUME NEW d \in Nat \ {0}, NEW p \in Nat, NEW q \in Nat,
           NEW r \in 0 .. d - 1, NEW s \in 0 .. d - 1, d * p + r = d * q + s
    PROVE  r = s
<1>1. d * (p - q) = s - r
    OBVIOUS
<1>2. PICK x \in Int : x = p - q
    OBVIOUS
<1>3. d * x = s - r /\ s - r < d /\ r - s < d
    BY <1>1, <1>2
<1>4. ~(x >= 1)
    <2>1. SUFFICES ASSUME x >= 1 PROVE d * x >= d
        BY <1>3
    <2>2. QED
        BY <2>1
<1>5. ~(x <= -1)
    <2>1. SUFFICES ASSUME x <= -1 PROVE d * x <= -d
        BY <1>3
    <2>2. QED
        BY <2>1
<1>6. x = 0
    BY <1>4, <1>5
<1>7. QED
    BY <1>3, <1>6

\* A number with one more digit, modulo U.
LEMMA OneMoreDigit ==
    ASSUME NEW U \in Nat \ {0}, NEW a \in Nat, NEW e \in Nat
    PROVE  ((a % U) * 10 + e) % U = (a * 10 + e) % U
<1>1. PICK q \in Nat, r \in 0 .. U - 1 : a = U * q + r /\ r = a % U
    BY DivMod
<1>2. PICK x \in Nat : x = r * 10 + e
    BY <1>1
<1>3. PICK y \in Nat : y = a * 10 + e
    OBVIOUS
<1>4. y = U * (q * 10) + x /\ q * 10 \in Nat
    <2>1. PICK w \in Int : w = U * q
        OBVIOUS
    <2>2. U * (q * 10) = w * 10
        BY <2>1
    <2>3. a = w + r /\ r \in Nat
        BY <1>1, <2>1
    <2>4. y = w * 10 + x
        BY <1>2, <1>3, <2>3
    <2>5. QED
        BY <2>2, <2>4
<1>5. PICK i \in Nat, s \in 0 .. U - 1 : x = U * i + s /\ s = x % U
    BY DivMod
<1>6. PICK j \in Nat, t \in 0 .. U - 1 : y = U * j + t /\ t = y % U
    BY DivMod
<1>7. PICK k \in Nat : k = q * 10 + i
    OBVIOUS
<1>8. U * j + t = U * k + s
    BY <1>4, <1>5, <1>6, <1>7
<1>9. t = s
    BY <1>8, OneRemainder
<1>10. QED
    BY <1>1, <1>2, <1>3, <1>5, <1>6, <1>9

\* g is the numbers written by the first digits of s, f these numbers modulo UINT.
Decimals(g, s, d) ==
    g = [k \in 0 .. d |-> IF k = 0 THEN 0 ELSE g[k - 1] * 10 + DigitOf[s[k]]]

Values(f, s, d) ==
    f = [n \in 0 .. d |-> IF n = 0 THEN 0 ELSE (f[n - 1] * 10 + DigitOf[s[n]]) % UINT]

LEMMA DecimalsExist ==
    ASSUME NEW s
    PROVE  \A d \in Nat : \E g : Decimals(g, s, d)
<1> DEFINE S == {d \in Nat : \E g : Decimals(g, s, d)}
<1>1. 0 \in S
    <2>1. Decimals([k \in 0 .. 0 |-> 0], s, 0)
        BY DEF Decimals
    <2>2. QED
        BY <2>1
<1>2. ASSUME NEW n \in Nat, n \in S PROVE n + 1 \in S
    <2>1. PICK g : Decimals(g, s, n)
        BY <1>2
    <2>2. PICK h : h = [k \in 0 .. n + 1 |-> IF k \in 0 .. n THEN g[k]
                                             ELSE g[n] * 10 + DigitOf[s[n + 1]]]
        OBVIOUS
    <2>3. ASSUME NEW k \in 0 .. n + 1
          PROVE  h[k] = IF k = 0 THEN 0 ELSE h[k - 1] * 10 + DigitOf[s[k]]
        <3>1. CASE k = 0
            BY <2>1, <2>2, <3>1 DEF Decimals
        <3>2. CASE k # 0 /\ k \in 0 .. n
            <4>1. k - 1 \in 0 .. n
                BY <3>2
            <4>2. h[k] = g[k] /\ h[k - 1] = g[k - 1]
                BY <2>2, <3>2, <4>1
            <4>3. g[k] = g[k - 1] * 10 + DigitOf[s[k]]
                BY <2>1, <3>2 DEF Decimals
            <4>4. QED
                BY <3>2, <4>2, <4>3
        <3>3. CASE k \notin 0 .. n
            <4>1. k = n + 1 /\ k # 0 /\ k - 1 = n /\ n \in 0 .. n
                BY <3>3
            <4>2. QED
                BY <2>2, <3>3, <4>1
        <3>4. QED
            BY <3>1, <3>2, <3>3
    <2>4. Decimals(h, s, n + 1)
        BY <2>2, <2>3 DEF Decimals
    <2>5. QED
        BY <2>4
<1>3. QED
    <2> HIDE DEF S
    <2>1. Nat \subseteq S
        BY <1>1, <1>2, NatSetInduction
    <2>2. QED
        BY <2>1 DEF S

\* The first d characters of s are digits.
AreDigits(s, d) == \A i \in 1 .. d : s[i] \in DOMAIN DigitOf

LEMMA DecimalsAreNumbers ==
    ASSUME NEW s, NEW d \in Nat, AreDigits(s, d), NEW g, Decimals(g, s, d)
    PROVE  \A k \in 0 .. d : g[k] \in Nat
<1> DEFINE S == {k \in Nat : k <= d => g[k] \in Nat}
<1>1. 0 \in S
    BY DEF Decimals
<1>2. ASSUME NEW k \in Nat, k \in S PROVE k + 1 \in S
    <2>1. SUFFICES ASSUME k + 1 <= d PROVE g[k + 1] \in Nat
        OBVIOUS
    <2>2. k + 1 \in 0 .. d /\ k + 1 # 0 /\ k <= d /\ (k + 1) - 1 = k /\ k + 1 \in 1 .. d
        BY <2>1
    <2>3. g[k + 1] = g[k] * 10 + DigitOf[s[k + 1]]
        BY <2>2 DEF Decimals
    <2>4. DigitOf[s[k + 1]] \in 0 .. 9
        BY <2>2, ShellAssumption DEF AreDigits
    <2>5. QED
        BY <1>2, <2>2, <2>3, <2>4
<1>3. QED
    <2> HIDE DEF S
    <2>1. Nat \subseteq S
        BY <1>1, <1>2, NatSetInduction
    <2>2. QED
        BY <2>1 DEF S

\* The digits are read modulo UINT one by one, or all at once.
LEMMA ValuesOfDecimals ==
    ASSUME NEW s, NEW d \in Nat, AreDigits(s, d), NEW f, Values(f, s, d), NEW g, Decimals(g, s, d)
    PROVE  f[d] = g[d] % UINT
<1> DEFINE S == {k \in Nat : k <= d => f[k] = g[k] % UINT}
<1>0. UINT \in Nat \ {0}
    BY ShellAssumption
<1>1. 0 \in S
    <2>1. f[0] = 0 /\ g[0] = 0
        BY DEF Decimals, Values
    <2>2. 0 % UINT = 0
        BY <1>0
    <2>3. QED
        BY <2>1, <2>2
<1>2. ASSUME NEW k \in Nat, k \in S PROVE k + 1 \in S
    <2>1. SUFFICES ASSUME k + 1 <= d PROVE f[k + 1] = g[k + 1] % UINT
        OBVIOUS
    <2>2. k + 1 \in 0 .. d /\ k + 1 # 0 /\ k \in 0 .. d /\ (k + 1) - 1 = k /\ k + 1 \in 1 .. d
        BY <2>1
    <2>3. PICK e : e = DigitOf[s[k + 1]]
        OBVIOUS
    <2>4. g[k + 1] = g[k] * 10 + e
        BY <2>2, <2>3 DEF Decimals
    <2>5. f[k + 1] = (f[k] * 10 + e) % UINT
        BY <2>2, <2>3 DEF Values
    <2>6. e \in Nat
        <3>1. DigitOf[s[k + 1]] \in 0 .. 9
            BY <2>2, ShellAssumption DEF AreDigits
        <3>2. QED
            BY <2>3, <3>1
    <2>7. PICK a \in Nat : a = g[k]
        BY <2>2, DecimalsAreNumbers
    <2>8. f[k] = a % UINT
        BY <1>2, <2>2, <2>7
    <2>9. ((a % UINT) * 10 + e) % UINT = (a * 10 + e) % UINT
        BY <1>0, <2>6, OneMoreDigit
    <2>10. QED
        BY <2>4, <2>5, <2>7, <2>8, <2>9
<1>3. QED
    <2> HIDE DEF S
    <2>1. Nat \subseteq S
        BY <1>1, <1>2, NatSetInduction
    <2>2. d \in S /\ d <= d
        BY <2>1
    <2>3. QED
        BY <2>2 DEF S

LEMMA ValuesExist ==
    ASSUME NEW s, NEW d \in Nat, AreDigits(s, d)
    PROVE  \E f : Values(f, s, d)
<1>0. UINT \in Nat \ {0}
    BY ShellAssumption
<1>1. PICK g : Decimals(g, s, d)
    BY DecimalsExist
<1>2. PICK f : f = [k \in 0 .. d |-> g[k] % UINT]
    OBVIOUS
<1>3. ASSUME NEW k \in 0 .. d
      PROVE  f[k] = IF k = 0 THEN 0 ELSE (f[k - 1] * 10 + DigitOf[s[k]]) % UINT
    <2>1. CASE k = 0
        <3>1. g[k] = 0
            BY <1>1, <2>1 DEF Decimals
        <3>2. 0 % UINT = 0
            BY <1>0
        <3>3. QED
            BY <1>2, <2>1, <3>1, <3>2
    <2>2. CASE k # 0
        <3>1. k - 1 \in 0 .. d /\ k \in 1 .. d
            BY <2>2
        <3>2. PICK e : e = DigitOf[s[k]]
            OBVIOUS
        <3>3. PICK a \in Nat : a = g[k - 1]
            BY <1>1, <3>1, DecimalsAreNumbers
        <3>4. g[k] = a * 10 + e
            BY <1>1, <2>2, <3>2, <3>3 DEF Decimals
        <3>5. e \in Nat
            <4>1. DigitOf[s[k]] \in 0 .. 9
                BY <3>1, ShellAssumption DEF AreDigits
            <4>2. QED
                BY <3>2, <4>1
        <3>6. ((a % UINT) * 10 + e) % UINT = (a * 10 + e) % UINT
            BY <1>0, <3>5, OneMoreDigit
        <3>7. f[k] = g[k] % UINT /\ f[k - 1] = a % UINT
            BY <1>2, <3>1, <3>3
        <3>8. QED
            BY <2>2, <3>2, <3>4, <3>6, <3>7
    <2>3. QED
        BY <2>1, <2>2
<1>4. Values(f, s, d)
    BY <1>2, <1>3 DEF Values
<1>5. QED
    BY <1>4

\* The number of digits that s begins with, as atoi and as Number count them.
LEMMA DigitsOf ==
    ASSUME NEW s \in Seq(Chars)
    PROVE  LET d == Max({n \in 0 .. Len(s) : AreDigits(s, n)})
           IN  /\ d \in 0 .. Len(s) /\ AreDigits(s, d)
               /\ Cardinality({k \in 1 .. Len(s) : AreDigits(s, k)}) = d
<1>1. PICK n \in Nat : n = Len(s)
    OBVIOUS
<1> DEFINE S == {k \in 0 .. n : AreDigits(s, k)}
           d == Max(S)
<1>2. S \subseteq 0 .. n /\ 0 \in S
    BY DEF AreDigits
<1>3. d \in S /\ \A y \in S : y <= d
    <2> HIDE DEF S
    <2>1. QED
        BY <1>2, MaxOfNats
<1>4. d \in 0 .. n /\ AreDigits(s, d)
    BY <1>3
<1>5. ASSUME NEW k \in 1 .. n PROVE AreDigits(s, k) <=> k \in 1 .. d
    <2>1. AreDigits(s, k) => k \in 1 .. d
        BY <1>3, <1>4
    <2>2. k \in 1 .. d => AreDigits(s, k)
        <3>1. SUFFICES ASSUME k \in 1 .. d PROVE \A i \in 1 .. k : s[i] \in DOMAIN DigitOf
            BY DEF AreDigits
        <3>2. \A i \in 1 .. k : i \in 1 .. d
            BY <1>4, <3>1
        <3>3. QED
            BY <1>4, <3>2 DEF AreDigits
    <2>3. QED
        BY <2>1, <2>2
<1> HIDE DEF S, d
<1>6. {k \in 1 .. n : AreDigits(s, k)} = 1 .. d
    <2>1. \A k \in 1 .. d : k \in 1 .. n
        BY <1>4
    <2>2. QED
        BY <1>5, <2>1
<1>7. Cardinality(1 .. d) = d
    <2>1. d \in Nat /\ 1 \in Int /\ d \in Int
        BY <1>4
    <2>2. Cardinality(1 .. d) = IF 1 > d THEN 0 ELSE d - 1 + 1
        BY <2>1, FS_Interval
    <2>3. QED
        BY <2>1, <2>2
<1>8. QED
    BY <1>1, <1>4, <1>6, <1>7 DEF S, d

\* atoi computes the number the digits are the notation of.
LEMMA AtoiIsNumber ==
    ASSUME NEW s \in Seq(Chars)
    PROVE  atoi(s) = Number(s)
<1>1. PICK d : d = Max({n \in 0 .. Len(s) : AreDigits(s, n)})
    OBVIOUS
<1>2. d \in Nat /\ AreDigits(s, d) /\ d = Cardinality({k \in 1 .. Len(s) : AreDigits(s, k)})
    <2>1. PICK n \in Nat : n = Len(s)
        OBVIOUS
    <2>2. /\ d \in 0 .. n /\ AreDigits(s, d)
          /\ Cardinality({k \in 1 .. Len(s) : AreDigits(s, k)}) = d
        BY <1>1, <2>1, DigitsOf
    <2>3. QED
        BY <2>2
<1>3. PICK f : Values(f, s, d) /\ atoi(s) = f[d]
    <2>1. \E f : Values(f, s, d)
        BY <1>2, ValuesExist
    <2>2. atoi(s) = (CHOOSE f : Values(f, s, d))[d]
        BY <1>1 DEF atoi, Values, AreDigits
    <2>3. QED
        BY <2>1, <2>2
<1>4. PICK g : Decimals(g, s, d) /\ Number(s) = g[d] % UINT
    <2>1. \E g : Decimals(g, s, d)
        BY <1>2, DecimalsExist
    <2>2. Number(s) = (CHOOSE g : Decimals(g, s, d))[d] % UINT
        BY <1>2 DEF Number, Decimals, AreDigits
    <2>3. QED
        BY <2>1, <2>2
<1>5. QED
    BY <1>2, <1>3, <1>4, ValuesOfDecimals

---------------------------------------------------------------------------
(* The meaning of a line.                                                  *)

LEMMA AtMost ==
    ASSUME NEW S, IsFiniteSet(S), NEW n \in Nat, Cardinality(S) <= n, NEW x
    PROVE  /\ IsFiniteSet(S \cup {x}) /\ Cardinality(S \cup {x}) <= n + 1
           /\ x \in S => Cardinality(S \cup {x}) <= n
<1>1. /\ IsFiniteSet(S \cup {x})
      /\ Cardinality(S \cup {x}) = IF x \in S THEN Cardinality(S) ELSE Cardinality(S) + 1
    BY FS_AddElement
<1>2. Cardinality(S) \in Nat
    BY FS_CardinalityType
<1>3. QED
    BY <1>1, <1>2

LEMMA FourDiffer ==
    ASSUME NEW a, NEW b, NEW c, NEW d, Cardinality({a, b, c, d}) = 4
    PROVE  a \notin {b, c, d}
<1>1. IsFiniteSet({}) /\ Cardinality({}) <= 0
    BY FS_EmptySet
<1>2. IsFiniteSet({d}) /\ Cardinality({d}) <= 1
    <2>1. {d} = {} \cup {d}
        OBVIOUS
    <2>2. IsFiniteSet({} \cup {d}) /\ Cardinality({} \cup {d}) <= 0 + 1
        BY <1>1, AtMost
    <2>3. QED
        BY <2>1, <2>2
<1>3. IsFiniteSet({c, d}) /\ Cardinality({c, d}) <= 2
    <2>1. {c, d} = {d} \cup {c}
        OBVIOUS
    <2>2. IsFiniteSet({d} \cup {c}) /\ Cardinality({d} \cup {c}) <= 1 + 1
        BY <1>2, AtMost
    <2>3. QED
        BY <2>1, <2>2
<1>4. IsFiniteSet({b, c, d}) /\ Cardinality({b, c, d}) <= 3
    <2>1. {b, c, d} = {c, d} \cup {b}
        OBVIOUS
    <2>2. IsFiniteSet({c, d} \cup {b}) /\ Cardinality({c, d} \cup {b}) <= 2 + 1
        BY <1>3, AtMost
    <2>3. QED
        BY <2>1, <2>2
<1>5. {a, b, c, d} = {b, c, d} \cup {a}
    OBVIOUS
<1>6. a \in {b, c, d} => Cardinality({b, c, d} \cup {a}) <= 3
    BY <1>4, AtMost
<1>7. QED
    BY <1>5, <1>6

\* The words of the shell differ from each other and from the empty line.
LEMMA WordsDiffer ==
    /\ HELP # <<>> /\ TICKS # <<>> /\ EXIT # <<>>
    /\ HELP # TICKS /\ HELP # EXIT /\ TICKS # EXIT
<1>1. Cardinality({<<>>, HELP, TICKS, EXIT}) = 4
    BY ShellAssumption
<1>2. <<>> \notin {HELP, TICKS, EXIT}
    BY <1>1, FourDiffer
<1>3. HELP \notin {<<>>, TICKS, EXIT}
    <2>1. {<<>>, HELP, TICKS, EXIT} = {HELP, <<>>, TICKS, EXIT}
        OBVIOUS
    <2>2. QED
        BY <1>1, <2>1, FourDiffer
<1>4. TICKS \notin {<<>>, HELP, EXIT}
    <2>1. {<<>>, HELP, TICKS, EXIT} = {TICKS, <<>>, HELP, EXIT}
        OBVIOUS
    <2>2. QED
        BY <1>1, <2>1, FourDiffer
<1>5. QED
    BY <1>2, <1>3, <1>4

\* starts_with finds the words that are the prefix and something behind it.
LEMMA StartsWith ==
    ASSUME NEW S, NEW u \in Seq(S), NEW w \in Seq(S)
    PROVE  /\ IsPrefix(u, w) <=> \E rest \in SubSeqs(w) : w = u \o rest
           /\ IsPrefix(u, w) => Len(u) \in 0 .. Len(w)
<1>1. PICK m \in Nat : m = Len(u)
    OBVIOUS
<1>2. PICK n \in Nat : n = Len(w)
    OBVIOUS
<1>3. IsPrefix(u, w) => m <= n /\ \A k \in 1 .. m : u[k] = w[k]
    <2>1. SUFFICES ASSUME IsPrefix(u, w) PROVE m <= n /\ \A k \in 1 .. m : u[k] = w[k]
        OBVIOUS
    <2>2. m <= n /\ SubSeq(u, 1, m) = SubSeq(w, 1, m)
        BY <1>1, <1>2, <2>1 DEF IsPrefix
    <2>3. (\A k \in 1 .. m : SubSeq(u, 1, m)[k] = u[k]) /\ \A k \in 1 .. m : SubSeq(w, 1, m)[k] = w[k]
        BY <1>1, <1>2, <2>2
    <2>4. QED
        BY <2>2, <2>3
<1>4. ASSUME IsPrefix(u, w) PROVE \E rest \in SubSeqs(w) : w = u \o rest
    <2>1. PICK x \in Nat : x = n - m
        <3>1. n - m \in Nat
            BY <1>3, <1>4
        <3>2. QED
            BY <3>1
    <2>2. m + x = n /\ m + x <= Len(w)
        BY <1>2, <2>1
    <2>3. PICK v : v = SubSeq(w, m + 1, m + x)
        OBVIOUS
    <2>4. v \in Seq(S) /\ Len(v) = x /\ \A k \in 1 .. x : v[k] = w[m + k]
        <3>1. /\ SubSeq(w, m + 1, m + x) \in Seq(S) /\ Len(SubSeq(w, m + 1, m + x)) = x
              /\ \A k \in 1 .. x : SubSeq(w, m + 1, m + x)[k] = w[m + k]
            BY <2>2, PartOf
        <3>2. QED
            BY <2>3, <3>1
    <2>5. v \in SubSeqs(w)
        BY <2>2, <2>3, PartIn
    <2>6. /\ u \o v \in Seq(S) /\ Len(u \o v) = m + x
          /\ \A k \in 1 .. m : (u \o v)[k] = u[k]
          /\ \A k \in 1 .. x : (u \o v)[m + k] = v[k]
        <3>1. /\ u \o v \in Seq(S) /\ Len(u \o v) = Len(u) + Len(v)
              /\ \A k \in 1 .. Len(u) : (u \o v)[k] = u[k]
              /\ \A k \in 1 .. Len(v) : (u \o v)[Len(u) + k] = v[k]
            <4>1. v \in Seq(S)
                BY <2>4
            <4>2. QED
                BY <4>1, Joined
        <3>2. QED
            BY <1>1, <2>4, <3>1
    <2>7. PICK z : z = u \o v
        OBVIOUS
    <2>8. ASSUME NEW k \in 1 .. n PROVE w[k] = z[k]
        <3>1. CASE k <= m
            BY <1>3, <1>4, <2>6, <2>7, <3>1
        <3>2. CASE k > m
            <4>1. k - m \in 1 .. x /\ m + (k - m) = k
                BY <2>1, <3>2
            <4>2. QED
                BY <2>4, <2>6, <2>7, <4>1
        <3>3. QED
            BY <3>1, <3>2
    <2>9. z \in Seq(S) /\ Len(w) = Len(z)
        BY <1>2, <2>2, <2>6, <2>7
    <2>10. w = z
        BY <1>2, <2>8, <2>9, SameSequence
    <2>11. QED
        BY <2>5, <2>7, <2>10
<1>5. ASSUME NEW v \in SubSeqs(w), w = u \o v PROVE IsPrefix(u, w)
    <2>1. v \in Seq(S)
        BY PartsType
    <2>2. PICK j \in Nat : j = Len(v)
        BY <2>1
    <2>3. n = m + j /\ \A k \in 1 .. m : w[k] = u[k]
        BY <1>1, <1>2, <1>5, <2>1, <2>2, Joined
    <2>4. m <= n
        BY <2>3
    <2>5. /\ SubSeq(u, 0 + 1, 0 + m) \in Seq(S) /\ Len(SubSeq(u, 0 + 1, 0 + m)) = m
          /\ \A k \in 1 .. m : SubSeq(u, 0 + 1, 0 + m)[k] = u[0 + k]
        BY <1>1, PartOf
    <2>6. /\ SubSeq(w, 0 + 1, 0 + m) \in Seq(S) /\ Len(SubSeq(w, 0 + 1, 0 + m)) = m
          /\ \A k \in 1 .. m : SubSeq(w, 0 + 1, 0 + m)[k] = w[0 + k]
        <3>1. 0 + m <= Len(w)
            BY <1>2, <2>4
        <3>2. QED
            BY <3>1, PartOf
    <2>7. \A k \in 1 .. m : SubSeq(u, 0 + 1, 0 + m)[k] = SubSeq(w, 0 + 1, 0 + m)[k]
        BY <2>3, <2>5, <2>6
    <2>8. SubSeq(u, 0 + 1, 0 + m) = SubSeq(w, 0 + 1, 0 + m)
        BY <2>5, <2>6, <2>7, SameSequence
    <2>9. 0 + 1 = 1 /\ 0 + m = m
        OBVIOUS
    <2>10. QED
        BY <1>1, <1>2, <2>4, <2>8, <2>9 DEF IsPrefix
<1>6. IsPrefix(u, w) => Len(u) \in 0 .. Len(w)
    BY <1>1, <1>2, <1>3
<1>7. QED
    BY <1>4, <1>5, <1>6

\* Behind the word sleep, trim and atoi read the number of milliseconds.
LEMMA MillisecondsMeant ==
    ASSUME TypeOK, NEW w, HoldsAt(buf, line, w), IsPrefix(SLEEP, w)
    PROVE  Milliseconds = Number(Trimmed(SubSeq(w, Len(SLEEP) + 1, Len(w))))
<1>1. w \in Seq(Chars) /\ SLEEP \in Seq(Chars)
    BY ShellAssumption, HeldFacts
<1>2. PICK m \in 0 .. Len(w) : m = Len(SLEEP)
    BY <1>1, StartsWith
<1>3. PICK v : v = SubSeq(w, m + 1, Len(w))
    OBVIOUS
<1>4. HoldsAt(buf, line + m, v)
    BY <1>3, HeldRest
<1>5. buf \in [Addr -> Chars \union {NUL, Stale}]
    BY DEF TypeOK
<1>6. HoldsAt(Cut(buf, line + m), Skipped(buf, line + m), Trimmed(v))
    BY <1>4, <1>5, HeldTrimmed
<1>7. Str(Cut(buf, line + m), Skipped(buf, line + m)) = Trimmed(v) /\ Trimmed(v) \in Seq(Chars)
    BY <1>6, HeldString, HeldFacts
<1>8. atoi(Trimmed(v)) = Number(Trimmed(v))
    BY <1>7, AtoiIsNumber
<1>9. QED
    BY <1>2, <1>3, <1>7, <1>8 DEF Milliseconds

\* The word the shell has parsed is the trimmed line in lower case: the branch it
\* takes is the one the line means.
LEMMA ParsedMeaning ==
    ASSUME TypeOK, NEW l, NEW w, w = LowerOf(Trimmed(l)), HoldsAt(buf, line, w)
    PROVE  Parsed(w) = Meaning(l)
<1>1. w \in Seq(Chars) /\ SLEEP \in Seq(Chars)
    BY ShellAssumption, HeldFacts
<1>2. IsPrefix(SLEEP, w) <=> \E rest \in SubSeqs(w) : w = SLEEP \o rest
    BY <1>1, StartsWith
<1>3. PICK number : number = Number(Trimmed(SubSeq(w, Len(SLEEP) + 1, Len(w))))
    OBVIOUS
<1>4. Meaning(l) =
        IF w = <<>> THEN NoJob
        ELSE IF w \in {HELP, TICKS, EXIT}
        THEN [does |-> CASE w = HELP -> "help" [] w = TICKS -> "ticks" [] w = EXIT -> "exit",
              arg |-> <<>>]
        ELSE IF \E rest \in SubSeqs(w) : w = SLEEP \o rest
        THEN [does |-> "sleep", arg |-> number]
        ELSE [does |-> "exec", arg |-> w]
    BY <1>3 DEF Meaning, LowerOf
<1>5. IsPrefix(SLEEP, w) => w # <<>> /\ w \notin {HELP, TICKS, EXIT}
    <2>1. ~IsPrefix(SLEEP, HELP) /\ ~IsPrefix(SLEEP, TICKS) /\ ~IsPrefix(SLEEP, EXIT)
        BY ShellAssumption
    <2>2. ~IsPrefix(SLEEP, <<>>)
        <3>1. SLEEP # <<>> /\ Len(<<>>) = 0
            BY ShellAssumption
        <3>2. Len(SLEEP) \in Nat \ {0}
            BY <1>1, <3>1
        <3>3. QED
            BY <3>1, <3>2 DEF IsPrefix
    <2>3. QED
        BY <2>1, <2>2
<1>6. PICK starts \in BOOLEAN : starts <=> IsPrefix(SLEEP, w)
    OBVIOUS
<1>7. starts => Milliseconds = number
    BY <1>3, <1>6, MillisecondsMeant
<1>8. CASE w = <<>>
    <2>1. Parsed(w) = NoJob
        BY <1>5, <1>8, WordsDiffer DEF Parsed, Same, starts_with
    <2>2. QED
        BY <1>4, <1>8, <2>1
<1>9. CASE w = HELP
    <2>1. Parsed(w) = [does |-> "help", arg |-> <<>>]
        BY <1>5, <1>9, WordsDiffer DEF Parsed, Same, starts_with
    <2>2. (CASE w = HELP -> "help" [] w = TICKS -> "ticks" [] w = EXIT -> "exit") = "help"
        BY <1>9, WordsDiffer
    <2>3. w # <<>> /\ w \in {HELP, TICKS, EXIT}
        BY <1>9, WordsDiffer
    <2>4. QED
        BY <1>4, <2>1, <2>2, <2>3
<1>10. CASE w = TICKS
    <2>1. Parsed(w) = [does |-> "ticks", arg |-> <<>>]
        BY <1>5, <1>10, WordsDiffer DEF Parsed, Same, starts_with
    <2>2. (CASE w = HELP -> "help" [] w = TICKS -> "ticks" [] w = EXIT -> "exit") = "ticks"
        BY <1>10, WordsDiffer
    <2>3. w # <<>> /\ w \in {HELP, TICKS, EXIT}
        BY <1>10, WordsDiffer
    <2>4. QED
        BY <1>4, <2>1, <2>2, <2>3
<1>11. CASE w = EXIT
    <2>1. Parsed(w) = [does |-> "exit", arg |-> <<>>]
        BY <1>5, <1>11, WordsDiffer DEF Parsed, Same, starts_with
    <2>2. (CASE w = HELP -> "help" [] w = TICKS -> "ticks" [] w = EXIT -> "exit") = "exit"
        BY <1>11, WordsDiffer
    <2>3. w # <<>> /\ w \in {HELP, TICKS, EXIT}
        BY <1>11, WordsDiffer
    <2>4. QED
        BY <1>4, <2>1, <2>2, <2>3
<1>12. CASE w # <<>> /\ w \notin {HELP, TICKS, EXIT} /\ IsPrefix(SLEEP, w)
    <2>1. Parsed(w) = [does |-> "sleep", arg |-> Milliseconds]
        BY <1>12 DEF Parsed, Same, starts_with
    <2>2. QED
        BY <1>2, <1>4, <1>6, <1>7, <1>12, <2>1
<1>13. CASE w # <<>> /\ w \notin {HELP, TICKS, EXIT} /\ ~IsPrefix(SLEEP, w)
    <2>1. Parsed(w) = [does |-> "exec", arg |-> w]
        BY <1>13 DEF Parsed, Same, starts_with
    <2>2. QED
        BY <1>2, <1>4, <1>13, <2>1
<1>14. QED
    BY <1>8, <1>9, <1>10, <1>11, <1>12, <1>13

\* After the line is trimmed its word is in the buffer; then the command is known.
LineMeant ==
    /\ at = "command" => HoldsAt(buf, line, LowerOf(Trimmed(Edited(typed))))
    /\ CommandMeant

LEMMA EnteredHeld ==
    ASSUME TypeOK, LineStored, at = "trim"
    PROVE  HoldsAt(buf, 0, screen)
<1>1. /\ screen \in Seq(Chars) /\ pos = Len(screen) /\ pos < LINE_SIZE /\ buf[pos] = NUL
      /\ \A k \in 0 .. pos - 1 : buf[k] = screen[k + 1]
    BY DEF TypeOK, LineStored
<1>2. PICK n \in Nat : n = Len(screen)
    BY <1>1
<1>3. ASSUME NEW k \in 1 .. n PROVE buf[0 + k - 1] = screen[k]
    <2>1. 0 + k - 1 \in 0 .. pos - 1 /\ (0 + k - 1) + 1 = k
        BY <1>1, <1>2
    <2>2. QED
        BY <1>1, <2>1
<1>4. 0 + n = pos
    BY <1>1, <1>2
<1>5. QED
    BY <1>1, <1>2, <1>3, <1>4 DEF HoldsAt

LEMMA TrimMeant == Inv /\ Trim => LineMeant'
<1> SUFFICES ASSUME Inv, Trim PROVE LineMeant'
    OBVIOUS
<1>1. at = "trim" /\ typed' = typed /\ TypeOK /\ LineStored
    BY DEF Inv, Trim
<1>2. /\ at' = "command" /\ line' = Skipped(buf, 0)
      /\ buf' = tolower(Cut(buf, 0), Skipped(buf, 0))
    BY <1>1, EnteredIsString DEF Trim
<1>3. HoldsAt(buf, 0, screen) /\ screen = Edited(typed)
    BY <1>1, EnteredHeld DEF LineStored
<1>4. buf \in [Addr -> Chars \union {NUL, Stale}]
    BY <1>1 DEF TypeOK
<1>5. HoldsAt(Cut(buf, 0), Skipped(buf, 0), Trimmed(screen))
    BY <1>3, <1>4, HeldTrimmed
<1>6. HoldsAt(tolower(Cut(buf, 0), Skipped(buf, 0)), Skipped(buf, 0), LowerOf(Trimmed(screen)))
    BY <1>5, HeldLower
<1>7. HoldsAt(buf', line', LowerOf(Trimmed(Edited(typed'))))
    BY <1>1, <1>2, <1>3, <1>6
<1>8. QED
    BY <1>2, <1>7 DEF LineMeant, CommandMeant

LEMMA CommandIsMeant == Inv /\ LineMeant /\ Command => LineMeant'
<1> SUFFICES ASSUME Inv, LineMeant, Command PROVE LineMeant'
    OBVIOUS
<1>1. at = "command" /\ at' = "run" /\ typed' = typed /\ job' = Parsed(Str(buf, line)) /\ TypeOK
    BY DEF Inv, Command
<1>2. PICK w : w = LowerOf(Trimmed(Edited(typed)))
    OBVIOUS
<1>3. HoldsAt(buf, line, w)
    BY <1>1, <1>2 DEF LineMeant
<1>4. Str(buf, line) = w
    BY <1>3, HeldString
<1>5. Parsed(w) = Meaning(Edited(typed))
    BY <1>1, <1>2, <1>3, ParsedMeaning
<1>6. QED
    BY <1>1, <1>4, <1>5 DEF LineMeant, CommandMeant

\* The other steps lead to neither place.
LEMMA OtherMeant ==
    Inv /\ LineMeant /\ [Next]_vars /\ ~Trim /\ ~Command => LineMeant'
<1> SUFFICES ASSUME Inv, LineMeant, [Next]_vars, ~Trim, ~Command PROVE LineMeant'
    OBVIOUS
<1>1. CASE UNCHANGED vars \/ NoKey
    <2>1. UNCHANGED <<at, buf, line, job, typed>>
        BY <1>1 DEF vars, NoKey, Reading
    <2>2. QED
        BY <2>1 DEF LineMeant, CommandMeant, HoldsAt
<1>2. ASSUME at' \notin {"command", "run"} PROVE LineMeant'
    BY <1>2 DEF LineMeant, CommandMeant
<1>3. CASE Type
    <2>1. ASSUME at = "read", NEW cs, Store(cs) PROVE at' \in {"read", "lost"}
        BY <2>1 DEF Store
    <2>2. ASSUME NEW key \in Keys, TypeChar(key) PROVE at' \in {"read", "lost"}
        BY <2>1, <2>2 DEF TypeChar, Reading
    <2>3. TypeTab => at' \in {"read", "lost"}
        BY <2>1 DEF TypeTab, Reading
    <2>4. TypeBackspace => at' = "read"
        BY DEF TypeBackspace, Reading
    <2>5. TypeEnter => at' \in {"trim", "lost"}
        BY DEF TypeEnter
    <2>6. QED
        BY <1>2, <1>3, <2>2, <2>3, <2>4, <2>5 DEF Type
<1>4. CASE Prompt \/ PrintCommand \/ SleepCommand \/ ExitCommand \/ ExecCommand \/ ExecResult \/ AppEnds
    <2>1. at' \notin {"command", "run"}
        BY <1>4 DEF Prompt, PrintCommand, SleepCommand, ExitCommand, ExecCommand, ExecResult, AppEnds
    <2>2. QED
        BY <1>2, <2>1
<1>5. QED
    BY <1>1, <1>3, <1>4 DEF Next, ShellStep

\* The command that is carried out is the one the line means, for any buffer and
\* keys: trim, tolower and the terminal 0 change the line in place, but not its
\* word, and atoi reads the number behind sleep (shell.c:20-46; ulibc.c:112-182).
THEOREM CommandMeantCorrect == Spec => []CommandMeant
<1>1. Init => LineMeant
    BY DEF Init, LineMeant, CommandMeant
<1>2. Inv /\ LineMeant /\ [Next]_vars => LineMeant'
    BY TrimMeant, CommandIsMeant, OtherMeant
<1>3. LineMeant => CommandMeant
    BY DEF LineMeant
<1>4. QED
    BY <1>1, <1>2, <1>3, ShellInvariant, PTL DEF Spec
=============================================================================
