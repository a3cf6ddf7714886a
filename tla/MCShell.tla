------------------------------ MODULE MCShell ------------------------------
(***************************************************************************)
(* What a line typed in the shell means, defined without reference to the  *)
(* memory it is kept in, and an instance of Shell for TLC.                 *)
(***************************************************************************)
EXTENDS Shell

\* The line after some keys.
Edited(keys) ==
    LET after[n \in 0 .. Len(keys)] ==
            IF n = 0 THEN <<>>
            ELSE CASE keys[n] = Backspace -> Front(after[n - 1])
                   [] keys[n] = Tab -> after[n - 1] \o [i \in 1 .. TAB_SIZE |-> Blank]
                   [] OTHER -> Append(after[n - 1], CharOf[keys[n]])
    IN  after[Len(keys)]

\* w is l without blanks around it.
IsTrimmed(w, l) ==
    /\ w # <<>> => Head(w) # Blank /\ Last(w) # Blank
    /\ \E i \in 0 .. Len(l) - Len(w) :
        l = [n \in 1 .. i |-> Blank] \o w \o [n \in 1 .. Len(l) - Len(w) - i |-> Blank]

Trimmed(l) == CHOOSE w \in SubSeqs(l) : IsTrimmed(w, l)

\* The number that the digits at the beginning of w are the decimal notation of.
Number(w) ==
    LET n == Cardinality({k \in 1 .. Len(w) : \A i \in 1 .. k : w[i] \in DOMAIN DigitOf})
        decimal[k \in 0 .. n] == IF k = 0 THEN 0 ELSE decimal[k - 1] * 10 + DigitOf[w[k]]
    IN  decimal[n] % UINT

\* What the user asked for.
Meaning(l) ==
    LET t == Trimmed(l)
        w == [i \in DOMAIN t |-> Lower[t[i]]]
    IN  IF w = <<>> THEN NoJob
        ELSE IF w \in {HELP, TICKS, EXIT}
        THEN [does |-> CASE w = HELP -> "help" [] w = TICKS -> "ticks" [] w = EXIT -> "exit",
              arg |-> <<>>]
        ELSE IF \E rest \in SubSeqs(w) : w = SLEEP \o rest
        THEN [does |-> "sleep", arg |-> Number(Trimmed(SubSeq(w, Len(SLEEP) + 1, Len(w))))]
        ELSE [does |-> "exec", arg |-> w]

---------------------------------------------------------------------------
\* The command that is carried out is the one the line means, whatever was in the
\* buffer before and however trim, tolower and the terminal 0 change it in place
\* (shell.c:20-46; ulibc.c:112-182).
CommandMeant == at = "run" => job = Meaning(Edited(typed))

\* The user sees the line that the shell will interpret, also after backspaces at
\* the beginning of the line and over the blanks of a tab (ulibc.c:118-141).
EchoMatches == at \in {"read", "trim"} => screen = Edited(typed)

\* Memory outside the buffer, or left from an earlier line, is touched only after
\* a line of LINE_SIZE characters or more was typed (ulibc.c:112-145, 160-182).
LossJustified == at = "lost" => Len(Edited(typed)) >= LINE_SIZE

---------------------------------------------------------------------------
(* The instance: one letter words.                                         *)

MCCharOf == [x |-> "x", q |-> "q", s |-> "s", one |-> "1", space |-> " ", right |-> "X"]
MCLower == "x" :> "x" @@ "q" :> "q" @@ "s" :> "s" @@ "1" :> "1" @@ " " :> " " @@ "X" :> "x"
MCDigitOf == "1" :> 1
MCHelp == <<"q", "x">>
MCSleep == <<"s", " ">>
MCTicks == <<"q", "s">>
MCExit == <<"q">>
MCShellFile == <<"x", "x">>
MCModules == <<<<"x">>, <<"x", "x">>>>
=============================================================================
