----------------------------- MODULE ExecStack -----------------------------
(***************************************************************************)
(* What task_exec promises, without slots, page tables or TSS links: an    *)
(* application runs as a nested procedure call.  The stack holds one       *)
(* activation per running or suspended application; only the innermost one *)
(* runs, an exec pushes an activation, the end of an application pops the  *)
(* activation it was and gives the terminal back the colours it had when   *)
(* that application was started, and at most MAX_TASK_COUNT activations    *)
(* exist at any time.                                                      *)
(***************************************************************************)
EXTENDS Naturals, Sequences

CONSTANTS
    MAX_TASK_COUNT,   \* number of activations that may exist
    Modules,          \* names of the applications that can be loaded
    Colors            \* colour settings of the terminal

VARIABLES
    stack,            \* activations, outermost first
    colors            \* current colour setting of the terminal

vars == <<stack, colors>>

Activation == [prog : Modules, cols : Colors]

Init == stack = <<>> /\ colors \in Colors

\* The running application (or the kernel) executes application p.
Exec(p) ==
    /\ Len(stack) < MAX_TASK_COUNT
    /\ stack' = Append(stack, [prog |-> p, cols |-> colors])
    /\ UNCHANGED colors

\* The running application changes the colours of the terminal.
SetColors ==
    /\ stack # <<>>
    /\ colors' \in Colors
    /\ UNCHANGED stack

\* The running application ends and its caller resumes.
Return ==
    /\ stack # <<>>
    /\ colors' = stack[Len(stack)].cols
    /\ stack' = SubSeq(stack, 1, Len(stack) - 1)

Next == (\E p \in Modules : Exec(p)) \/ SetColors \/ Return

Spec == Init /\ [][Next]_vars
=============================================================================
