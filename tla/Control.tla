------------------------------ MODULE Control ------------------------------
(***************************************************************************)
(* What the entry and exit code of the kernel promises of the flow of      *)
(* control: one stack of activations.  kernel_main is at the bottom; a     *)
(* system call or an exception interrupts an application, a hardware       *)
(* interrupt interrupts anything but a handler that runs with interrupts   *)
(* disabled; kernel code calls an application; each activation that ends   *)
(* is the innermost one, and the one below it goes on.                     *)
(***************************************************************************)
EXTENDS Naturals, Sequences

CONSTANTS
    Contexts,       \* the TSSs
    Slots,          \* those of applications
    KERNEL          \* the one of kernel_main

VARIABLE acts       \* the activations, outermost first

Kinds == {"main", "user", "sys", "irq", "exc"}
Activation == [ctx : Contexts, kind : Kinds]

Innermost == acts[Len(acts)]
Push(c, k) == acts' = Append(acts, [ctx |-> c, kind |-> k])

Init == acts = <<[ctx |-> KERNEL, kind |-> "main"]>>

\* The processor enters a handler, on behalf of the context that runs.
Interrupt(k) ==
    /\ k = "irq" => Innermost.kind \in {"main", "user", "sys"}
    /\ k # "irq" => Innermost.kind = "user"
    /\ Push(Innermost.ctx, k)

\* Kernel code that runs for one context calls an application.
Call(s) ==
    /\ Innermost.kind \in {"main", "sys"}
    /\ \A i \in 1 .. Len(acts) : acts[i].ctx # s
    /\ Push(s, "user")

\* The innermost activation ends.
Return ==
    /\ Innermost.kind # "main"
    /\ acts' = SubSeq(acts, 1, Len(acts) - 1)

Next ==
    \/ \E k \in {"sys", "irq", "exc"} : Interrupt(k)
    \/ \E s \in Slots : Call(s)
    \/ Return

Spec == Init /\ [][Next]_acts
=============================================================================
