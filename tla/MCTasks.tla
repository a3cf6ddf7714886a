------------------------------ MODULE MCTasks ------------------------------
(* Instances of Tasks for TLC: a shell of three pages in two page tables    *)
(* and an application of two pages in one.                                  *)
EXTENDS Tasks, TLC

CONSTANTS shell, app

MCPages == (shell :> 3) @@ (app :> 2)
MCImage == (shell :> 2) @@ (app :> 1)
=============================================================================
