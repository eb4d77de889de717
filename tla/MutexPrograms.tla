--------------------------- MODULE MutexPrograms ---------------------------
(***************************************************************************)
(* The programs of the directory mutex, one of which runs: a producer-      *)
(* consumer program of MutexProdcons, or a program of OsThreads.            *)
(***************************************************************************)
EXTENDS MutexProdcons, OsThreads

vars == <<prodconsVars, osVars>>

\* ".<<<<<>>>>___" with two, two and one thread, and the thread behind the end
Roles == <<"<", "<", ">", ">", "_", "NUL">>

NoProdcons ==
  /\ program = NoProdconsProgram /\ nitems = 0 /\ created = {}
  /\ SharedZero
  /\ pc = [t \in Threads |-> "absent"]

NoOs ==
  /\ os_program = "none" /\ n = 1 /\ T = 1 /\ os_count = 0
  /\ current = "A" /\ quota = 1 /\ printed = <<>>
  /\ at = [t \in OsIds |-> "before"] /\ spurious = FALSE

Init == (ProdconsInit /\ NoOs) \/ (OsInit /\ NoProdcons)

Next == \/ ProdconsNext /\ UNCHANGED osVars
        \/ os_program # "none" /\ OsNext /\ UNCHANGED prodconsVars

Spec == Init /\ [][Next]_vars /\ ProdconsFairness /\ OsFairness

TypeOK == ProdconsTypeOK /\ OsTypeOK

\* What the programs of OsThreads have written is well formed, parentheses in
\* os_prodcons8 and os_cv_while (and in os_cv_if with its conditions), fish in
\* os_fish, whose assertion holds; and the variables have their types.
OutputWellFormed == TypeOK /\ CountInRange /\ FishShape /\ FishAssertion

\* The producer-consumer programs end, and those of OsThreads write for ever: no wakeup
\* is lost that leaves all threads asleep.
MutexProgramsGoOn == ProdconsEnds /\ ParensForever /\ FishForever
=============================================================================
