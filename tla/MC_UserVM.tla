------------------------------ MODULE MC_UserVM ------------------------------
(* Instance of UserVM for TLC: two tasks, two pages, reads of up to two    *)
(* pages, so that a read can hit the page cached by the previous one.     *)
EXTENDS UserVM

CONSTANTS t1, t2

MCTasks == {t1, t2}
=============================================================================
