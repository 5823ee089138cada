------------------------------ MODULE MCTasks ------------------------------
(* Instances of Tasks for TLC. *)
EXTENDS Tasks, TLC

\* The end of a command: success, and failure.
TwoCodes == {0, 1}

\* Calls and handlers are interchangeable.
Symmetry == Permutations(Tasks) \cup Permutations(Managers)
=============================================================================
