------------------------------ MODULE MCStartup ------------------------------
(* Model values and symmetry for the run of Startup.                       *)
EXTENDS Startup, TLC

CONSTANTS p1, p2, x1, x2, x3, x4

Procs == {p1, p2}
Ports == {x1, x2, x3, x4}

\* Ports and processes are interchangeable.
Symmetry == Permutations(Proc) \cup Permutations(Port)
=============================================================================
