------------------------------ MODULE MCVMStart ------------------------------
(* Two handlers, three ports, the digits of one of which begin those of      *)
(* another, and two versions whose VM images have the same size.             *)
EXTENDS VMStart, TLC

CONSTANTS p1, p2, x1, x2, x3

Procs == {p1, p2}
Ports == {x1, x2, x3}
Prefixes == {<<x2, x1>>}
Sizes == <<1, 1>>

Symmetry == Permutations(Proc)
=============================================================================
