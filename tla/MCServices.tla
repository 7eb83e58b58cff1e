----------------------------- MODULE MCServices -----------------------------
(* Model values and symmetry for the runs of Services.                     *)
EXTENDS Services, TLC

CONSTANTS s1, s2, p1, p2

TwoServices == {s1, s2}
OneService == {s2}
TwoProcs == {p1, p2}
OneProc == {p1}
NoServices == {}

\* The processes are interchangeable; the services are not (Timed, Legacy).
ProcSymmetry == Permutations(Proc)
=============================================================================
