--------------------------- MODULE MCGuestServices ---------------------------
(* Model values and symmetry for the runs of GuestServices.                *)
EXTENDS GuestServices, TLC

CONSTANTS s1, s2, i1, i2, p1, p2

OneSvc == {s1}
TwoSvcs == {s1, s2}
Images == {i1, i2}
Procs == {p1, p2}

Symmetry == Permutations(Proc) \cup Permutations(Image)
=============================================================================
