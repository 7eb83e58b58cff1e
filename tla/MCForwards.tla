----------------------------- MODULE MCForwards -----------------------------
(* Model values for the run of Forwards.                                   *)
EXTENDS Forwards, TLC

CONSTANTS h1, h2, g1, g2, p1, p2

Ids == 1 .. 3
HostPorts == {h1}
GuestPorts == {g1}
Procs == {p1, p2}
=============================================================================
