------------------------------ MODULE MCTunnels ------------------------------
(* Model values for the runs of Tunnels.                                   *)
EXTENDS Tunnels

CONSTANTS t1, t2, t3, h1, g1, g2, p1, p2

Ids == {t1, t2, t3}
OneHostPort == {h1}
GuestPorts == {g1, g2}
Procs == {p1, p2}
=============================================================================
