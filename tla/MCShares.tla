------------------------------- MODULE MCShares -------------------------------
(* A small file system and the requests for the runs of Shares: the home    *)
(* directory /h with /h/a, /h/a-b (built-in) and /h/a/c, which sort in this *)
(* order, a volume /v with /v/x, the temp directory /t, and the link /l to   *)
(* /h, through which creates want to write.                                  *)
EXTENDS Shares, TLC

CONSTANTS p1, p2

H == <<47, 104>>
A == <<47, 104, 47, 97>>
AC == <<47, 104, 47, 97, 47, 99>>
B == <<47, 104, 47, 97, 45, 98>>
V == <<47, 118>>
VX == <<47, 118, 47, 120>>
L == <<47, 108>>
LA == <<47, 108, 47, 97>>
LB == <<47, 108, 47, 97, 45, 98>>
LN == <<47, 108, 47, 110>>
HN == <<47, 104, 47, 110>>
T == <<47, 116>>

Dirs == {H, A, AC, B, V, VX, L, LA, LB, T}
Links == {L}
CanonOf == [p \in Dirs \cup {LN} |->
               CASE p = L -> H [] p = LA -> A [] p = LB -> B [] p = LN -> HN [] OTHER -> p]
TmpDir == T
Builtins == <<B>>
Defaults == <<H, V>>
ShareDirs == {H, L, V}
Mounts == {LB, LN}
Lists1 == {<<>>, <<AC, A, B, VX>>, <<B>>}
Procs == {p1, p2}
OneProc == {p1}

ASSUME LinksStayInside

Symmetry == Permutations(Proc)
=============================================================================
