------------------------------- MODULE MCSkills -------------------------------
(* Sources and requests for the runs of Skills: a repository with two skills *)
(* in a priority directory, its other ref with one at its root under a       *)
(* subpath, a local directory whose skills lie deeper, and skills whose      *)
(* names are hidden, odd, equal up to case, or another's with ".old".        *)
EXTENDS Skills, TLC

CONSTANTS p1, p2

Order == <<".curated", ".x", "A", "a", "a b", "a.old", "agents", "b", "B", "build", "d", "home",
           "repo", "skills", "tmp">>
Odd == {"a b"}
Dots == {".curated", ".x"}
FoldOf == [n \in {Order[i] : i \in DOMAIN Order} |-> CASE n = "A" -> "a" [] n = "B" -> "b" [] OTHER -> n]
Old(n) == n \o ".old"

Hub == <<"github.com", "o", "r">>
Home == <<"home", "d">>

Trees ==
    (<<Hub, "">> :> {<<"skills", "a">>, <<"skills", ".curated", "A">>, <<"skills", "b">>,
                     <<"skills", ".x">>, <<"skills", "a b">>, <<"d", "a">>})
    @@ (<<Hub, "v2">> :> {<<"agents", "a">>, <<"agents", ".x">>})
    @@ (<<Home, "">> :> {<<"d", "d", "a.old">>, <<"d", "d", "A">>, <<"build", "b">>})

Short == [local |-> FALSE, scheme |-> "", host |-> "", path |-> <<"o", "r">>, git |-> FALSE, filter |-> ""]
Tree == [Short EXCEPT !.scheme = "https", !.host = "github.com",
                      !.path = <<"o", "r", "tree", "v2", "agents", "a">>]
Hidden == [Tree EXCEPT !.path = <<"o", "r", "tree", "v2", "agents", ".x">>]
Path == [Short EXCEPT !.local = TRUE, !.path = Home]

Ask(source, skills, replace) ==
    [source |-> source, ref |-> "", sub |-> <<>>, skills |-> skills, replace |-> replace]

Requests ==
    {Ask(Short, <<>>, r) : r \in BOOLEAN}
    \cup {Ask(Tree, <<>>, r) : r \in BOOLEAN}
    \cup {Ask(Hidden, <<>>, TRUE), Ask([Short EXCEPT !.filter = "b"], <<"B">>, FALSE)}
    \cup {Ask(Path, <<"a.old">>, FALSE)}

Shared == {Home}
Procs == {p1, p2}
OneProc == {p1}

Symmetry == Permutations(Proc)
=============================================================================
