----------------------------- MODULE SkillSources -----------------------------
(***************************************************************************)
(* What a request for skills names (internal/runnerd/skills_source.go) and *)
(* which skills are found there (skills_repo.go, skills.go).  Pure: the    *)
(* file trees are constants.                                               *)
(*                                                                         *)
(* A source is a record of the parts its spelling has: local tells a path  *)
(* of this machine, scheme and host are "" when there is none, path is the *)
(* sequence of its segments without a ".git", git tells whether it ended   *)
(* in ".git", filter is the text after an "@".  A directory is the         *)
(* sequence of names that leads to it from "/".                            *)
(***************************************************************************)
EXTENDS Naturals, Sequences, FiniteSets, SequencesExt

CONSTANTS
    NameOrder,  \* the names directories have, in the order ReadDir lists them
    OddNames,   \* those with a character outside [A-Za-z0-9._-]
    DotNames,   \* those that begin with "."
    Fold,       \* function from a name to its lower case
    SkillDirs,  \* function from a tree to its directories with a SKILL.md
    Allowed     \* the local directories under a share (PathAllowed of Paths)

DirName == ToSet(NameOrder)

CloneRoot == <<"tmp", "repo">>   \* filepath.Join(tmpParent, "repo")

ASSUME SourcesAssumption ==
    /\ NameOrder \in Seq(STRING)
    /\ \A name \in DirName : Fold[name] \in DirName
    /\ CloneRoot \in Seq(DirName)
    /\ \A dir \in Allowed : dir \in Seq(DirName)
    /\ \A tree \in DOMAIN SkillDirs : \A dir \in SkillDirs[tree] : dir \in Seq(DirName)

Rank(name) == CHOOSE i \in DOMAIN NameOrder : NameOrder[i] = name

Refused == [type |-> "refused", url |-> <<>>, ref |-> "", sub |-> <<>>, filter |-> ""]

Parsed(type, url, ref, sub, filter) ==
    [type |-> type, url |-> url, ref |-> ref, sub |-> sub, filter |-> filter]

\* The segments from the i-th on.
From(path, i) == SubSeq(path, i, Len(path))

\* parseSkillSource: the first form that fits.  The expressions for GitHub
\* and GitLab look for the host anywhere and take two segments after it.
ParseSource(s) ==
    LET n == Len(s.path)
        repo == <<s.host, s.path[1], s.path[2]>>
        hub == <<"github.com", s.path[1], s.path[2]>>
        tree(i) == n >= i + 1 /\ s.path[i] = "tree"
    IN  IF s.local THEN Parsed("local", s.path, "", <<>>, "")
        ELSE IF s.host = "github.com" /\ n >= 2 THEN
            IF tree(3) THEN Parsed("github", repo, s.path[4], From(s.path, 5), "")
                       ELSE Parsed("github", repo, "", <<>>, "")
        ELSE IF s.host = "gitlab.com" /\ n >= 2 THEN
            IF n >= 3 /\ s.path[3] = "-" /\ tree(4)
            THEN Parsed("gitlab", repo, s.path[5], From(s.path, 6), "")
            ELSE Parsed("gitlab", repo, "", <<>>, "")
        ELSE IF s.host = "" /\ n = 2 /\ s.filter # "" THEN Parsed("github", hub, "", <<>>, s.filter)
        ELSE IF s.host = "" /\ n >= 2 THEN Parsed("github", hub, "", From(s.path, 3), "")
        ELSE IF s.scheme # "" \/ s.git THEN Parsed("git", <<s.host>> \o s.path, "", <<>>, "")
        ELSE Refused

\* filepath.Clean(filepath.Join(root, sub)).
Join(root, sub) ==
    FoldLeft(LAMBDA dir, name :
                 CASE name = "." -> dir
                   [] name = ".." -> IF dir = <<>> THEN dir ELSE Front(dir)
                   [] OTHER -> Append(dir, name),
             root, sub)

AgentDirs ==
    <<".agent", ".agents", ".claude", ".cline", ".codebuddy", ".codex", ".commandcode",
      ".continue", ".cursor", ".github", ".goose", ".junie", ".kilocode", ".kiro", ".mux",
      ".neovate", ".opencode", ".openhands", ".pi", ".qoder", ".roo", ".trae", ".windsurf",
      ".zencoder">>

\* prioritySkillSearchDirs, relative to the directory searched.
PriorityDirs ==
    << <<>>, <<"skills">>, <<"skills", ".curated">>, <<"skills", ".experimental">>,
       <<"skills", ".system">> >>
    \o [i \in DOMAIN AgentDirs |-> <<AgentDirs[i], "skills">>]

SkipDirs == {"node_modules", ".git", "dist", "build", "__pycache__"}

\* Names a skill may be installed and deleted under.
InstallName(name) == name \notin OddNames \cup DotNames \cup {"__MACOSX"}

\* Faulty variant of Installable: a skill's directory may have any name.
Installable_Any(dir) == dir # <<>>

\* The base of "/" is "/", which is none.
Installable(dir) == dir # <<>> /\ InstallName(Last(dir))

\* The children of the priority directories, each with the priority it has.
Shallow(dirs, at) ==
    {c \in (DOMAIN PriorityDirs) \X dirs :
        c[2] # <<>> /\ Front(c[2]) = at \o PriorityDirs[c[1]]}

\* findSkillDirsRecursive: at most five levels, no directory of SkipDirs
\* entered; all of the same priority.
Deep(dirs, at) ==
    {<<0, d>> : d \in {e \in dirs :
        /\ IsPrefix(at, e)
        /\ Len(e) <= Len(at) + 5
        /\ \A i \in Len(at) + 1 .. Len(e) : e[i] \notin SkipDirs}}

\* The order of a walk.
WalkBefore(c, d) ==
    \/ IsStrictPrefix(c, d)
    \/ \E i \in DOMAIN c \cap DOMAIN d :
          /\ \A j \in 1 .. i - 1 : c[j] = d[j]
          /\ Rank(c[i]) < Rank(d[i])

FoundBefore(c, d) == c[1] < d[1] \/ (c[1] = d[1] /\ WalkBefore(c[2], d[2]))

\* The first directory of each name, upper and lower case being the same.
FirstOfName(found) ==
    LET good == {c \in found : Installable(c[2])}
        key(c) == Fold[Last(c[2])]
    IN  {c[2] : c \in {d \in good : \A e \in good : key(e) = key(d) => ~FoundBefore(e, d)}}

\* discoverSkillDirs with materializeDiscoveredSkills, for a tree at root.
Discover(tree, root, sub) ==
    LET at == Join(root, sub)
        dirs == {root \o d : d \in SkillDirs[tree]}
        shallow == FirstOfName(Shallow(dirs, at))
    IN  IF ~IsPrefix(root, at) THEN {}
        ELSE IF at \in dirs THEN {d \in {at} : Installable(d)}
        ELSE IF shallow # {} THEN shallow
        ELSE FirstOfName(Deep(dirs, at))

\* The k-th smallest of the numbers in S.
Nth(S, k) == CHOOSE i \in S : Cardinality({j \in S : j < i}) = k - 1

\* compactStringList: the first of those that are the same up to case.
Compact(list) ==
    LET first == {i \in DOMAIN list : \A j \in 1 .. i - 1 : Fold[list[j]] # Fold[list[i]]}
    IN  [k \in 1 .. Cardinality(first) |-> list[Nth(first, k)]]

ByName(dirs) ==
    LET key(d) == Rank(Fold[Last(d)])
        keys == {key(d) : d \in dirs}
    IN  [k \in 1 .. Cardinality(keys) |-> CHOOSE d \in dirs : key(d) = Nth(keys, k)]

\* selectSkills: the directories for the wanted names, or <<>> if one is
\* missing (the request is refused, as it is if nothing was found).
Select(dirs, wanted) ==
    LET named(w) == {d \in dirs : Fold[Last(d)] = Fold[w]}
    IN  IF wanted = <<>> THEN ByName(dirs)
        ELSE IF \E i \in DOMAIN wanted : named(wanted[i]) = {} THEN <<>>
        ELSE [i \in DOMAIN wanted |-> CHOOSE d \in named(wanted[i]) : TRUE]

\* What installSkills installs for a request before it takes the lock: the
\* names and the content each gets, in order; <<>> if it is refused.
\* resolveSkillSource lets the request override the ref and the subpath.
Wanted(r) ==
    LET p == ParseSource(r.source)
        ref == IF r.ref # "" THEN r.ref ELSE p.ref
        sub == IF r.sub # <<>> THEN r.sub ELSE p.sub
        root == IF p.type = "local" THEN p.url ELSE CloneRoot
        tree == <<p.url, IF p.type = "local" THEN "" ELSE ref>>
        names == Compact(IF p.filter = "" THEN r.skills ELSE Append(r.skills, p.filter))
        picked == IF \/ p.type = "refused"
                     \/ p.type = "local" /\ p.url \notin Allowed
                     \/ tree \notin DOMAIN SkillDirs
                  THEN <<>>
                  ELSE Select(Discover(tree, root, sub), names)
    IN  [i \in DOMAIN picked |->
            [name |-> Last(picked[i]), content |-> <<p.url, ref, From(picked[i], Len(root) + 1)>>]]
=============================================================================
