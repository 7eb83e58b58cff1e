-------------------------------- MODULE Paths --------------------------------
(***************************************************************************)
(* The path rules of internal/runnerd/shares.go and services.go, which the *)
(* guest repeats in internal/guestrunnerd/services.go: prefixes, share and  *)
(* exclude lists, and the checks of paths in requests.                      *)
(*                                                                         *)
(* A path is the sequence of its bytes, as the rules compare and sort       *)
(* bytes; only cleaned absolute paths occur.  The file system is given by   *)
(* the three constants, and EvalSymlinks by Canon.                          *)
(***************************************************************************)
EXTENDS Naturals, Sequences, SequencesExt, FiniteSets

CONSTANTS
    Dir,       \* the paths at which os.Stat finds a directory, through links or not
    Link,      \* those of them that are symbolic links themselves
    Canon,     \* maps every path to what EvalSymlinks makes of it
    Tmp,       \* DefaultSharedTmpDir
    Builtin    \* <HOME>/.claude and <HOME>/.codex, in this order

ASSUME PathsAssumption ==
    /\ IsFiniteSet(Dir) /\ Dir \subseteq DOMAIN Canon
    /\ Canon \in [DOMAIN Canon -> Seq(Nat)]
    /\ \A p, q \in (ToSet(Builtin) \cap Dir) \ Link : Canon[p] = Canon[q] => p = q

Slash == 47

\* path is prefix or lies below it; Clean leaves a last separator only at "/",
\* and that is a prefix of no other path.
HasPathPrefix(path, prefix) ==
    \/ path = prefix
    \/ prefix # <<Slash>> /\ IsPrefix(Append(prefix, Slash), path)

\* The order of Go's strings.
Before(p, q) ==
    \/ IsStrictPrefix(p, q)
    \/ \E n \in 1..Len(p) :
          /\ n <= Len(q)
          /\ SubSeq(p, 1, n - 1) = SubSeq(q, 1, n - 1)
          /\ p[n] < q[n]

Under(p, q) == HasPathPrefix(Canon[p], Canon[q])

\* The members of S in the order of their canonical forms.
SortCanon(S) ==
    [k \in 1..Cardinality(S) |->
        CHOOSE p \in S : Cardinality({q \in S : Before(Canon[q], Canon[p])}) = k - 1]

\* A sorted list without the entries below the entry kept last.
Collapse(entries) ==
    LET last[i \in 0..Len(entries)] ==
            IF i = 0 THEN 0
            ELSE IF last[i - 1] # 0 /\ Under(entries[i], entries[last[i - 1]]) THEN last[i - 1]
            ELSE i
    IN  SortCanon({entries[i] : i \in {j \in 1..Len(entries) : last[j] = j}})

-----------------------------------------------------------------------------
(* Shares                                                                  *)

\* Of two spellings of one directory the later one is kept; the temp directory
\* is made if need be, and always shared.
NormalizeShares(in, defaults) ==
    LET all == IF in = <<>> THEN Append(defaults, Tmp) ELSE Append(in, Tmp)
        kept == {i \in 1..Len(all) : \A j \in i+1..Len(all) : Canon[all[j]] # Canon[all[i]]}
    IN  SortCanon({all[i] : i \in kept})

SharesLoadable(in) == \A i \in 1..Len(in) : in[i] \in Dir

-----------------------------------------------------------------------------
(* Excludes                                                                *)

\* p must lie below the first share that has it, as it is spelt and in its
\* canonical form, and must not touch the temp directory.
FirstShare(shares, S) ==
    LET at == {i \in 1..Len(shares) : shares[i] \in S}
    IN  shares[CHOOSE i \in at : \A j \in at : i <= j]

ValidExclude(p, shares) ==
    LET spelt == {s \in ToSet(shares) : HasPathPrefix(p, s)}
        under == {s \in ToSet(shares) : Under(p, s)}
    IN  /\ p \in Dir \ Link
        /\ spelt # {} /\ FirstShare(shares, spelt) # p
        /\ ~Under(p, Tmp) /\ ~Under(Tmp, p)
        /\ under # {} /\ Canon[FirstShare(shares, under)] # Canon[p]

\* All are valid, or the list is refused.
ValidExcludes(in, shares) == \A p \in ToSet(in) : ValidExclude(p, shares)

\* Of two spellings of one directory the first is kept; then sorted, collapsed.
NormalizeExcludes(in) ==
    LET first == {i \in 1..Len(in) : \A j \in 1..i-1 : Canon[in[j]] # Canon[in[i]]}
    IN  Collapse(SortCanon({in[i] : i \in first}))

\* Built-in excludes are left out where they do not exist or are not shared.
BuiltinExcludes(shares) ==
    Collapse(SortCanon({p \in ToSet(Builtin) : ValidExclude(p, shares)}))

\* What is left of a sorted list is sorted.
StripBuiltin(user, builtin) ==
    SortCanon({e \in ToSet(user) : \A b \in ToSet(builtin) : ~Under(e, b)})

\* Faulty variant of MergeExcludes: the built-in ones replace those of the user.
MergeExcludes_BuiltinWins(user, builtin) == IF builtin = <<>> THEN user ELSE builtin

\* The two sorted lists as one, collapsed in the same way; of two spellings of
\* one directory that of the user is kept.
MergeExcludes(user, builtin) ==
    LET new == {b \in ToSet(builtin) : \A u \in ToSet(user) : Canon[u] # Canon[b]}
    IN  IF user = <<>> THEN builtin
        ELSE IF builtin = <<>> THEN user
        ELSE Collapse(SortCanon(ToSet(user) \cup new))

-----------------------------------------------------------------------------
(* Paths in requests                                                       *)

\* The rule of validateAllowedPath, and of rw_mounts before and after they are
\* made; canon is what EvalSymlinks makes of p.
PathAllowed(p, canon, shares, excludes) ==
    /\ \E s \in ToSet(shares) : HasPathPrefix(p, s)
    /\ \A e \in ToSet(excludes) : ~HasPathPrefix(canon, Canon[e])
    /\ \E s \in ToSet(shares) : HasPathPrefix(canon, Canon[s])

\* canonicalizePathForCreate: of a path that does not exist, the nearest parent
\* that does is resolved and the rest appended.
CanonForCreate(p) ==
    LET parents == {d \in Dir : HasPathPrefix(p, d)}
        nearest == CHOOSE d \in parents : \A e \in parents : Len(e) <= Len(d)
    IN  Canon[nearest] \o SubSeq(p, Len(nearest) + 1, Len(p))
=============================================================================
