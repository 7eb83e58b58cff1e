-------------------------------- MODULE Shares --------------------------------
(***************************************************************************)
(* Shares and excludes (internal/runnerd/shares.go, server.go, vm.go,      *)
(* lima.go): the lists of the daemon, shares.json, the flag                *)
(* vmRestartRequired, the VM that got its mounts when it was created and a *)
(* container that got its lists when it was created.                       *)
(*                                                                         *)
(* PUT excludes works on a snapshot of the shares and stores its result in *)
(* a second critical section; POST and DELETE are one critical section     *)
(* each.  A create or a restart makes sure that the VM runs in between.    *)
(***************************************************************************)
EXTENDS Paths

CONSTANTS
    Default,    \* the shares of a new installation, without the temp directory
    ShareDir,   \* directories that requests share
    UserLists,  \* lists that requests exclude
    MountPath,  \* directories that creates want to write to
    NoPath,     \* stands for none of them
    MaxChanges, \* how often shares and excludes are changed
    Proc,       \* request handlers that may run at the same time
    Faults      \* what may go wrong: "crash", "save" (shares.json), "yaml" (limactl refuses)

ASSUME SharesAssumption ==
    /\ Tmp \in Dir /\ Tmp \notin ToSet(Default) \cup ShareDir
    /\ NoPath \notin MountPath /\ MountPath \subseteq DOMAIN Canon
    /\ ShareDir \subseteq Dir /\ Default \in Seq(Dir)
    /\ UserLists \subseteq Seq(Seq(Nat))
    /\ \A p \in MountPath : CanonForCreate(p) = Canon[p]   \* what is missing is made
    /\ MaxChanges \in Nat
    /\ Faults \subseteq {"crash", "save", "yaml"}

VARIABLES
    up,         \* the daemon runs
    shares,     \* Server.shares
    userEx,     \* Server.shareUserExcludes
    excl,       \* Server.shareExcludes
    flag,       \* Server.vmRestartRequired
    file,       \* shares.json
    yaml,       \* the shares in the YAML that VMs are created from
    vm,         \* the shares the VM mounts, or NoVM
    container,  \* the lists and the mount a service's container has, or NoContainer
    req,        \* the handler running in each process
    changes,    \* how often they were changed
    missed,     \* history: a change that the flag does not tell of
    stale,      \* history: excludes were stored for other shares than there are
    crossed,    \* history: excludes changed between a create's check of its mount
                \* and its reading of the lists
    unsaved     \* history: a save failed and none has succeeded since

vars == <<up, shares, userEx, excl, flag, file, yaml, vm, container, req, changes,
          missed, stale, crossed, unsaved>>

-----------------------------------------------------------------------------
(* Data                                                                    *)

NoVM == <<>>

Lists(sh, user, ex) == [shares |-> sh, user |-> user, excl |-> ex]

NoLists == Lists(<<>>, <<>>, <<>>)

NoContainer == [lists |-> NoLists, rw |-> NoPath]

Free == [at |-> "free", kind |-> "none", lists |-> NoLists, old |-> NoLists, recreate |-> FALSE,
         rw |-> NoPath]

Current == Lists(shares, userEx, excl)

Goto(p, place) == req' = [req EXCEPT ![p].at = place]

Finish(p) == req' = [req EXCEPT ![p] = Free]

\* The result of a handler for these shares and excludes of the user.
Outcome(sh, user) ==
    LET builtin == BuiltinExcludes(sh)
        kept == StripBuiltin(user, builtin)
    IN  Lists(sh, kept, MergeExcludes(kept, builtin))

\* A restart is on its way: it will clear the flag, whatever sets it now.
Restarting == \E p \in Proc : req[p].kind = "restart"

\* Something outdated is used, and no flag will tell.
Unnoticed(outdated) == outdated /\ (~flag \/ Restarting)

\* saveSharesLocked, after the lists were stored; on failure the handler
\* answers 500 without setting the flag.
Save(sh, user, changed) ==
    \/ /\ file' = [shares |-> sh, user |-> user]
       /\ flag' = (flag \/ changed)
       /\ unsaved' = FALSE
       /\ missed' = (missed \/ Restarting)
    \/ /\ "save" \in Faults
       /\ unsaved' = TRUE
       /\ missed' = TRUE
       /\ UNCHANGED <<file, flag>>

Counted == changes < MaxChanges /\ changes' = changes + 1

Store(lists) == Counted /\ shares' = lists.shares /\ userEx' = lists.user /\ excl' = lists.excl

-----------------------------------------------------------------------------
(* PUT /v1/shares/excludes                                                 *)

\* First critical section and the computation on its snapshot.
BeginSet(p, list) ==
    /\ up /\ req[p] = Free
    /\ ValidExcludes(list, shares)
    /\ req' = [req EXCEPT ![p] = [Free EXCEPT !.at = "store", !.kind = "set",
                  !.lists = Outcome(shares, NormalizeExcludes(list)), !.old = Current]]
    /\ UNCHANGED <<up, shares, userEx, excl, flag, file, yaml, vm, container, changes, missed, stale, crossed, unsaved>>

\* Second critical section: the flag is set if the excludes differ from those
\* of the snapshot.
CommitSet(p) ==
    LET new == req[p].lists IN
    /\ req[p].at = "store"
    /\ Counted
    /\ userEx' = new.user /\ excl' = new.excl
    /\ \/ /\ file' = [shares |-> shares, user |-> new.user]
          /\ flag' = (flag \/ new.excl # req[p].old.excl)
          /\ unsaved' = FALSE
          /\ missed' = (missed \/ Restarting \/ req[p].old # Current)
       \/ /\ "save" \in Faults
          /\ unsaved' = TRUE /\ missed' = TRUE
          /\ UNCHANGED <<file, flag>>
    /\ stale' = (stale \/ req[p].old.shares # shares)
    /\ Finish(p)
    /\ UNCHANGED <<up, shares, yaml, vm, container, crossed>>

-----------------------------------------------------------------------------
(* POST and DELETE /v1/shares                                              *)

\* A directory that is shared already, under whatever spelling, is answered
\* with the share there is.
Add(d) ==
    LET all == SortCanon(ToSet(shares) \cup {d})
        new == Outcome(all, userEx)
    IN
    /\ up
    /\ \A s \in ToSet(shares) : Canon[s] # Canon[d]
    /\ Store(new)
    /\ Save(all, new.user, TRUE)
    /\ UNCHANGED <<up, yaml, vm, container, req, stale, crossed>>

\* Faulty variant of Delete: the excludes are not looked at.
Delete_IgnoresExcludes(s) ==
    LET left == SortCanon(ToSet(shares) \ {s})
        new == Outcome(left, userEx)
    IN
    /\ up /\ Canon[s] # Canon[Tmp]
    /\ Store(new)
    /\ Save(left, new.user, TRUE)
    /\ UNCHANGED <<up, yaml, vm, container, req, stale, crossed>>

\* Faulty variant of Delete: the temp directory goes like any other.
Delete_Any(s) ==
    LET left == SortCanon(ToSet(shares) \ {s})
        new == Outcome(left, NormalizeExcludes(userEx))
    IN
    /\ up
    /\ ValidExcludes(userEx, left)
    /\ Store(new)
    /\ Save(left, new.user, TRUE)
    /\ UNCHANGED <<up, yaml, vm, container, req, stale, crossed>>

\* Refused for the temp directory, and while the user excludes something that
\* no other share has.  What is left of a sorted list is sorted.
Delete(s) ==
    LET left == SortCanon(ToSet(shares) \ {s})
        new == Outcome(left, NormalizeExcludes(userEx))
    IN
    /\ up /\ Canon[s] # Canon[Tmp]
    /\ ValidExcludes(userEx, left)
    /\ Store(new)
    /\ Save(left, new.user, TRUE)
    /\ UNCHANGED <<up, yaml, vm, container, req, stale, crossed>>

-----------------------------------------------------------------------------
(* POST /v1/vm/restart and POST /v1/services: both need the VM             *)

BeginRestart(p) ==
    /\ up /\ req[p] = Free
    /\ req' = [req EXCEPT ![p] = [Free EXCEPT !.at = "stop", !.kind = "restart", !.recreate = flag]]
    /\ UNCHANGED <<up, shares, userEx, excl, flag, file, yaml, vm, container, changes, missed, stale, crossed, unsaved>>

\* Faulty variant of StopVM: the VM is only stopped.
StopVM_Keeps(p) ==
    /\ req[p].at = "stop"
    /\ Goto(p, "build")
    /\ UNCHANGED <<up, shares, userEx, excl, flag, file, yaml, vm, container, changes, missed, stale, crossed, unsaved>>

\* Stopped, and deleted with its containers if the flag was set.
StopVM(p) ==
    /\ req[p].at = "stop"
    /\ IF req[p].recreate THEN vm' = NoVM /\ container' = NoContainer
                          ELSE UNCHANGED <<vm, container>>
    /\ Goto(p, "build")
    /\ UNCHANGED <<up, shares, userEx, excl, flag, file, yaml, changes, missed, stale, crossed, unsaved>>

\* validateAndPrepareRWMounts: the path is checked, made, and checked again.
BeginCreate(p, path) ==
    LET canon == CanonForCreate(path) IN
    /\ up /\ req[p] = Free
    /\ container = NoContainer
    /\ path # NoPath => PathAllowed(path, canon, shares, excl)
    /\ req' = [req EXCEPT ![p] = [Free EXCEPT !.at = "lists", !.kind = "create", !.rw = path,
                  !.old = Lists(<<>>, <<>>, excl)]]
    /\ UNCHANGED <<up, shares, userEx, excl, flag, file, yaml, vm, container, changes, missed, stale, crossed, unsaved>>

\* The lists the container will get are read before the guest is made ready.
ReadLists(p) ==
    /\ req[p].at = "lists"
    /\ req' = [req EXCEPT ![p].at = "build", ![p].old = Lists(shares, <<>>, excl)]
    /\ crossed' = (crossed \/ req[p].old.excl # excl)
    /\ UNCHANGED <<up, shares, userEx, excl, flag, file, yaml, vm, container, changes, missed, stale, unsaved>>

\* ensureVMRunning: the YAML is built under the lock, written after it, and
\* read by limactl later still.
BuildYAML(p) ==
    /\ req[p].at = "build"
    /\ req' = [req EXCEPT ![p].lists = Lists(shares, <<>>, <<>>), ![p].at = "write"]
    /\ UNCHANGED <<up, shares, userEx, excl, flag, file, yaml, vm, container, changes, missed, stale, crossed, unsaved>>

WriteYAML(p) ==
    /\ req[p].at = "write"
    /\ yaml' = req[p].lists.shares
    /\ missed' = (missed \/ Unnoticed(req[p].lists.shares # shares))
    /\ Goto(p, "start")
    /\ UNCHANGED <<up, shares, userEx, excl, flag, file, vm, container, changes, stale, crossed, unsaved>>

Ready(p) == Goto(p, IF req[p].kind = "restart" THEN "clear" ELSE "guest")

\* Mounts are taken from the YAML only when the VM is created.
CreateVM ==
    /\ vm' = yaml
    /\ container' = NoContainer
    /\ missed' = (missed \/ Unnoticed(yaml # shares))

StartVM(p) ==
    /\ req[p].at = "start"
    /\ IF vm = NoVM THEN CreateVM ELSE UNCHANGED <<vm, container, missed>>
    /\ Ready(p)
    /\ UNCHANGED <<up, shares, userEx, excl, flag, file, yaml, changes, stale, crossed, unsaved>>

\* The instance needs another guest channel, or limactl refuses its YAML.
RecreateVM(p) ==
    /\ req[p].at = "start"
    /\ "yaml" \in Faults /\ vm # NoVM
    /\ CreateVM
    /\ Ready(p)
    /\ UNCHANGED <<up, shares, userEx, excl, flag, file, yaml, changes, stale, crossed, unsaved>>

ClearFlag(p) ==
    /\ req[p].at = "clear"
    /\ flag' = FALSE
    /\ Finish(p)
    /\ UNCHANGED <<up, shares, userEx, excl, file, yaml, vm, container, changes, missed, stale, crossed, unsaved>>

\* startServiceContainer with the lists read at the beginning.
CreateContainer(p) ==
    /\ req[p].at = "guest"
    /\ container' = [lists |-> req[p].old, rw |-> req[p].rw]
    /\ missed' = (missed \/ Unnoticed(req[p].old # Lists(shares, <<>>, excl)))
    /\ Finish(p)
    /\ UNCHANGED <<up, shares, userEx, excl, flag, file, yaml, vm, changes, stale, crossed, unsaved>>

-----------------------------------------------------------------------------
(* The daemon ends and starts                                              *)

Crash ==
    /\ up /\ "crash" \in Faults
    /\ up' = FALSE
    /\ req' = [p \in Proc |-> Free]
    /\ missed' = (missed \/ flag)
    /\ UNCHANGED <<shares, userEx, excl, flag, file, yaml, vm, container, changes, stale, crossed, unsaved>>

\* loadShares accepts the file.
Loadable == SharesLoadable(file.shares)
            /\ ValidExcludes(file.user, NormalizeShares(file.shares, Default))

\* NewServer refuses to run when loadShares fails; what it normalised is saved.
Start ==
    LET new == Outcome(NormalizeShares(file.shares, Default), NormalizeExcludes(file.user)) IN
    /\ ~up /\ Loadable
    /\ up' = TRUE
    /\ shares' = new.shares /\ userEx' = new.user /\ excl' = new.excl
    /\ file' = [shares |-> new.shares, user |-> new.user]
    /\ flag' = FALSE
    /\ unsaved' = FALSE
    /\ missed' = (missed \/ unsaved)
    /\ UNCHANGED <<yaml, vm, container, req, changes, stale, crossed>>

-----------------------------------------------------------------------------
(* The specification                                                       *)

Init ==
    LET new == Outcome(NormalizeShares(<<>>, Default), <<>>) IN
    /\ up = TRUE
    /\ shares = new.shares /\ userEx = new.user /\ excl = new.excl
    /\ flag = FALSE
    /\ file = [shares |-> new.shares, user |-> new.user]
    /\ yaml = <<>> /\ vm = NoVM /\ container = NoContainer
    /\ req = [p \in Proc |-> Free]
    /\ changes = 0 /\ missed = FALSE /\ stale = FALSE
    /\ crossed = FALSE /\ unsaved = FALSE

Handle(p) ==
    \/ \E list \in UserLists : BeginSet(p, list)
    \/ CommitSet(p)
    \/ BeginRestart(p) \/ StopVM(p) \/ ClearFlag(p)
    \/ \E path \in MountPath \cup {NoPath} : BeginCreate(p, path)
    \/ ReadLists(p) \/ CreateContainer(p)
    \/ BuildYAML(p) \/ WriteYAML(p) \/ StartVM(p) \/ RecreateVM(p)

Next ==
    \/ \E p \in Proc : Handle(p)
    \/ \E d \in ShareDir : Add(d)
    \/ \E s \in ToSet(shares) : Delete(s)
    \/ Crash
    \/ Start

Spec == Init /\ [][Next]_vars

-----------------------------------------------------------------------------
(* Properties                                                              *)

ExcludeList(list) == list \in Seq(Dir) /\ Len(list) <= Cardinality(Dir)

\* Every variable keeps its type; lists have no entry twice; and the directory
\* the guest is supplied through stays shared and is never hidden, also after a
\* restart of the daemon from any file it may have written.
TypeOK ==
    /\ up \in BOOLEAN /\ flag \in BOOLEAN
    /\ missed \in BOOLEAN /\ stale \in BOOLEAN /\ crossed \in BOOLEAN /\ unsaved \in BOOLEAN
    /\ changes \in 0..MaxChanges
    /\ \A list \in {shares, userEx, excl, yaml, vm} :
          ToSet(list) \subseteq Dir /\ IsInjective([i \in 1..Len(list) |-> Canon[list[i]]])
    /\ req \in [Proc -> [at : {"free", "store", "stop", "lists", "build", "write", "start", "clear", "guest"},
                         kind : {"none", "set", "restart", "create"},
                         lists : {req[p].lists : p \in Proc},
                         old : {req[p].old : p \in Proc},
                         recreate : BOOLEAN,
                         rw : MountPath \cup {NoPath}]]
    /\ Tmp \in ToSet(shares) /\ \A e \in ToSet(excl) : ~Under(e, Tmp) /\ ~Under(Tmp, e)

Covered(p, list) == \E e \in ToSet(list) : Under(p, e)

\* Whatever adds, deletes, excludes and restarts interleave: every directory the
\* user excludes is excluded, by its own entry or one above it, and the list
\* holds nothing but entries of the user and built-in ones.  Guards the two
\* merges that drop entries (shares.go:239, shares.go:276).  And no container
\* may write below one of its own excludes, through whatever links: unless the
\* excludes changed after its mount was checked.
UserExcludesInForce ==
    /\ \A e \in ToSet(userEx) : Covered(e, excl)
    /\ ToSet(excl) \subseteq ToSet(userEx) \cup ToSet(Builtin)
    /\ container.rw # NoPath /\ ~crossed => ~Covered(container.rw, container.lists.excl)

\* The daemon can start from its own file: its shares and excludes pass the
\* checks of loadShares.  Where LinksStayInside, only PUT excludes that overlaps
\* a change of the shares can break this.
AlwaysLoadable == ~stale => Loadable

Roots == ShareDir \cup ToSet(Default) \cup {Tmp}

\* No request shares a directory by a spelling that leads through a link out of
\* another share: then an exclude can become a share that has none above it.
LinksStayInside ==
    \A d \in ShareDir \ Link, s \in Roots : HasPathPrefix(d, s) => Under(d, s)

\* Two lists deny the same, whatever entries they have below others: a list is
\* collapsed anew when the daemon starts.
SameCover(a, b) == \A p \in DOMAIN Canon : Covered(p, a) <=> Covered(p, b)

\* The flag tells when a restart is needed: while it is down, the VM mounts the
\* shares there are, and a container denies what is excluded; unless a save
\* failed, the daemon crashed with the flag up, or a change overlapped a restart
\* or the handler that read the lists before it.
FlagTells ==
    up /\ ~flag /\ ~missed =>
        /\ vm # NoVM => vm = shares
        /\ container # NoContainer =>
                container.lists.shares = shares /\ SameCover(container.lists.excl, excl)

=============================================================================
