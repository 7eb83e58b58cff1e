-------------------------------- MODULE Skills --------------------------------
(***************************************************************************)
(* The skills directory (internal/runnerd/skills.go): requests that        *)
(* install and delete skills, one file system operation at a time.         *)
(*                                                                         *)
(* A request finds out what to install without a lock (SkillSources); all  *)
(* it does to the directory it does under skillsMu.  A skill is copied to  *)
(* a directory of its own, ".install-skill-*", that nothing else looks at, *)
(* and takes its place by two renames: the directory it replaces goes to   *)
(* <name>.old first and is put back if the second one fails.               *)
(***************************************************************************)
EXTENDS SkillSources, Functions

CONSTANTS
    Request,      \* the bodies of POST /v1/skills/install
    Backup(_),    \* a name with ".old" appended
    Proc,         \* request handlers that may run at the same time
    MaxRequests,  \* how many requests come
    Faults        \* what may go wrong: "copy", "rename", "crash"

ASSUME SkillsAssumption ==
    /\ MaxRequests \in Nat
    /\ Faults \subseteq {"copy", "rename", "crash"}
    /\ \A r \in Request : r.skills \in Seq(STRING) /\ r.replace \in BOOLEAN
    /\ \A name \in DirName : Backup(name) # name

VARIABLES
    disk,         \* function from the names in the directory to their content
    req,          \* the handler running in each process
    requests,     \* how many have come
    promised,     \* history: function from a name to what was installed and not deleted
    torn,         \* history: names whose removal a crash interrupted
    displaced,    \* history: names whose directory stayed at <name>.old
    refusedAfter  \* history: what a request answered with 409 had installed

vars == <<disk, req, requests, promised, torn, displaced, refusedAfter>>

-----------------------------------------------------------------------------
(* Data                                                                    *)

Place == {"free", "lock", "copy", "clear", "aside", "place", "sweep", "delete"}

Free == [at |-> "free", todo |-> <<>>, replace |-> FALSE, done |-> {}]

Names == DOMAIN disk

\* The skill a handler works on.
This(p) == Head(req[p].todo).name

With(name, content, whole) ==
    [n \in Names \cup {name} |->
        IF n = name THEN [content |-> content, whole |-> whole] ELSE disk[n]]

Without(name) == Restrict(disk, Names \ {name})

\* os.Rename
Renamed(from, to) ==
    [n \in (Names \ {from}) \cup {to} |-> IF n = to THEN disk[from] ELSE disk[n]]

Keeps(name, content) ==
    [n \in (DOMAIN promised) \cup {name} |-> IF n = name THEN content ELSE promised[n]]

Goto(p, place) == req' = [req EXCEPT ![p].at = place]

Finish(p) == req' = [req EXCEPT ![p] = Free]

\* skillsMu
Holding(p) == req[p].at \notin {"free", "lock"}

Unlocked == \A p \in Proc : ~Holding(p)

\* os.RemoveAll of name: half of it is gone, then all of it.
Half(name) ==
    /\ name \in Names /\ disk[name].whole
    /\ disk' = With(name, disk[name].content, FALSE)

Gone(name) == disk' = Without(name) /\ torn' = torn \ {name}

-----------------------------------------------------------------------------
(* POST /v1/skills/install                                                 *)

\* The part without the lock: clone, discover and select.
BeginInstall(p, r) ==
    /\ req[p] = Free /\ requests < MaxRequests
    /\ Wanted(r) # <<>>
    /\ requests' = requests + 1
    /\ req' = [req EXCEPT ![p] = [Free EXCEPT !.at = "lock", !.todo = Wanted(r), !.replace = r.replace]]
    /\ UNCHANGED <<disk, promised, torn, displaced, refusedAfter>>

\* Faulty variant of Lock: the names are only looked at one by one, later.
Lock_Unchecked(p) ==
    /\ req[p].at = "lock" /\ Unlocked
    /\ Goto(p, "copy")
    /\ UNCHANGED <<disk, requests, promised, torn, displaced, refusedAfter>>

\* Takes skillsMu; 409 if a name is taken and the request may not replace.
Lock(p) ==
    /\ req[p].at = "lock" /\ Unlocked
    /\ IF ~req[p].replace /\ \E i \in DOMAIN req[p].todo : req[p].todo[i].name \in Names
       THEN Finish(p) /\ refusedAfter' = {}
       ELSE Goto(p, "copy") /\ UNCHANGED refusedAfter
    /\ UNCHANGED <<disk, requests, promised, torn, displaced>>

\* Faulty variant of Copy: the copy is made in place.
Copy_InPlace(p) ==
    /\ req[p].at = "copy"
    /\ Goto(p, "clear")
    /\ disk' = With(This(p), Head(req[p].todo).content, FALSE)
    /\ UNCHANGED <<requests, promised, torn, displaced, refusedAfter>>

\* installSkillDir up to finalizeSkillInstall, or its failure (a symlink, a
\* full disk): the skills before it stay.
Copy(p) ==
    /\ req[p].at = "copy"
    /\ \/ Goto(p, "clear")
       \/ "copy" \in Faults /\ Finish(p)
    /\ UNCHANGED <<disk, requests, promised, torn, displaced, refusedAfter>>

\* finalizeSkillInstall: looks for the skill once more, then removes its
\* ".old" whether or not there is something to replace.
Clear(p) ==
    LET backup == Backup(This(p)) IN
    /\ req[p].at = "clear"
    /\ \/ /\ Half(backup)
          /\ UNCHANGED <<req, torn, refusedAfter>>
       \/ IF This(p) \in Names /\ ~req[p].replace
          THEN Finish(p) /\ refusedAfter' = req[p].done /\ UNCHANGED <<disk, torn>>
          ELSE /\ Goto(p, IF This(p) \in Names THEN "aside" ELSE "place")
               /\ Gone(backup)
               /\ UNCHANGED refusedAfter
    /\ UNCHANGED <<requests, promised, displaced>>

\* The skill that is replaced becomes the backup.
Aside(p) ==
    /\ req[p].at = "aside"
    /\ \/ /\ disk' = Renamed(This(p), Backup(This(p)))
          /\ torn' = IF This(p) \in torn
                     THEN (torn \ {This(p)}) \cup {Backup(This(p))} ELSE torn
          /\ Goto(p, "place")
       \/ "rename" \in Faults /\ Finish(p) /\ UNCHANGED <<disk, torn>>
    /\ UNCHANGED <<requests, promised, displaced, refusedAfter>>

\* Faulty variant of PutBack: a failed install leaves the backup where it is.
PutBack_Not(name) == UNCHANGED <<disk, torn, displaced>>

\* The second rename failed: the backup, if there is one, goes back; that may
\* fail too, and is not looked at.
PutBack(name) ==
    IF Backup(name) \notin Names THEN UNCHANGED <<disk, torn, displaced>>
    ELSE \/ /\ disk' = Renamed(Backup(name), name)
            /\ torn' = IF Backup(name) \in torn
                       THEN (torn \ {Backup(name)}) \cup {name} ELSE torn
            /\ UNCHANGED displaced
         \/ displaced' = displaced \cup {name} /\ UNCHANGED <<disk, torn>>

\* The copy takes the name.
PlaceSkill(p) ==
    LET item == Head(req[p].todo) IN
    /\ req[p].at = "place"
    /\ \/ /\ disk' = With(item.name, item.content, TRUE)
          /\ req' = [req EXCEPT ![p].at = "sweep", ![p].done = @ \cup {item.name}]
          /\ promised' = Keeps(item.name, item.content)
          /\ displaced' = displaced \ {item.name}
          /\ UNCHANGED torn
       \/ /\ "rename" \in Faults
          /\ PutBack(item.name)
          /\ Finish(p)
          /\ UNCHANGED promised
    /\ UNCHANGED <<requests, refusedAfter>>

\* The backup is removed; the next skill of the request, if any.
Sweep(p) ==
    LET backup == Backup(This(p)) IN
    /\ req[p].at = "sweep"
    /\ \/ Half(backup) /\ UNCHANGED <<req, torn>>
       \/ /\ Gone(backup)
          /\ IF Len(req[p].todo) = 1 THEN Finish(p)
             ELSE req' = [req EXCEPT ![p].at = "copy", ![p].todo = Tail(@)]
    /\ UNCHANGED <<requests, promised, displaced, refusedAfter>>

-----------------------------------------------------------------------------
(* DELETE /v1/skills/{skill_name} and crashes                              *)

\* From here on the name belongs to nobody.
BeginDelete(p, name) ==
    /\ req[p] = Free /\ requests < MaxRequests
    /\ InstallName(name) /\ name \in Names
    /\ Unlocked
    /\ requests' = requests + 1
    /\ req' = [req EXCEPT ![p] = [Free EXCEPT !.at = "delete", !.todo = <<[name |-> name, content |-> <<>>]>>]]
    /\ promised' = Restrict(promised, (DOMAIN promised) \ {name})
    /\ displaced' = displaced \ {name}
    /\ UNCHANGED <<disk, torn, refusedAfter>>

Delete(p) ==
    /\ req[p].at = "delete"
    /\ \/ Half(This(p)) /\ UNCHANGED <<req, torn>>
       \/ Gone(This(p)) /\ Finish(p)
    /\ UNCHANGED <<requests, promised, displaced, refusedAfter>>

\* The daemon dies and is started again.
Crash ==
    /\ "crash" \in Faults
    /\ \E p \in Proc : Holding(p)
    /\ req' = [p \in Proc |-> Free]
    /\ torn' = torn \cup {n \in Names : ~disk[n].whole}
    /\ displaced' = displaced \cup {This(p) : p \in {q \in Proc :
                        req[q].at = "place" /\ Backup(This(q)) \in Names}}
    /\ UNCHANGED <<disk, requests, promised, refusedAfter>>

-----------------------------------------------------------------------------
Init ==
    /\ disk = <<>> /\ promised = <<>>
    /\ req = [p \in Proc |-> Free]
    /\ requests = 0
    /\ torn = {} /\ displaced = {} /\ refusedAfter = {}

Next ==
    \/ \E p \in Proc :
        \/ \E r \in Request : BeginInstall(p, r)
        \/ Lock(p) \/ Copy(p) \/ Clear(p) \/ Aside(p) \/ PlaceSkill(p) \/ Sweep(p)
        \/ \E name \in Names : BeginDelete(p, name)
        \/ Delete(p)
    \/ Crash

Spec == Init /\ [][Next]_vars

-----------------------------------------------------------------------------
(* Properties                                                              *)

\* The name is <other>.old of another name a skill may have.
IsBackup(name) == \E n \in ToSet(NameOrder) : InstallName(n) /\ name = Backup(n)

\* The content promised for a name is there, under that name.
Kept(name) == name \in Names /\ disk[name].content = promised[name] /\ disk[name].whole

\* A skill that was installed stays until it is deleted or replaced by its
\* own name, whatever fails: while it is replaced, it or its successor is
\* there under its name or under <name>.old, and when no handler runs it is
\* there under its name.  Two cases are excepted: a crash, or a second
\* failure, between the two renames leaves it at <name>.old; and a skill
\* whose own name is <other>.old is in the way of <other>.
InstalledIsKept ==
    \A n \in DOMAIN promised :
        \/ n \in displaced \/ IsBackup(n)
        \/ Kept(n)
        \/ /\ ~Unlocked
           /\ Backup(n) \in Names
           /\ disk[Backup(n)] = [content |-> promised[n], whole |-> TRUE]

\* The list never shows half a skill, except one that is being removed or
\* whose removal a crash interrupted.
ListedIsWhole ==
    \A n \in Names :
        disk[n].whole \/ n \in torn
        \/ \E p \in Proc :
              \/ req[p].at = "delete" /\ n = This(p)
              \/ req[p].at \in {"clear", "sweep"} /\ n = Backup(This(p))

\* A request that is answered with 409 SKILL_EXISTS has installed nothing.
RefusedInstallsNothing == refusedAfter = {}

\* Whatever is installed is listed and can be deleted by its name, and no two
\* of the skills a request installs differ only in upper and lower case.
InstalledCanBeDeleted ==
    /\ \A n \in DOMAIN promised : InstallName(n)
    /\ \A p \in Proc : \A i, j \in DOMAIN req[p].todo :
        req[p].at # "delete" /\ i # j => Fold[req[p].todo[i].name] # Fold[req[p].todo[j].name]

\* docs/ASMP.md: replace defaults to false, and only when it is true is an
\* installed skill's directory overwritten.  A skill stays until a request
\* names it.
OnlyNamedIsOverwritten ==
    Unlocked => \A n \in DOMAIN promised : Kept(n)
=============================================================================
