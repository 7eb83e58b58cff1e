------------------------------- MODULE VMStart -------------------------------
(***************************************************************************)
(* How a request gets a guest it can talk to (internal/runnerd/guest.go,   *)
(* lima.go, guest_runner_stage.go, guest_runner_sync.go,                   *)
(* offline_assets.go): ensureGuestReady of several handlers at once.       *)
(*                                                                         *)
(* Nothing serialises them.  They share the port of the host that leads to *)
(* the guest, the temporary file under which the guest's binary is staged, *)
(* the Lima instance and the table of services, which is emptied when the  *)
(* instance is created anew.  Lima keeps the port an instance was created  *)
(* with, and installs the staged binary whenever the instance boots.       *)
(***************************************************************************)
EXTENDS Naturals, FiniteSets

CONSTANTS
    Proc,         \* handlers that may run at the same time
    Port,         \* ports of the host, without the one runnerd listens on
    FirstPort,    \* AGENT_RUNNER_GUEST_FORWARD_PORT at the beginning
    PrefixOf,     \* pairs of ports: the digits of the first begin those of the second
    Size,         \* function from a version of the bundle to the size of its VM image
    Nobody,       \* no handler
    MaxEvents,    \* how often the VM stops, a port is taken or runnerd starts anew
    Faults        \* what may go wrong: "cancel" (the client leaves), "yaml" (limactl
                  \* refuses the instance's YAML)

ASSUME VMStartAssumption ==
    /\ DOMAIN Size \subseteq Nat \ {0} /\ 1 \in DOMAIN Size
    /\ FirstPort \in Port /\ PrefixOf \subseteq Port \X Port
    /\ Nobody \notin Proc
    /\ MaxEvents \in Nat
    /\ Faults \subseteq {"cancel", "yaml"}

Version == DOMAIN Size

VARIABLES
    req,        \* the handler running in each process: its place, and the sum it works with
    fwd,        \* Config.GuestForwardPort, also in .env.local
    owner,      \* who listens on each port: "nobody", "vm", "other"
    version,    \* of the bundle that runnerd runs from
    asset,      \* version of the VM image in the shared directory, 0 if there is none
    tmp,        \* the temporary file of the staged binary
    staged,     \* the staged binary
    syncSum,    \* Server.guestRunnerSyncSum, 0 if empty
    yaml,       \* the port in the YAML that instances are created from
    vm,         \* the Lima instance: state, forwarded port, installed binary
    table,      \* Server.services is not empty
    inVM,       \* there are containers in the VM
    events,     \* how many there were
    moved,      \* history: since the VM was created its port was taken by another program
    raced,      \* history: ... was held by this very VM, which another handler had started
    invalid,    \* history: the instance was created anew because of its YAML
    cut,        \* history: runnerd was killed after it deleted the VM, before it emptied the table
    torn        \* history: the VM has got a binary that was being written

vars == <<req, fwd, owner, version, asset, tmp, staged, syncSum, yaml, vm, table, inVM, events,
          moved, raced, invalid, cut, torn>>

host == <<fwd, owner, yaml, moved, raced>>
files == <<version, asset, tmp, staged, syncSum>>
guest == <<vm, table, inVM, invalid, cut, torn>>

-----------------------------------------------------------------------------
(* Data                                                                    *)

Place == {"free", "state", "port", "assets", "open", "copy", "rename", "yaml", "start",
          "clear", "create", "sync", "install", "health", "ready"}

\* A file that is written: by is the handler that truncated it last and has
\* not finished; whole is FALSE if it never will.
File == [version: {0} \cup Version, by: Proc \cup {Nobody}, whole: BOOLEAN]

NoFile == [version |-> 0, by |-> Nobody, whole |-> TRUE]

Whole(file) == file.version # 0 /\ file.by = Nobody /\ file.whole

Free == [at |-> "free", sum |-> 0]

Instance == [state: {"none", "partial", "stopped", "running"}, port: Port,
             bin: {0} \cup Version, whole: BOOLEAN]

NoInstance == [state |-> "none", port |-> FirstPort, bin |-> 0, whole |-> TRUE]

Goto(p, place) == req' = [req EXCEPT ![p].at = place]

Finish(p) == req' = [req EXCEPT ![p] = Free]

Event == events < MaxEvents /\ events' = events + 1

\* The ports once the VM no longer listens.
Closed == [x \in Port |-> IF owner[x] = "vm" THEN "nobody" ELSE owner[x]]

-----------------------------------------------------------------------------
(* ensureVMRunning                                                         *)

Begin(p) ==
    /\ req[p] = Free
    /\ Goto(p, "state")
    /\ UNCHANGED <<host, files, guest, events>>

\* limaInstanceState: only an instance that does not run has its port checked.
ReadState(p) ==
    /\ req[p].at = "state"
    /\ Goto(p, IF vm.state = "running" THEN "assets" ELSE "port")
    /\ UNCHANGED <<host, files, guest, events>>

\* ensureGuestForwardPortAvailable, some time after the state was read.
CheckPort(p) ==
    /\ req[p].at = "port"
    /\ \/ /\ owner[fwd] = "nobody"
          /\ UNCHANGED <<fwd, moved, raced>>
       \/ /\ owner[fwd] # "nobody"
          /\ \E x \in Port : owner[x] = "nobody" /\ fwd' = x
          /\ moved' = (moved \/ owner[fwd] = "other")
          /\ raced' = (raced \/ owner[fwd] = "vm")
    /\ Goto(p, "assets")
    /\ UNCHANGED <<owner, yaml, files, guest, events>>

\* copyFileIfNeeded: a file of the same size is taken for the same file.
PrepareAssets(p) ==
    /\ req[p].at = "assets"
    /\ asset' = IF asset = 0 \/ Size[asset] # Size[version] THEN version ELSE asset
    /\ Goto(p, "open")
    /\ UNCHANGED <<host, version, tmp, staged, syncSum, guest, events>>

\* copyExecutableFile: every handler truncates and writes the same file ...
OpenTmp(p) ==
    /\ req[p].at = "open"
    /\ tmp' = [version |-> version, by |-> p, whole |-> FALSE]
    /\ Goto(p, "copy")
    /\ UNCHANGED <<host, version, asset, staged, syncSum, guest, events>>

\* ... and has finished, wherever that file is by now.
FinishCopy(p) ==
    LET done(file) == IF file.by = p THEN [file EXCEPT !.by = Nobody, !.whole = TRUE] ELSE file IN
    /\ req[p].at = "copy"
    /\ tmp' = done(tmp) /\ staged' = done(staged)
    /\ Goto(p, "rename")
    /\ UNCHANGED <<host, version, asset, syncSum, guest, events>>

\* The file may be gone, or belong to a handler that still writes it.
RenameTmp(p) ==
    /\ req[p].at = "rename"
    /\ IF tmp = NoFile THEN Finish(p) /\ UNCHANGED <<tmp, staged>>
       ELSE staged' = tmp /\ tmp' = NoFile /\ Goto(p, "yaml")
    /\ UNCHANGED <<host, version, asset, syncSum, guest, events>>

WriteYAML(p) ==
    /\ req[p].at = "yaml"
    /\ yaml' = fwd
    /\ Goto(p, "start")
    /\ UNCHANGED <<fwd, owner, moved, raced, files, guest, events>>

\* needsRecreateForGuestChannel looks for the text "hostPort: <port>" in the
\* instance's YAML.
NeedsRecreate == vm.port # fwd /\ <<fwd, vm.port>> \notin PrefixOf

\* limactl start of an instance with this port: it boots, installs the staged
\* binary, and listens on the port if it can.
Boot(port) ==
    /\ vm' = [state |-> "running", port |-> port, bin |-> staged.version, whole |-> Whole(staged)]
    /\ owner' = IF owner[port] = "nobody" THEN [owner EXCEPT ![port] = "vm"] ELSE owner
    /\ torn' = (torn \/ ~Whole(staged))

\* limactl delete -f
DeleteInstance == vm' = NoInstance /\ inVM' = FALSE /\ owner' = Closed

\* No instance, or one without lima.yaml: it is created.
StartNone(p) ==
    /\ req[p].at = "start"
    /\ vm.state \in {"none", "partial"}
    /\ vm' = NoInstance
    /\ Goto(p, "create")
    /\ UNCHANGED <<host, files, table, inVM, invalid, cut, torn, events>>

\* Faulty variant of StartChanged: the table is not emptied.
StartChanged_KeepsTable(p) ==
    /\ req[p].at = "start"
    /\ vm.state \in {"stopped", "running"} /\ NeedsRecreate
    /\ DeleteInstance
    /\ Goto(p, "create")
    /\ UNCHANGED <<fwd, yaml, moved, raced, files, table, invalid, cut, torn, events>>

\* The port has changed: the instance is deleted, running or not.
StartChanged(p) ==
    /\ req[p].at = "start"
    /\ vm.state \in {"stopped", "running"} /\ NeedsRecreate
    /\ DeleteInstance
    /\ Goto(p, "clear")
    /\ UNCHANGED <<fwd, yaml, moved, raced, files, table, invalid, cut, torn, events>>

\* limactl start of what is there; it does nothing to a running instance.
StartExisting(p) ==
    /\ req[p].at = "start"
    /\ vm.state \in {"stopped", "running"} /\ ~NeedsRecreate
    /\ \/ /\ IF vm.state = "stopped" THEN Boot(vm.port) ELSE UNCHANGED <<vm, owner, torn>>
          /\ Goto(p, "sync")
          /\ UNCHANGED <<inVM, invalid>>
       \/ /\ "yaml" \in Faults /\ vm.state = "stopped"
          /\ DeleteInstance
          /\ invalid' = TRUE
          /\ Goto(p, "create")
          /\ UNCHANGED torn
    /\ UNCHANGED <<fwd, yaml, moved, raced, files, table, cut, events>>

\* clear(s.services), under the lock, after limactl delete has returned.
ClearTable(p) ==
    /\ req[p].at = "clear"
    /\ table' = FALSE
    /\ Goto(p, "create")
    /\ UNCHANGED <<host, files, vm, inVM, invalid, cut, torn, events>>

\* The reasons to create the VM anew are gone once it has the right port.
Settled ==
    /\ moved' = (moved /\ yaml # fwd)
    /\ raced' = (raced /\ yaml # fwd)

\* limactl start --name: fails if another handler has created the instance, or
\* if the image in the shared directory is not the one with this digest; a
\* client that leaves stops it half way.
CreateInstance(p) ==
    /\ req[p].at = "create"
    /\ \/ /\ vm.state = "none" /\ asset = version
          /\ Boot(yaml)
          /\ Settled
          /\ Goto(p, "sync")
       \/ /\ vm.state # "none" \/ asset # version
          /\ Finish(p)
          /\ UNCHANGED <<vm, owner, moved, raced, torn>>
       \/ /\ "cancel" \in Faults /\ vm.state = "none"
          /\ vm' = [NoInstance EXCEPT !.state = "partial"]
          /\ Finish(p)
          /\ UNCHANGED <<owner, moved, raced, torn>>
    /\ UNCHANGED <<fwd, yaml, files, table, inVM, invalid, cut, events>>

-----------------------------------------------------------------------------
(* syncGuestRunnerBinary and waitForGuestHealth                            *)

Installed == vm.state = "running" /\ vm.whole /\ vm.bin = staged.version /\ Whole(staged)

Syncing == \E p \in Proc : req[p].at = "install"

\* Faulty variant of Sync: guestRunnerSyncMu is not taken.
Sync_Unlocked(p) ==
    LET known == Whole(staged) /\ syncSum = staged.version IN
    /\ req[p].at = "sync"
    /\ IF known \/ Installed
       THEN Goto(p, "health") /\ syncSum' = staged.version
       ELSE /\ req' = [req EXCEPT ![p] = [at |-> "install",
                          sum |-> IF Whole(staged) THEN staged.version ELSE 0]]
            /\ UNCHANGED syncSum
    /\ UNCHANGED <<host, version, asset, tmp, staged, guest, events>>

\* Faulty variant of Sync: any binary in the VM will do.
Sync_Any(p) ==
    LET known == Whole(staged) /\ syncSum = staged.version IN
    /\ req[p].at = "sync" /\ ~Syncing
    /\ UNCHANGED syncSum
    /\ IF known \/ vm.bin # 0
       THEN Goto(p, "health")
       ELSE req' = [req EXCEPT ![p] = [at |-> "install",
                          sum |-> IF Whole(staged) THEN staged.version ELSE 0]]
    /\ UNCHANGED <<host, version, asset, tmp, staged, guest, events>>

\* Under guestRunnerSyncMu: nothing to do if the sum is that of the last time,
\* or that of the guest's binary.
Sync(p) ==
    LET known == Whole(staged) /\ syncSum = staged.version IN
    /\ req[p].at = "sync" /\ ~Syncing
    /\ IF known \/ Installed
       THEN Goto(p, "health") /\ syncSum' = staged.version
       ELSE /\ req' = [req EXCEPT ![p] = [at |-> "install",
                          sum |-> IF Whole(staged) THEN staged.version ELSE 0]]
            /\ UNCHANGED syncSum
    /\ UNCHANGED <<host, version, asset, tmp, staged, guest, events>>

\* The staged binary is installed as it is by now, and the sum read again.
Install(p) ==
    /\ req[p].at = "install"
    /\ IF vm.state # "running" THEN UNCHANGED <<vm, torn>>
       ELSE /\ vm' = [vm EXCEPT !.bin = staged.version, !.whole = Whole(staged)]
            /\ torn' = (torn \/ ~Whole(staged))
    /\ IF vm.state = "running" /\ Whole(staged) /\ req[p].sum = staged.version
       THEN req' = [req EXCEPT ![p] = [at |-> "health", sum |-> 0]] /\ syncSum' = staged.version
       ELSE Finish(p) /\ UNCHANGED syncSum
    /\ UNCHANGED <<host, version, asset, tmp, staged, table, inVM, invalid, cut, events>>

Healthy == vm.state = "running" /\ vm.whole /\ vm.bin # 0 /\ vm.port = fwd /\ owner[fwd] = "vm"

\* The guest answers, or five minutes pass.
WaitHealth(p) ==
    /\ req[p].at = "health"
    /\ IF Healthy THEN Goto(p, "ready") ELSE Finish(p)
    /\ UNCHANGED <<host, files, guest, events>>

\* What the handler wanted the guest for; here, to create a service.
Use(p) ==
    /\ req[p].at = "ready"
    /\ Finish(p)
    /\ IF Healthy THEN table' = TRUE /\ inVM' = TRUE ELSE UNCHANGED <<table, inVM>>
    /\ UNCHANGED <<host, files, vm, invalid, cut, torn, events>>

-----------------------------------------------------------------------------
(* The surroundings                                                        *)

StopVM ==
    /\ Event
    /\ vm.state = "running"
    /\ vm' = [vm EXCEPT !.state = "stopped"]
    /\ owner' = Closed
    /\ UNCHANGED <<req, fwd, yaml, moved, raced, files, table, inVM, invalid, cut, torn>>

TakePort(x) ==
    /\ Event
    /\ owner[x] = "nobody"
    /\ owner' = [owner EXCEPT ![x] = "other"]
    /\ UNCHANGED <<req, fwd, yaml, moved, raced, files, guest>>

\* Faulty variant of RestartDaemon: the port was not written to .env.local.
RestartDaemon_ForgetsPort ==
    LET left(file) == [file EXCEPT !.by = Nobody] IN
    /\ Event
    /\ req' = [p \in Proc |-> Free]
    /\ version' \in {version, version + 1} \cap Version
    /\ syncSum' = 0
    /\ tmp' = left(tmp) /\ staged' = left(staged)
    /\ cut' = (cut \/ \E p \in Proc : req[p].at = "clear")
    /\ fwd' = FirstPort
    /\ UNCHANGED <<owner, yaml, moved, raced, asset, vm, table, inVM, invalid, torn>>

\* runnerd is killed and started again, perhaps from a newer bundle: files
\* that were being written stay as they are.
RestartDaemon ==
    LET left(file) == [file EXCEPT !.by = Nobody] IN
    /\ Event
    /\ req' = [p \in Proc |-> Free]
    /\ version' \in {version, version + 1} \cap Version
    /\ syncSum' = 0
    /\ tmp' = left(tmp) /\ staged' = left(staged)
    /\ cut' = (cut \/ \E p \in Proc : req[p].at = "clear")
    /\ UNCHANGED <<host, asset, vm, table, inVM, invalid, torn>>

-----------------------------------------------------------------------------
Init ==
    /\ req = [p \in Proc |-> Free]
    /\ fwd = FirstPort /\ yaml = FirstPort
    /\ owner = [x \in Port |-> "nobody"]
    /\ version = 1 /\ asset = 0
    /\ tmp = NoFile /\ staged = NoFile /\ syncSum = 0
    /\ vm = NoInstance
    /\ table = FALSE /\ inVM = FALSE
    /\ events = 0
    /\ moved = FALSE /\ raced = FALSE /\ invalid = FALSE /\ cut = FALSE /\ torn = FALSE

Handle(p) ==
    \/ ReadState(p) \/ CheckPort(p) \/ PrepareAssets(p)
    \/ OpenTmp(p) \/ FinishCopy(p) \/ RenameTmp(p) \/ WriteYAML(p)
    \/ StartNone(p) \/ StartChanged(p) \/ StartExisting(p) \/ ClearTable(p) \/ CreateInstance(p)
    \/ Sync(p) \/ Install(p) \/ WaitHealth(p) \/ Use(p)

Next ==
    \/ \E p \in Proc : Begin(p) \/ Handle(p)
    \/ StopVM \/ RestartDaemon
    \/ \E x \in Port : TakePort(x)

Spec == Init /\ [][Next]_vars

-----------------------------------------------------------------------------
(* Properties                                                              *)

\* Every variable has its type, and one handler at a time is in the section of
\* guestRunnerSyncMu that installs a binary.
TypeOK ==
    /\ \A p, q \in Proc : req[p].at = "install" /\ req[q].at = "install" => p = q
    /\ req \in [Proc -> [at: Place, sum: {0} \cup Version]]
    /\ fwd \in Port /\ yaml \in Port
    /\ owner \in [Port -> {"nobody", "vm", "other"}]
    /\ version \in Version /\ asset \in {0} \cup Version
    /\ tmp \in File /\ staged \in File
    /\ syncSum \in {0} \cup Version
    /\ vm \in Instance
    /\ table \in BOOLEAN /\ inVM \in BOOLEAN
    /\ events \in 0 .. MaxEvents
    /\ {moved, raced, invalid, cut, torn} \subseteq BOOLEAN

\* The containers in the VM are lost only if another program had taken the
\* port that leads to it since the VM was created, or limactl refused the
\* instance's YAML; the case in which a handler took the VM just started by
\* another one for such a program is named by raced.  A stop of the VM or a
\* restart of runnerd, whatever its version and however many handlers wait for
\* the guest, loses nothing.
ServicesSurvive == [][inVM /\ ~inVM' => moved \/ raced \/ invalid']_vars

\* The table never tells of services whose containers went with the VM, once
\* the handler that deleted the VM has got to it; except after the YAML was
\* refused, when the table is left as it is, and if runnerd was killed before
\* the handler got to it.
TableIsTrue ==
    table /\ ~inVM => invalid \/ cut \/ \E p \in Proc : req[p].at = "clear"

\* The guest is not left behind by an update: a handler that gets to the guest
\* gets to the one that this runnerd staged, and the cached sum that lets a
\* handler skip the look into the VM tells what the VM has, through stops,
\* deletions and updates.  Excepted is a VM that got a binary which a second
\* handler was writing.
GuestIsUpToDate ==
    vm.state = "running" /\ ~torn =>
        /\ syncSum # 0 => vm.whole /\ vm.bin = syncSum
        /\ \A p \in Proc : req[p].at = "ready" => vm.bin = version
=============================================================================
