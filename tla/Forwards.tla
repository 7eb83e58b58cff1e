------------------------------ MODULE Forwards ------------------------------
(***************************************************************************)
(* Guest-to-host port forwards (internal/runnerd/forwards.go,              *)
(* ssh_tunnel.go, ssh_cleanup.go): the table of forwards and its index by  *)
(* guest port, the ssh process behind every forward, the goroutine that    *)
(* waits for it, and what a crash of runnerd leaves to the next start.     *)
(*                                                                         *)
(* A process that has ended and that nobody has waited for still takes     *)
(* signals, and that is how the code tells whether it lives: "ended" and   *)
(* "reaped" are different states here.                                     *)
(***************************************************************************)
EXTENDS Naturals, FiniteSets

CONSTANTS
    Id,         \* forward ids: numbers, drawn in order, for they are only compared
    HostPort,
    GuestPort,
    Proc,       \* request handlers that may run at the same time
    None,       \* stands for no id, and for the port 0 of a request
    MaxCrashes, \* how often runnerd may crash
    Faults      \* what may go wrong: "ssh" (exits by itself), "guest" (not ready),
                \* "id" (newID has no randomness)

ASSUME ForwardsAssumption ==
    /\ Id \subseteq Nat
    /\ None \notin Id \cup HostPort \cup GuestPort
    /\ MaxCrashes \in Nat
    /\ Faults \subseteq {"ssh", "guest", "id"}

VARIABLES
    forwards,           \* the keys of Server.forwards
    forwardByGuestPort, \* Server.forwardByGuestPort
    entry,              \* the ports of each forward, in the table or not
    ssh,                \* the ssh process of each forward
    watching,           \* ids whose goroutine has not ended
    req,                \* the handler running in each process
    booting,            \* runnerd has started and not yet cleaned up
    crashes,            \* how many there were
    deleted,            \* history: ids whose DELETE answers deleted:true
    overtaken           \* history: ids whose guest port was registered anew by a
                        \* create that had looked before the first was registered

vars == <<forwards, forwardByGuestPort, entry, ssh, watching, req, booting, crashes, deleted,
          overtaken>>

tables == <<forwards, forwardByGuestPort>>
daemon == <<booting, crashes>>

-----------------------------------------------------------------------------
(* Data                                                                    *)

Entry == [host: HostPort, guest: GuestPort]

NoEntry == [host |-> None, guest |-> None]

SshStates == {"none", "starting", "up", "ended", "reaped"}

Request == [at: {"free", "ensure", "check", "start", "window", "kill"},
            id: Id \cup {None}, host: HostPort \cup {None}, guest: GuestPort \cup {None}]

Free == [at |-> "free", id |-> None, host |-> None, guest |-> None]

Alive == {id \in Id : ssh[id] \in {"starting", "up"}}

Bound == {entry[id].host : id \in {i \in Id : ssh[i] = "up"}}

\* isProcessRunningForward: signal 0 reaches a process until it is reaped.
Running(id) == ssh[id] \notin {"none", "reaped"}

\* Ids that newID has not answered, to a handler that still runs or to one
\* that started ssh.
Fresh == {id \in Id : entry[id] = NoEntry /\ \A p \in Proc : req[p].id # id}

-----------------------------------------------------------------------------
(* Shared steps                                                            *)

Goto(p, place) == req' = [req EXCEPT ![p].at = place]

Finish(p) == req' = [req EXCEPT ![p] = Free]

Kill(id) == ssh' = [ssh EXCEPT ![id] = IF id \in Alive THEN "ended" ELSE @]

\* An entry leaves the table, and the index if it points at it.
Forget(id) ==
    /\ forwards' = forwards \ {id}
    /\ forwardByGuestPort' = [g \in GuestPort |->
          IF forwardByGuestPort[g] = id THEN None ELSE forwardByGuestPort[g]]

-----------------------------------------------------------------------------
(* POST /v1/forwards                                                       *)

BeginCreate(p, h, g) ==
    /\ req[p] = Free /\ ~booting
    /\ \E id \in Fresh :
          /\ \A i \in Fresh : id <= i
          /\ req' = [req EXCEPT ![p] = [at |-> IF g = None THEN "ensure" ELSE "check",
                                        id |-> id, host |-> h, guest |-> g]]
    /\ UNCHANGED <<tables, entry, ssh, watching, daemon, deleted, overtaken>>

\* ensureGuestReady and /internal/ports/free.  A forward binds nothing in the
\* guest: the port of an earlier one may be answered again.
EnsureReady(p) ==
    /\ req[p].at = "ensure"
    /\ \/ \E g \in GuestPort :
             req' = [req EXCEPT ![p] = [@ EXCEPT !.at = "check", !.guest = g]]
       \/ "guest" \in Faults /\ Finish(p)
    /\ UNCHANGED <<tables, entry, ssh, watching, daemon, deleted, overtaken>>

\* The first critical section: a forward whose process runs is the answer, one
\* whose process does not is dropped.
Check(p) ==
    LET id == forwardByGuestPort[req[p].guest] IN
    /\ req[p].at = "check"
    /\ IF id \in forwards /\ Running(id)
       THEN Finish(p) /\ UNCHANGED tables
       ELSE /\ Goto(p, "start")
            /\ IF id = None THEN UNCHANGED tables ELSE Forget(id)
    /\ UNCHANGED <<entry, ssh, watching, daemon, deleted, overtaken>>

\* pickFreeLocalPort, free at this moment only, and cmd.Start.
StartSSH(p) ==
    /\ req[p].at = "start"
    /\ \/ \E h \in IF req[p].host = None THEN HostPort \ Bound ELSE {req[p].host} :
             /\ entry' = [entry EXCEPT ![req[p].id] = [host |-> h, guest |-> req[p].guest]]
             /\ ssh' = [ssh EXCEPT ![req[p].id] = "starting"]
             /\ req' = [req EXCEPT ![p] = [@ EXCEPT !.at = "window", !.host = h]]
       \/ /\ "guest" \in Faults
          /\ Finish(p)
          /\ UNCHANGED <<entry, ssh>>
    /\ UNCHANGED <<tables, watching, daemon, deleted, overtaken>>

\* Faulty variant of Register: what the index pointed at is dropped.
Register_DropsOlder(p) ==
    LET id == req[p].id
        g == req[p].guest IN
    /\ req[p].at = "window"
    /\ forwards' = (forwards \ {forwardByGuestPort[g]}) \cup {id}
    /\ forwardByGuestPort' = [forwardByGuestPort EXCEPT ![g] = id]
    /\ overtaken' = overtaken \cup ({forwardByGuestPort[g]} \ {None})
    /\ watching' = watching \cup {id}
    /\ Finish(p)
    /\ UNCHANGED <<entry, ssh, daemon, deleted>>

\* After 250 ms signal 0 reaches the process in any case, for nobody has waited
\* for it: it is registered, also if it has ended.
Register(p) ==
    LET id == req[p].id
        g == req[p].guest IN
    /\ req[p].at = "window"
    /\ forwards' = forwards \cup {id}
    /\ forwardByGuestPort' = [forwardByGuestPort EXCEPT ![g] = id]
    /\ overtaken' = overtaken \cup ({forwardByGuestPort[g]} \ {None})
    /\ watching' = watching \cup {id}
    /\ Finish(p)
    /\ UNCHANGED <<entry, ssh, daemon, deleted>>

IDFails(p) ==
    /\ req[p].at = "window" /\ "id" \in Faults
    /\ Kill(req[p].id)
    /\ Finish(p)
    /\ UNCHANGED <<tables, entry, watching, daemon, deleted, overtaken>>

-----------------------------------------------------------------------------
(* DELETE /v1/forwards/{forward_id}                                        *)

\* Faulty variant of Delete: the index is not touched.
Delete_KeepsIndex(p, id) ==
    /\ req[p] = Free /\ ~booting
    /\ id \in forwards
    /\ forwards' = forwards \ {id}
    /\ deleted' = deleted \cup {id}
    /\ req' = [req EXCEPT ![p] = [Free EXCEPT !.at = "kill", !.id = id]]
    /\ UNCHANGED <<forwardByGuestPort, entry, ssh, watching, daemon, overtaken>>

Delete(p, id) ==
    /\ req[p] = Free /\ ~booting
    /\ id \in forwards
    /\ Forget(id)
    /\ deleted' = deleted \cup {id}
    /\ req' = [req EXCEPT ![p] = [Free EXCEPT !.at = "kill", !.id = id]]
    /\ UNCHANGED <<entry, ssh, watching, daemon, overtaken>>

KillProcess(p) ==
    /\ req[p].at = "kill"
    /\ Kill(req[p].id)
    /\ Finish(p)
    /\ UNCHANGED <<tables, entry, watching, daemon, deleted, overtaken>>

-----------------------------------------------------------------------------
(* ssh, and the goroutine that waits for it                                *)

\* ssh listens, if nobody else does.
SshBinds(id) ==
    /\ ssh[id] = "starting" /\ entry[id].host \notin Bound
    /\ ssh' = [ssh EXCEPT ![id] = "up"]
    /\ UNCHANGED <<tables, entry, watching, req, daemon, deleted, overtaken>>

\* ExitOnForwardFailure, or the connection broke.
SshEnds(id) ==
    /\ \/ ssh[id] = "starting" /\ entry[id].host \in Bound
       \/ id \in Alive /\ "ssh" \in Faults
    /\ Kill(id)
    /\ UNCHANGED <<tables, entry, watching, req, daemon, deleted, overtaken>>

\* tunnel.Wait returns ...
Reap(id) ==
    /\ id \in watching /\ ssh[id] = "ended"
    /\ ssh' = [ssh EXCEPT ![id] = "reaped"]
    /\ UNCHANGED <<tables, entry, watching, req, daemon, deleted, overtaken>>

\* Faulty variant of Watch: the index is cleared whoever it points at.
Watch_ClearsIndex(id) ==
    /\ id \in watching /\ ssh[id] = "reaped"
    /\ watching' = watching \ {id}
    /\ forwards' = forwards \ {id}
    /\ forwardByGuestPort' = IF id \in forwards
          THEN [forwardByGuestPort EXCEPT ![entry[id].guest] = None] ELSE forwardByGuestPort
    /\ UNCHANGED <<entry, ssh, req, daemon, deleted, overtaken>>

\* Faulty variant of Watch: it leaves the table to the next create.
Watch_Leaves(id) ==
    /\ id \in watching /\ ssh[id] = "reaped"
    /\ watching' = watching \ {id}
    /\ UNCHANGED <<tables, entry, ssh, req, daemon, deleted, overtaken>>

\* ... and under the lock what is still there of the forward is removed.
Watch(id) ==
    /\ id \in watching /\ ssh[id] = "reaped"
    /\ watching' = watching \ {id}
    /\ IF id \in forwards THEN Forget(id) ELSE UNCHANGED tables
    /\ UNCHANGED <<entry, ssh, req, daemon, deleted, overtaken>>

-----------------------------------------------------------------------------
(* A crash and the next start                                              *)

\* The processes go on; those that have ended are reaped by init.
Crash ==
    /\ crashes < MaxCrashes
    /\ crashes' = crashes + 1
    /\ forwards' = {} /\ watching' = {}
    /\ forwardByGuestPort' = [g \in GuestPort |-> None]
    /\ ssh' = [id \in Id |-> IF ssh[id] = "ended" THEN "reaped" ELSE ssh[id]]
    /\ req' = [p \in Proc |-> Free]
    /\ booting' = TRUE
    /\ UNCHANGED <<entry, deleted, overtaken>>

\* cleanupOrphanSSHTunnels, before runnerd serves: every ssh that has the
\* command line of a tunnel of this instance is terminated, then killed.
CleanUp ==
    /\ booting
    /\ ssh' = [id \in Id |-> IF id \in Alive THEN "reaped" ELSE ssh[id]]
    /\ booting' = FALSE
    /\ UNCHANGED <<tables, entry, watching, req, crashes, deleted, overtaken>>

-----------------------------------------------------------------------------
Init ==
    /\ forwards = {} /\ watching = {}
    /\ forwardByGuestPort = [g \in GuestPort |-> None]
    /\ entry = [id \in Id |-> NoEntry]
    /\ ssh = [id \in Id |-> "none"]
    /\ req = [p \in Proc |-> Free]
    /\ booting = TRUE /\ crashes = 0
    /\ deleted = {} /\ overtaken = {}

Begin(p) ==
    \/ \E h \in HostPort \cup {None}, g \in GuestPort \cup {None} : BeginCreate(p, h, g)
    \/ \E id \in Id : Delete(p, id)

Handle(p) ==
    \/ EnsureReady(p) \/ Check(p) \/ StartSSH(p) \/ Register(p) \/ IDFails(p)
    \/ KillProcess(p)

Next ==
    \/ \E p \in Proc : Begin(p) \/ Handle(p)
    \/ \E id \in Id : SshBinds(id) \/ SshEnds(id) \/ Reap(id) \/ Watch(id)
    \/ Crash \/ CleanUp

Spec == Init /\ [][Next]_vars

\* Handlers run on, goroutines wake up, a start gets past its clean-up.
Fairness ==
    /\ \A p \in Proc : WF_vars(KillProcess(p))
    /\ \A id \in Id : WF_vars(Reap(id)) /\ WF_vars(Watch(id))
    /\ WF_vars(CleanUp)

FairSpec == Spec /\ Fairness

-----------------------------------------------------------------------------
(* Properties                                                              *)

\* Every variable has its type, and the index names only forwards in the table
\* that have this guest port.
TypeOK ==
    /\ forwards \subseteq Id /\ watching \subseteq Id
    /\ entry \in [Id -> Entry \cup {NoEntry}]
    /\ ssh \in [Id -> SshStates]
    /\ req \in [Proc -> Request]
    /\ booting \in BOOLEAN /\ crashes \in 0 .. MaxCrashes
    /\ deleted \subseteq Id /\ overtaken \subseteq Id
    /\ DOMAIN forwardByGuestPort = GuestPort
    /\ \A g \in GuestPort : forwardByGuestPort[g] # None =>
          forwardByGuestPort[g] \in forwards /\ entry[forwardByGuestPort[g]].guest = g

\* A forward in the table is the one its guest port leads to, so that the next
\* create finds it: unless a create that had looked before it was registered
\* has put its own in the index.
ForwardIsFound ==
    \A id \in forwards \ overtaken : forwardByGuestPort[entry[id].guest] = id

\* No ssh process of runnerd is out of reach: each is in the table, or belongs
\* to a handler that will register or kill it, or to an earlier runnerd and is
\* about to be cleaned up.
NoStrayProcess ==
    \A id \in Alive : id \in forwards \/ booting \/ \E p \in Proc : req[p].id = id

\* A forward whose process has ended leaves the table, although nobody lists
\* it; and one whose DELETE was answered ends, even if runnerd crashes between
\* the two halves of the DELETE.
DeadAndDeletedEnd ==
    \A id \in Id :
        /\ (id \in forwards /\ ~(id \in Alive)) ~> (id \notin forwards)
        /\ (id \in deleted) ~> (id \notin Alive)
=============================================================================
