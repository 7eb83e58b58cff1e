------------------------------- MODULE Tunnels -------------------------------
(***************************************************************************)
(* Host-to-guest tunnels (internal/runnerd/tunnels.go, ssh_tunnel.go): the  *)
(* table of tunnels and its index by host port, the handlers that create,  *)
(* list, look up and delete tunnels, the ssh process behind every tunnel   *)
(* and the goroutine that watches it.                                      *)
(*                                                                         *)
(* One action is one critical section under Server.mu, one remote call, or *)
(* one step of an ssh process.  A create that finds a live tunnel for its  *)
(* host port answers with that tunnel and changes nothing, as does a look  *)
(* up that finds one: neither needs an action.                             *)
(***************************************************************************)
EXTENDS Naturals, FiniteSets

CONSTANTS
    Id,        \* tunnel ids; newID draws each of them at most once
    HostPort,
    GuestPort,
    Proc,      \* request handlers that may run at the same time
    NoTunnel,  \* stands for no tunnel id
    NoPort,    \* stands for no port, and for guest_port 0: the guest chooses
    Faults     \* what may go wrong: the guest is not ready, ssh exits

ASSUME TunnelsAssumption ==
    /\ NoTunnel \notin Id
    /\ NoPort \notin HostPort \cup GuestPort
    /\ Faults \subseteq {"guest", "ssh"}

VARIABLES
    tunnels,           \* the keys of Server.tunnels
    tunnelByHostPort,  \* Server.tunnelByHostPort
    entry,             \* the tunnelEntry made for each id, in the table or not
    ssh,               \* the ssh process of each id; cancel and done are seen here
    watching,          \* ids whose watcher goroutine has not ended
    req,               \* the handler running in each process
    deleted            \* history: ids whose DELETE answers deleted:true

vars == <<tunnels, tunnelByHostPort, entry, ssh, watching, req, deleted>>

-----------------------------------------------------------------------------
(* Data                                                                    *)

Entry == [host: HostPort, guest: GuestPort]

NoEntry == [host |-> NoPort, guest |-> NoPort]

\* "cancelled": cancel() was called and the process has not ended yet.
SshStates == {"none", "starting", "up", "cancelled", "exited"}

Request == [at: {"free", "ensure", "start", "window", "cancel"},
            id: Id \cup {NoTunnel},
            host: HostPort \cup {NoPort},
            guest: GuestPort \cup {NoPort}]

Free == [at |-> "free", id |-> NoTunnel, host |-> NoPort, guest |-> NoPort]

\* The channel done is closed.
Done(id) == ssh[id] = "exited"

\* Ports that ssh processes listen on in the guest.
Taken == {entry[id].guest : id \in {i \in Id : ssh[i] \in {"up", "cancelled"}}}

\* The table has a live tunnel for this host port.
Live(h) == tunnelByHostPort[h] \in tunnels /\ ~Done(tunnelByHostPort[h])

-----------------------------------------------------------------------------
(* Shared steps                                                            *)

\* Entries leave the table, and the index where it points at them.
Forget(ids) ==
    /\ tunnels' = tunnels \ ids
    /\ tunnelByHostPort' = [h \in HostPort |->
          IF tunnelByHostPort[h] \in ids THEN NoTunnel ELSE tunnelByHostPort[h]]

Finish(p) == req' = [req EXCEPT ![p] = Free]

Goto(p, place) == req' = [req EXCEPT ![p].at = place]

-----------------------------------------------------------------------------
(* POST /v1/tunnels                                                        *)

\* First critical section: a dead tunnel of this host port is cleared away.
BeginCreate(p, h, g) ==
    /\ req[p] = Free
    /\ ~Live(h)
    /\ Forget({tunnelByHostPort[h]})
    /\ \E id \in Id :
          /\ ssh[id] = "none" /\ \A q \in Proc : req[q].id # id
          /\ req' = [req EXCEPT ![p] = [at |-> "ensure", id |-> id, host |-> h, guest |-> g]]
    /\ UNCHANGED <<entry, ssh, watching, deleted>>

\* Faulty variant of EnsureReady: the guest's port is not taken over.
EnsureReady_KeepsZero(p) ==
    /\ req[p].at = "ensure"
    /\ Goto(p, "start")
    /\ UNCHANGED <<tunnels, tunnelByHostPort, entry, ssh, watching, deleted>>

\* ensureGuestReady, and /internal/ports/free if the request named no port:
\* the answer is free at this moment only.
EnsureReady(p) ==
    /\ req[p].at = "ensure"
    /\ \E g \in IF req[p].guest = NoPort THEN GuestPort \ Taken ELSE {req[p].guest} :
          req' = [req EXCEPT ![p] = [@ EXCEPT !.at = "start", !.guest = g]]
    /\ UNCHANGED <<tunnels, tunnelByHostPort, entry, ssh, watching, deleted>>

EnsureFails(p) ==
    /\ req[p].at = "ensure"
    /\ "guest" \in Faults
    /\ Finish(p)
    /\ UNCHANGED <<tunnels, tunnelByHostPort, entry, ssh, watching, deleted>>

\* cmd.Start in startReverseSSHTunnel, which then waits for 250 ms.
StartSSH(p) ==
    LET id == req[p].id IN
    /\ req[p].at = "start"
    /\ ssh' = [ssh EXCEPT ![id] = "starting"]
    /\ entry' = [entry EXCEPT ![id] = [host |-> req[p].host, guest |-> req[p].guest]]
    /\ Goto(p, "window")
    /\ UNCHANGED <<tunnels, tunnelByHostPort, watching, deleted>>

\* TUNNEL_FAILED: ssh has exited before the 250 ms are over.
ExitsEarly(p) ==
    /\ req[p].at = "window"
    /\ Done(req[p].id)
    /\ Finish(p)
    /\ UNCHANGED <<tunnels, tunnelByHostPort, entry, ssh, watching, deleted>>

\* Faulty variant of Register: the entry it displaces stays in the table.
Register_KeepsOld(p) ==
    LET id == req[p].id IN
    /\ req[p].at = "window"
    /\ tunnels' = tunnels \cup {id}
    /\ tunnelByHostPort' = [tunnelByHostPort EXCEPT ![req[p].host] = id]
    /\ watching' = watching \cup {id}
    /\ Finish(p)
    /\ UNCHANGED <<entry, ssh, deleted>>

\* Second critical section, and the watcher is started.  ssh may still be
\* starting, or exit at this very moment.  A tunnel that another create has
\* registered meanwhile leaves the table; nobody cancels it.
Register(p) ==
    LET id == req[p].id IN
    /\ req[p].at = "window"
    /\ tunnels' = (tunnels \ {tunnelByHostPort[req[p].host]}) \cup {id}
    /\ tunnelByHostPort' = [tunnelByHostPort EXCEPT ![req[p].host] = id]
    /\ watching' = watching \cup {id}
    /\ Finish(p)
    /\ UNCHANGED <<entry, ssh, deleted>>

-----------------------------------------------------------------------------
(* Listing, looking up, deleting                                           *)

\* GET /v1/tunnels drops every dead entry.
List ==
    /\ Forget({id \in tunnels : Done(id)})
    /\ UNCHANGED <<entry, ssh, watching, req, deleted>>

\* findRunningTunnelByHostPortLocked drops the dead entry it finds.
LookUp(h) ==
    /\ tunnelByHostPort[h] # NoTunnel
    /\ ~Live(h)
    /\ Forget({tunnelByHostPort[h]})
    /\ UNCHANGED <<entry, ssh, watching, req, deleted>>

\* deleteTunnelLocked; its caller cancels after it has unlocked.
DeleteLocked(p, id) ==
    /\ req[p] = Free
    /\ Forget({id})
    /\ deleted' = deleted \cup {id}
    /\ req' = [req EXCEPT ![p] = [Free EXCEPT !.at = "cancel", !.id = id]]
    /\ UNCHANGED <<entry, ssh, watching>>

Delete(p, id) == id \in tunnels /\ DeleteLocked(p, id)

DeleteByHostPort(p, h) == Live(h) /\ DeleteLocked(p, tunnelByHostPort[h])

\* Faulty variant of Cancel: the context is not cancelled.
Cancel_Forgotten(p) ==
    /\ req[p].at = "cancel"
    /\ Finish(p)
    /\ UNCHANGED <<tunnels, tunnelByHostPort, entry, ssh, watching, deleted>>

\* cancel() kills the process if there is still one.
Cancel(p) ==
    LET id == req[p].id IN
    /\ req[p].at = "cancel"
    /\ ssh' = IF Done(id) THEN ssh ELSE [ssh EXCEPT ![id] = "cancelled"]
    /\ Finish(p)
    /\ UNCHANGED <<tunnels, tunnelByHostPort, entry, watching, deleted>>

-----------------------------------------------------------------------------
(* ssh and the watchers                                                    *)

\* sshd listens for it.
SshBinds(id) ==
    /\ ssh[id] = "starting"
    /\ entry[id].guest \notin Taken
    /\ ssh' = [ssh EXCEPT ![id] = "up"]
    /\ UNCHANGED <<tunnels, tunnelByHostPort, entry, watching, req, deleted>>

\* ExitOnForwardFailure, a kill, or a connection that breaks.
SshMustExit(id) ==
    \/ ssh[id] = "cancelled"
    \/ ssh[id] = "starting" /\ entry[id].guest \in Taken

SshExits(id) ==
    /\ SshMustExit(id) \/ ("ssh" \in Faults /\ ssh[id] \in {"starting", "up"})
    /\ ssh' = [ssh EXCEPT ![id] = "exited"]
    /\ UNCHANGED <<tunnels, tunnelByHostPort, entry, watching, req, deleted>>

\* Faulty variants of Watch: the tunnel of the host port goes, whosever it is;
\* and the entry stays in the table.
Watch_Blind(id) ==
    /\ id \in watching
    /\ Done(id)
    /\ watching' = watching \ {id}
    /\ Forget({id, tunnelByHostPort[entry[id].host]})
    /\ UNCHANGED <<entry, ssh, req, deleted>>

Watch_KeepsEntry(id) ==
    /\ id \in watching
    /\ Done(id)
    /\ watching' = watching \ {id}
    /\ UNCHANGED <<tunnels, tunnelByHostPort, entry, ssh, req, deleted>>

\* The watcher removes its own entry if that is still in the table.
Watch(id) ==
    /\ id \in watching
    /\ Done(id)
    /\ watching' = watching \ {id}
    /\ IF id \in tunnels THEN Forget({id}) ELSE UNCHANGED <<tunnels, tunnelByHostPort>>
    /\ UNCHANGED <<entry, ssh, req, deleted>>

-----------------------------------------------------------------------------
(* The specification                                                       *)

Init ==
    /\ tunnels = {}
    /\ tunnelByHostPort = [h \in HostPort |-> NoTunnel]
    /\ entry = [id \in Id |-> NoEntry]
    /\ ssh = [id \in Id |-> "none"]
    /\ watching = {}
    /\ req = [p \in Proc |-> Free]
    /\ deleted = {}

Begin(p) ==
    \/ \E h \in HostPort, g \in GuestPort \cup {NoPort} : BeginCreate(p, h, g)
    \/ \E id \in Id : Delete(p, id)
    \/ \E h \in HostPort : DeleteByHostPort(p, h)

Handle(p) ==
    \/ EnsureReady(p)
    \/ EnsureFails(p)
    \/ StartSSH(p)
    \/ ExitsEarly(p)
    \/ Register(p)
    \/ Cancel(p)

Ssh(id) ==
    \/ SshBinds(id)
    \/ SshExits(id)

Next ==
    \/ \E p \in Proc : Begin(p) \/ Handle(p)
    \/ List
    \/ \E h \in HostPort : LookUp(h)
    \/ \E id \in Id : Ssh(id) \/ Watch(id)

Spec == Init /\ [][Next]_vars

\* Handlers run on, watchers wake up when done is closed, and a process that
\* was killed, or that cannot listen, ends.
Fairness ==
    /\ \A p \in Proc : WF_vars(Cancel(p))
    /\ \A id \in Id : WF_vars(Watch(id)) /\ WF_vars(SshMustExit(id) /\ SshExits(id))

FairSpec == Spec /\ Fairness

-----------------------------------------------------------------------------
(* Properties                                                              *)

\* Every variable keeps its type, and a handler past newID has its id and port.
TypeOK ==
    /\ tunnels \subseteq Id
    /\ tunnelByHostPort \in [HostPort -> Id \cup {NoTunnel}]
    /\ entry \in [Id -> Entry \cup {NoEntry}]
    /\ ssh \in [Id -> SshStates]
    /\ watching \subseteq Id
    /\ req \in [Proc -> Request]
    /\ \A p \in Proc :
          /\ req[p].at # "free" => req[p].id \in Id
          /\ req[p].at \in {"ensure", "start", "window"} => req[p].host \in HostPort
          /\ req[p].at \in {"start", "window"} => req[p].guest \in GuestPort
    /\ deleted \subseteq Id

\* The table and its index are inverse to each other after every critical
\* section, whatever creates, deletes, look ups and dying processes interleave:
\* so every tunnel that GET lists can be found and deleted by its host port,
\* and no host port leads to a tunnel that is not there.
IndexMatches ==
    /\ \A h \in HostPort : tunnelByHostPort[h] # NoTunnel =>
          tunnelByHostPort[h] \in tunnels /\ entry[tunnelByHostPort[h]].host = h
    /\ \A id \in tunnels : entry[id] # NoEntry /\ tunnelByHostPort[entry[id].host] = id

\* The watcher and the pruning of a dead tunnel never unregister its successor:
\* a host port gives up a live tunnel only to a DELETE or to a newer tunnel.
LiveStaysIndexed ==
    [][\A h \in HostPort :
          Live(h) => \/ tunnelByHostPort'[h] # NoTunnel
                     \/ tunnelByHostPort[h] \in deleted']_vars

\* A dead tunnel does not stay in the table, even when nobody lists it.
DeadTunnelsLeave == \A id \in Id : id \in tunnels /\ Done(id) ~> id \notin tunnels

\* A DELETE that answered really ends the ssh process behind the tunnel.
DeletedTunnelsEnd == \A id \in Id : id \in deleted ~> Done(id)

\* Creation is idempotent per host_port (the comment in NewServer on
\* tunnelByHostPort): once the creates have answered, one host port is served
\* by one ssh process.
OneTunnelPerHostPort ==
    \A i, j \in Id :
        /\ ssh[i] = "up" /\ ssh[j] = "up"
        /\ entry[i].host = entry[j].host
        /\ \A p \in Proc : req[p].id \notin {i, j}
        => i = j

=============================================================================
