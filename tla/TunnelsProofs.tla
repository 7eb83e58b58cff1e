--------------------------- MODULE TunnelsProofs ---------------------------
(***************************************************************************)
(* Proofs about Tunnels, for every set of ids, ports and processes.        *)
(***************************************************************************)
EXTENDS Tunnels, TLAPS

\* What a handler past newID knows.
RequestOK(r) ==
    /\ r.at # "free" => r.id \in Id
    /\ r.at \in {"ensure", "start", "window"} => r.host \in HostPort
    /\ r.at \in {"start", "window"} => r.guest \in GuestPort

-----------------------------------------------------------------------------
(* Type correctness                                                        *)

\* One process gets a new request.
LEMMA SetRequest ==
    ASSUME TypeOK, NEW p \in Proc, NEW r \in Request, RequestOK(r),
           req' = [req EXCEPT ![p] = r]
    PROVE  req' \in [Proc -> Request] /\ \A q \in Proc : RequestOK(req'[q])
  <1>1. req \in [Proc -> Request] /\ \A q \in Proc : RequestOK(req[q])
    BY DEF TypeOK, RequestOK
  <1> QED  BY <1>1

\* Forgetting entries keeps the types of the table and of the index.
LEMMA ForgetType ==
    ASSUME TypeOK, NEW ids, Forget(ids)
    PROVE  /\ tunnels' \subseteq Id
           /\ tunnelByHostPort' \in [HostPort -> Id \cup {NoTunnel}]
  BY DEF TypeOK, Forget

LEMMA FinishType ==
    ASSUME TypeOK, NEW p \in Proc, Finish(p)
    PROVE  req' \in [Proc -> Request] /\ \A q \in Proc : RequestOK(req'[q])
  <1>1. Free \in Request /\ RequestOK(Free)
    BY DEF Free, Request, RequestOK
  <1> QED  BY <1>1, SetRequest DEF Finish

LEMMA BeginType ==
    ASSUME TypeOK, NEW p \in Proc, Begin(p)
    PROVE  TypeOK'
  <1>1. CASE \E h \in HostPort, g \in GuestPort \cup {NoPort} : BeginCreate(p, h, g)
    <2>1. PICK h \in HostPort, g \in GuestPort \cup {NoPort} : BeginCreate(p, h, g)
      BY <1>1
    <2>2. PICK id \in Id : req' = [req EXCEPT ![p] = [at |-> "ensure", id |-> id,
                                                      host |-> h, guest |-> g]]
      BY <2>1 DEF BeginCreate
    <2>3. req' \in [Proc -> Request] /\ \A q \in Proc : RequestOK(req'[q])
      BY <2>2, SetRequest DEF Request, RequestOK
    <2> QED  BY <2>1, <2>3, ForgetType DEF BeginCreate, TypeOK, RequestOK
  <1>2. ASSUME NEW id \in Id, DeleteLocked(p, id)  PROVE TypeOK'
    <2> DEFINE r == [Free EXCEPT !.at = "cancel", !.id = id]
    <2>1. r \in Request /\ RequestOK(r)
      BY DEF Free, Request, RequestOK
    <2>2. req' \in [Proc -> Request] /\ \A q \in Proc : RequestOK(req'[q])
      BY <1>2, <2>1, SetRequest DEF DeleteLocked
    <2> QED  BY <1>2, <2>2, ForgetType DEF DeleteLocked, TypeOK, RequestOK
  <1>3. \A h \in HostPort : Live(h) => tunnelByHostPort[h] \in Id
    BY DEF TypeOK, Live
  <1> QED  BY <1>1, <1>2, <1>3 DEF Begin, Delete, DeleteByHostPort

LEMMA HandleType ==
    ASSUME TypeOK, NEW p \in Proc, Handle(p)
    PROVE  TypeOK'
  <1>1. req \in [Proc -> Request] /\ req[p] \in Request /\ RequestOK(req[p])
    BY DEF TypeOK, RequestOK
  <1>2. CASE EnsureReady(p)
    <2>1. PICK g \in GuestPort \cup {NoPort} :
            /\ g \in (IF req[p].guest = NoPort THEN GuestPort \ Taken ELSE {req[p].guest})
            /\ req' = [req EXCEPT ![p] = [req[p] EXCEPT !.at = "start", !.guest = g]]
      BY <1>1, <1>2 DEF EnsureReady, Request
    <2>2. g \in GuestPort
      BY <1>1, <2>1 DEF Request
    <2> DEFINE r == [req[p] EXCEPT !.at = "start", !.guest = g]
    <2>3. r \in Request /\ RequestOK(r)
      BY <1>1, <1>2, <2>2 DEF Request, RequestOK, EnsureReady
    <2>4. req' \in [Proc -> Request] /\ \A q \in Proc : RequestOK(req'[q])
      BY <2>1, <2>3, SetRequest
    <2> QED  BY <1>2, <2>4 DEF EnsureReady, TypeOK, RequestOK
  <1>3. CASE EnsureFails(p)
    BY <1>3, FinishType DEF EnsureFails, TypeOK, RequestOK
  <1>4. CASE StartSSH(p)
    <2> DEFINE r == [req[p] EXCEPT !.at = "window"]
    <2>1. r \in Request /\ RequestOK(r)
      BY <1>1, <1>4 DEF Request, RequestOK, StartSSH
    <2>2. req' \in [Proc -> Request] /\ \A q \in Proc : RequestOK(req'[q])
      BY <1>4, <2>1, SetRequest DEF StartSSH, Goto
    <2>3. [host |-> req[p].host, guest |-> req[p].guest] \in Entry
      BY <1>1, <1>4 DEF StartSSH, RequestOK, Entry
    <2> QED  BY <1>4, <2>2, <2>3 DEF StartSSH, TypeOK, RequestOK, SshStates
  <1>5. CASE ExitsEarly(p)
    BY <1>5, FinishType DEF ExitsEarly, TypeOK, RequestOK
  <1>6. CASE Register(p)
    <2>1. req[p].id \in Id
      BY <1>1, <1>6 DEF Register, RequestOK
    <2>2. req' \in [Proc -> Request] /\ \A q \in Proc : RequestOK(req'[q])
      BY <1>6, FinishType DEF Register
    <2> QED  BY <1>6, <2>1, <2>2 DEF Register, TypeOK, RequestOK
  <1>7. CASE Cancel(p)
    <2>1. req' \in [Proc -> Request] /\ \A q \in Proc : RequestOK(req'[q])
      BY <1>7, FinishType DEF Cancel
    <2> QED  BY <1>7, <2>1 DEF Cancel, TypeOK, RequestOK, SshStates
  <1> QED  BY <1>2, <1>3, <1>4, <1>5, <1>6, <1>7 DEF Handle

\* The type invariant is inductive.
LEMMA StepType == TypeOK /\ [Next]_vars => TypeOK'
  <1> SUFFICES ASSUME TypeOK, [Next]_vars PROVE TypeOK'
    OBVIOUS
  <1>1. CASE UNCHANGED vars
    BY <1>1 DEF vars, TypeOK
  <1>2. CASE List \/ \E h \in HostPort : LookUp(h)
    BY <1>2, ForgetType DEF List, LookUp, TypeOK
  <1>3. ASSUME NEW id \in Id, Ssh(id)  PROVE TypeOK'
    BY <1>3 DEF Ssh, SshBinds, SshExits, TypeOK, SshStates
  <1>4. ASSUME NEW id \in Id, Watch(id)  PROVE TypeOK'
    BY <1>4, ForgetType DEF Watch, TypeOK
  <1> QED  BY <1>1, <1>2, <1>3, <1>4, BeginType, HandleType DEF Next

\* Type correctness of the tunnel table, its index, the ssh processes and the
\* handlers.
THEOREM TunnelTypes == Spec => []TypeOK
  <1>1. Init => TypeOK
    BY DEF Init, TypeOK, SshStates, Free, Request
  <1> QED  BY <1>1, StepType, PTL DEF Spec

-----------------------------------------------------------------------------
(* The table and its index                                                 *)

\* IndexMatches is not inductive: Register has to know that the entry it puts
\* into the table is the one of its own request, and that nobody else has a
\* request, a process or an entry under the same id.
IndexInv ==
    /\ IndexMatches
    /\ \A id \in tunnels : ssh[id] # "none"
    /\ \A p \in Proc : req[p].at \in {"ensure", "start"} => ssh[req[p].id] = "none"
    /\ \A p \in Proc : req[p].at \in {"window", "cancel"} => ssh[req[p].id] # "none"
    /\ \A p \in Proc : req[p].at = "window" =>
          entry[req[p].id] # NoEntry /\ entry[req[p].id].host = req[p].host
    /\ \A p, q \in Proc :
          /\ req[p].at \in {"ensure", "start"}
          /\ req[q].at \in {"ensure", "start"}
          /\ req[p].id = req[q].id
          => p = q

\* Forgetting any entries keeps the table and the index inverse.
LEMMA ForgetMatches ==
    ASSUME TypeOK, IndexMatches, NEW ids, Forget(ids), entry' = entry
    PROVE  IndexMatches' /\ tunnels' \subseteq tunnels
  <1>1. /\ tunnels' = tunnels \ ids
        /\ \A h \in HostPort : tunnelByHostPort'[h] = IF tunnelByHostPort[h] \in ids
                                                      THEN NoTunnel ELSE tunnelByHostPort[h]
    BY DEF Forget
  <1>2. ASSUME NEW id \in tunnels  PROVE entry[id].host \in HostPort
    BY <1>2 DEF TypeOK, IndexMatches, Entry
  <1> QED  BY <1>1, <1>2 DEF IndexMatches

\* What the rest of IndexInv is about.
LEMMA IndexFrame ==
    ASSUME IndexInv, IndexMatches', tunnels' \subseteq tunnels, UNCHANGED entry,
           \A id \in Id : ssh[id] = "none" <=> ssh'[id] = "none",
           TypeOK, TypeOK',
           \A p \in Proc : req'[p] = req[p] \/ req'[p].at = "free"
    PROVE  IndexInv'
  <1>1. tunnels \subseteq Id /\ \A p \in Proc : req[p].at # "free" => req[p].id \in Id
    BY DEF TypeOK
  <1> QED  BY <1>1 DEF IndexInv

LEMMA StepIndex == TypeOK /\ TypeOK' /\ IndexInv /\ [Next]_vars => IndexInv'
  <1> SUFFICES ASSUME TypeOK, TypeOK', IndexInv, [Next]_vars PROVE IndexInv'
    OBVIOUS
  <1>1. /\ req \in [Proc -> Request] /\ tunnels \subseteq Id /\ ssh \in [Id -> SshStates]
        /\ \A p \in Proc : req[p].at # "free" => req[p].id \in Id
        /\ entry \in [Id -> Entry \cup {NoEntry}]
    BY DEF TypeOK
  <1>2. CASE UNCHANGED vars
    BY <1>2 DEF vars, IndexInv, IndexMatches
  <1>3. ASSUME NEW p \in Proc, NEW h \in HostPort, NEW g \in GuestPort \cup {NoPort},
               BeginCreate(p, h, g)
        PROVE  IndexInv'
    <2>1. PICK id \in Id :
            /\ ssh[id] = "none" /\ \A q \in Proc : req[q].id # id
            /\ req' = [req EXCEPT ![p] = [at |-> "ensure", id |-> id, host |-> h, guest |-> g]]
      BY <1>3 DEF BeginCreate
    <2>2. IndexMatches' /\ tunnels' \subseteq tunnels
      BY <1>3, ForgetMatches DEF BeginCreate, IndexInv
    <2>3. /\ req'[p].at = "ensure" /\ req'[p].id = id
          /\ \A q \in Proc : q # p => req'[q] = req[q]
      BY <1>1, <2>1
    <2> QED  BY <1>3, <2>1, <2>2, <2>3 DEF BeginCreate, IndexInv
  <1>4. ASSUME NEW p \in Proc, NEW id \in Id, DeleteLocked(p, id), id \in tunnels
        PROVE  IndexInv'
    <2>1. IndexMatches' /\ tunnels' \subseteq tunnels
      BY <1>4, ForgetMatches DEF DeleteLocked, IndexInv
    <2>2. /\ req'[p].at = "cancel" /\ req'[p].id = id
          /\ \A q \in Proc : q # p => req'[q] = req[q]
      BY <1>1, <1>4 DEF DeleteLocked, Free
    <2> QED  BY <1>4, <2>1, <2>2 DEF DeleteLocked, IndexInv
  <1>5. ASSUME NEW p \in Proc, EnsureReady(p)  PROVE IndexInv'
    <2>1. PICK g : req' = [req EXCEPT ![p] = [req[p] EXCEPT !.at = "start", !.guest = g]]
      BY <1>5 DEF EnsureReady
    <2>2. /\ req'[p].at = "start" /\ req'[p].id = req[p].id /\ req[p].at = "ensure"
          /\ \A q \in Proc : q # p => req'[q] = req[q]
      BY <1>1, <1>5, <2>1 DEF EnsureReady, Request
    <2> QED  BY <1>5, <2>2 DEF EnsureReady, IndexInv, IndexMatches
  <1>6. ASSUME NEW p \in Proc, EnsureFails(p) \/ ExitsEarly(p) \/ Cancel(p)  PROVE IndexInv'
    <2>1. \A q \in Proc : req'[q] = req[q] \/ req'[q].at = "free"
      BY <1>1, <1>6 DEF EnsureFails, ExitsEarly, Cancel, Finish, Free
    <2>2. \A id \in Id : ssh[id] = "none" <=> ssh'[id] = "none"
      BY <1>1, <1>6 DEF EnsureFails, ExitsEarly, Cancel, IndexInv
    <2>3. IndexMatches' /\ tunnels' = tunnels /\ entry' = entry
      BY <1>6 DEF EnsureFails, ExitsEarly, Cancel, IndexInv, IndexMatches
    <2> QED  BY <2>1, <2>2, <2>3, IndexFrame
  <1>7. ASSUME NEW p \in Proc, StartSSH(p)  PROVE IndexInv'
    <2> DEFINE id == req[p].id
    <2>1. /\ id \in Id /\ ssh[id] = "none" /\ id \notin tunnels /\ req[p].at = "start"
          /\ req[p].host \in HostPort
      BY <1>1, <1>7 DEF StartSSH, IndexInv, TypeOK
    <2>2. /\ entry'[id] = [host |-> req[p].host, guest |-> req[p].guest]
          /\ ssh'[id] = "starting"
          /\ \A x \in Id : x # id => entry'[x] = entry[x] /\ ssh'[x] = ssh[x]
          /\ tunnels' = tunnels /\ tunnelByHostPort' = tunnelByHostPort
      BY <1>1, <1>7, <2>1 DEF StartSSH
    <2>3. /\ req'[p].at = "window" /\ req'[p].id = id /\ req'[p].host = req[p].host
          /\ \A q \in Proc : q # p => req'[q] = req[q]
      BY <1>1, <1>7 DEF StartSSH, Goto, Request
    <2>4. entry'[id] # NoEntry /\ entry'[id].host = req'[p].host
      BY <2>1, <2>2, <2>3, TunnelsAssumption DEF NoEntry
    <2>5. \A q \in Proc : q # p =>
            /\ req[q].at \in {"ensure", "start", "window", "cancel"} => req[q].id # id /\ req[q].id \in Id
      BY <1>1, <2>1 DEF IndexInv
    <2>6. IndexMatches'
      BY <1>1, <2>1, <2>2 DEF IndexInv, IndexMatches
    <2> HIDE DEF id
    <2> QED  BY <1>1, <2>1, <2>2, <2>3, <2>4, <2>5, <2>6 DEF IndexInv
  <1>8. ASSUME NEW p \in Proc, Register(p)  PROVE IndexInv'
    <2> DEFINE id == req[p].id
               h == req[p].host
               old == tunnelByHostPort[h]
    <2>1. /\ id \in Id /\ h \in HostPort
          /\ entry[id] # NoEntry /\ entry[id].host = h /\ ssh[id] # "none"
      BY <1>8 DEF Register, TypeOK, IndexInv
    <2>2. /\ tunnels' = (tunnels \ {old}) \cup {id}
          /\ tunnelByHostPort'[h] = id
          /\ \A x \in HostPort : x # h => tunnelByHostPort'[x] = tunnelByHostPort[x]
          /\ entry' = entry /\ ssh' = ssh
      BY <1>8, <2>1 DEF Register, TypeOK
    <2>3. /\ req'[p].at = "free"
          /\ \A q \in Proc : q # p => req'[q] = req[q]
      BY <1>1, <1>8 DEF Register, Finish, Free
    <2>4. id # NoTunnel
      BY <2>1, TunnelsAssumption
    <2> HIDE DEF id, h
    <2>5. IndexMatches'
      <3>1. ASSUME NEW x \in HostPort, tunnelByHostPort'[x] # NoTunnel
            PROVE  tunnelByHostPort'[x] \in tunnels' /\ entry'[tunnelByHostPort'[x]].host = x
        BY <2>1, <2>2, <3>1 DEF IndexInv, IndexMatches
      <3>2. ASSUME NEW x \in tunnels'
            PROVE  entry'[x] # NoEntry /\ tunnelByHostPort'[entry'[x].host] = x
        <4>1. CASE x = id
          BY <2>1, <2>2, <4>1
        <4>2. CASE x # id
          <5>1. x \in tunnels /\ x # old /\ entry[x] # NoEntry
                /\ tunnelByHostPort[entry[x].host] = x
            BY <2>2, <4>2 DEF IndexInv, IndexMatches
          <5>2. entry[x].host \in HostPort /\ entry[x].host # h
            BY <1>1, <5>1 DEF Entry
          <5> QED  BY <2>2, <5>1, <5>2
        <4> QED  BY <4>1, <4>2
      <3> QED  BY <3>1, <3>2 DEF IndexMatches
    <2> QED  BY <2>1, <2>2, <2>3, <2>5 DEF IndexInv
  <1>9. CASE List \/ \E h \in HostPort : LookUp(h)
    <2>1. /\ IndexMatches' /\ tunnels' \subseteq tunnels
          /\ UNCHANGED <<entry, ssh, req>>
      BY <1>9, ForgetMatches DEF List, LookUp, IndexInv
    <2> QED  BY <2>1, IndexFrame
  <1>10. ASSUME NEW id \in Id, Ssh(id)  PROVE IndexInv'
    <2>1. \A x \in Id : ssh[x] = "none" <=> ssh'[x] = "none"
      BY <1>1, <1>10 DEF Ssh, SshBinds, SshExits, SshMustExit
    <2>2. /\ IndexMatches' /\ UNCHANGED <<tunnels, entry, req>>
      BY <1>10 DEF Ssh, SshBinds, SshExits, IndexInv, IndexMatches
    <2> QED  BY <2>1, <2>2, IndexFrame
  <1>11. ASSUME NEW id \in Id, Watch(id)  PROVE IndexInv'
    <2>1. /\ IndexMatches' /\ tunnels' \subseteq tunnels
          /\ UNCHANGED <<entry, ssh, req>>
      BY <1>11, ForgetMatches DEF Watch, IndexInv, IndexMatches
    <2> QED  BY <2>1, IndexFrame
  <1>12. \A h \in HostPort : Live(h) => tunnelByHostPort[h] \in Id /\ tunnelByHostPort[h] \in tunnels
    BY <1>1 DEF Live
  <1>13. ASSUME NEW p \in Proc, Begin(p)  PROVE IndexInv'
    BY <1>3, <1>4, <1>12, <1>13 DEF Begin, Delete, DeleteByHostPort
  <1>14. ASSUME NEW p \in Proc, Handle(p)  PROVE IndexInv'
    BY <1>5, <1>6, <1>7, <1>8, <1>14 DEF Handle
  <1> QED  BY <1>2, <1>9, <1>10, <1>11, <1>13, <1>14 DEF Next

\* The table and the index by host port stay inverse to each other, whatever
\* creates, deletes, look ups, watchers and dying processes interleave.
THEOREM IndexAlwaysMatches == Spec => []IndexMatches
  <1>1. Init => IndexInv
    BY DEF Init, IndexInv, IndexMatches, Free
  <1>2. IndexInv => IndexMatches
    BY DEF IndexInv
  <1> QED  BY <1>1, <1>2, StepIndex, TunnelTypes, PTL DEF Spec

\* A host port gives up a live tunnel only to a DELETE or to a newer tunnel:
\* pruning and watchers never unregister a successor.
THEOREM LiveKeepsItsPort == Spec => LiveStaysIndexed
  <1>1. TypeOK /\ [Next]_vars =>
          [\A h \in HostPort : Live(h) => \/ tunnelByHostPort'[h] # NoTunnel
                                          \/ tunnelByHostPort[h] \in deleted']_vars
    <2> SUFFICES ASSUME TypeOK, [Next]_vars, NEW h \in HostPort, Live(h)
                 PROVE  \/ UNCHANGED vars
                        \/ tunnelByHostPort'[h] # NoTunnel
                        \/ tunnelByHostPort[h] \in deleted'
      OBVIOUS
    <2> DEFINE cur == tunnelByHostPort[h]
    <2>1. cur \in Id /\ ~Done(cur) /\ cur # NoTunnel
      BY TunnelsAssumption DEF Live, TypeOK
    <2>2. ASSUME NEW ids, Forget(ids), cur \notin ids  PROVE tunnelByHostPort'[h] = cur
      BY <2>2 DEF Forget
    <2>3. CASE tunnelByHostPort' = tunnelByHostPort
      BY <2>1, <2>3
    <2>4. ASSUME NEW p \in Proc, Begin(p)
          PROVE  tunnelByHostPort'[h] # NoTunnel \/ cur \in deleted'
      <3>1. ASSUME NEW x \in HostPort, NEW g, BeginCreate(p, x, g)
            PROVE  tunnelByHostPort'[h] # NoTunnel
        BY <2>1, <2>2, <3>1 DEF BeginCreate, Live
      <3>2. ASSUME NEW id, DeleteLocked(p, id)
            PROVE  tunnelByHostPort'[h] # NoTunnel \/ cur \in deleted'
        BY <2>1, <2>2, <3>2 DEF DeleteLocked
      <3> QED  BY <2>4, <3>1, <3>2 DEF Begin, Delete, DeleteByHostPort
    <2>5. ASSUME NEW p \in Proc, Register(p)  PROVE tunnelByHostPort'[h] # NoTunnel
      BY <2>1, <2>5, TunnelsAssumption DEF Register, TypeOK
    <2>6. CASE List
      BY <2>1, <2>2, <2>6 DEF List
    <2>7. ASSUME NEW x \in HostPort, LookUp(x)  PROVE tunnelByHostPort'[h] # NoTunnel
      BY <2>1, <2>2, <2>7 DEF LookUp, Live
    <2>8. ASSUME NEW id \in Id, Watch(id)  PROVE tunnelByHostPort'[h] # NoTunnel
      BY <2>1, <2>2, <2>8 DEF Watch
    <2> HIDE DEF cur
    <2> QED
      BY <2>3, <2>4, <2>5, <2>6, <2>7, <2>8
      DEF Next, Handle, EnsureReady, EnsureFails, StartSSH, ExitsEarly, Cancel, Ssh, SshBinds,
          SshExits, cur, vars
  <1> QED  BY <1>1, TunnelTypes, PTL DEF Spec, LiveStaysIndexed

=============================================================================
