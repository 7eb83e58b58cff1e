--------------------------- MODULE ForwardsProofs ---------------------------
(***************************************************************************)
(* Proofs about Forwards, for every set of ids, ports and processes.       *)
(***************************************************************************)
EXTENDS Forwards, TLAPS

\* A handler past newID has its id to itself, and the id is in no table.  Its
\* forward has ports from the start of ssh on.
RequestOK(p) ==
    LET r == req[p] IN
    /\ r.at = "free" => r.id = None
    /\ r.at # "free" => /\ r.id \in Id /\ r.id \notin forwards
                        /\ \A q \in Proc \ {p} : req[q].id # r.id
    /\ r.at \in {"ensure", "check", "start"} => entry[r.id] = NoEntry
    /\ r.at \in {"check", "start", "window"} => r.guest \in GuestPort
    /\ r.at = "window" => entry[r.id].guest = r.guest /\ entry[r.id] # NoEntry

\* A forward in the table has ports, and one without ports has no process.
EntriesOK ==
    /\ \A id \in forwards : entry[id] # NoEntry
    /\ \A id \in Id : entry[id] = NoEntry => ssh[id] = "none"

IInv == TypeOK /\ EntriesOK /\ \A p \in Proc : RequestOK(p)

-----------------------------------------------------------------------------
(* Requests                                                                *)

\* A handler that ends, and one that gets a new request, leave the others alone.
LEMMA FinishType ==
    ASSUME TypeOK, NEW p \in Proc, Finish(p)
    PROVE  /\ req' \in [Proc -> Request]
           /\ req'[p] = Free /\ \A q \in Proc \ {p} : req'[q] = req[q]
  <1>1. Free \in Request
    BY DEF Free, Request
  <1> QED  BY <1>1 DEF Finish, TypeOK

LEMMA RequestType ==
    ASSUME TypeOK, NEW p \in Proc, NEW r \in Request, req' = [req EXCEPT ![p] = r]
    PROVE  /\ req' \in [Proc -> Request]
           /\ req'[p] = r /\ \A q \in Proc \ {p} : req'[q] = req[q]
  BY DEF TypeOK

\* The others are as they were if the table only shrinks and entries stay.
LEMMA OthersKeep ==
    ASSUME IInv, NEW p \in Proc, NEW S,
           \A q \in Proc \ {p} : req'[q] = req[q],
           req'[p].id \in {req[p].id, None},
           forwards' \subseteq forwards \cup {req[p].id},
           \A id \in Id \ {req[p].id} : entry'[id] = entry[id]
    PROVE  \A q \in Proc \ {p} : RequestOK(q)'
  <1> SUFFICES ASSUME NEW q \in Proc \ {p}  PROVE RequestOK(q)'
    OBVIOUS
  <1>1. RequestOK(q) /\ RequestOK(p) /\ req[q] \in Request /\ req[p] \in Request
    BY DEF IInv, TypeOK
  <1>2. CASE req[q].at = "free"
    BY <1>1, <1>2 DEF RequestOK
  <1>3. CASE req[q].at # "free"
    <2>1. req[q].id \in Id /\ req[q].id \notin forwards /\ req[p].id # req[q].id
      BY <1>1, <1>3 DEF RequestOK
    <2>2. entry'[req[q].id] = entry[req[q].id] /\ req[q].id \notin forwards'
      BY <2>1
    <2>3. \A o \in Proc \ {q} : req'[o].id # req[q].id
      BY <1>1, <1>3, <2>1, ForwardsAssumption DEF RequestOK
    <2> QED  BY <1>1, <1>3, <2>1, <2>2, <2>3 DEF RequestOK
  <1> QED  BY <1>2, <1>3

-----------------------------------------------------------------------------
(* Every step keeps the invariant                                          *)

LEMMA ForgetType ==
    ASSUME TypeOK, NEW id \in Id, Forget(id), entry' = entry
    PROVE  /\ forwards' \subseteq forwards
           /\ DOMAIN forwardByGuestPort' = GuestPort
           /\ \A g \in GuestPort : forwardByGuestPort'[g] # None =>
                 /\ forwardByGuestPort'[g] \in forwards'
                 /\ entry'[forwardByGuestPort'[g]].guest = g
  BY DEF TypeOK, Forget

LEMMA BeginKeeps == ASSUME IInv, NEW p \in Proc, Begin(p)  PROVE IInv'
  <1>1. ASSUME NEW h \in HostPort \cup {None}, NEW g \in GuestPort \cup {None}, BeginCreate(p, h, g)
        PROVE  IInv'
    <2>1. PICK id \in Fresh :
            req' = [req EXCEPT ![p] = [at |-> IF g = None THEN "ensure" ELSE "check",
                                       id |-> id, host |-> h, guest |-> g]]
      BY <1>1 DEF BeginCreate
    <2> DEFINE r == [at |-> IF g = None THEN "ensure" ELSE "check",
                     id |-> id, host |-> h, guest |-> g]
    <2>2. r \in Request
      BY <2>1 DEF Fresh, Request
    <2>3. /\ req' \in [Proc -> Request]
          /\ req'[p] = r /\ \A q \in Proc \ {p} : req'[q] = req[q]
      BY <2>1, <2>2, RequestType DEF IInv
    <2>4. id \in Id /\ entry[id] = NoEntry /\ id \notin forwards /\ \A q \in Proc : req[q].id # id
      BY <2>1 DEF Fresh, IInv, EntriesOK
    <2>5. RequestOK(p)'
      BY <1>1, <2>3, <2>4 DEF RequestOK, BeginCreate, tables
    <2>6. ASSUME NEW q \in Proc \ {p}  PROVE RequestOK(q)'
      <3>1. RequestOK(q) /\ req'[q] = req[q] /\ req[q].id # id
        BY <2>3, <2>4 DEF IInv
      <3> QED  BY <1>1, <2>3, <3>1 DEF RequestOK, BeginCreate, tables
    <2> QED  BY <1>1, <2>3, <2>5, <2>6 DEF BeginCreate, IInv, TypeOK, EntriesOK, tables, daemon
  <1>2. ASSUME NEW id \in Id, Delete(p, id)  PROVE IInv'
    <2> DEFINE r == [Free EXCEPT !.at = "kill", !.id = id]
    <2>1. r \in Request /\ r.at = "kill" /\ r.id = id
      BY DEF Free, Request
    <2>2. /\ req' \in [Proc -> Request]
          /\ req'[p] = r /\ \A q \in Proc \ {p} : req'[q] = req[q]
      BY <1>2, <2>1, RequestType DEF Delete, IInv
    <2>3. id \in forwards /\ forwards' = forwards \ {id}
      BY <1>2 DEF Delete, Forget
    <2>4. \A q \in Proc : req[q].id # id
      <3> SUFFICES ASSUME NEW q \in Proc, req[q].id = id  PROVE FALSE
        OBVIOUS
      <3>1. RequestOK(q)
        BY DEF IInv
      <3> QED  BY <2>3, <3>1, ForwardsAssumption DEF RequestOK
    <2>5. RequestOK(p)'
      BY <1>2, <2>1, <2>2, <2>3, <2>4 DEF RequestOK
    <2>6. ASSUME NEW q \in Proc \ {p}  PROVE RequestOK(q)'
      <3>1. RequestOK(q) /\ req'[q] = req[q] /\ req[q].id # id
        BY <2>2, <2>4 DEF IInv
      <3> QED  BY <1>2, <2>1, <2>2, <2>3, <3>1 DEF RequestOK, Delete
    <2>7. TypeOK'
      BY <1>2, <2>2, ForgetType DEF Delete, IInv, TypeOK, daemon
    <2> QED  BY <1>2, <2>3, <2>5, <2>6, <2>7 DEF Delete, IInv, EntriesOK
  <1> QED  BY <1>1, <1>2 DEF Begin

\* A handler that ends without touching the tables.
LEMMA FinishKeeps ==
    ASSUME IInv, NEW p \in Proc, Finish(p), UNCHANGED <<tables, entry, watching, daemon, deleted, overtaken>>,
           ssh' \in [Id -> SshStates], \A id \in Id : ssh[id] = "none" => ssh'[id] = "none"
    PROVE  IInv'
  <1>1. /\ req' \in [Proc -> Request]
        /\ req'[p] = Free /\ \A q \in Proc \ {p} : req'[q] = req[q]
    BY FinishType DEF IInv
  <1>2. RequestOK(p)'
    BY <1>1 DEF RequestOK, Free
  <1>3. \A q \in Proc \ {p} : RequestOK(q)'
    BY <1>1, OthersKeep DEF Free, tables
  <1> QED  BY <1>1, <1>2, <1>3 DEF IInv, TypeOK, EntriesOK, tables, daemon

LEMMA KillType ==
    ASSUME IInv, NEW id \in Id, Kill(id)
    PROVE  ssh' \in [Id -> SshStates] /\ \A i \in Id : ssh[i] = "none" => ssh'[i] = "none"
  BY DEF IInv, TypeOK, Kill, Alive, SshStates

LEMMA HandleKeeps == ASSUME IInv, NEW p \in Proc, Handle(p)  PROVE IInv'
  <1>1. RequestOK(p) /\ req[p] \in Request
    BY DEF IInv, TypeOK
  <1>2. CASE EnsureReady(p)
    <2>1. CASE Finish(p)
      BY <1>2, <2>1, FinishKeeps DEF EnsureReady, IInv, TypeOK, tables, daemon
    <2>2. ASSUME NEW g \in GuestPort, req' = [req EXCEPT ![p] = [@ EXCEPT !.at = "check", !.guest = g]]
          PROVE  IInv'
      <3> DEFINE r == [req[p] EXCEPT !.at = "check", !.guest = g]
      <3>1. /\ r \in Request /\ r.at = "check" /\ r.guest = g /\ r.id = req[p].id
            /\ req[p].at = "ensure"
        BY <1>1, <1>2 DEF Request, EnsureReady
      <3>2. /\ req' \in [Proc -> Request]
            /\ req'[p] = r /\ \A q \in Proc \ {p} : req'[q] = req[q]
        BY <2>2, <3>1, RequestType DEF IInv
      <3> HIDE DEF r
      <3>3. RequestOK(p)'
        BY <1>1, <1>2, <3>1, <3>2 DEF RequestOK, EnsureReady, tables
      <3>4. \A q \in Proc \ {p} : RequestOK(q)'
        BY <1>2, <3>1, <3>2, OthersKeep DEF EnsureReady, tables
      <3> QED  BY <1>2, <3>2, <3>3, <3>4 DEF EnsureReady, IInv, TypeOK, EntriesOK, tables, daemon
    <2> QED  BY <1>2, <2>1, <2>2 DEF EnsureReady
  <1>3. CASE Check(p)
    <2> DEFINE id == forwardByGuestPort[req[p].guest]
    <2>1. CASE Finish(p) /\ UNCHANGED tables
      BY <1>3, <2>1, FinishKeeps DEF Check, IInv, TypeOK
    <2>2. CASE Goto(p, "start") /\ IF id = None THEN UNCHANGED tables ELSE Forget(id)
      <3> DEFINE r == [req[p] EXCEPT !.at = "start"]
      <3>1. /\ r \in Request /\ r.at = "start" /\ r.guest = req[p].guest /\ r.id = req[p].id
            /\ req[p].at = "check"
        BY <1>1, <1>3 DEF Request, Check
      <3>2. /\ req' \in [Proc -> Request]
            /\ req'[p] = r /\ \A q \in Proc \ {p} : req'[q] = req[q]
        BY <2>2, <3>1, RequestType DEF IInv, Goto
      <3> HIDE DEF r
      <3>3. id = None \/ id \in Id
        BY <1>1, <3>1 DEF RequestOK, IInv, TypeOK
      <3>4. TypeOK' /\ forwards' \subseteq forwards
        <4>1. CASE UNCHANGED tables
          BY <1>3, <3>2, <4>1 DEF Check, IInv, TypeOK, tables, daemon
        <4>2. CASE id \in Id /\ Forget(id)
          <5> HIDE DEF id
          <5> QED  BY <1>3, <3>2, <4>2, ForgetType DEF Check, IInv, TypeOK, daemon
        <4> QED  BY <2>2, <3>3, <4>1, <4>2
      <3>5. RequestOK(p)'
        BY <1>1, <1>3, <3>1, <3>2, <3>4 DEF RequestOK, Check
      <3>6. \A q \in Proc \ {p} : RequestOK(q)'
        BY <1>3, <3>1, <3>2, <3>4, OthersKeep DEF Check
      <3> QED  BY <1>3, <3>4, <3>5, <3>6 DEF Check, IInv, EntriesOK
    <2> QED  BY <1>3, <2>1, <2>2 DEF Check
  <1>4. CASE StartSSH(p)
    <2>1. CASE Finish(p) /\ UNCHANGED <<entry, ssh>>
      BY <1>4, <2>1, FinishKeeps DEF StartSSH, IInv, TypeOK
    <2>2. ASSUME NEW h \in IF req[p].host = None THEN HostPort \ Bound ELSE {req[p].host},
                 entry' = [entry EXCEPT ![req[p].id] = [host |-> h, guest |-> req[p].guest]],
                 ssh' = [ssh EXCEPT ![req[p].id] = "starting"],
                 req' = [req EXCEPT ![p] = [@ EXCEPT !.at = "window", !.host = h]]
          PROVE  IInv'
      <3> DEFINE r == [req[p] EXCEPT !.at = "window", !.host = h]
                 e == [host |-> h, guest |-> req[p].guest]
                 id == req[p].id
      <3>1. /\ req[p].at = "start" /\ id \in Id /\ req[p].guest \in GuestPort /\ h \in HostPort
            /\ id \notin forwards
        BY <1>1, <1>4, <2>2 DEF StartSSH, Request, RequestOK
      <3>2. r \in Request /\ r.at = "window" /\ r.guest = req[p].guest /\ r.id = id
        BY <1>1, <3>1 DEF Request
      <3>3. /\ req' \in [Proc -> Request]
            /\ req'[p] = r /\ \A q \in Proc \ {p} : req'[q] = req[q]
        BY <2>2, <3>2, RequestType DEF IInv
      <3>4. e \in Entry /\ e # NoEntry /\ e.guest = req[p].guest
        BY <3>1, ForwardsAssumption DEF Entry, NoEntry
      <3>5. /\ entry' \in [Id -> Entry \cup {NoEntry}] /\ entry'[id] = e
            /\ \A i \in Id \ {id} : entry'[i] = entry[i]
        BY <2>2, <3>1, <3>4 DEF IInv, TypeOK
      <3>6. /\ ssh' \in [Id -> SshStates]
            /\ \A i \in Id \ {id} : ssh'[i] = ssh[i]
        BY <2>2, <3>1 DEF IInv, TypeOK, SshStates
      <3> HIDE DEF r, e
      <3>7. RequestOK(p)'
        BY <1>1, <1>4, <3>1, <3>2, <3>3, <3>4, <3>5 DEF RequestOK, StartSSH, tables
      <3>8. \A q \in Proc \ {p} : RequestOK(q)'
        BY <1>4, <3>2, <3>3, <3>5, OthersKeep DEF StartSSH, tables
      <3> HIDE DEF id
      <3>9. TypeOK'
        <4>1. UNCHANGED <<forwards, forwardByGuestPort, watching, booting, crashes, deleted, overtaken>>
          BY <1>4 DEF StartSSH, tables, daemon
        <4>2. \A i \in forwards : entry'[i] = entry[i]
          BY <3>1, <3>5 DEF IInv, TypeOK
        <4> QED  BY <3>3, <3>5, <3>6, <4>1, <4>2 DEF IInv, TypeOK
      <3> QED  BY <1>4, <3>1, <3>4, <3>5, <3>6, <3>7, <3>8, <3>9
               DEF StartSSH, IInv, TypeOK, EntriesOK, tables
    <2> QED  BY <1>4, <2>1, <2>2 DEF StartSSH
  <1>5. CASE Register(p)
    <2> DEFINE id == req[p].id
               g == req[p].guest
    <2>1. id \in Id /\ g \in GuestPort /\ entry[id] # NoEntry /\ entry[id].guest = g
      BY <1>1, <1>5 DEF Register, RequestOK
    <2>2. /\ req' \in [Proc -> Request]
          /\ req'[p] = Free /\ \A q \in Proc \ {p} : req'[q] = req[q]
      BY <1>5, FinishType DEF Register, IInv
    <2>3. RequestOK(p)'
      BY <2>2 DEF RequestOK, Free
    <2>4. \A q \in Proc \ {p} : RequestOK(q)'
      BY <1>5, <2>2, OthersKeep DEF Register, Free
    <2>5. TypeOK'
      BY <1>5, <2>1, <2>2 DEF Register, IInv, TypeOK, daemon
    <2> QED  BY <1>5, <2>1, <2>3, <2>4, <2>5 DEF Register, IInv, EntriesOK
  <1>6. CASE IDFails(p) \/ KillProcess(p)
    <2>1. req[p].id \in Id
      BY <1>1, <1>6 DEF IDFails, KillProcess, RequestOK
    <2> QED  BY <1>6, <2>1, KillType, FinishKeeps DEF IDFails, KillProcess
  <1> QED  BY <1>2, <1>3, <1>4, <1>5, <1>6 DEF Handle

LEMMA SshKeeps ==
    ASSUME IInv, NEW id \in Id, SshBinds(id) \/ SshEnds(id) \/ Reap(id) \/ Watch(id)
    PROVE  IInv'
  <1>1. CASE SshBinds(id) \/ SshEnds(id) \/ Reap(id)
    <2>1. /\ ssh' \in [Id -> SshStates] /\ \A i \in Id : ssh[i] = "none" => ssh'[i] = "none"
          /\ UNCHANGED <<forwards, forwardByGuestPort, entry, watching, req, booting, crashes,
                         deleted, overtaken>>
      BY <1>1, KillType
      DEF SshBinds, SshEnds, Reap, tables, daemon, IInv, TypeOK, SshStates
    <2>2. \A p \in Proc : RequestOK(p)'
      BY <2>1 DEF IInv, RequestOK
    <2> QED  BY <2>1, <2>2 DEF IInv, TypeOK, EntriesOK
  <1>2. CASE Watch(id)
    <2>1. TypeOK' /\ forwards' \subseteq forwards /\ UNCHANGED <<entry, ssh, req>>
      BY <1>2, ForgetType DEF Watch, IInv, TypeOK, tables, daemon
    <2>2. \A p \in Proc : RequestOK(p)'
      BY <2>1 DEF IInv, RequestOK
    <2> QED  BY <2>1, <2>2 DEF IInv, EntriesOK
  <1> QED  BY <1>1, <1>2

LEMMA RestartKeeps == ASSUME IInv, Crash \/ CleanUp  PROVE IInv'
  <1>1. CASE Crash
    <2>1. ssh' \in [Id -> SshStates] /\ \A i \in Id : ssh[i] = "none" => ssh'[i] = "none"
      BY <1>1 DEF Crash, IInv, TypeOK, SshStates
    <2>2. Free \in Request
      BY DEF Free, Request
    <2>3. req' \in [Proc -> Request] /\ \A p \in Proc : req'[p] = Free
      BY <1>1, <2>2 DEF Crash
    <2>4. crashes' \in 0 .. MaxCrashes
      BY <1>1, ForwardsAssumption DEF Crash, IInv, TypeOK
    <2> QED  BY <1>1, <2>1, <2>3, <2>4 DEF Crash, IInv, TypeOK, EntriesOK, RequestOK, Free
  <1>2. CASE CleanUp
    <2>1. ssh' \in [Id -> SshStates] /\ \A i \in Id : ssh[i] = "none" => ssh'[i] = "none"
      BY <1>2 DEF CleanUp, Alive, IInv, TypeOK, SshStates
    <2>2. \A p \in Proc : RequestOK(p)'
      BY <1>2 DEF CleanUp, IInv, RequestOK, tables
    <2> QED  BY <1>2, <2>1, <2>2 DEF CleanUp, IInv, TypeOK, EntriesOK, tables
  <1> QED  BY <1>1, <1>2

\* The invariant is inductive.
LEMMA StepInv == IInv /\ [Next]_vars => IInv'
  <1> SUFFICES ASSUME IInv, [Next]_vars  PROVE IInv'
    OBVIOUS
  <1>1. CASE UNCHANGED vars
    BY <1>1 DEF vars, IInv, TypeOK, EntriesOK, RequestOK
  <1> QED  BY <1>1, BeginKeeps, HandleKeeps, SshKeeps, RestartKeeps DEF Next

LEMMA InitInv == Init => IInv
  <1> SUFFICES ASSUME Init  PROVE IInv
    OBVIOUS
  <1>1. Free \in Request
    BY DEF Free, Request
  <1>2. TypeOK
    BY <1>1, ForwardsAssumption DEF Init, TypeOK, SshStates
  <1> QED  BY <1>2, ForwardsAssumption DEF IInv, Init, EntriesOK, RequestOK, Free

LEMMA Invariance == Spec => []IInv
  BY InitInv, StepInv, PTL DEF Spec

\* Type correctness of the forwards, and an index that names only forwards of
\* the table under their own guest port.
THEOREM ForwardTypes == Spec => []TypeOK
  <1>1. IInv => TypeOK
    BY DEF IInv
  <1> QED  BY <1>1, Invariance, PTL

-----------------------------------------------------------------------------
(* What the table leads to                                                 *)

\* A guest port leads to every forward of it in the table that no later create
\* has pushed out of the index.
THEOREM ForwardsAreFound == Spec => []ForwardIsFound
  <1>1. Init => ForwardIsFound
    BY DEF Init, ForwardIsFound
  <1>2. IInv /\ ForwardIsFound /\ [Next]_vars => ForwardIsFound'
    <2> SUFFICES ASSUME IInv, ForwardIsFound, [Next]_vars,
                        NEW id \in forwards', id \notin overtaken'
                 PROVE  forwardByGuestPort'[entry'[id].guest] = id
      BY DEF ForwardIsFound
    <2>1. ASSUME NEW i \in Id \cup {None}, Forget(i), entry' = entry, overtaken' = overtaken
          PROVE  forwardByGuestPort'[entry'[id].guest] = id
      <3>1. id \in forwards /\ id # i /\ id \in Id /\ id \notin overtaken
        BY <2>1 DEF Forget, IInv, TypeOK
      <3>2. forwardByGuestPort[entry[id].guest] = id /\ entry[id].guest \in GuestPort
        BY <3>1 DEF ForwardIsFound, IInv, TypeOK, EntriesOK, Entry
      <3> QED  BY <2>1, <3>1, <3>2 DEF Forget
    <2>2. CASE UNCHANGED <<tables, entry, overtaken>>
      BY <2>2 DEF ForwardIsFound, tables
    <2>3. ASSUME NEW p \in Proc, Begin(p)
          PROVE  forwardByGuestPort'[entry'[id].guest] = id
      BY <2>1, <2>2, <2>3 DEF Begin, BeginCreate, Delete
    <2>4. ASSUME NEW p \in Proc, Check(p)
          PROVE  forwardByGuestPort'[entry'[id].guest] = id
      <3>1. req[p].guest \in GuestPort
        BY <2>4 DEF Check, IInv, RequestOK
      <3>2. forwardByGuestPort[req[p].guest] \in Id \cup {None}
        BY <3>1 DEF IInv, TypeOK
      <3> QED  BY <2>1, <2>2, <2>4, <3>2 DEF Check
    <2>5. ASSUME NEW p \in Proc, StartSSH(p)
          PROVE  forwardByGuestPort'[entry'[id].guest] = id
      <3>1. req[p].id \notin forwards
        BY <2>5 DEF StartSSH, IInv, RequestOK
      <3>2. id \in forwards /\ UNCHANGED <<forwards, forwardByGuestPort, overtaken>>
        BY <2>5 DEF StartSSH, tables
      <3>3. entry'[id] = entry[id]
        BY <2>5, <3>1, <3>2 DEF StartSSH, IInv, TypeOK
      <3> QED  BY <3>2, <3>3 DEF ForwardIsFound
    <2>6. ASSUME NEW p \in Proc, Register(p)
          PROVE  forwardByGuestPort'[entry'[id].guest] = id
      <3> DEFINE g == req[p].guest
      <3>1. /\ req[p].id \in Id /\ g \in GuestPort /\ entry[req[p].id].guest = g
            /\ entry' = entry /\ forwardByGuestPort' = [forwardByGuestPort EXCEPT ![g] = req[p].id]
            /\ overtaken' = overtaken \cup ({forwardByGuestPort[g]} \ {None})
            /\ forwards' = forwards \cup {req[p].id}
        BY <2>6 DEF Register, IInv, RequestOK
      <3>2. CASE id = req[p].id
        BY <3>1, <3>2 DEF IInv, TypeOK
      <3>3. CASE id # req[p].id
        <4>1. id \in forwards /\ id \in Id /\ id \notin overtaken /\ id # None
          BY <3>1, <3>3, ForwardsAssumption DEF IInv, TypeOK
        <4>2. forwardByGuestPort[entry[id].guest] = id
          BY <4>1 DEF ForwardIsFound
        <4>3. entry[id].guest # g
          BY <3>1, <4>1, <4>2
        <4> QED  BY <3>1, <4>2, <4>3 DEF IInv, TypeOK
      <3> QED  BY <3>2, <3>3
    <2>7. ASSUME NEW i \in Id, Watch(i)
          PROVE  forwardByGuestPort'[entry'[id].guest] = id
      BY <2>1, <2>2, <2>7 DEF Watch
    <2> QED
      BY <2>2, <2>3, <2>4, <2>5, <2>6, <2>7
      DEF Next, Handle, EnsureReady, IDFails, KillProcess, SshBinds, SshEnds, Reap, Crash, CleanUp, vars, tables
  <1> QED  BY <1>1, <1>2, Invariance, PTL DEF Spec

\* No ssh process of this instance gets out of reach of the table, of a handler
\* and of the clean-up, through any crash.
THEOREM NoStrays == Spec => []NoStrayProcess
  <1>1. Init => NoStrayProcess
    BY DEF Init, NoStrayProcess
  <1>2. IInv /\ NoStrayProcess /\ [Next]_vars => NoStrayProcess'
    <2> SUFFICES ASSUME IInv, NoStrayProcess, [Next]_vars, NEW id \in Id, ssh'[id] \in {"starting", "up"}
                 PROVE  id \in forwards' \/ booting' \/ \E p \in Proc : req'[p].id = id
      BY DEF NoStrayProcess, Alive
    <2> DEFINE Goal == id \in forwards' \/ booting' \/ \E p \in Proc : req'[p].id = id
    <2>1. ASSUME id \in Alive, forwards \subseteq forwards', booting' = booting,
                 NEW p \in Proc, \A q \in Proc \ {p} : req'[q] = req[q], req[p].id # id
          PROVE  Goal
      BY <2>1 DEF NoStrayProcess
    <2>2. CASE ssh' = ssh /\ forwards' = forwards /\ booting' = booting /\ req' = req
      BY <2>2 DEF NoStrayProcess, Alive
    <2>3. ASSUME NEW p \in Proc, Finish(p), ssh' = ssh, UNCHANGED <<tables, booting>>,
                 req[p].at \in {"ensure", "check", "start"}
          PROVE  Goal
      <3>1. ssh[req[p].id] = "none"
        BY <2>3 DEF IInv, RequestOK, EntriesOK
      <3>2. id \in Alive /\ req[p].id # id
        BY <2>3, <3>1 DEF Alive
      <3> QED  BY <2>1, <2>3, <3>2, FinishType DEF IInv, tables
    <2>4. ASSUME NEW p \in Proc, NEW r \in Request, req' = [req EXCEPT ![p] = r],
                 req[p].id = r.id \/ req[p] = Free,
                 ssh' = ssh \/ r.id = id, forwards \subseteq forwards' \cup {r.id}, booting' = booting
          PROVE  Goal
      <3>1. req'[p].id = r.id /\ \A q \in Proc \ {p} : req'[q] = req[q]
        BY <2>4, RequestType DEF IInv
      <3>2. CASE r.id = id
        BY <3>1, <3>2
      <3>3. CASE r.id # id
        <4>1. req[p].id # id
          BY <2>4, <3>3, ForwardsAssumption DEF Free
        <4>2. id \in Alive
          BY <2>4, <3>3 DEF Alive
        <4> QED  BY <2>4, <3>1, <3>3, <4>1, <4>2 DEF NoStrayProcess
      <3> QED  BY <3>2, <3>3
    <2>5. ASSUME NEW i \in Id, Kill(i)  PROVE id \in Alive /\ id # i
      BY <2>5 DEF Kill, Alive, IInv, TypeOK
    <2>6. ASSUME NEW p \in Proc, Begin(p)  PROVE Goal
      <3>1. ASSUME NEW h \in HostPort \cup {None}, NEW g \in GuestPort \cup {None},
                   BeginCreate(p, h, g)
            PROVE  Goal
        <4>1. PICK i \in Fresh :
                req' = [req EXCEPT ![p] = [at |-> IF g = None THEN "ensure" ELSE "check",
                                           id |-> i, host |-> h, guest |-> g]]
          BY <3>1 DEF BeginCreate
        <4> DEFINE r == [at |-> IF g = None THEN "ensure" ELSE "check",
                         id |-> i, host |-> h, guest |-> g]
        <4>2. r \in Request /\ i \notin forwards
          BY <4>1 DEF Fresh, Request, IInv, EntriesOK
        <4> HIDE DEF r
        <4> QED  BY <2>4, <3>1, <4>1, <4>2 DEF BeginCreate, tables, daemon, r
      <3>2. ASSUME NEW i \in Id, Delete(p, i)  PROVE Goal
        <4> DEFINE r == [Free EXCEPT !.at = "kill", !.id = i]
        <4>1. r \in Request /\ r.id = i
          BY DEF Free, Request
        <4>2. forwards \subseteq forwards' \cup {i}
          BY <3>2 DEF Delete, Forget
        <4> QED  BY <2>4, <3>2, <4>1, <4>2 DEF Delete, daemon
      <3> QED  BY <2>6, <3>1, <3>2 DEF Begin
    <2>7. ASSUME NEW p \in Proc, Handle(p)  PROVE Goal
      <3>1. req[p] \in Request /\ RequestOK(p)
        BY DEF IInv, TypeOK
      <3>2. CASE EnsureReady(p)
        <4>1. ASSUME NEW g \in GuestPort, req' = [req EXCEPT ![p] = [@ EXCEPT !.at = "check", !.guest = g]]
              PROVE  Goal
          <5>1. [req[p] EXCEPT !.at = "check", !.guest = g] \in Request
            BY <3>1 DEF Request
          <5> QED  BY <2>4, <3>1, <3>2, <4>1, <5>1 DEF EnsureReady, Request, tables, daemon
        <4> QED  BY <2>3, <3>2, <4>1 DEF EnsureReady, tables, daemon
      <3>3. CASE Check(p)
        <4> DEFINE d == forwardByGuestPort[req[p].guest]
        <4>1. CASE Finish(p) /\ UNCHANGED tables
          BY <2>3, <3>3, <4>1 DEF Check, daemon
        <4>2. CASE ~(d \in forwards /\ Running(d)) /\ Goto(p, "start")
                   /\ IF d = None THEN UNCHANGED tables ELSE Forget(d)
          <5>1. req[p].guest \in GuestPort
            BY <3>1, <3>3 DEF Check, RequestOK
          <5>2. d = None \/ (d \in forwards /\ d \notin Alive /\ forwards' = forwards \ {d})
            <6>1. d # None => d \in forwards
              BY <5>1 DEF IInv, TypeOK
            <6> HIDE DEF d
            <6>2. d \in forwards => d \notin Alive
              BY <4>2 DEF Running, Alive
            <6>3. d # None => forwards' = forwards \ {d}
              BY <4>2 DEF Forget
            <6> QED  BY <6>1, <6>2, <6>3
          <5>3. id \in Alive /\ id \in forwards => id \in forwards'
            BY <3>3, <4>2, <5>2 DEF Check, Alive, tables
          <5>4. \A q \in Proc : req'[q].id = req[q].id
            BY <3>1, <4>2 DEF Goto, IInv, TypeOK, Request
          <5>5. id \in Alive /\ booting' = booting
            BY <3>3 DEF Check, Alive, daemon
          <5> QED  BY <5>3, <5>4, <5>5 DEF NoStrayProcess
        <4> QED  BY <3>3, <4>1, <4>2 DEF Check
      <3>4. CASE StartSSH(p)
        <4>1. CASE Finish(p) /\ UNCHANGED <<entry, ssh>>
          BY <2>3, <3>4, <4>1 DEF StartSSH, daemon, tables
        <4>2. ASSUME NEW h, ssh' = [ssh EXCEPT ![req[p].id] = "starting"],
                     req' = [req EXCEPT ![p] = [@ EXCEPT !.at = "window", !.host = h]]
              PROVE  Goal
          <5>1. \A q \in Proc : req'[q].id = req[q].id
            BY <3>1, <4>2 DEF IInv, TypeOK, Request
          <5>2. id \in Alive \/ id = req[p].id
            BY <4>2 DEF Alive, IInv, TypeOK
          <5> QED  BY <3>4, <5>1, <5>2 DEF StartSSH, NoStrayProcess, tables, daemon
        <4> QED  BY <3>4, <4>1, <4>2 DEF StartSSH
      <3>5. CASE Register(p)
        <4>1. id \in Alive /\ req[p].id \in forwards'
          BY <3>5 DEF Register, Alive
        <4>2. forwards \subseteq forwards' /\ booting' = booting
          BY <3>5 DEF Register, daemon
        <4>3. \A q \in Proc \ {p} : req'[q] = req[q]
          BY <3>5, FinishType DEF Register, IInv
        <4> QED  BY <2>1, <4>1, <4>2, <4>3
      <3>6. CASE IDFails(p) \/ KillProcess(p)
        <4>1. req[p].id \in Id
          BY <3>1, <3>6 DEF IDFails, KillProcess, RequestOK
        <4> QED  BY <2>1, <2>5, <3>6, <4>1, FinishType DEF IDFails, KillProcess, IInv, tables, daemon
      <3> QED  BY <2>7, <3>2, <3>3, <3>4, <3>5, <3>6 DEF Handle
    <2>8. ASSUME NEW i \in Id, SshBinds(i) \/ SshEnds(i) \/ Reap(i) \/ Watch(i)  PROVE Goal
      <3>1. CASE SshBinds(i)
        <4>1. id \in Alive
          BY <3>1 DEF SshBinds, Alive, IInv, TypeOK
        <4> QED  BY <3>1, <4>1 DEF SshBinds, NoStrayProcess, tables, daemon
      <3>2. CASE SshEnds(i)
        BY <2>5, <3>2 DEF SshEnds, NoStrayProcess, tables, daemon
      <3>3. CASE Reap(i)
        <4>1. id \in Alive
          BY <3>3 DEF Reap, Alive, IInv, TypeOK
        <4> QED  BY <3>3, <4>1 DEF Reap, NoStrayProcess, tables, daemon
      <3>4. CASE Watch(i)
        <4>1. id \in Alive /\ id # i
          BY <3>4 DEF Watch, Alive
        <4> QED  BY <3>4, <4>1 DEF Watch, Forget, NoStrayProcess, tables, daemon
      <3> QED  BY <2>8, <3>1, <3>2, <3>3, <3>4
    <2>9. CASE Crash
      BY <2>9 DEF Crash
    <2>10. CASE CleanUp
      BY <2>10 DEF CleanUp, Alive, IInv, TypeOK
    <2>11. CASE UNCHANGED vars
      BY <2>2, <2>11 DEF vars
    <2> HIDE DEF Goal
    <2> QED  BY <2>6, <2>7, <2>8, <2>9, <2>10, <2>11 DEF Next, Goal
  <1> QED  BY <1>1, <1>2, Invariance, PTL DEF Spec

=============================================================================
