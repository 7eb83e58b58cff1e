---------------------------- MODULE VMStartProofs ----------------------------
(***************************************************************************)
(* Proofs about VMStart, for every set of handlers and of ports and every  *)
(* number of versions and events.                                          *)
(***************************************************************************)
EXTENDS VMStart, TLAPS

-----------------------------------------------------------------------------
(* Type correctness                                                        *)

Request == [at: Place, sum: {0} \cup Version]

\* A handler moves, or ends.
LEMMA SetRequest ==
    ASSUME TypeOK, NEW p \in Proc, NEW r \in Request, req' = [req EXCEPT ![p] = r]
    PROVE  /\ req' \in [Proc -> Request]
           /\ req'[p] = r
           /\ \A q \in Proc \ {p} : req'[q] = req[q]
  BY DEF TypeOK, Request

LEMMA GotoType ==
    ASSUME TypeOK, NEW p \in Proc, NEW place \in Place, Goto(p, place)
    PROVE  /\ req' \in [Proc -> Request]
           /\ req'[p].at = place
           /\ \A q \in Proc \ {p} : req'[q] = req[q]
  BY DEF TypeOK, Goto, Request

LEMMA FinishType ==
    ASSUME TypeOK, NEW p \in Proc, Finish(p)
    PROVE  /\ req' \in [Proc -> Request]
           /\ req'[p].at = "free"
           /\ \A q \in Proc \ {p} : req'[q] = req[q]
  BY DEF TypeOK, Finish, Free, Request, Place

\* Only a handler that comes from sync installs, and only when none does.
LEMMA NoneInstalls ==
    ASSUME TypeOK, NEW p \in Proc, req'[p].at # "install",
           \A q \in Proc \ {p} : req'[q] = req[q]
    PROVE  \A q, r \in Proc : req'[q].at = "install" /\ req'[r].at = "install" => q = r
  BY DEF TypeOK

LEMMA FileTypes ==
    ASSUME TypeOK, VMStartAssumption
    PROVE  /\ NoFile \in File /\ NoInstance \in Instance
           /\ staged.version \in {0} \cup Version
           /\ Whole(staged) \in BOOLEAN
           /\ \A p \in Proc, file \in File :
                 (IF file.by = p THEN [file EXCEPT !.by = Nobody, !.whole = TRUE] ELSE file) \in File
           /\ \A file \in File : [file EXCEPT !.by = Nobody] \in File
  BY DEF TypeOK, VMStartAssumption, NoFile, File, NoInstance, Instance, Whole

LEMMA ClosedType ==
    ASSUME TypeOK
    PROVE  Closed \in [Port -> {"nobody", "vm", "other"}]
  BY DEF TypeOK, Closed

LEMMA BootType ==
    ASSUME TypeOK, VMStartAssumption, NEW port \in Port, Boot(port)
    PROVE  /\ vm' \in Instance /\ vm'.state = "running" /\ vm'.port = port
           /\ owner' \in [Port -> {"nobody", "vm", "other"}]
           /\ torn' \in BOOLEAN
  BY FileTypes DEF TypeOK, Boot, Instance

LEMMA PrepareType ==
    ASSUME TypeOK, VMStartAssumption, NEW p \in Proc,
           \/ Begin(p) \/ ReadState(p) \/ CheckPort(p) \/ PrepareAssets(p)
           \/ OpenTmp(p) \/ FinishCopy(p) \/ RenameTmp(p) \/ WriteYAML(p)
    PROVE  TypeOK'
  <1>1. CASE Begin(p) \/ ReadState(p)
    <2>1. PICK place \in {"state", "assets", "port"} : Goto(p, place)
      BY <1>1 DEF Begin, ReadState
    <2>2. /\ req' \in [Proc -> Request] /\ req'[p].at = place
          /\ \A q \in Proc \ {p} : req'[q] = req[q]
      BY <2>1, GotoType DEF Place
    <2>3. \A q, r \in Proc : req'[q].at = "install" /\ req'[r].at = "install" => q = r
      BY <2>2, NoneInstalls
    <2> QED  BY <1>1, <2>2, <2>3 DEF Begin, ReadState, TypeOK, host, files, guest, Request
  <1>2. CASE CheckPort(p)
    <2>1. /\ req' \in [Proc -> Request] /\ req'[p].at = "assets"
          /\ \A q \in Proc \ {p} : req'[q] = req[q]
      BY <1>2, GotoType DEF CheckPort, Place
    <2>2. \A q, r \in Proc : req'[q].at = "install" /\ req'[r].at = "install" => q = r
      BY <2>1, NoneInstalls
    <2>3. fwd' \in Port /\ {moved', raced'} \subseteq BOOLEAN
      BY <1>2 DEF CheckPort, TypeOK
    <2> QED  BY <1>2, <2>1, <2>2, <2>3 DEF CheckPort, TypeOK, files, guest, Request
  <1>3. CASE PrepareAssets(p)
    <2>1. /\ req' \in [Proc -> Request] /\ req'[p].at = "open"
          /\ \A q \in Proc \ {p} : req'[q] = req[q]
      BY <1>3, GotoType DEF PrepareAssets, Place
    <2>2. \A q, r \in Proc : req'[q].at = "install" /\ req'[r].at = "install" => q = r
      BY <2>1, NoneInstalls
    <2> QED  BY <1>3, <2>1, <2>2 DEF PrepareAssets, TypeOK, host, guest, Request
  <1>4. CASE OpenTmp(p)
    <2>1. /\ req' \in [Proc -> Request] /\ req'[p].at = "copy"
          /\ \A q \in Proc \ {p} : req'[q] = req[q]
      BY <1>4, GotoType DEF OpenTmp, Place
    <2>2. \A q, r \in Proc : req'[q].at = "install" /\ req'[r].at = "install" => q = r
      BY <2>1, NoneInstalls
    <2>3. tmp' \in File
      BY <1>4 DEF OpenTmp, TypeOK, File
    <2> QED  BY <1>4, <2>1, <2>2, <2>3 DEF OpenTmp, TypeOK, host, guest, Request
  <1>5. CASE FinishCopy(p)
    <2>1. /\ req' \in [Proc -> Request] /\ req'[p].at = "rename"
          /\ \A q \in Proc \ {p} : req'[q] = req[q]
      BY <1>5, GotoType DEF FinishCopy, Place
    <2>2. \A q, r \in Proc : req'[q].at = "install" /\ req'[r].at = "install" => q = r
      BY <2>1, NoneInstalls
    <2>3. tmp' \in File /\ staged' \in File
      BY <1>5, FileTypes DEF FinishCopy, TypeOK
    <2> QED  BY <1>5, <2>1, <2>2, <2>3 DEF FinishCopy, TypeOK, host, guest, Request
  <1>6. CASE RenameTmp(p)
    <2>1. /\ req' \in [Proc -> Request] /\ req'[p].at # "install"
          /\ \A q \in Proc \ {p} : req'[q] = req[q]
      BY <1>6, GotoType, FinishType DEF RenameTmp, Place
    <2>2. \A q, r \in Proc : req'[q].at = "install" /\ req'[r].at = "install" => q = r
      BY <2>1, NoneInstalls
    <2>3. tmp' \in File /\ staged' \in File
      BY <1>6, FileTypes DEF RenameTmp, TypeOK
    <2> QED  BY <1>6, <2>1, <2>2, <2>3 DEF RenameTmp, TypeOK, host, guest, Request
  <1>7. CASE WriteYAML(p)
    <2>1. /\ req' \in [Proc -> Request] /\ req'[p].at = "start"
          /\ \A q \in Proc \ {p} : req'[q] = req[q]
      BY <1>7, GotoType DEF WriteYAML, Place
    <2>2. \A q, r \in Proc : req'[q].at = "install" /\ req'[r].at = "install" => q = r
      BY <2>1, NoneInstalls
    <2> QED  BY <1>7, <2>1, <2>2 DEF WriteYAML, TypeOK, files, guest, Request
  <1> QED  BY <1>1, <1>2, <1>3, <1>4, <1>5, <1>6, <1>7

LEMMA StartType ==
    ASSUME TypeOK, VMStartAssumption, NEW p \in Proc,
           \/ StartNone(p) \/ StartChanged(p) \/ StartExisting(p)
           \/ ClearTable(p) \/ CreateInstance(p)
    PROVE  TypeOK'
  <1>1. /\ NoInstance \in Instance /\ Closed \in [Port -> {"nobody", "vm", "other"}]
        /\ fwd \in Port /\ yaml \in Port /\ vm \in Instance /\ vm.port \in Port
    BY FileTypes, ClosedType DEF TypeOK, Instance
  <1>2. /\ req' \in [Proc -> Request] /\ req'[p].at # "install"
        /\ \A q \in Proc \ {p} : req'[q] = req[q]
    BY GotoType, FinishType
      DEF StartNone, StartChanged, StartExisting, ClearTable, CreateInstance, Place
  <1>3. \A q, r \in Proc : req'[q].at = "install" /\ req'[r].at = "install" => q = r
    BY <1>2, NoneInstalls
  <1>4. CASE StartNone(p) \/ ClearTable(p)
    BY <1>1, <1>2, <1>3, <1>4 DEF StartNone, ClearTable, TypeOK, host, files, Request
  <1>5. CASE StartChanged(p)
    BY <1>1, <1>2, <1>3, <1>5 DEF StartChanged, DeleteInstance, TypeOK, files, Request
  <1>6. CASE StartExisting(p)
    <2>1. /\ vm' \in Instance /\ owner' \in [Port -> {"nobody", "vm", "other"}]
          /\ torn' \in BOOLEAN /\ inVM' \in BOOLEAN /\ invalid' \in BOOLEAN
      <3>1. CASE DeleteInstance /\ invalid' = TRUE /\ UNCHANGED torn
        BY <1>1, <3>1 DEF DeleteInstance, TypeOK
      <3>2. CASE Boot(vm.port) /\ UNCHANGED <<inVM, invalid>>
        BY <1>1, <3>2, BootType DEF TypeOK
      <3>3. CASE UNCHANGED <<vm, owner, torn, inVM, invalid>>
        BY <3>3 DEF TypeOK
      <3> QED  BY <1>6, <3>1, <3>2, <3>3 DEF StartExisting
    <2> QED  BY <1>2, <1>3, <1>6, <2>1 DEF StartExisting, TypeOK, files, Request
  <1>7. CASE CreateInstance(p)
    <2>1. /\ vm' \in Instance /\ owner' \in [Port -> {"nobody", "vm", "other"}]
          /\ {moved', raced', torn'} \subseteq BOOLEAN
      <3>1. CASE Boot(yaml) /\ Settled
        BY <1>1, <3>1, BootType DEF Settled, TypeOK
      <3>2. CASE UNCHANGED <<vm, owner, moved, raced, torn>>
        BY <3>2 DEF TypeOK
      <3>3. CASE /\ vm' = [NoInstance EXCEPT !.state = "partial"]
                 /\ UNCHANGED <<owner, moved, raced, torn>>
        BY <1>1, <3>3 DEF TypeOK, Instance
      <3> QED  BY <1>7, <3>1, <3>2, <3>3 DEF CreateInstance
    <2> QED  BY <1>2, <1>3, <1>7, <2>1 DEF CreateInstance, TypeOK, files, Request
  <1> QED  BY <1>4, <1>5, <1>6, <1>7

LEMMA SyncType ==
    ASSUME TypeOK, VMStartAssumption, NEW p \in Proc,
           Sync(p) \/ Install(p) \/ WaitHealth(p) \/ Use(p)
    PROVE  TypeOK'
  <1>1. staged.version \in {0} \cup Version /\ Whole(staged) \in BOOLEAN
    BY FileTypes
  <1>2. CASE Sync(p)
    <2> DEFINE r == [at |-> "install", sum |-> IF Whole(staged) THEN staged.version ELSE 0]
    <2>1. r \in Request
      BY <1>1 DEF Request, Place
    <2>2. /\ req' \in [Proc -> Request]
          /\ \A q \in Proc \ {p} : req'[q] = req[q]
          /\ syncSum' \in {0} \cup Version
      BY <1>1, <1>2, <2>1, SetRequest, GotoType DEF Sync, Place, TypeOK
    <2>3. \A q \in Proc \ {p} : req'[q].at # "install"
      BY <1>2, <2>2 DEF Sync, Syncing
    <2>4. \A q, t \in Proc : req'[q].at = "install" /\ req'[t].at = "install" => q = t
      BY <2>3
    <2> QED  BY <1>2, <2>2, <2>4 DEF Sync, TypeOK, host, guest, Request
  <1>3. CASE Install(p)
    <2> DEFINE r == [at |-> "health", sum |-> 0]
    <2>1. r \in Request
      BY DEF Request, Place
    <2>2. /\ req' \in [Proc -> Request] /\ req'[p].at # "install"
          /\ \A q \in Proc \ {p} : req'[q] = req[q]
          /\ syncSum' \in {0} \cup Version
      BY <1>1, <1>3, <2>1, SetRequest, FinishType DEF Install, TypeOK
    <2>3. \A q, t \in Proc : req'[q].at = "install" /\ req'[t].at = "install" => q = t
      BY <2>2, NoneInstalls
    <2>4. vm' \in Instance
      BY <1>1, <1>3 DEF Install, TypeOK, Instance
    <2>5. torn' \in BOOLEAN
      BY <1>1, <1>3 DEF Install, TypeOK
    <2> QED  BY <1>3, <2>2, <2>3, <2>4, <2>5 DEF Install, TypeOK, host, Request
  <1>4. CASE WaitHealth(p) \/ Use(p)
    <2>1. /\ req' \in [Proc -> Request] /\ req'[p].at # "install"
          /\ \A q \in Proc \ {p} : req'[q] = req[q]
      BY <1>4, GotoType, FinishType DEF WaitHealth, Use, Place
    <2>2. \A q, t \in Proc : req'[q].at = "install" /\ req'[t].at = "install" => q = t
      BY <2>1, NoneInstalls
    <2> QED  BY <1>4, <2>1, <2>2 DEF WaitHealth, Use, TypeOK, host, files, guest, Request
  <1> QED  BY <1>2, <1>3, <1>4

LEMMA SurroundingsType ==
    ASSUME TypeOK, VMStartAssumption, StopVM \/ RestartDaemon \/ \E x \in Port : TakePort(x)
    PROVE  TypeOK'
  <1>1. events' \in 0 .. MaxEvents
    BY DEF StopVM, RestartDaemon, TakePort, Event, TypeOK, VMStartAssumption
  <1>2. CASE StopVM
    <2>1. vm' \in Instance /\ owner' \in [Port -> {"nobody", "vm", "other"}]
      BY <1>2, ClosedType DEF StopVM, TypeOK, Instance
    <2> QED  BY <1>1, <1>2, <2>1 DEF StopVM, TypeOK, files
  <1>3. CASE RestartDaemon
    <2>1. tmp' \in File /\ staged' \in File
      BY <1>3, FileTypes DEF RestartDaemon, TypeOK
    <2>2. version' \in Version
      BY <1>3 DEF RestartDaemon
    <2>3. /\ req' \in [Proc -> Request]
          /\ \A q, t \in Proc : req'[q].at = "install" /\ req'[t].at = "install" => q = t
      BY <1>3 DEF RestartDaemon, Free, Request, Place
    <2>4. cut' \in BOOLEAN
      BY <1>3 DEF RestartDaemon, TypeOK
    <2> QED  BY <1>1, <1>3, <2>1, <2>2, <2>3, <2>4 DEF RestartDaemon, TypeOK, host, Request
  <1>4. CASE \E x \in Port : TakePort(x)
    BY <1>1, <1>4 DEF TakePort, TypeOK, files, guest
  <1> QED  BY <1>2, <1>3, <1>4

\* The type invariant is inductive.
LEMMA StepType == TypeOK /\ VMStartAssumption /\ [Next]_vars => TypeOK'
  <1> SUFFICES ASSUME TypeOK, VMStartAssumption, [Next]_vars PROVE TypeOK'
    OBVIOUS
  <1>1. CASE UNCHANGED vars
    BY <1>1 DEF vars, TypeOK
  <1>2. ASSUME NEW p \in Proc, Begin(p) \/ Handle(p)  PROVE TypeOK'
    BY <1>2, PrepareType, StartType, SyncType DEF Handle
  <1> QED  BY <1>1, <1>2, SurroundingsType DEF Next

LEMMA InitType == Init /\ VMStartAssumption => TypeOK
  <1> SUFFICES ASSUME Init, VMStartAssumption PROVE TypeOK
    OBVIOUS
  <1>1. NoFile \in File /\ NoInstance \in Instance
    BY DEF VMStartAssumption, NoFile, File, NoInstance, Instance
  <1>2. Free \in [at: Place, sum: {0} \cup Version]
    BY DEF Free, Place
  <1>3. version \in Version /\ 0 \in 0 .. MaxEvents
    BY DEF Init, VMStartAssumption, Version
  <1>4. \A p \in Proc : req[p].at = "free"
    BY DEF Init, Free
  <1> QED  BY <1>1, <1>2, <1>3, <1>4 DEF Init, VMStartAssumption, TypeOK

\* Type correctness, and at most one handler in the section of
\* guestRunnerSyncMu that installs a binary.
THEOREM VMStartTypes == Spec => []TypeOK
  BY InitType, StepType, VMStartAssumption, PTL DEF Spec

-----------------------------------------------------------------------------
(* The table of services                                                   *)

\* A handler about to empty the table stays there while others work.
LEMMA StillClears ==
    ASSUME NEW p \in Proc, \A q \in Proc \ {p} : req'[q] = req[q],
           req[p].at # "clear" \/ req'[p].at = "clear",
           \E q \in Proc : req[q].at = "clear"
    PROVE  \E q \in Proc : req'[q].at = "clear"
  OBVIOUS

\* Only one process moves in a step of a handler.
LEMMA OneMoves ==
    ASSUME TypeOK, NEW p \in Proc, Begin(p) \/ Handle(p)
    PROVE  \A q \in Proc \ {p} : req'[q] = req[q]
  <1>1. ASSUME NEW place, Goto(p, place)  PROVE \A q \in Proc \ {p} : req'[q] = req[q]
    BY <1>1 DEF Goto, TypeOK
  <1>2. ASSUME NEW r, req' = [req EXCEPT ![p] = r]
        PROVE  \A q \in Proc \ {p} : req'[q] = req[q]
    BY <1>2 DEF TypeOK
  <1>3. ASSUME Finish(p)  PROVE \A q \in Proc \ {p} : req'[q] = req[q]
    BY <1>2, <1>3 DEF Finish
  <1>4. CASE Begin(p) \/ ReadState(p) \/ CheckPort(p) \/ PrepareAssets(p)
    BY <1>1, <1>4 DEF Begin, ReadState, CheckPort, PrepareAssets
  <1>5. CASE OpenTmp(p) \/ FinishCopy(p) \/ RenameTmp(p) \/ WriteYAML(p)
    BY <1>1, <1>3, <1>5 DEF OpenTmp, FinishCopy, RenameTmp, WriteYAML
  <1>6. CASE StartNone(p) \/ StartChanged(p) \/ StartExisting(p) \/ ClearTable(p)
    BY <1>1, <1>6 DEF StartNone, StartChanged, StartExisting, ClearTable
  <1>7. CASE CreateInstance(p) \/ Sync(p) \/ Install(p)
    BY <1>1, <1>2, <1>3, <1>7 DEF CreateInstance, Sync, Install
  <1>8. CASE WaitHealth(p) \/ Use(p)
    BY <1>1, <1>3, <1>8 DEF WaitHealth, Use
  <1> QED  BY <1>4, <1>5, <1>6, <1>7, <1>8 DEF Handle

LEMMA StepTable ==
    ASSUME TypeOK, TableIsTrue, [Next]_vars
    PROVE  TableIsTrue'
  <1>1. CASE UNCHANGED vars
    BY <1>1 DEF vars, TableIsTrue
  <1>2. ASSUME NEW p \in Proc, Begin(p) \/ Handle(p)  PROVE TableIsTrue'
    <2>1. \A q \in Proc \ {p} : req'[q] = req[q]
      BY <1>2, OneMoves
    <2>2. CASE ClearTable(p)
      BY <2>2 DEF ClearTable, TableIsTrue
    <2>3. CASE StartChanged(p)
      <3>1. req'[p].at = "clear"
        BY <2>3, GotoType DEF StartChanged, Place
      <3> QED  BY <3>1 DEF TableIsTrue
    <2>4. CASE StartExisting(p)
      <3>1. invalid' \/ UNCHANGED <<table, inVM, invalid, cut>>
        BY <2>4 DEF StartExisting
      <3>2. req[p].at # "clear"
        BY <2>4 DEF StartExisting
      <3> QED  BY <2>1, <3>1, <3>2, StillClears DEF TableIsTrue
    <2>5. CASE Use(p)
      <3>1. req[p].at # "clear" /\ UNCHANGED <<invalid, cut>>
        BY <2>5 DEF Use
      <3>2. (table' /\ inVM') \/ UNCHANGED <<table, inVM>>
        BY <2>5 DEF Use
      <3> QED  BY <2>1, <3>1, <3>2, StillClears DEF TableIsTrue
    <2>6. CASE \/ Begin(p) \/ ReadState(p) \/ CheckPort(p) \/ PrepareAssets(p)
               \/ OpenTmp(p) \/ FinishCopy(p) \/ RenameTmp(p) \/ WriteYAML(p)
      <3>1. req[p].at # "clear" /\ UNCHANGED <<table, inVM, invalid, cut>>
        BY <2>6 DEF Begin, Free, ReadState, CheckPort, PrepareAssets, OpenTmp, FinishCopy,
                    RenameTmp, WriteYAML, guest
      <3> QED  BY <2>1, <3>1, StillClears DEF TableIsTrue
    <2>7. CASE \/ StartNone(p) \/ CreateInstance(p) \/ Sync(p) \/ Install(p) \/ WaitHealth(p)
      <3>1. req[p].at # "clear" /\ UNCHANGED <<table, inVM, invalid, cut>>
        BY <2>7 DEF StartNone, CreateInstance, Sync, Install, WaitHealth, guest
      <3> QED  BY <2>1, <3>1, StillClears DEF TableIsTrue
    <2> QED  BY <1>2, <2>2, <2>3, <2>4, <2>5, <2>6, <2>7 DEF Handle
  <1>3. CASE StopVM \/ \E x \in Port : TakePort(x)
    BY <1>3 DEF StopVM, TakePort, guest, TableIsTrue
  <1>4. CASE RestartDaemon
    BY <1>4 DEF RestartDaemon, TableIsTrue
  <1> QED  BY <1>1, <1>2, <1>3, <1>4 DEF Next

\* The table never tells of containers that went with the VM, unless a handler
\* is about to empty it, was killed before it did, or the YAML was refused.
THEOREM VMStartTable == Spec => []TableIsTrue
  <1>1. Init => TableIsTrue
    BY DEF Init, TableIsTrue
  <1>2. Init => TypeOK
    BY InitType, VMStartAssumption
  <1>3. TypeOK /\ TableIsTrue /\ [Next]_vars => TypeOK' /\ TableIsTrue'
    BY StepType, StepTable, VMStartAssumption
  <1> QED  BY <1>1, <1>2, <1>3, PTL DEF Spec

-----------------------------------------------------------------------------
(* The port that leads to the guest                                        *)

\* When the port of the settings is not that of the YAML, or not that of the
\* instance, it has moved because something listened there.
PortInv ==
    /\ yaml # fwd => moved \/ raced
    /\ vm.state \in {"stopped", "running"} => vm.port = fwd \/ moved \/ raced

\* limactl start with the port of the YAML settles both.
LEMMA BootSettles ==
    ASSUME TypeOK, VMStartAssumption, PortInv, Boot(yaml), Settled, UNCHANGED <<yaml, fwd>>
    PROVE  PortInv'
  <1>1. vm'.port = yaml
    BY BootType DEF TypeOK
  <1> QED  BY <1>1 DEF PortInv, Settled

LEMMA StepPort ==
    ASSUME TypeOK, VMStartAssumption, PortInv, [Next]_vars
    PROVE  PortInv'
  <1>1. CASE UNCHANGED vars
    BY <1>1 DEF vars, PortInv
  <1>2. ASSUME NEW p \in Proc, Begin(p) \/ Handle(p)  PROVE PortInv'
    <2>1. CASE CheckPort(p)
      <3>1. fwd' = fwd \/ moved' \/ raced'
        BY <2>1 DEF CheckPort, TypeOK
      <3>2. UNCHANGED <<yaml, vm>>
        BY <2>1 DEF CheckPort, guest
      <3>3. (moved => moved') /\ (raced => raced')
        <4>1. CASE UNCHANGED <<moved, raced>>
          BY <4>1
        <4>2. CASE /\ moved' = (moved \/ owner[fwd] = "other")
                   /\ raced' = (raced \/ owner[fwd] = "vm")
          BY <4>2
        <4> QED  BY <2>1, <4>1, <4>2 DEF CheckPort
      <3> QED  BY <3>1, <3>2, <3>3 DEF PortInv
    <2>2. CASE WriteYAML(p)
      BY <2>2 DEF WriteYAML, guest, PortInv
    <2>3. CASE StartNone(p) \/ StartChanged(p)
      BY <2>3 DEF StartNone, StartChanged, DeleteInstance, NoInstance, host, PortInv
    <2>4. CASE StartExisting(p)
      <3>1. CASE Boot(vm.port)
        <4>1. vm'.port = vm.port /\ vm.state \in {"stopped", "running"}
          BY <2>4, <3>1, BootType DEF StartExisting, TypeOK, Instance
        <4> QED  BY <2>4, <4>1 DEF StartExisting, PortInv
      <3>2. CASE DeleteInstance
        BY <2>4, <3>2 DEF StartExisting, DeleteInstance, NoInstance, PortInv
      <3>3. CASE UNCHANGED vm
        BY <2>4, <3>3 DEF StartExisting, PortInv
      <3> QED  BY <2>4, <3>1, <3>2, <3>3 DEF StartExisting
    <2>5. CASE CreateInstance(p)
      <3>1. CASE Boot(yaml) /\ Settled
        BY <2>5, <3>1, BootSettles DEF CreateInstance
      <3>2. CASE UNCHANGED <<vm, moved, raced>>
        BY <2>5, <3>2 DEF CreateInstance, PortInv
      <3>3. CASE vm' = [NoInstance EXCEPT !.state = "partial"] /\ UNCHANGED <<moved, raced>>
        BY <2>5, <3>3 DEF CreateInstance, NoInstance, PortInv
      <3> QED  BY <2>5, <3>1, <3>2, <3>3 DEF CreateInstance
    <2>6. CASE Install(p)
      <3>1. vm'.state = vm.state /\ vm'.port = vm.port
        BY <2>6 DEF Install, TypeOK, Instance
      <3> QED  BY <2>6, <3>1 DEF Install, host, PortInv
    <2>7. CASE \/ Begin(p) \/ ReadState(p) \/ PrepareAssets(p) \/ OpenTmp(p) \/ FinishCopy(p)
               \/ RenameTmp(p) \/ ClearTable(p) \/ Sync(p) \/ WaitHealth(p) \/ Use(p)
      BY <2>7 DEF Begin, ReadState, PrepareAssets, OpenTmp, FinishCopy, RenameTmp, ClearTable,
                  Sync, WaitHealth, Use, host, guest, PortInv
    <2> QED  BY <1>2, <2>1, <2>2, <2>3, <2>4, <2>5, <2>6, <2>7 DEF Handle
  <1>3. CASE StopVM
    <2>1. vm.state = "running" /\ vm'.port = vm.port
      BY <1>3 DEF StopVM, TypeOK, Instance
    <2> QED  BY <1>3, <2>1 DEF StopVM, PortInv
  <1>4. CASE RestartDaemon \/ \E x \in Port : TakePort(x)
    BY <1>4 DEF RestartDaemon, TakePort, host, guest, PortInv
  <1> QED  BY <1>1, <1>2, <1>3, <1>4 DEF Next

\* The VM loses its containers only if the port that leads to it had been taken
\* since it was created, or limactl refuses the YAML in this step.
THEOREM VMStartSurvive == Spec => ServicesSurvive
  <1>1. Init => PortInv
    BY DEF Init, NoInstance, PortInv
  <1>2. Init => TypeOK
    BY InitType, VMStartAssumption
  <1>3. TypeOK /\ PortInv /\ [Next]_vars => TypeOK' /\ PortInv'
    BY StepType, StepPort, VMStartAssumption
  <1>4. PortInv /\ [Next]_vars => [inVM /\ ~inVM' => moved \/ raced \/ invalid']_vars
    <2> SUFFICES ASSUME PortInv, Next, inVM, ~inVM'  PROVE moved \/ raced \/ invalid'
      BY DEF vars
    <2>1. ASSUME NEW p \in Proc, Begin(p) \/ Handle(p)  PROVE moved \/ raced \/ invalid'
      <3>1. CASE StartChanged(p)
        BY <3>1 DEF StartChanged, NeedsRecreate, PortInv
      <3>2. CASE StartExisting(p)
        BY <3>2 DEF StartExisting
      <3>3. CASE ~StartChanged(p) /\ ~StartExisting(p)
        <4>1. inVM' = inVM \/ inVM'
          BY <2>1, <3>3
            DEF Handle, Begin, ReadState, CheckPort, PrepareAssets, OpenTmp, FinishCopy, RenameTmp,
                WriteYAML, StartNone, ClearTable, CreateInstance, Sync, Install, WaitHealth, Use,
                guest
        <4> QED  BY <4>1
      <3> QED  BY <3>1, <3>2, <3>3
    <2>2. CASE StopVM \/ RestartDaemon \/ \E x \in Port : TakePort(x)
      BY <2>2 DEF StopVM, RestartDaemon, TakePort, guest
    <2> QED  BY <2>1, <2>2 DEF Next
  <1> QED  BY <1>1, <1>2, <1>3, <1>4, PTL DEF Spec, ServicesSurvive

-----------------------------------------------------------------------------
(* The binary of the guest                                                 *)

\* The handlers that have staged the binary, and may go on to the guest.
Past == {"yaml", "start", "clear", "create", "sync", "install", "health", "ready"}

\* Every handler of this runnerd stages the binary of its version, whichever
\* of them wrote the file last; so every boot and every sync installs that one.
BinInv ==
    /\ \A p \in Proc : req[p].at \in {"copy", "rename"} => tmp = NoFile \/ tmp.version = version
    /\ \A p \in Proc : req[p].at \in Past => staged.version = version
    /\ \A p \in Proc : req[p].at \in {"health", "ready"} => syncSum # 0
    /\ syncSum # 0 => syncSum = version
    /\ vm.state = "running" /\ ~torn /\ syncSum # 0 => vm.whole /\ vm.bin = syncSum

\* A step that moves one handler, to where it may be, and leaves the files and
\* the VM alone.
LEMMA BinMoves ==
    ASSUME BinInv, NEW p \in Proc, \A q \in Proc \ {p} : req'[q] = req[q],
           UNCHANGED <<tmp, staged, version, syncSum, torn>>,
           UNCHANGED <<vm.state, vm.bin, vm.whole>>,
           req'[p].at \notin {"copy", "rename", "health"},
           req'[p].at \in Past => req[p].at \in Past,
           req'[p].at = "ready" => req[p].at = "health"
    PROVE  BinInv'
  <1>1. \A q \in Proc : req'[q].at \in {"copy", "rename"} => tmp = NoFile \/ tmp.version = version
    BY DEF BinInv
  <1>2. \A q \in Proc : req'[q].at \in Past => staged.version = version
    BY DEF BinInv
  <1>3. \A q \in Proc : req'[q].at \in {"health", "ready"} => syncSum # 0
    BY DEF BinInv
  <1> QED  BY <1>1, <1>2, <1>3 DEF BinInv

\* A boot installs the staged binary, which is the one the sum tells of.
LEMMA BinBoots ==
    ASSUME TypeOK, BinInv, NEW p \in Proc, NEW port \in Port, Boot(port),
           \A q \in Proc \ {p} : req'[q] = req[q],
           UNCHANGED <<tmp, staged, version, syncSum>>,
           req[p].at \in Past, req'[p].at = "sync"
    PROVE  BinInv'
  <1>1. staged.version = version
    BY DEF BinInv
  <1>2. vm'.bin = staged.version /\ vm'.whole = Whole(staged)
    BY DEF Boot
  <1>3. ~torn' => Whole(staged)
    BY DEF Boot
  <1>4. \A q \in Proc : req'[q].at \in {"copy", "rename"} => tmp = NoFile \/ tmp.version = version
    BY DEF BinInv
  <1>5. \A q \in Proc : req'[q].at \in {"health", "ready"} => syncSum # 0
    BY DEF BinInv
  <1>6. syncSum # 0 => syncSum = version
    BY DEF BinInv
  <1> QED  BY <1>1, <1>2, <1>3, <1>4, <1>5, <1>6 DEF BinInv

LEMMA StagingSteps ==
    ASSUME TypeOK, VMStartAssumption, BinInv, NEW p \in Proc,
           OpenTmp(p) \/ FinishCopy(p) \/ RenameTmp(p)
    PROVE  BinInv'
  <1>1. \A q \in Proc \ {p} : req'[q] = req[q]
    BY OneMoves DEF Handle
  <1>2. UNCHANGED <<version, syncSum, vm, torn>>
    BY DEF OpenTmp, FinishCopy, RenameTmp, guest
  <1>3. CASE OpenTmp(p)
    <2>1. tmp'.version = version /\ staged' = staged
      BY <1>3 DEF OpenTmp
    <2>2. req'[p].at = "copy"
      BY <1>3, GotoType DEF OpenTmp, Place
    <2> QED  BY <1>1, <1>2, <2>1, <2>2 DEF BinInv, Past
  <1>4. CASE FinishCopy(p)
    <2>1. req[p].at = "copy" /\ req'[p].at = "rename"
      BY <1>4, GotoType DEF FinishCopy, Place
    <2>2. tmp' = IF tmp.by = p THEN [tmp EXCEPT !.by = Nobody, !.whole = TRUE] ELSE tmp
      BY <1>4 DEF FinishCopy
    <2>3. staged' = IF staged.by = p THEN [staged EXCEPT !.by = Nobody, !.whole = TRUE] ELSE staged
      BY <1>4 DEF FinishCopy
    <2>4. tmp'.version = tmp.version /\ staged'.version = staged.version
      BY <2>2, <2>3 DEF TypeOK, File
    <2>5. tmp = NoFile => tmp' = NoFile
      BY <2>2, VMStartAssumption DEF NoFile, VMStartAssumption
    <2> QED  BY <1>1, <1>2, <2>1, <2>4, <2>5 DEF BinInv, Past
  <1>5. CASE RenameTmp(p)
    <2>1. CASE tmp = NoFile
      <3>1. req'[p].at = "free" /\ UNCHANGED <<tmp, staged>>
        BY <1>5, <2>1, FinishType DEF RenameTmp
      <3> QED  BY <1>1, <1>2, <3>1 DEF BinInv, Past
    <2>2. CASE tmp # NoFile
      <3>1. req'[p].at = "yaml" /\ staged' = tmp /\ tmp' = NoFile /\ req[p].at = "rename"
        BY <1>5, <2>2, GotoType DEF RenameTmp, Place
      <3>2. staged'.version = version
        BY <2>2, <3>1 DEF BinInv
      <3> QED  BY <1>1, <1>2, <3>1, <3>2 DEF BinInv, Past
    <2> QED  BY <2>1, <2>2
  <1> QED  BY <1>3, <1>4, <1>5

LEMMA StartSteps ==
    ASSUME TypeOK, VMStartAssumption, BinInv, NEW p \in Proc,
           StartNone(p) \/ StartChanged(p) \/ StartExisting(p) \/ CreateInstance(p)
    PROVE  BinInv'
  <1>1. \A q \in Proc \ {p} : req'[q] = req[q]
    BY OneMoves DEF Handle
  <1>2. UNCHANGED <<tmp, staged, version, syncSum>> /\ req[p].at \in {"start", "create"}
    BY DEF StartNone, StartChanged, StartExisting, CreateInstance, files
  <1>3. ASSUME vm'.state # "running", req'[p].at \in {"free", "create", "clear"}  PROVE BinInv'
    BY <1>1, <1>2, <1>3 DEF BinInv, Past
  <1>4. CASE StartNone(p)
    BY <1>3, <1>4, GotoType DEF StartNone, NoInstance, Place
  <1>5. CASE StartChanged(p)
    BY <1>3, <1>5, GotoType DEF StartChanged, DeleteInstance, NoInstance, Place
  <1>6. CASE StartExisting(p)
    <2>1. CASE Boot(vm.port) /\ Goto(p, "sync")
      <3>1. req'[p].at = "sync" /\ vm.port \in Port
        BY <2>1, GotoType DEF Place, TypeOK, Instance
      <3> QED  BY <1>1, <1>2, <2>1, <3>1, BinBoots DEF Past
    <2>2. CASE UNCHANGED <<vm, torn>> /\ Goto(p, "sync")
      <3>1. req'[p].at = "sync"
        BY <2>2, GotoType DEF Place
      <3> QED  BY <1>1, <1>2, <2>2, <3>1, BinMoves DEF Past
    <2>3. CASE DeleteInstance /\ Goto(p, "create")
      BY <1>3, <2>3, GotoType DEF DeleteInstance, NoInstance, Place
    <2> QED  BY <1>6, <2>1, <2>2, <2>3 DEF StartExisting
  <1>7. CASE CreateInstance(p)
    <2>1. CASE Boot(yaml) /\ Goto(p, "sync")
      <3>1. req'[p].at = "sync" /\ yaml \in Port
        BY <2>1, GotoType DEF Place, TypeOK
      <3> QED  BY <1>1, <1>2, <2>1, <3>1, BinBoots DEF Past
    <2>2. CASE UNCHANGED <<vm, torn>> /\ Finish(p)
      <3>1. req'[p].at = "free"
        BY <2>2, FinishType
      <3> QED  BY <1>1, <1>2, <2>2, <3>1, BinMoves DEF Past
    <2>3. CASE vm' = [NoInstance EXCEPT !.state = "partial"] /\ Finish(p)
      BY <1>3, <2>3, FinishType DEF NoInstance
    <2> QED  BY <1>7, <2>1, <2>2, <2>3 DEF CreateInstance
  <1> QED  BY <1>4, <1>5, <1>6, <1>7

LEMMA SyncSteps ==
    ASSUME TypeOK, VMStartAssumption, BinInv, NEW p \in Proc, Sync(p) \/ Install(p)
    PROVE  BinInv'
  <1>1. \A q \in Proc \ {p} : req'[q] = req[q]
    BY OneMoves DEF Handle
  <1>2. UNCHANGED <<tmp, staged, version>> /\ req[p].at \in {"sync", "install"}
    BY DEF Sync, Install
  <1>3. staged.version = version /\ version # 0
    BY <1>2, VMStartAssumption DEF BinInv, Past, TypeOK, VMStartAssumption, Version
  <1>4. ASSUME req'[p].at \in {"health", "free"}, syncSum' = version,
               vm'.state = "running" /\ ~torn' => vm'.whole /\ vm'.bin = version
        PROVE  BinInv'
    BY <1>1, <1>2, <1>3, <1>4 DEF BinInv, Past
  <1>5. CASE Sync(p)
    <2>1. CASE /\ (Whole(staged) /\ syncSum = staged.version) \/ Installed
               /\ syncSum' = staged.version
      <3>1. req'[p].at = "health"
        BY <1>5, <2>1, GotoType DEF Sync, Place
      <3> QED  BY <1>3, <1>4, <1>5, <2>1, <3>1 DEF Sync, Installed, guest, BinInv
    <2>2. ASSUME NEW n, req' = [req EXCEPT ![p] = [at |-> "install", sum |-> n]],
                 UNCHANGED syncSum
          PROVE  BinInv'
      <3>1. req'[p].at = "install"
        BY <2>2 DEF TypeOK
      <3> QED  BY <1>1, <1>2, <1>5, <2>2, <3>1, BinMoves DEF Sync, guest, Past
    <2> QED  BY <1>5, <2>1, <2>2 DEF Sync
  <1>6. CASE Install(p)
    <2>1. CASE vm.state = "running"
      <3>1. /\ vm'.bin = staged.version /\ vm'.whole = Whole(staged)
            /\ ~torn' => Whole(staged)
        BY <1>6, <2>1 DEF Install, TypeOK, Instance
      <3>2. CASE /\ syncSum' = staged.version
                 /\ req' = [req EXCEPT ![p] = [at |-> "health", sum |-> 0]]
        <4>1. req'[p].at = "health"
          BY <3>2 DEF TypeOK
        <4> QED  BY <1>3, <1>4, <3>1, <3>2, <4>1
      <3>3. CASE Finish(p) /\ UNCHANGED syncSum
        <4>1. req'[p].at = "free"
          BY <3>3, FinishType
        <4> QED  BY <1>1, <1>2, <1>3, <3>1, <3>3, <4>1 DEF BinInv, Past
      <3> QED  BY <1>6, <3>2, <3>3 DEF Install
    <2>2. CASE vm.state # "running"
      <3>1. req'[p].at = "free" /\ UNCHANGED <<vm, torn, syncSum>>
        BY <1>6, <2>2, FinishType DEF Install
      <3> QED  BY <1>1, <1>2, <3>1, BinMoves DEF Past
    <2> QED  BY <2>1, <2>2
  <1> QED  BY <1>5, <1>6

LEMMA StepBin ==
    ASSUME TypeOK, VMStartAssumption, BinInv, [Next]_vars
    PROVE  BinInv'
  <1>1. CASE UNCHANGED vars
    BY <1>1 DEF vars, BinInv, Past
  <1>2. ASSUME NEW p \in Proc, Begin(p) \/ Handle(p)  PROVE BinInv'
    <2>1. \A q \in Proc \ {p} : req'[q] = req[q]
      BY <1>2, OneMoves
    <2>2. CASE Begin(p) \/ ReadState(p) \/ CheckPort(p) \/ PrepareAssets(p)
      <3>1. req'[p].at \in {"state", "assets", "port", "open"}
        BY <2>2, GotoType DEF Begin, ReadState, CheckPort, PrepareAssets, Place
      <3> QED  BY <2>1, <2>2, <3>1, BinMoves
                 DEF Begin, ReadState, CheckPort, PrepareAssets, files, guest, Past
    <2>3. CASE WriteYAML(p) \/ ClearTable(p)
      <3>1. req'[p].at \in {"start", "create"} /\ req[p].at \in Past
        BY <2>3, GotoType DEF WriteYAML, ClearTable, Place, Past
      <3> QED  BY <2>1, <2>3, <3>1, BinMoves DEF WriteYAML, ClearTable, files, guest
    <2>4. CASE WaitHealth(p) \/ Use(p)
      <3>1. req'[p].at = "free" \/ (req'[p].at = "ready" /\ req[p].at = "health")
        BY <2>4, GotoType, FinishType DEF WaitHealth, Use, Place
      <3> QED  BY <2>1, <2>4, <3>1, BinMoves DEF WaitHealth, Use, files, guest, Past
    <2> QED  BY <1>2, <2>2, <2>3, <2>4, StagingSteps, StartSteps, SyncSteps DEF Handle
  <1>3. CASE StopVM
    <2>1. vm'.state = "stopped"
      BY <1>3 DEF StopVM, TypeOK, Instance
    <2> QED  BY <1>3, <2>1 DEF StopVM, files, BinInv
  <1>4. CASE RestartDaemon
    <2>1. \A q \in Proc : req'[q].at = "free"
      BY <1>4 DEF RestartDaemon, Free
    <2> QED  BY <1>4, <2>1 DEF RestartDaemon, BinInv, Past
  <1>5. CASE \E x \in Port : TakePort(x)
    BY <1>5 DEF TakePort, files, guest, BinInv
  <1> QED  BY <1>1, <1>2, <1>3, <1>4, <1>5 DEF Next

\* A handler that gets to the guest gets to the one this runnerd staged, and
\* the cached sum tells what the VM has.
THEOREM VMStartUpToDate == Spec => []GuestIsUpToDate
  <1>1. Init => BinInv
    BY DEF Init, Free, NoInstance, BinInv, Past
  <1>2. Init => TypeOK
    BY InitType, VMStartAssumption
  <1>3. TypeOK /\ BinInv /\ [Next]_vars => TypeOK' /\ BinInv'
    BY StepType, StepBin, VMStartAssumption
  <1>4. BinInv => GuestIsUpToDate
    BY DEF BinInv, GuestIsUpToDate
  <1> QED  BY <1>1, <1>2, <1>3, <1>4, PTL DEF Spec
=============================================================================
