--------------------------- MODULE ServicesProofs ---------------------------
(***************************************************************************)
(* Proofs about Services, for every set of services and processes, every   *)
(* choice of requests and every combination of faults.                     *)
(***************************************************************************)
EXTENDS Services, TLAPS

-----------------------------------------------------------------------------
(* Requests                                                                *)

RequestsOK ==
    /\ req \in [Proc -> Request]
    /\ \A p \in Proc : WellFormed(req[p])

\* One process gets a new well-formed request, the others keep theirs.
LEMMA SetRequest ==
    ASSUME NEW p \in Proc, NEW r \in Request, WellFormed(r), RequestsOK,
           req' = [req EXCEPT ![p] = r]
    PROVE  RequestsOK'
  <1>1. req' \in [Proc -> Request] /\ \A q \in Proc : req'[q] = IF q = p THEN r ELSE req[q]
    BY DEF RequestsOK
  <1>2. \A q \in Proc : WellFormed(req'[q])
    BY <1>1 DEF RequestsOK
  <1> QED  BY <1>1, <1>2 DEF RequestsOK

\* The places of every handler are places.
LEMMA PlacesOfPlaces == \A op : PlacesOf(op) \subseteq Places
  BY DEF PlacesOf, Places

\* Moving a request on to another place of its handler.
LEMMA GotoLemma ==
    ASSUME NEW p \in Proc, NEW place, RequestsOK, Goto(p, place),
           place \in PlacesOf(req[p].op),
           place \in {"slot", "upgrade", "session"} => req[p].copy \in Rec
    PROVE  /\ RequestsOK'
           /\ req' = [req EXCEPT ![p] = [req[p] EXCEPT !.at = place]]
           /\ req'[p].at = place
           /\ req'[p].op = req[p].op
           /\ req'[p].svc = req[p].svc
           /\ \A q \in Proc : q # p => req'[q] = req[q]
  <1> DEFINE r == [req[p] EXCEPT !.at = place]
  <1>1. req[p] \in Request /\ WellFormed(req[p]) /\ req \in [Proc -> Request]
    BY DEF RequestsOK
  <1>2. r \in Request
    BY <1>1, PlacesOfPlaces DEF Request
  <1>3. r.at = place /\ r.op = req[p].op /\ r.svc = req[p].svc /\ r.copy = req[p].copy
    BY <1>1 DEF Request
  <1>4. WellFormed(r)
    BY <1>1, <1>3 DEF WellFormed
  <1>5. req' = [req EXCEPT ![p] = r]
    BY <1>1 DEF Goto
  <1>6. RequestsOK'
    BY <1>2, <1>4, <1>5, SetRequest
  <1>7. req'[p] = r /\ \A q \in Proc : q # p => req'[q] = req[q]
    BY <1>1, <1>5
  <1> QED  BY <1>3, <1>5, <1>6, <1>7

\* The same when the copy is dropped.
LEMMA ContinueLemma ==
    ASSUME NEW p \in Proc, NEW place, RequestsOK, Continue(p, place),
           place \in PlacesOf(req[p].op),
           req[p].op \notin {"start", "resume"},
           place \notin {"slot", "upgrade", "session"}
    PROVE  /\ RequestsOK'
           /\ req'[p].at = place
           /\ req'[p].op = req[p].op
           /\ req'[p].svc = req[p].svc
           /\ \A q \in Proc : q # p => req'[q] = req[q]
  <1> DEFINE r == [req[p] EXCEPT !.at = place, !.copy = Absent]
  <1>1. req[p] \in Request /\ WellFormed(req[p]) /\ req \in [Proc -> Request]
    BY DEF RequestsOK
  <1>2. r \in Request
    BY <1>1, PlacesOfPlaces DEF Request
  <1>3. r.at = place /\ r.op = req[p].op /\ r.svc = req[p].svc
    BY <1>1 DEF Request
  <1>4. WellFormed(r)
    BY <1>1, <1>3 DEF WellFormed
  <1>5. req' = [req EXCEPT ![p] = r]
    BY <1>1 DEF Continue
  <1>6. RequestsOK'
    BY <1>2, <1>4, <1>5, SetRequest
  <1>7. req'[p] = r /\ \A q \in Proc : q # p => req'[q] = req[q]
    BY <1>1, <1>5
  <1> QED  BY <1>3, <1>6, <1>7

\* Finishing a request frees its process and touches no other.
LEMMA FinishLemma ==
    ASSUME NEW p \in Proc, RequestsOK, Finish(p)
    PROVE  /\ RequestsOK'
           /\ req'[p] = Free
           /\ \A q \in Proc : q # p => req'[q] = req[q]
  <1>1. Free \in Request
    BY DEF Free, Request, Places
  <1>2. WellFormed(Free)
    BY ConstantsAssumption DEF Free, WellFormed, PlacesOf
  <1>3. req \in [Proc -> Request]
    BY DEF RequestsOK
  <1> QED  BY <1>1, <1>2, <1>3, SetRequest DEF Finish

\* Accepting a request fills a free process.
LEMMA AcceptLemma ==
    ASSUME NEW p \in Proc, NEW op \in AllOps \ {"restart"}, NEW s \in Svc, NEW place,
           NEW copy \in Rec \cup {Absent}, RequestsOK, Accept(p, op, s, place, copy),
           place \in PlacesOf(op),
           op \in {"start", "resume"} \/ place \in {"slot", "upgrade", "session"}
             => copy \in Rec
    PROVE  /\ RequestsOK'
           /\ req[p] = Free
           /\ req'[p] = [op |-> op, at |-> place, svc |-> s, copy |-> copy]
           /\ \A q \in Proc : q # p => req'[q] = req[q]
  <1> DEFINE r == [op |-> op, at |-> place, svc |-> s, copy |-> copy]
  <1>1. r \in Request
    BY PlacesOfPlaces DEF Request
  <1>2. WellFormed(r)
    BY DEF WellFormed, AllOps
  <1>3. req \in [Proc -> Request]
    BY DEF RequestsOK
  <1> QED  BY <1>1, <1>2, <1>3, SetRequest DEF Accept

-----------------------------------------------------------------------------
(* The table and its file                                                  *)

TablesOK ==
    /\ table \in [Svc -> Rec \cup {Absent}]
    /\ disk \in [Svc -> Rec \cup {Absent}]

\* A table of records is stored, and saved or not.
LEMMA PersistLemma ==
    ASSUME NEW t \in [Svc -> Rec \cup {Absent}], TablesOK, Persist(t)
    PROVE  /\ TablesOK'
           /\ table' = t
           /\ disk' = t \/ disk' = disk
  BY DEF TablesOK, Persist

\* Storing a record changes the entry of that service only.
LEMMA StoreLemma ==
    ASSUME NEW s \in Svc, NEW r \in Rec \cup {Absent}, TablesOK, Store(s, r)
    PROVE  /\ TablesOK'
           /\ table'[s] = r
           /\ \A x \in Svc : x # s => table'[x] = table[x]
           /\ disk' = table' \/ disk' = disk
  <1> DEFINE t == [table EXCEPT ![s] = r]
  <1>1. t \in [Svc -> Rec \cup {Absent}]
    BY DEF TablesOK
  <1>2. Persist(t)
    BY DEF Store
  <1>3. TablesOK' /\ table' = t /\ (disk' = t \/ disk' = disk)
    BY <1>1, <1>2, PersistLemma
  <1> QED  BY <1>3 DEF TablesOK

\* A fresh record and a stopped record are records.
LEMMA NewRecType == \A b \in BOOLEAN : NewRec(b) \in Rec /\ NewRec(b) # Absent
  BY DEF NewRec, Rec, Absent

LEMMA StoppedType ==
    ASSUME NEW r \in Rec, NEW why \in {"manual", "idle_timeout"}
    PROVE  Stopped(r, why) \in Rec
  BY DEF Stopped, Rec

\* Recording a stop keeps a table of records, and touches one entry at most.
LEMMA RecordStopLemma ==
    ASSUME NEW s \in Svc, NEW why \in {"manual", "idle_timeout"}, TablesOK,
           RecordStop(s, why)
    PROVE  /\ TablesOK'
           /\ \A x \in Svc : x # s => table'[x] = table[x]
           /\ Recorded(s) => table'[s] = Stopped(table[s], why)
           /\ ~Recorded(s) => table'[s] = table[s]
           /\ disk' = table' \/ disk' = disk
  <1>1. CASE Recorded(s)
    <2>1. table[s] \in Rec
      BY <1>1 DEF Recorded, TablesOK
    <2>2. Stopped(table[s], why) \in Rec \cup {Absent}
      BY <2>1, StoppedType
    <2> QED  BY <1>1, <2>2, StoreLemma DEF RecordStop
  <1>2. CASE ~Recorded(s)
    BY <1>2 DEF RecordStop, TablesOK
  <1> QED  BY <1>1, <1>2

\* Deleting the instance loses its containers or, when limactl fails, none.
LEMMA DeleteVMLemma ==
    ASSUME TypeOK, NEW state \in {"running", "not_created"}, DeleteVM(state)
    PROVE  /\ vm' \in {"running", "stopped", "not_created"}
           /\ guest' = guest \/ guest' = NoGuest
           /\ guest' \in [Svc -> {"absent", "running", "stopped"}]
  <1>1. NoGuest \in [Svc -> {"absent", "running", "stopped"}]
    BY DEF NoGuest
  <1> QED  BY <1>1 DEF DeleteVM, TypeOK

\* Booting or recreating the VM, with or without success.
LEMMA EnsureLemma ==
    ASSUME TypeOK, EnsureVMRunning \/ EnsureGivesUp
    PROVE  /\ TablesOK'
           /\ vm' \in {"running", "stopped", "not_created"}
           /\ guest' = guest \/ guest' = NoGuest
           /\ guest' \in [Svc -> {"absent", "running", "stopped"}]
           /\ Persist(EmptyTable) \/ UNCHANGED <<table, disk>>
  <1>1. TablesOK /\ EmptyTable \in [Svc -> Rec \cup {Absent}]
    BY DEF TypeOK, TablesOK, EmptyTable
  <1>2. ASSUME NEW state \in {"running", "not_created"}, RebuildVM(state)
        PROVE  /\ TablesOK'
               /\ Persist(EmptyTable) \/ UNCHANGED <<table, disk>>
               /\ DeleteVM(state)
    BY <1>1, <1>2, PersistLemma DEF RebuildVM, TablesOK
  <1>3. CASE RebuildVM("running") \/ RebuildVM("not_created")
    BY <1>2, <1>3, DeleteVMLemma
  <1>4. CASE BootVM \/ UNCHANGED <<table, disk, vm, guest>>
    BY <1>1, <1>4 DEF BootVM, TablesOK, TypeOK
  <1> QED  BY <1>3, <1>4 DEF EnsureVMRunning, EnsureGivesUp, RecreateVM

\* Every answer of the guest daemon leaves each container in a known state.
LEMMA GuestDoesLemma ==
    ASSUME TypeOK, NEW op, NEW s \in Svc, GuestDoes(op, s)
    PROVE  /\ guest' \in [Svc -> {"absent", "running", "stopped"}]
           /\ \A x \in Svc : x # s => guest'[x] = guest[x]
           /\ op \in {"stop", "start", "resume", "delete"} /\ guest[s] = "absent"
                => guest'[s] = "absent"
           /\ op = "delete" => guest'[s] = "absent"
  BY DEF TypeOK, GuestDoes, HasContainer

-----------------------------------------------------------------------------
(* Type correctness                                                        *)

\* The type invariant, cut into the parts that actions touch together.
LEMMA TypeParts ==
    TypeOK <=> /\ TablesOK
               /\ RequestsOK
               /\ slots \subseteq Svc
               /\ reaper \in ReaperState
               /\ vm \in {"running", "stopped", "not_created"}
               /\ guest \in [Svc -> {"absent", "running", "stopped"}]
               /\ allocated \subseteq Svc
               /\ deleted \subseteq Svc
               /\ purged \subseteq Svc
  BY DEF TypeOK, TablesOK, RequestsOK

\* A request is about a service unless it restarts the VM or is not there.
LEMMA RequestFacts ==
    ASSUME TypeOK, NEW p \in Proc
    PROVE  /\ req[p] \in Request
           /\ req[p].at \in PlacesOf(req[p].op)
           /\ req[p].at \notin {"free", "limastop", "limadelete", "ensure"} => req[p].svc \in Svc
           /\ req[p].op \notin {"none", "restart"} => req[p].svc \in Svc
           /\ req[p].op \in {"start", "resume"} => req[p].copy \in Rec
           /\ req[p].at \in {"slot", "upgrade", "session"} => req[p].copy \in Rec
           /\ req[p].at \in {"slot", "upgrade", "session", "dial", "chatting", "touch",
                             "release"} => req[p].op = "chat"
           /\ req[p].at \in {"vmstate", "forget"} => req[p].op = "delete"
           /\ req[p].at \in {"call", "commit"}
                => req[p].op \in {"create", "delete", "stop", "start", "resume"}
           /\ req[p].at \in {"limastop", "limadelete"} => req[p].op = "restart"
  <1>1. req[p] \in Request /\ WellFormed(req[p])
    BY DEF TypeOK
  <1>2. req[p].op \in AllOps \cup {"none"} /\ req[p].at \in PlacesOf(req[p].op)
    BY <1>1 DEF Request, WellFormed
  <1>3. /\ req[p].at \in {"slot", "upgrade", "session", "dial", "chatting", "touch",
                          "release"} => req[p].op = "chat"
        /\ req[p].at \in {"vmstate", "forget"} => req[p].op = "delete"
        /\ req[p].at \in {"call", "commit"}
             => req[p].op \in {"create", "delete", "stop", "start", "resume"}
        /\ req[p].at \in {"limastop", "limadelete"} => req[p].op = "restart"
        /\ req[p].op = "none" => req[p].at = "free"
        /\ req[p].op = "restart" => req[p].at \in {"limastop", "limadelete", "ensure"}
    BY <1>2 DEF PlacesOf, AllOps
  <1> QED  BY <1>1, <1>2, <1>3 DEF WellFormed

\* Accepting a request keeps the types.
LEMMA BeginType ==
    ASSUME TypeOK, NEW p \in Proc, Begin(p)
    PROVE  TypeOK'
  <1>1. TablesOK /\ RequestsOK /\ Absent \in Rec \cup {Absent}
    BY DEF TypeOK, TablesOK, RequestsOK
  <1>2. \A s \in Svc : Recorded(s) => table[s] \in Rec /\ NewRec(table[s].session) \in Rec
    BY NewRecType DEF TypeOK, Recorded, Rec
  <1>3. PlacesOf("create") = {"ensure", "call", "commit"}
        /\ "vmstate" \in PlacesOf("delete") /\ "ensure" \in PlacesOf("stop")
        /\ "ensure" \in PlacesOf("start") /\ "ensure" \in PlacesOf("resume")
        /\ "slot" \in PlacesOf("chat") /\ "limastop" \in PlacesOf("restart")
    BY DEF PlacesOf
  <1>4. CASE BeginCreate(p)
    <2>1. PICK s \in Svc : /\ Accept(p, "create", s, "ensure", Absent)
                           /\ allocated' = allocated \cup {s}
      BY <1>4 DEF BeginCreate
    <2>2. RequestsOK'
      BY <1>1, <1>3, <2>1, AcceptLemma DEF AllOps
    <2> QED  BY <1>4, <2>1, <2>2 DEF BeginCreate, TypeOK, RequestsOK
  <1>5. CASE BeginDelete(p)
    <2>1. RequestsOK'
      BY <1>1, <1>3, <1>5, AcceptLemma DEF BeginDelete, AllOps
    <2> QED  BY <1>5, <2>1 DEF BeginDelete, TypeOK, RequestsOK, history
  <1>6. CASE BeginStop(p)
    <2>1. RequestsOK'
      BY <1>1, <1>3, <1>6, AcceptLemma DEF BeginStop, AllOps
    <2> QED  BY <1>6, <2>1 DEF BeginStop, TypeOK, RequestsOK, history
  <1>7. CASE BeginStart(p)
    <2>1. RequestsOK'
      BY <1>1, <1>2, <1>3, <1>7, AcceptLemma DEF BeginStart, AllOps
    <2> QED  BY <1>7, <2>1 DEF BeginStart, TypeOK, RequestsOK, history
  <1>8. CASE BeginResume(p)
    <2>1. RequestsOK'
      BY <1>1, <1>2, <1>3, <1>8, AcceptLemma DEF BeginResume, AllOps
    <2> QED  BY <1>8, <2>1 DEF BeginResume, TypeOK, RequestsOK, history
  <1>9. CASE BeginChat(p)
    <2>1. RequestsOK'
      BY <1>1, <1>2, <1>3, <1>9, AcceptLemma DEF BeginChat, AllOps
    <2> QED  BY <1>9, <2>1 DEF BeginChat, TypeOK, RequestsOK, history
  <1>10. CASE BeginRestart(p)
    <2> DEFINE r == [op |-> "restart", at |-> "limastop", svc |-> NoSvc, copy |-> Absent]
    <2>1. r \in Request
      BY DEF Request, AllOps, Places
    <2>2. WellFormed(r)
      BY <1>3, ConstantsAssumption DEF WellFormed
    <2>3. RequestsOK'
      BY <1>1, <1>10, <2>1, <2>2, SetRequest DEF BeginRestart, Accept
    <2> QED  BY <1>10, <2>3 DEF BeginRestart, TypeOK, RequestsOK, history
  <1> QED  BY <1>4, <1>5, <1>6, <1>7, <1>8, <1>9, <1>10 DEF Begin

\* The steps of an accepted request keep the types.
LEMMA HandleType ==
    ASSUME TypeOK, NEW p \in Proc, Handle(p)
    PROVE  TypeOK'
  <1> DEFINE place == req[p].at
             op == req[p].op
             s == req[p].svc
  <1>1. TablesOK /\ RequestsOK
    BY TypeParts
  <1>2. /\ place \in PlacesOf(op)
        /\ place \in {"vmstate", "forget", "call", "commit", "slot", "upgrade", "session",
                      "dial", "chatting", "touch", "release"} => s \in Svc
        /\ op \in {"start", "resume"} \/ place \in {"slot", "upgrade", "session"}
             => req[p].copy \in Rec
        /\ place \in {"slot", "upgrade", "session", "dial", "chatting", "touch",
                      "release"} => op = "chat"
        /\ place \in {"vmstate", "forget"} => op = "delete"
        /\ place \in {"call", "commit"}
             => op \in {"create", "delete", "stop", "start", "resume"}
        /\ place \in {"limastop", "limadelete"} => op = "restart"
        /\ op \in AllOps \cup {"none"}
    BY RequestFacts DEF Request
  <1>3. Absent \in Rec \cup {Absent} /\ TRUE \in BOOLEAN
    OBVIOUS
  <1>4. CASE DeleteReadsVMState(p)
    <2>1. PICK next \in {"ensure", "forget"} : Goto(p, next)
      BY <1>4 DEF DeleteReadsVMState
    <2>2. RequestsOK'
      BY <1>1, <1>2, <1>4, <2>1, GotoLemma DEF DeleteReadsVMState, PlacesOf
    <2> QED  BY <1>1, <1>4, <2>2 DEF TypeOK, RequestsOK, TablesOK, DeleteReadsVMState, history
  <1>5. CASE DeleteForgets(p)
    <2>1. TablesOK' /\ RequestsOK'
      BY <1>1, <1>2, <1>3, <1>5, StoreLemma, FinishLemma DEF DeleteForgets
    <2> QED  BY <1>2, <1>5, <2>1 DEF TypeOK, RequestsOK, TablesOK, DeleteForgets
  <1>6. CASE EnsureReady(p)
    <2>1. RequestsOK'
      <3>1. CASE op = "chat"
        BY <1>1, <1>6, <3>1, GotoLemma DEF EnsureReady, PlacesOf
      <3>2. CASE op = "restart"
        BY <1>1, <1>6, <3>2, FinishLemma DEF EnsureReady
      <3>3. CASE op \notin {"chat", "restart"}
        <4>1. op \notin {"none", "chat", "restart"} /\ "call" \in PlacesOf(op)
          BY <1>2, <1>6, <3>3 DEF EnsureReady, PlacesOf
        <4> QED  BY <1>1, <1>6, <4>1, GotoLemma DEF EnsureReady
      <3> QED  BY <3>1, <3>2, <3>3
    <2>2. /\ TablesOK' /\ vm' \in {"running", "stopped", "not_created"}
          /\ guest' \in [Svc -> {"absent", "running", "stopped"}]
      BY <1>6, EnsureLemma DEF EnsureReady
    <2> QED  BY <1>6, <2>1, <2>2 DEF TypeOK, RequestsOK, TablesOK, EnsureReady, history
  <1>7. CASE EnsureFails(p)
    <2>1. RequestsOK'
      <3>1. CASE op = "chat"
        BY <1>1, <1>7, <3>1, GotoLemma DEF EnsureFails, Fail, PlacesOf
      <3>2. CASE op # "chat"
        BY <1>1, <1>7, <3>2, FinishLemma DEF EnsureFails, Fail
      <3> QED  BY <3>1, <3>2
    <2>2. /\ TablesOK' /\ vm' \in {"running", "stopped", "not_created"}
          /\ guest' \in [Svc -> {"absent", "running", "stopped"}]
      BY <1>7, EnsureLemma DEF EnsureFails
    <2> QED  BY <1>7, <2>1, <2>2 DEF TypeOK, RequestsOK, TablesOK, EnsureFails, history
  <1>8. CASE GuestCall(p)
    <2>1. "commit" \in PlacesOf(op) /\ s \in Svc
      BY <1>2, <1>8 DEF GuestCall, PlacesOf
    <2>2. RequestsOK'
      BY <1>1, <1>8, <2>1, GotoLemma, FinishLemma DEF GuestCall
    <2>3. guest' \in [Svc -> {"absent", "running", "stopped"}]
      BY <1>8, <2>1, GuestDoesLemma DEF GuestCall
    <2> QED  BY <1>1, <1>8, <2>2, <2>3 DEF TypeOK, RequestsOK, TablesOK, GuestCall, history
  <1>9. CASE GuestCallFails(p)
    <2>1. RequestsOK' /\ s \in Svc
      BY <1>1, <1>2, <1>9, FinishLemma DEF GuestCallFails
    <2>2. guest' \in [Svc -> {"absent", "running", "stopped"}]
      BY <1>9, <2>1, GuestDoesLemma, TypeParts DEF GuestCallFails
    <2> QED  BY <1>1, <1>9, <2>1, <2>2 DEF TypeOK, RequestsOK, TablesOK, GuestCallFails, history
  <1>10. CASE CommitCreate(p)
    <2>1. TablesOK' /\ RequestsOK'
      BY <1>1, <1>2, <1>3, <1>10, NewRecType, StoreLemma, FinishLemma DEF CommitCreate
    <2> QED  BY <1>10, <2>1 DEF TypeOK, RequestsOK, TablesOK, CommitCreate, history
  <1>11. CASE CommitDelete(p)
    <2>1. TablesOK' /\ RequestsOK'
      BY <1>1, <1>2, <1>3, <1>11, StoreLemma, FinishLemma DEF CommitDelete
    <2> QED  BY <1>2, <1>11, <2>1 DEF TypeOK, RequestsOK, TablesOK, CommitDelete
  <1>12. CASE CommitStop(p)
    <2>1. TablesOK' /\ RequestsOK'
      BY <1>1, <1>2, <1>12, RecordStopLemma, FinishLemma DEF CommitStop
    <2> QED  BY <1>12, <2>1 DEF TypeOK, RequestsOK, TablesOK, CommitStop, history
  <1>13. CASE CommitStart(p)
    <2>1. TablesOK' /\ RequestsOK'
      BY <1>1, <1>2, <1>13, StoreLemma, FinishLemma DEF CommitStart
    <2> QED  BY <1>13, <2>1 DEF TypeOK, RequestsOK, TablesOK, CommitStart, history
  <1>14. CASE TakeSlot(p)
    <2>1. RequestsOK'
      BY <1>1, <1>2, <1>14, GotoLemma DEF TakeSlot, PlacesOf
    <2> QED  BY <1>1, <1>2, <1>14, <2>1 DEF TypeOK, RequestsOK, TablesOK, TakeSlot, history
  <1>15. CASE ChatBusy(p)
    <2>1. RequestsOK'
      BY <1>1, <1>15, FinishLemma DEF ChatBusy
    <2> QED  BY <1>1, <1>15, <2>1 DEF TypeOK, RequestsOK, TablesOK, ChatBusy, history
  <1>16. CASE Upgrade(p)
    <2>1. "ensure" \in PlacesOf(op) /\ "session" \in PlacesOf(op) /\ op = "chat"
      BY <1>2, <1>16 DEF Upgrade, PlacesOf
    <2>2. RequestsOK'
      BY <1>1, <1>2, <1>16, <2>1, GotoLemma, ContinueLemma DEF Upgrade
    <2> QED  BY <1>1, <1>16, <2>2 DEF TypeOK, RequestsOK, TablesOK, Upgrade, history
  <1>17. CASE UpgradeFails(p)
    <2>1. RequestsOK'
      BY <1>1, <1>17, FinishLemma DEF UpgradeFails
    <2> QED  BY <1>1, <1>17, <2>1 DEF TypeOK, RequestsOK, TablesOK, UpgradeFails, history
  <1>18. CASE AssignSession(p)
    <2>1. [req[p].copy EXCEPT !.session = TRUE] \in Rec /\ s \in Svc
      BY <1>2, <1>18 DEF AssignSession, Rec
    <2>2. "ensure" \in PlacesOf(op) /\ op = "chat"
      BY <1>2, <1>18 DEF AssignSession, PlacesOf
    <2>3. TablesOK' /\ RequestsOK'
      BY <1>1, <1>18, <2>1, <2>2, StoreLemma, ContinueLemma DEF AssignSession
    <2> QED  BY <1>18, <2>3 DEF TypeOK, RequestsOK, TablesOK, AssignSession, history
  <1>19. CASE Dial(p)
    <2>1. "chatting" \in PlacesOf(op) /\ "touch" \in PlacesOf(op)
      BY <1>2, <1>19 DEF Dial, PlacesOf
    <2>2. RequestsOK'
      BY <1>1, <1>19, <2>1, GotoLemma DEF Dial
    <2> QED  BY <1>1, <1>19, <2>2 DEF TypeOK, RequestsOK, TablesOK, Dial, history
  <1>20. CASE ChatEnds(p)
    <2>1. RequestsOK'
      BY <1>1, <1>2, <1>20, GotoLemma DEF ChatEnds, PlacesOf
    <2> QED  BY <1>1, <1>20, <2>1 DEF TypeOK, RequestsOK, TablesOK, ChatEnds, history
  <1>21. CASE TouchActivity(p)
    <2>1. RequestsOK' /\ s \in Svc
      BY <1>1, <1>2, <1>21, GotoLemma DEF TouchActivity, PlacesOf
    <2>2. TablesOK'
      <3>1. CASE Recorded(s)
        <4>1. [table[s] EXCEPT !.idle = FALSE] \in Rec
          BY <1>1, <2>1, <3>1 DEF Recorded, TablesOK, Rec
        <4> QED  BY <1>1, <1>21, <2>1, <3>1, <4>1, StoreLemma DEF TouchActivity
      <3>2. CASE ~Recorded(s)
        BY <1>1, <1>21, <3>2 DEF TouchActivity, TablesOK
      <3> QED  BY <3>1, <3>2
    <2> QED  BY <1>21, <2>1, <2>2 DEF TypeOK, RequestsOK, TablesOK, TouchActivity, history
  <1>22. CASE ReleaseSlot(p)
    <2>1. RequestsOK'
      BY <1>1, <1>22, FinishLemma DEF ReleaseSlot
    <2> QED  BY <1>1, <1>22, <2>1 DEF TypeOK, RequestsOK, TablesOK, ReleaseSlot, history
  <1>23. CASE RestartStopsVM(p)
    <2>1. PICK next \in {"limadelete", "ensure"} : Goto(p, next)
      BY <1>23 DEF RestartStopsVM
    <2>2. RequestsOK'
      BY <1>1, <1>2, <1>23, <2>1, GotoLemma DEF RestartStopsVM, PlacesOf
    <2>3. vm' \in {"running", "stopped", "not_created"}
      BY <1>23, TypeParts DEF RestartStopsVM
    <2> QED  BY <1>1, <1>23, <2>2, <2>3 DEF TypeOK, RequestsOK, TablesOK, RestartStopsVM, history
  <1>24. CASE RestartDeletesVM(p)
    <2>1. RequestsOK'
      BY <1>1, <1>2, <1>24, GotoLemma DEF RestartDeletesVM, PlacesOf
    <2>2. EmptyTable \in [Svc -> Rec \cup {Absent}]
      BY DEF EmptyTable
    <2>3. TablesOK'
      BY <1>1, <1>24, <2>2, PersistLemma DEF RestartDeletesVM
    <2>4. /\ vm' \in {"running", "stopped", "not_created"}
          /\ guest' \in [Svc -> {"absent", "running", "stopped"}]
      BY <1>24, DeleteVMLemma DEF RestartDeletesVM
    <2> QED  BY <1>24, <2>1, <2>3, <2>4 DEF TypeOK, RequestsOK, TablesOK, RestartDeletesVM, history
  <1> HIDE DEF place, op, s
  <1> QED
    BY <1>4, <1>5, <1>6, <1>7, <1>8, <1>9, <1>10, <1>11, <1>12, <1>13, <1>14, <1>15,
       <1>16, <1>17, <1>18, <1>19, <1>20, <1>21, <1>22, <1>23, <1>24 DEF Handle

\* The reaper keeps the types.
LEMMA ReaperType ==
    ASSUME TypeOK, ReaperTick \/ ReaperStep
    PROVE  TypeOK'
  <1>1. TablesOK /\ RequestsOK /\ reaper \in ReaperState
    BY TypeParts
  <1>2. CASE ReaperTick
    <2> DEFINE candidates == {s \in Svc : ShouldIdleStop(s)}
               awake == [at |-> "vmstate", held |-> candidates, left |-> candidates, cur |-> NoSvc]
    <2>1. Asleep \in ReaperState /\ awake \in ReaperState
      BY ConstantsAssumption DEF Asleep, ReaperState
    <2>2. slots' = slots \cup candidates /\ reaper' \in {Asleep, awake}
      BY <1>2 DEF ReaperTick
    <2>3. slots' \subseteq Svc /\ reaper' \in ReaperState
      BY <2>1, <2>2, TypeParts
    <2> HIDE DEF candidates, awake
    <2> QED  BY <1>2, <2>3 DEF ReaperTick, TypeOK, WellFormed, history
  <1>3. CASE ReaperReadsVMState
    <2>1. reaper' \in ReaperState
      BY <1>1, <1>3 DEF ReaperReadsVMState, ReaperState
    <2> QED  BY <1>3, <2>1 DEF ReaperReadsVMState, TypeOK, WellFormed, history
  <1>4. CASE ReaperEnsures
    <2>1. reaper' \in ReaperState
      BY <1>1, <1>4 DEF ReaperEnsures, ReaperState
    <2>2. /\ TablesOK' /\ vm' \in {"running", "stopped", "not_created"}
          /\ guest' \in [Svc -> {"absent", "running", "stopped"}]
      BY <1>4, EnsureLemma DEF ReaperEnsures
    <2> QED  BY <1>4, <2>1, <2>2 DEF ReaperEnsures, TypeOK, TablesOK, WellFormed, history
  <1>5. CASE ReaperEnsureFails
    <2>1. reaper' \in ReaperState
      BY <1>1, <1>5 DEF ReaperEnsureFails, ReaperState
    <2>2. /\ TablesOK' /\ vm' \in {"running", "stopped", "not_created"}
          /\ guest' \in [Svc -> {"absent", "running", "stopped"}]
      BY <1>5, EnsureLemma DEF ReaperEnsureFails
    <2> QED  BY <1>5, <2>1, <2>2 DEF ReaperEnsureFails, TypeOK, TablesOK, WellFormed, history
  <1>6. CASE ReaperStops
    <2>1. PICK s \in reaper.left : /\ GuestDoes("stop", s)
                                   /\ reaper' = [reaper EXCEPT !.at = "commit", !.cur = s]
      BY <1>6 DEF ReaperStops
    <2>2. s \in Svc /\ reaper' \in ReaperState
      BY <1>1, <2>1 DEF ReaperState
    <2>3. guest' \in [Svc -> {"absent", "running", "stopped"}]
      BY <2>1, <2>2, GuestDoesLemma
    <2> QED  BY <1>6, <2>2, <2>3 DEF ReaperStops, TypeOK, WellFormed, history
  <1>7. CASE ReaperStopFails
    <2>1. PICK s \in reaper.left : /\ guest' = guest \/ GuestDoes("stop", s)
                                   /\ reaper' = [reaper EXCEPT !.left = reaper.left \ {s}]
      BY <1>7 DEF ReaperStopFails
    <2>2. s \in Svc /\ reaper' \in ReaperState
      BY <1>1, <2>1 DEF ReaperState
    <2>3. guest' \in [Svc -> {"absent", "running", "stopped"}]
      BY <2>1, <2>2, GuestDoesLemma, TypeParts
    <2> QED  BY <1>7, <2>2, <2>3 DEF ReaperStopFails, TypeOK, WellFormed, history
  <1>8. CASE ReaperCommits
    <2>1. reaper' \in ReaperState
      BY ConstantsAssumption, <1>1, <1>8 DEF ReaperCommits, ReaperState
    <2>2. TablesOK'
      BY <1>1, <1>8, RecordStopLemma DEF ReaperCommits, ReaperState
    <2> QED  BY <1>8, <2>1, <2>2 DEF ReaperCommits, TypeOK, TablesOK, WellFormed, history
  <1>9. CASE ReaperUnlocks
    <2>1. reaper' \in ReaperState
      BY ConstantsAssumption, <1>9 DEF ReaperUnlocks, Asleep, ReaperState
    <2> QED  BY <1>9, <2>1 DEF ReaperUnlocks, TypeOK, WellFormed, history
  <1> QED
    BY <1>2, <1>3, <1>4, <1>5, <1>6, <1>7, <1>8, <1>9 DEF ReaperStep

\* Ageing keeps a record a record and the absence of one its absence.
LEMMA AgedType ==
    /\ \A r \in Rec : Aged(r) \in Rec
    /\ Aged(Absent) = Absent
    /\ \A r \in Rec \cup {Absent} : Aged(r) \in Rec \cup {Absent}
  BY DEF Aged, Rec

\* The environment keeps the types.
LEMMA EnvironmentType ==
    ASSUME TypeOK, Environment
    PROVE  TypeOK'
  <1>1. TablesOK /\ RequestsOK
    BY TypeParts
  <1>2. CASE TimeoutPasses
    <2>1. PICK s \in Timed :
            /\ table' = [table EXCEPT ![s] = Aged(table[s])]
            /\ disk' = [disk EXCEPT ![s] = Aged(disk[s])]
            /\ req' = [p \in Proc |-> IF req[p].svc = s /\ req[p].op = "chat"
                                      THEN [req[p] EXCEPT !.copy = Aged(req[p].copy)] ELSE req[p]]
      BY <1>2 DEF TimeoutPasses
    <2>2. TablesOK'
      BY <1>1, <2>1, AgedType, ConstantsAssumption DEF TablesOK
    <2>3. RequestsOK'
      <3>1. ASSUME NEW p \in Proc  PROVE req'[p] \in Request /\ WellFormed(req'[p])
        <4> DEFINE old == req[p]
                   new == [old EXCEPT !.copy = Aged(old.copy)]
        <4>1. old \in Request /\ WellFormed(old) /\ Aged(old.copy) \in Rec \cup {Absent}
          BY <1>1, AgedType DEF RequestsOK, Request
        <4>2. /\ new \in Request
              /\ new.op = old.op /\ new.at = old.at /\ new.svc = old.svc
              /\ new.copy = Aged(old.copy)
          BY <4>1 DEF Request
        <4>3. WellFormed(new)
          BY <4>1, <4>2, AgedType DEF WellFormed
        <4>4. req'[p] \in {old, new}
          BY <2>1
        <4> HIDE DEF old, new
        <4> QED  BY <4>1, <4>2, <4>3, <4>4
      <3> QED  BY <2>1, <3>1 DEF RequestsOK
    <2> QED  BY <1>2, <2>2, <2>3 DEF TimeoutPasses, TypeOK, TablesOK, RequestsOK, history
  <1>3. CASE VMStops
    BY <1>3 DEF VMStops, TypeOK, WellFormed, history
  <1>4. CASE CrashAndRestart
    <2>1. Free \in Request /\ WellFormed(Free) /\ Asleep \in ReaperState
      BY ConstantsAssumption DEF Free, Request, Places, WellFormed, PlacesOf, Asleep, ReaperState
    <2> QED  BY <1>4, <2>1 DEF CrashAndRestart, TypeOK, history
  <1> QED  BY <1>2, <1>3, <1>4 DEF Environment

\* The initial state has the right types.
LEMMA InitType == Init => TypeOK
  <1> SUFFICES ASSUME Init PROVE TypeOK
    OBVIOUS
  <1>1. Free \in Request /\ WellFormed(Free) /\ Asleep \in ReaperState
    BY ConstantsAssumption DEF Free, Request, Places, WellFormed, PlacesOf, Asleep, ReaperState
  <1>2. table \in [Svc -> Rec \cup {Absent}]
    BY NewRecType DEF Init
  <1> QED  BY <1>1, <1>2, ConstantsAssumption DEF Init, TypeOK

\* One step keeps the types.
LEMMA StepType == TypeOK /\ [Next]_vars => TypeOK'
  <1> SUFFICES ASSUME TypeOK, [Next]_vars PROVE TypeOK'
    OBVIOUS
  <1>1. CASE UNCHANGED vars
    BY <1>1 DEF vars, TypeOK, WellFormed
  <1>2. ASSUME NEW p \in Proc, Begin(p) \/ Handle(p)  PROVE TypeOK'
    BY <1>2, BeginType, HandleType
  <1> QED  BY <1>1, <1>2, ReaperType, EnvironmentType DEF Next

\* Type correctness: no interleaving of handlers, reaper passes, failures and
\* restarts makes a handler run at a foreign place, store a record it does not
\* have, or write a state or stop reason outside the documented ones.
THEOREM TypeCorrect == Spec => []TypeOK
  BY InitType, StepType, PTL DEF Spec

-----------------------------------------------------------------------------
(* One connection per service                                              *)

\* SlotExclusive speaks of the slots, of what the reaper holds, and of who holds
\* a slot for which service: a step that changes none of these keeps it.
LEMMA SlotFrame ==
    ASSUME SlotExclusive, slots' = slots, reaper'.held = reaper.held,
           \A p \in Proc : /\ HoldsSlot(p)' <=> HoldsSlot(p)
                           /\ HoldsSlot(p) => req'[p].svc = req[p].svc
    PROVE  SlotExclusive'
  BY DEF SlotExclusive

\* Steps of requests that neither take nor free a slot.
KeepsSlots(p) ==
    /\ slots' = slots
    /\ reaper' = reaper
    /\ \A q \in Proc : q # p => req'[q] = req[q]
    /\ HoldsSlot(p)' <=> HoldsSlot(p)
    /\ HoldsSlot(p) => req'[p].svc = req[p].svc

LEMMA KeepsSlotsLemma ==
    ASSUME SlotExclusive, NEW p \in Proc, KeepsSlots(p)
    PROVE  SlotExclusive'
  <1>1. \A q \in Proc : /\ HoldsSlot(q)' <=> HoldsSlot(q)
                        /\ HoldsSlot(q) => req'[q].svc = req[q].svc
    BY DEF KeepsSlots, HoldsSlot
  <1> QED  BY <1>1, SlotFrame DEF KeepsSlots

\* A new request holds no slot.
LEMMA BeginKeepsSlots ==
    ASSUME TypeOK, NEW p \in Proc, Begin(p)
    PROVE  KeepsSlots(p)
  <1>1. req \in [Proc -> Request] /\ req[p] = Free
    BY DEF TypeOK, Begin, BeginCreate, BeginDelete, BeginStop, BeginStart, BeginResume,
           BeginChat, BeginRestart, Accept
  <1>2. ~HoldsSlot(p)
    BY <1>1 DEF HoldsSlot, SlotPlaces, Free
  <1>3. PICK r : /\ req' = [req EXCEPT ![p] = r]
                 /\ r.at \in {"ensure", "vmstate", "slot", "limastop"}
                 /\ r.at = "ensure" => r.op # "chat"
    <2>1. ASSUME NEW op, NEW s, NEW place, NEW copy, Accept(p, op, s, place, copy),
                 place \in {"ensure", "vmstate", "slot", "limastop"}, place = "ensure" => op # "chat"
          PROVE  \E r : /\ req' = [req EXCEPT ![p] = r]
                        /\ r.at \in {"ensure", "vmstate", "slot", "limastop"}
                        /\ r.at = "ensure" => r.op # "chat"
      <3> WITNESS [op |-> op, at |-> place, svc |-> s, copy |-> copy]
      <3> QED  BY <2>1 DEF Accept
    <2>2. CASE BeginCreate(p)
      BY <2>1, <2>2 DEF BeginCreate
    <2>3. CASE BeginDelete(p)
      BY <2>1, <2>3 DEF BeginDelete
    <2>4. CASE BeginStop(p)
      BY <2>1, <2>4 DEF BeginStop
    <2>5. CASE BeginStart(p)
      BY <2>1, <2>5 DEF BeginStart
    <2>6. CASE BeginResume(p)
      BY <2>1, <2>6 DEF BeginResume
    <2>7. CASE BeginChat(p)
      BY <2>1, <2>7 DEF BeginChat
    <2>8. CASE BeginRestart(p)
      BY <2>1, <2>8 DEF BeginRestart
    <2> QED  BY <2>2, <2>3, <2>4, <2>5, <2>6, <2>7, <2>8 DEF Begin
  <1>4. ~HoldsSlot(p)'
    BY <1>1, <1>3 DEF HoldsSlot, SlotPlaces
  <1>5. slots' = slots /\ reaper' = reaper
    BY DEF Begin, BeginCreate, BeginDelete, BeginStop, BeginStart, BeginResume, BeginChat,
           BeginRestart
  <1> QED  BY <1>1, <1>2, <1>3, <1>4, <1>5 DEF KeepsSlots

\* Every other step of a handler keeps the slot it holds, or the lack of one.
LEMMA HandleKeepsSlots ==
    ASSUME TypeOK, NEW p \in Proc, Handle(p),
           ~TakeSlot(p), ~UpgradeFails(p), ~ReleaseSlot(p)
    PROVE  KeepsSlots(p)
  <1>1. req \in [Proc -> Request] /\ req[p] \in Request
    BY DEF TypeOK
  <1>2. /\ req[p].at \in {"slot", "upgrade", "session", "dial", "chatting", "touch",
                          "release"} => req[p].op = "chat"
        /\ req[p].at \in {"call", "commit"}
             => req[p].op \in {"create", "delete", "stop", "start", "resume"}
    BY RequestFacts
  <1>3. /\ \A place : Goto(p, place) => /\ req'[p].at = place /\ req'[p].op = req[p].op
                                        /\ req'[p].svc = req[p].svc
                                        /\ \A q \in Proc : q # p => req'[q] = req[q]
        /\ \A place : Continue(p, place) => /\ req'[p].at = place /\ req'[p].op = req[p].op
                                            /\ req'[p].svc = req[p].svc
                                            /\ \A q \in Proc : q # p => req'[q] = req[q]
        /\ Finish(p) => /\ req'[p].at = "free" /\ req'[p].op = "none"
                        /\ \A q \in Proc : q # p => req'[q] = req[q]
    BY <1>1 DEF Goto, Continue, Finish, Request, Free
  <1>4. CASE DeleteReadsVMState(p) \/ DeleteForgets(p)
    <2>1. req[p].op = "delete"
      BY <1>4, RequestFacts DEF DeleteReadsVMState, DeleteForgets
    <2> QED  BY <1>1, <1>3, <1>4, <2>1
             DEF DeleteReadsVMState, DeleteForgets, KeepsSlots, HoldsSlot, SlotPlaces
  <1>5. CASE EnsureReady(p)
    BY <1>3, <1>5 DEF EnsureReady, KeepsSlots, HoldsSlot, SlotPlaces
  <1>6. CASE EnsureFails(p)
    BY <1>3, <1>6 DEF EnsureFails, Fail, KeepsSlots, HoldsSlot, SlotPlaces
  <1>7. CASE GuestCall(p) \/ GuestCallFails(p)
    <2>1. req[p].op # "chat"
      BY <1>2, <1>7 DEF GuestCall, GuestCallFails
    <2> QED  BY <1>3, <1>7, <2>1
             DEF GuestCall, GuestCallFails, KeepsSlots, HoldsSlot, SlotPlaces
  <1>8. CASE CommitCreate(p) \/ CommitDelete(p) \/ CommitStop(p) \/ CommitStart(p)
    BY <1>3, <1>8
    DEF CommitCreate, CommitDelete, CommitStop, CommitStart, KeepsSlots, HoldsSlot, SlotPlaces
  <1>9. CASE ChatBusy(p)
    BY <1>3, <1>9 DEF ChatBusy, KeepsSlots, HoldsSlot, SlotPlaces
  <1>10. CASE Upgrade(p) \/ AssignSession(p)
    <2>1. req[p].op = "chat"
      BY <1>2, <1>10 DEF Upgrade, AssignSession
    <2> QED  BY <1>3, <1>10, <2>1
             DEF Upgrade, AssignSession, KeepsSlots, HoldsSlot, SlotPlaces
  <1>11. CASE Dial(p) \/ ChatEnds(p) \/ TouchActivity(p)
    BY <1>3, <1>11 DEF Dial, ChatEnds, TouchActivity, KeepsSlots, HoldsSlot, SlotPlaces
  <1>12. CASE RestartStopsVM(p) \/ RestartDeletesVM(p)
    <2>1. req[p].op = "restart"
      BY <1>12, RequestFacts DEF RestartStopsVM, RestartDeletesVM
    <2> QED  BY <1>3, <1>12, <2>1
             DEF RestartStopsVM, RestartDeletesVM, KeepsSlots, HoldsSlot, SlotPlaces
  <1> QED
    BY <1>4, <1>5, <1>6, <1>7, <1>8, <1>9, <1>10, <1>11, <1>12 DEF Handle

\* Taking a slot nobody holds.
LEMMA TakeSlotExclusive ==
    ASSUME TypeOK, SlotExclusive, NEW p \in Proc, TakeSlot(p)
    PROVE  SlotExclusive'
  <1> DEFINE s == req[p].svc
  <1>1. /\ req \in [Proc -> Request] /\ s \in Svc
        /\ req'[p].at = "upgrade" /\ req'[p].svc = s
        /\ \A q \in Proc : q # p => req'[q] = req[q]
    BY RequestFacts DEF TypeOK, TakeSlot, Goto, Request
  <1>2. s \notin slots /\ slots' = slots \cup {s} /\ reaper' = reaper
    BY DEF TakeSlot
  <1>3. HoldsSlot(p)' /\ \A q \in Proc : q # p => (HoldsSlot(q)' <=> HoldsSlot(q))
    BY <1>1 DEF HoldsSlot, SlotPlaces
  <1>4. ~HoldsSlot(p)
    BY RequestFacts DEF TakeSlot, HoldsSlot, SlotPlaces
  <1>5. s \notin reaper.held /\ \A q \in Proc : HoldsSlot(q) => req[q].svc # s
    BY <1>1, <1>2 DEF SlotExclusive
  <1> HIDE DEF s
  <1>6. (\A x \in Svc : x \in slots <=>
          (x \in reaper.held \/ \E q \in Proc : HoldsSlot(q) /\ req[q].svc = x))'
    BY <1>1, <1>2, <1>3, <1>4 DEF SlotExclusive
  <1>7. (\A q, r \in Proc : HoldsSlot(q) /\ HoldsSlot(r) /\ req[q].svc = req[r].svc => q = r)'
    BY <1>1, <1>3, <1>5 DEF SlotExclusive
  <1>8. (\A q \in Proc : HoldsSlot(q) => req[q].svc \notin reaper.held)'
    BY <1>1, <1>2, <1>3, <1>5 DEF SlotExclusive
  <1> QED  BY <1>6, <1>7, <1>8 DEF SlotExclusive

\* Giving a slot back that this handler holds.
LEMMA FreeSlotExclusive ==
    ASSUME TypeOK, SlotExclusive, NEW p \in Proc, UpgradeFails(p) \/ ReleaseSlot(p)
    PROVE  SlotExclusive'
  <1> DEFINE s == req[p].svc
  <1>1. /\ req \in [Proc -> Request] /\ s \in Svc
        /\ req'[p] = Free
        /\ \A q \in Proc : q # p => req'[q] = req[q]
    BY RequestFacts DEF TypeOK, UpgradeFails, ReleaseSlot, Finish
  <1>2. slots' = slots \ {s} /\ reaper' = reaper
    BY DEF UpgradeFails, ReleaseSlot
  <1>3. ~HoldsSlot(p)' /\ \A q \in Proc : q # p => (HoldsSlot(q)' <=> HoldsSlot(q))
    BY <1>1 DEF HoldsSlot, SlotPlaces, Free
  <1>4. HoldsSlot(p)
    BY DEF UpgradeFails, ReleaseSlot, HoldsSlot, SlotPlaces
  <1>5. s \notin reaper.held /\ \A q \in Proc : HoldsSlot(q) /\ req[q].svc = s => q = p
    BY <1>4 DEF SlotExclusive
  <1> HIDE DEF s
  <1>6. (\A x \in Svc : x \in slots <=>
          (x \in reaper.held \/ \E q \in Proc : HoldsSlot(q) /\ req[q].svc = x))'
    BY <1>1, <1>2, <1>3, <1>4, <1>5 DEF SlotExclusive, s
  <1>7. (\A q, r \in Proc : HoldsSlot(q) /\ HoldsSlot(r) /\ req[q].svc = req[r].svc => q = r)'
    BY <1>1, <1>3 DEF SlotExclusive
  <1>8. (\A q \in Proc : HoldsSlot(q) => req[q].svc \notin reaper.held)'
    BY <1>1, <1>2, <1>3 DEF SlotExclusive
  <1> QED  BY <1>6, <1>7, <1>8 DEF SlotExclusive

\* The reaper locks only free services, and frees exactly those it locked.
LEMMA ReaperSlotExclusive ==
    ASSUME TypeOK, SlotExclusive, ReaperTick \/ ReaperStep
    PROVE  SlotExclusive'
  <1>1. req' = req /\ \A p \in Proc : HoldsSlot(p)' <=> HoldsSlot(p)
    BY DEF ReaperTick, ReaperStep, ReaperReadsVMState, ReaperEnsures, ReaperEnsureFails,
           ReaperStops, ReaperStopFails, ReaperCommits, ReaperUnlocks, HoldsSlot
  <1>2. reaper \in ReaperState
    BY DEF TypeOK
  <1>3. CASE ReaperTick
    <2> DEFINE candidates == {s \in Svc : ShouldIdleStop(s)}
    <2>1. reaper.held = {} /\ slots' = slots \cup candidates /\ reaper'.held = candidates
      BY <1>3 DEF ReaperTick, Asleep
    <2>2. candidates \cap slots = {}
      BY DEF ShouldIdleStop
    <2> HIDE DEF candidates
    <2>3. (\A s \in Svc : s \in slots <=>
            (s \in reaper.held \/ \E p \in Proc : HoldsSlot(p) /\ req[p].svc = s))'
      BY <1>1, <2>1 DEF SlotExclusive
    <2>4. (\A p \in Proc : HoldsSlot(p) => req[p].svc \notin reaper.held)'
      <3>1. ASSUME NEW p \in Proc, HoldsSlot(p), req[p].svc \in candidates
            PROVE  FALSE
        BY <2>2, <3>1 DEF SlotExclusive, candidates
      <3> QED  BY <1>1, <2>1, <3>1
    <2>5. (\A p, q \in Proc : HoldsSlot(p) /\ HoldsSlot(q) /\ req[p].svc = req[q].svc => p = q)'
      BY <1>1 DEF SlotExclusive
    <2> QED  BY <2>3, <2>4, <2>5 DEF SlotExclusive
  <1>4. CASE ReaperUnlocks
    <2>1. slots' = slots \ reaper.held /\ reaper'.held = {}
      BY <1>4 DEF ReaperUnlocks, Asleep
    <2>2. (\A s \in Svc : s \in slots <=>
            (s \in reaper.held \/ \E p \in Proc : HoldsSlot(p) /\ req[p].svc = s))'
      BY <1>1, <2>1 DEF SlotExclusive
    <2>3. (\A p \in Proc : HoldsSlot(p) => req[p].svc \notin reaper.held)'
      BY <2>1
    <2>4. (\A p, q \in Proc : HoldsSlot(p) /\ HoldsSlot(q) /\ req[p].svc = req[q].svc => p = q)'
      BY <1>1 DEF SlotExclusive
    <2> QED  BY <2>2, <2>3, <2>4 DEF SlotExclusive
  <1>5. CASE ~ReaperTick /\ ~ReaperUnlocks
    <2>1. slots' = slots /\ reaper'.held = reaper.held
      BY <1>2, <1>5 DEF ReaperStep, ReaperReadsVMState, ReaperEnsures, ReaperEnsureFails,
                        ReaperStops, ReaperStopFails, ReaperCommits, ReaperState
    <2> QED  BY <1>1, <2>1, SlotFrame
  <1> QED  BY <1>3, <1>4, <1>5

\* Time and the VM touch no slot; a restart of the daemon frees all of them
\* together with their holders.
LEMMA EnvironmentSlotExclusive ==
    ASSUME TypeOK, SlotExclusive, Environment
    PROVE  SlotExclusive'
  <1>1. CASE TimeoutPasses
    <2>1. PICK s : req' = [p \in Proc |-> IF req[p].svc = s /\ req[p].op = "chat"
                                          THEN [req[p] EXCEPT !.copy = Aged(req[p].copy)] ELSE req[p]]
      BY <1>1 DEF TimeoutPasses
    <2>2. ASSUME NEW p \in Proc
          PROVE  req'[p].at = req[p].at /\ req'[p].op = req[p].op /\ req'[p].svc = req[p].svc
      BY <2>1, RequestFacts DEF Request
    <2>3. slots' = slots /\ reaper' = reaper
      BY <1>1 DEF TimeoutPasses
    <2> QED  BY <2>2, <2>3, SlotFrame DEF HoldsSlot
  <1>2. CASE VMStops
    BY <1>2, SlotFrame DEF VMStops, HoldsSlot
  <1>3. CASE CrashAndRestart
    BY <1>3 DEF CrashAndRestart, SlotExclusive, HoldsSlot, SlotPlaces, Free, Asleep
  <1> QED  BY <1>1, <1>2, <1>3 DEF Environment

\* Single connection per service, for any number of services and clients: a
\* chat slot is taken exactly while one chat handler or the reaper holds it, so
\* no path through the handlers leaks a slot or frees somebody else's.
THEOREM SingleConnection == Spec => []SlotExclusive
  <1>1. Init => SlotExclusive
    BY DEF Init, SlotExclusive, HoldsSlot, SlotPlaces, Free, Asleep
  <1>2. TypeOK /\ SlotExclusive /\ [Next]_vars => SlotExclusive'
    <2> SUFFICES ASSUME TypeOK, SlotExclusive, [Next]_vars PROVE SlotExclusive'
      OBVIOUS
    <2>1. CASE UNCHANGED vars
      BY <2>1, SlotFrame DEF vars, HoldsSlot
    <2>2. ASSUME NEW p \in Proc, Begin(p) \/ Handle(p)  PROVE SlotExclusive'
      BY <2>2, BeginKeepsSlots, HandleKeepsSlots, KeepsSlotsLemma, TakeSlotExclusive,
         FreeSlotExclusive
    <2> QED
      BY <2>1, <2>2, ReaperSlotExclusive, EnvironmentSlotExclusive DEF Next
  <1> QED  BY <1>1, <1>2, TypeCorrect, PTL DEF Spec

-----------------------------------------------------------------------------
(* Why a service is stopped                                                *)

\* The absence of a record counts as consistent.
Consistent(r) == r.state = "stopped" <=> r.reason # "none"

\* ReasonMatchesState is not inductive: services.json comes back after a crash,
\* and the copies handlers carry are stored later.  The copies are never those
\* of a stopped service, since chat refuses it and start and resume clear it.
ReasonInv ==
    /\ \A s \in Svc : Consistent(table[s]) /\ Consistent(disk[s])
    /\ \A p \in Proc : Consistent(req[p].copy) /\ req[p].copy.reason = "none"

LEMMA ConsistentRecords ==
    /\ Consistent(Absent)
    /\ \A b : Consistent(NewRec(b)) /\ NewRec(b).reason = "none"
    /\ \A r \in Rec \cup {Absent} : Consistent(r) => Consistent(Aged(r))
    /\ \A r \in Rec \cup {Absent} : Aged(r).reason = r.reason
    /\ \A r \in Rec, b \in BOOLEAN :
          Consistent(r) => /\ Consistent([r EXCEPT !.session = b])
                           /\ Consistent([r EXCEPT !.idle = b])
    /\ \A r \in Rec, why \in {"manual", "idle_timeout"} : Consistent(Stopped(r, why))
  BY DEF Consistent, Absent, NewRec, Aged, Stopped, Rec

\* A step that stores consistent records and carries on consistent copies.
LEMMA ReasonFrame ==
    ASSUME ReasonInv,
           \A s \in Svc : Consistent(table'[s]),
           disk' = table' \/ disk' = disk,
           \A p \in Proc : req'[p].copy \in {req[p].copy, Absent}
    PROVE  ReasonInv'
  <1>1. Consistent(Absent) /\ Absent.reason = "none"
    BY ConsistentRecords DEF Absent
  <1> QED  BY <1>1 DEF ReasonInv, Consistent

\* What a step that is not a crash does to the reasons in the table.
LEMMA StoredReasons ==
    ASSUME TypeOK, ReasonInv, NEW s \in Svc, NEW r \in Rec \cup {Absent}, Store(s, r),
           Consistent(r), r.reason = "none"
    PROVE  /\ \A x \in Svc : Consistent(table'[x])
           /\ \A x \in Svc : table'[x].reason \in {"none", table[x].reason}
           /\ disk' = table' \/ disk' = disk
  BY TypeParts, StoreLemma DEF ReasonInv

LEMMA RecordedReasons ==
    ASSUME TypeOK, ReasonInv, NEW s \in Svc, NEW why \in {"manual", "idle_timeout"},
           RecordStop(s, why)
    PROVE  /\ \A x \in Svc : Consistent(table'[x])
           /\ \A x \in Svc : table[x].reason = "manual" => table'[x].reason = "manual"
           /\ disk' = table' \/ disk' = disk
  <1>1. /\ \A x \in Svc : x # s => table'[x] = table[x]
        /\ Recorded(s) => table'[s] = Stopped(table[s], why)
        /\ ~Recorded(s) => table'[s] = table[s]
        /\ disk' = table' \/ disk' = disk
    BY TypeParts, RecordStopLemma
  <1>2. Recorded(s) => /\ table[s] \in Rec
                       /\ Consistent(Stopped(table[s], why))
                       /\ table[s].reason = "manual"
                            => Stopped(table[s], why).reason = "manual"
    BY ConsistentRecords DEF TypeOK, Recorded, Stopped, Rec
  <1> QED  BY <1>1, <1>2 DEF ReasonInv

\* Clearing the table, when the VM is created again.
LEMMA ClearedReasons ==
    ASSUME ReasonInv, Persist(EmptyTable) \/ UNCHANGED <<table, disk>>
    PROVE  /\ \A x \in Svc : Consistent(table'[x])
           /\ \A x \in Svc : table'[x].reason \in {"none", table[x].reason}
           /\ disk' = table' \/ disk' = disk
  <1>1. Consistent(Absent) /\ Absent.reason = "none"
    BY ConsistentRecords DEF Absent
  <1>2. CASE Persist(EmptyTable)
    <2>1. \A x \in Svc : table'[x] = Absent
      BY <1>2 DEF Persist, EmptyTable
    <2> QED  BY <1>1, <1>2, <2>1 DEF Persist
  <1>3. CASE UNCHANGED <<table, disk>>
    BY <1>3 DEF ReasonInv
  <1> QED  BY <1>2, <1>3

\* Every step but a crash keeps ReasonInv and never relabels a manual stop.
ReasonsKept ==
    /\ ReasonInv'
    /\ \A s \in Svc : table[s].reason = "manual" => table'[s].reason # "idle_timeout"

LEMMA BeginReasons ==
    ASSUME TypeOK, ReasonInv, NEW p \in Proc, Begin(p)
    PROVE  ReasonsKept
  <1>1. req \in [Proc -> Request] /\ table' = table /\ disk' = disk
    BY DEF TypeOK, Begin, BeginCreate, BeginDelete, BeginStop, BeginStart, BeginResume,
           BeginChat, BeginRestart
  <1> SUFFICES ReasonInv'
    BY <1>1 DEF ReasonsKept
  <1>2. ASSUME NEW op, NEW s, NEW place, NEW copy, Accept(p, op, s, place, copy),
               Consistent(copy), copy.reason = "none"
        PROVE  ReasonInv'
    BY <1>1, <1>2 DEF Accept, ReasonInv
  <1>3. Consistent(Absent) /\ Absent.reason = "none"
    BY ConsistentRecords DEF Absent
  <1>4. CASE BeginCreate(p) \/ BeginDelete(p) \/ BeginStop(p)
    BY <1>2, <1>3, <1>4 DEF BeginCreate, BeginDelete, BeginStop
  <1>5. CASE BeginStart(p) \/ BeginResume(p)
    BY <1>2, <1>5, ConsistentRecords DEF BeginStart, BeginResume
  <1>6. CASE BeginChat(p)
    BY <1>2, <1>6 DEF BeginChat, ReasonInv, Consistent
  <1>7. CASE BeginRestart(p)
    BY <1>2, <1>3, <1>7 DEF BeginRestart
  <1> QED  BY <1>1, <1>4, <1>5, <1>6, <1>7 DEF Begin

\* What a handler does to its copy.
LEMMA CopiesKept ==
    ASSUME TypeOK, NEW p \in Proc, Handle(p)
    PROVE  \A q \in Proc : req'[q].copy \in {req[q].copy, Absent}
  <1>1. req \in [Proc -> Request]
    BY DEF TypeOK
  <1>2. ASSUME NEW place, Goto(p, place) \/ Continue(p, place) \/ Finish(p)
        PROVE  \A q \in Proc : req'[q].copy \in {req[q].copy, Absent}
    BY <1>1, <1>2 DEF Goto, Continue, Finish, Request, Free
  <1>3. (\E place : Goto(p, place) \/ Continue(p, place)) \/ Finish(p)
    BY DEF Handle, DeleteReadsVMState, DeleteForgets, EnsureReady, EnsureFails, Fail,
           GuestCall, GuestCallFails, CommitCreate, CommitDelete, CommitStop, CommitStart,
           TakeSlot, ChatBusy, Upgrade, UpgradeFails, AssignSession, Dial, ChatEnds,
           TouchActivity, ReleaseSlot, RestartStopsVM, RestartDeletesVM
  <1> QED  BY <1>2, <1>3

LEMMA HandleReasons ==
    ASSUME TypeOK, ReasonInv, NEW p \in Proc, Handle(p)
    PROVE  ReasonsKept
  <1> DEFINE s == req[p].svc
             Kept == /\ \A x \in Svc : Consistent(table'[x])
                     /\ \A x \in Svc : table[x].reason = "manual"
                                         => table'[x].reason # "idle_timeout"
                     /\ disk' = table' \/ disk' = disk
  <1> SUFFICES Kept
    BY CopiesKept, ReasonFrame DEF ReasonsKept
  <1>1. /\ req[p].at \in {"forget", "commit", "session", "touch"} => s \in Svc
        /\ req[p].op \in {"start", "resume"} \/ req[p].at = "session" => req[p].copy \in Rec
        /\ req[p].copy \in Rec \cup {Absent}
    BY RequestFacts DEF Request
  <1>2. Consistent(Absent) /\ Absent.reason = "none" /\ Absent \in Rec \cup {Absent}
    BY ConsistentRecords DEF Absent
  <1>3. Consistent(req[p].copy) /\ req[p].copy.reason = "none"
    BY DEF ReasonInv
  <1>4. CASE UNCHANGED <<table, disk>>
    BY <1>4 DEF ReasonInv
  <1>5. CASE DeleteForgets(p) \/ CommitDelete(p)
    BY <1>1, <1>2, <1>5, StoredReasons DEF DeleteForgets, CommitDelete
  <1>6. CASE CommitCreate(p)
    BY <1>1, <1>6, ConsistentRecords, NewRecType, StoredReasons DEF CommitCreate
  <1>7. CASE CommitStart(p)
    BY <1>1, <1>3, <1>7, StoredReasons DEF CommitStart
  <1>8. CASE CommitStop(p)
    BY <1>1, <1>8, RecordedReasons DEF CommitStop
  <1>9. CASE AssignSession(p)
    <2> DEFINE r == [req[p].copy EXCEPT !.session = TRUE]
    <2>1. r \in Rec /\ Consistent(r) /\ r.reason = "none"
      BY <1>1, <1>3, <1>9, ConsistentRecords DEF AssignSession, Rec
    <2> QED  BY <1>1, <1>9, <2>1, StoredReasons DEF AssignSession
  <1>10. CASE TouchActivity(p) /\ Recorded(s)
    <2> DEFINE r == [table[s] EXCEPT !.idle = FALSE]
    <2>1. s \in Svc /\ Store(s, r)
      BY <1>1, <1>10 DEF TouchActivity
    <2>2. table[s] \in Rec
      BY <1>10, <2>1 DEF TypeOK, Recorded
    <2>3. r \in Rec /\ Consistent(r) /\ r.reason = table[s].reason
      BY <2>1, <2>2, ConsistentRecords DEF ReasonInv, Rec
    <2>4. /\ table'[s] = r
          /\ \A x \in Svc : x # s => table'[x] = table[x]
          /\ disk' = table' \/ disk' = disk
      BY <2>1, <2>3, TypeParts, StoreLemma
    <2> QED  BY <2>3, <2>4 DEF ReasonInv
  <1>11. CASE EnsureReady(p) \/ EnsureFails(p) \/ RestartDeletesVM(p)
    <2>1. Persist(EmptyTable) \/ UNCHANGED <<table, disk>>
      BY <1>11, EnsureLemma DEF EnsureReady, EnsureFails, RestartDeletesVM
    <2> QED  BY <2>1, ClearedReasons
  <1> HIDE DEF s, Kept
  <1> QED
    BY <1>4, <1>5, <1>6, <1>7, <1>8, <1>9, <1>10, <1>11
    DEF Handle, DeleteReadsVMState, GuestCall, GuestCallFails, TakeSlot,
        ChatBusy, Upgrade, UpgradeFails, Dial, ChatEnds, TouchActivity, ReleaseSlot,
        RestartStopsVM, s

LEMMA ReaperReasons ==
    ASSUME TypeOK, ReasonInv, ReaperTick \/ ReaperStep
    PROVE  ReasonsKept
  <1> DEFINE Kept == /\ \A x \in Svc : Consistent(table'[x])
                     /\ \A x \in Svc : table[x].reason = "manual"
                                         => table'[x].reason # "idle_timeout"
                     /\ disk' = table' \/ disk' = disk
  <1>1. req' = req
    BY DEF ReaperTick, ReaperStep, ReaperReadsVMState, ReaperEnsures, ReaperEnsureFails,
           ReaperStops, ReaperStopFails, ReaperCommits, ReaperUnlocks
  <1> SUFFICES Kept
    BY <1>1, ReasonFrame DEF ReasonsKept
  <1>2. CASE UNCHANGED <<table, disk>>
    BY <1>2 DEF ReasonInv
  <1>3. CASE ReaperEnsures \/ ReaperEnsureFails
    <2>1. Persist(EmptyTable) \/ UNCHANGED <<table, disk>>
      BY <1>3, EnsureLemma DEF ReaperEnsures, ReaperEnsureFails
    <2> QED  BY <2>1, ClearedReasons
  <1>4. CASE ReaperCommits
    BY <1>4, RecordedReasons DEF ReaperCommits, ReaperState, TypeOK
  <1> HIDE DEF Kept
  <1> QED
    BY <1>2, <1>3, <1>4 DEF ReaperTick, ReaperStep, ReaperReadsVMState, ReaperStops,
                            ReaperStopFails, ReaperUnlocks

LEMMA EnvironmentReasons ==
    ASSUME TypeOK, ReasonInv, Environment
    PROVE  /\ ReasonInv'
           /\ CrashAndRestart \/ ReasonsKept
  <1>1. CASE TimeoutPasses
    <2>1. PICK s \in Timed :
            /\ table' = [table EXCEPT ![s] = Aged(table[s])]
            /\ disk' = [disk EXCEPT ![s] = Aged(disk[s])]
            /\ req' = [p \in Proc |-> IF req[p].svc = s /\ req[p].op = "chat"
                                      THEN [req[p] EXCEPT !.copy = Aged(req[p].copy)] ELSE req[p]]
      BY <1>1 DEF TimeoutPasses
    <2>2. \A x \in Svc : table'[x] \in {table[x], Aged(table[x])}
                         /\ disk'[x] \in {disk[x], Aged(disk[x])}
                         /\ table[x] \in Rec \cup {Absent} /\ disk[x] \in Rec \cup {Absent}
      BY <2>1 DEF TypeOK
    <2>3. \A p \in Proc : /\ req'[p].copy \in {req[p].copy, Aged(req[p].copy)}
                          /\ req[p].copy \in Rec \cup {Absent}
      BY <2>1, RequestFacts DEF Request
    <2>4. /\ \A x \in Svc : /\ Consistent(table'[x]) /\ Consistent(disk'[x])
                            /\ table'[x].reason = table[x].reason
          /\ \A p \in Proc : Consistent(req'[p].copy) /\ req'[p].copy.reason = "none"
      BY <2>2, <2>3, ConsistentRecords DEF ReasonInv
    <2> QED  BY <2>4 DEF ReasonInv, ReasonsKept
  <1>2. CASE VMStops
    BY <1>2 DEF VMStops, ReasonInv, ReasonsKept
  <1>3. CASE CrashAndRestart
    BY <1>3, ConsistentRecords DEF CrashAndRestart, ReasonInv, Free, Absent
  <1> QED  BY <1>1, <1>2, <1>3 DEF Environment

LEMMA StepReasons ==
    TypeOK /\ ReasonInv /\ [Next]_vars =>
        /\ ReasonInv'
        /\ [~CrashAndRestart => \A s \in Svc : table[s].reason = "manual" =>
                                    table'[s].reason # "idle_timeout"]_vars
  <1> SUFFICES ASSUME TypeOK, ReasonInv, [Next]_vars
               PROVE  ReasonInv' /\ (UNCHANGED vars \/ CrashAndRestart \/ ReasonsKept)
    BY DEF ReasonsKept
  <1>1. CASE UNCHANGED vars
    BY <1>1 DEF vars, ReasonInv
  <1>2. ASSUME NEW p \in Proc, Begin(p) \/ Handle(p)  PROVE ReasonsKept
    BY <1>2, BeginReasons, HandleReasons
  <1> QED
    BY <1>1, <1>2, ReaperReasons, EnvironmentReasons DEF Next, ReasonsKept

LEMMA InitReasons == Init => ReasonInv
  <1> SUFFICES ASSUME Init PROVE ReasonInv
    OBVIOUS
  <1>1. Consistent(Absent) /\ Absent.reason = "none" /\ Consistent(NewRec(FALSE))
    BY ConsistentRecords DEF Absent
  <1>2. disk = table /\ \A s \in Svc : table[s] \in {NewRec(FALSE), Absent}
    BY DEF Init
  <1>3. \A p \in Proc : req[p].copy = Absent
    BY DEF Init, Free
  <1> QED  BY <1>1, <1>2, <1>3 DEF ReasonInv

LEMMA ReasonsAlways == Spec => []ReasonInv
  BY InitReasons, StepReasons, TypeCorrect, PTL DEF Spec

\* A record gives a stop reason exactly when it is stopped, after any
\* interleaving of stops, starts, chats and reaper passes and any crash.
THEOREM ReasonsMatch == Spec => []ReasonMatchesState
  <1>1. ReasonInv => ReasonMatchesState
    BY DEF ReasonInv, ReasonMatchesState, Consistent
  <1> QED  BY <1>1, ReasonsAlways, PTL

\* A late idle stop never relabels a service that the user stopped.
THEOREM ManualStopsWin == Spec => ManualStopWins
  BY InitReasons, StepReasons, TypeCorrect, PTL DEF Spec, ManualStopWins

-----------------------------------------------------------------------------
(* Deletions                                                               *)

\* Nothing has been recorded about s yet.
Unborn(s) == table[s] = Absent /\ disk[s] = Absent /\ s \notin purged

\* PurgedStaysGone is not inductive.  Only a create brings a container up out
\* of nothing, so what counts is that an id is created once, that nobody else
\* can name it before its create has answered, and that a delete about to
\* answer has really removed the container.
PurgeInv ==
    /\ PurgedStaysGone
    /\ \A p \in Proc : req[p].op = "delete" /\ req[p].at = "commit"
                         => ~HasContainer(req[p].svc)
    /\ \A p \in Proc : req[p].op = "create" =>
          /\ req[p].svc \in allocated
          /\ Unborn(req[p].svc)
          /\ \A q \in Proc : req[q].svc = req[p].svc => q = p
    /\ \A s \in Svc \ allocated : Unborn(s) /\ \A p \in Proc : req[p].svc # s

\* The absence of containers survives.
GuestForgets == \A s \in Svc : ~HasContainer(s) => guest'[s] = "absent"

\* A step of no request: containers do not come up, unborn services stay so.
LEMMA PurgeFrame ==
    ASSUME TypeOK, PurgeInv, GuestForgets, purged' = purged, allocated' = allocated,
           \A s \in Svc : Unborn(s) => Unborn(s)',
           \A p \in Proc : /\ req'[p].op = req[p].op
                           /\ req'[p].at = req[p].at
                           /\ req'[p].svc = req[p].svc
    PROVE  PurgeInv'
  <1>1. \A p \in Proc : req[p].op \in {"create", "delete"} => req[p].svc \in Svc
    BY RequestFacts
  <1>2. purged \subseteq Svc
    BY DEF TypeOK
  <1>3. PurgedStaysGone'
    BY <1>2 DEF PurgeInv, PurgedStaysGone, GuestForgets, HasContainer
  <1>4. (\A p \in Proc : req[p].op = "delete" /\ req[p].at = "commit"
                           => ~HasContainer(req[p].svc))'
    BY <1>1 DEF PurgeInv, GuestForgets, HasContainer
  <1>5. (\A p \in Proc : req[p].op = "create" =>
          /\ req[p].svc \in allocated
          /\ Unborn(req[p].svc)
          /\ \A q \in Proc : req[q].svc = req[p].svc => q = p)'
    <2> SUFFICES ASSUME NEW p \in Proc, req[p].op = "create"
                 PROVE  /\ req[p].svc \in allocated'
                        /\ (Unborn(req[p].svc))'
                        /\ \A q \in Proc : req[q].svc = req[p].svc => q = p
      OBVIOUS
    <2>1. req[p].svc \in Svc /\ Unborn(req[p].svc)
      BY <1>1 DEF PurgeInv
    <2>2. table'[req[p].svc] = Absent /\ disk'[req[p].svc] = Absent /\ req[p].svc \notin purged'
      BY <2>1 DEF Unborn
    <2> QED  BY <2>1, <2>2 DEF PurgeInv, Unborn
  <1>6. (\A s \in Svc \ allocated : Unborn(s) /\ \A p \in Proc : req[p].svc # s)'
    BY DEF PurgeInv
  <1> QED  BY <1>3, <1>4, <1>5, <1>6 DEF PurgeInv

\* What a step of request p may do to ids and containers.
PurgeMoves(p) ==
    LET s == req[p].svc IN
    /\ allocated' = allocated
    /\ \A q \in Proc : q # p => req'[q] = req[q]
    /\ req'[p] = Free \/ (req'[p].op = req[p].op /\ req'[p].svc = s)
    /\ \A x \in Svc : Unborn(x) /\ (x # s \/ req'[p].op = "create") => Unborn(x)'
    /\ \A x \in Svc : ~HasContainer(x) /\ (x # s \/ req[p].op # "create") => guest'[x] = "absent"
    /\ \/ purged' = purged
       \/ req[p].op = "delete" /\ req[p].at = "commit" /\ purged' = purged \cup {s}
    /\ req'[p].op = "delete" /\ req'[p].at = "commit" => guest'[s] = "absent"

\* Clearing the table makes nothing known.
LEMMA ClearedUnborn ==
    ASSUME Persist(EmptyTable) \/ UNCHANGED <<table, disk>>, purged' = purged,
           NEW x \in Svc, Unborn(x)
    PROVE  Unborn(x)'
  BY DEF Unborn, Persist, EmptyTable

LEMMA StoredUnborn ==
    ASSUME TypeOK, NEW s \in Svc, NEW r \in Rec \cup {Absent}, Store(s, r),
           purged' \in {purged, purged \cup {s}}, NEW x \in Svc \ {s}, Unborn(x)
    PROVE  Unborn(x)'
  BY TypeParts, StoreLemma DEF Unborn

LEMMA RecordedUnborn ==
    ASSUME TypeOK, NEW s \in Svc, NEW why \in {"manual", "idle_timeout"}, RecordStop(s, why),
           purged' = purged, NEW x \in Svc, Unborn(x)
    PROVE  Unborn(x)'
  BY TypeParts, RecordStopLemma DEF Unborn, Recorded

LEMMA HandleMoves ==
    ASSUME TypeOK, NEW p \in Proc, Handle(p)
    PROVE  PurgeMoves(p)
  <1> DEFINE s == req[p].svc
  <1>1. /\ req \in [Proc -> Request] /\ req[p] \in Request
        /\ guest \in [Svc -> {"absent", "running", "stopped"}]
    BY DEF TypeOK
  <1>2. /\ req[p].at \in {"forget", "call", "commit", "session", "touch"} => s \in Svc
        /\ req[p].op \in {"start", "resume"} \/ req[p].at = "session" => req[p].copy \in Rec
        /\ req[p].at \in {"session", "touch"} => req[p].op = "chat"
        /\ req[p].at = "forget" => req[p].op = "delete"
        /\ req[p].at = "call" => req[p].op \in {"create", "delete", "stop", "start", "resume"}
        /\ req[p].at = "limadelete" => req[p].op = "restart"
        /\ req[p].at \in PlacesOf(req[p].op)
    BY RequestFacts
  <1>3. /\ \A place : Goto(p, place) \/ Continue(p, place) =>
                        /\ req'[p].at = place /\ req'[p].op = req[p].op /\ req'[p].svc = s
                        /\ \A q \in Proc : q # p => req'[q] = req[q]
        /\ Finish(p) => req'[p] = Free /\ \A q \in Proc : q # p => req'[q] = req[q]
    BY <1>1 DEF Goto, Continue, Finish, Request
  <1>4. Free.op = "none"
    BY DEF Free
  <1>5. CASE DeleteReadsVMState(p) \/ TakeSlot(p) \/ ChatBusy(p) \/ Upgrade(p)
             \/ UpgradeFails(p) \/ Dial(p) \/ ChatEnds(p) \/ ReleaseSlot(p)
             \/ RestartStopsVM(p)
    <2>1. UNCHANGED <<table, disk, guest, history>>
      BY <1>5 DEF DeleteReadsVMState, TakeSlot, ChatBusy, Upgrade, UpgradeFails,
                  Dial, ChatEnds, ReleaseSlot, RestartStopsVM
    <2>2. \/ \E place \in Places \ {"commit"} : Goto(p, place) \/ Continue(p, place)
          \/ Finish(p)
      BY <1>5 DEF DeleteReadsVMState, TakeSlot, ChatBusy, Upgrade,
                  UpgradeFails, Dial, ChatEnds, ReleaseSlot, RestartStopsVM, Places
    <2> QED  BY <1>3, <1>4, <2>1, <2>2 DEF PurgeMoves, Unborn, HasContainer, history
  <1>6. CASE EnsureReady(p) \/ EnsureFails(p) \/ RestartDeletesVM(p)
    <2>1. /\ Persist(EmptyTable) \/ UNCHANGED <<table, disk>>
          /\ guest' = guest \/ guest' = NoGuest
          /\ UNCHANGED history
      BY <1>6, EnsureLemma, DeleteVMLemma DEF EnsureReady, EnsureFails, RestartDeletesVM
    <2>2. \A x \in Svc : ~HasContainer(x) => guest'[x] = "absent"
      BY <2>1 DEF HasContainer, NoGuest
    <2>3. \A x \in Svc : Unborn(x) => Unborn(x)'
      BY <2>1, ClearedUnborn DEF history
    <2>4. \/ \E place \in Places \ {"commit"} : Goto(p, place)
          \/ Finish(p)
      BY <1>6 DEF EnsureReady, EnsureFails, Fail, RestartDeletesVM, Places
    <2> QED  BY <1>3, <1>4, <2>1, <2>2, <2>3, <2>4 DEF PurgeMoves, history
  <1>7. CASE GuestCall(p) \/ GuestCallFails(p)
    <2>1. s \in Svc /\ UNCHANGED <<table, disk, history>>
          /\ (guest' = guest \/ GuestDoes(req[p].op, s))
      BY <1>2, <1>7 DEF GuestCall, GuestCallFails
    <2>2. Goto(p, "commit") \/ Finish(p)
      BY <1>7 DEF GuestCall, GuestCallFails
    <2>3. Goto(p, "commit") => GuestDoes(req[p].op, s)
      BY <1>2, <1>3, <1>4, <1>7 DEF GuestCall, GuestCallFails
    <2>4. /\ \A x \in Svc : ~HasContainer(x) /\ (x # s \/ req[p].op # "create")
                              => guest'[x] = "absent"
          /\ req[p].op = "delete" /\ GuestDoes(req[p].op, s) => guest'[s] = "absent"
      BY <1>2, <1>7, <2>1, GuestDoesLemma DEF HasContainer, GuestCall, GuestCallFails
    <2> QED  BY <1>3, <1>4, <2>1, <2>2, <2>3, <2>4 DEF PurgeMoves, Unborn, history
  <1>8. CASE DeleteForgets(p) \/ CommitDelete(p) \/ CommitCreate(p) \/ CommitStart(p)
    <2>1. PICK r \in Rec \cup {Absent} : Store(s, r)
      <3>1. CASE DeleteForgets(p) \/ CommitDelete(p)
        <4> WITNESS Absent \in Rec \cup {Absent}
        <4> QED  BY <3>1 DEF DeleteForgets, CommitDelete
      <3>2. CASE CommitCreate(p)
        <4>1. NewRec(TRUE) \in Rec \cup {Absent}
          BY NewRecType
        <4> WITNESS NewRec(TRUE) \in Rec \cup {Absent}
        <4> QED  BY <3>2 DEF CommitCreate
      <3>3. CASE CommitStart(p)
        <4>1. req[p].copy \in Rec \cup {Absent}
          BY <1>2, <3>3 DEF CommitStart
        <4> WITNESS req[p].copy \in Rec \cup {Absent}
        <4> QED  BY <3>3 DEF CommitStart
      <3> QED  BY <1>8, <3>1, <3>2, <3>3
    <2>2. /\ s \in Svc /\ Finish(p) /\ guest' = guest /\ allocated' = allocated
          /\ \/ purged' = purged
             \/ req[p].op = "delete" /\ req[p].at = "commit" /\ purged' = purged \cup {s}
      BY <1>2, <1>8 DEF DeleteForgets, CommitDelete, CommitCreate, CommitStart, history
    <2>3. \A x \in Svc : x # s /\ Unborn(x) => Unborn(x)'
      BY <2>1, <2>2, StoredUnborn
    <2> QED  BY <1>3, <1>4, <2>2, <2>3 DEF PurgeMoves, HasContainer
  <1>9. CASE CommitStop(p)
    <2>1. s \in Svc /\ Finish(p) /\ guest' = guest /\ UNCHANGED history
      BY <1>2, <1>9 DEF CommitStop
    <2>2. \A x \in Svc : Unborn(x) => Unborn(x)'
      BY <1>9, <2>1, RecordedUnborn DEF CommitStop, history
    <2> QED  BY <1>3, <1>4, <2>1, <2>2 DEF PurgeMoves, HasContainer, history
  <1>10. CASE AssignSession(p)
    <2>1. s \in Svc /\ [req[p].copy EXCEPT !.session = TRUE] \in Rec
      BY <1>2, <1>10 DEF AssignSession, Rec
    <2>2. \A x \in Svc : x # s /\ Unborn(x) => Unborn(x)'
      BY <1>10, <2>1, StoredUnborn DEF AssignSession, history
    <2> QED  BY <1>2, <1>3, <1>10, <2>2 DEF AssignSession, PurgeMoves, HasContainer, history
  <1>11. CASE TouchActivity(p)
    <2>1. s \in Svc /\ req[p].op = "chat" /\ Goto(p, "release") /\ guest' = guest
          /\ UNCHANGED history
      BY <1>2, <1>11 DEF TouchActivity
    <2>2. \A x \in Svc : x # s /\ Unborn(x) => Unborn(x)'
      <3>1. CASE Recorded(s)
        <4>1. [table[s] EXCEPT !.idle = FALSE] \in Rec
          BY <2>1, <3>1 DEF TypeOK, Recorded, Rec
        <4> QED  BY <1>11, <2>1, <3>1, <4>1, StoredUnborn DEF TouchActivity, history
      <3>2. CASE ~Recorded(s)
        BY <1>11, <3>2 DEF TouchActivity, Unborn, history
      <3> QED  BY <3>1, <3>2
    <2> QED  BY <1>3, <2>1, <2>2 DEF PurgeMoves, HasContainer, history
  <1> QED
    BY <1>5, <1>6, <1>7, <1>8, <1>9, <1>10, <1>11 DEF Handle

LEMMA HandlePurge ==
    ASSUME TypeOK, PurgeInv, NEW p \in Proc, PurgeMoves(p)
    PROVE  PurgeInv'
  <1> DEFINE s == req[p].svc
  <1>1. /\ allocated' = allocated
        /\ \A q \in Proc : q # p => req'[q] = req[q]
        /\ req'[p] = Free \/ (req'[p].op = req[p].op /\ req'[p].svc = s)
        /\ \A x \in Svc : Unborn(x) /\ (x # s \/ req'[p].op = "create") => Unborn(x)'
        /\ \A x \in Svc : ~HasContainer(x) /\ (x # s \/ req[p].op # "create")
                            => guest'[x] = "absent"
        /\ \/ purged' = purged
           \/ req[p].op = "delete" /\ req[p].at = "commit" /\ purged' = purged \cup {s}
        /\ req'[p].op = "delete" /\ req'[p].at = "commit" => guest'[s] = "absent"
    BY DEF PurgeMoves
  <1>2. \A q \in Proc : req[q].op \in {"create", "delete"} => req[q].svc \in Svc
    BY RequestFacts
  <1>3. purged \subseteq Svc /\ Free.op = "none" /\ Free.svc = NoSvc /\ NoSvc \notin Svc
    BY ConstantsAssumption DEF TypeOK, Free
  <1>4. /\ \A x \in purged : ~HasContainer(x)
        /\ \A q \in Proc : req[q].op = "delete" /\ req[q].at = "commit"
                             => ~HasContainer(req[q].svc)
        /\ \A q \in Proc : req[q].op = "create" =>
              /\ req[q].svc \in allocated
              /\ Unborn(req[q].svc)
              /\ \A r \in Proc : req[r].svc = req[q].svc => r = q
        /\ \A x \in Svc \ allocated : Unborn(x) /\ \A q \in Proc : req[q].svc # x
    BY DEF PurgeInv, PurgedStaysGone
  <1>5. req[p].op = "create" => s \notin purged
    BY <1>4 DEF Unborn
  <1> HIDE DEF s
  <1>6. PurgedStaysGone'
    <2>1. \A x \in purged : guest'[x] = "absent"
      BY <1>1, <1>3, <1>4, <1>5
    <2>2. req[p].op = "delete" /\ req[p].at = "commit" => guest'[s] = "absent"
      BY <1>1, <1>2, <1>4 DEF s
    <2> QED  BY <1>1, <2>1, <2>2 DEF PurgedStaysGone, HasContainer
  <1>7. (\A q \in Proc : req[q].op = "delete" /\ req[q].at = "commit"
                           => ~HasContainer(req[q].svc))'
    <2> SUFFICES ASSUME NEW q \in Proc, req'[q].op = "delete", req'[q].at = "commit"
                 PROVE  guest'[req'[q].svc] = "absent"
      BY DEF HasContainer
    <2>1. CASE q = p
      BY <1>1, <1>3, <2>1
    <2>2. CASE q # p
      <3>1. req'[q] = req[q] /\ req[q].svc \in Svc /\ ~HasContainer(req[q].svc)
        BY <1>1, <1>2, <1>4, <2>2
      <3>2. req[p].op = "create" => req[q].svc # s
        BY <1>4, <2>2 DEF s
      <3> QED  BY <1>1, <3>1, <3>2
    <2> QED  BY <2>1, <2>2
  <1>8. (\A q \in Proc : req[q].op = "create" =>
              /\ req[q].svc \in allocated
              /\ Unborn(req[q].svc)
              /\ \A r \in Proc : req[r].svc = req[q].svc => r = q)'
    <2> SUFFICES ASSUME NEW q \in Proc, req'[q].op = "create"
                 PROVE  /\ req'[q].svc \in allocated'
                        /\ (Unborn(req[q].svc))'
                        /\ \A r \in Proc : req'[r].svc = req'[q].svc => r = q
      OBVIOUS
    <2>1. req'[q].op = req[q].op /\ req'[q].svc = req[q].svc
      BY <1>1, <1>3 DEF s
    <2>2. req[q].svc \in Svc /\ Unborn(req[q].svc) /\ req[q].svc \in allocated
      BY <1>2, <1>4, <2>1
    <2>3. \A r \in Proc : req'[r].svc = req[q].svc => req[r].svc = req[q].svc
      BY <1>1, <1>3, <2>2 DEF s
    <2>4. q = p \/ req[q].svc # s
      BY <1>4, <2>1 DEF s
    <2>5. Unborn(req[q].svc)'
      BY <1>1, <2>1, <2>2, <2>4 DEF Unborn
    <2> QED  BY <1>1, <1>4, <2>1, <2>2, <2>3, <2>5 DEF Unborn
  <1>9. (\A x \in Svc \ allocated : Unborn(x) /\ \A q \in Proc : req[q].svc # x)'
    <2> SUFFICES ASSUME NEW x \in Svc \ allocated
                 PROVE  Unborn(x)' /\ \A q \in Proc : req'[q].svc # x
      BY <1>1
    <2>1. Unborn(x) /\ \A q \in Proc : req[q].svc # x
      BY <1>4
    <2> QED  BY <1>1, <1>3, <2>1 DEF s
  <1> QED  BY <1>6, <1>7, <1>8, <1>9 DEF PurgeInv

LEMMA BeginPurge ==
    ASSUME TypeOK, PurgeInv, NEW p \in Proc, Begin(p)
    PROVE  PurgeInv'
  <1>1. /\ req \in [Proc -> Request]
        /\ UNCHANGED <<table, disk, guest, purged>>
        /\ allocated \subseteq Svc
    BY DEF TypeOK, Begin, BeginCreate, BeginDelete, BeginStop, BeginStart, BeginResume,
           BeginChat, BeginRestart, history
  <1>2. \A s \in Svc : Unborn(s)' <=> Unborn(s)
    BY <1>1 DEF Unborn
  <1>3. PurgedStaysGone'
    BY <1>1 DEF PurgeInv, PurgedStaysGone, HasContainer
  <1>4. \A q \in Proc : req[q].op = "create" => req[q].svc \in Svc
    BY RequestFacts
  <1>5. CASE BeginCreate(p)
    <2>1. PICK s \in Svc \ allocated :
            /\ req' = [req EXCEPT ![p] = [op |-> "create", at |-> "ensure", svc |-> s,
                                          copy |-> Absent]]
            /\ allocated' = allocated \cup {s}
      BY <1>5 DEF BeginCreate, Accept
    <2>2. Unborn(s) /\ \A q \in Proc : req[q].svc # s
      BY DEF PurgeInv
    <2>3. /\ req'[p].op = "create" /\ req'[p].svc = s
          /\ \A q \in Proc : q # p => req'[q] = req[q]
      BY <1>1, <2>1
    <2>4. (\A q \in Proc : req[q].op = "delete" /\ req[q].at = "commit"
                             => ~HasContainer(req[q].svc))'
      BY <1>1, <2>3 DEF PurgeInv, HasContainer
    <2>5. (\A q \in Proc : req[q].op = "create" =>
              /\ req[q].svc \in allocated
              /\ Unborn(req[q].svc)
              /\ \A r \in Proc : req[r].svc = req[q].svc => r = q)'
      <3> SUFFICES ASSUME NEW q \in Proc, req'[q].op = "create"
                   PROVE  /\ req'[q].svc \in allocated'
                          /\ (Unborn(req[q].svc))'
                          /\ \A r \in Proc : req'[r].svc = req'[q].svc => r = q
        OBVIOUS
      <3>1. Unborn(req'[q].svc) /\ req'[q].svc \in Svc
        BY <1>4, <2>2, <2>3 DEF PurgeInv
      <3>2. (Unborn(req[q].svc))'
        BY <1>1, <3>1 DEF Unborn
      <3> QED  BY <2>1, <2>2, <2>3, <3>2 DEF PurgeInv
    <2>6. (\A x \in Svc \ allocated : Unborn(x) /\ \A q \in Proc : req[q].svc # x)'
      BY <1>2, <2>1, <2>3 DEF PurgeInv
    <2> QED  BY <1>3, <2>4, <2>5, <2>6 DEF PurgeInv
  <1>6. CASE ~BeginCreate(p)
    <2>1. PICK op \in AllOps \ {"create"}, place \in Places \ {"commit"},
               s \in Svc \cup {NoSvc}, copy \in Rec \cup {Absent} :
            /\ req' = [req EXCEPT ![p] = [op |-> op, at |-> place, svc |-> s, copy |-> copy]]
            /\ s \in Svc => Recorded(s)
      <3>1. ASSUME NEW op \in AllOps \ {"create"}, NEW place \in Places \ {"commit"},
                   NEW s \in Svc \cup {NoSvc}, NEW copy \in Rec \cup {Absent},
                   req' = [req EXCEPT ![p] = [op |-> op, at |-> place, svc |-> s, copy |-> copy]],
                   s \in Svc => Recorded(s)
            PROVE  \E o \in AllOps \ {"create"}, l \in Places \ {"commit"},
                      x \in Svc \cup {NoSvc}, c \in Rec \cup {Absent} :
                        /\ req' = [req EXCEPT ![p] = [op |-> o, at |-> l, svc |-> x, copy |-> c]]
                        /\ x \in Svc => Recorded(x)
        BY <3>1
      <3>2. /\ {"ensure", "vmstate", "slot", "limastop"} \subseteq Places \ {"commit"}
            /\ {"delete", "stop", "start", "resume", "chat", "restart"} \subseteq AllOps \ {"create"}
        BY DEF Places, AllOps
      <3>3. \A s \in Svc : Recorded(s) => table[s] \in Rec /\ NewRec(table[s].session) \in Rec
        BY NewRecType DEF TypeOK, Recorded, Rec
      <3>4. CASE BeginDelete(p)
        BY <3>1, <3>2, <3>4 DEF BeginDelete, Accept
      <3>5. CASE BeginStop(p)
        BY <3>1, <3>2, <3>5 DEF BeginStop, Accept
      <3>6. CASE BeginStart(p)
        BY <3>1, <3>2, <3>3, <3>6 DEF BeginStart, Accept
      <3>7. CASE BeginResume(p)
        BY <3>1, <3>2, <3>3, <3>7 DEF BeginResume, Accept
      <3>8. CASE BeginChat(p)
        BY <3>1, <3>2, <3>3, <3>8 DEF BeginChat, Accept
      <3>9. CASE BeginRestart(p)
        BY <3>1, <3>2, <3>9, ConstantsAssumption DEF BeginRestart, Accept
      <3> QED  BY <1>6, <3>4, <3>5, <3>6, <3>7, <3>8, <3>9 DEF Begin
    <2>2. allocated' = allocated
      BY <1>6 DEF Begin, BeginDelete, BeginStop, BeginStart, BeginResume, BeginChat,
                  BeginRestart, history
    <2>3. /\ req'[p].op = op /\ req'[p].at = place /\ req'[p].svc = s
          /\ \A q \in Proc : q # p => req'[q] = req[q]
      BY <1>1, <2>1
    <2>4. s \notin Svc \/ ~Unborn(s)
      BY <2>1 DEF Recorded, Unborn
    <2>5. (\A q \in Proc : req[q].op = "delete" /\ req[q].at = "commit"
                             => ~HasContainer(req[q].svc))'
      BY <1>1, <2>3 DEF PurgeInv, HasContainer
    <2>6. (\A q \in Proc : req[q].op = "create" =>
              /\ req[q].svc \in allocated
              /\ Unborn(req[q].svc)
              /\ \A r \in Proc : req[r].svc = req[q].svc => r = q)'
      <3> SUFFICES ASSUME NEW q \in Proc, req'[q].op = "create"
                   PROVE  /\ req'[q].svc \in allocated'
                          /\ (Unborn(req[q].svc))'
                          /\ \A r \in Proc : req'[r].svc = req'[q].svc => r = q
        OBVIOUS
      <3>1. q # p /\ req'[q] = req[q]
        BY <2>3
      <3>2. Unborn(req[q].svc) /\ req[q].svc \in Svc /\ req[q].svc \in allocated
        BY <1>4, <3>1 DEF PurgeInv
      <3>3. (Unborn(req[q].svc))'
        BY <1>1, <3>1, <3>2 DEF Unborn
      <3>4. \A r \in Proc : req'[r].svc = req'[q].svc => r = q
        BY <2>3, <2>4, <3>1, <3>2 DEF PurgeInv
      <3> QED  BY <2>2, <3>1, <3>2, <3>3, <3>4
    <2>7. (\A x \in Svc \ allocated : Unborn(x) /\ \A q \in Proc : req[q].svc # x)'
      BY <1>2, <2>2, <2>3, <2>4 DEF PurgeInv
    <2> QED  BY <1>3, <2>5, <2>6, <2>7 DEF PurgeInv
  <1> QED  BY <1>5, <1>6

\* The reaper stops containers and never brings one up.
LEMMA ReaperPurge ==
    ASSUME TypeOK, PurgeInv, ReaperTick \/ ReaperStep
    PROVE  PurgeInv'
  <1>1. req' = req /\ UNCHANGED history
    BY DEF ReaperTick, ReaperStep, ReaperReadsVMState, ReaperEnsures, ReaperEnsureFails,
           ReaperStops, ReaperStopFails, ReaperCommits, ReaperUnlocks
  <1>2. GuestForgets
    <2>1. CASE guest' = guest \/ guest' = NoGuest
      BY <2>1 DEF GuestForgets, HasContainer, NoGuest
    <2>2. CASE ReaperStops \/ ReaperStopFails
      <3>1. PICK s \in reaper.left : guest' = guest \/ GuestDoes("stop", s)
        BY <2>2 DEF ReaperStops, ReaperStopFails
      <3>2. s \in Svc
        BY <3>1 DEF TypeOK, ReaperState
      <3> QED  BY <2>1, <3>1, <3>2, GuestDoesLemma DEF GuestForgets, HasContainer
    <2>3. CASE ReaperEnsures \/ ReaperEnsureFails
      BY <2>1, <2>3, EnsureLemma DEF ReaperEnsures, ReaperEnsureFails
    <2> QED
      BY <2>1, <2>2, <2>3 DEF ReaperTick, ReaperStep, ReaperReadsVMState, ReaperCommits,
                              ReaperUnlocks
  <1>3. \A s \in Svc : Unborn(s) => Unborn(s)'
    <2>1. CASE Persist(EmptyTable) \/ UNCHANGED <<table, disk>>
      BY <1>1, <2>1, ClearedUnborn DEF history
    <2>2. CASE ReaperCommits
      BY <1>1, <2>2, RecordedUnborn DEF ReaperCommits, TypeOK, ReaperState, history
    <2>3. CASE ReaperEnsures \/ ReaperEnsureFails
      BY <2>1, <2>3, EnsureLemma DEF ReaperEnsures, ReaperEnsureFails
    <2> QED
      BY <2>1, <2>2, <2>3 DEF ReaperTick, ReaperStep, ReaperReadsVMState, ReaperStops,
                              ReaperStopFails, ReaperUnlocks
  <1> QED  BY <1>1, <1>2, <1>3, PurgeFrame DEF history

LEMMA EnvironmentPurge ==
    ASSUME TypeOK, PurgeInv, Environment
    PROVE  PurgeInv'
  <1>1. CASE TimeoutPasses
    <2>1. PICK s \in Timed :
            /\ table' = [table EXCEPT ![s] = Aged(table[s])]
            /\ disk' = [disk EXCEPT ![s] = Aged(disk[s])]
            /\ req' = [p \in Proc |-> IF req[p].svc = s /\ req[p].op = "chat"
                                      THEN [req[p] EXCEPT !.copy = Aged(req[p].copy)] ELSE req[p]]
            /\ UNCHANGED <<guest, history>>
      BY <1>1 DEF TimeoutPasses
    <2>2. \A x \in Svc : Unborn(x) => Unborn(x)'
      BY <2>1, AgedType DEF Unborn, TypeOK, history
    <2>3. \A p \in Proc : /\ req'[p].op = req[p].op /\ req'[p].at = req[p].at
                          /\ req'[p].svc = req[p].svc
      BY <2>1, RequestFacts DEF Request
    <2>4. GuestForgets
      BY <2>1 DEF GuestForgets, HasContainer
    <2> QED  BY <2>1, <2>2, <2>3, <2>4, PurgeFrame DEF history
  <1>2. CASE VMStops
    BY <1>2, PurgeFrame DEF VMStops, Unborn, GuestForgets, HasContainer, history
  <1>3. CASE CrashAndRestart
    <2>1. \A p \in Proc : req'[p].op = "none" /\ req'[p].svc = NoSvc
      BY <1>3 DEF CrashAndRestart, Free
    <2>2. \A x \in Svc : Unborn(x) => Unborn(x)'
      BY <1>3 DEF CrashAndRestart, Unborn, history
    <2> QED
      BY <1>3, <2>1, <2>2, ConstantsAssumption
      DEF CrashAndRestart, PurgeInv, PurgedStaysGone, HasContainer, history
  <1> QED  BY <1>1, <1>2, <1>3 DEF Environment

LEMMA PurgeAlways == Spec => []PurgeInv
  <1>1. Init => PurgeInv
    <2> SUFFICES ASSUME Init PROVE PurgeInv
      OBVIOUS
    <2>1. \A s \in Svc \ allocated : Unborn(s)
      BY DEF Init, Unborn
    <2>2. \A p \in Proc : req[p].op = "none" /\ req[p].svc = NoSvc
      BY DEF Init, Free
    <2> QED
      BY <2>1, <2>2, ConstantsAssumption DEF Init, PurgeInv, PurgedStaysGone
  <1>2. TypeOK /\ PurgeInv /\ [Next]_vars => PurgeInv'
    <2> SUFFICES ASSUME TypeOK, PurgeInv, [Next]_vars PROVE PurgeInv'
      OBVIOUS
    <2>1. CASE UNCHANGED vars
      BY <2>1, PurgeFrame DEF vars, Unborn, GuestForgets, HasContainer
    <2>2. ASSUME NEW p \in Proc, Begin(p) \/ Handle(p)  PROVE PurgeInv'
      BY <2>2, BeginPurge, HandleMoves, HandlePurge
    <2> QED
      BY <2>1, <2>2, ReaperPurge, EnvironmentPurge DEF Next
  <1> QED  BY <1>1, <1>2, TypeCorrect, PTL DEF Spec

\* A container whose deletion went through the guest is gone for good, whatever
\* creates, starts, resumes and stops are in flight when the delete answers, and
\* through crashes and recreations of the VM.
THEOREM PurgedForGood == Spec => []PurgedStaysGone
  <1>1. PurgeInv => PurgedStaysGone
    BY DEF PurgeInv
  <1> QED  BY <1>1, PurgeAlways, PTL

-----------------------------------------------------------------------------
(* What services.json holds                                                *)

\* Every critical section that changes the table ends with its save.
LEMMA StepDisk ==
    ASSUME "save" \notin Faults, TypeOK, DiskMirrorsTable, [Next]_vars
    PROVE  DiskMirrorsTable'
  <1>1. \A t : Persist(t) => DiskMirrorsTable'
    BY DEF Persist, DiskMirrorsTable
  <1>2. UNCHANGED <<table, disk>> => DiskMirrorsTable'
    BY DEF DiskMirrorsTable
  <1>3. \A s, r : Store(s, r) => DiskMirrorsTable'
    BY <1>1 DEF Store
  <1>4. \A s, why : RecordStop(s, why) => DiskMirrorsTable'
    BY <1>2, <1>3 DEF RecordStop
  <1>5. ASSUME NEW p \in Proc, Handle(p)  PROVE DiskMirrorsTable'
    <2>1. CASE EnsureReady(p) \/ EnsureFails(p) \/ RestartDeletesVM(p)
      BY <1>1, <1>2, <2>1, EnsureLemma DEF EnsureReady, EnsureFails, RestartDeletesVM
    <2>2. CASE DeleteForgets(p) \/ CommitCreate(p) \/ CommitDelete(p) \/ CommitStart(p)
               \/ AssignSession(p) \/ CommitStop(p) \/ TouchActivity(p)
      BY <1>2, <1>3, <1>4, <2>2
      DEF DeleteForgets, CommitCreate, CommitDelete, CommitStart, AssignSession, CommitStop,
          TouchActivity
    <2> QED
      BY <1>2, <1>5, <2>1, <2>2
      DEF Handle, DeleteReadsVMState, GuestCall, GuestCallFails, TakeSlot, ChatBusy, Upgrade,
          UpgradeFails, Dial, ChatEnds, ReleaseSlot, RestartStopsVM
  <1>6. ASSUME NEW p \in Proc, Begin(p)  PROVE DiskMirrorsTable'
    BY <1>2, <1>6 DEF Begin, BeginCreate, BeginDelete, BeginStop, BeginStart, BeginResume,
                      BeginChat, BeginRestart
  <1>7. ASSUME ReaperTick \/ ReaperStep  PROVE DiskMirrorsTable'
    <2>1. CASE ReaperEnsures \/ ReaperEnsureFails
      BY <1>1, <1>2, <2>1, EnsureLemma DEF ReaperEnsures, ReaperEnsureFails
    <2> QED
      BY <1>2, <1>4, <1>7, <2>1
      DEF ReaperTick, ReaperStep, ReaperReadsVMState, ReaperStops, ReaperStopFails,
          ReaperCommits, ReaperUnlocks
  <1>8. ASSUME Environment  PROVE DiskMirrorsTable'
    BY <1>2, <1>8 DEF Environment, TimeoutPasses, VMStops, CrashAndRestart, DiskMirrorsTable
  <1>9. CASE UNCHANGED vars
    BY <1>2, <1>9 DEF vars
  <1> QED  BY <1>5, <1>6, <1>7, <1>8, <1>9 DEF Next

\* As long as no save fails, a daemon that dies between any two critical sections
\* finds in services.json exactly the table it lost, whatever else goes wrong.
THEOREM DiskIsTheTable ==
    ASSUME "save" \notin Faults PROVE Spec => []DiskMirrorsTable
  <1>1. Init => DiskMirrorsTable
    BY DEF Init, DiskMirrorsTable
  <1>2. TypeOK /\ DiskMirrorsTable /\ [Next]_vars => DiskMirrorsTable'
    BY StepDisk
  <1> QED  BY <1>1, <1>2, TypeCorrect, PTL DEF Spec

-----------------------------------------------------------------------------
(* Stops that tell the truth                                               *)

\* No client starts or resumes a service.  (A start that overlaps a stop or a
\* pass of the reaper does make both properties of this section false.)
NothingStarts == Ops \cap {"start", "resume"} = {}

\* Neither StoppedIsStopped nor the idle check is inductive.  A stop that the
\* guest has answered is recorded in a later step; the file comes back after a
\* crash; and the reaper acts on candidates it chose two remote calls earlier,
\* so what counts is that it still holds their slots, and that no create can
\* bring up a container for any of them.
StoppedInv ==
    /\ \A p \in Proc : req[p].op \notin {"start", "resume"}
    /\ reaper.left \subseteq reaper.held
    /\ reaper.at = "commit" => reaper.cur \in reaper.left
    /\ \A p \in Proc : req[p].op = "create" => req[p].svc \notin reaper.held
    /\ reaper.held \subseteq allocated
    /\ \A s \in Svc : table[s].state = "stopped" \/ disk[s].state = "stopped"
                        => guest[s] # "running"
    /\ \A p \in Proc : req[p].op = "stop" /\ req[p].at = "commit"
                         => guest[req[p].svc] # "running"
    /\ reaper.at = "commit" => guest[reaper.cur] # "running"
    /\ \A s \in reaper.left : table[s].state = "running" => table[s].idle

\* A request goes on with its operation and service; it comes to its commit
\* place by an answer of the guest daemon.
GoesOn(q) ==
    /\ req'[q].op = req[q].op
    /\ req'[q].svc = req[q].svc
    /\ req'[q].at = "commit" => req[q].at = "commit" \/ GuestDoes(req[q].op, req[q].svc)

\* A request is accepted; a create draws a fresh id.
Begun(q) ==
    /\ req'[q].op \in Ops
    /\ req'[q].at # "commit"
    /\ req'[q].op = "create" => req'[q].svc \in Svc \ allocated

\* In every step each process carries on, ends or begins a request.
LEMMA StepRequests ==
    ASSUME TypeOK, [Next]_vars, NEW q \in Proc
    PROVE  req'[q].op = "none" \/ GoesOn(q) \/ Begun(q)
  <1>1. req \in [Proc -> Request]
    BY DEF TypeOK
  <1>2. req'[q] = req[q] => GoesOn(q)
    BY DEF GoesOn
  <1>3. ASSUME NEW p \in Proc, Begin(p)  PROVE GoesOn(q) \/ Begun(q)
    <2>1. ASSUME NEW op, NEW s, NEW place, NEW copy, Accept(p, op, s, place, copy),
                 place # "commit", op = "create" => s \in Svc \ allocated
          PROVE  GoesOn(q) \/ Begun(q)
      <3>1. q # p => req'[q] = req[q]
        BY <1>1, <2>1 DEF Accept
      <3>2. q = p => req'[q] = [op |-> op, at |-> place, svc |-> s, copy |-> copy] /\ op \in Ops
        BY <1>1, <2>1 DEF Accept
      <3> QED  BY <1>2, <2>1, <3>1, <3>2 DEF Begun
    <2>2. CASE BeginCreate(p)
      BY <2>1, <2>2 DEF BeginCreate
    <2>3. CASE BeginDelete(p) \/ BeginStop(p) \/ BeginChat(p) \/ BeginRestart(p)
      BY <2>1, <2>3 DEF BeginDelete, BeginStop, BeginChat, BeginRestart
    <2>4. CASE BeginStart(p) \/ BeginResume(p)
      BY <2>1, <2>4 DEF BeginStart, BeginResume
    <2> QED  BY <1>3, <2>2, <2>3, <2>4 DEF Begin
  <1>4. ASSUME NEW p \in Proc, Handle(p)  PROVE req'[q].op = "none" \/ GoesOn(q)
    <2>1. /\ \A place : Goto(p, place) \/ Continue(p, place) =>
                /\ req'[p].at = place /\ req'[p].op = req[p].op /\ req'[p].svc = req[p].svc
                /\ q # p => req'[q] = req[q]
          /\ Finish(p) => req'[p].op = "none" /\ (q # p => req'[q] = req[q])
      BY <1>1 DEF Goto, Continue, Finish, Request, Free
    <2>2. CASE Finish(p)
      BY <1>2, <2>1, <2>2
    <2>3. CASE GuestCall(p) /\ Goto(p, "commit")
      BY <1>2, <2>1, <2>3 DEF GuestCall, GoesOn
    <2>4. CASE \E place \in Places \ {"commit"} : Goto(p, place) \/ Continue(p, place)
      BY <1>2, <2>1, <2>4 DEF GoesOn
    <2>5. \/ Finish(p)
          \/ GuestCall(p) /\ Goto(p, "commit")
          \/ \E place \in Places \ {"commit"} : Goto(p, place) \/ Continue(p, place)
      BY <1>4 DEF Handle, DeleteReadsVMState, DeleteForgets, EnsureReady, EnsureFails, Fail,
             GuestCall, GuestCallFails, CommitCreate, CommitDelete, CommitStop, CommitStart,
             TakeSlot, ChatBusy, Upgrade, UpgradeFails, AssignSession, Dial, ChatEnds,
             TouchActivity, ReleaseSlot, RestartStopsVM, RestartDeletesVM, Places
    <2> QED  BY <2>2, <2>3, <2>4, <2>5
  <1>5. CASE ReaperTick \/ ReaperStep \/ VMStops \/ UNCHANGED vars
    BY <1>2, <1>5 DEF ReaperTick, ReaperStep, ReaperReadsVMState, ReaperEnsures,
           ReaperEnsureFails, ReaperStops, ReaperStopFails, ReaperCommits, ReaperUnlocks,
           VMStops, vars
  <1>6. CASE TimeoutPasses
    <2>1. PICK s \in Timed :
            req' = [p \in Proc |-> IF req[p].svc = s /\ req[p].op = "chat"
                                   THEN [req[p] EXCEPT !.copy = Aged(req[p].copy)] ELSE req[p]]
      BY <1>6 DEF TimeoutPasses
    <2>2. /\ req'[q].op = req[q].op /\ req'[q].svc = req[q].svc
          /\ req'[q].at = req[q].at
      BY <1>1, <2>1 DEF Request
    <2> QED  BY <2>2 DEF GoesOn
  <1>7. CASE CrashAndRestart
    BY <1>7 DEF CrashAndRestart, Free
  <1> QED  BY <1>3, <1>4, <1>5, <1>6, <1>7 DEF Next, Environment

\* Without starts only a create brings a container up.
LEMMA StepGuest ==
    ASSUME TypeOK, StoppedInv, [Next]_vars, NEW s \in Svc, guest'[s] = "running"
    PROVE  \/ guest[s] = "running"
           \/ \E p \in Proc : req[p].op = "create" /\ req[p].svc = s
  <1>1. CASE guest' = guest
    BY <1>1
  <1>2. CASE guest' = NoGuest
    BY <1>2 DEF NoGuest
  <1>3. ASSUME NEW op, NEW x \in Svc, GuestDoes(op, x), op \notin {"create", "start", "resume"}
        PROVE  guest[s] = "running"
    BY <1>3 DEF GuestDoes, TypeOK
  <1>4. ASSUME NEW p \in Proc, GuestCall(p) \/ GuestCallFails(p)
        PROVE  \/ guest[s] = "running"
               \/ \E r \in Proc : req[r].op = "create" /\ req[r].svc = s
    <2>1. /\ req[p].svc \in Svc /\ req[p].op \notin {"start", "resume"}
          /\ guest' = guest \/ GuestDoes(req[p].op, req[p].svc)
      BY <1>4, RequestFacts DEF GuestCall, GuestCallFails, StoppedInv
    <2>2. CASE GuestDoes("create", req[p].svc) /\ req[p].op = "create"
      BY <2>1, <2>2, GuestDoesLemma
    <2> QED  BY <1>1, <1>3, <2>1, <2>2
  <1>5. ASSUME NEW p \in Proc, EnsureReady(p) \/ EnsureFails(p) \/ RestartDeletesVM(p)
        PROVE  guest' = guest \/ guest' = NoGuest
    BY <1>5, EnsureLemma, DeleteVMLemma DEF EnsureReady, EnsureFails, RestartDeletesVM
  <1>6. ASSUME NEW p \in Proc, Handle(p),
               ~(GuestCall(p) \/ GuestCallFails(p) \/ EnsureReady(p) \/ EnsureFails(p)
                 \/ RestartDeletesVM(p))
        PROVE  guest' = guest
    BY <1>6 DEF Handle, DeleteReadsVMState, DeleteForgets, CommitCreate, CommitDelete,
           CommitStop, CommitStart, TakeSlot, ChatBusy, Upgrade, UpgradeFails, AssignSession,
           Dial, ChatEnds, TouchActivity, ReleaseSlot, RestartStopsVM
  <1>7. ASSUME NEW p \in Proc, Begin(p)  PROVE guest' = guest
    BY <1>7 DEF Begin, BeginCreate, BeginDelete, BeginStop, BeginStart, BeginResume,
           BeginChat, BeginRestart
  <1>8. CASE ReaperStops \/ ReaperStopFails
    <2>1. PICK x \in reaper.left : guest' = guest \/ GuestDoes("stop", x)
      BY <1>8 DEF ReaperStops, ReaperStopFails
    <2>2. x \in Svc
      BY <2>1 DEF TypeOK, ReaperState
    <2> QED  BY <1>1, <1>3, <2>1, <2>2
  <1>9. CASE ReaperEnsures \/ ReaperEnsureFails
    BY <1>1, <1>2, <1>9, EnsureLemma DEF ReaperEnsures, ReaperEnsureFails
  <1>10. CASE \/ ReaperTick \/ ReaperReadsVMState \/ ReaperCommits \/ ReaperUnlocks
              \/ Environment \/ UNCHANGED vars
    BY <1>1, <1>10 DEF ReaperTick, ReaperReadsVMState, ReaperCommits, ReaperUnlocks,
           Environment, TimeoutPasses, VMStops, CrashAndRestart, vars
  <1> QED
    BY <1>1, <1>2, <1>4, <1>5, <1>6, <1>7, <1>8, <1>9, <1>10 DEF Next, ReaperStep

\* A stop of s that the guest has answered is about to be recorded.
StopDecided(s) ==
    \/ \E p \in Proc : req[p].op = "stop" /\ req[p].at = "commit" /\ req[p].svc = s
    \/ reaper.at = "commit" /\ reaper.cur = s

\* What a critical section may write about s: nothing, its removal, the record of
\* its creation, a stop that was decided, or what a chat that holds the slot of s
\* stores, which never stops it.
Writes(s) ==
    \/ table'[s] \in {table[s], Absent}
    \/ /\ table'[s].state = "running"
       /\ \E p \in Proc : req[p].op = "create" /\ req[p].svc = s
    \/ table'[s].state = "stopped" /\ Recorded(s) /\ StopDecided(s)
    \/ /\ table'[s].state \in {"running", table[s].state}
       /\ \E p \in Proc : HoldsSlot(p) /\ req[p].svc = s

\* What a step may do to the records of s.
RecordMoves(s) ==
    \/ Writes(s) /\ disk'[s] \in {disk[s], table'[s]}
    \/ table'[s] = Aged(table[s]) /\ disk'[s] = Aged(disk[s])
    \/ CrashAndRestart

LEMMA StoreMoves ==
    ASSUME TypeOK, NEW s \in Svc, NEW r \in Rec \cup {Absent}, Store(s, r), NEW x \in Svc
    PROVE  /\ table'[x] = IF x = s THEN r ELSE table[x]
           /\ disk'[x] \in {disk[x], table'[x]}
  BY TypeParts, StoreLemma

LEMMA RecordStopMoves ==
    ASSUME TypeOK, NEW s \in Svc, NEW why \in {"manual", "idle_timeout"}, RecordStop(s, why),
           StopDecided(s), NEW x \in Svc
    PROVE  RecordMoves(x)
  <1>1. /\ \A y \in Svc : y # s => table'[y] = table[y]
        /\ Recorded(s) => table'[s] = Stopped(table[s], why)
        /\ ~Recorded(s) => table'[s] = table[s]
        /\ disk' = table' \/ disk' = disk
    BY TypeParts, RecordStopLemma
  <1>2. Recorded(s) => Stopped(table[s], why).state = "stopped"
    BY DEF TypeOK, Recorded, Stopped, Rec
  <1> QED  BY <1>1, <1>2 DEF RecordMoves, Writes

LEMMA HandleRecords ==
    ASSUME TypeOK, StoppedInv, ReasonInv, NEW p \in Proc, Handle(p), NEW x \in Svc
    PROVE  RecordMoves(x)
  <1> DEFINE s == req[p].svc
  <1>1. /\ req[p].at \in {"forget", "commit", "session", "touch"} => s \in Svc
        /\ req[p].at = "session" => req[p].copy \in Rec
        /\ req[p].op \notin {"start", "resume"}
    BY RequestFacts DEF StoppedInv
  <1>2. Absent \in Rec \cup {Absent} /\ NewRec(TRUE) \in Rec /\ NewRec(TRUE).state = "running"
    BY NewRecType DEF NewRec
  <1>3. UNCHANGED <<table, disk>> \/ Persist(EmptyTable) => RecordMoves(x)
    BY DEF RecordMoves, Writes, Persist, EmptyTable
  <1>4. CASE DeleteForgets(p) \/ CommitDelete(p)
    BY <1>1, <1>2, <1>4, StoreMoves DEF DeleteForgets, CommitDelete, RecordMoves, Writes
  <1>5. CASE CommitCreate(p)
    <2>1. /\ table'[x] = IF x = s THEN NewRec(TRUE) ELSE table[x]
          /\ disk'[x] \in {disk[x], table'[x]}
      BY <1>1, <1>2, <1>5, StoreMoves DEF CommitCreate
    <2>2. req[p].op = "create"
      BY <1>5 DEF CommitCreate
    <2> QED  BY <1>2, <2>1, <2>2 DEF RecordMoves, Writes
  <1>6. CASE CommitStop(p)
    <2>1. s \in Svc /\ StopDecided(s) /\ RecordStop(s, "manual")
      BY <1>1, <1>6 DEF CommitStop, StopDecided
    <2> QED  BY <2>1, RecordStopMoves
  <1>7. CASE AssignSession(p)
    <2> DEFINE r == [req[p].copy EXCEPT !.session = TRUE]
    <2>1. req[p].copy \in Rec /\ Consistent(req[p].copy) /\ req[p].copy.reason = "none"
      BY <1>1, <1>7 DEF AssignSession, ReasonInv
    <2>2. r \in Rec /\ r.state = "running"
      BY <2>1 DEF Rec, Consistent
    <2>3. HoldsSlot(p)
      BY <1>7 DEF AssignSession, HoldsSlot, SlotPlaces
    <2>4. /\ table'[x] = IF x = s THEN r ELSE table[x]
          /\ disk'[x] \in {disk[x], table'[x]}
      BY <1>1, <1>7, <2>2, StoreMoves DEF AssignSession
    <2> QED  BY <2>2, <2>3, <2>4 DEF RecordMoves, Writes
  <1>8. CASE TouchActivity(p) /\ Recorded(s)
    <2> DEFINE r == [table[s] EXCEPT !.idle = FALSE]
    <2>1. s \in Svc /\ table[s] \in Rec
      BY <1>1, <1>8 DEF TouchActivity, TypeOK, Recorded
    <2>2. r \in Rec /\ r.state = table[s].state
      BY <2>1 DEF Rec
    <2>3. HoldsSlot(p)
      BY <1>8 DEF TouchActivity, HoldsSlot, SlotPlaces
    <2>4. /\ table'[x] = IF x = s THEN r ELSE table[x]
          /\ disk'[x] \in {disk[x], table'[x]}
      BY <1>8, <2>1, <2>2, StoreMoves DEF TouchActivity
    <2> QED  BY <2>2, <2>3, <2>4 DEF RecordMoves, Writes
  <1>9. CASE TouchActivity(p) /\ ~Recorded(s)
    BY <1>3, <1>9 DEF TouchActivity
  <1>10. CASE EnsureReady(p) \/ EnsureFails(p) \/ RestartDeletesVM(p)
    BY <1>3, <1>10, EnsureLemma DEF EnsureReady, EnsureFails, RestartDeletesVM
  <1>11. ~CommitStart(p)
    BY <1>1 DEF CommitStart
  <1> HIDE DEF s
  <1> QED
    BY <1>3, <1>4, <1>5, <1>6, <1>7, <1>8, <1>9, <1>10, <1>11
    DEF Handle, DeleteReadsVMState, GuestCall, GuestCallFails, TakeSlot, ChatBusy, Upgrade,
        UpgradeFails, Dial, ChatEnds, ReleaseSlot, RestartStopsVM

LEMMA StepRecords ==
    ASSUME TypeOK, StoppedInv, ReasonInv, [Next]_vars, NEW x \in Svc
    PROVE  RecordMoves(x)
  <1>1. UNCHANGED <<table, disk>> \/ Persist(EmptyTable) => RecordMoves(x)
    BY DEF RecordMoves, Writes, Persist, EmptyTable
  <1>2. ASSUME NEW p \in Proc, Begin(p) \/ Handle(p)  PROVE RecordMoves(x)
    <2>1. Begin(p) => UNCHANGED <<table, disk>>
      BY DEF Begin, BeginCreate, BeginDelete, BeginStop, BeginStart, BeginResume,
             BeginChat, BeginRestart
    <2> QED  BY <1>1, <1>2, <2>1, HandleRecords
  <1>3. CASE ReaperEnsures \/ ReaperEnsureFails
    BY <1>1, <1>3, EnsureLemma DEF ReaperEnsures, ReaperEnsureFails
  <1>4. CASE ReaperCommits
    <2>1. /\ reaper.cur \in Svc /\ StopDecided(reaper.cur)
          /\ RecordStop(reaper.cur, "idle_timeout")
      BY <1>4 DEF ReaperCommits, TypeOK, ReaperState, StopDecided
    <2> QED  BY <2>1, RecordStopMoves
  <1>5. CASE TimeoutPasses
    <2>1. PICK s \in Timed : /\ table' = [table EXCEPT ![s] = Aged(table[s])]
                             /\ disk' = [disk EXCEPT ![s] = Aged(disk[s])]
      BY <1>5 DEF TimeoutPasses
    <2>2. \/ table'[x] = Aged(table[x]) /\ disk'[x] = Aged(disk[x])
          \/ table'[x] = table[x] /\ disk'[x] = disk[x]
      BY <2>1 DEF TypeOK
    <2> QED  BY <2>2 DEF RecordMoves, Writes
  <1>6. CASE CrashAndRestart
    BY <1>6 DEF RecordMoves
  <1> QED
    BY <1>1, <1>2, <1>3, <1>4, <1>5, <1>6
    DEF Next, ReaperTick, ReaperStep, ReaperReadsVMState, ReaperStops, ReaperStopFails,
        ReaperUnlocks, Environment, VMStops, vars

\* What a step may do to the candidates of the reaper.
LEMMA ReaperMoves ==
    ASSUME TypeOK, StoppedInv, [Next]_vars
    PROVE  /\ reaper'.held \subseteq reaper.held \cup {s \in Svc : Recorded(s)}
           /\ reaper'.left \subseteq reaper'.held
           /\ \/ reaper'.left \subseteq reaper.left
              \/ table' = table /\ \A s \in reaper'.left : table[s].idle
           /\ reaper'.at = "commit" =>
                 /\ reaper'.cur \in reaper'.left
                 /\ \/ reaper.at = "commit" /\ reaper'.cur = reaper.cur
                    \/ GuestDoes("stop", reaper'.cur)
  <1>1. /\ reaper \in ReaperState
        /\ reaper.left \subseteq reaper.held
        /\ reaper.at = "commit" => reaper.cur \in reaper.left
    BY DEF TypeOK, StoppedInv
  <1>2. CASE reaper' = reaper
    BY <1>1, <1>2
  <1>3. CASE reaper' = Asleep
    BY <1>3 DEF Asleep
  <1>4. CASE ReaperTick /\ reaper' # Asleep
    <2> DEFINE candidates == {s \in Svc : ShouldIdleStop(s)}
    <2>1. /\ reaper' = [at |-> "vmstate", held |-> candidates, left |-> candidates,
                        cur |-> NoSvc]
          /\ table' = table
      BY <1>4 DEF ReaperTick
    <2>2. /\ reaper'.held = candidates /\ reaper'.left = candidates
          /\ reaper'.at = "vmstate"
      BY <2>1
    <2>3. \A s \in candidates : s \in Svc /\ Recorded(s) /\ table[s].idle
      BY DEF ShouldIdleStop, Recorded, Absent
    <2> HIDE DEF candidates
    <2> QED  BY <2>1, <2>2, <2>3
  <1>5. CASE ReaperReadsVMState \/ ReaperEnsures \/ ReaperEnsureFails
    <2>1. PICK place \in {"ensure", "unlock", "stop"} : reaper' = [reaper EXCEPT !.at = place]
      BY <1>5 DEF ReaperReadsVMState, ReaperEnsures, ReaperEnsureFails
    <2>2. reaper'.at = place /\ reaper'.held = reaper.held /\ reaper'.left = reaper.left
      BY <1>1, <2>1 DEF ReaperState
    <2> QED  BY <1>1, <2>2
  <1>6. CASE ReaperStops
    <2>1. PICK s \in reaper.left : /\ GuestDoes("stop", s)
                                   /\ reaper' = [reaper EXCEPT !.at = "commit", !.cur = s]
      BY <1>6 DEF ReaperStops
    <2>2. reaper'.cur = s /\ reaper'.held = reaper.held /\ reaper'.left = reaper.left
      BY <1>1, <2>1 DEF ReaperState
    <2> QED  BY <1>1, <2>1, <2>2
  <1>7. CASE ReaperStopFails
    <2>1. PICK s \in reaper.left : /\ reaper.at = "stop"
                                   /\ reaper' = [reaper EXCEPT !.left = reaper.left \ {s}]
      BY <1>7 DEF ReaperStopFails
    <2>2. /\ reaper'.at = "stop" /\ reaper'.held = reaper.held
          /\ reaper'.left = reaper.left \ {s}
      BY <1>1, <2>1 DEF ReaperState
    <2> QED  BY <1>1, <2>2
  <1>8. CASE ReaperCommits
    <2>1. reaper' = [reaper EXCEPT !.at = "stop", !.left = reaper.left \ {reaper.cur},
                                   !.cur = NoSvc]
      BY <1>8 DEF ReaperCommits
    <2>2. /\ reaper'.at = "stop" /\ reaper'.held = reaper.held
          /\ reaper'.left = reaper.left \ {reaper.cur}
      BY <1>1, <2>1 DEF ReaperState
    <2> QED  BY <1>1, <2>2
  <1>9. ASSUME NEW p \in Proc, Begin(p) \/ Handle(p)  PROVE reaper' = reaper
    BY <1>9 DEF Begin, BeginCreate, BeginDelete, BeginStop, BeginStart, BeginResume,
           BeginChat, BeginRestart, Handle, DeleteReadsVMState, DeleteForgets, EnsureReady,
           EnsureFails, GuestCall, GuestCallFails, CommitCreate, CommitDelete, CommitStop,
           CommitStart, TakeSlot, ChatBusy, Upgrade, UpgradeFails, AssignSession, Dial,
           ChatEnds, TouchActivity, ReleaseSlot, RestartStopsVM, RestartDeletesVM
  <1> QED
    BY <1>2, <1>3, <1>4, <1>5, <1>6, <1>7, <1>8, <1>9
    DEF Next, ReaperStep, ReaperUnlocks, Environment, TimeoutPasses, VMStops,
        CrashAndRestart, vars

\* Ids are not given back.
LEMMA StepAllocated ==
    ASSUME [Next]_vars
    PROVE  /\ allocated \subseteq allocated'
           /\ CrashAndRestart => reaper'.held = {}
  <1>1. CrashAndRestart => reaper'.held = {}
    BY DEF CrashAndRestart, Asleep
  <1>2. UNCHANGED history => allocated' = allocated
    BY DEF history
  <1>3. ASSUME NEW p \in Proc, Begin(p)  PROVE allocated \subseteq allocated'
    <2>1. CASE BeginCreate(p)
      <3>1. PICK s : allocated' = allocated \cup {s}
        BY <2>1 DEF BeginCreate
      <3> QED  BY <3>1
    <2>2. CASE UNCHANGED history
      BY <1>2, <2>2
    <2> QED
      BY <1>3, <2>1, <2>2 DEF Begin, BeginDelete, BeginStop, BeginStart, BeginResume,
                              BeginChat, BeginRestart
  <1>4. ASSUME NEW p \in Proc, Handle(p)  PROVE allocated' = allocated
    BY <1>2, <1>4 DEF Handle, DeleteReadsVMState, DeleteForgets, EnsureReady, EnsureFails,
           GuestCall, GuestCallFails, CommitCreate, CommitDelete, CommitStop, CommitStart,
           TakeSlot, ChatBusy, Upgrade, UpgradeFails, AssignSession, Dial, ChatEnds,
           TouchActivity, ReleaseSlot, RestartStopsVM, RestartDeletesVM
  <1>5. CASE ReaperTick \/ ReaperStep
    <2>1. UNCHANGED history
      BY <1>5 DEF ReaperTick, ReaperStep, ReaperReadsVMState, ReaperEnsures,
             ReaperEnsureFails, ReaperStops, ReaperStopFails, ReaperCommits, ReaperUnlocks
    <2> QED  BY <1>1, <1>2, <2>1
  <1>6. CASE Environment
    <2>1. UNCHANGED history
      BY <1>6 DEF Environment, TimeoutPasses, VMStops, CrashAndRestart
    <2> QED  BY <1>1, <1>2, <2>1
  <1>7. CASE UNCHANGED vars
    BY <1>1, <1>7 DEF vars
  <1> QED  BY <1>1, <1>3, <1>4, <1>5, <1>6, <1>7 DEF Next

\* A container whose stop was answered does not run when the stop is recorded.
LEMMA GuestStops ==
    ASSUME TypeOK, NEW s \in Svc, GuestDoes("stop", s)
    PROVE  guest'[s] # "running"
  BY DEF GuestDoes, TypeOK, HasContainer

LEMMA StepStopped ==
    ASSUME NothingStarts, TypeOK, ReasonInv, PurgeInv, SlotExclusive, StoppedInv, [Next]_vars
    PROVE  StoppedInv'
  <1>1. /\ \A p \in Proc : req[p].op = "create" =>
              /\ req[p].svc \in Svc /\ req[p].svc \in allocated
              /\ Unborn(req[p].svc)
              /\ \A q \in Proc : req[q].svc = req[p].svc => q = p
        /\ \A s \in Svc \ allocated : Unborn(s)
    BY RequestFacts DEF PurgeInv
  <1>2. /\ \A p \in Proc : req[p].op \notin {"start", "resume"}
        /\ reaper.left \subseteq reaper.held
        /\ reaper.at = "commit" => reaper.cur \in reaper.left
        /\ \A p \in Proc : req[p].op = "create" => req[p].svc \notin reaper.held
        /\ reaper.held \subseteq allocated
        /\ \A s \in Svc : table[s].state = "stopped" \/ disk[s].state = "stopped"
                            => guest[s] # "running"
        /\ \A p \in Proc : req[p].op = "stop" /\ req[p].at = "commit"
                             => guest[req[p].svc] # "running"
        /\ reaper.at = "commit" => guest[reaper.cur] # "running"
        /\ \A s \in reaper.left : table[s].state = "running" => table[s].idle
    BY DEF StoppedInv
  <1>3. /\ reaper'.held \subseteq reaper.held \cup {s \in Svc : Recorded(s)}
        /\ reaper'.left \subseteq reaper'.held
        /\ \/ reaper'.left \subseteq reaper.left
           \/ table' = table /\ \A s \in reaper'.left : table[s].idle
        /\ reaper'.at = "commit" =>
              /\ reaper'.cur \in reaper'.left
              /\ \/ reaper.at = "commit" /\ reaper'.cur = reaper.cur
                 \/ GuestDoes("stop", reaper'.cur)
    BY ReaperMoves
  <1>4. \A s \in Svc : Unborn(s) => ~Recorded(s) /\ table[s].state = "absent"
                                    /\ disk[s].state = "absent"
    BY DEF Unborn, Recorded, Absent
  <1>5. reaper.held \subseteq Svc /\ reaper'.held \subseteq Svc /\ allocated \subseteq allocated'
    BY <1>3, StepAllocated DEF TypeOK, ReaperState
  <1>6. \A q \in Proc : req'[q].op = "none" \/ GoesOn(q) \/ Begun(q)
    BY StepRequests
  <1>7. \A s \in Svc : guest'[s] = "running" =>
           guest[s] = "running" \/ \E p \in Proc : req[p].op = "create" /\ req[p].svc = s
    BY StepGuest
  <1>8. ASSUME NEW p \in Proc  PROVE req'[p].op \notin {"start", "resume"}
    BY <1>2, <1>6 DEF GoesOn, Begun, NothingStarts
  <1>9. reaper'.held \subseteq allocated'
    <2>1. \A s \in Svc : Recorded(s) => s \in allocated
      BY <1>1, <1>4
    <2> QED  BY <1>2, <1>3, <1>5, <2>1
  <1>10. ASSUME NEW p \in Proc, req'[p].op = "create"  PROVE req'[p].svc \notin reaper'.held
    <2>1. CASE GoesOn(p)
      BY <1>1, <1>2, <1>3, <1>4, <1>10, <2>1 DEF GoesOn
    <2>2. CASE Begun(p)
      BY <1>1, <1>2, <1>3, <1>4, <1>10, <2>2 DEF Begun
    <2> QED  BY <1>6, <1>10, <2>1, <2>2
  <1>11. ASSUME NEW s \in Svc, table'[s].state = "stopped" \/ disk'[s].state = "stopped"
         PROVE  guest'[s] # "running"
    <2>1. RecordMoves(s)
      BY StepRecords
    <2>2. Absent.state = "absent" /\ Aged(table[s]).state = table[s].state
          /\ Aged(disk[s]).state = disk[s].state
      BY DEF Absent, Aged, Rec, TypeOK
    <2>3. StopDecided(s) => guest[s] # "running"
      BY <1>2 DEF StopDecided
    <2>4. \/ table[s].state = "stopped" \/ disk[s].state = "stopped"
          \/ Recorded(s) /\ StopDecided(s)
      BY <1>11, <2>1, <2>2 DEF RecordMoves, Writes, CrashAndRestart
    <2>5. guest[s] # "running" /\ ~Unborn(s)
      BY <1>2, <1>4, <2>3, <2>4
    <2> QED  BY <1>1, <1>7, <2>5
  <1>12. ASSUME NEW p \in Proc, req'[p].op = "stop", req'[p].at = "commit"
         PROVE  guest'[req'[p].svc] # "running"
    <2> DEFINE s == req[p].svc
    <2>1. /\ req[p].op = "stop" /\ req'[p].svc = s
          /\ req[p].at = "commit" \/ GuestDoes("stop", s)
      BY <1>6, <1>12 DEF GoesOn, Begun
    <2>2. s \in Svc
      BY <2>1, RequestFacts
    <2>3. ~\E q \in Proc : req[q].op = "create" /\ req[q].svc = s
      BY <1>1, <2>1
    <2> QED  BY <1>2, <1>7, <2>1, <2>2, <2>3, GuestStops
  <1>13. ASSUME reaper'.at = "commit"  PROVE guest'[reaper'.cur] # "running"
    <2>1. reaper'.cur \in Svc
      BY <1>3, <1>5, <1>13
    <2>2. CASE GuestDoes("stop", reaper'.cur)
      BY <2>1, <2>2, GuestStops
    <2>3. CASE reaper.at = "commit" /\ reaper'.cur = reaper.cur
      <3>1. reaper.cur \in reaper.held /\ guest[reaper.cur] # "running"
        BY <1>2, <2>3
      <3> QED  BY <1>2, <1>7, <2>1, <2>3, <3>1
    <2> QED  BY <1>3, <1>13, <2>2, <2>3
  <1>14. ASSUME NEW s \in reaper'.left, table'[s].state = "running"  PROVE table'[s].idle
    <2>1. CASE table' = table /\ \A x \in reaper'.left : table[x].idle
      BY <2>1
    <2>2. CASE reaper'.left \subseteq reaper.left
      <3>1. s \in reaper.held /\ s \in Svc /\ s \in reaper'.held
        BY <1>2, <1>3, <1>5, <2>2
      <3>2. ~\E p \in Proc : HoldsSlot(p) /\ req[p].svc = s
        BY <3>1 DEF SlotExclusive
      <3>3. ~\E p \in Proc : req[p].op = "create" /\ req[p].svc = s
        BY <1>2, <3>1
      <3>4. ~CrashAndRestart
        BY <3>1, StepAllocated
      <3>5. table'[s] = table[s] \/ table'[s] = Aged(table[s])
        BY <1>14, <3>1, <3>2, <3>3, <3>4, StepRecords DEF RecordMoves, Writes, Absent
      <3>6. Aged(table[s]).state = table[s].state
            /\ (table[s].state = "running" => Aged(table[s]).idle)
        BY <3>1 DEF Aged, Rec, Absent, TypeOK
      <3> QED  BY <1>2, <1>14, <2>2, <3>5, <3>6
    <2> QED  BY <1>3, <2>1, <2>2
  <1> QED
    BY <1>3, <1>8, <1>9, <1>10, <1>11, <1>12, <1>13, <1>14 DEF StoppedInv

LEMMA StoppedAlways ==
    ASSUME NothingStarts PROVE Spec => []StoppedInv
  <1>1. Init => StoppedInv
    <2> SUFFICES ASSUME Init PROVE StoppedInv
      OBVIOUS
    <2>1. \A p \in Proc : req[p].op = "none" /\ req[p].at = "free"
      BY DEF Init, Free
    <2>2. \A s \in Svc : table[s].state # "stopped" /\ disk[s].state # "stopped"
      BY DEF Init, NewRec, Absent
    <2>3. /\ reaper.at = "sleep" /\ reaper.held = {} /\ reaper.left = {}
          /\ allocated = Legacy
      BY DEF Init, Asleep
    <2>4. {} \subseteq Legacy
      OBVIOUS
    <2> QED  BY <2>1, <2>2, <2>3, <2>4 DEF StoppedInv
  <1>2. TypeOK /\ ReasonInv /\ PurgeInv /\ SlotExclusive /\ StoppedInv /\ [Next]_vars
          => StoppedInv'
    BY StepStopped
  <1> QED
    BY <1>1, <1>2, TypeCorrect, ReasonsAlways, PurgeAlways, SingleConnection, PTL DEF Spec

\* As long as clients start nothing, a service that is recorded as stopped, in
\* memory or by the file a restarted daemon loads, does not run: with guest calls
\* that fail before or after their effect, failing saves and crashes.
THEOREM StoppedTellsTheTruth ==
    ASSUME NothingStarts PROVE Spec => []StoppedIsStopped
  <1>1. StoppedInv => StoppedIsStopped
    BY DEF StoppedInv, StoppedIsStopped
  <1> QED  BY <1>1, StoppedAlways, PTL

\* Under the same hypothesis the reaper stops a service only if it is idle at
\* that moment: no chat can have touched it since the reaper chose it.
THEOREM IdleStopsAreIdle ==
    ASSUME NothingStarts PROVE Spec => IdleStopOnlyWhenIdle
  <1>1. TypeOK /\ StoppedInv /\ [Next]_vars =>
           [\A s \in Svc : ReaperStopsService(s) /\ table[s].state = "running"
                             => table[s].idle]_vars
    <2> SUFFICES ASSUME TypeOK, StoppedInv, NEW s \in Svc, ReaperStopsService(s),
                        table[s].state = "running"
                 PROVE  table[s].idle
      OBVIOUS
    <2>1. PICK x \in reaper.left : reaper' = [reaper EXCEPT !.at = "commit", !.cur = x]
      BY DEF ReaperStopsService, ReaperStops
    <2>2. x = s
      BY <2>1 DEF ReaperStopsService, TypeOK, ReaperState
    <2> QED  BY <2>1, <2>2 DEF StoppedInv
  <1> QED  BY <1>1, TypeCorrect, StoppedAlways, PTL DEF Spec, IdleStopOnlyWhenIdle

=============================================================================
