------------------------ MODULE GuestServicesProofs ------------------------
(***************************************************************************)
(* Proofs about GuestServices, for every set of services, images and       *)
(* processes and any faults: its invariants, and that it implements        *)
(* ContainerLife.                                                          *)
(***************************************************************************)
EXTENDS GuestServices, TLAPS

Request == [at : Places, op : {"none", "create", "start", "stop", "delete"},
            svc : Svc \cup {"none"}]

BeforeRun == {"overlay", "mount", "mark", "run"}

\* A service that nobody has asked for has left no trace.
Untouched ==
    \A s \in Svc : image[s] = NoImage =>
        /\ services[s] = "absent" /\ file[s] = "absent"
        /\ container[s] = "none" /\ s \notin removed

\* A create is alone with its service, which is in no table, and until nerdctl
\* run it has no container and had none.
CreateAlone(p) ==
    LET s == req[p].svc IN
    req[p].op = "create" =>
        /\ services[s] = "absent" /\ file[s] = "absent"
        /\ \A q \in Proc \ {p} : req[q].svc # s
        /\ req[p].at \in BeforeRun => container[s] = "none" /\ s \notin removed

IInv == TypeOK /\ Untouched /\ \A p \in Proc : CreateAlone(p)

-----------------------------------------------------------------------------
(* Requests                                                                *)

LEMMA RequestType ==
    ASSUME TypeOK, NEW p \in Proc, NEW r \in Request, req' = [req EXCEPT ![p] = r]
    PROVE  /\ req' \in [Proc -> Request]
           /\ req'[p] = r /\ \A q \in Proc \ {p} : req'[q] = req[q]
  BY DEF TypeOK, Request

LEMMA FinishType ==
    ASSUME TypeOK, NEW p \in Proc, Finish(p)
    PROVE  /\ req' \in [Proc -> Request]
           /\ req'[p] = Free /\ \A q \in Proc \ {p} : req'[q] = req[q]
  <1>1. Free \in Request
    BY DEF Free, Request, Places
  <1> QED  BY <1>1, RequestType DEF Finish

LEMMA GotoType ==
    ASSUME TypeOK, NEW p \in Proc, NEW place \in Places, Goto(p, place)
    PROVE  /\ req' \in [Proc -> Request]
           /\ req'[p] = [at |-> place, op |-> req[p].op, svc |-> req[p].svc]
           /\ \A q \in Proc \ {p} : req'[q] = req[q]
  <1> DEFINE r == [at |-> place, op |-> req[p].op, svc |-> req[p].svc]
  <1>1. req[p] \in Request
    BY DEF TypeOK, Request
  <1>2. r \in Request /\ r = [req[p] EXCEPT !.at = place]
    BY <1>1 DEF Request
  <1> QED  BY <1>2, RequestType DEF Goto

LEMMA StoreType ==
    ASSUME TypeOK, NEW s \in Svc, NEW v \in Recorded, Store([services EXCEPT ![s] = v])
    PROVE  /\ services' \in [Svc -> Recorded] /\ file' \in [Svc -> Recorded]
           /\ services'[s] = v
           /\ \A t \in Svc \ {s} : services'[t] = services[t] /\ file'[t] \in {file[t], services[t]}
  BY DEF TypeOK, Store

LEMMA ContainerType ==
    ASSUME TypeOK, NEW s \in Svc, NEW v \in ContainerStates, SetContainer(s, v)
    PROVE  /\ container' \in [Svc -> ContainerStates]
           /\ container'[s] = v
           /\ \A t \in Svc \ {s} : container'[t] = container[t]
  BY DEF TypeOK, SetContainer

-----------------------------------------------------------------------------
(* What a step of a handler leaves alone                                   *)

\* The request of p moves on or ends, and nobody else's changes.
Moves(p) ==
    /\ req' \in [Proc -> Request]
    /\ \A q \in Proc \ {p} : req'[q] = req[q]
    /\ \/ req'[p] = Free
       \/ /\ req'[p].at # "free"
          /\ req'[p].op = req[p].op /\ req'[p].svc = req[p].svc

\* Only the service of the handler is touched, and its records by the last step.
Frame(p) ==
    LET s == req[p].svc IN
    /\ s \in Svc /\ req[p].at # "free"
    /\ Moves(p)
    /\ image' = image /\ images' = images
    /\ services' \in [Svc -> Recorded] /\ file' \in [Svc -> Recorded]
    /\ container' \in [Svc -> ContainerStates]
    /\ known' \in BOOLEAN /\ mounts' \in 0 .. MaxMounts
    /\ removed' \subseteq Svc /\ leaked' \subseteq Svc /\ booted' \subseteq Svc
    /\ leaked \subseteq leaked' /\ crossed' = crossed
    /\ \A t \in Svc \ {s} :
          /\ container'[t] = container[t] /\ services'[t] = services[t]
          /\ file'[t] \in {file[t], services[t]}
          /\ t \in removed' <=> t \in removed
    /\ req'[p] = Free \/ (services' = services /\ file' = file)
    /\ req'[p].at \in BeforeRun =>
          req[p].at \in BeforeRun /\ container' = container /\ removed' = removed

LEMMA FinishMoves ==
    ASSUME TypeOK, NEW p \in Proc, Finish(p)
    PROVE  Moves(p) /\ req'[p] = Free /\ req'[p].at \notin BeforeRun
  <1>1. Free.at \notin BeforeRun
    BY DEF Free, BeforeRun
  <1>2. Moves(p) /\ req'[p] = Free
    BY FinishType DEF Moves
  <1> QED  BY <1>1, <1>2

LEMMA GotoMoves ==
    ASSUME TypeOK, NEW p \in Proc, NEW place \in Places \ {"free"}, Goto(p, place)
    PROVE  Moves(p) /\ req'[p].at = place
  <1>1. /\ req' \in [Proc -> Request] /\ \A q \in Proc \ {p} : req'[q] = req[q]
        /\ req'[p] = [at |-> place, op |-> req[p].op, svc |-> req[p].svc]
    BY GotoType
  <1>2. req'[p].at = place /\ req'[p].op = req[p].op /\ req'[p].svc = req[p].svc /\ place # "free"
    BY <1>1
  <1> QED  BY <1>1, <1>2 DEF Moves

\* What Frame says of everything but the request and the records.
World(p) ==
    LET s == req[p].svc IN
    /\ image' = image /\ images' = images
    /\ container' \in [Svc -> ContainerStates]
    /\ known' \in BOOLEAN /\ mounts' \in 0 .. MaxMounts
    /\ removed' \subseteq Svc /\ leaked' \subseteq Svc /\ booted' \subseteq Svc
    /\ leaked \subseteq leaked' /\ crossed' = crossed
    /\ \A t \in Svc \ {s} : container'[t] = container[t] /\ (t \in removed' <=> t \in removed)

\* Most actions change nothing but the container and histories of the service.
LEMMA ContainerWorld ==
    ASSUME TypeOK, NEW p \in Proc, req[p].svc \in Svc,
           NEW v \in ContainerStates,
           SetContainer(req[p].svc, v) \/ container' = container,
           removed' \in {removed, removed \cup {req[p].svc}},
           leaked' \in {leaked, leaked \cup {req[p].svc}},
           booted' \in {booted, booted \cup {req[p].svc}},
           UNCHANGED <<image, images, known, mounts, crossed>>
    PROVE  World(p)
  BY ContainerType DEF World, TypeOK

LEMMA HandleFrame ==
    ASSUME IInv, NEW p \in Proc, Handle(p)
    PROVE  Frame(p)
  <1> DEFINE s == req[p].svc
  <1> TypeOK
    BY DEF IInv
  <1>0. ASSUME World(p), Moves(p), req[p].at # "free", UNCHANGED <<services, file>>,
               req'[p].at \in BeforeRun =>
                   req[p].at \in BeforeRun /\ container' = container /\ removed' = removed
        PROVE  Frame(p)
    BY <1>0 DEF World, Frame, TypeOK
  <1>s. req[p].at # "free" => s \in Svc
    BY DEF TypeOK
  <1>v. "none" \in ContainerStates /\ "up" \in ContainerStates /\ "down" \in ContainerStates
    BY DEF ContainerStates
  <1>1. CASE CheckOverlay(p)
    <2>1. Moves(p) /\ req[p].at \in BeforeRun
      BY <1>1, GotoMoves DEF CheckOverlay, At, Places, BeforeRun
    <2>2. World(p)
      BY <1>1, <1>s, <1>v, ContainerWorld DEF CheckOverlay, At
    <2> QED  BY <1>0, <1>1, <2>1, <2>2 DEF CheckOverlay, At
  <1>2. CASE MountOverlay(p)
    <2>1. Moves(p) /\ req[p].at \in BeforeRun
      BY <1>2, GotoMoves DEF MountOverlay, At, Places, BeforeRun
    <2>2. mounts' \in 0 .. MaxMounts
      BY <1>2, GuestAssumption DEF MountOverlay, TypeOK
    <2>3. World(p)
      BY <1>2, <1>s, <2>2 DEF MountOverlay, At, World, TypeOK
    <2> QED  BY <1>0, <1>2, <2>1, <2>3 DEF MountOverlay, At
  <1>3. CASE MountFails(p)
    BY <1>0, <1>3, <1>s, <1>v, FinishMoves, ContainerWorld DEF MountFails, At
  <1>4. CASE MarkOverlay(p)
    <2>1. Moves(p) /\ req[p].at \in BeforeRun
      BY <1>4, GotoMoves DEF MarkOverlay, At, Places, BeforeRun
    <2>2. World(p)
      BY <1>4, <1>s DEF MarkOverlay, At, World, TypeOK
    <2> QED  BY <1>0, <1>4, <2>1, <2>2 DEF MarkOverlay, At
  <1>5. CASE RunContainer(p)
    <2>1. Moves(p) /\ req'[p].at \notin BeforeRun
      BY <1>5, GotoMoves DEF RunContainer, Places, BeforeRun
    <2>2. World(p)
      BY <1>5, <1>s, <1>v, ContainerWorld DEF RunContainer, At
    <2> QED  BY <1>0, <1>5, <2>1, <2>2 DEF RunContainer, At
  <1>6. CASE RunFails(p)
    <2>1. World(p)
      BY <1>6, <1>s, <1>v, ContainerWorld DEF RunFails, At
    <2> QED  BY <1>0, <1>6, <2>1, FinishMoves DEF RunFails, At
  <1>7. CASE StartContainer(p)
    <2>1. Moves(p) /\ req'[p].at \notin BeforeRun
      BY <1>7, GotoMoves DEF StartContainer, Places, BeforeRun
    <2>2. World(p)
      BY <1>7, <1>s, <1>v, ContainerWorld DEF StartContainer, At
    <2> QED  BY <1>0, <1>7, <2>1, <2>2 DEF StartContainer, At
  <1>8. CASE StartFails(p)
    <2>1. World(p)
      BY <1>8, <1>s, <1>v, ContainerWorld DEF StartFails, At
    <2> QED  BY <1>0, <1>8, <2>1, FinishMoves DEF StartFails, At
  <1>9. CASE Healthy(p)
    <2>1. Moves(p) /\ req'[p].at \notin BeforeRun
      BY <1>9, GotoMoves DEF Healthy, Places, BeforeRun
    <2>2. World(p)
      BY <1>9, <1>s, <1>v, ContainerWorld DEF Healthy
    <2> QED  BY <1>0, <1>9, <2>1, <2>2 DEF Healthy
  <1>10. CASE Unhealthy(p)
    <2>1. World(p)
      BY <1>10, <1>s, <1>v, ContainerWorld DEF Unhealthy, GivesUp
    <2> QED  BY <1>0, <1>10, <2>1, FinishMoves DEF Unhealthy, GivesUp
  <1>11. CASE StopContainer(p)
    <2>1. Moves(p) /\ req'[p].at \notin BeforeRun
      BY <1>11, GotoMoves DEF StopContainer, Places, BeforeRun
    <2>2. World(p)
      BY <1>11, <1>s, <1>v, ContainerWorld DEF StopContainer, At
    <2> QED  BY <1>0, <1>11, <2>1, <2>2 DEF StopContainer, At
  <1>12. CASE StopFails(p)
    <2>1. World(p)
      BY <1>12, <1>s, <1>v, ContainerWorld DEF StopFails, At
    <2> QED  BY <1>0, <1>12, <2>1, FinishMoves DEF StopFails, At
  <1>13. CASE RemoveContainer(p)
    <2>1. Moves(p) /\ req'[p].at \notin BeforeRun
      BY <1>13, GotoMoves DEF RemoveContainer, Places, BeforeRun
    <2>2. World(p)
      BY <1>13, <1>s, <1>v, ContainerWorld DEF RemoveContainer, At
    <2> QED  BY <1>0, <1>13, <2>1, <2>2 DEF RemoveContainer, At
  <1>14. CASE Forget(p) \/ Insert(p)
    <2>1. Moves(p) /\ req'[p] = Free /\ req'[p].at \notin BeforeRun /\ s \in Svc /\ req[p].at # "free"
      BY <1>14, <1>s, FinishMoves DEF Forget, Insert, At
    <2>2. PICK v \in Recorded : Store([services EXCEPT ![s] = v])
      BY <1>14 DEF Forget, Insert, Recorded
    <2>3. World(p)
      BY <1>14, <1>v, <2>1, ContainerWorld DEF Forget, Insert
    <2> HIDE DEF s
    <2> QED  BY <2>1, <2>2, <2>3, StoreType DEF Frame, World, s
  <1> QED  BY <1>1, <1>2, <1>3, <1>4, <1>5, <1>6, <1>7, <1>8, <1>9, <1>10, <1>11, <1>12, <1>13,
              <1>14 DEF Handle

-----------------------------------------------------------------------------
(* Every step keeps the invariant                                          *)

LEMMA HandleKeeps == ASSUME IInv, NEW p \in Proc, Handle(p)  PROVE IInv'
  <1> DEFINE s == req[p].svc
  <1>1. Frame(p)
    BY HandleFrame
  <1>2. TypeOK /\ Untouched /\ CreateAlone(p)
    BY DEF IInv
  <1>3. image[s] # NoImage
    BY <1>1, <1>2 DEF Frame, TypeOK
  <1>4. TypeOK'
    <2>1. ASSUME NEW q \in Proc
          PROVE  IF req'[q].at = "free" THEN req'[q] = Free
                 ELSE req'[q].svc \in Svc /\ image'[req'[q].svc] # NoImage
      <3>1. CASE q = p
        BY <1>1, <1>3, <3>1 DEF Frame, Moves, Free
      <3>2. CASE q # p
        BY <1>1, <1>2, <3>2 DEF Frame, Moves, TypeOK
      <3> QED  BY <3>1, <3>2
    <2> QED  BY <1>1, <1>2, <2>1 DEF Frame, Moves, TypeOK, Request
  <1>5. Untouched'
    BY <1>1, <1>2, <1>3 DEF Frame, Untouched
  <1>6. CreateAlone(p)'
    <2>1. CASE req'[p] = Free
      BY <2>1 DEF CreateAlone, Free
    <2>2. CASE req'[p] # Free
      BY <1>1, <1>2, <2>2 DEF Frame, Moves, CreateAlone
    <2> QED  BY <2>1, <2>2
  <1>7. ASSUME NEW q \in Proc \ {p}  PROVE CreateAlone(q)'
    <2> SUFFICES ASSUME req[q].op = "create"  PROVE CreateAlone(q)'
      BY <1>1 DEF Frame, Moves, CreateAlone
    <2>1. CreateAlone(q) /\ req[q].svc \in Svc
      <3>1. req[q].at # "free"
        BY <1>2 DEF TypeOK, Free
      <3> QED  BY <1>2, <3>1 DEF IInv, TypeOK
    <2>2. req[q].svc # s
      BY <2>1 DEF CreateAlone
    <2>3. req'[q] = req[q] /\ req'[p].svc # req[q].svc
      BY <1>1, <2>1, <2>2, GuestAssumption DEF Frame, Moves, Free
    <2>4. \A o \in Proc \ {q} : req'[o].svc # req[q].svc
      BY <1>1, <2>1, <2>3 DEF Frame, Moves, CreateAlone
    <2> QED  BY <1>1, <2>1, <2>2, <2>3, <2>4 DEF Frame, CreateAlone
  <1> QED  BY <1>4, <1>5, <1>6, <1>7 DEF IInv

LEMMA BeginKeeps ==
    ASSUME IInv, NEW p \in Proc, NEW s \in Svc, BeginAny(p, s)
    PROVE  /\ IInv'
           /\ req[p] = Free /\ req'[p].svc = s /\ \A q \in Proc \ {p} : req'[q] = req[q]
  <1>0. TypeOK /\ Untouched
    BY DEF IInv
  <1>1. ASSUME NEW op \in {"create", "start", "stop", "delete"},
               NEW place \in Places \ {"free"}, Begin(p, op, s, place)
        PROVE  /\ req' \in [Proc -> Request]
               /\ req[p] = Free /\ req'[p] = [at |-> place, op |-> op, svc |-> s]
               /\ \A q \in Proc \ {p} : req'[q] = req[q]
    <2>1. [at |-> place, op |-> op, svc |-> s] \in Request
      BY DEF Request
    <2> QED  BY <1>0, <1>1, <2>1, RequestType DEF Begin
  <1>2. ASSUME NEW i \in Image, BeginCreate(p, s, i)
        PROVE  /\ IInv'
               /\ req[p] = Free /\ req'[p].svc = s /\ \A q \in Proc \ {p} : req'[q] = req[q]
    <2>1. /\ req' \in [Proc -> Request]
          /\ req[p] = Free /\ req'[p] = [at |-> "overlay", op |-> "create", svc |-> s]
          /\ \A q \in Proc \ {p} : req'[q] = req[q]
      BY <1>1, <1>2 DEF BeginCreate, Places
    <2>2. /\ image[s] = NoImage /\ image'[s] = i /\ image' \in [Svc -> Image \cup {NoImage}]
          /\ \A t \in Svc \ {s} : image'[t] = image[t]
      BY <1>0, <1>2 DEF BeginCreate, TypeOK
    <2>3. \A q \in Proc : req[q].svc # s
      BY <1>0, <2>2, GuestAssumption DEF TypeOK, Free
    <2>4. UNCHANGED <<services, file, container, images, known, mounts, removed, leaked, crossed, booted>>
      BY <1>2 DEF BeginCreate
    <2>5. TypeOK'
      BY <1>0, <2>1, <2>2, <2>3, <2>4, GuestAssumption DEF TypeOK, Request
    <2>6. Untouched'
      BY <1>0, <2>2, <2>4, GuestAssumption DEF Untouched
    <2>7. CreateAlone(p)'
      BY <1>0, <2>1, <2>2, <2>3, <2>4 DEF CreateAlone, Untouched
    <2>8. ASSUME NEW q \in Proc \ {p}  PROVE CreateAlone(q)'
      <3>1. CreateAlone(q) /\ req'[q] = req[q] /\ req[q].svc # s
        BY <2>1, <2>3 DEF IInv
      <3> QED  BY <2>1, <2>4, <3>1 DEF CreateAlone
    <2> QED  BY <2>1, <2>5, <2>6, <2>7, <2>8 DEF IInv
  <1>3. CASE BeginStart(p, s) \/ BeginStop(p, s) \/ BeginDelete(p, s)
    <2>1. PICK op \in {"start", "stop", "delete"}, place \in Places \ {"free"} : Begin(p, op, s, place)
      BY <1>3 DEF BeginStart, BeginStop, BeginDelete, Places
    <2>2. /\ req' \in [Proc -> Request]
          /\ req[p] = Free /\ req'[p] = [at |-> place, op |-> op, svc |-> s]
          /\ \A q \in Proc \ {p} : req'[q] = req[q]
      BY <1>1, <2>1
    <2>3. services[s] # "absent" /\ image[s] # NoImage
      BY <1>0, <1>3 DEF BeginStart, BeginStop, BeginDelete, Untouched
    <2>4. /\ UNCHANGED <<services, image, file, container, images, known, mounts, removed, leaked, booted>>
          /\ crossed' \in {crossed, crossed \cup {s}}
      BY <1>3 DEF BeginStart, BeginStop, BeginDelete
    <2>5. TypeOK'
      BY <1>0, <2>2, <2>3, <2>4 DEF TypeOK, Request
    <2>6. Untouched'
      BY <1>0, <2>4 DEF Untouched
    <2>7. CreateAlone(p)'
      BY <2>2 DEF CreateAlone
    <2>8. ASSUME NEW q \in Proc \ {p}  PROVE CreateAlone(q)'
      <3>1. CreateAlone(q) /\ req'[q] = req[q]
        BY <2>2 DEF IInv
      <3> QED  BY <2>2, <2>3, <2>4, <3>1 DEF CreateAlone
    <2> QED  BY <2>2, <2>5, <2>6, <2>7, <2>8 DEF IInv
  <1> QED  BY <1>2, <1>3 DEF BeginAny

LEMMA ImagesKeep ==
    ASSUME IInv, Prune \/ \E i \in Image : GetImage(i) \/ DeleteImage(i)
    PROVE  /\ IInv'
           /\ UNCHANGED <<services, image, file, container, known, mounts, req, removed, leaked, crossed, booted>>
  <1>1. /\ images' \subseteq Image
        /\ UNCHANGED <<services, image, file, container, known, mounts, req, removed, leaked, crossed, booted>>
    BY DEF GetImage, DeleteImage, Prune, DropImages, IInv, TypeOK
  <1> QED  BY <1>1 DEF IInv, TypeOK, Untouched, CreateAlone

LEMMA ReloadKeeps ==
    ASSUME IInv, Restart \/ Reboot
    PROVE  IInv' /\ Reload /\ \A p \in Proc : req'[p] = Free
  <1>1. Reload /\ mounts' \in 0 .. MaxMounts /\ booted' \subseteq Svc
    BY GuestAssumption DEF Restart, Reboot, IInv, TypeOK
  <1>2. Free \in Request
    BY DEF Free, Request, Places
  <1>3. req' \in [Proc -> Request] /\ \A p \in Proc : req'[p] = Free
    BY <1>1, <1>2 DEF Reload
  <1>4. TypeOK'
    BY <1>1, <1>3 DEF Reload, IInv, TypeOK, Request, Free
  <1>5. Untouched'
    BY <1>1 DEF Reload, IInv, Untouched
  <1>6. \A p \in Proc : CreateAlone(p)'
    BY <1>3 DEF CreateAlone, Free
  <1> QED  BY <1>1, <1>3, <1>4, <1>5, <1>6 DEF IInv

\* The invariant is inductive.
LEMMA StepInv == IInv /\ [Next]_vars => IInv'
  <1> SUFFICES ASSUME IInv, [Next]_vars  PROVE IInv'
    OBVIOUS
  <1>1. CASE UNCHANGED vars
    BY <1>1 DEF vars, IInv, TypeOK, Untouched, CreateAlone
  <1> QED  BY <1>1, HandleKeeps, BeginKeeps, ImagesKeep, ReloadKeeps DEF Next

LEMMA InitInv == Init => IInv
  <1> SUFFICES ASSUME Init  PROVE IInv
    OBVIOUS
  <1>1. Free \in Request
    BY DEF Free, Request, Places
  <1>2. TypeOK
    <2>1. req \in [Proc -> Request] /\ \A p \in Proc : req[p] = Free /\ req[p].at = "free"
      BY <1>1 DEF Init, Free
    <2>2. mounts \in 0 .. MaxMounts
      BY GuestAssumption DEF Init
    <2>4. known \in BOOLEAN
      BY Zenon DEF Init
    <2>3. /\ services \in [Svc -> Recorded] /\ file \in [Svc -> Recorded]
          /\ image \in [Svc -> Image \cup {NoImage}]
          /\ container \in [Svc -> ContainerStates]
      BY DEF Init, Recorded, ContainerStates
    <2> QED  BY <2>1, <2>2, <2>3, <2>4 DEF Init, TypeOK, Request
  <1> QED  BY <1>2 DEF Init, IInv, Untouched, CreateAlone, Free

LEMMA Invariance == Spec => []IInv
  BY InitInv, StepInv, PTL DEF Spec

\* Type correctness of the guest's table, file, containers, images and handlers.
THEOREM GuestTypes == Spec => []TypeOK
  <1>1. IInv => TypeOK
    BY DEF IInv
  <1> QED  BY <1>1, Invariance, PTL

-----------------------------------------------------------------------------
(* The container of a service is made once                                 *)

\* What ContainerLife lets happen to one container in one step.
Allowed(from, to) ==
    \/ from = to
    \/ from = "never" /\ to = "up"
    \/ from = "up" /\ to = "down"
    \/ from = "down" /\ to = "up"
    \/ from \in {"up", "down"} /\ to = "removed"

LEMMA OneService ==
    ASSUME NEW s \in Svc, \A t \in Svc \ {s} : LifeOf(t)' = LifeOf(t),
           Allowed(LifeOf(s), LifeOf(s)')
    PROVE  Life!Next \/ [t \in Svc |-> LifeOf(t)]' = [t \in Svc |-> LifeOf(t)]
  <1> DEFINE life == [t \in Svc |-> LifeOf(t)]
             life2 == [t \in Svc |-> LifeOf(t)']
  <1>1. life2 = [life EXCEPT ![s] = LifeOf(s)']
    OBVIOUS
  <1>2. CASE LifeOf(s)' = LifeOf(s)
    BY <1>2
  <1>3. CASE LifeOf(s)' # LifeOf(s)
    <2>1. \E from \in {{"never"}, {"up"}, {"down"}, {"up", "down"}}, to \in {"up", "down", "removed"} :
            /\ LifeOf(s) \in from /\ to = LifeOf(s)'
            /\ \/ from = {"never"} /\ to = "up"
               \/ from = {"up"} /\ to = "down"
               \/ from = {"down"} /\ to = "up"
               \/ from = {"up", "down"} /\ to = "removed"
      BY <1>3 DEF Allowed
    <2>2. Life!Make(s) \/ Life!Stop(s) \/ Life!Start(s) \/ Life!Remove(s)
      BY <1>1, <2>1 DEF Life!Make, Life!Stop, Life!Start, Life!Remove, Life!Become
    <2> QED  BY <2>2 DEF Life!Next
  <1> QED  BY <1>2, <1>3

LEMMA HandleIsLife ==
    ASSUME IInv, NEW p \in Proc, Handle(p)
    PROVE  Life!Next \/ [t \in Svc |-> LifeOf(t)]' = [t \in Svc |-> LifeOf(t)]
  <1>s. PICK s : s = req[p].svc
    OBVIOUS
  <1>1. Frame(p)
    BY HandleFrame
  <1>2. TypeOK /\ CreateAlone(p) /\ s \in Svc
    BY <1>1, <1>s DEF IInv, Frame
  <1>3. \A t \in Svc \ {s} : LifeOf(t)' = LifeOf(t)
    BY <1>1, <1>s DEF Frame, LifeOf
  <1>4. container[s] \in {"none", "up", "down"}
    BY <1>2 DEF TypeOK, ContainerStates
  <1>5. \A v : SetContainer(s, v) => container'[s] = v
    BY <1>2 DEF SetContainer, TypeOK
  <1>6. Allowed(LifeOf(s), LifeOf(s)')
    <2>1. CASE container' = container /\ removed' = removed
      BY <2>1 DEF LifeOf, Allowed
    <2>2. CASE RunContainer(p) \/ RunFails(p)
      <3>1. container[s] = "none" /\ s \notin removed
        BY <1>2, <1>s, <2>2 DEF RunContainer, RunFails, At, CreateAlone, BeforeRun
      <3>2. container'[s] = "up" \/ (container' = container /\ removed' = removed)
        BY <1>5, <1>s, <2>2 DEF RunContainer, RunFails
      <3> QED  BY <2>1, <3>1, <3>2 DEF LifeOf, Allowed
    <2>3. CASE StartContainer(p) \/ StartFails(p)
      <3>1. (container[s] # "none" /\ container'[s] = "up") \/ (container' = container /\ removed' = removed)
        BY <1>5, <1>s, <2>3 DEF StartContainer, StartFails
      <3> QED  BY <1>4, <2>1, <3>1 DEF LifeOf, Allowed
    <2>4. CASE StopContainer(p) \/ StopFails(p)
      <3>1. (container[s] # "none" /\ container'[s] = "down") \/ (container' = container /\ removed' = removed)
        BY <1>5, <1>s, <2>4 DEF StopContainer, StopFails
      <3> QED  BY <1>4, <2>1, <3>1 DEF LifeOf, Allowed
    <2>5. CASE RemoveContainer(p) \/ Unhealthy(p)
      <3>1. \/ container' = container /\ removed' = removed
            \/ /\ container'[s] = "none"
               /\ removed' = IF container[s] = "none" THEN removed ELSE removed \cup {s}
            \/ /\ container'[s] = IF container[s] = "none" THEN "none" ELSE "down"
               /\ removed' = removed
        BY <1>5, <1>s, <2>5 DEF RemoveContainer, Unhealthy
      <3> QED  BY <1>4, <2>1, <3>1 DEF LifeOf, Allowed
    <2> QED  BY <2>1, <2>2, <2>3, <2>4, <2>5
             DEF Handle, CheckOverlay, MountOverlay, MountFails, MarkOverlay, Healthy, Forget, Insert
  <1> QED  BY <1>2, <1>3, <1>6, OneService

\* The guest daemon, with all its handlers in flight and through every fault,
\* does to a container only what ContainerLife allows: make it once, start and
\* stop it, and remove it for good.
THEOREM GuestImplementsLife == Spec => ImplementsLife
  <1>1. Init => Life!Init
    BY DEF Init, Life!Init, LifeOf
  <1>2. IInv /\ [Next]_vars => [Life!Next]_([s \in Svc |-> LifeOf(s)])
    <2> SUFFICES ASSUME IInv, [Next]_vars
                 PROVE  Life!Next \/ [s \in Svc |-> LifeOf(s)]' = [s \in Svc |-> LifeOf(s)]
      OBVIOUS
    <2>1. CASE UNCHANGED <<container, removed>>
      BY <2>1 DEF LifeOf
    <2> QED
      BY <2>1, HandleIsLife, ImagesKeep, ReloadKeeps
      DEF Next, BeginAny, BeginCreate, BeginStart, BeginStop, BeginDelete, Reload, vars
  <1> QED  BY <1>1, <1>2, Invariance, PTL DEF Spec, ImplementsLife, Life!Spec

-----------------------------------------------------------------------------
(* Images and the excluded directory                                       *)

\* The image of every service with a container stays, whatever image deletes,
\* prunes and creates overlap.
THEOREM ImagesAreKept == Spec => []ContainersKeepImages
  <1>1. Init => ContainersKeepImages
    BY DEF Init, ContainersKeepImages
  <1>2. IInv /\ ContainersKeepImages /\ [Next]_vars => ContainersKeepImages'
    <2> SUFFICES ASSUME IInv, ContainersKeepImages, [Next]_vars,
                        NEW s \in Svc, container'[s] # "none"
                 PROVE  image'[s] \in images'
      BY DEF ContainersKeepImages
    <2>1. CASE UNCHANGED <<container, images, image>>
      BY <2>1 DEF ContainersKeepImages
    <2>2. ASSUME NEW p \in Proc, Handle(p)  PROVE image'[s] \in images'
      <3>1. PICK t \in Svc : t = req[p].svc
        BY <2>2, HandleFrame DEF Frame
      <3>2. /\ image' = image /\ images' = images
            /\ s # t => container'[s] = container[s]
        BY <2>2, <3>1, HandleFrame DEF Frame
      <3>3. CASE container[s] # "none"
        BY <3>2, <3>3 DEF ContainersKeepImages
      <3>4. CASE container[s] = "none"
        <4>1. s = t /\ container' # container
          BY <3>2, <3>4
        <4>2. \A v : SetContainer(t, v) => container'[t] = v
          BY DEF SetContainer, IInv, TypeOK
        <4>3. RunContainer(p) \/ RunFails(p)
          BY <2>2, <3>1, <3>4, <4>1, <4>2
          DEF Handle, CheckOverlay, MountOverlay, MountFails, MarkOverlay, StartContainer,
              StartFails, Healthy, Unhealthy, StopContainer, StopFails, RemoveContainer, Forget,
              Insert
        <4> QED  BY <3>1, <3>2, <4>1, <4>3 DEF RunContainer, RunFails
      <3> QED  BY <3>3, <3>4
    <2>3. ASSUME NEW p \in Proc, NEW t \in Svc, BeginAny(p, t)  PROVE image'[s] \in images'
      <3>1. image'[s] = image[s] /\ UNCHANGED <<container, images>>
        BY <2>3 DEF BeginAny, BeginCreate, BeginStart, BeginStop, BeginDelete, IInv, TypeOK, Untouched
      <3> QED  BY <3>1 DEF ContainersKeepImages
    <2>4. CASE Prune \/ \E i \in Image : GetImage(i) \/ DeleteImage(i)
      <3>1. image[s] \in images /\ image[s] \in InUse /\ image' = image
        BY <2>4, ImagesKeep DEF ContainersKeepImages, InUse
      <3>2. image[s] \in images'
        BY <2>4, <3>1 DEF Prune, GetImage, DeleteImage, DropImages
      <3> QED  BY <3>1, <3>2
    <2> QED  BY <2>1, <2>2, <2>3, <2>4 DEF Next, Restart, Reboot, Reload, vars
  <1> QED  BY <1>1, <1>2, Invariance, PTL DEF Spec

\* Creates that are past the mount, and containers made since the boot, have
\* the overlay on the directory.
HiddenInv ==
    /\ known => mounts > 0
    /\ \A p \in Proc : req[p].op = "create" /\ req[p].at \in {"mark", "run"} => mounts > 0
    /\ booted # {} => mounts > 0

LEMMA HiddenStep == IInv /\ HiddenInv /\ [Next]_vars => HiddenInv'
  <1> SUFFICES ASSUME IInv, HiddenInv, [Next]_vars  PROVE HiddenInv'
    OBVIOUS
  <1> USE DEF HiddenInv
  <1>0. mounts \in Nat
    BY GuestAssumption DEF IInv, TypeOK
  <1>1. ASSUME NEW p \in Proc, Handle(p)  PROVE HiddenInv'
    <2>1. Frame(p) /\ TypeOK
      BY <1>1, HandleFrame DEF IInv
    <2>2. \A q \in Proc \ {p} : req'[q] = req[q]
      BY <2>1 DEF Frame, Moves
    <2>3. CASE CheckOverlay(p)
      <3>1. req'[p].at = IF known THEN "run" ELSE "mount"
        BY <2>1, <2>3, GotoMoves DEF CheckOverlay, Places
      <3> QED  BY <2>2, <2>3, <3>1 DEF CheckOverlay
    <2>4. CASE MountOverlay(p)
      BY <1>0, <2>4 DEF MountOverlay
    <2>5. CASE MarkOverlay(p)
      BY <2>2, <2>5 DEF MarkOverlay, At
    <2>6. CASE RunContainer(p) \/ RunFails(p)
      <3>1. mounts > 0
        BY <2>6 DEF RunContainer, RunFails, At
      <3> QED  BY <2>6, <3>1 DEF RunContainer, RunFails
    <2>7. CASE req'[p].at \notin {"mark", "run"} /\ UNCHANGED <<known, mounts, booted>>
      BY <2>2, <2>7
    <2>8. CASE req'[p] = Free /\ UNCHANGED <<known, mounts, booted>>
      BY <2>7, <2>8 DEF Free
    <2>9. CASE \/ MountFails(p) \/ StartFails(p) \/ Unhealthy(p) \/ StopFails(p) \/ Forget(p)
               \/ Insert(p)
      BY <2>1, <2>8, <2>9, FinishMoves
      DEF MountFails, StartFails, Unhealthy, StopFails, Forget, Insert
    <2>10. CASE StartContainer(p) \/ Healthy(p) \/ StopContainer(p) \/ RemoveContainer(p)
      <3>1. req'[p].at \in {"health", "insert", "forget"}
        BY <2>1, <2>10, GotoMoves DEF StartContainer, Healthy, StopContainer, RemoveContainer, Places
      <3> QED  BY <2>7, <2>10, <3>1 DEF StartContainer, Healthy, StopContainer, RemoveContainer
    <2> QED  BY <1>1, <2>3, <2>4, <2>5, <2>6, <2>9, <2>10 DEF Handle
  <1>2. ASSUME NEW p \in Proc, NEW s \in Svc, BeginAny(p, s)  PROVE HiddenInv'
    <2>1. UNCHANGED <<known, mounts, booted>>
      BY <1>2 DEF BeginAny, BeginCreate, BeginStart, BeginStop, BeginDelete
    <2>2. req'[p].at \notin {"mark", "run"}
      BY <1>2 DEF BeginAny, BeginCreate, BeginStart, BeginStop, BeginDelete, Begin, IInv, TypeOK
    <2> QED  BY <1>2, <2>1, <2>2, BeginKeeps
  <1>3. CASE Prune \/ \E i \in Image : GetImage(i) \/ DeleteImage(i)
    BY <1>3, ImagesKeep
  <1>4. CASE Restart \/ Reboot
    BY <1>4, ReloadKeeps DEF Restart, Reboot, Reload, Free
  <1>5. CASE UNCHANGED vars
    BY <1>5 DEF vars
  <1> QED  BY <1>1, <1>2, <1>3, <1>4, <1>5 DEF Next

\* The excluded directory is hidden from every container made since the boot.
THEOREM ExcludedStaysHidden == Spec => []ExcludedIsHidden
  <1>1. Init => HiddenInv
    BY DEF Init, HiddenInv, Free
  <1>2. HiddenInv => ExcludedIsHidden
    BY DEF HiddenInv, ExcludedIsHidden
  <1> QED  BY <1>1, <1>2, HiddenStep, Invariance, PTL DEF Spec

-----------------------------------------------------------------------------
(* Records and containers                                                  *)

\* Only a create, a start and a failing clean-up let a container run; only a
\* delete drops a record, only a stop marks one as stopped.
Facts(p, s) ==
    LET op == req[p].op
        at == req[p].at
    IN
    /\ container[s] = "none" /\ container'[s] # "none" => op = "create"
    /\ container[s] # "up" /\ container'[s] = "up" =>
          \/ op = "create"
          \/ op = "start" /\ (s \in leaked' \/ (req'[p].at = "health" /\ req'[p].op = "start"))
    /\ services[s] # "absent" /\ services'[s] = "absent" =>
          op = "delete" /\ at = "forget" /\ container' = container
    /\ services[s] # "stopped" /\ services'[s] = "stopped" =>
          op = "stop" /\ at = "insert" /\ container' = container
    /\ op = "create" /\ req'[p] = Free =>
          services'[s] # "absent" \/ container'[s] = "none" \/ s \in leaked'
    /\ op = "start" /\ at \in {"health", "insert"} =>
          \/ req'[p].at = "insert" /\ req'[p].op = "start"
          \/ services'[s] # "stopped" \/ container'[s] # "up" \/ s \in leaked'
    /\ req'[p].at = "forget" => container'[s] = "none" \/ s \in leaked'
    /\ req'[p].at = "insert" /\ req'[p].op = "stop" => at = "health" \/ container'[s] # "up"
    /\ req'[p].at = "health" => req'[p].op \in {"create", "start"}

LEMMA HandleFacts ==
    ASSUME IInv, NEW p \in Proc, Handle(p), NEW s \in Svc, s = req[p].svc
    PROVE  Facts(p, s)
  <1>0. TypeOK /\ CreateAlone(p) /\ Free.at = "free" /\ Frame(p)
    BY HandleFrame DEF IInv, Free
  <1>1. \A v : SetContainer(s, v) => container'[s] = v
    BY <1>0 DEF SetContainer, TypeOK
  <1>2. ASSUME NEW place \in Places \ {"free"}, Goto(p, place)
        PROVE  req'[p].at = place /\ req'[p].op = req[p].op /\ req'[p] # Free
    <2>1. req'[p].at = place
      BY <1>0, <1>2, GotoMoves
    <2>2. req'[p] = [at |-> place, op |-> req[p].op, svc |-> req[p].svc]
      BY <1>0, <1>2, GotoType
    <2>3. place # "free"
      OBVIOUS
    <2> QED  BY <1>0, <2>1, <2>2, <2>3
  <1>3. ASSUME Finish(p)  PROVE req'[p].at = "free" /\ req'[p] = Free
    BY <1>0, <1>3, FinishMoves
  <1>4. CASE CheckOverlay(p) \/ MountOverlay(p) \/ MarkOverlay(p)
    <2>1. /\ req'[p].at \in BeforeRun /\ req'[p] # Free /\ req[p].op = "create"
          /\ UNCHANGED <<container, services>>
      BY <1>2, <1>4 DEF CheckOverlay, MountOverlay, MarkOverlay, At, Places, BeforeRun
    <2> QED  BY <2>1 DEF Facts, BeforeRun
  <1>5. CASE MountFails(p)
    <2>1. container[s] = "none" /\ UNCHANGED <<container, services>> /\ req[p].op = "create"
      BY <1>0, <1>5 DEF MountFails, At, CreateAlone, BeforeRun
    <2> QED  BY <1>3, <1>5, <2>1 DEF Facts, MountFails
  <1>6. CASE RunContainer(p)
    <2>1. /\ req'[p].at = "health" /\ req'[p].op = "create" /\ req'[p] # Free
          /\ req[p].op = "create" /\ services' = services
      BY <1>2, <1>6 DEF RunContainer, At, Places
    <2> QED  BY <2>1 DEF Facts
  <1>7. CASE RunFails(p)
    <2>1. container[s] = "none" /\ services' = services /\ req[p].op = "create"
      BY <1>0, <1>7 DEF RunFails, At, CreateAlone, BeforeRun
    <2>2. container' = container \/ s \in leaked'
      BY <1>7 DEF RunFails
    <2> QED  BY <1>3, <1>7, <2>1, <2>2 DEF Facts, RunFails
  <1>8. CASE StartContainer(p)
    <2>1. /\ req'[p].at = "health" /\ req'[p].op = "start" /\ req'[p] # Free
          /\ req[p].op = "start" /\ req[p].at = "start" /\ services' = services
          /\ container[s] # "none"
      BY <1>2, <1>8 DEF StartContainer, At, Places
    <2> QED  BY <2>1 DEF Facts
  <1>9. CASE StartFails(p)
    <2>1. /\ req'[p].at = "free" /\ req[p].op = "start" /\ req[p].at = "start"
          /\ services' = services
      BY <1>3, <1>9 DEF StartFails, At
    <2>2. container' = container \/ (s \in leaked' /\ container[s] = "down")
      BY <1>9 DEF StartFails
    <2> QED  BY <2>1, <2>2 DEF Facts
  <1>10. CASE Healthy(p)
    <2>1. /\ req'[p].at = "insert" /\ req'[p].op = req[p].op /\ req'[p] # Free
          /\ req[p].at = "health" /\ UNCHANGED <<services, container>>
      BY <1>2, <1>10 DEF Healthy, Places
    <2> QED  BY <2>1 DEF Facts
  <1>11. CASE Unhealthy(p)
    <2>1. req'[p].at = "free" /\ req[p].at = "health" /\ services' = services
      BY <1>3, <1>11 DEF Unhealthy, GivesUp
    <2>2. \/ req[p].op = "create" /\ container'[s] = "none"
          \/ req[p].op = "start" /\ container'[s] = IF container[s] = "none" THEN "none" ELSE "down"
          \/ container' = container /\ s \in leaked'
      BY <1>1, <1>11 DEF Unhealthy
    <2> QED  BY <2>1, <2>2 DEF Facts
  <1>12. CASE StopContainer(p)
    <2>1. /\ req'[p].at = "insert" /\ req'[p].op = "stop" /\ req'[p] # Free
          /\ req[p].op = "stop" /\ services' = services
          /\ container[s] # "none" /\ container'[s] = "down"
      BY <1>1, <1>2, <1>12 DEF StopContainer, At, Places
    <2> QED  BY <2>1 DEF Facts
  <1>13. CASE StopFails(p)
    <2>1. req'[p].at = "free" /\ req[p].op = "stop" /\ services' = services
      BY <1>3, <1>13 DEF StopFails, At
    <2>2. container' = container \/ (container[s] = "up" /\ container'[s] = "down")
      BY <1>1, <1>13 DEF StopFails
    <2> QED  BY <2>1, <2>2 DEF Facts
  <1>14. CASE RemoveContainer(p)
    <2>1. /\ req'[p].at = "forget" /\ req'[p].op = "delete" /\ req'[p] # Free
          /\ req[p].op = "delete" /\ services' = services
      BY <1>2, <1>14 DEF RemoveContainer, At, Places
    <2>2. container'[s] = "none" \/ (container' = container /\ s \in leaked')
      BY <1>1, <1>14 DEF RemoveContainer
    <2> QED  BY <2>1, <2>2 DEF Facts
  <1>15. CASE Forget(p)
    <2>1. /\ req'[p].at = "free" /\ req[p].op = "delete" /\ req[p].at = "forget"
          /\ container' = container /\ services'[s] = "absent"
      BY <1>0, <1>3, <1>15, StoreType DEF Forget, At, Recorded
    <2> QED  BY <2>1 DEF Facts
  <1>16. CASE Insert(p)
    <2>1. /\ req'[p].at = "free" /\ req[p].at = "insert" /\ container' = container
      BY <1>3, <1>16 DEF Insert
    <2>2. services'[s] = IF req[p].op = "stop" THEN "stopped" ELSE "running"
      BY <1>0, <1>16, StoreType DEF Insert, Recorded
    <2> QED  BY <2>1, <2>2 DEF Facts
  <1> QED  BY <1>4, <1>5, <1>6, <1>7, <1>8, <1>9, <1>10, <1>11, <1>12, <1>13, <1>14, <1>15, <1>16
           DEF Handle

\* A container without a record belongs to a create in flight or is leaked;
\* and a delete forgets the record of no other container.
OrphanInv ==
    /\ \A s \in Svc : services[s] = "absent" /\ container[s] # "none" =>
          s \in leaked \/ \E p \in Proc : req[p].op = "create" /\ req[p].svc = s
    /\ \A p \in Proc : req[p].at = "forget" =>
          container[req[p].svc] = "none" \/ req[p].svc \in leaked

LEMMA OrphanStep == IInv /\ OrphanInv /\ [Next]_vars => OrphanInv'
  <1> SUFFICES ASSUME IInv, OrphanInv, [Next]_vars  PROVE OrphanInv'
    OBVIOUS
  <1>1. ASSUME NEW p \in Proc, Handle(p)  PROVE OrphanInv'
    <2>1. PICK t \in Svc : t = req[p].svc
      BY <1>1, HandleFrame DEF Frame
    <2>2. Frame(p) /\ Facts(p, t) /\ CreateAlone(p)
      BY <1>1, <2>1, HandleFrame, HandleFacts DEF IInv
    <2>3. \A q \in Proc \ {p} : req'[q] = req[q] /\ (req[q].op = "create" => req[q].svc # t)
      <3>1. \A q \in Proc \ {p} : CreateAlone(q)
        BY DEF IInv
      <3> QED  BY <2>1, <2>2, <3>1 DEF Frame, Moves, CreateAlone
    <2>4. /\ leaked \subseteq leaked'
          /\ \A s \in Svc \ {t} : container'[s] = container[s] /\ services'[s] = services[s]
          /\ req'[p] = Free \/ (req'[p].op = req[p].op /\ req'[p].svc = t)
          /\ \A q \in Proc : req[q].at # "free" => req[q].svc \in Svc
      BY <2>1, <2>2 DEF Frame, Moves, IInv, TypeOK
    <2>5. ASSUME NEW s \in Svc, services'[s] = "absent", container'[s] # "none", s \notin leaked'
          PROVE  \E q \in Proc : req'[q].op = "create" /\ req'[q].svc = s
      <3>1. CASE s # t
        BY <2>1, <2>3, <2>4, <2>5, <3>1 DEF OrphanInv
      <3>2. CASE s = t /\ req[p].op = "create"
        BY <2>1, <2>2, <2>4, <2>5, <3>2 DEF Facts
      <3>3. CASE s = t /\ req[p].op # "create"
        <4>1. container[s] # "none"
          BY <2>2, <2>5, <3>3 DEF Facts
        <4>2. services[s] = "absent"
          BY <2>1, <2>2, <2>4, <2>5, <3>3, <4>1 DEF Facts, OrphanInv
        <4>3. ~\E q \in Proc : req[q].op = "create" /\ req[q].svc = s
          BY <2>3, <3>3
        <4> QED  BY <2>4, <2>5, <4>1, <4>2, <4>3 DEF OrphanInv
      <3> QED  BY <3>1, <3>2, <3>3
    <2>6. ASSUME NEW q \in Proc, req'[q].at = "forget"
          PROVE  container'[req'[q].svc] = "none" \/ req'[q].svc \in leaked'
      <3>1. CASE q = p
        BY <2>2, <2>4, <2>6, <3>1 DEF Facts, Free
      <3>2. CASE q # p
        <4>1. req'[q] = req[q] /\ req[q].svc \in Svc
          BY <2>3, <2>4, <2>6, <3>2
        <4>2. CASE req[q].svc # t
          BY <2>4, <2>6, <4>1, <4>2 DEF OrphanInv
        <4>3. CASE req[q].svc = t
          <5>1. container[t] = "none" \/ t \in leaked
            BY <2>6, <4>1, <4>3 DEF OrphanInv
          <5>2. req[p].op # "create"
            BY <2>1, <2>2, <3>2, <4>3 DEF CreateAlone
          <5> QED  BY <2>2, <2>4, <4>1, <4>3, <5>1, <5>2 DEF Facts
        <4> QED  BY <4>2, <4>3
      <3> QED  BY <3>1, <3>2
    <2> QED  BY <2>5, <2>6 DEF OrphanInv
  <1>2. ASSUME NEW p \in Proc, NEW t \in Svc, BeginAny(p, t)  PROVE OrphanInv'
    <2>1. /\ req[p] = Free /\ \A q \in Proc \ {p} : req'[q] = req[q]
          /\ UNCHANGED <<services, container, leaked>>
      BY <1>2, BeginKeeps DEF BeginAny, BeginCreate, BeginStart, BeginStop, BeginDelete
    <2>2. req'[p].at # "forget"
      BY <1>2 DEF BeginAny, BeginCreate, BeginStart, BeginStop, BeginDelete, Begin, IInv, TypeOK
    <2> QED  BY <2>1, <2>2 DEF OrphanInv, Free
  <1>3. CASE Prune \/ \E i \in Image : GetImage(i) \/ DeleteImage(i)
    BY <1>3, ImagesKeep DEF OrphanInv
  <1>4. CASE Restart \/ Reboot
    <2>1. Reload /\ \A p \in Proc : req'[p] = Free
      BY <1>4, ReloadKeeps
    <2> QED  BY <2>1 DEF Reload, OrphanInv, Working, Free
  <1>5. CASE UNCHANGED vars
    BY <1>5 DEF vars, OrphanInv
  <1> QED  BY <1>1, <1>2, <1>3, <1>4, <1>5 DEF Next

\* A container that no record and no handler knows is the trace of a failure.
THEOREM OrphansHaveReasons == Spec => []OrphansExplained
  <1>1. Init => OrphanInv
    BY DEF Init, OrphanInv, Free
  <1>2. OrphanInv => OrphansExplained
    BY DEF OrphanInv, OrphansExplained, Working
  <1> QED  BY <1>1, <1>2, OrphanStep, Invariance, PTL DEF Spec

\* Where a container may run although the record says stopped: a start is about
\* to correct the record, or the start and a stop overtook each other.
StoppedInv ==
    /\ \A s \in Svc : services[s] = "stopped" /\ container[s] = "up" =>
          \/ s \in leaked \cup crossed
          \/ \E p \in Proc : /\ req[p].op = "start" /\ req[p].svc = s
                             /\ req[p].at \in {"health", "insert"}
    /\ \A p \in Proc : req[p].op = "stop" /\ req[p].at = "insert" =>
          container[req[p].svc] # "up" \/ req[p].svc \in leaked \cup crossed
    /\ \A p, q \in Proc :
          req[p].op = "stop" /\ req[q].op = "start" /\ req[p].svc = req[q].svc =>
          req[p].svc \in crossed
    /\ \A p \in Proc : req[p].at = "health" => req[p].op \in {"create", "start"}

LEMMA StoppedStep == IInv /\ StoppedInv /\ [Next]_vars => StoppedInv'
  <1> SUFFICES ASSUME IInv, StoppedInv, [Next]_vars  PROVE StoppedInv'
    OBVIOUS
  <1>1. ASSUME NEW p \in Proc, Handle(p)  PROVE StoppedInv'
    <2>1. PICK t \in Svc : t = req[p].svc
      BY <1>1, HandleFrame DEF Frame
    <2>2. Frame(p) /\ Facts(p, t) /\ CreateAlone(p)
      BY <1>1, <2>1, HandleFrame, HandleFacts DEF IInv
    <2>3. \A q \in Proc \ {p} : req'[q] = req[q]
      BY <2>2 DEF Frame, Moves
    <2>4. /\ leaked \subseteq leaked' /\ crossed' = crossed
          /\ \A s \in Svc \ {t} : container'[s] = container[s] /\ services'[s] = services[s]
          /\ req'[p] = Free \/ (req'[p].op = req[p].op /\ req'[p].svc = t)
          /\ \A q \in Proc : req[q].at # "free" => req[q].svc \in Svc
      BY <2>1, <2>2 DEF Frame, Moves, IInv, TypeOK
    <2>5. ASSUME NEW s \in Svc, services'[s] = "stopped", container'[s] = "up",
                 s \notin leaked' \cup crossed'
          PROVE  \E q \in Proc : /\ req'[q].op = "start" /\ req'[q].svc = s
                                 /\ req'[q].at \in {"health", "insert"}
      <3>1. s \notin leaked \cup crossed
        BY <2>4, <2>5
      <3>2. CASE s # t
        BY <2>1, <2>3, <2>4, <2>5, <3>1, <3>2 DEF StoppedInv
      <3>3. CASE s = t
        <4>1. services[s] = "stopped"
          BY <2>1, <2>2, <2>5, <3>1, <3>3 DEF Facts, StoppedInv
        <4>2. req[p].op # "create"
          BY <2>1, <2>2, <3>3, <4>1 DEF CreateAlone
        <4>3. CASE container[s] = "up"
          <5>1. PICK q \in Proc : /\ req[q].op = "start" /\ req[q].svc = s
                                  /\ req[q].at \in {"health", "insert"}
            BY <3>1, <4>1, <4>3 DEF StoppedInv
          <5>2. CASE q # p
            BY <2>3, <5>1, <5>2
          <5>3. CASE q = p
            BY <2>2, <2>4, <2>5, <3>3, <5>1, <5>3 DEF Facts, Free
          <5> QED  BY <5>2, <5>3
        <4>4. CASE container[s] # "up"
          BY <2>2, <2>4, <2>5, <3>3, <4>2, <4>4 DEF Facts, Free
        <4> QED  BY <4>3, <4>4
      <3> QED  BY <3>2, <3>3
    <2>6. ASSUME NEW q \in Proc, req'[q].op = "stop", req'[q].at = "insert"
          PROVE  container'[req'[q].svc] # "up" \/ req'[q].svc \in leaked' \cup crossed'
      <3>1. CASE q = p
        <4>1. req'[p].op = req[p].op /\ req'[p].svc = t
          BY <2>4, <2>6, <3>1 DEF Free
        <4>2. req[p].at # "health"
          BY <2>6, <3>1, <4>1 DEF StoppedInv
        <4> QED  BY <2>2, <2>6, <3>1, <4>1, <4>2 DEF Facts
      <3>2. CASE q # p
        <4>1. req'[q] = req[q] /\ req[q].svc \in Svc
          BY <2>3, <2>4, <2>6, <3>2
        <4>2. container[req[q].svc] # "up" \/ req[q].svc \in leaked \cup crossed
          BY <2>6, <4>1 DEF StoppedInv
        <4>3. CASE req[q].svc # t
          BY <2>4, <4>1, <4>2, <4>3
        <4>4. CASE req[q].svc = t
          <5>1. req[p].op # "create"
            BY <2>1, <2>2, <3>2, <4>4 DEF CreateAlone
          <5>2. req[p].op = "start" => t \in crossed
            BY <2>1, <2>6, <4>1, <4>4 DEF StoppedInv
          <5> QED  BY <2>2, <2>4, <4>1, <4>2, <4>4, <5>1, <5>2 DEF Facts
        <4> QED  BY <4>3, <4>4
      <3> QED  BY <3>1, <3>2
    <2>7. ASSUME NEW o \in Proc, NEW q \in Proc,
                 req'[o].op = "stop", req'[q].op = "start", req'[o].svc = req'[q].svc
          PROVE  req'[o].svc \in crossed'
      <3>1. \A r \in {o, q} : req'[r].op = req[r].op /\ req'[r].svc = req[r].svc
        BY <2>1, <2>3, <2>4, <2>7 DEF Free
      <3> QED  BY <2>4, <2>7, <3>1 DEF StoppedInv
    <2>8. ASSUME NEW q \in Proc, req'[q].at = "health"
          PROVE  req'[q].op \in {"create", "start"}
      BY <2>2, <2>3, <2>8 DEF Facts, StoppedInv
    <2> QED  BY <2>5, <2>6, <2>7, <2>8 DEF StoppedInv
  <1>2. ASSUME NEW p \in Proc, NEW s \in Svc, BeginAny(p, s)  PROVE StoppedInv'
    <2>1. /\ req[p] = Free /\ \A q \in Proc \ {p} : req'[q] = req[q]
          /\ UNCHANGED <<services, container, leaked>> /\ crossed \subseteq crossed'
          /\ req'[p].svc = s
      BY <1>2, BeginKeeps DEF BeginAny, BeginCreate, BeginStart, BeginStop, BeginDelete
    <2>2. /\ req'[p].at \notin {"health", "insert"}
          /\ req'[p].op = "start" /\ WorkingOn(s, "stop") => s \in crossed'
          /\ req'[p].op = "stop" /\ WorkingOn(s, "start") => s \in crossed'
      BY <1>2 DEF BeginAny, BeginCreate, BeginStart, BeginStop, BeginDelete, Begin, IInv, TypeOK
    <2>3. ASSUME NEW o \in Proc, NEW q \in Proc,
                 req'[o].op = "stop", req'[q].op = "start", req'[o].svc = req'[q].svc
          PROVE  req'[o].svc \in crossed'
      <3>1. CASE o = p
        <4>1. q # p /\ req'[q] = req[q]
          BY <2>1, <2>3, <3>1
        <4> QED  BY <2>1, <2>2, <2>3, <3>1, <4>1 DEF WorkingOn
      <3>2. CASE q = p
        <4>1. o # p /\ req'[o] = req[o]
          BY <2>1, <2>3, <3>2
        <4> QED  BY <2>1, <2>2, <2>3, <3>2, <4>1 DEF WorkingOn
      <3>3. CASE o # p /\ q # p
        BY <2>1, <2>3, <3>3 DEF StoppedInv
      <3> QED  BY <3>1, <3>2, <3>3
    <2>4. ASSUME NEW x \in Svc, services'[x] = "stopped", container'[x] = "up",
                 x \notin leaked' \cup crossed'
          PROVE  \E q \in Proc : /\ req'[q].op = "start" /\ req'[q].svc = x
                                 /\ req'[q].at \in {"health", "insert"}
      <3>1. PICK q \in Proc : /\ req[q].op = "start" /\ req[q].svc = x
                              /\ req[q].at \in {"health", "insert"}
        BY <2>1, <2>4 DEF StoppedInv
      <3> QED  BY <2>1, <3>1 DEF Free
    <2> QED  BY <2>1, <2>2, <2>3, <2>4 DEF StoppedInv
  <1>3. CASE Prune \/ \E i \in Image : GetImage(i) \/ DeleteImage(i)
    BY <1>3, ImagesKeep DEF StoppedInv
  <1>4. CASE Restart \/ Reboot
    <2>1. Reload /\ \A p \in Proc : req'[p] = Free
      BY <1>4, ReloadKeeps
    <2> QED  BY <2>1 DEF Reload, StoppedInv, Working, Free
  <1>5. CASE UNCHANGED vars
    BY <1>5 DEF vars, StoppedInv
  <1> QED  BY <1>1, <1>2, <1>3, <1>4, <1>5 DEF Next

\* A record that says stopped stands for a container that does not run, but for
\* handlers at work, failures, and a stop and a start that crossed.
THEOREM StoppedIsTrue == Spec => []StoppedMeansStopped
  <1>1. Init => StoppedInv
    BY DEF Init, StoppedInv, Free
  <1>2. StoppedInv => StoppedMeansStopped
    BY DEF StoppedInv, StoppedMeansStopped, Working
  <1> QED  BY <1>1, <1>2, StoppedStep, Invariance, PTL DEF Spec

=============================================================================
