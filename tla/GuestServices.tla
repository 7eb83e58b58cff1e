----------------------------- MODULE GuestServices -----------------------------
(***************************************************************************)
(* The service manager in the VM (internal/guestrunnerd/services.go,       *)
(* server.go, images.go, nerdctl.go): its table and state.json, its        *)
(* handlers, the overlays that hide excluded directories, and the          *)
(* containers and images nerdctl keeps.                                    *)
(*                                                                         *)
(* A handler copies the record of its service, runs nerdctl without the    *)
(* lock and stores the copy.  A nerdctl call is bound to the request: it    *)
(* also fails when the caller has gone.  One directory is excluded.        *)
(***************************************************************************)
EXTENDS Naturals

CONSTANTS
    Svc,       \* service ids; the host makes each of them once
    Managed,   \* bound: the services that are stopped, started and deleted
    Image,
    Proc,      \* request handlers that may run at the same time
    NoImage,
    MaxMounts, \* how often the overlay is mounted on the directory
    Faults     \* what may go wrong: "nerdctl", "health", "save", "restart", "reboot"

ASSUME GuestAssumption ==
    /\ NoImage \notin Image
    /\ "none" \notin Svc
    /\ Managed \subseteq Svc
    /\ MaxMounts \in Nat \ {0}
    /\ Faults \subseteq {"nerdctl", "health", "save", "restart", "reboot"}

VARIABLES
    services,   \* State.Services: the recorded state of each service
    image,      \* the image of each service
    file,       \* state.json
    container,  \* the container of each service
    images,     \* what nerdctl images lists
    known,      \* shareExcludeMounts has the directory
    mounts,     \* how many overlays lie on the directory
    req,        \* the handler running in each process
    removed,    \* history: services whose container was removed
    leaked,     \* history: services whose clean-up failed or was cut short
    crossed,    \* history: services with a stop and a start in flight at once
    booted      \* history: services whose container was made since the VM booted

vars == <<services, image, file, container, images, known, mounts, req, removed, leaked, crossed, booted>>

-----------------------------------------------------------------------------
(* Data                                                                    *)

Recorded == {"absent", "running", "stopped"}

ContainerStates == {"none", "up", "down"}

Places == {"free", "overlay", "mount", "mark", "run", "start", "health",
           "stop", "rm", "insert", "forget"}

Free == [at |-> "free", op |-> "none", svc |-> "none"]

\* The copy of the record is that of its image, which never changes, and its
\* state, which the handler overwrites: only the service needs to be kept.
Working(s) == \E p \in Proc : req[p].svc = s

WorkingOn(s, op) == \E p \in Proc : req[p].svc = s /\ req[p].op = op

Begin(p, op, s, place) ==
    /\ req[p] = Free
    /\ req' = [req EXCEPT ![p] = [at |-> place, op |-> op, svc |-> s]]

At(p, op, place) == req[p].at = place /\ req[p].op = op

Goto(p, place) == req' = [req EXCEPT ![p].at = place]

Finish(p) == req' = [req EXCEPT ![p] = Free]

\* saveStateLocked; its errors are ignored.
Store(table) ==
    /\ services' = table
    /\ \/ file' = table
       \/ "save" \in Faults /\ UNCHANGED file

\* nerdctl may fail; it is killed, or not started, when the caller has gone.
Fails == "nerdctl" \in Faults

SetContainer(s, state) == container' = [container EXCEPT ![s] = state]

-----------------------------------------------------------------------------
(* POST /internal/services                                                 *)

\* Faulty variant of BeginCreate: the image of the request is lost.
BeginCreate_NoImage(p, s, i) ==
    /\ image[s] = NoImage
    /\ Begin(p, "create", s, "overlay")
    /\ UNCHANGED <<services, image, file, container, images, known, mounts, removed, leaked, crossed, booted>>

BeginCreate(p, s, i) ==
    /\ image[s] = NoImage
    /\ Begin(p, "create", s, "overlay")
    /\ image' = [image EXCEPT ![s] = i]
    /\ UNCHANGED <<services, file, container, images, known, mounts, removed, leaked, crossed, booted>>

\* Faulty variant of CheckOverlay: the mount is remembered before it is made.
CheckOverlay_Early(p) ==
    /\ At(p, "create", "overlay")
    /\ known' = TRUE
    /\ Goto(p, IF known THEN "run" ELSE "mount")
    /\ UNCHANGED <<services, image, file, container, images, mounts, removed, leaked, crossed, booted>>

\* mountDenyOverlay looks, mounts and remembers in three steps.
CheckOverlay(p) ==
    /\ At(p, "create", "overlay")
    /\ Goto(p, IF known THEN "run" ELSE "mount")
    /\ UNCHANGED <<services, image, file, container, images, known, mounts, removed, leaked, crossed, booted>>

MountOverlay(p) ==
    /\ At(p, "create", "mount")
    /\ mounts < MaxMounts
    /\ mounts' = mounts + 1
    /\ Goto(p, "mark")
    /\ UNCHANGED <<services, image, file, container, images, known, removed, leaked, crossed, booted>>

MountFails(p) ==
    /\ At(p, "create", "mount")
    /\ "nerdctl" \in Faults
    /\ Finish(p)
    /\ UNCHANGED <<services, image, file, container, images, known, mounts, removed, leaked, crossed, booted>>

MarkOverlay(p) ==
    /\ At(p, "create", "mark")
    /\ known' = TRUE
    /\ Goto(p, "run")
    /\ UNCHANGED <<services, image, file, container, images, mounts, removed, leaked, crossed, booted>>

\* nerdctl rm -f of a container with this name, whatever comes of it, and run.
RunContainer(p) ==
    LET s == req[p].svc IN
    /\ At(p, "create", "run")
    /\ image[s] \in images
    /\ SetContainer(s, "up")
    /\ booted' = booted \cup {s}
    /\ Goto(p, "health")
    /\ UNCHANGED <<services, image, file, images, known, mounts, removed, leaked, crossed>>

\* The handler answers the error of nerdctl run and cleans nothing up, although
\* the container may be there.
RunFails(p) ==
    LET s == req[p].svc IN
    /\ At(p, "create", "run")
    /\ Fails \/ image[s] \notin images
    /\ \/ UNCHANGED <<container, leaked, booted>>
       \/ /\ Fails /\ image[s] \in images
          /\ SetContainer(s, "up")
          /\ leaked' = leaked \cup {s}
          /\ booted' = booted \cup {s}
    /\ Finish(p)
    /\ UNCHANGED <<services, image, file, images, known, mounts, removed, crossed>>

-----------------------------------------------------------------------------
(* POST /internal/services/{id}/start and the health check of both         *)

BeginStart(p, s) ==
    /\ services[s] = "stopped"
    /\ Begin(p, "start", s, "start")
    /\ crossed' = IF WorkingOn(s, "stop") THEN crossed \cup {s} ELSE crossed
    /\ UNCHANGED <<services, image, file, container, images, known, mounts, removed, leaked, booted>>

\* Faulty variant of StartContainer: a container that is not there is made.
StartContainer_Makes(p) ==
    /\ At(p, "start", "start")
    /\ image[req[p].svc] \in images
    /\ SetContainer(req[p].svc, "up")
    /\ Goto(p, "health")
    /\ UNCHANGED <<services, image, file, images, known, mounts, removed, leaked, crossed, booted>>

StartContainer(p) ==
    LET s == req[p].svc IN
    /\ At(p, "start", "start")
    /\ container[s] # "none"
    /\ SetContainer(s, "up")
    /\ Goto(p, "health")
    /\ UNCHANGED <<services, image, file, images, known, mounts, removed, leaked, crossed, booted>>

StartFails(p) ==
    LET s == req[p].svc IN
    /\ At(p, "start", "start")
    /\ \/ Fails \/ container[s] = "none"
    /\ \/ UNCHANGED <<container, leaked>>
       \/ /\ Fails /\ container[s] = "down"
          /\ SetContainer(s, "up")
          /\ leaked' = leaked \cup {s}
    /\ Finish(p)
    /\ UNCHANGED <<services, image, file, images, known, mounts, removed, crossed, booted>>

\* waitHTTPHealth: an answer within 30 seconds.
Healthy(p) ==
    /\ req[p].at = "health"
    /\ container[req[p].svc] = "up"
    /\ Goto(p, "insert")
    /\ UNCHANGED <<services, image, file, container, images, known, mounts, removed, leaked, crossed, booted>>

GivesUp(p) ==
    /\ req[p].at = "health"
    /\ container[req[p].svc] # "up" \/ "health" \in Faults

\* Faulty variant of Unhealthy: an unhealthy container is left alone.
Unhealthy_Kept(p) ==
    /\ GivesUp(p)
    /\ Finish(p)
    /\ UNCHANGED <<services, image, file, container, images, known, mounts, removed, leaked, crossed, booted>>

\* No answer in time: rm -f after a create, stop after a start.  The outcome is
\* ignored, and with the caller gone there is none.
Unhealthy(p) ==
    LET s == req[p].svc IN
    /\ GivesUp(p)
    /\ \/ /\ req[p].op = "create"
          /\ SetContainer(s, "none")
          /\ removed' = IF container[s] = "none" THEN removed ELSE removed \cup {s}
          /\ UNCHANGED leaked
       \/ /\ req[p].op = "start"
          /\ SetContainer(s, IF container[s] = "none" THEN "none" ELSE "down")
          /\ UNCHANGED <<removed, leaked>>
       \/ /\ Fails
          /\ leaked' = leaked \cup {s}
          /\ UNCHANGED <<container, removed>>
    /\ Finish(p)
    /\ UNCHANGED <<services, image, file, images, known, mounts, crossed, booted>>

-----------------------------------------------------------------------------
(* POST /internal/services/{id}/stop and DELETE                            *)

BeginStop(p, s) ==
    /\ services[s] = "running"
    /\ Begin(p, "stop", s, "stop")
    /\ crossed' = IF WorkingOn(s, "start") THEN crossed \cup {s} ELSE crossed
    /\ UNCHANGED <<services, image, file, container, images, known, mounts, removed, leaked, booted>>

\* Faulty variant of StopContainer: the record is changed whatever nerdctl says.
StopContainer_Unchecked(p) ==
    /\ At(p, "stop", "stop")
    /\ \/ SetContainer(req[p].svc, "down")
       \/ Fails /\ UNCHANGED container
    /\ Goto(p, "insert")
    /\ UNCHANGED <<services, image, file, images, known, mounts, removed, leaked, crossed, booted>>

StopContainer(p) ==
    LET s == req[p].svc IN
    /\ At(p, "stop", "stop")
    /\ container[s] # "none"
    /\ SetContainer(s, "down")
    /\ Goto(p, "insert")
    /\ UNCHANGED <<services, image, file, images, known, mounts, removed, leaked, crossed, booted>>

StopFails(p) ==
    LET s == req[p].svc IN
    /\ At(p, "stop", "stop")
    /\ \/ Fails \/ container[s] = "none"
    /\ \/ UNCHANGED container
       \/ Fails /\ container[s] = "up" /\ SetContainer(s, "down")
    /\ Finish(p)
    /\ UNCHANGED <<services, image, file, images, known, mounts, removed, leaked, crossed, booted>>

BeginDelete(p, s) ==
    /\ services[s] # "absent"
    /\ Begin(p, "delete", s, "rm")
    /\ UNCHANGED <<services, image, file, container, images, known, mounts, removed, leaked, crossed, booted>>

\* The outcome of rm -f is ignored.
RemoveContainer(p) ==
    LET s == req[p].svc IN
    /\ At(p, "delete", "rm")
    /\ \/
          /\ SetContainer(s, "none")
          /\ removed' = IF container[s] = "none" THEN removed ELSE removed \cup {s}
          /\ UNCHANGED leaked
       \/ /\ Fails
          /\ leaked' = leaked \cup {s}
          /\ UNCHANGED <<container, removed>>
    /\ Goto(p, "forget")
    /\ UNCHANGED <<services, image, file, images, known, mounts, crossed, booted>>

Forget(p) ==
    /\ At(p, "delete", "forget")
    /\ Store([services EXCEPT ![req[p].svc] = "absent"])
    /\ Finish(p)
    /\ UNCHANGED <<image, container, images, known, mounts, removed, leaked, crossed, booted>>

\* The last critical section of create, start and stop: the copy is stored,
\* whatever became of the record.
Insert(p) ==
    /\ req[p].at = "insert"
    /\ Store([services EXCEPT ![req[p].svc] = IF req[p].op = "stop" THEN "stopped" ELSE "running"])
    /\ Finish(p)
    /\ UNCHANGED <<image, container, images, known, mounts, removed, leaked, crossed, booted>>

-----------------------------------------------------------------------------
(* Images                                                                  *)

\* pull, import, and the commit of a snapshot.
GetImage(i) ==
    /\ images' = images \cup {i}
    /\ UNCHANGED <<services, image, file, container, known, mounts, req, removed, leaked, crossed, booted>>

\* Images of containers, stopped ones too.
InUse == {image[s] : s \in {t \in Svc : container[t] # "none"}}

\* Faulty variant of DropImages: with -f.
DropImages_Force(S) ==
    /\ images' = images \ S
    /\ UNCHANGED <<services, image, file, container, known, mounts, req, removed, leaked, crossed, booted>>

\* image rm refuses, and image prune keeps, an image that a container uses.
DropImages(S) ==
    /\ S \cap InUse = {}
    /\ images' = images \ S
    /\ UNCHANGED <<services, image, file, container, known, mounts, req, removed, leaked, crossed, booted>>

DeleteImage(i) == DropImages({i})

Prune == DropImages(images \ InUse)

-----------------------------------------------------------------------------
(* The daemon and the VM                                                   *)

\* The daemon is started again from its file, and has forgotten its mounts.
Reload ==
    /\ services' = file
    /\ known' = FALSE
    /\ req' = [p \in Proc |-> Free]
    /\ leaked' = leaked \cup {s \in Svc : Working(s) \/ file[s] # services[s]}
    /\ UNCHANGED <<image, file, container, images, removed, crossed>>

Restart == "restart" \in Faults /\ Reload /\ UNCHANGED <<mounts, booted>>

\* Containers come back as they were (--restart=unless-stopped); mounts do not.
Reboot == "reboot" \in Faults /\ Reload /\ mounts' = 0 /\ booted' = {}

-----------------------------------------------------------------------------
(* The specification                                                       *)

Init ==
    /\ services = [s \in Svc |-> "absent"] /\ file = services
    /\ image = [s \in Svc |-> NoImage]
    /\ container = [s \in Svc |-> "none"]
    /\ images = {}
    /\ known = FALSE /\ mounts = 0
    /\ req = [p \in Proc |-> Free]
    /\ removed = {} /\ leaked = {} /\ crossed = {} /\ booted = {}

BeginAny(p, s) ==
    \/ \E i \in Image : BeginCreate(p, s, i)
    \/ s \in Managed /\ (BeginStart(p, s) \/ BeginStop(p, s) \/ BeginDelete(p, s))

Handle(p) ==
    \/ CheckOverlay(p) \/ MountOverlay(p) \/ MountFails(p) \/ MarkOverlay(p)
    \/ RunContainer(p) \/ RunFails(p)
    \/ StartContainer(p) \/ StartFails(p)
    \/ Healthy(p) \/ Unhealthy(p)
    \/ StopContainer(p) \/ StopFails(p)
    \/ RemoveContainer(p) \/ Forget(p)
    \/ Insert(p)

Next ==
    \/ \E p \in Proc : Handle(p) \/ \E s \in Svc : BeginAny(p, s)
    \/ \E i \in Image : GetImage(i) \/ DeleteImage(i)
    \/ Prune
    \/ Restart
    \/ Reboot

Spec == Init /\ [][Next]_vars

-----------------------------------------------------------------------------
(* Properties                                                              *)

\* Every variable keeps its type, and a handler has a service whose image is known.
TypeOK ==
    /\ services \in [Svc -> Recorded] /\ file \in [Svc -> Recorded]
    /\ image \in [Svc -> Image \cup {NoImage}]
    /\ container \in [Svc -> ContainerStates]
    /\ images \subseteq Image
    /\ known \in BOOLEAN /\ mounts \in 0..MaxMounts
    /\ req \in [Proc -> [at : Places, op : {"none", "create", "start", "stop", "delete"},
                         svc : Svc \cup {"none"}]]
    /\ \A p \in Proc : IF req[p].at = "free" THEN req[p] = Free
                       ELSE req[p].svc \in Svc /\ image[req[p].svc] # NoImage
    /\ removed \subseteq Svc /\ leaked \subseteq Svc /\ crossed \subseteq Svc /\ booted \subseteq Svc

\* Creates that race for the overlay, restarts of the daemon and reboots: no
\* container made since the boot runs while the excluded directory is open, and
\* the daemon believes in no overlay that is not there.
ExcludedIsHidden ==
    /\ known => mounts > 0
    /\ \A s \in booted : container[s] # "none" => mounts > 0

\* A container that no record and no handler knows is always the trace of a
\* clean-up that nerdctl refused, that was cut short by a restart or a failed
\* save, or that ran for a caller who had gone.
OrphansExplained ==
    \A s \in Svc : container[s] # "none" /\ services[s] = "absent" /\ ~Working(s) => s \in leaked

\* The image of every service with a container stays, whatever deletes, prunes
\* and creates overlap: the check of the host (handleImagesDelete) sees no
\* create in flight, and need not.
ContainersKeepImages == \A s \in Svc : container[s] # "none" => image[s] \in images

LifeOf(s) ==
    IF container[s] # "none" THEN container[s]
    ELSE IF s \in removed THEN "removed" ELSE "never"

\* The promise the host builds on.
Life == INSTANCE ContainerLife WITH life <- [s \in Svc |-> LifeOf(s)]

\* Every step of the guest is a step of ContainerLife or none at all: a start,
\* stop or create in flight never brings a removed container back.
ImplementsLife == Life!Spec

\* A record that says stopped stands for a container that does not run, unless
\* a handler works on the service, a clean-up failed, or a stop and a start
\* were in flight at once: the slower one stores its copy last (services.go:583).
StoppedMeansStopped ==
    \A s \in Svc : services[s] = "stopped" /\ container[s] = "up" =>
        Working(s) \/ s \in leaked \cup crossed

=============================================================================
