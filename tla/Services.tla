------------------------------ MODULE Services ------------------------------
(***************************************************************************)
(* The service control plane of the host daemon (internal/runnerd): the    *)
(* table of services and its file services.json, the chat slot of every    *)
(* service, the HTTP handlers that create, delete, stop, start, resume and *)
(* chat with a service, the idle reaper, and the restart of the VM.        *)
(*                                                                         *)
(* Every handler is split where the code releases Server.mu or waits for   *)
(* limactl or the guest: one action is one critical section, or one remote *)
(* call with its effect and its answer.  Whatever a handler read in an     *)
(* earlier step travels in its request record (field copy), as it does in  *)
(* the local variable svc of the code.                                     *)
(*                                                                         *)
(* The guest daemon is reduced to the container it keeps for a service:    *)
(* absent, running or stopped; nerdctl does what it says it did.  A        *)
(* timestamp is reduced to whether the idle timeout has passed since it    *)
(* was taken.                                                              *)
(***************************************************************************)
EXTENDS Naturals, FiniteSets

CONSTANTS
    Svc,     \* service ids; newID draws each of them at most once
    Proc,    \* request handlers that may run at the same time
    NoSvc,   \* stands for no service
    Timed,   \* services created with idle_timeout_seconds > 0
    Legacy,  \* services found in services.json without a session_id
    Ops,     \* the requests clients send
    Faults   \* what may go wrong

AllOps == {"create", "delete", "stop", "start", "resume", "chat", "restart"}
AllFaults == {"ensure", "guest", "save", "crash", "vm", "recreate"}

ASSUME ConstantsAssumption ==
    /\ NoSvc \notin Svc
    /\ Timed \subseteq Svc
    /\ Legacy \subseteq Svc
    /\ Ops \subseteq AllOps
    /\ Faults \subseteq AllFaults

VARIABLES
    table,      \* Server.services
    disk,       \* services.json
    slots,      \* Server.activeServiceChats
    req,        \* the handler running in each process
    reaper,     \* runIdleServiceReaper
    vm,         \* the state limactl reports for the instance
    guest,      \* the container of each service
    allocated,  \* history: ids newID has returned
    deleted,    \* history: ids whose DELETE answered deleted:true
    purged      \* history: those of them that were removed from the guest

vars == <<table, disk, slots, req, reaper, vm, guest, allocated, deleted, purged>>
history == <<allocated, deleted, purged>>

-----------------------------------------------------------------------------
(* Records, requests and the reaper                                        *)

\* type Service, with last_activity_at reduced to "older than the timeout".
Rec == [state: {"running", "stopped"},
        reason: {"none", "manual", "idle_timeout"},
        session: BOOLEAN,
        idle: BOOLEAN]

\* No entry in the map.
Absent == [state |-> "absent", reason |-> "none", session |-> FALSE, idle |-> FALSE]

NewRec(session) ==
    [state |-> "running", reason |-> "none", session |-> session, idle |-> FALSE]

Recorded(s) == table[s] # Absent

Places == {"free", "vmstate", "forget", "ensure", "call", "commit",
           "slot", "upgrade", "session", "dial", "chatting", "touch", "release",
           "limastop", "limadelete"}

\* The places of each handler.
PlacesOf(op) ==
    CASE op = "none"    -> {"free"}
      [] op = "delete"  -> {"vmstate", "forget", "ensure", "call", "commit"}
      [] op = "chat"    -> {"slot", "upgrade", "session", "ensure", "dial", "chatting",
                            "touch", "release"}
      [] op = "restart" -> {"limastop", "limadelete", "ensure"}
      [] OTHER          -> {"ensure", "call", "commit"}

Free == [op |-> "none", at |-> "free", svc |-> NoSvc, copy |-> Absent]

Request == [op: AllOps \cup {"none"}, at: Places,
            svc: Svc \cup {NoSvc}, copy: Rec \cup {Absent}]

\* cur is the service whose stop the guest has answered.
ReaperState ==
    {r \in [at: {"sleep", "vmstate", "ensure", "stop", "commit", "unlock"},
            held: SUBSET Svc, left: SUBSET Svc, cur: Svc \cup {NoSvc}] :
        r.cur \in Svc <=> r.at = "commit"}

Asleep == [at |-> "sleep", held |-> {}, left |-> {}, cur |-> NoSvc]

Goto(p, place) == req' = [req EXCEPT ![p].at = place]

\* The copy is not used any more.
Continue(p, place) == req' = [req EXCEPT ![p].at = place, ![p].copy = Absent]

Finish(p) == req' = [req EXCEPT ![p] = Free]

\* An error answer.  The chat handler still runs its deferred clean-up.
Fail(p) == IF req[p].op = "chat" THEN Goto(p, "touch") ELSE Finish(p)

-----------------------------------------------------------------------------
(* services.json                                                           *)

\* The table is replaced and saved in one critical section.  saveServicesLocked
\* renames a complete file into place; its error is ignored, and then the old
\* file stays.
Persist(t) ==
    /\ table' = t
    /\ disk' \in {t} \cup (IF "save" \in Faults THEN {disk} ELSE {})

Store(s, r) == Persist([table EXCEPT ![s] = r])

EmptyTable == [s \in Svc |-> Absent]

-----------------------------------------------------------------------------
(* The VM and the guest                                                    *)

NoGuest == [s \in Svc |-> "absent"]

HasContainer(s) == guest[s] # "absent"

\* The instance boots; its containers come back as they were
\* (--restart=unless-stopped).
BootVM == vm' = "running" /\ UNCHANGED <<table, disk, guest>>

\* limactl delete, which loses every container and leaves the instance in the
\* given state once the caller went on.  Its error is ignored.
DeleteVM(state) ==
    \/ vm' = state /\ guest' = NoGuest
    \/ /\ "ensure" \in Faults
       /\ vm' = IF state = "running" THEN "running" ELSE vm
       /\ UNCHANGED guest

\* The host table is cleared when the configuration changed, and kept when
\* limactl rejected the instance's YAML.
RebuildVM(state) ==
    /\ "recreate" \in Faults
    /\ DeleteVM(state)
    /\ \/ Persist(EmptyTable)
       \/ UNCHANGED <<table, disk>>

RecreateVM == RebuildVM("running")

EnsureVMRunning == BootVM \/ RecreateVM

\* ensureGuestReady fails before it did anything, after the old instance was
\* deleted, or when the VM runs and its guest daemon does not answer.
EnsureGivesUp ==
    /\ "ensure" \in Faults
    /\ \/ UNCHANGED <<table, disk, vm, guest>>
       \/ RebuildVM("not_created")
       \/ EnsureVMRunning

-----------------------------------------------------------------------------
(* Request handlers: the first critical section                            *)

Accept(p, op, s, place, copy) ==
    /\ req[p] = Free
    /\ op \in Ops
    /\ req' = [req EXCEPT ![p] = [op |-> op, at |-> place, svc |-> s, copy |-> copy]]

BeginCreate(p) ==
    \E s \in Svc \ allocated :
        /\ Accept(p, "create", s, "ensure", Absent)
        /\ allocated' = allocated \cup {s}
        /\ UNCHANGED <<table, disk, slots, reaper, vm, guest, deleted, purged>>

\* Without a record all of these answer 404.  Delete and stop only look.
BeginDelete(p) ==
    /\ \E s \in Svc : Recorded(s) /\ Accept(p, "delete", s, "vmstate", Absent)
    /\ UNCHANGED <<table, disk, slots, reaper, vm, guest, history>>

BeginStop(p) ==
    /\ \E s \in Svc : Recorded(s) /\ Accept(p, "stop", s, "ensure", Absent)
    /\ UNCHANGED <<table, disk, slots, reaper, vm, guest, history>>

\* Faulty variant of BeginStart: stop_reason survives the start.
BeginStart_KeepsReason(p) ==
    /\ \E s \in Svc : /\ Recorded(s)
                      /\ Accept(p, "start", s, "ensure",
                                [table[s] EXCEPT !.state = "running", !.idle = FALSE])
    /\ UNCHANGED <<table, disk, slots, reaper, vm, guest, history>>

\* Start and resume take the record along and will store it with a new state,
\* an empty stop_reason and a new last_activity_at.
BeginStart(p) ==
    /\ \E s \in Svc : /\ Recorded(s)
                      /\ Accept(p, "start", s, "ensure", NewRec(table[s].session))
    /\ UNCHANGED <<table, disk, slots, reaper, vm, guest, history>>

\* RESUME_UNAVAILABLE without a session id.
BeginResume(p) ==
    /\ \E s \in Svc : /\ Recorded(s)
                      /\ table[s].session
                      /\ Accept(p, "resume", s, "ensure", NewRec(table[s].session))
    /\ UNCHANGED <<table, disk, slots, reaper, vm, guest, history>>

\* SERVICE_STOPPED is decided here, on the copy, before the slot is taken.
BeginChat(p) ==
    /\ \E s \in Svc : /\ Recorded(s)
                      /\ table[s].state # "stopped"
                      /\ Accept(p, "chat", s, "slot", table[s])
    /\ UNCHANGED <<table, disk, slots, reaper, vm, guest, history>>

\* getVMState answers "unknown" when limactl fails.
DeleteReadsVMState(p) ==
    /\ req[p].at = "vmstate"
    /\ \E seen \in {vm} \cup (IF "ensure" \in Faults THEN {"unknown"} ELSE {}) :
         Goto(p, IF seen \in {"running", "unknown"} THEN "ensure" ELSE "forget")
    /\ UNCHANGED <<table, disk, slots, reaper, vm, guest, history>>

\* The VM does not run: only the host record goes.
DeleteForgets(p) ==
    LET s == req[p].svc IN
    /\ req[p].at = "forget"
    /\ Store(s, Absent)
    /\ deleted' = deleted \cup {s}
    /\ Finish(p)
    /\ UNCHANGED <<slots, reaper, vm, guest, allocated, purged>>

-----------------------------------------------------------------------------
(* Request handlers: ensureGuestReady and the guest call                   *)

EnsureReady(p) ==
    /\ req[p].at = "ensure"
    /\ EnsureVMRunning
    /\ CASE req[p].op = "chat"    -> Goto(p, "dial")
         [] req[p].op = "restart" -> Finish(p)
         [] OTHER                 -> Goto(p, "call")
    /\ UNCHANGED <<slots, reaper, history>>

EnsureFails(p) ==
    /\ req[p].at = "ensure"
    /\ EnsureGivesUp
    /\ Fail(p)
    /\ UNCHANGED <<slots, reaper, history>>

\* What became of the container once the guest daemon answered.
GuestDoes(op, s) ==
    guest' = [guest EXCEPT ![s] =
        CASE op = "create"                                   -> "running"
          [] op = "delete"                                   -> "absent"
          [] op = "stop" /\ HasContainer(s)                  -> "stopped"
          [] op \in {"start", "resume"} /\ HasContainer(s)   -> "running"
          [] OTHER                                           -> guest[s]]

\* A 404 counts as success for stop and delete.  Without a container start and
\* resume fail, unless the guest still has a record of the service, written
\* back by a call that overlapped its deletion there.
GuestCall(p) ==
    LET op == req[p].op
        s  == req[p].svc
    IN /\ req[p].at = "call"
       /\ vm = "running"
       /\ GuestDoes(op, s)
       /\ \/ Goto(p, "commit")
          \/ op \in {"start", "resume"} /\ ~HasContainer(s) /\ Finish(p)
       /\ UNCHANGED <<table, disk, slots, reaper, vm, history>>

\* Faulty variant of GuestCallFails: every error passes for a 404.
GuestCallFails_Ignored(p) ==
    /\ req[p].at = "call"
    /\ "guest" \in Faults
    /\ Goto(p, "commit")
    /\ UNCHANGED <<table, disk, slots, reaper, vm, guest, history>>

\* The VM is gone or the guest answers an error, before or after the effect.
GuestCallFails(p) ==
    /\ req[p].at = "call"
    /\ \/ vm # "running" /\ UNCHANGED guest
       \/ "guest" \in Faults /\ vm = "running" /\ UNCHANGED guest
       \/ "guest" \in Faults /\ vm = "running" /\ GuestDoes(req[p].op, req[p].svc)
    /\ Finish(p)
    /\ UNCHANGED <<table, disk, slots, reaper, vm, history>>

-----------------------------------------------------------------------------
(* Request handlers: the last critical section                             *)

CommitCreate(p) ==
    /\ req[p].at = "commit" /\ req[p].op = "create"
    /\ Store(req[p].svc, NewRec(TRUE))
    /\ Finish(p)
    /\ UNCHANGED <<slots, reaper, vm, guest, history>>

CommitDelete(p) ==
    LET s == req[p].svc IN
    /\ req[p].at = "commit" /\ req[p].op = "delete"
    /\ Store(s, Absent)
    /\ deleted' = deleted \cup {s}
    /\ purged' = purged \cup {s}
    /\ Finish(p)
    /\ UNCHANGED <<slots, reaper, vm, guest, allocated>>

\* Faulty variants of Stopped: a reason outside the known ones, and a late idle
\* stop that overwrites the reason.
Stopped_UnknownReason(r, why) ==
    [r EXCEPT !.state = "stopped", !.idle = FALSE, !.reason = "unknown"]

Stopped_Overwrites(r, why) ==
    [r EXCEPT !.state = "stopped", !.idle = FALSE, !.reason = why]

\* The second half of stopServiceWithGuest: the record is read again under the
\* lock; an idle stop does not overwrite a reason that is already there.
Stopped(r, why) ==
    [r EXCEPT !.state = "stopped", !.idle = FALSE,
              !.reason = IF why = "manual" \/ r.reason = "none" THEN why ELSE r.reason]

RecordStop(s, why) ==
    IF Recorded(s) THEN Store(s, Stopped(table[s], why))
                   ELSE UNCHANGED <<table, disk>>

CommitStop(p) ==
    /\ req[p].at = "commit" /\ req[p].op = "stop"
    /\ RecordStop(req[p].svc, "manual")
    /\ Finish(p)
    /\ UNCHANGED <<slots, reaper, vm, guest, history>>

\* Start and resume store the record they took along, whatever happened since.
CommitStart(p) ==
    /\ req[p].at = "commit" /\ req[p].op \in {"start", "resume"}
    /\ Store(req[p].svc, req[p].copy)
    /\ Finish(p)
    /\ UNCHANGED <<slots, reaper, vm, guest, history>>

-----------------------------------------------------------------------------
(* The chat handler                                                        *)

\* Faulty variant of TakeSlot: an active connection is not looked for.
TakeSlot_Unchecked(p) ==
    /\ req[p].at = "slot"
    /\ slots' = slots \cup {req[p].svc}
    /\ Goto(p, "upgrade")
    /\ UNCHANGED <<table, disk, reaper, vm, guest, history>>

TakeSlot(p) ==
    /\ req[p].at = "slot"
    /\ req[p].svc \notin slots
    /\ slots' = slots \cup {req[p].svc}
    /\ Goto(p, "upgrade")
    /\ UNCHANGED <<table, disk, reaper, vm, guest, history>>

ChatBusy(p) ==
    /\ req[p].at = "slot"
    /\ req[p].svc \in slots
    /\ Finish(p)
    /\ UNCHANGED <<table, disk, slots, reaper, vm, guest, history>>

Upgrade(p) ==
    /\ req[p].at = "upgrade"
    /\ IF req[p].copy.session THEN Continue(p, "ensure") ELSE Goto(p, "session")
    /\ UNCHANGED <<table, disk, slots, reaper, vm, guest, history>>

\* Faulty variant of UpgradeFails: release() is forgotten.
UpgradeFails_KeepsSlot(p) ==
    /\ req[p].at = "upgrade"
    /\ Finish(p)
    /\ UNCHANGED <<table, disk, slots, reaper, vm, guest, history>>

UpgradeFails(p) ==
    /\ req[p].at = "upgrade"
    /\ slots' = slots \ {req[p].svc}
    /\ Finish(p)
    /\ UNCHANGED <<table, disk, reaper, vm, guest, history>>

\* A session id is made for a record without one; the whole copy is stored.
AssignSession(p) ==
    /\ req[p].at = "session"
    /\ Store(req[p].svc, [req[p].copy EXCEPT !.session = TRUE])
    /\ Continue(p, "ensure")
    /\ UNCHANGED <<slots, reaper, vm, guest, history>>

\* The guest opens the connection to a container it has.
Dial(p) ==
    /\ req[p].at = "dial"
    /\ \/ vm = "running" /\ HasContainer(req[p].svc) /\ Goto(p, "chatting")
       \/ /\ vm # "running" \/ ~HasContainer(req[p].svc) \/ "guest" \in Faults
          /\ Goto(p, "touch")
    /\ UNCHANGED <<table, disk, slots, reaper, vm, guest, history>>

\* Faulty variant of ChatEnds: the slot is freed before last_activity_at is set.
ChatEnds_ReleasesFirst(p) ==
    /\ req[p].at = "chatting"
    /\ slots' = slots \ {req[p].svc}
    /\ Goto(p, "touch")
    /\ UNCHANGED <<table, disk, reaper, vm, guest, history>>

\* Either side closes, or the VM goes away.
ChatEnds(p) ==
    /\ req[p].at = "chatting"
    /\ Goto(p, "touch")
    /\ UNCHANGED <<table, disk, slots, reaper, vm, guest, history>>

\* Faulty variant of TouchActivity: the save is forgotten.
TouchActivity_Unsaved(p) ==
    LET s == req[p].svc IN
    /\ req[p].at = "touch"
    /\ table' = IF Recorded(s) THEN [table EXCEPT ![s].idle = FALSE] ELSE table
    /\ Goto(p, "release")
    /\ UNCHANGED <<disk, slots, reaper, vm, guest, history>>

\* The deferred clean-up: last_activity_at first, then the slot.
TouchActivity(p) ==
    LET s == req[p].svc IN
    /\ req[p].at = "touch"
    /\ IF Recorded(s) THEN Store(s, [table[s] EXCEPT !.idle = FALSE])
                      ELSE UNCHANGED <<table, disk>>
    /\ Goto(p, "release")
    /\ UNCHANGED <<slots, reaper, vm, guest, history>>

ReleaseSlot(p) ==
    /\ req[p].at = "release"
    /\ slots' = slots \ {req[p].svc}
    /\ Finish(p)
    /\ UNCHANGED <<table, disk, reaper, vm, guest, history>>

-----------------------------------------------------------------------------
(* POST /v1/system/vm/restart                                              *)

\* vmRestartRequired belongs to the share handlers; here it may have any value.
BeginRestart(p) ==
    /\ Accept(p, "restart", NoSvc, "limastop", Absent)
    /\ UNCHANGED <<table, disk, slots, reaper, vm, guest, history>>

RestartStopsVM(p) ==
    /\ req[p].at = "limastop"
    /\ vm' \in (IF vm = "running" THEN {"stopped"} ELSE {vm})
              \cup (IF "ensure" \in Faults THEN {vm} ELSE {})
    /\ \E recreate \in BOOLEAN : Goto(p, IF recreate THEN "limadelete" ELSE "ensure")
    /\ UNCHANGED <<table, disk, slots, reaper, guest, history>>

RestartDeletesVM(p) ==
    /\ req[p].at = "limadelete"
    /\ DeleteVM("not_created")
    /\ Persist(EmptyTable)
    /\ Goto(p, "ensure")
    /\ UNCHANGED <<slots, reaper, history>>

-----------------------------------------------------------------------------
(* The idle reaper                                                         *)

ShouldIdleStop(s) ==
    /\ s \notin slots
    /\ s \in Timed
    /\ table[s].state = "running"
    /\ table[s].idle

\* lockIdleStopCandidates: the candidates' chat slots are taken with them.
ReaperTick ==
    LET candidates == {s \in Svc : ShouldIdleStop(s)} IN
    /\ reaper = Asleep
    /\ slots' = slots \cup candidates
    /\ reaper' = IF candidates = {} THEN Asleep
                 ELSE [at |-> "vmstate", held |-> candidates, left |-> candidates, cur |-> NoSvc]
    /\ UNCHANGED <<table, disk, req, vm, guest, history>>

ReaperReadsVMState ==
    /\ reaper.at = "vmstate"
    /\ \E seen \in {vm} \cup (IF "ensure" \in Faults THEN {"unknown"} ELSE {}) :
         reaper' = [reaper EXCEPT !.at = IF seen = "running" THEN "ensure" ELSE "unlock"]
    /\ UNCHANGED <<table, disk, slots, req, vm, guest, history>>

ReaperEnsures ==
    /\ reaper.at = "ensure"
    /\ EnsureVMRunning
    /\ reaper' = [reaper EXCEPT !.at = "stop"]
    /\ UNCHANGED <<slots, req, history>>

ReaperEnsureFails ==
    /\ reaper.at = "ensure"
    /\ EnsureGivesUp
    /\ reaper' = [reaper EXCEPT !.at = "unlock"]
    /\ UNCHANGED <<slots, req, history>>

ReaperStops ==
    \E s \in reaper.left :
        /\ reaper.at = "stop"
        /\ vm = "running"
        /\ GuestDoes("stop", s)
        /\ reaper' = [reaper EXCEPT !.at = "commit", !.cur = s]
        /\ UNCHANGED <<table, disk, slots, req, vm, history>>

\* Faulty variant of ReaperStopFails: the stop is recorded all the same.
ReaperStopFails_Recorded ==
    \E s \in reaper.left :
        /\ reaper.at = "stop"
        /\ "guest" \in Faults
        /\ reaper' = [reaper EXCEPT !.at = "commit", !.cur = s]
        /\ UNCHANGED <<table, disk, slots, req, vm, guest, history>>

\* The call fails, before or after its effect: the next candidate's turn.
ReaperStopFails ==
    \E s \in reaper.left :
        /\ reaper.at = "stop"
        /\ \/ vm # "running" /\ UNCHANGED guest
           \/ "guest" \in Faults /\ vm = "running" /\ UNCHANGED guest
           \/ "guest" \in Faults /\ vm = "running" /\ GuestDoes("stop", s)
        /\ reaper' = [reaper EXCEPT !.left = @ \ {s}]
        /\ UNCHANGED <<table, disk, slots, req, vm, history>>

ReaperCommits ==
    /\ reaper.at = "commit"
    /\ RecordStop(reaper.cur, "idle_timeout")
    /\ reaper' = [reaper EXCEPT !.at = "stop", !.left = @ \ {reaper.cur}, !.cur = NoSvc]
    /\ UNCHANGED <<slots, req, vm, guest, history>>

\* Faulty variant of ReaperUnlocks: the candidates stay locked.
ReaperUnlocks_KeepsSlots ==
    /\ reaper.at = "unlock" \/ (reaper.at = "stop" /\ reaper.left = {})
    /\ reaper' = Asleep
    /\ UNCHANGED <<table, disk, slots, req, vm, guest, history>>

\* The deferred unlockServiceChats.
ReaperUnlocks ==
    /\ reaper.at = "unlock" \/ (reaper.at = "stop" /\ reaper.left = {})
    /\ slots' = slots \ reaper.held
    /\ reaper' = Asleep
    /\ UNCHANGED <<table, disk, req, vm, guest, history>>

-----------------------------------------------------------------------------
(* The environment                                                         *)

\* The idle timeout of s passes without activity: every timestamp of s taken
\* so far is now older than the timeout.
Aged(r) == IF r = Absent THEN r ELSE [r EXCEPT !.idle = TRUE]

TimeoutPasses ==
    \E s \in Timed :
        /\ Recorded(s) /\ ~table[s].idle
        /\ table' = [table EXCEPT ![s] = Aged(@)]
        /\ disk' = [disk EXCEPT ![s] = Aged(@)]
        /\ req' = [p \in Proc |->
                      IF req[p].svc = s /\ req[p].op = "chat"
                      THEN [req[p] EXCEPT !.copy = Aged(@)] ELSE req[p]]
        /\ UNCHANGED <<slots, reaper, vm, guest, history>>

\* The VM is stopped outside the daemon.
VMStops ==
    /\ "vm" \in Faults
    /\ vm = "running"
    /\ vm' = "stopped"
    /\ UNCHANGED <<table, disk, slots, req, reaper, guest, history>>

\* The daemon dies and NewServer loads services.json.
CrashAndRestart ==
    /\ "crash" \in Faults
    /\ table' = disk
    /\ slots' = {}
    /\ req' = [p \in Proc |-> Free]
    /\ reaper' = Asleep
    /\ UNCHANGED <<disk, vm, guest, history>>

-----------------------------------------------------------------------------
(* The specification                                                       *)

\* A daemon start: services.json may hold services of an older version.
Init ==
    /\ table = [s \in Svc |-> IF s \in Legacy THEN NewRec(FALSE) ELSE Absent]
    /\ disk = table
    /\ slots = {}
    /\ req = [p \in Proc |-> Free]
    /\ reaper = Asleep
    /\ vm = "running"
    /\ guest = [s \in Svc |-> IF s \in Legacy THEN "running" ELSE "absent"]
    /\ allocated = Legacy
    /\ deleted = {}
    /\ purged = {}

Begin(p) ==
    \/ BeginCreate(p)
    \/ BeginDelete(p)
    \/ BeginStop(p)
    \/ BeginStart(p)
    \/ BeginResume(p)
    \/ BeginChat(p)
    \/ BeginRestart(p)

\* The steps of an accepted request.
Handle(p) ==
    \/ DeleteReadsVMState(p)
    \/ DeleteForgets(p)
    \/ EnsureReady(p)
    \/ EnsureFails(p)
    \/ GuestCall(p)
    \/ GuestCallFails(p)
    \/ CommitCreate(p)
    \/ CommitDelete(p)
    \/ CommitStop(p)
    \/ CommitStart(p)
    \/ TakeSlot(p)
    \/ ChatBusy(p)
    \/ Upgrade(p)
    \/ UpgradeFails(p)
    \/ AssignSession(p)
    \/ Dial(p)
    \/ ChatEnds(p)
    \/ TouchActivity(p)
    \/ ReleaseSlot(p)
    \/ RestartStopsVM(p)
    \/ RestartDeletesVM(p)

ReaperStep ==
    \/ ReaperReadsVMState
    \/ ReaperEnsures
    \/ ReaperEnsureFails
    \/ ReaperStops
    \/ ReaperStopFails
    \/ ReaperCommits
    \/ ReaperUnlocks

Environment == TimeoutPasses \/ VMStops \/ CrashAndRestart

Next ==
    \/ \E p \in Proc : Begin(p) \/ Handle(p)
    \/ ReaperTick
    \/ ReaperStep
    \/ Environment

Spec == Init /\ [][Next]_vars

(* A daemon that keeps running serves its requests and ticks; every chat    *)
(* ends at some time; and the calls the reaper repeats on every pass do not *)
(* fail for ever.                                                           *)
ReaperStopsService(s) == ReaperStops /\ reaper'.cur = s

Fairness ==
    /\ \A p \in Proc : WF_vars(Handle(p))
    /\ WF_vars(ReaperTick)
    /\ WF_vars(ReaperStep)
    /\ SF_vars(ReaperReadsVMState /\ reaper'.at = "ensure")
    /\ SF_vars(ReaperEnsures)
    /\ \A s \in Svc : SF_vars(ReaperStopsService(s))

FairSpec == Spec /\ Fairness

-----------------------------------------------------------------------------
(* Properties                                                              *)

\* A request is at a place of its own handler, it is about a service unless it
\* restarts the VM, and it still carries the record it is going to store.
WellFormed(r) ==
    /\ r.at \in PlacesOf(r.op)
    /\ r.svc \in Svc <=> r.op \notin {"none", "restart"}
    /\ r.op \in {"start", "resume"} \/ r.at \in {"slot", "upgrade", "session"}
          => r.copy \in Rec

\* Every variable keeps its type: in particular a stored service never has a
\* state or stop reason outside the documented ones, and no handler stores a
\* record it does not have.
TypeOK ==
    /\ table \in [Svc -> Rec \cup {Absent}]
    /\ disk \in [Svc -> Rec \cup {Absent}]
    /\ slots \subseteq Svc
    /\ req \in [Proc -> Request]
    /\ \A p \in Proc : WellFormed(req[p])
    /\ reaper \in ReaperState
    /\ vm \in {"running", "stopped", "not_created"}
    /\ guest \in [Svc -> {"absent", "running", "stopped"}]
    /\ allocated \subseteq Svc
    /\ deleted \subseteq Svc
    /\ purged \subseteq Svc

\* The places of the chat handler between tryBeginServiceChat and release().
SlotPlaces == {"upgrade", "session", "dial", "chatting", "touch", "release"}

HoldsSlot(p) ==
    \/ req[p].at \in SlotPlaces
    \/ req[p].op = "chat" /\ req[p].at = "ensure"

\* Single connection per service (docs/ASP.md): the chat slot of a service is
\* taken exactly while one chat handler, or else the idle reaper, holds it.
\* So two chats never share a service, the reaper never stops a service under
\* a chat, and neither of them frees the other's slot or forgets its own.
SlotExclusive ==
    /\ \A s \in Svc : s \in slots <=>
          (s \in reaper.held \/ \E p \in Proc : HoldsSlot(p) /\ req[p].svc = s)
    /\ \A p, q \in Proc :
          HoldsSlot(p) /\ HoldsSlot(q) /\ req[p].svc = req[q].svc => p = q
    /\ \A p \in Proc : HoldsSlot(p) => req[p].svc \notin reaper.held

\* Whatever the interleaving of stops, starts, chats and the reaper, and after
\* any restart, a record says why it is stopped and a running one gives no
\* reason (stop_reason is "only meaningful in state=stopped", docs/ASMP.md).
ReasonMatchesState ==
    \A s \in Svc : Recorded(s) =>
        (table[s].state = "stopped" <=> table[s].reason # "none")

\* An idle stop that comes late never relabels a service the user stopped.
\* (Only a crash after a failed save may bring an older reason back.)
ManualStopWins ==
    [][~CrashAndRestart =>
          \A s \in Svc : table[s].reason = "manual" =>
              table'[s].reason # "idle_timeout"]_vars

\* Once DELETE has answered for a service that went through the guest, its
\* container is gone and never comes back, whatever starts or resumes are in
\* flight, even when one of them brings the host record back.
PurgedStaysGone == \A s \in purged : ~HasContainer(s)

\* With a working disk a restart of the daemon finds the table as it was, after
\* every single critical section.
DiskMirrorsTable == disk = table

\* As long as nothing is started again, a record that says "stopped" tells the
\* truth: no stop, by a user or by the reaper, is recorded while its container
\* still runs, whichever calls to the guest failed, before or after their effect.
StoppedIsStopped ==
    \A s \in Svc : table[s].state = "stopped" => guest[s] # "running"

\* docs/ASMP.md, idle auto-stop: the reaper stops a service only when its last
\* activity is at least idle_timeout_seconds ago, at the moment of the stop.
IdleStopOnlyWhenIdle ==
    [][\A s \in Svc :
          ReaperStopsService(s) /\ table[s].state = "running" => table[s].idle]_vars

\* docs/ASMP.md, DELETE: a service whose deletion was answered stays deleted.
DeletedStaysDeleted == \A s \in deleted : ~Recorded(s)

InChat(s) == \E p \in Proc : HoldsSlot(p) /\ req[p].svc = s

IdleRunning(s) == table[s].state = "running" /\ table[s].idle /\ ~InChat(s)

\* A timed service that stays idle is stopped in the end, although single
\* passes of the reaper fail and give their slots back.
IdleServiceStops == \A s \in Timed : IdleRunning(s) ~> ~IdleRunning(s)

\* No path through the chat handler or the reaper keeps a slot for ever: a
\* service that answers SERVICE_BUSY is free again later.
SlotEventuallyFree == \A s \in Svc : s \in slots ~> s \notin slots

=============================================================================
