------------------------------- MODULE Startup -------------------------------
(***************************************************************************)
(* How agent-runnerd starts (internal/runnerd/config.go, env_local.go,     *)
(* listen_runnerd.go, run.go, runtime.go, internal/envfile): processes of  *)
(* one instance that load the settings, choose ports and write them back,  *)
(* make or read the token, listen, or find that another one serves.        *)
(*                                                                         *)
(* There is no lock between processes: they share .env.local, its          *)
(* temporary file, the token file, runtime.json and the ports of the host. *)
(* A serving process also moves the port that leads to the guest           *)
(* (lima.go) when another program has taken it.                            *)
(***************************************************************************)
EXTENDS Naturals, FiniteSets

CONSTANTS
    Proc,       \* processes of agent-runnerd; each may be started again
    Port,       \* ports of 127.0.0.1
    NoPort,     \* no value in .env.local
    Nobody,     \* owner of a free port, and content of a missing file
    Other,      \* any other program
    MaxStarts,  \* how often a process is started
    MaxTaken,   \* how often another program takes a port
    Faults      \* what may go wrong: "crash", "slow" (a probe is not answered in 300 ms)

ASSUME StartupAssumption ==
    /\ NoPort \notin Port
    /\ Nobody \notin Proc /\ Other \notin Proc \cup {Nobody}
    /\ MaxStarts \in Nat /\ MaxTaken \in Nat
    /\ Faults \subseteq {"crash", "slow"}

VARIABLES
    proc,       \* each process: where it is, the ports of its environment, those it
                \* is about to write, its Config, and where it goes after a write
    envLocal,   \* .env.local: the ports it names
    envTmp,     \* .env.local.tmp, or Nobody
    tokenFile,  \* the token file: the process that made the token, or Nobody
    runtime,    \* runtime.json: the listen port, or NoPort
    bound,      \* who listens on each port
    starts,     \* how many processes were started
    taken,      \* how often another program took a port
    overlap,    \* history: two processes wrote the settings at the same time
    unheard     \* history: a process that serves did not answer a probe

vars == <<proc, envLocal, envTmp, tokenFile, runtime, bound, starts, taken, overlap, unheard>>

-----------------------------------------------------------------------------
(* Data                                                                    *)

NoEnv == [port |-> NoPort, fwd |-> NoPort]

NoConfig == [port |-> NoPort, fwd |-> NoPort, token |-> Nobody]

Off == [at |-> "off", next |-> "off", env |-> NoEnv, set |-> NoEnv, cfg |-> NoConfig]

FreePort == {x \in Port : bound[x] = Nobody}

\* A process of the instance that loads, chooses or writes settings.
Busy(p) == proc[p].at \notin {"off", "serve"}

Overlaps(p) == overlap \/ \E q \in Proc \ {p} : Busy(q)

Step(p, fields) == proc' = [proc EXCEPT ![p] = fields]

\* Leaving the process, or dying, closes its listener.
Quit(p) ==
    /\ Step(p, Off)
    /\ bound' = [x \in Port |-> IF bound[x] = p THEN Nobody ELSE bound[x]]

\* Faulty variant of Merge: what is not set is lost.
Merge_Drops(env, set) == set

\* A value of the map replaces that of the file.
Merge(env, set) == [key \in {"port", "fwd"} |-> IF set[key] = NoPort THEN env[key] ELSE set[key]]

-----------------------------------------------------------------------------
(* LoadConfig                                                              *)

\* envfile.LoadFirst of .env.local.
Start(p) ==
    /\ proc[p] = Off /\ starts < MaxStarts
    /\ Step(p, [Off EXCEPT !.at = "port", !.env = envLocal])
    /\ starts' = starts + 1
    /\ overlap' = Overlaps(p)
    /\ UNCHANGED <<envLocal, envTmp, tokenFile, runtime, bound, taken, unheard>>

\* AGENT_RUNNER_PORT, or a port that is free at this moment.
ChoosePort(p) ==
    LET c == proc[p] IN
    /\ c.at = "port"
    /\ \/ /\ c.env.port # NoPort
          /\ Step(p, [c EXCEPT !.at = "fwd", !.cfg.port = c.env.port])
       \/ /\ c.env.port = NoPort
          /\ \E x \in FreePort :
                Step(p, [c EXCEPT !.at = "write", !.next = "fwd", !.env.port = x, !.cfg.port = x])
    /\ UNCHANGED <<envLocal, envTmp, tokenFile, runtime, bound, starts, taken, overlap, unheard>>

\* Faulty variant of ChooseForward: the port may be that of runnerd.
ChooseForward_AnyPort(p) ==
    LET c == proc[p] IN
    /\ c.at = "fwd"
    /\ \/ /\ c.env.fwd # NoPort
          /\ Step(p, [c EXCEPT !.at = "token", !.cfg.fwd = c.env.fwd])
          /\ UNCHANGED bound
       \/ /\ c.env.fwd = NoPort
          /\ \E x \in FreePort :
                Step(p, [c EXCEPT !.at = "write", !.next = "token", !.env.fwd = x, !.cfg.fwd = x])
          /\ UNCHANGED bound
    /\ UNCHANGED <<envLocal, envTmp, tokenFile, runtime, starts, taken, overlap, unheard>>

\* AGENT_RUNNER_GUEST_FORWARD_PORT, which must differ from the port, or a free
\* port that does.
ChooseForward(p) ==
    LET c == proc[p] IN
    /\ c.at = "fwd"
    /\ \/ /\ c.env.fwd \notin {NoPort, c.cfg.port}
          /\ Step(p, [c EXCEPT !.at = "token", !.cfg.fwd = c.env.fwd])
          /\ UNCHANGED bound
       \/ /\ c.env.fwd = c.cfg.port
          /\ Quit(p)
       \/ /\ c.env.fwd = NoPort
          /\ \E x \in FreePort \ {c.cfg.port} :
                Step(p, [c EXCEPT !.at = "write", !.next = "token", !.env.fwd = x, !.cfg.fwd = x])
          /\ UNCHANGED bound
    /\ UNCHANGED <<envLocal, envTmp, tokenFile, runtime, starts, taken, overlap, unheard>>

\* loadOrCreateToken reads the file ...
ReadToken(p) ==
    LET c == proc[p] IN
    /\ c.at = "token"
    /\ Step(p, IF tokenFile = Nobody THEN [c EXCEPT !.at = "newtoken"]
               ELSE [c EXCEPT !.at = "listen", !.cfg.token = tokenFile])
    /\ UNCHANGED <<envLocal, envTmp, tokenFile, runtime, bound, starts, taken, overlap, unheard>>

\* ... and writes one if there was none.
WriteToken(p) ==
    LET c == proc[p] IN
    /\ c.at = "newtoken"
    /\ tokenFile' = p
    /\ Step(p, [c EXCEPT !.at = "listen", !.cfg.token = p])
    /\ UNCHANGED <<envLocal, envTmp, runtime, bound, starts, taken, overlap, unheard>>

-----------------------------------------------------------------------------
(* persistEnv                                                              *)

\* persistEnvLocalUpdates starts from the file as it is now.
Reload(p) ==
    LET c == proc[p] IN
    /\ c.at = "reload"
    /\ Step(p, [c EXCEPT !.at = "write", !.env = Merge(envLocal, c.set), !.set = NoEnv])
    /\ UNCHANGED <<envLocal, envTmp, tokenFile, runtime, bound, starts, taken, overlap, unheard>>

\* The whole map goes to the temporary file, which all processes share.
Write(p) ==
    LET c == proc[p] IN
    /\ c.at = "write"
    /\ envTmp' = c.env
    /\ Step(p, [c EXCEPT !.at = "rename"])
    /\ UNCHANGED <<envLocal, tokenFile, runtime, bound, starts, taken, overlap, unheard>>

\* Whatever the temporary file holds becomes .env.local.  If another process
\* has renamed it, this one gives up; a server keeps serving.
Rename(p) ==
    LET c == proc[p] IN
    /\ c.at = "rename"
    /\ IF envTmp # Nobody
       THEN /\ envLocal' = envTmp /\ envTmp' = Nobody
            /\ Step(p, [c EXCEPT !.at = c.next,
                                 !.cfg.fwd = IF c.next = "serve" THEN c.env.fwd ELSE @])
            /\ UNCHANGED bound
       ELSE /\ IF c.next = "serve" THEN Step(p, [c EXCEPT !.at = "serve"]) /\ UNCHANGED bound
                                   ELSE Quit(p)
            /\ UNCHANGED <<envLocal, envTmp>>
    /\ UNCHANGED <<tokenFile, runtime, starts, taken, overlap, unheard>>

-----------------------------------------------------------------------------
(* Run                                                                     *)

\* A process that answers GET /v1/system/status and accepts this token.
Responds(q, token) ==
    /\ q \in Proc
    /\ proc[q].at = "serve" \/ proc[q].next = "serve"
    /\ proc[q].cfg.token = token

\* Faulty variant of Listen: another port is taken without a probe.
Listen_NoProbe(p) ==
    LET c == proc[p] IN
    /\ c.at = "listen"
    /\ IF bound[c.cfg.port] = Nobody
       THEN Step(p, [c EXCEPT !.at = "boot"]) /\ bound' = [bound EXCEPT ![c.cfg.port] = p]
       ELSE \E x \in FreePort \ {c.cfg.fwd} :
               /\ bound' = [bound EXCEPT ![x] = p]
               /\ Step(p, [c EXCEPT !.at = "reload", !.next = "boot",
                                    !.set.port = x, !.cfg.port = x])
    /\ UNCHANGED <<envLocal, envTmp, tokenFile, runtime, starts, taken, overlap, unheard>>

\* listenRunnerdHTTP: the port, or the end if a runnerd of this instance
\* answers there, or else another port.
Listen(p) ==
    LET c == proc[p]
        owner == bound[c.cfg.port]
        answers == Responds(owner, c.cfg.token)
    IN
    /\ c.at = "listen"
    /\ \/ /\ owner = Nobody
          /\ Step(p, [c EXCEPT !.at = "boot"])
          /\ bound' = [bound EXCEPT ![c.cfg.port] = p]
          /\ UNCHANGED unheard
       \/ answers /\ Quit(p) /\ UNCHANGED unheard
       \/ /\ owner # Nobody
          /\ answers => "slow" \in Faults
          /\ \E x \in FreePort \ {c.cfg.fwd} :
                /\ bound' = [bound EXCEPT ![x] = p]
                /\ Step(p, [c EXCEPT !.at = "reload", !.next = "boot",
                                     !.set.port = x, !.cfg.port = x])
          /\ unheard' = (unheard \/ answers)
    /\ UNCHANGED <<envLocal, envTmp, tokenFile, runtime, starts, taken, overlap>>

\* cleanupOrphanSSHTunnels, NewServer, writeRuntimeFile and srv.Serve.  Until
\* then the port is open and nobody answers.
Boot(p) ==
    /\ proc[p].at = "boot"
    /\ runtime' = proc[p].cfg.port
    /\ Step(p, [proc[p] EXCEPT !.at = "serve", !.next = "off"])
    /\ UNCHANGED <<envLocal, envTmp, tokenFile, bound, starts, taken, overlap, unheard>>

\* ensureGuestForwardPortAvailable in a server: the port that leads to the
\* guest is taken, so it moves.
MoveForward(p) ==
    LET c == proc[p] IN
    /\ c.at = "serve"
    /\ bound[c.cfg.fwd] # Nobody
    /\ \E x \in FreePort \ {c.cfg.port} :
          Step(p, [c EXCEPT !.at = "reload", !.next = "serve", !.set.fwd = x])
    /\ overlap' = Overlaps(p)
    /\ UNCHANGED <<envLocal, envTmp, tokenFile, runtime, bound, starts, taken, unheard>>

Crash(p) ==
    /\ "crash" \in Faults
    /\ proc[p] # Off
    /\ Quit(p)
    /\ UNCHANGED <<envLocal, envTmp, tokenFile, runtime, starts, taken, overlap, unheard>>

-----------------------------------------------------------------------------
(* Other programs                                                          *)

Take(x) ==
    /\ bound[x] = Nobody /\ taken < MaxTaken
    /\ bound' = [bound EXCEPT ![x] = Other]
    /\ taken' = taken + 1
    /\ UNCHANGED <<proc, envLocal, envTmp, tokenFile, runtime, starts, overlap, unheard>>

Release(x) ==
    /\ bound[x] = Other
    /\ bound' = [bound EXCEPT ![x] = Nobody]
    /\ UNCHANGED <<proc, envLocal, envTmp, tokenFile, runtime, starts, taken, overlap, unheard>>

-----------------------------------------------------------------------------
Init ==
    /\ proc = [p \in Proc |-> Off]
    /\ envLocal = NoEnv /\ envTmp = Nobody
    /\ tokenFile = Nobody /\ runtime = NoPort
    /\ bound = [x \in Port |-> Nobody]
    /\ starts = 0 /\ taken = 0
    /\ overlap = FALSE /\ unheard = FALSE

Run(p) ==
    \/ ChoosePort(p) \/ ChooseForward(p) \/ ReadToken(p) \/ WriteToken(p)
    \/ Reload(p) \/ Write(p) \/ Rename(p)
    \/ Listen(p) \/ Boot(p)

Next ==
    \/ \E p \in Proc : Start(p) \/ Run(p) \/ MoveForward(p) \/ Crash(p)
    \/ \E x \in Port : Take(x) \/ Release(x)

Spec == Init /\ [][Next]_vars

-----------------------------------------------------------------------------
(* Properties                                                              *)

\* One process listens for the instance, however often it is started, killed,
\* and its port taken by others.  Two can listen only if both chose or wrote
\* their settings at the same time, or if the one that served did not answer.
OneServer ==
    ~overlap /\ ~unheard =>
        \A x, y \in Port : bound[x] \in Proc /\ bound[y] \in Proc => bound[x] = bound[y]

\* The settings never make the next start fail: the two ports differ, in the
\* file and in what is about to become the file.
NextStartLoads ==
    ~overlap /\ ~unheard =>
        /\ envLocal.port = NoPort \/ envLocal.port # envLocal.fwd
        /\ envTmp # Nobody => envTmp.port # envTmp.fwd

\* A client that reads runtime.json and the token file reaches the server, and
\* the server survives a restart with its ports: .env.local names them.
FilesTell ==
    \A p \in Proc :
        proc[p].at = "serve" /\ ~overlap /\ ~unheard =>
            /\ runtime = proc[p].cfg.port
            /\ tokenFile = proc[p].cfg.token
            /\ envLocal = [port |-> proc[p].cfg.port, fwd |-> proc[p].cfg.fwd]
=============================================================================
