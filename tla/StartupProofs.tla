---------------------------- MODULE StartupProofs ----------------------------
(***************************************************************************)
(* Proofs about Startup, for every set of processes and of ports and every *)
(* number of starts.                                                       *)
(***************************************************************************)
EXTENDS Startup, TLAPS

-----------------------------------------------------------------------------
(* Type correctness                                                        *)

SomePort == Port \cup {NoPort}

Env == [port : SomePort, fwd : SomePort]

Config == [port : SomePort, fwd : SomePort, token : Proc \cup {Nobody}]

At == {"off", "port", "fwd", "token", "newtoken", "listen", "reload", "write", "rename",
       "boot", "serve"}

Process == [at : At, next : At, env : Env, set : Env, cfg : Config]

\* Where a process at a given place may be about to go.
Route(at) ==
    CASE at \in {"off", "port"} -> {"off"}
      [] at = "fwd" -> {"off", "fwd"}
      [] at \in {"token", "newtoken", "listen"} -> {"off", "fwd", "token"}
      [] at \in {"write", "rename"} -> {"fwd", "token", "boot", "serve"}
      [] at = "reload" -> {"boot", "serve"}
      [] at = "boot" -> {"off", "fwd", "token", "boot"}
      [] OTHER -> {"off", "serve"}

TypeOK ==
    /\ proc \in [Proc -> Process]
    /\ \A p \in Proc : proc[p].next \in Route(proc[p].at)
    /\ envLocal \in Env
    /\ envTmp \in Env \cup {Nobody}
    /\ tokenFile \in Proc \cup {Nobody}
    /\ runtime \in SomePort
    /\ bound \in [Port -> Proc \cup {Nobody, Other}]
    /\ starts \in 0 .. MaxStarts /\ taken \in 0 .. MaxTaken
    /\ overlap \in BOOLEAN /\ unheard \in BOOLEAN

\* One process gets a new record, and no other.
LEMMA SetProcess ==
    ASSUME TypeOK, NEW p \in Proc, NEW c \in Process, c.next \in Route(c.at), Step(p, c)
    PROVE  /\ proc' \in [Proc -> Process]
           /\ \A q \in Proc : proc'[q].next \in Route(proc'[q].at)
           /\ proc'[p] = c
           /\ \A q \in Proc \ {p} : proc'[q] = proc[q]
  BY DEF TypeOK, Step

LEMMA OffType == Off \in Process /\ Off.next \in Route(Off.at)
  BY DEF Off, NoEnv, NoConfig, Process, At, Env, Config, SomePort, Route

LEMMA QuitType ==
    ASSUME TypeOK, NEW p \in Proc, Quit(p)
    PROVE  /\ proc' \in [Proc -> Process]
           /\ \A q \in Proc : proc'[q].next \in Route(proc'[q].at)
           /\ proc'[p] = Off
           /\ \A q \in Proc \ {p} : proc'[q] = proc[q]
           /\ bound' \in [Port -> Proc \cup {Nobody, Other}]
  <1>1. bound' \in [Port -> Proc \cup {Nobody, Other}]
    BY DEF Quit, TypeOK
  <1> QED  BY <1>1, OffType, SetProcess DEF Quit

\* A value that is set replaces the old one.
LEMMA MergeType ==
    ASSUME NEW env \in Env, NEW set \in Env
    PROVE  /\ Merge(env, set) \in Env
           /\ Merge(env, set).port = IF set.port = NoPort THEN env.port ELSE set.port
           /\ Merge(env, set).fwd = IF set.fwd = NoPort THEN env.fwd ELSE set.fwd
  <1>1. Merge(env, set) = [port |-> IF set.port = NoPort THEN env.port ELSE set.port,
                           fwd |-> IF set.fwd = NoPort THEN env.fwd ELSE set.fwd]
    BY DEF Merge
  <1> QED  BY <1>1 DEF Env

\* What is known of the record of a process that is about to change it.
LEMMA TypeOfOne ==
    ASSUME TypeOK, NEW p \in Proc
    PROVE  /\ proc[p] \in Process /\ proc[p].next \in Route(proc[p].at)
           /\ proc[p].env \in Env /\ proc[p].set \in Env /\ proc[p].cfg \in Config
           /\ proc[p].cfg.port \in SomePort /\ proc[p].cfg.fwd \in SomePort
  BY DEF TypeOK, Process, Config

LEMMA LoadType ==
    ASSUME TypeOK, StartupAssumption, NEW p \in Proc,
           Start(p) \/ ChoosePort(p) \/ ChooseForward(p) \/ ReadToken(p) \/ WriteToken(p)
    PROVE  TypeOK'
  <1> DEFINE c == proc[p]
  <1>1. /\ c \in Process /\ c.next \in Route(c.at)
        /\ c.env \in Env /\ c.set \in Env /\ c.cfg \in Config
        /\ c.cfg.port \in SomePort /\ c.cfg.fwd \in SomePort
    BY TypeOfOne
  <1>2. \A x \in FreePort : x \in SomePort
    BY DEF FreePort, SomePort
  <1>3. CASE Start(p)
    <2> DEFINE d == [Off EXCEPT !.at = "port", !.env = envLocal]
    <2>1. d \in Process /\ d.next \in Route(d.at)
      BY OffType DEF TypeOK, Off, Process, At, Route
    <2>2. Step(p, d)
      BY <1>3 DEF Start
    <2>3. starts' \in 0 .. MaxStarts /\ overlap' \in BOOLEAN
      BY <1>3, StartupAssumption DEF Start, TypeOK, StartupAssumption, Overlaps
    <2> QED  BY <1>3, <2>1, <2>2, <2>3, SetProcess DEF Start, TypeOK
  <1>4. CASE ChoosePort(p)
    <2>1. CASE c.env.port # NoPort
      <3> DEFINE d == [c EXCEPT !.at = "fwd", !.cfg.port = c.env.port]
      <3>1. d \in Process /\ d.next \in Route(d.at)
        BY <1>1, <1>4 DEF ChoosePort, Process, At, Env, Config, Route
      <3>2. Step(p, d)
        BY <1>4, <2>1 DEF ChoosePort
      <3> QED  BY <1>4, <3>1, <3>2, SetProcess DEF ChoosePort, TypeOK
    <2>2. ASSUME NEW x \in FreePort,
                 Step(p, [c EXCEPT !.at = "write", !.next = "fwd", !.env.port = x, !.cfg.port = x])
          PROVE  TypeOK'
      <3> DEFINE d == [c EXCEPT !.at = "write", !.next = "fwd", !.env.port = x, !.cfg.port = x]
      <3>1. d \in Process
        BY <1>1, <1>2 DEF Process, At, Env, Config
      <3>2. d.at = "write" /\ d.next = "fwd"
        BY <1>1 DEF Process
      <3>3. d \in Process /\ d.next \in Route(d.at)
        BY <3>1, <3>2 DEF Route
      <3> QED  BY <1>4, <2>2, <3>3, SetProcess DEF ChoosePort, TypeOK
    <2> QED  BY <1>4, <2>1, <2>2 DEF ChoosePort
  <1>5. CASE ChooseForward(p)
    <2>1. CASE /\ c.env.fwd \notin {NoPort, c.cfg.port}
               /\ Step(p, [c EXCEPT !.at = "token", !.cfg.fwd = c.env.fwd])
               /\ UNCHANGED bound
      <3> DEFINE d == [c EXCEPT !.at = "token", !.cfg.fwd = c.env.fwd]
      <3>1. d \in Process /\ d.next \in Route(d.at)
        BY <1>1, <1>5 DEF ChooseForward, Process, At, Env, Config, Route
      <3> QED  BY <1>5, <2>1, <3>1, SetProcess DEF ChooseForward, TypeOK
    <2>2. CASE Quit(p)
      BY <1>5, <2>2, QuitType DEF ChooseForward, TypeOK
    <2>3. ASSUME NEW x \in FreePort, UNCHANGED bound,
                 Step(p, [c EXCEPT !.at = "write", !.next = "token", !.env.fwd = x, !.cfg.fwd = x])
          PROVE  TypeOK'
      <3> DEFINE d == [c EXCEPT !.at = "write", !.next = "token", !.env.fwd = x, !.cfg.fwd = x]
      <3>1. d \in Process
        BY <1>1, <1>2 DEF Process, At, Env, Config
      <3>2. d.at = "write" /\ d.next = "token"
        BY <1>1 DEF Process
      <3>3. d \in Process /\ d.next \in Route(d.at)
        BY <3>1, <3>2 DEF Route
      <3> QED  BY <1>5, <2>3, <3>3, SetProcess DEF ChooseForward, TypeOK
    <2> QED  BY <1>5, <2>1, <2>2, <2>3 DEF ChooseForward
  <1>6. CASE ReadToken(p)
    <2> DEFINE d == IF tokenFile = Nobody THEN [c EXCEPT !.at = "newtoken"]
                    ELSE [c EXCEPT !.at = "listen", !.cfg.token = tokenFile]
    <2>1. d \in Process /\ d.next \in Route(d.at)
      BY <1>1, <1>6 DEF TypeOK, ReadToken, Process, At, Config, Route
    <2> QED  BY <1>6, <2>1, SetProcess DEF ReadToken, TypeOK
  <1>7. CASE WriteToken(p)
    <2> DEFINE d == [c EXCEPT !.at = "listen", !.cfg.token = p]
    <2>1. d \in Process /\ d.next \in Route(d.at)
      BY <1>1, <1>7 DEF WriteToken, Process, At, Config, Route
    <2> QED  BY <1>7, <2>1, SetProcess DEF WriteToken, TypeOK
  <1> QED  BY <1>3, <1>4, <1>5, <1>6, <1>7

LEMMA PersistType ==
    ASSUME TypeOK, StartupAssumption, NEW p \in Proc, Reload(p) \/ Write(p) \/ Rename(p)
    PROVE  TypeOK'
  <1> DEFINE c == proc[p]
  <1>1. /\ c \in Process /\ c.next \in Route(c.at)
        /\ c.env \in Env /\ c.set \in Env /\ c.cfg \in Config
        /\ c.cfg.port \in SomePort /\ c.cfg.fwd \in SomePort
    BY TypeOfOne
  <1>2. CASE Reload(p)
    <2> DEFINE d == [c EXCEPT !.at = "write", !.env = Merge(envLocal, c.set), !.set = NoEnv]
    <2>1. Merge(envLocal, c.set) \in Env /\ NoEnv \in Env
      BY <1>1, MergeType DEF TypeOK, NoEnv, Env, SomePort
    <2>2. d \in Process /\ d.next \in Route(d.at)
      BY <1>1, <1>2, <2>1 DEF Reload, Process, At, Route
    <2> QED  BY <1>2, <2>2, SetProcess DEF Reload, TypeOK
  <1>3. CASE Write(p)
    <2> DEFINE d == [c EXCEPT !.at = "rename"]
    <2>1. d \in Process /\ d.next \in Route(d.at)
      BY <1>1, <1>3 DEF Write, Process, At, Route
    <2> QED  BY <1>1, <1>3, <2>1, SetProcess DEF Write, TypeOK
  <1>4. CASE Rename(p)
    <2>1. CASE envTmp # Nobody
      <3> DEFINE d == [c EXCEPT !.at = c.next, !.cfg.fwd = IF c.next = "serve" THEN c.env.fwd ELSE @]
      <3>1. c.next \in {"fwd", "token", "boot", "serve"}
        BY <1>1, <1>4 DEF Rename, Route
      <3>2. d \in Process
        BY <1>1, <3>1 DEF Process, At, Env, Config
      <3>3. d.next \in Route(d.at)
        BY <1>1, <3>1 DEF Process, Route
      <3> QED  BY <1>4, <2>1, <3>2, <3>3, SetProcess DEF Rename, TypeOK
    <2>2. CASE envTmp = Nobody /\ c.next = "serve"
      <3> DEFINE d == [c EXCEPT !.at = "serve"]
      <3>1. d \in Process /\ d.next \in Route(d.at)
        BY <1>1, <2>2 DEF Process, At, Route
      <3> QED  BY <1>4, <2>2, <3>1, SetProcess DEF Rename, TypeOK
    <2>3. CASE envTmp = Nobody /\ c.next # "serve"
      BY <1>4, <2>3, QuitType DEF Rename, TypeOK
    <2> QED  BY <2>1, <2>2, <2>3
  <1> QED  BY <1>2, <1>3, <1>4

LEMMA ServeType ==
    ASSUME TypeOK, StartupAssumption, NEW p \in Proc,
           Listen(p) \/ Boot(p) \/ MoveForward(p) \/ Crash(p)
    PROVE  TypeOK'
  <1> DEFINE c == proc[p]
  <1>1. /\ c \in Process /\ c.next \in Route(c.at)
        /\ c.env \in Env /\ c.set \in Env /\ c.cfg \in Config
        /\ c.cfg.port \in SomePort /\ c.cfg.fwd \in SomePort
    BY TypeOfOne
  <1>2. \A x \in FreePort : x \in SomePort
    BY DEF FreePort, SomePort
  <1>3. CASE Listen(p)
    <2>1. CASE /\ Step(p, [c EXCEPT !.at = "boot"])
               /\ bound' = [bound EXCEPT ![c.cfg.port] = p]
               /\ UNCHANGED unheard
      <3> DEFINE d == [c EXCEPT !.at = "boot"]
      <3>1. d \in Process /\ d.next \in Route(d.at)
        BY <1>1, <1>3 DEF Listen, Process, At, Route
      <3> QED  BY <1>3, <2>1, <3>1, SetProcess DEF Listen, TypeOK
    <2>2. CASE Quit(p) /\ UNCHANGED unheard
      BY <1>3, <2>2, QuitType DEF Listen, TypeOK
    <2>3. ASSUME NEW x \in FreePort,
                 Step(p, [c EXCEPT !.at = "reload", !.next = "boot",
                                   !.set.port = x, !.cfg.port = x]),
                 bound' = [bound EXCEPT ![x] = p],
                 unheard' = (unheard \/ Responds(bound[c.cfg.port], c.cfg.token))
          PROVE  TypeOK'
      <3> DEFINE d == [c EXCEPT !.at = "reload", !.next = "boot", !.set.port = x, !.cfg.port = x]
      <3>1. d \in Process
        BY <1>1, <1>2 DEF Process, At, Env, Config
      <3>2. d.at = "reload" /\ d.next = "boot"
        BY <1>1 DEF Process
      <3>3. d \in Process /\ d.next \in Route(d.at)
        BY <3>1, <3>2 DEF Route
      <3>4. unheard' \in BOOLEAN
        BY <2>3 DEF Responds
      <3> QED  BY <1>3, <2>3, <3>3, <3>4, SetProcess DEF Listen, TypeOK
    <2> QED  BY <1>3, <2>1, <2>2, <2>3 DEF Listen
  <1>4. CASE Boot(p)
    <2> DEFINE d == [c EXCEPT !.at = "serve", !.next = "off"]
    <2>1. d \in Process /\ d.next \in Route(d.at)
      BY <1>1 DEF Process, At, Route
    <2> QED  BY <1>1, <1>4, <2>1, SetProcess DEF Boot, TypeOK
  <1>5. CASE MoveForward(p)
    <2>1. PICK x \in FreePort :
            Step(p, [c EXCEPT !.at = "reload", !.next = "serve", !.set.fwd = x])
      BY <1>5 DEF MoveForward
    <2> DEFINE d == [c EXCEPT !.at = "reload", !.next = "serve", !.set.fwd = x]
    <2>2. d \in Process /\ d.next \in Route(d.at)
      BY <1>1, <1>2 DEF Process, At, Env, Route
    <2>3. overlap' \in BOOLEAN
      BY <1>5 DEF MoveForward, Overlaps
    <2> QED  BY <1>5, <2>1, <2>2, <2>3, SetProcess DEF MoveForward, TypeOK
  <1>6. CASE Crash(p)
    BY <1>6, QuitType DEF Crash, TypeOK
  <1> QED  BY <1>3, <1>4, <1>5, <1>6

LEMMA OthersType ==
    ASSUME TypeOK, StartupAssumption, NEW x \in Port, Take(x) \/ Release(x)
    PROVE  TypeOK'
  BY DEF Take, Release, TypeOK, StartupAssumption

\* The type invariant is inductive.
LEMMA StepType == TypeOK /\ StartupAssumption /\ [Next]_vars => TypeOK'
  <1> SUFFICES ASSUME TypeOK, StartupAssumption, [Next]_vars PROVE TypeOK'
    OBVIOUS
  <1>1. CASE UNCHANGED vars
    BY <1>1 DEF vars, TypeOK
  <1> QED  BY <1>1, LoadType, PersistType, ServeType, OthersType DEF Next, Run

LEMMA InitType == Init /\ StartupAssumption => TypeOK
  <1> SUFFICES ASSUME Init, StartupAssumption PROVE TypeOK
    OBVIOUS
  <1>1. proc \in [Proc -> Process] /\ \A p \in Proc : proc[p].next \in Route(proc[p].at)
    BY OffType DEF Init
  <1>2. envLocal \in Env /\ runtime \in SomePort
    BY DEF Init, NoEnv, Env, SomePort
  <1>3. starts \in 0 .. MaxStarts /\ taken \in 0 .. MaxTaken
    BY DEF Init, StartupAssumption
  <1> QED  BY <1>1, <1>2, <1>3 DEF Init, TypeOK

\* Type correctness of the processes, the files they share and the ports.
THEOREM StartupTypes == Spec => []TypeOK
  BY InitType, StepType, StartupAssumption, PTL DEF Spec

-----------------------------------------------------------------------------
(* The inductive invariant                                                 *)

Quiet == ~overlap /\ ~unheard

\* A process that holds its listener: it is about to serve, serves, or writes
\* the settings before or between.
Listens(p) == proc[p].at \in {"boot", "serve"} \/ proc[p].next \in {"boot", "serve"}

\* A port is bound by the process that listens with it, and by no other.
PortsHeld ==
    \A p \in Proc : \A x \in Port : bound[x] = p <=> Listens(p) /\ proc[p].cfg.port = x

\* A process past the choice of its port has one.
PortChosen == \A p \in Proc : proc[p].at \notin {"off", "port"} => proc[p].cfg.port \in Port

Alone ==
    \A p, q \in Proc : p # q => ~(Busy(p) /\ Busy(q)) /\ ~(Listens(p) /\ Listens(q))

FilesLoad ==
    /\ envLocal.port = NoPort => envLocal.fwd = NoPort
    /\ envLocal.port # NoPort => envLocal.port # envLocal.fwd
    /\ envTmp # Nobody => envTmp.port # NoPort /\ envTmp.port # envTmp.fwd

Own(c) == [port |-> c.cfg.port, fwd |-> c.cfg.fwd]

Writing(c) == c.at \in {"write", "rename"}

\* The settings a process has read are those of the file until it writes.
ReadsFile(c) ==
    /\ c.at \in {"port", "fwd"} => c.env = envLocal
    /\ c.at = "fwd" => c.cfg.port = c.env.port /\ c.env.port # NoPort
    /\ c.at = "newtoken" => tokenFile = Nobody
    /\ c.at \in {"listen", "boot", "serve"} \/ c.next \in {"boot", "serve"} =>
          tokenFile \in Proc /\ tokenFile = c.cfg.token

\* From the choice of the ports on they are those of the file, except while a
\* process that found its port taken writes the new one.
OwnsFile(c) ==
    /\ c.at \in {"token", "newtoken", "listen", "boot", "serve"} \/ c.next = "serve" =>
          envLocal = Own(c)
    /\ c.at \in {"token", "newtoken", "listen", "boot", "serve"} \/ c.next \in {"boot", "serve"} =>
          c.cfg.port \in Port /\ c.cfg.fwd \in Port /\ c.cfg.port # c.cfg.fwd
    /\ c.at = "serve" \/ c.next = "serve" => runtime = c.cfg.port

\* What a process is about to write.
Writes(c) ==
    /\ Writing(c) /\ c.next = "fwd" =>
          /\ envLocal.port = NoPort
          /\ c.env = [port |-> c.cfg.port, fwd |-> NoPort] /\ c.cfg.port # NoPort
    /\ Writing(c) /\ c.next = "token" =>
          /\ envLocal.fwd = NoPort
          /\ c.env = Own(c)
          /\ c.cfg.port \in Port /\ c.cfg.fwd \in Port /\ c.cfg.port # c.cfg.fwd
    /\ c.at = "reload" /\ c.next = "boot" =>
          /\ envLocal.fwd = c.cfg.fwd
          /\ c.set = [port |-> c.cfg.port, fwd |-> NoPort]
    /\ Writing(c) /\ c.next = "boot" => c.env = Own(c)
    /\ c.at = "reload" /\ c.next = "serve" =>
          /\ c.set.port = NoPort
          /\ c.set.fwd \in Port \ {c.cfg.port}
    /\ Writing(c) /\ c.next = "serve" =>
          c.env.port = c.cfg.port /\ c.env.fwd \in Port \ {c.cfg.port}
    /\ c.at = "rename" => envTmp = c.env
    /\ c.at # "reload" => c.set = NoEnv

Knows(p) == ReadsFile(proc[p]) /\ OwnsFile(proc[p]) /\ Writes(proc[p])

Orderly == Alone /\ FilesLoad /\ \A p \in Proc : Knows(p)

\* While no two processes wrote at the same time and every probe was answered.
QuietInv == Quiet => Orderly

IInv == TypeOK /\ PortChosen /\ PortsHeld /\ QuietInv

-----------------------------------------------------------------------------
(* Who holds which port                                                    *)

\* A process that keeps its listener, or the lack of one, keeps PortsHeld.
LEMMA SameListener ==
    ASSUME PortsHeld, NEW p \in Proc, UNCHANGED bound,
           \A q \in Proc \ {p} : proc'[q] = proc[q],
           Listens(p)' <=> Listens(p),
           Listens(p) => proc'[p].cfg.port = proc[p].cfg.port
    PROVE  PortsHeld'
  <1> SUFFICES ASSUME NEW q \in Proc, NEW x \in Port
               PROVE  bound'[x] = q <=> Listens(q)' /\ proc'[q].cfg.port = x
    BY DEF PortsHeld
  <1>1. bound[x] = q <=> Listens(q) /\ proc[q].cfg.port = x
    BY DEF PortsHeld
  <1>2. CASE q = p
    BY <1>1, <1>2
  <1>3. CASE q # p
    BY <1>1, <1>3 DEF Listens
  <1> QED  BY <1>2, <1>3

LEMMA QuitHeld ==
    ASSUME TypeOK, StartupAssumption, PortsHeld, NEW p \in Proc, Quit(p)
    PROVE  PortsHeld'
  <1>1. /\ proc'[p] = Off /\ \A q \in Proc \ {p} : proc'[q] = proc[q]
        /\ \A x \in Port : bound'[x] = IF bound[x] = p THEN Nobody ELSE bound[x]
    BY QuitType DEF Quit
  <1> SUFFICES ASSUME NEW q \in Proc, NEW x \in Port
               PROVE  bound'[x] = q <=> Listens(q)' /\ proc'[q].cfg.port = x
    BY DEF PortsHeld
  <1>2. bound[x] = q <=> Listens(q) /\ proc[q].cfg.port = x
    BY DEF PortsHeld
  <1>3. CASE q = p
    BY <1>1, <1>3 DEF Listens, Off, StartupAssumption
  <1>4. CASE q # p
    BY <1>1, <1>2, <1>4 DEF Listens, StartupAssumption
  <1> QED  BY <1>3, <1>4

\* A process that does not listen binds a free port and listens there.
LEMMA BindHeld ==
    ASSUME TypeOK, StartupAssumption, PortsHeld, NEW p \in Proc, NEW x \in Port,
           ~Listens(p), bound[x] = Nobody, bound' = [bound EXCEPT ![x] = p],
           \A q \in Proc \ {p} : proc'[q] = proc[q],
           Listens(p)', proc'[p].cfg.port = x
    PROVE  PortsHeld'
  <1>1. \A y \in Port : bound'[y] = IF y = x THEN p ELSE bound[y]
    BY DEF TypeOK
  <1> SUFFICES ASSUME NEW q \in Proc, NEW y \in Port
               PROVE  bound'[y] = q <=> Listens(q)' /\ proc'[q].cfg.port = y
    BY DEF PortsHeld
  <1>2. bound[y] = q <=> Listens(q) /\ proc[q].cfg.port = y
    BY DEF PortsHeld
  <1>3. CASE q = p
    BY <1>1, <1>2, <1>3
  <1>4. CASE q # p
    BY <1>1, <1>2, <1>4 DEF Listens, StartupAssumption
  <1> QED  BY <1>3, <1>4
\* Only the record of one process changes, and its port is kept or chosen.
LEMMA StepChosen ==
    ASSUME TypeOK, PortChosen, [Next]_vars
    PROVE  PortChosen'
  <1>1. ASSUME NEW p \in Proc, NEW d, Step(p, d),
               d.at \in {"off", "port"} \/ d.cfg.port \in Port
        PROVE  PortChosen'
    <2>1. \A q \in Proc : proc'[q] = IF q = p THEN d ELSE proc[q]
      BY <1>1 DEF TypeOK, Step
    <2> QED  BY <1>1, <2>1 DEF PortChosen
  <1>2. ASSUME NEW p \in Proc, Quit(p)  PROVE PortChosen'
    BY <1>1, <1>2 DEF Quit, Off
  <1>3. ASSUME NEW p \in Proc, Start(p)  PROVE PortChosen'
    BY <1>1, <1>3 DEF Start, Off
  <1>4. \A x \in FreePort : x \in Port
    BY DEF FreePort
  <1>5. ASSUME NEW p \in Proc, ChoosePort(p)  PROVE PortChosen'
    <2> DEFINE c == proc[p]
    <2>1. c \in Process /\ c.env \in Env
      BY TypeOfOne
    <2>2. CASE c.env.port # NoPort
      <3>1. [c EXCEPT !.at = "fwd", !.cfg.port = c.env.port].cfg.port = c.env.port
        BY <2>1 DEF Process, Config
      <3>2. c.env.port \in Port
        BY <2>1, <2>2 DEF Env, SomePort
      <3> QED  BY <1>1, <1>5, <2>2, <3>1, <3>2 DEF ChoosePort
    <2>3. ASSUME NEW x \in FreePort,
                 Step(p, [c EXCEPT !.at = "write", !.next = "fwd", !.env.port = x, !.cfg.port = x])
          PROVE  PortChosen'
      <3> DEFINE d == [c EXCEPT !.at = "write", !.next = "fwd", !.env.port = x, !.cfg.port = x]
      <3>1. d.cfg.port = x
        BY <2>1 DEF Process, Config
      <3> QED  BY <1>1, <1>4, <2>3, <3>1
    <2> QED  BY <1>5, <2>2, <2>3 DEF ChoosePort
  <1>6. ASSUME NEW p \in Proc, ChooseForward(p)  PROVE PortChosen'
    <2> DEFINE c == proc[p]
    <2>1. c \in Process /\ c.cfg.port \in Port
      BY <1>6, TypeOfOne DEF ChooseForward, PortChosen
    <2>2. ASSUME Step(p, [c EXCEPT !.at = "token", !.cfg.fwd = c.env.fwd])  PROVE PortChosen'
      <3> DEFINE d == [c EXCEPT !.at = "token", !.cfg.fwd = c.env.fwd]
      <3>1. d.cfg.port = c.cfg.port
        BY <2>1 DEF Process, Config
      <3> QED  BY <1>1, <2>1, <2>2, <3>1
    <2>3. ASSUME NEW x \in FreePort,
                 Step(p, [c EXCEPT !.at = "write", !.next = "token", !.env.fwd = x, !.cfg.fwd = x])
          PROVE  PortChosen'
      <3> DEFINE d == [c EXCEPT !.at = "write", !.next = "token", !.env.fwd = x, !.cfg.fwd = x]
      <3>1. d.cfg.port = c.cfg.port
        BY <2>1 DEF Process, Config
      <3> QED  BY <1>1, <2>1, <2>3, <3>1
    <2> QED  BY <1>2, <1>6, <2>2, <2>3 DEF ChooseForward
  <1>7. ASSUME NEW p \in Proc, ReadToken(p) \/ WriteToken(p)  PROVE PortChosen'
    <2> DEFINE c == proc[p]
               d == IF tokenFile = Nobody THEN [c EXCEPT !.at = "newtoken"]
                    ELSE [c EXCEPT !.at = "listen", !.cfg.token = tokenFile]
               e == [c EXCEPT !.at = "listen", !.cfg.token = p]
    <2>1. c \in Process /\ c.cfg.port \in Port
      BY <1>7, TypeOfOne DEF ReadToken, WriteToken, PortChosen
    <2>2. d.cfg.port = c.cfg.port /\ e.cfg.port = c.cfg.port
      BY <2>1 DEF Process, Config
    <2>3. Step(p, d) \/ Step(p, e)
      BY <1>7 DEF ReadToken, WriteToken
    <2> QED  BY <1>1, <2>1, <2>2, <2>3
  <1>8. ASSUME NEW p \in Proc, Reload(p) \/ Write(p) \/ Boot(p)  PROVE PortChosen'
    <2> DEFINE c == proc[p]
    <2>1. c \in Process /\ c.cfg.port \in Port
      BY <1>8, TypeOfOne DEF Reload, Write, Boot, PortChosen
    <2> DEFINE d == [c EXCEPT !.at = "write", !.env = Merge(envLocal, c.set), !.set = NoEnv]
               e == [c EXCEPT !.at = "rename"]
               f == [c EXCEPT !.at = "serve", !.next = "off"]
    <2>2. d.cfg = c.cfg /\ e.cfg = c.cfg /\ f.cfg = c.cfg
      BY <2>1 DEF Process
    <2>3. Step(p, d) \/ Step(p, e) \/ Step(p, f)
      BY <1>8 DEF Reload, Write, Boot
    <2> QED  BY <1>1, <2>1, <2>2, <2>3
  <1>9. ASSUME NEW p \in Proc, Rename(p)  PROVE PortChosen'
    <2> DEFINE c == proc[p]
               d == [c EXCEPT !.at = c.next, !.cfg.fwd = IF c.next = "serve" THEN c.env.fwd ELSE @]
               e == [c EXCEPT !.at = "serve"]
    <2>1. c \in Process /\ c.cfg.port \in Port
      BY <1>9, TypeOfOne DEF Rename, PortChosen
    <2>2. d.cfg.port = c.cfg.port /\ e.cfg.port = c.cfg.port
      BY <2>1 DEF Process, Config
    <2>3. Step(p, d) \/ Step(p, e) \/ Quit(p)
      BY <1>9 DEF Rename
    <2> QED  BY <1>1, <1>2, <2>1, <2>2, <2>3
  <1>10. ASSUME NEW p \in Proc, Listen(p)  PROVE PortChosen'
    <2> DEFINE c == proc[p]
    <2>1. c \in Process /\ c.cfg.port \in Port
      BY <1>10, TypeOfOne DEF Listen, PortChosen
    <2>2. ASSUME Step(p, [c EXCEPT !.at = "boot"])  PROVE PortChosen'
      <3>1. [c EXCEPT !.at = "boot"].cfg = c.cfg
        BY <2>1 DEF Process
      <3> QED  BY <1>1, <2>1, <2>2, <3>1
    <2>3. ASSUME NEW x \in FreePort,
                 Step(p, [c EXCEPT !.at = "reload", !.next = "boot",
                                   !.set.port = x, !.cfg.port = x])
          PROVE  PortChosen'
      <3> DEFINE d == [c EXCEPT !.at = "reload", !.next = "boot", !.set.port = x, !.cfg.port = x]
      <3>1. d.cfg.port = x
        BY <2>1 DEF Process, Config
      <3> QED  BY <1>1, <1>4, <2>3, <3>1
    <2> QED  BY <1>2, <1>10, <2>2, <2>3 DEF Listen
  <1>11. ASSUME NEW p \in Proc, MoveForward(p)  PROVE PortChosen'
    <2> DEFINE c == proc[p]
    <2>1. c \in Process /\ c.cfg.port \in Port
      BY <1>11, TypeOfOne DEF MoveForward, PortChosen
    <2>2. PICK x \in FreePort :
            Step(p, [c EXCEPT !.at = "reload", !.next = "serve", !.set.fwd = x])
      BY <1>11 DEF MoveForward
    <2> DEFINE d == [c EXCEPT !.at = "reload", !.next = "serve", !.set.fwd = x]
    <2>3. d.cfg = c.cfg
      BY <2>1 DEF Process
    <2> QED  BY <1>1, <2>1, <2>2, <2>3
  <1>12. ASSUME NEW p \in Proc, Crash(p)  PROVE PortChosen'
    BY <1>2, <1>12 DEF Crash
  <1>13. CASE \/ UNCHANGED vars
              \/ \E x \in Port : Take(x) \/ Release(x)
    BY <1>13 DEF vars, Take, Release, PortChosen
  <1> QED  BY <1>3, <1>5, <1>6, <1>7, <1>8, <1>9, <1>10, <1>11, <1>12, <1>13 DEF Next, Run

-----------------------------------------------------------------------------
(* What the others know                                                    *)

LEMMA StepOne ==
    ASSUME TypeOK, NEW p \in Proc, NEW d, Step(p, d)
    PROVE  proc'[p] = d /\ \A q \in Proc \ {p} : proc'[q] = proc[q]
  BY DEF TypeOK, Step

\* A process that is off claims nothing, whatever the files hold.
LEMMA OffKnows ==
    ASSUME NEW c, c.at = "off", c.next = "off", c.set = NoEnv
    PROVE  ReadsFile(c) /\ OwnsFile(c) /\ Writes(c)
  BY DEF ReadsFile, OwnsFile, Writes, Writing

\* Beside one that writes or listens, a process is off or serves; and one that
\* neither listens nor is busy is off.
LEMMA NotBusy ==
    ASSUME TypeOK, NEW q \in Proc, ~Busy(q)
    PROVE  /\ proc[q].at = "serve" \/ (proc[q].at = "off" /\ proc[q].next = "off")
           /\ ~Listens(q) => proc[q].at = "off" /\ proc[q].next = "off"
           /\ proc[q].at = "serve" => proc[q].next \in {"off", "serve"}
  <1>1. proc[q].next \in Route(proc[q].at) /\ proc[q].at \in {"off", "serve"}
    BY DEF TypeOK, Busy
  <1> QED  BY <1>1 DEF Route, Listens

\* What the others know stays true when the files stay.
LEMMA OthersKnow ==
    ASSUME NEW p \in Proc, \A q \in Proc : Knows(q),
           \A q \in Proc \ {p} : proc'[q] = proc[q],
           UNCHANGED <<envLocal, envTmp, tokenFile, runtime>>
    PROVE  \A q \in Proc \ {p} : Knows(q)'
  <1> SUFFICES ASSUME NEW q \in Proc \ {p} PROVE Knows(q)'
    OBVIOUS
  <1>1. proc'[q] = proc[q] /\ ReadsFile(proc[q]) /\ OwnsFile(proc[q]) /\ Writes(proc[q])
    BY DEF Knows
  <1>2. ReadsFile(proc[q])' /\ OwnsFile(proc[q])' /\ Writes(proc[q])'
    BY <1>1 DEF ReadsFile, OwnsFile, Writes, Writing, Own
  <1> QED  BY <1>2 DEF Knows

\* A step of one process that keeps the listeners.
LEMMA OneSteps ==
    ASSUME TypeOK, PortsHeld, QuietInv, NEW p \in Proc, NEW d, Step(p, d), UNCHANGED bound,
           Listens(p)' <=> Listens(p),
           Listens(p) => d.cfg.port = proc[p].cfg.port,
           Quiet' => Quiet,
           Quiet' /\ Busy(p)' => \A q \in Proc \ {p} : ~Busy(q),
           Quiet' /\ Orderly => FilesLoad' /\ \A q \in Proc : Knows(q)'
    PROVE  PortsHeld' /\ QuietInv'
  <1>1. proc'[p] = d /\ \A q \in Proc \ {p} : proc'[q] = proc[q]
    BY StepOne
  <1>2. PortsHeld'
    BY <1>1, SameListener
  <1>3. \A q \in Proc \ {p} : (Listens(q)' <=> Listens(q)) /\ (Busy(q)' <=> Busy(q))
    BY <1>1 DEF Listens, Busy
  <1>4. Quiet' => Orderly
    BY DEF QuietInv
  <1>5. Quiet' => Alone'
    <2> SUFFICES ASSUME Quiet', NEW q \in Proc, NEW r \in Proc, q # r
                 PROVE  ~(Busy(q) /\ Busy(r))' /\ ~(Listens(q) /\ Listens(r))'
      BY DEF Alone
    <2>1. ~(Busy(q) /\ Busy(r)) /\ ~(Listens(q) /\ Listens(r))
      BY <1>4 DEF Orderly, Alone
    <2>2. CASE q = p
      BY <1>3, <2>1, <2>2
    <2>3. CASE r = p
      BY <1>3, <2>1, <2>3
    <2>4. CASE q # p /\ r # p
      BY <1>3, <2>1, <2>4
    <2> QED  BY <2>2, <2>3, <2>4
  <1> QED  BY <1>2, <1>4, <1>5 DEF QuietInv, Orderly

\* The same for a step that leaves the files alone.
LEMMA LocalStep ==
    ASSUME TypeOK, PortsHeld, QuietInv, NEW p \in Proc, NEW d, Step(p, d),
           UNCHANGED <<envLocal, envTmp, tokenFile, runtime, bound>>,
           Listens(p)' <=> Listens(p),
           Listens(p) => d.cfg.port = proc[p].cfg.port,
           Quiet' => Quiet,
           Quiet' /\ Busy(p)' => \A q \in Proc \ {p} : ~Busy(q),
           Quiet' /\ Orderly => (ReadsFile(d) /\ OwnsFile(d) /\ Writes(d))
    PROVE  PortsHeld' /\ QuietInv'
  <1>1. proc'[p] = d /\ \A q \in Proc \ {p} : proc'[q] = proc[q]
    BY StepOne
  <1>2. ASSUME Quiet', Orderly  PROVE FilesLoad' /\ \A q \in Proc : Knows(q)'
    <2>1. FilesLoad'
      BY <1>2 DEF Orderly, FilesLoad
    <2>2. \A q \in Proc \ {p} : Knows(q)'
      BY <1>1, <1>2, OthersKnow DEF Orderly
    <2>3. Knows(p)'
      BY <1>1, <1>2 DEF Knows, ReadsFile, OwnsFile, Writes, Writing, Own
    <2> QED  BY <2>1, <2>2, <2>3
  <1> QED  BY <1>2, OneSteps

LEMMA QuitQuiet ==
    ASSUME TypeOK, StartupAssumption, PortsHeld, QuietInv, NEW p \in Proc, Quit(p),
           UNCHANGED <<envLocal, envTmp, tokenFile, runtime, overlap, unheard>>
    PROVE  PortsHeld' /\ QuietInv'
  <1>1. proc'[p] = Off /\ \A q \in Proc \ {p} : proc'[q] = proc[q]
    BY QuitType
  <1>2. PortsHeld'
    BY QuitHeld
  <1>3. ~Busy(p)' /\ ~Listens(p)'
    BY <1>1 DEF Busy, Listens, Off
  <1>4. \A q \in Proc \ {p} : (Listens(q)' <=> Listens(q)) /\ (Busy(q)' <=> Busy(q))
    BY <1>1 DEF Listens, Busy
  <1>5. ASSUME Orderly  PROVE Orderly'
    <2>1. Alone'
      BY <1>3, <1>4, <1>5 DEF Orderly, Alone
    <2>2. FilesLoad'
      BY <1>5 DEF Orderly, FilesLoad
    <2>3. \A q \in Proc \ {p} : Knows(q)'
      BY <1>1, <1>5, OthersKnow DEF Orderly
    <2>4. Knows(p)'
      BY <1>1 DEF Knows, Off, ReadsFile, OwnsFile, Writes, Writing
    <2> QED  BY <2>1, <2>2, <2>3, <2>4 DEF Orderly
  <1> QED  BY <1>2, <1>5 DEF QuietInv, Quiet
-----------------------------------------------------------------------------
(* LoadConfig                                                              *)

LEMMA StartSteps ==
    ASSUME TypeOK, PortsHeld, QuietInv, NEW p \in Proc, Start(p)
    PROVE  PortsHeld' /\ QuietInv'
  <1> DEFINE d == [Off EXCEPT !.at = "port", !.env = envLocal]
  <1>1. Step(p, d) /\ proc'[p] = d /\ proc[p] = Off
    BY StepOne DEF Start
  <1>2. d.at = "port" /\ d.next = "off" /\ d.env = envLocal /\ d.set = NoEnv
    BY DEF Off
  <1>3. ~Listens(p) /\ ~Listens(p)'
    BY <1>1, <1>2 DEF Listens, Off
  <1>4. (Quiet' => Quiet) /\ (Quiet' => \A q \in Proc \ {p} : ~Busy(q))
    BY DEF Start, Quiet, Overlaps
  <1>5. ReadsFile(d) /\ OwnsFile(d) /\ Writes(d)
    BY <1>2 DEF ReadsFile, OwnsFile, Writes, Writing
  <1> HIDE DEF d
  <1> QED  BY <1>1, <1>3, <1>4, <1>5, LocalStep DEF Start

\* A process that is busy already may go on.
LEMMA GoesOn ==
    ASSUME QuietInv, NEW p \in Proc, Busy(p), UNCHANGED <<overlap, unheard>>
    PROVE  /\ Quiet' => Quiet
           /\ Quiet' => \A q \in Proc \ {p} : ~Busy(q)
  BY DEF QuietInv, Orderly, Alone, Quiet

LEMMA ChoosePortSteps ==
    ASSUME TypeOK, StartupAssumption, PortsHeld, QuietInv, NEW p \in Proc, ChoosePort(p)
    PROVE  PortsHeld' /\ QuietInv'
  <1> DEFINE c == proc[p]
  <1>1. c \in Process /\ c.at = "port" /\ c.next = "off" /\ c.env \in Env
    BY TypeOfOne DEF ChoosePort, Route
  <1>2. (Quiet' => Quiet) /\ (Quiet' => \A q \in Proc \ {p} : ~Busy(q))
    BY <1>1, GoesOn DEF ChoosePort, Busy
  <1>3. Orderly => c.env = envLocal /\ FilesLoad /\ c.set = NoEnv
    BY <1>1 DEF Orderly, Knows, ReadsFile, Writes
  <1>4. ~Listens(p)
    BY <1>1 DEF Listens
  <1>5. CASE c.env.port # NoPort
    <2> DEFINE d == [c EXCEPT !.at = "fwd", !.cfg.port = c.env.port]
    <2>1. Step(p, d) /\ proc'[p] = d
      BY <1>5, StepOne DEF ChoosePort
    <2>2. /\ d.at = "fwd" /\ d.next = "off" /\ d.env = c.env /\ d.set = c.set
          /\ d.cfg.port = c.env.port
      BY <1>1 DEF Process, Config
    <2>3. Orderly => ReadsFile(d) /\ OwnsFile(d) /\ Writes(d)
      BY <1>3, <1>5, <2>2 DEF ReadsFile, OwnsFile, Writes, Writing
    <2>4. ~Listens(p)'
      BY <2>1, <2>2 DEF Listens
    <2> HIDE DEF d
    <2> QED  BY <1>2, <1>4, <2>1, <2>3, <2>4, LocalStep DEF ChoosePort
  <1>6. ASSUME NEW x \in FreePort, c.env.port = NoPort,
               Step(p, [c EXCEPT !.at = "write", !.next = "fwd", !.env.port = x, !.cfg.port = x])
        PROVE  PortsHeld' /\ QuietInv'
    <2> DEFINE d == [c EXCEPT !.at = "write", !.next = "fwd", !.env.port = x, !.cfg.port = x]
    <2>1. Step(p, d) /\ proc'[p] = d
      BY <1>6, StepOne
    <2>2. /\ d.at = "write" /\ d.next = "fwd" /\ d.set = c.set
          /\ d.env = [c.env EXCEPT !.port = x]
          /\ d.cfg.port = x
      BY <1>1 DEF Process, Config
    <2>3. d.env = [port |-> x, fwd |-> c.env.fwd]
      BY <1>1, <2>2 DEF Env
    <2>4. x # NoPort
      BY StartupAssumption DEF FreePort, StartupAssumption
    <2>5. Orderly => ReadsFile(d) /\ OwnsFile(d) /\ Writes(d)
      BY <1>3, <1>6, <2>2, <2>3, <2>4 DEF FilesLoad, ReadsFile, OwnsFile, Writes, Writing
    <2>6. ~Listens(p)'
      BY <2>1, <2>2 DEF Listens
    <2> HIDE DEF d
    <2> QED  BY <1>2, <1>4, <2>1, <2>5, <2>6, LocalStep DEF ChoosePort
  <1> QED  BY <1>5, <1>6 DEF ChoosePort

LEMMA ChooseForwardSteps ==
    ASSUME TypeOK, StartupAssumption, PortsHeld, QuietInv, NEW p \in Proc, ChooseForward(p)
    PROVE  PortsHeld' /\ QuietInv'
  <1> DEFINE c == proc[p]
  <1>1. /\ c \in Process /\ c.at = "fwd" /\ c.next \in {"off", "fwd"}
        /\ c.env \in Env /\ c.cfg.port \in SomePort
    BY TypeOfOne DEF ChooseForward, Route
  <1>2. (Quiet' => Quiet) /\ (Quiet' => \A q \in Proc \ {p} : ~Busy(q))
    BY <1>1, GoesOn DEF ChooseForward, Busy
  <1>3. Orderly => /\ c.env = envLocal /\ FilesLoad /\ c.set = NoEnv
                   /\ c.cfg.port = c.env.port /\ c.env.port # NoPort
    BY <1>1 DEF Orderly, Knows, ReadsFile, Writes
  <1>4. ~Listens(p)
    BY <1>1 DEF Listens
  <1>5. CASE /\ c.env.fwd \notin {NoPort, c.cfg.port}
             /\ Step(p, [c EXCEPT !.at = "token", !.cfg.fwd = c.env.fwd])
             /\ UNCHANGED bound
    <2> DEFINE d == [c EXCEPT !.at = "token", !.cfg.fwd = c.env.fwd]
    <2>1. Step(p, d) /\ proc'[p] = d
      BY <1>5, StepOne
    <2>2. /\ d.at = "token" /\ d.next = c.next /\ d.env = c.env /\ d.set = c.set
          /\ d.cfg.port = c.cfg.port /\ d.cfg.fwd = c.env.fwd
      BY <1>1 DEF Process, Config
    <2>3. c.env.fwd \in Port /\ c.env = [port |-> c.env.port, fwd |-> c.env.fwd]
      BY <1>1, <1>5 DEF Env, SomePort
    <2>4. Orderly => OwnsFile(d)
      BY <1>1, <1>3, <1>5, <2>2, <2>3 DEF OwnsFile, Own, SomePort
    <2>5. Orderly => ReadsFile(d) /\ Writes(d)
      BY <1>1, <1>3, <2>2 DEF ReadsFile, Writes, Writing
    <2>6. ~Listens(p)'
      BY <1>1, <2>1, <2>2 DEF Listens
    <2> HIDE DEF d
    <2> QED  BY <1>2, <1>4, <1>5, <2>1, <2>4, <2>5, <2>6, LocalStep DEF ChooseForward
  <1>6. CASE Quit(p)
    BY <1>6, QuitQuiet DEF ChooseForward
  <1>7. ASSUME NEW x \in FreePort \ {c.cfg.port}, c.env.fwd = NoPort, UNCHANGED bound,
               Step(p, [c EXCEPT !.at = "write", !.next = "token", !.env.fwd = x, !.cfg.fwd = x])
        PROVE  PortsHeld' /\ QuietInv'
    <2> DEFINE d == [c EXCEPT !.at = "write", !.next = "token", !.env.fwd = x, !.cfg.fwd = x]
    <2>1. Step(p, d) /\ proc'[p] = d
      BY <1>7, StepOne
    <2>2. /\ d.at = "write" /\ d.next = "token" /\ d.set = c.set
          /\ d.env = [c.env EXCEPT !.fwd = x]
          /\ d.cfg.port = c.cfg.port /\ d.cfg.fwd = x
      BY <1>1 DEF Process, Config
    <2>3. d.env = [port |-> c.env.port, fwd |-> x]
      BY <1>1, <2>2 DEF Env
    <2>4. x \in Port /\ x # c.cfg.port
      BY DEF FreePort
    <2>5. Orderly => Writes(d)
      BY <1>1, <1>3, <1>7, <2>2, <2>3, <2>4 DEF Writes, Writing, Own, SomePort
    <2>6. Orderly => ReadsFile(d) /\ OwnsFile(d)
      BY <2>2 DEF ReadsFile, OwnsFile
    <2>7. ~Listens(p)'
      BY <2>1, <2>2 DEF Listens
    <2> HIDE DEF d
    <2> QED  BY <1>2, <1>4, <1>7, <2>1, <2>5, <2>6, <2>7, LocalStep DEF ChooseForward
  <1> QED  BY <1>5, <1>6, <1>7 DEF ChooseForward
LEMMA ReadTokenSteps ==
    ASSUME TypeOK, StartupAssumption, PortsHeld, QuietInv, NEW p \in Proc, ReadToken(p)
    PROVE  PortsHeld' /\ QuietInv'
  <1> DEFINE c == proc[p]
             d == IF tokenFile = Nobody THEN [c EXCEPT !.at = "newtoken"]
                  ELSE [c EXCEPT !.at = "listen", !.cfg.token = tokenFile]
  <1>1. c \in Process /\ c.at = "token" /\ c.next \in {"off", "fwd", "token"}
    BY TypeOfOne DEF ReadToken, Route
  <1>2. (Quiet' => Quiet) /\ (Quiet' => \A q \in Proc \ {p} : ~Busy(q))
    BY <1>1, GoesOn DEF ReadToken, Busy
  <1>3. Step(p, d) /\ proc'[p] = d
    BY StepOne DEF ReadToken
  <1>4. /\ d.next = c.next /\ d.set = c.set
        /\ d.cfg.port = c.cfg.port /\ d.cfg.fwd = c.cfg.fwd
        /\ tokenFile = Nobody => d.at = "newtoken"
        /\ tokenFile # Nobody => d.at = "listen" /\ d.cfg.token = tokenFile
    BY <1>1 DEF Process, Config
  <1>5. tokenFile # Nobody => tokenFile \in Proc
    BY DEF TypeOK
  <1>6. ~Listens(p) /\ ~Listens(p)'
    BY <1>1, <1>3, <1>4 DEF Listens
  <1> HIDE DEF d
  <1>7. Orderly => /\ c.set = NoEnv /\ envLocal = Own(c)
                   /\ c.cfg.port \in Port /\ c.cfg.fwd \in Port /\ c.cfg.port # c.cfg.fwd
    BY <1>1 DEF Orderly, Knows, OwnsFile, Writes
  <1>8. Orderly => ReadsFile(d) /\ OwnsFile(d) /\ Writes(d)
    BY <1>1, <1>4, <1>5, <1>7 DEF ReadsFile, OwnsFile, Own, Writes, Writing
  <1> QED  BY <1>2, <1>3, <1>6, <1>8, LocalStep DEF ReadToken

LEMMA WriteTokenSteps ==
    ASSUME TypeOK, StartupAssumption, PortsHeld, QuietInv, NEW p \in Proc, WriteToken(p)
    PROVE  PortsHeld' /\ QuietInv'
  <1> DEFINE c == proc[p]
             d == [c EXCEPT !.at = "listen", !.cfg.token = p]
  <1>1. c \in Process /\ c.at = "newtoken" /\ c.next \in {"off", "fwd", "token"}
    BY TypeOfOne DEF WriteToken, Route
  <1>2. (Quiet' => Quiet) /\ (Quiet' => \A q \in Proc \ {p} : ~Busy(q))
    BY <1>1, GoesOn DEF WriteToken, Busy
  <1>3. Step(p, d) /\ proc'[p] = d /\ \A q \in Proc \ {p} : proc'[q] = proc[q]
    BY StepOne DEF WriteToken
  <1>4. /\ d.at = "listen" /\ d.next = c.next /\ d.set = c.set /\ d.cfg.token = p
        /\ d.cfg.port = c.cfg.port /\ d.cfg.fwd = c.cfg.fwd
    BY <1>1 DEF Process, Config
  <1>5. ~Listens(p) /\ ~Listens(p)'
    BY <1>1, <1>3, <1>4 DEF Listens
  <1> HIDE DEF d
  <1>6. ASSUME Quiet', Orderly  PROVE FilesLoad' /\ \A q \in Proc : Knows(q)'
    <2>1. /\ c.set = NoEnv /\ envLocal = Own(c) /\ tokenFile = Nobody
          /\ c.cfg.port \in Port /\ c.cfg.fwd \in Port /\ c.cfg.port # c.cfg.fwd
      BY <1>1, <1>6 DEF Orderly, Knows, ReadsFile, OwnsFile, Writes
    <2>2. Knows(p)'
      BY <1>1, <1>3, <1>4, <2>1 DEF Knows, ReadsFile, OwnsFile, Own, Writes, Writing, WriteToken
    <2>3. FilesLoad'
      BY <1>6 DEF Orderly, FilesLoad, WriteToken
    <2>4. ASSUME NEW q \in Proc \ {p}  PROVE Knows(q)'
      <3>1. ~Busy(q) /\ Knows(q)
        BY <1>2, <1>6 DEF Orderly
      <3>2. ~Listens(q)
        BY <2>1, <3>1, StartupAssumption DEF Knows, ReadsFile, Listens, StartupAssumption
      <3>3. proc[q].at = "off" /\ proc[q].next = "off" /\ proc[q].set = NoEnv
        BY <3>1, <3>2, NotBusy DEF Knows, Writes
      <3> QED  BY <1>3, <3>3 DEF Knows, ReadsFile, OwnsFile, Writes, Writing
    <2> QED  BY <2>2, <2>3, <2>4
  <1> QED  BY <1>2, <1>3, <1>5, <1>6, OneSteps DEF WriteToken

-----------------------------------------------------------------------------
(* persistEnv                                                              *)

LEMMA ReloadSteps ==
    ASSUME TypeOK, StartupAssumption, PortsHeld, QuietInv, NEW p \in Proc, Reload(p)
    PROVE  PortsHeld' /\ QuietInv'
  <1> DEFINE c == proc[p]
             e == Merge(envLocal, c.set)
             d == [c EXCEPT !.at = "write", !.env = e, !.set = NoEnv]
  <1>1. c \in Process /\ c.at = "reload" /\ c.next \in {"boot", "serve"} /\ c.set \in Env
    BY TypeOfOne DEF Reload, Route
  <1>2. (Quiet' => Quiet) /\ (Quiet' => \A q \in Proc \ {p} : ~Busy(q))
    BY <1>1, GoesOn DEF Reload, Busy
  <1>3. Step(p, d) /\ proc'[p] = d
    BY StepOne DEF Reload
  <1>4. /\ e \in Env
        /\ e.port = IF c.set.port = NoPort THEN envLocal.port ELSE c.set.port
        /\ e.fwd = IF c.set.fwd = NoPort THEN envLocal.fwd ELSE c.set.fwd
    BY <1>1, MergeType DEF TypeOK
  <1> HIDE DEF e
  <1>5. /\ d.at = "write" /\ d.next = c.next /\ d.set = NoEnv /\ d.env = e /\ d.cfg = c.cfg
    BY <1>1 DEF Process
  <1>6. Listens(p) /\ Listens(p)'
    BY <1>1, <1>3, <1>5 DEF Listens
  <1> HIDE DEF d
  <1>7. e = [port |-> e.port, fwd |-> e.fwd]
    BY <1>4 DEF Env
  <1>8. Orderly => /\ tokenFile \in Proc /\ tokenFile = c.cfg.token
                   /\ c.cfg.port \in Port /\ c.cfg.fwd \in Port /\ c.cfg.port # c.cfg.fwd
                   /\ c.next = "serve" => envLocal = Own(c) /\ runtime = c.cfg.port
    BY <1>1 DEF Orderly, Knows, ReadsFile, OwnsFile
  <1>9. Orderly /\ c.next = "boot" => e = Own(c)
    <2>1. Orderly /\ c.next = "boot" =>
            c.set = [port |-> c.cfg.port, fwd |-> NoPort] /\ envLocal.fwd = c.cfg.fwd
      BY <1>1 DEF Orderly, Knows, Writes
    <2> QED  BY <1>4, <1>7, <1>8, <2>1, StartupAssumption DEF Own, StartupAssumption
  <1>10. Orderly /\ c.next = "serve" => e.port = c.cfg.port /\ e.fwd \in Port \ {c.cfg.port}
    <2>1. Orderly /\ c.next = "serve" =>
            c.set.port = NoPort /\ c.set.fwd \in Port \ {c.cfg.port}
      BY <1>1 DEF Orderly, Knows, Writes
    <2> QED  BY <1>4, <1>8, <2>1, StartupAssumption DEF Own, StartupAssumption
  <1>11. Orderly => ReadsFile(d)
    BY <1>1, <1>5, <1>8 DEF ReadsFile
  <1>12. Orderly => OwnsFile(d)
    BY <1>1, <1>5, <1>8 DEF OwnsFile, Own
  <1>13. Orderly => Writes(d)
    BY <1>1, <1>5, <1>9, <1>10 DEF Writes, Writing, Own
  <1>14. d.cfg.port = c.cfg.port
    BY <1>5
  <1> QED  BY <1>2, <1>3, <1>6, <1>11, <1>12, <1>13, <1>14, LocalStep DEF Reload

LEMMA WriteSteps ==
    ASSUME TypeOK, StartupAssumption, PortsHeld, QuietInv, NEW p \in Proc, Write(p)
    PROVE  PortsHeld' /\ QuietInv'
  <1> DEFINE c == proc[p]
             d == [c EXCEPT !.at = "rename"]
  <1>1. c \in Process /\ c.at = "write" /\ c.next \in {"fwd", "token", "boot", "serve"}
    BY TypeOfOne DEF Write, Route
  <1>2. (Quiet' => Quiet) /\ (Quiet' => \A q \in Proc \ {p} : ~Busy(q))
    BY <1>1, GoesOn DEF Write, Busy
  <1>3. Step(p, d) /\ proc'[p] = d /\ \A q \in Proc \ {p} : proc'[q] = proc[q]
    BY StepOne DEF Write
  <1>4. /\ d.at = "rename" /\ d.next = c.next /\ d.set = c.set /\ d.env = c.env
        /\ d.cfg = c.cfg
    BY <1>1 DEF Process
  <1>5. (Listens(p)' <=> Listens(p)) /\ d.cfg.port = c.cfg.port
    BY <1>1, <1>3, <1>4 DEF Listens
  <1> HIDE DEF d
  <1>6. ASSUME Quiet', Orderly  PROVE FilesLoad' /\ \A q \in Proc : Knows(q)'
    <2>1. ReadsFile(c) /\ OwnsFile(c) /\ Writes(c)
      BY <1>6 DEF Orderly, Knows
    <2>2. Knows(p)'
      BY <1>1, <1>3, <1>4, <2>1 DEF Knows, ReadsFile, OwnsFile, Own, Writes, Writing, Write
    <2>3. c.env.port # NoPort /\ c.env.port # c.env.fwd
      BY <1>1, <2>1, StartupAssumption
        DEF OwnsFile, Own, Writes, Writing, StartupAssumption
    <2>4. FilesLoad'
      BY <1>6, <2>3 DEF Orderly, FilesLoad, Write
    <2>5. ASSUME NEW q \in Proc \ {p}  PROVE Knows(q)'
      <3>1. proc[q].at \in {"off", "serve"} /\ Knows(q)
        BY <1>2, <1>6, NotBusy DEF Orderly
      <3> QED  BY <1>3, <3>1 DEF Knows, ReadsFile, OwnsFile, Own, Writes, Writing, Write
    <2> QED  BY <2>2, <2>4, <2>5
  <1> QED  BY <1>2, <1>3, <1>5, <1>6, OneSteps DEF Write
LEMMA RenameSteps ==
    ASSUME TypeOK, StartupAssumption, PortsHeld, QuietInv, NEW p \in Proc, Rename(p)
    PROVE  PortsHeld' /\ QuietInv'
  <1> DEFINE c == proc[p]
  <1>1. /\ c \in Process /\ c.at = "rename" /\ c.next \in {"fwd", "token", "boot", "serve"}
        /\ c.env \in Env
    BY TypeOfOne DEF Rename, Route
  <1>2. (Quiet' => Quiet) /\ (Quiet' => \A q \in Proc \ {p} : ~Busy(q))
    BY <1>1, GoesOn DEF Rename, Busy
  <1>3. Orderly => ReadsFile(c) /\ OwnsFile(c) /\ Writes(c) /\ FilesLoad
    BY DEF Orderly, Knows
  <1>4. CASE envTmp # Nobody
    <2> DEFINE d == [c EXCEPT !.at = c.next, !.cfg.fwd = IF c.next = "serve" THEN c.env.fwd ELSE @]
    <2>1. Step(p, d) /\ proc'[p] = d /\ \A q \in Proc \ {p} : proc'[q] = proc[q]
      BY <1>4, StepOne DEF Rename
    <2>2. /\ d.at = c.next /\ d.next = c.next /\ d.set = c.set /\ d.env = c.env
          /\ d.cfg.port = c.cfg.port /\ d.cfg.token = c.cfg.token
          /\ d.cfg.fwd = IF c.next = "serve" THEN c.env.fwd ELSE c.cfg.fwd
      BY <1>1 DEF Process, Config
    <2>3. Listens(p)' <=> Listens(p)
      BY <1>1, <2>1, <2>2 DEF Listens
    <2> HIDE DEF d
    <2>4. ASSUME Quiet', Orderly  PROVE FilesLoad' /\ \A q \in Proc : Knows(q)'
      <3>1. envLocal' = c.env /\ envTmp' = Nobody /\ UNCHANGED <<tokenFile, runtime>>
        BY <1>1, <1>3, <1>4, <2>4 DEF Rename, Writes
      <3>2. FilesLoad'
        BY <1>3, <1>4, <2>4 DEF FilesLoad, Rename
      <3>3. c.env = [port |-> c.env.port, fwd |-> c.env.fwd]
        BY <1>1 DEF Env
      <3>4. /\ proc'[p].at = c.next /\ proc'[p].next = c.next
            /\ proc'[p].set = c.set /\ proc'[p].env = c.env
            /\ proc'[p].cfg.port = c.cfg.port /\ proc'[p].cfg.token = c.cfg.token
            /\ c.next # "serve" => proc'[p].cfg.fwd = c.cfg.fwd
            /\ c.next = "serve" => proc'[p].cfg.fwd = c.env.fwd
        BY <2>1, <2>2
      <3>5. ReadsFile(proc[p])'
        BY <1>1, <1>3, <2>4, <3>1, <3>4 DEF ReadsFile, Writes, Writing
      <3>6. OwnsFile(proc[p])'
        <4>1. CASE c.next = "fwd"
          BY <3>4, <4>1 DEF OwnsFile
        <4>2. CASE c.next \in {"token", "boot"}
          BY <1>1, <1>3, <2>4, <3>1, <3>4, <4>2 DEF OwnsFile, Own, Writes, Writing
        <4>3. CASE c.next = "serve"
          <5>1. /\ c.env.port = c.cfg.port /\ c.env.fwd \in Port \ {c.cfg.port}
                /\ c.cfg.port \in Port /\ runtime = c.cfg.port
            BY <1>1, <1>3, <2>4, <4>3 DEF OwnsFile, Writes, Writing
          <5> QED  BY <3>1, <3>3, <3>4, <4>3, <5>1 DEF OwnsFile, Own
        <4> QED  BY <1>1, <4>1, <4>2, <4>3
      <3>7. Knows(p)'
        <4>1. c.set = NoEnv
          BY <1>1, <1>3, <2>4 DEF Writes
        <4>2. Writes(proc[p])'
          BY <1>1, <3>4, <4>1 DEF Writes, Writing
        <4> QED  BY <3>5, <3>6, <4>2 DEF Knows
      <3>8. ASSUME NEW q \in Proc \ {p}  PROVE Knows(q)'
        <4>1. ~Busy(q) /\ Knows(q)
          BY <1>2, <2>4 DEF Orderly
        <4>2. CASE Listens(q)
          <5>1. proc[q].at = "serve"
            BY <4>1, <4>2, NotBusy DEF Listens
          <5>2. envLocal = Own(proc[q]) /\ proc[q].cfg.port \in Port /\ proc[q].cfg.fwd \in Port
            BY <4>1, <5>1 DEF Knows, OwnsFile
          <5>3. envLocal.port # NoPort /\ envLocal.fwd # NoPort
            BY <5>2, StartupAssumption DEF Own, StartupAssumption
          <5>4. c.next \in {"boot", "serve"}
            BY <1>1, <1>3, <2>4, <5>3 DEF Writes, Writing
          <5>5. Listens(p)
            BY <5>4 DEF Listens
          <5> QED  BY <2>4, <4>2, <5>5 DEF Orderly, Alone
        <4>3. CASE ~Listens(q)
          <5>1. proc[q].at = "off" /\ proc[q].next = "off" /\ proc[q].set = NoEnv
            BY <4>1, <4>3, NotBusy DEF Knows, Writes
          <5> QED  BY <2>1, <5>1 DEF Knows, ReadsFile, OwnsFile, Writes, Writing
        <4> QED  BY <4>2, <4>3
      <3> QED  BY <3>2, <3>7, <3>8
    <2> QED  BY <1>2, <1>4, <2>1, <2>2, <2>3, <2>4, OneSteps DEF Rename
  <1>5. CASE envTmp = Nobody /\ c.next = "serve"
    <2> DEFINE d == [c EXCEPT !.at = "serve"]
    <2>1. Step(p, d) /\ proc'[p] = d
      BY <1>5, StepOne DEF Rename
    <2>2. /\ d.at = "serve" /\ d.next = "serve" /\ d.set = c.set /\ d.cfg = c.cfg
      BY <1>1, <1>5 DEF Process
    <2>3. Listens(p) /\ Listens(p)'
      BY <1>1, <1>5, <2>1, <2>2 DEF Listens
    <2> HIDE DEF d
    <2>4. Orderly => ReadsFile(d) /\ OwnsFile(d) /\ Writes(d)
      BY <1>1, <1>3, <1>5, <2>2 DEF ReadsFile, OwnsFile, Own, Writes, Writing
    <2> QED  BY <1>2, <1>5, <2>1, <2>2, <2>3, <2>4, LocalStep DEF Rename
  <1>6. CASE envTmp = Nobody /\ c.next # "serve"
    BY <1>6, QuitQuiet DEF Rename
  <1> QED  BY <1>4, <1>5, <1>6

-----------------------------------------------------------------------------
(* Run                                                                     *)

\* Next to a process about to listen, one that listens serves with the same
\* settings, so it holds the port and answers the probe.
LEMMA Answers ==
    ASSUME TypeOK, PortsHeld, Orderly, NEW p \in Proc, NEW q \in Proc \ {p},
           proc[p].at = "listen", Listens(q)
    PROVE  /\ bound[proc[p].cfg.port] = q
           /\ Responds(q, proc[p].cfg.token)
  <1>1. ~Busy(q)
    BY DEF Orderly, Alone, Busy
  <1>2. proc[q].at = "serve"
    BY <1>1, NotBusy DEF Listens
  <1>3. Own(proc[p]) = Own(proc[q]) /\ proc[p].cfg.port \in Port
    BY <1>2 DEF Orderly, Knows, OwnsFile
  <1>4. proc[p].cfg.port = proc[q].cfg.port
    BY <1>3 DEF Own
  <1>5. proc[p].cfg.token = proc[q].cfg.token
    BY <1>2 DEF Orderly, Knows, ReadsFile
  <1> QED  BY <1>2, <1>3, <1>4, <1>5 DEF PortsHeld, Responds

\* A process that listens from now on, and is the only one.
LEMMA ListenAlone ==
    ASSUME NEW p \in Proc, Alone, \A q \in Proc \ {p} : proc'[q] = proc[q],
           Busy(p), \A q \in Proc \ {p} : ~Listens(q)
    PROVE  Alone'
  <1> SUFFICES ASSUME NEW q \in Proc, NEW r \in Proc, q # r
               PROVE  ~(Busy(q) /\ Busy(r))' /\ ~(Listens(q) /\ Listens(r))'
    BY DEF Alone
  <1>1. CASE q # p
    <2>1. ~Listens(q)' /\ ~Busy(q)'
      BY <1>1 DEF Listens, Busy, Alone
    <2> QED  BY <2>1
  <1>2. CASE r # p
    <2>1. ~Listens(r)' /\ ~Busy(r)'
      BY <1>2 DEF Listens, Busy, Alone
    <2> QED  BY <2>1
  <1> QED  BY <1>1, <1>2

LEMMA ListenSteps ==
    ASSUME TypeOK, StartupAssumption, PortChosen, PortsHeld, QuietInv, NEW p \in Proc, Listen(p)
    PROVE  PortsHeld' /\ QuietInv'
  <1> DEFINE c == proc[p]
             owner == bound[c.cfg.port]
             answers == Responds(owner, c.cfg.token)
  <1>1. /\ c \in Process /\ c.at = "listen" /\ c.next \in {"off", "fwd", "token"}
        /\ c.env \in Env /\ c.set \in Env
    BY TypeOfOne DEF Listen, Route
  <1>2. ~Listens(p) /\ Busy(p)
    BY <1>1 DEF Listens, Busy
  <1>3. Orderly => /\ tokenFile \in Proc /\ tokenFile = c.cfg.token
                   /\ envLocal = Own(c) /\ c.set = NoEnv
                   /\ c.cfg.port \in Port /\ c.cfg.fwd \in Port /\ c.cfg.port # c.cfg.fwd
    BY <1>1 DEF Orderly, Knows, ReadsFile, OwnsFile, Writes
  <1>4. ASSUME NEW d, NEW x \in Port, bound[x] = Nobody, bound' = [bound EXCEPT ![x] = p],
               Step(p, d), d.at = "boot" \/ d.next = "boot", d.cfg.port = x,
               Quiet' => Quiet,
               Quiet' => ~answers,
               Orderly => ReadsFile(d) /\ OwnsFile(d) /\ Writes(d)
        PROVE  PortsHeld' /\ QuietInv'
    <2>1. proc'[p] = d /\ \A q \in Proc \ {p} : proc'[q] = proc[q]
      BY <1>4, StepOne
    <2>2. Listens(p)'
      BY <1>4, <2>1 DEF Listens
    <2>3. PortsHeld'
      BY <1>2, <1>4, <2>1, <2>2, BindHeld
    <2>4. ASSUME Quiet'  PROVE Orderly'
      <3>1. Orderly
        BY <1>4, <2>4 DEF QuietInv
      <3>2. \A q \in Proc \ {p} : ~Listens(q)
        BY <1>1, <1>4, <2>4, <3>1, Answers
      <3>3. Alone'
        BY <1>2, <2>1, <3>1, <3>2, ListenAlone DEF Orderly
      <3>4. UNCHANGED <<envLocal, envTmp, tokenFile, runtime>>
        BY DEF Listen
      <3>5. FilesLoad'
        BY <3>1, <3>4 DEF Orderly, FilesLoad
      <3>6. \A q \in Proc \ {p} : Knows(q)'
        BY <2>1, <3>1, <3>4, OthersKnow DEF Orderly
      <3>7. Knows(p)'
        BY <1>4, <2>1, <3>1, <3>4 DEF Knows, ReadsFile, OwnsFile, Own, Writes, Writing
      <3> QED  BY <3>3, <3>5, <3>6, <3>7 DEF Orderly
    <2> QED  BY <2>3, <2>4 DEF QuietInv
  <1>5. CASE /\ owner = Nobody
             /\ Step(p, [c EXCEPT !.at = "boot"])
             /\ bound' = [bound EXCEPT ![c.cfg.port] = p]
             /\ UNCHANGED unheard
    <2> DEFINE d == [c EXCEPT !.at = "boot"]
    <2>1. /\ d.at = "boot" /\ d.next = c.next /\ d.set = c.set /\ d.env = c.env /\ d.cfg = c.cfg
      BY <1>1 DEF Process
    <2> HIDE DEF d
    <2>2. Orderly => ReadsFile(d) /\ OwnsFile(d) /\ Writes(d)
      BY <1>1, <1>3, <2>1 DEF ReadsFile, OwnsFile, Own, Writes, Writing
    <2>3. ~answers /\ (Quiet' => Quiet)
      BY <1>5, StartupAssumption DEF Responds, StartupAssumption, Listen, Quiet
    <2>4. c.cfg.port \in Port
      BY <1>1 DEF PortChosen
    <2> QED  BY <1>4, <1>5, <2>1, <2>2, <2>3, <2>4 DEF d
  <1>6. CASE Quit(p) /\ UNCHANGED unheard
    BY <1>6, QuitQuiet DEF Listen
  <1>7. ASSUME NEW x \in FreePort \ {c.cfg.fwd}, owner # Nobody,
               bound' = [bound EXCEPT ![x] = p],
               Step(p, [c EXCEPT !.at = "reload", !.next = "boot",
                                 !.set.port = x, !.cfg.port = x]),
               unheard' = (unheard \/ answers)
        PROVE  PortsHeld' /\ QuietInv'
    <2> DEFINE d == [c EXCEPT !.at = "reload", !.next = "boot", !.set.port = x, !.cfg.port = x]
    <2>1. /\ d.at = "reload" /\ d.next = "boot" /\ d.set = [c.set EXCEPT !.port = x]
          /\ d.cfg.port = x /\ d.cfg.fwd = c.cfg.fwd /\ d.cfg.token = c.cfg.token
      BY <1>1 DEF Process, Config
    <2>2. d.set = [port |-> x, fwd |-> c.set.fwd]
      BY <1>1, <2>1 DEF Env
    <2>3. x \in Port /\ bound[x] = Nobody
      BY DEF FreePort
    <2> HIDE DEF d
    <2>4. Orderly => ReadsFile(d) /\ OwnsFile(d)
      BY <1>1, <1>3, <2>1, <2>3 DEF ReadsFile, OwnsFile, Own
    <2>5. Orderly => d.set = [port |-> d.cfg.port, fwd |-> NoPort] /\ envLocal.fwd = d.cfg.fwd
      BY <1>3, <2>1, <2>2 DEF NoEnv, Own
    <2>6. Orderly => Writes(d)
      BY <2>1, <2>5 DEF Writes, Writing
    <2>7. (Quiet' => ~answers) /\ (Quiet' => Quiet)
      BY <1>7 DEF Listen, Quiet
    <2> QED  BY <1>4, <1>7, <2>1, <2>3, <2>4, <2>6, <2>7 DEF d
  <1> QED  BY <1>5, <1>6, <1>7 DEF Listen
LEMMA BootSteps ==
    ASSUME TypeOK, StartupAssumption, PortsHeld, QuietInv, NEW p \in Proc, Boot(p)
    PROVE  PortsHeld' /\ QuietInv'
  <1> DEFINE c == proc[p]
             d == [c EXCEPT !.at = "serve", !.next = "off"]
  <1>1. c \in Process /\ c.at = "boot"
    BY TypeOfOne DEF Boot
  <1>2. (Quiet' => Quiet) /\ (Quiet' => \A q \in Proc \ {p} : ~Busy(q))
    BY <1>1, GoesOn DEF Boot, Busy
  <1>3. Step(p, d) /\ proc'[p] = d /\ \A q \in Proc \ {p} : proc'[q] = proc[q]
    BY StepOne DEF Boot
  <1>4. d.at = "serve" /\ d.next = "off" /\ d.set = c.set /\ d.cfg = c.cfg
    BY <1>1 DEF Process
  <1>5. Listens(p) /\ Listens(p)' /\ d.cfg.port = c.cfg.port
    BY <1>1, <1>3, <1>4 DEF Listens
  <1> HIDE DEF d
  <1>6. ASSUME Quiet', Orderly  PROVE FilesLoad' /\ \A q \in Proc : Knows(q)'
    <2>1. FilesLoad'
      BY <1>6 DEF Orderly, FilesLoad, Boot
    <2>2. ReadsFile(c) /\ OwnsFile(c) /\ Writes(c)
      BY <1>6 DEF Orderly, Knows
    <2>3. Knows(p)'
      BY <1>1, <1>3, <1>4, <2>2 DEF Knows, ReadsFile, OwnsFile, Own, Writes, Writing, Boot
    <2>4. ASSUME NEW q \in Proc \ {p}  PROVE Knows(q)'
      <3>1. ~Busy(q) /\ ~Listens(q) /\ Knows(q)
        BY <1>2, <1>5, <1>6 DEF Orderly, Alone
      <3>2. proc[q].at = "off" /\ proc[q].next = "off" /\ proc[q].set = NoEnv
        BY <3>1, NotBusy DEF Knows, Writes
      <3> QED  BY <1>3, <3>2 DEF Knows, ReadsFile, OwnsFile, Writes, Writing
    <2> QED  BY <2>1, <2>3, <2>4
  <1> QED  BY <1>2, <1>3, <1>5, <1>6, OneSteps DEF Boot

LEMMA MoveForwardSteps ==
    ASSUME TypeOK, StartupAssumption, PortsHeld, QuietInv, NEW p \in Proc, MoveForward(p)
    PROVE  PortsHeld' /\ QuietInv'
  <1> DEFINE c == proc[p]
  <1>1. c \in Process /\ c.at = "serve" /\ c.set \in Env
    BY TypeOfOne DEF MoveForward
  <1>2. PICK x \in FreePort \ {c.cfg.port} :
          Step(p, [c EXCEPT !.at = "reload", !.next = "serve", !.set.fwd = x])
    BY DEF MoveForward
  <1> DEFINE d == [c EXCEPT !.at = "reload", !.next = "serve", !.set.fwd = x]
  <1>3. proc'[p] = d
    BY <1>2, StepOne
  <1>4. /\ d.at = "reload" /\ d.next = "serve" /\ d.cfg = c.cfg
        /\ d.set = [c.set EXCEPT !.fwd = x]
    BY <1>1 DEF Process
  <1>5. d.set = [port |-> c.set.port, fwd |-> x]
    BY <1>1, <1>4 DEF Env
  <1>6. x \in Port
    BY DEF FreePort
  <1>7. Listens(p) /\ Listens(p)' /\ d.cfg.port = c.cfg.port
    BY <1>1, <1>3, <1>4 DEF Listens
  <1> HIDE DEF d
  <1>8. (Quiet' => Quiet) /\ (Quiet' => \A q \in Proc \ {p} : ~Busy(q))
    BY DEF MoveForward, Quiet, Overlaps
  <1>9. Orderly => ReadsFile(c) /\ OwnsFile(c) /\ c.set = NoEnv
    BY <1>1 DEF Orderly, Knows, Writes
  <1>10. Orderly => ReadsFile(d) /\ OwnsFile(d)
    BY <1>1, <1>4, <1>9 DEF ReadsFile, OwnsFile, Own
  <1>11. Orderly => Writes(d)
    BY <1>4, <1>5, <1>6, <1>9 DEF Writes, Writing, NoEnv
  <1>12. Step(p, d)
    BY <1>2 DEF d
  <1> QED  BY <1>7, <1>8, <1>10, <1>11, <1>12, LocalStep DEF MoveForward

LEMMA OthersSteps ==
    ASSUME TypeOK, StartupAssumption, PortsHeld, QuietInv, NEW x \in Port, Take(x) \/ Release(x)
    PROVE  PortsHeld' /\ QuietInv'
  <1>1. UNCHANGED <<proc, envLocal, envTmp, tokenFile, runtime, overlap, unheard>>
    BY DEF Take, Release
  <1>2. \A y \in Port, q \in Proc : bound'[y] = q <=> bound[y] = q
    BY DEF TypeOK, Take, Release, StartupAssumption
  <1>3. PortsHeld'
    BY <1>1, <1>2 DEF PortsHeld, Listens
  <1>4. QuietInv'
    BY <1>1 DEF QuietInv, Quiet, Orderly, Alone, Busy, Listens, FilesLoad, Knows, ReadsFile,
                OwnsFile, Own, Writes, Writing
  <1> QED  BY <1>3, <1>4

-----------------------------------------------------------------------------
(* The invariant and the properties                                        *)

LEMMA InitIInv == Init /\ StartupAssumption => IInv
  <1> SUFFICES ASSUME Init, StartupAssumption PROVE IInv
    OBVIOUS
  <1>1. \A p \in Proc : /\ proc[p].at = "off" /\ proc[p].next = "off"
                        /\ proc[p].set = NoEnv
    BY DEF Init, Off
  <1>2. \A p \in Proc : Knows(p)
    BY <1>1, OffKnows DEF Knows
  <1>3. Alone /\ PortsHeld /\ PortChosen
    BY <1>1 DEF Alone, Busy, Listens, PortsHeld, PortChosen, Init, StartupAssumption
  <1>4. FilesLoad
    BY DEF FilesLoad, Init, NoEnv
  <1> QED  BY <1>2, <1>3, <1>4, InitType DEF IInv, QuietInv, Orderly

LEMMA StepIInv == IInv /\ StartupAssumption /\ [Next]_vars => IInv'
  <1> SUFFICES ASSUME IInv, StartupAssumption, [Next]_vars PROVE IInv'
    OBVIOUS
  <1>1. TypeOK /\ PortChosen /\ PortsHeld /\ QuietInv
    BY DEF IInv
  <1>2. TypeOK' /\ PortChosen'
    BY <1>1, StepType, StepChosen
  <1>3. CASE UNCHANGED vars
    <2>1. PortsHeld'
      BY <1>1, <1>3 DEF vars, PortsHeld, Listens
    <2>2. QuietInv'
      BY <1>1, <1>3 DEF vars, QuietInv, Quiet, Orderly, Alone, Busy, Listens, FilesLoad, Knows,
                        ReadsFile, OwnsFile, Own, Writes, Writing
    <2> QED  BY <1>2, <2>1, <2>2 DEF IInv
  <1>4. ASSUME NEW p \in Proc, Start(p) \/ Run(p) \/ MoveForward(p) \/ Crash(p)
        PROVE  PortsHeld' /\ QuietInv'
    <2>1. CASE Run(p)
      BY <1>1, <2>1, ChoosePortSteps, ChooseForwardSteps, ReadTokenSteps, WriteTokenSteps,
         ReloadSteps, WriteSteps, RenameSteps, ListenSteps, BootSteps DEF Run
    <2>2. CASE Crash(p)
      BY <1>1, <2>2, QuitQuiet DEF Crash
    <2> QED  BY <1>1, <1>4, <2>1, <2>2, StartSteps, MoveForwardSteps
  <1>5. ASSUME NEW x \in Port, Take(x) \/ Release(x)  PROVE PortsHeld' /\ QuietInv'
    BY <1>1, <1>5, OthersSteps
  <1> QED  BY <1>2, <1>3, <1>4, <1>5 DEF Next, IInv

LEMMA IInvHolds == Spec => []IInv
  BY InitIInv, StepIInv, StartupAssumption, PTL DEF Spec

\* One process listens for the instance, however often it is started and
\* killed: two that listen would hold two ports, and Alone excludes them.
THEOREM StartupOneServer == Spec => []OneServer
  <1>1. IInv => OneServer
    <2> SUFFICES ASSUME IInv, ~overlap, ~unheard, NEW x \in Port, NEW y \in Port,
                        bound[x] \in Proc, bound[y] \in Proc
                 PROVE  bound[x] = bound[y]
      BY DEF OneServer
    <2>1. Listens(bound[x]) /\ Listens(bound[y])
      BY DEF IInv, PortsHeld
    <2> QED  BY <2>1 DEF IInv, QuietInv, Quiet, Orderly, Alone
  <1> QED  BY <1>1, IInvHolds, PTL

\* The settings on disk, and those about to replace them, can be loaded.
THEOREM StartupNextLoads == Spec => []NextStartLoads
  <1>1. IInv => NextStartLoads
    BY DEF IInv, QuietInv, Quiet, Orderly, FilesLoad, NextStartLoads
  <1> QED  BY <1>1, IInvHolds, PTL

\* runtime.json, the token file and .env.local name the server that serves.
THEOREM StartupFilesTell == Spec => []FilesTell
  <1>1. IInv => FilesTell
    <2> SUFFICES ASSUME IInv, NEW p \in Proc, proc[p].at = "serve", ~overlap, ~unheard
                 PROVE  /\ runtime = proc[p].cfg.port
                        /\ tokenFile = proc[p].cfg.token
                        /\ envLocal = [port |-> proc[p].cfg.port, fwd |-> proc[p].cfg.fwd]
      BY DEF FilesTell
    <2>1. ReadsFile(proc[p]) /\ OwnsFile(proc[p])
      BY DEF IInv, QuietInv, Quiet, Orderly, Knows
    <2> QED  BY <2>1 DEF ReadsFile, OwnsFile, Own
  <1> QED  BY <1>1, IInvHolds, PTL
=============================================================================
