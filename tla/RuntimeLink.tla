----------------------------- MODULE RuntimeLink -----------------------------
(***************************************************************************)
(* The web server's hold on the runtime process: the manager that starts,  *)
(* watches, restarts and stops it (webserver/runtimemanager.py), and the   *)
(* client of its command socket that every request thread shares           *)
(* (webserver/unixclient.py).                                              *)
(*                                                                         *)
(* Processes are numbered in the order they are started; a connection has  *)
(* the number of the process at its other end.  The monitor opens and      *)
(* closes the connection without the mutex under which the callers use it. *)
(* The 30 s of the crash window pass in ForgetCrash, every deadline may    *)
(* pass at any time.                                                       *)
(***************************************************************************)
EXTENDS Integers, Sequences

CONSTANTS Callers,     \* threads that send commands
          MaxRapid,    \* MAX_RAPID_CRASHES
          MaxGen,      \* bound: processes started
          MaxLate,     \* bound: late answers left on one connection
          MaxRestarts  \* bound: restarts of the web server

NoOne == "no one"
Late == "late"     \* the answer to a command whose caller has given up

ASSUME LinkAssumption ==
    /\ MaxRapid \in Nat \ {0}
    /\ MaxGen \in Nat \ {0}
    /\ MaxLate \in Nat
    /\ MaxRestarts \in Nat
    /\ NoOne \notin Callers /\ Late \notin Callers

VARIABLES
    mgr,       \* the manager: "off", "up", "joining", "killing", "closing", "ended"
    proc,      \* the last process started: its number, state, mode, and whether
               \* this web server started it (only then has it an exit code)
    mon,       \* the monitor thread: step, and the mode it will restart in
    crashes,   \* _crash_times: how many fall in the window
    safeMode,  \* _safe_mode
    sock,      \* self.sock: a process number, 0 for None
    log,       \* the log server listens
    mutex,     \* the caller that holds the client's mutex, or NoOne
    call,      \* what each caller is doing
    line,      \* the commands sent on the connection whose answers are not read yet
    answered,  \* how many of them are answered
    restarts,
    faulted,   \* history: a watchdog exit since the last upload or restart
    deaths,    \* history: deaths and failed starts since the last upload or restart,
               \* up to MaxRapid
    raced,     \* history: the last upload ended while a dead runtime was being handled
    outlived   \* history: the monitor outlived the join of stop()

link == <<sock, line, answered>>
callers == <<mutex, call>>
history == <<faulted, deaths, raced, outlived>>
vars == <<mgr, proc, mon, crashes, safeMode, sock, log, mutex, call, line, answered,
          restarts, faulted, deaths, raced, outlived>>

Alive == proc.st \in {"booting", "ready"}
\* Between the death of a runtime and the start of the next.
Handling == mon.pc \in {"close", "fault", "record", "limit", "stay", "spawn"}
InService == proc.st = "ready"
NoRuntime == [gen |-> 0, st |-> "none", safe |-> FALSE, own |-> FALSE, fault |-> FALSE]

TypeOK ==
    /\ mgr \in {"off", "up", "joining", "killing", "closing", "ended"}
    /\ proc \in [gen: 0 .. MaxGen, st: {"none", "booting", "ready", "dead"},
                 safe: BOOLEAN, own: BOOLEAN, fault: BOOLEAN]
    /\ mon \in [pc: {"off", "check", "close", "fault", "record", "limit", "stay",
                     "spawn", "connect"}, safe: BOOLEAN, fault: BOOLEAN]
    /\ crashes \in 0 .. MaxRapid /\ safeMode \in BOOLEAN
    /\ sock \in 0 .. MaxGen /\ log \in BOOLEAN
    /\ mutex \in Callers \cup {NoOne}
    /\ call \in [Callers -> {"idle", "lock", "recv"}]
    /\ line \in Seq(Callers \cup {Late}) /\ answered \in 0 .. Len(line)
    /\ restarts \in 0 .. MaxRestarts
    /\ faulted \in BOOLEAN /\ deaths \in 0 .. MaxRapid
    /\ raced \in BOOLEAN /\ outlived \in BOOLEAN

NoMonitor == [pc |-> "off", safe |-> FALSE, fault |-> FALSE]

Init ==
    /\ mgr = "off" /\ proc = NoRuntime /\ mon = NoMonitor
    /\ crashes = 0 /\ safeMode = FALSE
    /\ sock = 0 /\ log = FALSE
    /\ mutex = NoOne /\ call = [c \in Callers |-> "idle"]
    /\ line = <<>> /\ answered = 0 /\ restarts = 0
    /\ faulted = FALSE /\ deaths = 0 /\ raced = FALSE /\ outlived = FALSE

To(step) == mon' = [mon EXCEPT !.pc = step]

\* connect closes what was there, and publishes the socket only once it is connected.
Open == sock' = (IF InService THEN proc.gen ELSE 0) /\ line' = <<>> /\ answered' = 0

\* Seeded fault: the dead runtime's socket is kept.
CloseNot == UNCHANGED link

Close == sock' = 0 /\ line' = <<>> /\ answered' = 0

Counted == IF deaths = MaxRapid THEN deaths ELSE deaths + 1

\* Popen: a new process, or None when it cannot be started.
Started(safe) ==
    \/ /\ proc.gen < MaxGen
       /\ proc' = [gen |-> proc.gen + 1, st |-> "booting", safe |-> safe,
                   own |-> TRUE, fault |-> FALSE]
       /\ deaths' = deaths
    \/ proc' = [NoRuntime EXCEPT !.gen = proc.gen] /\ deaths' = Counted

(* ---- the manager ------------------------------------------------------- *)

\* start with a runtime left over from an earlier web server: it is adopted.
Adopt ==
    /\ mgr = "off" /\ Alive
    /\ mgr' = "up" /\ log' = TRUE
    /\ Open
    /\ mon' = [NoMonitor EXCEPT !.pc = "check"]
    /\ UNCHANGED <<proc, crashes, safeMode, callers, restarts, history>>

StartFresh ==
    /\ mgr = "off" /\ ~Alive
    /\ mgr' = "up" /\ log' = TRUE
    /\ Started(FALSE)
    /\ mon' = [NoMonitor EXCEPT !.pc = "connect"]
    /\ UNCHANGED <<crashes, safeMode, link, callers, restarts, faulted, raced, outlived>>

\* Seeded fault: the monitor looks after the process only.
ReconnectNever == UNCHANGED link

Reconnect == IF sock = 0 THEN Open ELSE UNCHANGED link

\* _monitor, every two seconds, on a live runtime: reconnect if need be.
Watch ==
    /\ mon.pc = "check" /\ mgr = "up" /\ Alive
    /\ log' = TRUE
    /\ Reconnect
    /\ UNCHANGED <<mgr, proc, mon, crashes, safeMode, callers, restarts, history>>

\* A monitor that finds the manager stopped ends.
MonitorEnds ==
    /\ mon.pc = "check" /\ mgr # "up"
    /\ mon' = NoMonitor
    /\ UNCHANGED <<mgr, proc, crashes, safeMode, link, log, callers, restarts, history>>

\* _handle_runtime_exit: only a process of our own has an exit code.
NoticeExit ==
    /\ mon.pc = "check" /\ mgr = "up" /\ ~Alive
    /\ mon' = [pc |-> "close", safe |-> FALSE, fault |-> proc.own /\ proc.fault]
    /\ UNCHANGED <<mgr, proc, crashes, safeMode, link, log, callers, restarts, history>>

CloseLink ==
    /\ mon.pc = "close"
    /\ log' = FALSE /\ Close
    /\ To(IF mon.fault THEN "fault" ELSE "record")
    /\ UNCHANGED <<mgr, proc, crashes, safeMode, callers, restarts, history>>

\* Exit code 42: straight to safe mode.
EnterSafeOnFault ==
    /\ mon.pc = "fault"
    /\ safeMode' = TRUE
    /\ mon' = [mon EXCEPT !.pc = "spawn", !.safe = TRUE]
    /\ UNCHANGED <<mgr, proc, crashes, link, log, callers, restarts, history>>

\* _record_crash_and_check_safe_mode, under _crash_lock ...
RecordCrash ==
    /\ mon.pc = "record"
    /\ crashes' = IF crashes = MaxRapid THEN crashes ELSE crashes + 1
    /\ To(IF crashes + 1 >= MaxRapid THEN "limit" ELSE "stay")
    /\ UNCHANGED <<mgr, proc, safeMode, link, log, callers, restarts, history>>

\* ... and what follows from it, under another hold of the same lock.
EnterSafeOnLimit ==
    /\ mon.pc = "limit"
    /\ safeMode' = TRUE
    /\ mon' = [mon EXCEPT !.pc = "spawn", !.safe = TRUE]
    /\ UNCHANGED <<mgr, proc, crashes, link, log, callers, restarts, history>>

\* Seeded fault: a plain crash in safe mode restarts the program.
StaySafeNot == FALSE

StaySafe == safeMode

Stay ==
    /\ mon.pc = "stay"
    /\ mon' = [mon EXCEPT !.pc = "spawn", !.safe = StaySafe]
    /\ UNCHANGED <<mgr, proc, crashes, safeMode, link, log, callers, restarts, history>>

Spawn ==
    /\ mon.pc = "spawn"
    /\ log' = TRUE
    /\ Started(mon.safe)
    /\ mon' = [NoMonitor EXCEPT !.pc = "connect"]
    /\ UNCHANGED <<mgr, crashes, safeMode, link, callers, restarts, faulted, raced, outlived>>

\* _connect_runtime_socket_when_ready: until it connects, the process dies or 10 s pass.
Connect ==
    /\ mon.pc = "connect"
    /\ Open
    /\ To("check")
    /\ UNCHANGED <<mgr, proc, crashes, safeMode, log, callers, restarts, history>>

\* stop: STOP on the socket, whose answer nobody reads, then join the monitor for 5 s.
StopManager ==
    /\ mgr = "up" /\ mon.pc # "off"
    /\ mutex = NoOne
    /\ mgr' = "joining"
    /\ IF sock = proc.gen /\ Alive /\ Len(line) < MaxLate + 1
          THEN line' = Append(line, Late) ELSE line' = line
    /\ UNCHANGED <<proc, mon, crashes, safeMode, sock, answered, log, callers, restarts, history>>

\* Seeded fault: stop does not wait for the monitor.
MayKillAtOnce == TRUE

MayKill == mon.pc = "off"

Joined ==
    /\ mgr = "joining" /\ MayKill
    /\ mgr' = "killing"
    /\ UNCHANGED <<proc, mon, crashes, safeMode, link, log, callers, restarts, history>>

JoinExpires ==
    /\ mgr = "joining" /\ mon.pc # "off"
    /\ mgr' = "killing" /\ outlived' = TRUE
    /\ UNCHANGED <<proc, mon, crashes, safeMode, link, log, callers, restarts,
                   faulted, deaths, raced>>

\* SIGTERM, and SIGKILL after 15 s.
Kill ==
    /\ mgr = "killing"
    /\ proc' = [NoRuntime EXCEPT !.gen = proc.gen]
    /\ mgr' = "closing"
    /\ UNCHANGED <<mon, crashes, safeMode, link, log, callers, restarts, history>>

Stopped ==
    /\ mgr = "closing"
    /\ log' = FALSE /\ Close
    /\ mgr' = "ended"
    /\ UNCHANGED <<proc, mon, crashes, safeMode, callers, restarts, history>>

\* The web server ends, or dies and the runtime goes on.  A new server remembers nothing.
ServerDies ==
    /\ restarts < MaxRestarts
    /\ restarts' = restarts + 1
    /\ mgr' = "off" /\ mon' = NoMonitor
    /\ crashes' = 0 /\ safeMode' = FALSE
    /\ log' = FALSE /\ Close
    /\ mutex' = NoOne /\ call' = [c \in Callers |-> "idle"]
    /\ faulted' = FALSE /\ deaths' = 0 /\ raced' = FALSE /\ outlived' = FALSE
    /\ proc' = [proc EXCEPT !.own = FALSE]

\* Seeded fault: an upload leaves the old crashes in the window.
AfterResetKept == crashes

AfterReset == 0

\* reset_crash_tracking, from the thread of a build that succeeded.
ResetCrashTracking ==
    /\ mgr = "up"
    /\ crashes' = AfterReset /\ safeMode' = FALSE
    /\ faulted' = FALSE /\ deaths' = 0
    /\ raced' = (Handling \/ ~Alive)
    /\ UNCHANGED <<mgr, proc, mon, link, log, callers, restarts, outlived>>

\* Time: a crash older than RAPID_CRASH_WINDOW no longer counts.
ForgetCrash ==
    /\ crashes > 0
    /\ crashes' = crashes - 1
    /\ UNCHANGED <<mgr, proc, mon, safeMode, link, log, callers, restarts, history>>

(* ---- the runtime process ------------------------------------------------ *)

Ready ==
    /\ proc.st = "booting"
    /\ proc' = [proc EXCEPT !.st = "ready"]
    /\ UNCHANGED <<mgr, mon, crashes, safeMode, link, log, callers, restarts, history>>

Dies(fault) ==
    /\ Alive
    /\ proc' = [proc EXCEPT !.st = "dead", !.fault = fault]
    /\ faulted' = (faulted \/ (fault /\ proc.own))
    /\ deaths' = Counted
    /\ UNCHANGED <<mgr, mon, crashes, safeMode, link, log, callers, restarts, raced, outlived>>

\* It answers the commands of a connection in order.
Answer ==
    /\ InService /\ sock = proc.gen /\ answered < Len(line)
    /\ answered' = answered + 1
    /\ UNCHANGED <<mgr, proc, mon, crashes, safeMode, sock, log, callers, line, restarts, history>>

(* ---- the callers: send_and_receive -------------------------------------- *)

\* The test for a connection comes before the mutex.
CallCheck(c) ==
    /\ call[c] = "idle" /\ sock # 0
    /\ call' = [call EXCEPT ![c] = "lock"]
    /\ UNCHANGED <<mgr, proc, mon, crashes, safeMode, link, log, mutex, restarts, history>>

\* Seeded fault: the command is sent before the mutex is taken.
MaySendAtOnce(c) == TRUE

MaySend(c) == mutex = NoOne

Send(c) ==
    /\ call[c] = "lock" /\ MaySend(c)
    /\ sock = proc.gen /\ Alive /\ Len(line) <= MaxLate
    /\ mutex' = c
    /\ line' = Append(line, c)
    /\ call' = [call EXCEPT ![c] = "recv"]
    /\ UNCHANGED <<mgr, proc, mon, crashes, safeMode, sock, answered, log, restarts, history>>

\* The socket is gone (closed since the check), or its other end is.
SendFails(c) ==
    /\ call[c] = "lock" /\ MaySend(c)
    /\ sock # proc.gen \/ ~Alive
    /\ call' = [call EXCEPT ![c] = "idle"]
    /\ UNCHANGED <<mgr, proc, mon, crashes, safeMode, link, log, mutex, restarts, history>>

\* Seeded fault: a caller that leaves takes its command off the line.
LeftByNothing(c, l) == SelectSeq(l, LAMBDA x : x # c)

\* What a caller that leaves has not read stays on the line, for whoever comes next.
LeftBy(c, l) == [k \in DOMAIN l |-> IF l[k] = c THEN Late ELSE l[k]]

\* The first answer on the connection, whosever it is.
Receive(c) ==
    /\ call[c] = "recv" /\ answered > 0
    /\ line' = LeftBy(c, Tail(line))
    /\ answered' = answered - 1
    /\ mutex' = NoOne
    /\ call' = [call EXCEPT ![c] = "idle"]
    /\ UNCHANGED <<mgr, proc, mon, crashes, safeMode, sock, log, restarts, history>>

\* 0.5 s pass, or the connection ends.
GiveUp(c) ==
    /\ call[c] = "recv" /\ answered = 0
    /\ line' = LeftBy(c, line)
    /\ mutex' = NoOne
    /\ call' = [call EXCEPT ![c] = "idle"]
    /\ UNCHANGED <<mgr, proc, mon, crashes, safeMode, sock, answered, log, restarts, history>>

Monitor ==
    \/ Watch \/ MonitorEnds \/ NoticeExit \/ CloseLink \/ EnterSafeOnFault \/ RecordCrash
    \/ EnterSafeOnLimit \/ Stay \/ Spawn \/ Connect

Caller(c) == CallCheck(c) \/ Send(c) \/ SendFails(c) \/ Receive(c) \/ GiveUp(c)

Next ==
    \/ Adopt \/ StartFresh \/ Monitor
    \/ StopManager \/ Joined \/ JoinExpires \/ Kill \/ Stopped
    \/ ServerDies \/ ResetCrashTracking \/ ForgetCrash
    \/ Ready \/ Answer
    \/ \E fault \in BOOLEAN : Dies(fault)
    \/ \E c \in Callers : Caller(c)

Spec == Init /\ [][Next]_vars

\* The monitor's loop goes on while it runs, a runtime that is left alone opens its
\* socket.  A process that can be started is started: Popen fails only so often.
CanStart == Spawn /\ proc'.st = "booting"
FairSpec ==
    Spec /\ WF_vars(Monitor) /\ WF_vars(Ready) /\ SF_vars(CanStart)

(* ---- properties -------------------------------------------------------- *)

\* After a watchdog exit of a runtime this web server started, no runtime with the
\* program loaded is running, whatever dies or fails to start in between, until an
\* upload succeeds (or the web server itself restarts: _safe_mode is memory only).
FaultStaysSafe == faulted /\ Alive => proc.safe

\* A runtime is restarted in safe mode only for a reason that is newer than the last
\* successful upload, a watchdog exit or MAX_RAPID_CRASHES deaths or failed starts, unless that upload
\* ended while a dead runtime was being handled (the two holds of _crash_lock).
SafeNeedsCause ==
    [][mon.pc = "spawn" /\ mon.safe /\ proc'.st = "booting" =>
        faulted \/ deaths >= MaxRapid \/ raced]_vars

\* Nobody reads the answer to a command that another caller still waits for.  (A caller
\* may read a late answer: one whose own caller gave up on this connection.)
NoCrossTalk ==
    [][\A c \in Callers : Receive(c) => Head(line) \in {c, Late}]_vars

\* The connection in use is never one to an earlier runtime once a new one is running.
LinkCurrent == Alive => sock \in {0, proc.gen}

\* stop() leaves no runtime, connection or log server behind, unless the monitor
\* outlived the 5 s join and starts a runtime afterwards.
StopFinal ==
    mgr = "ended" => (~Alive /\ sock = 0 /\ ~log) \/ outlived

\* While the manager is up a runtime that dies is replaced and the commands reach it
\* again, as long as another process may be started.
Relinked ==
    (mgr = "up" /\ ~Alive) ~>
        (mgr # "up" \/ (InService /\ sock = proc.gen) \/ proc.gen = MaxGen)

(* ---- what the run checks ------------------------------------------------ *)

\* The manager holds on to one runtime, the last it started, to safe mode after a fault,
\* and to nothing after stop().
LinkSound == TypeOK /\ FaultStaysSafe /\ LinkCurrent /\ StopFinal
=============================================================================
