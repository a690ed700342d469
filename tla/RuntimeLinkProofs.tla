-------------------------- MODULE RuntimeLinkProofs --------------------------
(***************************************************************************)
(* Proofs about RuntimeLink, for any number of callers and processes and   *)
(* any limits: the types, what stop() leaves, whose answer is read, and    *)
(* why and until when the runtime is kept in safe mode.                    *)
(***************************************************************************)
EXTENDS RuntimeLink, SequenceTheorems, TLAPS

USE DEF vars, link, callers, history

(* ---- the inductive invariants ------------------------------------------- *)

\* A manager that is off has nothing: no monitor, no connection, no child of its own
\* and no fault to remember.  One that is up has a monitor.
OffIsOff ==
    /\ mgr = "off" => mon.pc = "off" /\ sock = 0 /\ ~proc.own /\ ~faulted
    /\ mgr = "up" => mon.pc # "off"

\* The monitor restarts a runtime only after that died, and not over its connection.
RestartsTheDead == Handling => ~Alive /\ (mon.pc = "close" \/ sock = 0)

\* The connection in use is to the last process, dead or alive.
LinkOfLast == sock \in {0, proc.gen}

\* After the join, unless it expired, no monitor is left to undo what stop() does.
Quiesced ==
    ~outlived =>
        /\ mgr \in {"killing", "closing", "ended"} => mon.pc = "off"
        /\ mgr \in {"closing", "ended"} => ~Alive
        /\ mgr = "ended" => sock = 0 /\ ~log

\* A fault that is not in safe mode yet is still to be seen: in the exit code of a
\* process that the monitor will look at, or in what the monitor already knows.
FaultRemembered ==
    faulted =>
        \/ safeMode
        \/ /\ ~Alive
           /\ \/ mon.pc \in {"close", "fault"} /\ mon.fault
              \/ /\ mon.pc \in {"off", "check", "connect"}
                 /\ mgr # "up" \/ (proc.own /\ proc.fault)

\* And then the next process is one in safe mode.
FaultPassedOn == faulted /\ mon.pc = "spawn" => mon.safe

FaultInv ==
    TypeOK /\ OffIsOff /\ RestartsTheDead /\ FaultRemembered /\ FaultPassedOn /\ FaultStaysSafe

\* One runtime, and nothing left behind a stop.
HoldInv == FaultInv /\ LinkOfLast /\ Quiesced

(* ---- whose answer ------------------------------------------------------- *)

\* Whoever waits for an answer holds the mutex; what others sent is marked late.
OneWaits ==
    /\ \A c \in Callers : call[c] = "recv" => mutex = c
    /\ \A k \in DOMAIN line : line[k] = Late \/ (line[k] \in Callers /\ call[line[k]] = "recv")

WaitInv == TypeOK /\ OneWaits

(* ---- why safe mode ------------------------------------------------------ *)

\* A reason for safe mode that no upload has cleared.
Cause == faulted \/ deaths >= MaxRapid \/ raced

\* A death the monitor will still put on the list.
Unrecorded ==
    /\ ~Alive
    /\ \/ mon.pc \in {"close", "record"}
       \/ mon.pc \in {"check", "connect"} /\ mgr = "up"

\* No death is on the list twice, so a list that reaches the limit is no accident.
CrashesCounted ==
    \/ raced \/ deaths = MaxRapid
    \/ crashes <= deaths /\ (Unrecorded => crashes < deaths)

\* An exit code that says fault, on the process or in the monitor's hands, is the fault
\* of this history, unless an upload came between.
FaultsKnown ==
    /\ Alive => ~proc.fault
    /\ proc.own /\ proc.fault => faulted \/ raced
    /\ mon.pc \in {"close", "fault"} /\ mon.fault => faulted \/ raced
    /\ mon.pc = "fault" => mon.fault

\* Safe mode, and the monitor's way into it, have a cause.
SafeCaused ==
    /\ safeMode => Cause
    /\ mon.pc = "limit" => Cause
    /\ mon.pc = "spawn" /\ mon.safe => Cause

CauseInv == FaultInv /\ CrashesCounted /\ FaultsKnown /\ SafeCaused

(* ---- the proofs --------------------------------------------------------- *)

\* The types, in parts.
ManagerType ==
    /\ mgr \in {"off", "up", "joining", "killing", "closing", "ended"}
    /\ mon \in [pc: {"off", "check", "close", "fault", "record", "limit", "stay",
                     "spawn", "connect"}, safe: BOOLEAN, fault: BOOLEAN]

ProcType ==
    proc \in [gen: 0 .. MaxGen, st: {"none", "booting", "ready", "dead"},
              safe: BOOLEAN, own: BOOLEAN, fault: BOOLEAN]

CountType ==
    crashes \in 0 .. MaxRapid /\ deaths \in 0 .. MaxRapid /\ restarts \in 0 .. MaxRestarts

FlagType ==
    /\ safeMode \in BOOLEAN /\ log \in BOOLEAN
    /\ faulted \in BOOLEAN /\ raced \in BOOLEAN /\ outlived \in BOOLEAN

LinkType == sock \in 0 .. MaxGen /\ line \in Seq(Callers \cup {Late}) /\ answered \in 0 .. Len(line)

CallType == mutex \in Callers \cup {NoOne} /\ call \in [Callers -> {"idle", "lock", "recv"}]

\* They are what TypeOK says.
LEMMA TypeParts ==
    /\ TypeOK <=> ManagerType /\ ProcType /\ CountType /\ FlagType /\ LinkType /\ CallType
    /\ TypeOK' <=> (ManagerType /\ ProcType /\ CountType /\ FlagType /\ LinkType /\ CallType)'
  BY DEF TypeOK, ManagerType, ProcType, CountType, FlagType, LinkType, CallType

\* A caller that leaves keeps the length of the line, and nothing of its own on it.
LEMMA LeftLine ==
    ASSUME NEW c \in Callers, NEW l \in Seq(Callers \cup {Late})
    PROVE  /\ LeftBy(c, l) \in Seq(Callers \cup {Late}) /\ Len(LeftBy(c, l)) = Len(l)
           /\ \A k \in DOMAIN l : LeftBy(c, l)[k] = IF l[k] = c THEN Late ELSE l[k]
           /\ DOMAIN LeftBy(c, l) = DOMAIN l
<1>1. DOMAIN l = 1 .. Len(l) /\ Len(l) \in Nat /\ \A k \in 1 .. Len(l) : l[k] \in Callers \cup {Late}
  OBVIOUS
<1>2. LeftBy(c, l) \in [1 .. Len(l) -> Callers \cup {Late}]
  BY <1>1 DEF LeftBy
<1>3. LeftBy(c, l) \in Seq(Callers \cup {Late})
  BY <1>1, <1>2, SeqDef
<1> QED
  BY <1>1, <1>2, <1>3 DEF LeftBy

\* A connection is to the process that runs, and nothing is on its line.
LEMMA OpenTypes == ASSUME ProcType, Open PROVE LinkType'
<1>1. <<>> \in Seq(Callers \cup {Late}) /\ Len(<<>>) = 0
  OBVIOUS
<1>2. sock' \in 0 .. MaxGen
  BY LinkAssumption DEF Open, ProcType
<1> QED
  BY <1>1, <1>2 DEF Open, LinkType

\* A process that is started, or is not, is one within the bound.
LEMMA StartedTypes ==
    ASSUME ProcType, NEW safe \in BOOLEAN, Started(safe) PROVE ProcType'
<1>1. proc.gen \in 0 .. MaxGen
  BY DEF ProcType
<1>2. CASE proc' = [NoRuntime EXCEPT !.gen = proc.gen]
  <2>1. proc' = [gen |-> proc.gen, st |-> "none", safe |-> FALSE, own |-> FALSE, fault |-> FALSE]
    BY <1>2 DEF NoRuntime
  <2> QED
    BY <1>1, <2>1 DEF ProcType
<1>3. CASE /\ proc.gen < MaxGen
           /\ proc' = [gen |-> proc.gen + 1, st |-> "booting", safe |-> safe,
                       own |-> TRUE, fault |-> FALSE]
  <2>1. proc.gen + 1 \in 0 .. MaxGen
    BY <1>1, <1>3, LinkAssumption
  <2> QED
    BY <1>3, <2>1 DEF ProcType
<1> QED
  BY <1>2, <1>3 DEF Started

\* The initial state has the types.
LEMMA TypeInit == Init => TypeOK
<1> SUFFICES ASSUME Init PROVE TypeOK
  OBVIOUS
<1>1. ManagerType /\ CountType
  BY LinkAssumption DEF Init, NoMonitor, ManagerType, CountType
<1>2. ProcType
  BY LinkAssumption DEF Init, NoRuntime, ProcType
<1>5. FlagType
  BY Zenon DEF Init, FlagType
<1>3. LinkType
  <2>1. <<>> \in Seq(Callers \cup {Late}) /\ Len(<<>>) = 0
    OBVIOUS
  <2> QED
    BY <2>1, LinkAssumption DEF Init, LinkType
<1>4. CallType
  BY DEF Init, CallType
<1> QED
  BY <1>1, <1>2, <1>3, <1>4, <1>5, TypeParts

\* Every step keeps the types.
LEMMA TypeNext == TypeOK /\ [Next]_vars => TypeOK'
<1> SUFFICES ASSUME TypeOK, [Next]_vars PROVE TypeOK'
  OBVIOUS
<1>0. ManagerType /\ ProcType /\ CountType /\ FlagType /\ LinkType /\ CallType
  BY TypeParts
<1>1. CASE Adopt
  <2>1. ManagerType'
    BY <1>1, <1>0, LinkAssumption DEF Adopt, Open, InService, NoMonitor, ManagerType
  <2>2. FlagType'
    BY <1>1, <1>0, LinkAssumption DEF Adopt, Open, InService, NoMonitor, FlagType
  <2>3. LinkType'
    BY <1>1, <1>0, OpenTypes DEF Adopt
  <2> QED
    BY <1>1, <1>0, TypeParts, <2>1, <2>2, <2>3 DEF Adopt, ProcType, CountType, CallType
<1>2. CASE StartFresh
  <2>1. ManagerType'
    BY <1>2, <1>0, LinkAssumption
       DEF StartFresh, Started, Counted, NoRuntime, NoMonitor, ManagerType
  <2>2. ProcType'
    BY <1>2, <1>0, StartedTypes DEF StartFresh
  <2>3. CountType'
    BY <1>2, <1>0, LinkAssumption
       DEF StartFresh, Started, Counted, NoRuntime, NoMonitor, CountType
  <2>4. FlagType'
    BY <1>2, <1>0, LinkAssumption
       DEF StartFresh, Started, Counted, NoRuntime, NoMonitor, FlagType
  <2> QED
    BY <1>2, <1>0, TypeParts, <2>1, <2>2, <2>3, <2>4 DEF StartFresh, LinkType, CallType
<1>3. CASE Watch
  <2>1. FlagType'
    BY <1>3, <1>0, LinkAssumption DEF Watch, Reconnect, Open, InService, FlagType
  <2>2. LinkType'
    BY <1>3, <1>0, OpenTypes DEF Watch, Reconnect, LinkType
  <2> QED
    BY <1>3, <1>0, TypeParts, <2>1, <2>2 DEF Watch, ManagerType, ProcType, CountType, CallType
<1>4. CASE MonitorEnds
  <2>1. ManagerType'
    BY <1>4, <1>0, LinkAssumption DEF MonitorEnds, NoMonitor, ManagerType
  <2> QED
    BY <1>4, <1>0, TypeParts, <2>1
       DEF MonitorEnds, ProcType, CountType, FlagType, LinkType, CallType
<1>5. CASE NoticeExit
  <2>1. ManagerType'
    BY <1>5, <1>0, LinkAssumption DEF NoticeExit, ManagerType
  <2> QED
    BY <1>5, <1>0, TypeParts, <2>1
       DEF NoticeExit, ProcType, CountType, FlagType, LinkType, CallType
<1>6. CASE CloseLink
  <2>1. ManagerType'
    BY <1>6, <1>0, LinkAssumption DEF CloseLink, Close, To, ManagerType
  <2>2. FlagType'
    BY <1>6, <1>0, LinkAssumption DEF CloseLink, Close, To, FlagType
  <2>3. LinkType'
    BY <1>6, <1>0, LinkAssumption DEF CloseLink, Close, To, LinkType
  <2> QED
    BY <1>6, <1>0, TypeParts, <2>1, <2>2, <2>3 DEF CloseLink, ProcType, CountType, CallType
<1>7. CASE EnterSafeOnFault
  <2>1. ManagerType'
    BY <1>7, <1>0, LinkAssumption DEF EnterSafeOnFault, ManagerType
  <2>2. FlagType'
    BY <1>7, <1>0, LinkAssumption DEF EnterSafeOnFault, FlagType
  <2> QED
    BY <1>7, <1>0, TypeParts, <2>1, <2>2
       DEF EnterSafeOnFault, ProcType, CountType, LinkType, CallType
<1>8. CASE RecordCrash
  <2>1. ManagerType'
    BY <1>8, <1>0, LinkAssumption DEF RecordCrash, To, ManagerType
  <2>2. CountType'
    BY <1>8, <1>0, LinkAssumption DEF RecordCrash, To, CountType
  <2> QED
    BY <1>8, <1>0, TypeParts, <2>1, <2>2 DEF RecordCrash, ProcType, FlagType, LinkType, CallType
<1>9. CASE EnterSafeOnLimit
  <2>1. ManagerType'
    BY <1>9, <1>0, LinkAssumption DEF EnterSafeOnLimit, ManagerType
  <2>2. FlagType'
    BY <1>9, <1>0, LinkAssumption DEF EnterSafeOnLimit, FlagType
  <2> QED
    BY <1>9, <1>0, TypeParts, <2>1, <2>2
       DEF EnterSafeOnLimit, ProcType, CountType, LinkType, CallType
<1>10. CASE Stay
  <2>1. ManagerType'
    BY <1>10, <1>0 DEF Stay, StaySafe, ManagerType, FlagType
  <2> QED
    BY <1>10, <1>0, TypeParts, <2>1 DEF Stay, ProcType, CountType, FlagType, LinkType, CallType
<1>11. CASE Spawn
  <2>1. ManagerType'
    BY <1>11, <1>0, LinkAssumption
       DEF Spawn, Started, Counted, NoRuntime, NoMonitor, ManagerType
  <2>2. ProcType'
    BY <1>11, <1>0, StartedTypes DEF Spawn, ManagerType
  <2>3. CountType'
    BY <1>11, <1>0, LinkAssumption DEF Spawn, Started, Counted, NoRuntime, NoMonitor, CountType
  <2>4. FlagType'
    BY <1>11, <1>0, LinkAssumption DEF Spawn, Started, Counted, NoRuntime, NoMonitor, FlagType
  <2> QED
    BY <1>11, <1>0, TypeParts, <2>1, <2>2, <2>3, <2>4 DEF Spawn, LinkType, CallType
<1>12. CASE Connect
  <2>1. ManagerType'
    BY <1>12, <1>0, LinkAssumption DEF Connect, Open, InService, To, ManagerType
  <2>2. LinkType'
    BY <1>12, <1>0, OpenTypes DEF Connect
  <2> QED
    BY <1>12, <1>0, TypeParts, <2>1, <2>2 DEF Connect, ProcType, CountType, FlagType, CallType
<1>13. CASE StopManager
  <2>1. ManagerType'
    BY <1>13, <1>0, LinkAssumption DEF StopManager, ManagerType
  <2>2. LinkType'
    BY <1>13, <1>0, LinkAssumption DEF StopManager, LinkType
  <2> QED
    BY <1>13, <1>0, TypeParts, <2>1, <2>2
       DEF StopManager, ProcType, CountType, FlagType, CallType
<1>14. CASE Joined
  <2>1. ManagerType'
    BY <1>14, <1>0, LinkAssumption DEF Joined, MayKill, ManagerType
  <2> QED
    BY <1>14, <1>0, TypeParts, <2>1
       DEF Joined, ProcType, CountType, FlagType, LinkType, CallType
<1>15. CASE JoinExpires
  <2>1. ManagerType'
    BY <1>15, <1>0, LinkAssumption DEF JoinExpires, ManagerType
  <2>2. FlagType'
    BY <1>15, <1>0, LinkAssumption DEF JoinExpires, FlagType
  <2> QED
    BY <1>15, <1>0, TypeParts, <2>1, <2>2
       DEF JoinExpires, ProcType, CountType, LinkType, CallType
<1>16. CASE Kill
  <2>1. ManagerType'
    BY <1>16, <1>0, LinkAssumption DEF Kill, NoRuntime, ManagerType
  <2>2. ProcType'
    BY <1>16, <1>0, LinkAssumption DEF Kill, NoRuntime, ProcType
  <2> QED
    BY <1>16, <1>0, TypeParts, <2>1, <2>2 DEF Kill, CountType, FlagType, LinkType, CallType
<1>17. CASE Stopped
  <2>1. ManagerType'
    BY <1>17, <1>0, LinkAssumption DEF Stopped, Close, ManagerType
  <2>2. FlagType'
    BY <1>17, <1>0, LinkAssumption DEF Stopped, Close, FlagType
  <2>3. LinkType'
    BY <1>17, <1>0, LinkAssumption DEF Stopped, Close, LinkType
  <2> QED
    BY <1>17, <1>0, TypeParts, <2>1, <2>2, <2>3 DEF Stopped, ProcType, CountType, CallType
<1>18. CASE ServerDies
  <2>1. ManagerType'
    BY <1>18, <1>0, LinkAssumption DEF ServerDies, Close, NoMonitor, ManagerType
  <2>2. ProcType'
    BY <1>18, <1>0, LinkAssumption DEF ServerDies, Close, NoMonitor, ProcType
  <2>3. CountType'
    BY <1>18, <1>0, LinkAssumption DEF ServerDies, Close, NoMonitor, CountType
  <2>4. FlagType'
    BY <1>18, <1>0, LinkAssumption DEF ServerDies, Close, NoMonitor, FlagType
  <2>5. LinkType'
    BY <1>18, <1>0, LinkAssumption DEF ServerDies, Close, NoMonitor, LinkType
  <2>6. CallType'
    BY <1>18, <1>0, LinkAssumption DEF ServerDies, Close, NoMonitor, CallType
  <2> QED
    BY <1>0, TypeParts, <2>1, <2>2, <2>3, <2>4, <2>5, <2>6
<1>19. CASE ResetCrashTracking
  <2>1. CountType'
    BY <1>19, <1>0, LinkAssumption DEF ResetCrashTracking, AfterReset, CountType
  <2>2. FlagType'
    BY <1>19, <1>0, LinkAssumption DEF ResetCrashTracking, AfterReset, FlagType
  <2> QED
    BY <1>19, <1>0, TypeParts, <2>1, <2>2
       DEF ResetCrashTracking, ManagerType, ProcType, LinkType, CallType
<1>20. CASE ForgetCrash
  <2>1. CountType'
    BY <1>20, <1>0, LinkAssumption DEF ForgetCrash, CountType
  <2> QED
    BY <1>20, <1>0, TypeParts, <2>1
       DEF ForgetCrash, ManagerType, ProcType, FlagType, LinkType, CallType
<1>21. CASE Ready
  <2>1. ProcType'
    BY <1>21, <1>0, LinkAssumption DEF Ready, ProcType
  <2> QED
    BY <1>21, <1>0, TypeParts, <2>1
       DEF Ready, ManagerType, CountType, FlagType, LinkType, CallType
<1>22. CASE Answer
  <2>1. LinkType'
    BY <1>22, <1>0, LinkAssumption DEF Answer, InService, LinkType
  <2> QED
    BY <1>22, <1>0, TypeParts, <2>1
       DEF Answer, ManagerType, ProcType, CountType, FlagType, CallType
<1>23. ASSUME NEW fault \in BOOLEAN, Dies(fault) PROVE TypeOK'
  <2>1. ProcType'
    BY <1>23, <1>0, LinkAssumption DEF Dies, Counted, ProcType
  <2>2. CountType'
    BY <1>23, <1>0, LinkAssumption DEF Dies, Counted, CountType
  <2>3. FlagType'
    BY <1>23, <1>0, LinkAssumption DEF Dies, Counted, FlagType
  <2> QED
    BY <1>23, <1>0, TypeParts, <2>1, <2>2, <2>3 DEF Dies, ManagerType, LinkType, CallType
<1>24. ASSUME NEW c \in Callers, CallCheck(c) PROVE TypeOK'
  <2>1. CallType'
    BY <1>24, <1>0, LinkAssumption DEF CallCheck, CallType
  <2> QED
    BY <1>24, <1>0, TypeParts, <2>1
       DEF CallCheck, ManagerType, ProcType, CountType, FlagType, LinkType
<1>25. ASSUME NEW c \in Callers, Send(c) PROVE TypeOK'
  <2>1. LinkType'
    BY <1>25, <1>0, LinkAssumption DEF Send, MaySend, LinkType
  <2>2. CallType'
    BY <1>25, <1>0, LinkAssumption DEF Send, MaySend, CallType
  <2> QED
    BY <1>25, <1>0, TypeParts, <2>1, <2>2 DEF Send, ManagerType, ProcType, CountType, FlagType
<1>26. ASSUME NEW c \in Callers, SendFails(c) PROVE TypeOK'
  <2>1. CallType'
    BY <1>26, <1>0, LinkAssumption DEF SendFails, MaySend, CallType
  <2> QED
    BY <1>26, <1>0, TypeParts, <2>1
       DEF SendFails, ManagerType, ProcType, CountType, FlagType, LinkType
<1>27. ASSUME NEW c \in Callers, Receive(c) PROVE TypeOK'
  <2>1. LinkType'
    <3> DEFINE rest == Tail(line)
    <3>1. line # <<>>
      BY <1>27, <1>0 DEF Receive, LinkType
    <3>2. rest \in Seq(Callers \cup {Late}) /\ Len(rest) = Len(line) - 1
      BY <1>0, <3>1, HeadTailProperties DEF LinkType
    <3>3. line' = LeftBy(c, rest)
      BY <1>27 DEF Receive
    <3> HIDE DEF rest
    <3>4. line' \in Seq(Callers \cup {Late}) /\ Len(line') = Len(line) - 1
      BY <3>2, <3>3, LeftLine
    <3>5. Len(line) \in Nat
      BY <1>0 DEF LinkType
    <3> QED
      BY <1>27, <1>0, <3>4, <3>5 DEF Receive, LinkType
  <2>2. CallType'
    BY <1>27, <1>0, LinkAssumption DEF Receive, CallType
  <2> QED
    BY <1>27, <1>0, TypeParts, <2>1, <2>2
       DEF Receive, ManagerType, ProcType, CountType, FlagType
<1>28. ASSUME NEW c \in Callers, GiveUp(c) PROVE TypeOK'
  <2>1. LinkType'
    BY <1>28, <1>0, LeftLine DEF GiveUp, LinkType
  <2>2. CallType'
    BY <1>28, <1>0, LinkAssumption DEF GiveUp, CallType
  <2> QED
    BY <1>28, <1>0, TypeParts, <2>1, <2>2 DEF GiveUp, ManagerType, ProcType, CountType, FlagType
<1>29. CASE UNCHANGED vars
  BY <1>29, <1>0, TypeParts DEF ManagerType, ProcType, CountType, FlagType, LinkType, CallType
<1> QED
  BY <1>1, <1>2, <1>3, <1>4, <1>5, <1>6, <1>7, <1>8, <1>9, <1>10, <1>11, <1>12, <1>13,
     <1>14, <1>15, <1>16, <1>17, <1>18, <1>19, <1>20, <1>21, <1>22, <1>23, <1>24, <1>25,
     <1>26, <1>27, <1>28, <1>29
     DEF Next, Monitor, Caller

(* ---- until when safe mode ----------------------------------------------- *)

\* The initial state has no fault to remember.
LEMMA FaultInit == Init => FaultInv
  BY TypeInit DEF Init, FaultInv, OffIsOff, RestartsTheDead, FaultRemembered, FaultPassedOn,
     FaultStaysSafe, Handling, Alive, NoRuntime, NoMonitor

\* Every step remembers the fault.
LEMMA FaultNext == FaultInv /\ [Next]_vars => FaultInv'
<1> SUFFICES ASSUME FaultInv, [Next]_vars PROVE FaultInv'
  OBVIOUS
<1>1. TypeOK /\ ManagerType /\ ProcType /\ FlagType /\ OffIsOff /\ RestartsTheDead /\
      FaultRemembered /\ FaultPassedOn /\ FaultStaysSafe
  BY TypeParts DEF FaultInv
<1>2. TypeOK'
  BY <1>1, TypeNext
<1>3. CASE Adopt
  <2>1. OffIsOff'
    BY <1>3, <1>1
       DEF Adopt, Open, InService, NoMonitor, OffIsOff, ManagerType, ProcType, FlagType
  <2>2. RestartsTheDead'
    BY <1>3, <1>1
       DEF Adopt, Open, InService, NoMonitor, RestartsTheDead, Handling, Alive, ManagerType,
           ProcType, FlagType, OffIsOff
  <2>3. FaultRemembered'
    BY <1>3, <1>1
       DEF Adopt, Open, InService, NoMonitor, FaultRemembered, Alive, ManagerType, ProcType,
           FlagType, OffIsOff, RestartsTheDead, Handling
  <2>4. FaultPassedOn'
    BY <1>3, <1>1
       DEF Adopt, Open, InService, NoMonitor, FaultPassedOn, ManagerType, ProcType,
           FlagType, RestartsTheDead, FaultRemembered
  <2> QED
    BY <1>3, <1>1, <1>2, <2>1, <2>2, <2>3, <2>4 DEF Adopt, FaultStaysSafe, Alive, FaultInv
<1>4. CASE StartFresh
  <2>1. OffIsOff'
    BY <1>4, <1>1
       DEF StartFresh, Started, Counted, NoRuntime, NoMonitor, OffIsOff, ManagerType,
           ProcType, FlagType
  <2>2. RestartsTheDead'
    BY <1>4, <1>1
       DEF StartFresh, Started, Counted, NoRuntime, NoMonitor, RestartsTheDead, Handling,
           Alive, ManagerType, ProcType, FlagType, OffIsOff
  <2>3. FaultRemembered'
    BY <1>4, <1>1
       DEF StartFresh, Started, Counted, NoRuntime, NoMonitor, FaultRemembered, Alive,
           ManagerType, ProcType, FlagType, OffIsOff, RestartsTheDead, Handling
  <2>4. FaultPassedOn'
    BY <1>4, <1>1
       DEF StartFresh, Started, Counted, NoRuntime, NoMonitor, FaultPassedOn, ManagerType,
           ProcType, FlagType, RestartsTheDead, FaultRemembered
  <2>5. FaultStaysSafe'
    BY <1>4, <1>1
       DEF StartFresh, Started, Counted, NoRuntime, NoMonitor, FaultStaysSafe, Alive,
           ManagerType, ProcType, FlagType, FaultRemembered, FaultPassedOn, OffIsOff
  <2> QED
    BY <1>1, <1>2, <2>1, <2>2, <2>3, <2>4, <2>5 DEF FaultInv
<1>5. CASE Watch
  <2>1. OffIsOff'
    BY <1>5, <1>1
       DEF Watch, Reconnect, Open, InService, OffIsOff, ManagerType, ProcType, FlagType
  <2>2. RestartsTheDead'
    BY <1>5, <1>1
       DEF Watch, Reconnect, Open, InService, RestartsTheDead, Handling, Alive, ManagerType,
           ProcType, FlagType, OffIsOff
  <2> QED
    BY <1>5, <1>1, <1>2, <2>1, <2>2
       DEF Watch, FaultRemembered, Alive, FaultPassedOn, FaultStaysSafe, FaultInv
<1>6. CASE MonitorEnds
  <2>1. OffIsOff'
    BY <1>6, <1>1 DEF MonitorEnds, NoMonitor, OffIsOff, ManagerType, ProcType, FlagType
  <2>2. RestartsTheDead'
    BY <1>6, <1>1
       DEF MonitorEnds, NoMonitor, RestartsTheDead, Handling, Alive, ManagerType, ProcType,
           FlagType, OffIsOff
  <2>3. FaultRemembered'
    BY <1>6, <1>1
       DEF MonitorEnds, NoMonitor, FaultRemembered, Alive, ManagerType, ProcType, FlagType,
           OffIsOff, RestartsTheDead, Handling
  <2>4. FaultPassedOn'
    BY <1>6, <1>1
       DEF MonitorEnds, NoMonitor, FaultPassedOn, ManagerType, ProcType, FlagType,
           RestartsTheDead, FaultRemembered
  <2> QED
    BY <1>6, <1>1, <1>2, <2>1, <2>2, <2>3, <2>4 DEF MonitorEnds, FaultStaysSafe, Alive, FaultInv
<1>7. CASE NoticeExit
  <2>1. OffIsOff'
    BY <1>7, <1>1 DEF NoticeExit, OffIsOff, ManagerType, ProcType, FlagType
  <2>2. RestartsTheDead'
    BY <1>7, <1>1
       DEF NoticeExit, RestartsTheDead, Handling, Alive, ManagerType, ProcType, FlagType,
           OffIsOff
  <2>3. FaultRemembered'
    BY <1>7, <1>1
       DEF NoticeExit, FaultRemembered, Alive, ManagerType, ProcType, FlagType, OffIsOff,
           RestartsTheDead, Handling
  <2>4. FaultPassedOn'
    BY <1>7, <1>1
       DEF NoticeExit, FaultPassedOn, ManagerType, ProcType, FlagType, RestartsTheDead,
           FaultRemembered
  <2> QED
    BY <1>7, <1>1, <1>2, <2>1, <2>2, <2>3, <2>4 DEF NoticeExit, FaultStaysSafe, Alive, FaultInv
<1>8. CASE CloseLink
  <2>1. OffIsOff'
    BY <1>8, <1>1 DEF CloseLink, Close, To, OffIsOff, ManagerType, ProcType, FlagType
  <2>2. RestartsTheDead'
    BY <1>8, <1>1
       DEF CloseLink, Close, To, RestartsTheDead, Handling, Alive, ManagerType, ProcType,
           FlagType, OffIsOff
  <2>3. FaultRemembered'
    BY <1>8, <1>1
       DEF CloseLink, Close, To, FaultRemembered, Alive, ManagerType, ProcType, FlagType,
           OffIsOff, RestartsTheDead, Handling
  <2>4. FaultPassedOn'
    BY <1>8, <1>1
       DEF CloseLink, Close, To, FaultPassedOn, ManagerType, ProcType, FlagType,
           RestartsTheDead, FaultRemembered
  <2> QED
    BY <1>8, <1>1, <1>2, <2>1, <2>2, <2>3, <2>4 DEF CloseLink, FaultStaysSafe, Alive, FaultInv
<1>9. CASE EnterSafeOnFault
  <2>1. OffIsOff'
    BY <1>9, <1>1 DEF EnterSafeOnFault, OffIsOff, ManagerType, ProcType, FlagType
  <2>2. RestartsTheDead'
    BY <1>9, <1>1
       DEF EnterSafeOnFault, RestartsTheDead, Handling, Alive, ManagerType, ProcType,
           FlagType, OffIsOff
  <2>3. FaultRemembered'
    BY <1>9, <1>1
       DEF EnterSafeOnFault, FaultRemembered, Alive, ManagerType, ProcType, FlagType,
           OffIsOff, RestartsTheDead, Handling
  <2>4. FaultPassedOn'
    BY <1>9, <1>1
       DEF EnterSafeOnFault, FaultPassedOn, ManagerType, ProcType, FlagType,
           RestartsTheDead, FaultRemembered
  <2> QED
    BY <1>9, <1>1, <1>2, <2>1, <2>2, <2>3, <2>4
       DEF EnterSafeOnFault, FaultStaysSafe, Alive, FaultInv
<1>10. CASE RecordCrash
  <2>1. OffIsOff'
    BY <1>10, <1>1 DEF RecordCrash, To, OffIsOff, ManagerType, ProcType, FlagType
  <2>2. RestartsTheDead'
    BY <1>10, <1>1
       DEF RecordCrash, To, RestartsTheDead, Handling, Alive, ManagerType, ProcType,
           FlagType, OffIsOff
  <2>3. FaultRemembered'
    BY <1>10, <1>1
       DEF RecordCrash, To, FaultRemembered, Alive, ManagerType, ProcType, FlagType,
           OffIsOff, RestartsTheDead, Handling
  <2>4. FaultPassedOn'
    BY <1>10, <1>1
       DEF RecordCrash, To, FaultPassedOn, ManagerType, ProcType, FlagType, RestartsTheDead,
           FaultRemembered
  <2> QED
    BY <1>10, <1>1, <1>2, <2>1, <2>2, <2>3, <2>4
       DEF RecordCrash, FaultStaysSafe, Alive, FaultInv
<1>11. CASE EnterSafeOnLimit
  <2>1. OffIsOff'
    BY <1>11, <1>1 DEF EnterSafeOnLimit, OffIsOff, ManagerType, ProcType, FlagType
  <2>2. RestartsTheDead'
    BY <1>11, <1>1
       DEF EnterSafeOnLimit, RestartsTheDead, Handling, Alive, ManagerType, ProcType,
           FlagType, OffIsOff
  <2>3. FaultRemembered'
    BY <1>11, <1>1
       DEF EnterSafeOnLimit, FaultRemembered, Alive, ManagerType, ProcType, FlagType,
           OffIsOff, RestartsTheDead, Handling
  <2>4. FaultPassedOn'
    BY <1>11, <1>1
       DEF EnterSafeOnLimit, FaultPassedOn, ManagerType, ProcType, FlagType,
           RestartsTheDead, FaultRemembered
  <2> QED
    BY <1>11, <1>1, <1>2, <2>1, <2>2, <2>3, <2>4
       DEF EnterSafeOnLimit, FaultStaysSafe, Alive, FaultInv
<1>12. CASE Stay
  <2>1. OffIsOff'
    BY <1>12, <1>1 DEF Stay, StaySafe, OffIsOff, ManagerType, ProcType, FlagType
  <2>2. RestartsTheDead'
    BY <1>12, <1>1
       DEF Stay, StaySafe, RestartsTheDead, Handling, Alive, ManagerType, ProcType,
           FlagType, OffIsOff
  <2>3. FaultRemembered'
    BY <1>12, <1>1
       DEF Stay, StaySafe, FaultRemembered, Alive, ManagerType, ProcType, FlagType,
           OffIsOff, RestartsTheDead, Handling
  <2>4. FaultPassedOn'
    BY <1>12, <1>1
       DEF Stay, StaySafe, FaultPassedOn, ManagerType, ProcType, FlagType, RestartsTheDead,
           FaultRemembered
  <2> QED
    BY <1>12, <1>1, <1>2, <2>1, <2>2, <2>3, <2>4 DEF Stay, FaultStaysSafe, Alive, FaultInv
<1>13. CASE Spawn
  <2>1. OffIsOff'
    BY <1>13, <1>1
       DEF Spawn, Started, Counted, NoRuntime, NoMonitor, OffIsOff, ManagerType, ProcType,
           FlagType
  <2>2. RestartsTheDead'
    BY <1>13, <1>1
       DEF Spawn, Started, Counted, NoRuntime, NoMonitor, RestartsTheDead, Handling, Alive,
           ManagerType, ProcType, FlagType, OffIsOff
  <2>3. FaultRemembered'
    BY <1>13, <1>1
       DEF Spawn, Started, Counted, NoRuntime, NoMonitor, FaultRemembered, Alive,
           ManagerType, ProcType, FlagType, OffIsOff, RestartsTheDead, Handling
  <2>4. FaultPassedOn'
    BY <1>13, <1>1
       DEF Spawn, Started, Counted, NoRuntime, NoMonitor, FaultPassedOn, ManagerType,
           ProcType, FlagType, RestartsTheDead, FaultRemembered
  <2>5. FaultStaysSafe'
    BY <1>13, <1>1
       DEF Spawn, Started, Counted, NoRuntime, NoMonitor, FaultStaysSafe, Alive,
           ManagerType, ProcType, FlagType, FaultRemembered, FaultPassedOn, OffIsOff
  <2> QED
    BY <1>1, <1>2, <2>1, <2>2, <2>3, <2>4, <2>5 DEF FaultInv
<1>14. CASE Connect
  <2>1. OffIsOff'
    BY <1>14, <1>1 DEF Connect, Open, InService, To, OffIsOff, ManagerType, ProcType, FlagType
  <2>2. RestartsTheDead'
    BY <1>14, <1>1
       DEF Connect, Open, InService, To, RestartsTheDead, Handling, Alive, ManagerType,
           ProcType, FlagType, OffIsOff
  <2>3. FaultRemembered'
    BY <1>14, <1>1
       DEF Connect, Open, InService, To, FaultRemembered, Alive, ManagerType, ProcType,
           FlagType, OffIsOff, RestartsTheDead, Handling
  <2>4. FaultPassedOn'
    BY <1>14, <1>1
       DEF Connect, Open, InService, To, FaultPassedOn, ManagerType, ProcType, FlagType,
           RestartsTheDead, FaultRemembered
  <2> QED
    BY <1>14, <1>1, <1>2, <2>1, <2>2, <2>3, <2>4 DEF Connect, FaultStaysSafe, Alive, FaultInv
<1>15. CASE StopManager
  <2>1. OffIsOff'
    BY <1>15, <1>1 DEF StopManager, OffIsOff, ManagerType, ProcType, FlagType
  <2>2. FaultRemembered'
    BY <1>15, <1>1
       DEF StopManager, FaultRemembered, Alive, ManagerType, ProcType, FlagType, OffIsOff,
           RestartsTheDead, Handling
  <2> QED
    BY <1>15, <1>1, <1>2, <2>1, <2>2
       DEF StopManager, RestartsTheDead, Handling, Alive, FaultPassedOn, FaultStaysSafe,
           FaultInv
<1>16. CASE Joined
  <2>1. OffIsOff'
    BY <1>16, <1>1 DEF Joined, MayKill, OffIsOff, ManagerType, ProcType, FlagType
  <2>2. FaultRemembered'
    BY <1>16, <1>1
       DEF Joined, MayKill, FaultRemembered, Alive, ManagerType, ProcType, FlagType,
           OffIsOff, RestartsTheDead, Handling
  <2> QED
    BY <1>16, <1>1, <1>2, <2>1, <2>2
       DEF Joined, RestartsTheDead, Handling, Alive, FaultPassedOn, FaultStaysSafe, FaultInv
<1>17. CASE JoinExpires
  <2>1. OffIsOff'
    BY <1>17, <1>1 DEF JoinExpires, OffIsOff, ManagerType, ProcType, FlagType
  <2>2. FaultRemembered'
    BY <1>17, <1>1
       DEF JoinExpires, FaultRemembered, Alive, ManagerType, ProcType, FlagType, OffIsOff,
           RestartsTheDead, Handling
  <2> QED
    BY <1>17, <1>1, <1>2, <2>1, <2>2
       DEF JoinExpires, RestartsTheDead, Handling, Alive, FaultPassedOn, FaultStaysSafe,
           FaultInv
<1>18. CASE Kill
  <2>1. OffIsOff'
    BY <1>18, <1>1 DEF Kill, NoRuntime, OffIsOff, ManagerType, ProcType, FlagType
  <2>2. RestartsTheDead'
    BY <1>18, <1>1
       DEF Kill, NoRuntime, RestartsTheDead, Handling, Alive, ManagerType, ProcType,
           FlagType, OffIsOff
  <2>3. FaultRemembered'
    BY <1>18, <1>1
       DEF Kill, NoRuntime, FaultRemembered, Alive, ManagerType, ProcType, FlagType,
           OffIsOff, RestartsTheDead, Handling
  <2>4. FaultStaysSafe'
    BY <1>18, <1>1
       DEF Kill, NoRuntime, FaultStaysSafe, Alive, ManagerType, ProcType, FlagType,
           FaultRemembered, FaultPassedOn, OffIsOff
  <2> QED
    BY <1>18, <1>1, <1>2, <2>1, <2>2, <2>3, <2>4 DEF Kill, FaultPassedOn, FaultInv
<1>19. CASE Stopped
  <2>1. OffIsOff'
    BY <1>19, <1>1 DEF Stopped, Close, OffIsOff, ManagerType, ProcType, FlagType
  <2>2. RestartsTheDead'
    BY <1>19, <1>1
       DEF Stopped, Close, RestartsTheDead, Handling, Alive, ManagerType, ProcType,
           FlagType, OffIsOff
  <2>3. FaultRemembered'
    BY <1>19, <1>1
       DEF Stopped, Close, FaultRemembered, Alive, ManagerType, ProcType, FlagType,
           OffIsOff, RestartsTheDead, Handling
  <2> QED
    BY <1>19, <1>1, <1>2, <2>1, <2>2, <2>3
       DEF Stopped, FaultPassedOn, FaultStaysSafe, Alive, FaultInv
<1>20. CASE ServerDies
  <2>1. OffIsOff'
    BY <1>20, <1>1 DEF ServerDies, Close, NoMonitor, OffIsOff, ManagerType, ProcType, FlagType
  <2>2. RestartsTheDead'
    BY <1>20, <1>1
       DEF ServerDies, Close, NoMonitor, RestartsTheDead, Handling, Alive, ManagerType,
           ProcType, FlagType, OffIsOff
  <2>3. FaultRemembered'
    BY <1>20, <1>1
       DEF ServerDies, Close, NoMonitor, FaultRemembered, Alive, ManagerType, ProcType,
           FlagType, OffIsOff, RestartsTheDead, Handling
  <2>4. FaultPassedOn'
    BY <1>20, <1>1
       DEF ServerDies, Close, NoMonitor, FaultPassedOn, ManagerType, ProcType, FlagType,
           RestartsTheDead, FaultRemembered
  <2>5. FaultStaysSafe'
    BY <1>20, <1>1
       DEF ServerDies, Close, NoMonitor, FaultStaysSafe, Alive, ManagerType, ProcType,
           FlagType, FaultRemembered, FaultPassedOn, OffIsOff
  <2> QED
    BY <1>1, <1>2, <2>1, <2>2, <2>3, <2>4, <2>5 DEF FaultInv
<1>21. CASE ResetCrashTracking
  <2>1. OffIsOff'
    BY <1>21, <1>1 DEF ResetCrashTracking, AfterReset, OffIsOff, ManagerType, ProcType, FlagType
  <2>2. FaultRemembered'
    BY <1>21, <1>1
       DEF ResetCrashTracking, AfterReset, FaultRemembered, Alive, ManagerType, ProcType,
           FlagType, OffIsOff, RestartsTheDead, Handling
  <2>3. FaultPassedOn'
    BY <1>21, <1>1
       DEF ResetCrashTracking, AfterReset, FaultPassedOn, ManagerType, ProcType, FlagType,
           RestartsTheDead, FaultRemembered
  <2>4. FaultStaysSafe'
    BY <1>21, <1>1
       DEF ResetCrashTracking, AfterReset, FaultStaysSafe, Alive, ManagerType, ProcType,
           FlagType, FaultRemembered, FaultPassedOn, OffIsOff
  <2> QED
    BY <1>21, <1>1, <1>2, <2>1, <2>2, <2>3, <2>4
       DEF ResetCrashTracking, RestartsTheDead, Handling, Alive, FaultInv
<1>22. CASE ForgetCrash
  BY <1>22, <1>1, <1>2
     DEF ForgetCrash, OffIsOff, RestartsTheDead, Handling, Alive, FaultRemembered,
         FaultPassedOn, FaultStaysSafe, FaultInv
<1>23. CASE Ready
  <2>1. OffIsOff'
    BY <1>23, <1>1 DEF Ready, OffIsOff, ManagerType, ProcType, FlagType
  <2>2. RestartsTheDead'
    BY <1>23, <1>1
       DEF Ready, RestartsTheDead, Handling, Alive, ManagerType, ProcType, FlagType,
           OffIsOff
  <2>3. FaultRemembered'
    BY <1>23, <1>1
       DEF Ready, FaultRemembered, Alive, ManagerType, ProcType, FlagType, OffIsOff,
           RestartsTheDead, Handling
  <2>4. FaultStaysSafe'
    BY <1>23, <1>1
       DEF Ready, FaultStaysSafe, Alive, ManagerType, ProcType, FlagType, FaultRemembered,
           FaultPassedOn, OffIsOff
  <2> QED
    BY <1>23, <1>1, <1>2, <2>1, <2>2, <2>3, <2>4 DEF Ready, FaultPassedOn, FaultInv
<1>24. CASE Answer
  BY <1>24, <1>1, <1>2
     DEF Answer, OffIsOff, RestartsTheDead, Handling, Alive, FaultRemembered, FaultPassedOn,
         FaultStaysSafe, FaultInv
<1>25. ASSUME NEW fault \in BOOLEAN, Dies(fault) PROVE FaultInv'
  <2>1. OffIsOff'
    BY <1>25, <1>1 DEF Dies, Counted, OffIsOff, ManagerType, ProcType, FlagType
  <2>2. RestartsTheDead'
    BY <1>25, <1>1
       DEF Dies, Counted, RestartsTheDead, Handling, Alive, ManagerType, ProcType, FlagType,
           OffIsOff
  <2>3. FaultRemembered'
    <3>1. /\ mon' = mon /\ mgr' = mgr /\ safeMode' = safeMode /\ Alive /\ ~Alive'
          /\ proc'.own = proc.own /\ proc'.fault = fault
      BY <1>25, <1>1 DEF Dies, Alive, ProcType
    <3>2. faulted' => faulted \/ (fault /\ proc.own)
      BY <1>25 DEF Dies
    <3>3. faulted => safeMode
      BY <1>1, <3>1 DEF FaultRemembered
    <3>4. mon.pc \in {"off", "check", "connect"}
      BY <1>1, <3>1 DEF RestartsTheDead, Handling, ManagerType
    <3>5. (proc.own => proc'.own) /\ (fault => proc'.fault)
      BY <3>1
    <3>6. CASE faulted
      BY <3>1, <3>3, <3>6 DEF FaultRemembered
    <3>7. CASE ~faulted
      BY <3>1, <3>2, <3>4, <3>5, <3>7, Zenon DEF FaultRemembered
    <3> QED
      BY <3>6, <3>7
  <2>4. FaultPassedOn'
    <3>1. mon' = mon /\ mon.pc # "spawn"
      BY <1>25, <1>1 DEF Dies, RestartsTheDead, Handling
    <3> QED
      BY <3>1 DEF FaultPassedOn
  <2>5. FaultStaysSafe'
    <3>1. ~Alive'
      BY <1>25, <1>1 DEF Dies, Alive, ProcType
    <3> QED
      BY <3>1 DEF FaultStaysSafe
  <2> QED
    BY <1>1, <1>2, <2>1, <2>2, <2>3, <2>4, <2>5 DEF FaultInv
<1>26. ASSUME NEW c \in Callers, CallCheck(c) PROVE FaultInv'
  BY <1>26, <1>1, <1>2
     DEF CallCheck, OffIsOff, RestartsTheDead, Handling, Alive, FaultRemembered,
         FaultPassedOn, FaultStaysSafe, FaultInv
<1>27. ASSUME NEW c \in Callers, Send(c) PROVE FaultInv'
  BY <1>27, <1>1, <1>2
     DEF Send, OffIsOff, RestartsTheDead, Handling, Alive, FaultRemembered, FaultPassedOn,
         FaultStaysSafe, FaultInv
<1>28. ASSUME NEW c \in Callers, SendFails(c) PROVE FaultInv'
  BY <1>28, <1>1, <1>2
     DEF SendFails, OffIsOff, RestartsTheDead, Handling, Alive, FaultRemembered,
         FaultPassedOn, FaultStaysSafe, FaultInv
<1>29. ASSUME NEW c \in Callers, Receive(c) PROVE FaultInv'
  BY <1>29, <1>1, <1>2
     DEF Receive, OffIsOff, RestartsTheDead, Handling, Alive, FaultRemembered,
         FaultPassedOn, FaultStaysSafe, FaultInv
<1>30. ASSUME NEW c \in Callers, GiveUp(c) PROVE FaultInv'
  BY <1>30, <1>1, <1>2
     DEF GiveUp, OffIsOff, RestartsTheDead, Handling, Alive, FaultRemembered, FaultPassedOn,
         FaultStaysSafe, FaultInv
<1>31. CASE UNCHANGED vars
  BY <1>31, <1>1, <1>2
     DEF OffIsOff, RestartsTheDead, Handling, Alive, FaultRemembered, FaultPassedOn,
         FaultStaysSafe, FaultInv
<1> QED
  BY <1>3, <1>4, <1>5, <1>6, <1>7, <1>8, <1>9, <1>10, <1>11, <1>12, <1>13, <1>14, <1>15,
     <1>16, <1>17, <1>18, <1>19, <1>20, <1>21, <1>22, <1>23, <1>24, <1>25, <1>26, <1>27,
     <1>28, <1>29, <1>30, <1>31
     DEF Next, Monitor, Caller

(* ---- one runtime, and nothing after stop -------------------------------- *)

\* The initial state has no connection and nothing to stop.
LEMMA HoldInit == Init => HoldInv
  BY FaultInit DEF Init, HoldInv, LinkOfLast, Quiesced

\* Every step keeps to the last runtime, and leaves nothing behind a stop that was in time.
LEMMA HoldNext == HoldInv /\ [Next]_vars => HoldInv'
<1> SUFFICES ASSUME HoldInv, [Next]_vars PROVE HoldInv'
  OBVIOUS
<1>1. TypeOK /\ ManagerType /\ ProcType /\ FlagType /\ LinkType /\ FaultInv /\ OffIsOff /\
      RestartsTheDead /\ LinkOfLast /\ Quiesced
  BY TypeParts DEF HoldInv, FaultInv
<1>2. FaultInv'
  BY <1>1, FaultNext
<1>3. CASE Adopt
  <2>1. LinkOfLast'
    BY <1>3, <1>1
       DEF Adopt, Open, InService, NoMonitor, LinkOfLast, ManagerType, ProcType, FlagType,
           OffIsOff, RestartsTheDead, Handling, LinkType
  <2>2. Quiesced'
    BY <1>3, <1>1
       DEF Adopt, Open, InService, NoMonitor, Quiesced, Alive, ManagerType, ProcType,
           FlagType, OffIsOff
  <2> QED
    BY <1>1, <1>2, <2>1, <2>2 DEF HoldInv
<1>4. CASE StartFresh
  <2>1. LinkOfLast'
    BY <1>4, <1>1
       DEF StartFresh, Started, Counted, NoRuntime, NoMonitor, LinkOfLast, ManagerType,
           ProcType, FlagType, OffIsOff, RestartsTheDead, Handling, LinkType
  <2>2. Quiesced'
    BY <1>4, <1>1
       DEF StartFresh, Started, Counted, NoRuntime, NoMonitor, Quiesced, Alive, ManagerType,
           ProcType, FlagType, OffIsOff
  <2> QED
    BY <1>1, <1>2, <2>1, <2>2 DEF HoldInv
<1>5. CASE Watch
  <2>1. LinkOfLast'
    BY <1>5, <1>1
       DEF Watch, Reconnect, Open, InService, LinkOfLast, ManagerType, ProcType, FlagType,
           OffIsOff, RestartsTheDead, Handling, LinkType
  <2>2. Quiesced'
    BY <1>5, <1>1
       DEF Watch, Reconnect, Open, InService, Quiesced, Alive, ManagerType, ProcType,
           FlagType, OffIsOff
  <2> QED
    BY <1>1, <1>2, <2>1, <2>2 DEF HoldInv
<1>6. CASE MonitorEnds
  <2>1. Quiesced'
    BY <1>6, <1>1
       DEF MonitorEnds, NoMonitor, Quiesced, Alive, ManagerType, ProcType, FlagType,
           OffIsOff
  <2> QED
    BY <1>6, <1>1, <1>2, <2>1 DEF MonitorEnds, LinkOfLast, HoldInv
<1>7. CASE NoticeExit
  <2>1. Quiesced'
    BY <1>7, <1>1 DEF NoticeExit, Quiesced, Alive, ManagerType, ProcType, FlagType, OffIsOff
  <2> QED
    BY <1>7, <1>1, <1>2, <2>1 DEF NoticeExit, LinkOfLast, HoldInv
<1>8. CASE CloseLink
  <2>1. LinkOfLast'
    BY <1>8, <1>1
       DEF CloseLink, Close, To, LinkOfLast, ManagerType, ProcType, FlagType, OffIsOff,
           RestartsTheDead, Handling, LinkType
  <2>2. Quiesced'
    BY <1>8, <1>1
       DEF CloseLink, Close, To, Quiesced, Alive, ManagerType, ProcType, FlagType, OffIsOff
  <2> QED
    BY <1>1, <1>2, <2>1, <2>2 DEF HoldInv
<1>9. CASE EnterSafeOnFault
  <2>1. Quiesced'
    BY <1>9, <1>1
       DEF EnterSafeOnFault, Quiesced, Alive, ManagerType, ProcType, FlagType, OffIsOff
  <2> QED
    BY <1>9, <1>1, <1>2, <2>1 DEF EnterSafeOnFault, LinkOfLast, HoldInv
<1>10. CASE RecordCrash
  <2>1. Quiesced'
    BY <1>10, <1>1
       DEF RecordCrash, To, Quiesced, Alive, ManagerType, ProcType, FlagType, OffIsOff
  <2> QED
    BY <1>10, <1>1, <1>2, <2>1 DEF RecordCrash, LinkOfLast, HoldInv
<1>11. CASE EnterSafeOnLimit
  <2>1. Quiesced'
    BY <1>11, <1>1
       DEF EnterSafeOnLimit, Quiesced, Alive, ManagerType, ProcType, FlagType, OffIsOff
  <2> QED
    BY <1>11, <1>1, <1>2, <2>1 DEF EnterSafeOnLimit, LinkOfLast, HoldInv
<1>12. CASE Stay
  <2>1. Quiesced'
    BY <1>12, <1>1
       DEF Stay, StaySafe, Quiesced, Alive, ManagerType, ProcType, FlagType, OffIsOff
  <2> QED
    BY <1>12, <1>1, <1>2, <2>1 DEF Stay, LinkOfLast, HoldInv
<1>13. CASE Spawn
  <2>1. LinkOfLast'
    BY <1>13, <1>1
       DEF Spawn, Started, Counted, NoRuntime, NoMonitor, LinkOfLast, ManagerType, ProcType,
           FlagType, OffIsOff, RestartsTheDead, Handling, LinkType
  <2>2. Quiesced'
    BY <1>13, <1>1
       DEF Spawn, Started, Counted, NoRuntime, NoMonitor, Quiesced, Alive, ManagerType,
           ProcType, FlagType, OffIsOff
  <2> QED
    BY <1>1, <1>2, <2>1, <2>2 DEF HoldInv
<1>14. CASE Connect
  <2>1. LinkOfLast'
    BY <1>14, <1>1
       DEF Connect, Open, InService, To, LinkOfLast, ManagerType, ProcType, FlagType,
           OffIsOff, RestartsTheDead, Handling, LinkType
  <2>2. Quiesced'
    BY <1>14, <1>1
       DEF Connect, Open, InService, To, Quiesced, Alive, ManagerType, ProcType, FlagType,
           OffIsOff
  <2> QED
    BY <1>1, <1>2, <2>1, <2>2 DEF HoldInv
<1>15. CASE StopManager
  <2>1. Quiesced'
    BY <1>15, <1>1 DEF StopManager, Quiesced, Alive, ManagerType, ProcType, FlagType, OffIsOff
  <2> QED
    BY <1>15, <1>1, <1>2, <2>1 DEF StopManager, LinkOfLast, HoldInv
<1>16. CASE Joined
  <2>1. Quiesced'
    BY <1>16, <1>1
       DEF Joined, MayKill, Quiesced, Alive, ManagerType, ProcType, FlagType, OffIsOff
  <2> QED
    BY <1>16, <1>1, <1>2, <2>1 DEF Joined, LinkOfLast, HoldInv
<1>17. CASE JoinExpires
  <2>1. Quiesced'
    BY <1>17, <1>1 DEF JoinExpires, Quiesced, Alive, ManagerType, ProcType, FlagType, OffIsOff
  <2> QED
    BY <1>17, <1>1, <1>2, <2>1 DEF JoinExpires, LinkOfLast, HoldInv
<1>18. CASE Kill
  <2>1. LinkOfLast'
    BY <1>18, <1>1
       DEF Kill, NoRuntime, LinkOfLast, ManagerType, ProcType, FlagType, OffIsOff,
           RestartsTheDead, Handling, LinkType
  <2>2. Quiesced'
    BY <1>18, <1>1
       DEF Kill, NoRuntime, Quiesced, Alive, ManagerType, ProcType, FlagType, OffIsOff
  <2> QED
    BY <1>1, <1>2, <2>1, <2>2 DEF HoldInv
<1>19. CASE Stopped
  <2>1. LinkOfLast'
    BY <1>19, <1>1
       DEF Stopped, Close, LinkOfLast, ManagerType, ProcType, FlagType, OffIsOff,
           RestartsTheDead, Handling, LinkType
  <2>2. Quiesced'
    BY <1>19, <1>1
       DEF Stopped, Close, Quiesced, Alive, ManagerType, ProcType, FlagType, OffIsOff
  <2> QED
    BY <1>1, <1>2, <2>1, <2>2 DEF HoldInv
<1>20. CASE ServerDies
  <2>1. LinkOfLast'
    BY <1>20, <1>1
       DEF ServerDies, Close, NoMonitor, LinkOfLast, ManagerType, ProcType, FlagType,
           OffIsOff, RestartsTheDead, Handling, LinkType
  <2>2. Quiesced'
    BY <1>20, <1>1
       DEF ServerDies, Close, NoMonitor, Quiesced, Alive, ManagerType, ProcType, FlagType,
           OffIsOff
  <2> QED
    BY <1>1, <1>2, <2>1, <2>2 DEF HoldInv
<1>21. CASE ResetCrashTracking
  BY <1>21, <1>1, <1>2 DEF ResetCrashTracking, LinkOfLast, Quiesced, Alive, HoldInv
<1>22. CASE ForgetCrash
  BY <1>22, <1>1, <1>2 DEF ForgetCrash, LinkOfLast, Quiesced, Alive, HoldInv
<1>23. CASE Ready
  <2>1. LinkOfLast'
    BY <1>23, <1>1
       DEF Ready, LinkOfLast, ManagerType, ProcType, FlagType, OffIsOff, RestartsTheDead,
           Handling, LinkType
  <2>2. Quiesced'
    BY <1>23, <1>1 DEF Ready, Quiesced, Alive, ManagerType, ProcType, FlagType, OffIsOff
  <2> QED
    BY <1>1, <1>2, <2>1, <2>2 DEF HoldInv
<1>24. CASE Answer
  BY <1>24, <1>1, <1>2 DEF Answer, LinkOfLast, Quiesced, Alive, HoldInv
<1>25. ASSUME NEW fault \in BOOLEAN, Dies(fault) PROVE HoldInv'
  <2>1. LinkOfLast'
    BY <1>25, <1>1
       DEF Dies, Counted, LinkOfLast, ManagerType, ProcType, FlagType, OffIsOff,
           RestartsTheDead, Handling, LinkType
  <2>2. Quiesced'
    BY <1>25, <1>1 DEF Dies, Counted, Quiesced, Alive, ManagerType, ProcType, FlagType, OffIsOff
  <2> QED
    BY <1>1, <1>2, <2>1, <2>2 DEF HoldInv
<1>26. ASSUME NEW c \in Callers, CallCheck(c) PROVE HoldInv'
  BY <1>26, <1>1, <1>2 DEF CallCheck, LinkOfLast, Quiesced, Alive, HoldInv
<1>27. ASSUME NEW c \in Callers, Send(c) PROVE HoldInv'
  BY <1>27, <1>1, <1>2 DEF Send, LinkOfLast, Quiesced, Alive, HoldInv
<1>28. ASSUME NEW c \in Callers, SendFails(c) PROVE HoldInv'
  BY <1>28, <1>1, <1>2 DEF SendFails, LinkOfLast, Quiesced, Alive, HoldInv
<1>29. ASSUME NEW c \in Callers, Receive(c) PROVE HoldInv'
  BY <1>29, <1>1, <1>2 DEF Receive, LinkOfLast, Quiesced, Alive, HoldInv
<1>30. ASSUME NEW c \in Callers, GiveUp(c) PROVE HoldInv'
  BY <1>30, <1>1, <1>2 DEF GiveUp, LinkOfLast, Quiesced, Alive, HoldInv
<1>31. CASE UNCHANGED vars
  BY <1>31, <1>1, <1>2 DEF LinkOfLast, Quiesced, Alive, HoldInv
<1> QED
  BY <1>3, <1>4, <1>5, <1>6, <1>7, <1>8, <1>9, <1>10, <1>11, <1>12, <1>13, <1>14, <1>15,
     <1>16, <1>17, <1>18, <1>19, <1>20, <1>21, <1>22, <1>23, <1>24, <1>25, <1>26, <1>27,
     <1>28, <1>29, <1>30, <1>31
     DEF Next, Monitor, Caller

\* What the manager holds on to: one runtime, the last it started; safe mode, after a
\* fault; nothing, after stop().
THEOREM LinkSoundHolds == Spec => []LinkSound
<1>1. HoldInv => LinkSound
  BY DEF HoldInv, FaultInv, LinkSound, LinkOfLast, LinkCurrent, Quiesced, StopFinal
<1> QED
  BY <1>1, HoldInit, HoldNext, PTL DEF Spec

(* ---- whose answer ------------------------------------------------------- *)

\* Nobody waits at first.
LEMMA WaitInit == Init => WaitInv
<1> SUFFICES ASSUME Init PROVE WaitInv
  OBVIOUS
<1>1. TypeOK
  BY TypeInit
<1>2. DOMAIN line = {}
  BY DEF Init
<1> QED
  BY <1>1, <1>2 DEF Init, WaitInv, OneWaits

\* Every step keeps one caller waiting, and the others' commands marked late.
LEMMA WaitNext == WaitInv /\ [Next]_vars => WaitInv'
<1> SUFFICES ASSUME WaitInv, [Next]_vars PROVE WaitInv'
  OBVIOUS
<1>1. TypeOK /\ LinkType /\ CallType /\ OneWaits
  BY TypeParts DEF WaitInv
<1>2. TypeOK'
  BY <1>1, TypeNext
<1>3. CASE Adopt
  <2>1. OneWaits'
    BY <1>3, <1>1, LinkAssumption
       DEF Adopt, Open, InService, NoMonitor, OneWaits, LinkType, CallType
  <2> QED
    BY <1>1, <1>2, <2>1 DEF WaitInv
<1>4. CASE StartFresh
  BY <1>4, <1>1, <1>2 DEF StartFresh, OneWaits, WaitInv
<1>5. CASE Watch
  <2>1. OneWaits'
    BY <1>5, <1>1, LinkAssumption
       DEF Watch, Reconnect, Open, InService, OneWaits, LinkType, CallType
  <2> QED
    BY <1>1, <1>2, <2>1 DEF WaitInv
<1>6. CASE MonitorEnds
  BY <1>6, <1>1, <1>2 DEF MonitorEnds, OneWaits, WaitInv
<1>7. CASE NoticeExit
  BY <1>7, <1>1, <1>2 DEF NoticeExit, OneWaits, WaitInv
<1>8. CASE CloseLink
  <2>1. OneWaits'
    BY <1>8, <1>1, LinkAssumption DEF CloseLink, Close, To, OneWaits, LinkType, CallType
  <2> QED
    BY <1>1, <1>2, <2>1 DEF WaitInv
<1>9. CASE EnterSafeOnFault
  BY <1>9, <1>1, <1>2 DEF EnterSafeOnFault, OneWaits, WaitInv
<1>10. CASE RecordCrash
  BY <1>10, <1>1, <1>2 DEF RecordCrash, OneWaits, WaitInv
<1>11. CASE EnterSafeOnLimit
  BY <1>11, <1>1, <1>2 DEF EnterSafeOnLimit, OneWaits, WaitInv
<1>12. CASE Stay
  BY <1>12, <1>1, <1>2 DEF Stay, OneWaits, WaitInv
<1>13. CASE Spawn
  BY <1>13, <1>1, <1>2 DEF Spawn, OneWaits, WaitInv
<1>14. CASE Connect
  <2>1. OneWaits'
    BY <1>14, <1>1, LinkAssumption
       DEF Connect, Open, InService, To, OneWaits, LinkType, CallType
  <2> QED
    BY <1>1, <1>2, <2>1 DEF WaitInv
<1>15. CASE StopManager
  <2>1. OneWaits'
    <3>1. /\ line' = line \/ line' = Append(line, Late)
          /\ UNCHANGED <<mutex, call>>
      BY <1>15 DEF StopManager
    <3>2. \A k \in DOMAIN line' : line'[k] = Late \/ (k \in DOMAIN line /\ line'[k] = line[k])
      BY <1>1, <3>1 DEF LinkType
    <3> QED
      BY <1>1, <3>1, <3>2 DEF OneWaits
  <2> QED
    BY <1>1, <1>2, <2>1 DEF WaitInv
<1>16. CASE Joined
  BY <1>16, <1>1, <1>2 DEF Joined, OneWaits, WaitInv
<1>17. CASE JoinExpires
  BY <1>17, <1>1, <1>2 DEF JoinExpires, OneWaits, WaitInv
<1>18. CASE Kill
  BY <1>18, <1>1, <1>2 DEF Kill, OneWaits, WaitInv
<1>19. CASE Stopped
  <2>1. OneWaits'
    BY <1>19, <1>1, LinkAssumption DEF Stopped, Close, OneWaits, LinkType, CallType
  <2> QED
    BY <1>1, <1>2, <2>1 DEF WaitInv
<1>20. CASE ServerDies
  <2>1. OneWaits'
    BY <1>20, <1>1, LinkAssumption
       DEF ServerDies, Close, NoMonitor, OneWaits, LinkType, CallType
  <2> QED
    BY <1>1, <1>2, <2>1 DEF WaitInv
<1>21. CASE ResetCrashTracking
  BY <1>21, <1>1, <1>2 DEF ResetCrashTracking, OneWaits, WaitInv
<1>22. CASE ForgetCrash
  BY <1>22, <1>1, <1>2 DEF ForgetCrash, OneWaits, WaitInv
<1>23. CASE Ready
  BY <1>23, <1>1, <1>2 DEF Ready, OneWaits, WaitInv
<1>24. CASE Answer
  BY <1>24, <1>1, <1>2 DEF Answer, OneWaits, WaitInv
<1>25. ASSUME NEW fault \in BOOLEAN, Dies(fault) PROVE WaitInv'
  BY <1>25, <1>1, <1>2 DEF Dies, OneWaits, WaitInv
<1>26. ASSUME NEW c \in Callers, CallCheck(c) PROVE WaitInv'
  <2>1. OneWaits'
    BY <1>26, <1>1, LinkAssumption DEF CallCheck, OneWaits, LinkType, CallType
  <2> QED
    BY <1>1, <1>2, <2>1 DEF WaitInv
<1>27. ASSUME NEW c \in Callers, Send(c) PROVE WaitInv'
  <2>1. OneWaits'
    BY <1>27, <1>1, LinkAssumption DEF Send, MaySend, OneWaits, LinkType, CallType
  <2> QED
    BY <1>1, <1>2, <2>1 DEF WaitInv
<1>28. ASSUME NEW c \in Callers, SendFails(c) PROVE WaitInv'
  <2>1. OneWaits'
    BY <1>28, <1>1, LinkAssumption DEF SendFails, MaySend, OneWaits, LinkType, CallType
  <2> QED
    BY <1>1, <1>2, <2>1 DEF WaitInv
<1>29. ASSUME NEW c \in Callers, Receive(c) PROVE WaitInv'
  <2>1. OneWaits'
    <3> DEFINE rest == Tail(line)
    <3>1. mutex = c /\ \A x \in Callers \ {c} : call[x] # "recv"
      BY <1>29, <1>1 DEF Receive, OneWaits
    <3>2. \A k \in DOMAIN line : line[k] \in {c, Late}
      BY <1>1, <3>1 DEF OneWaits
    <3>3. rest \in Seq(Callers \cup {Late}) /\ \A k \in DOMAIN rest : rest[k] \in {c, Late}
      BY <1>29, <1>1, <3>2 DEF Receive, LinkType
    <3>4. line' = LeftBy(c, rest)
      BY <1>29 DEF Receive
    <3>5. \A x \in Callers : call'[x] # "recv"
      BY <1>29, <1>1, <3>1 DEF Receive, CallType
    <3> HIDE DEF rest
    <3>6. \A k \in DOMAIN line' : line'[k] = Late
      BY <3>3, <3>4, LeftLine
    <3> QED
      BY <3>5, <3>6 DEF OneWaits
  <2> QED
    BY <1>1, <1>2, <2>1 DEF WaitInv
<1>30. ASSUME NEW c \in Callers, GiveUp(c) PROVE WaitInv'
  <2>1. OneWaits'
    <3> DEFINE rest == line
    <3>1. mutex = c /\ \A x \in Callers \ {c} : call[x] # "recv"
      BY <1>30, <1>1 DEF GiveUp, OneWaits
    <3>2. \A k \in DOMAIN line : line[k] \in {c, Late}
      BY <1>1, <3>1 DEF OneWaits
    <3>3. rest \in Seq(Callers \cup {Late}) /\ \A k \in DOMAIN rest : rest[k] \in {c, Late}
      BY <1>30, <1>1, <3>2 DEF GiveUp, LinkType
    <3>4. line' = LeftBy(c, rest)
      BY <1>30 DEF GiveUp
    <3>5. \A x \in Callers : call'[x] # "recv"
      BY <1>30, <1>1, <3>1 DEF GiveUp, CallType
    <3> HIDE DEF rest
    <3>6. \A k \in DOMAIN line' : line'[k] = Late
      BY <3>3, <3>4, LeftLine
    <3> QED
      BY <3>5, <3>6 DEF OneWaits
  <2> QED
    BY <1>1, <1>2, <2>1 DEF WaitInv
<1>31. CASE UNCHANGED vars
  BY <1>31, <1>1, <1>2 DEF OneWaits, WaitInv
<1> QED
  BY <1>3, <1>4, <1>5, <1>6, <1>7, <1>8, <1>9, <1>10, <1>11, <1>12, <1>13, <1>14, <1>15,
     <1>16, <1>17, <1>18, <1>19, <1>20, <1>21, <1>22, <1>23, <1>24, <1>25, <1>26, <1>27,
     <1>28, <1>29, <1>30, <1>31
     DEF Next, Monitor, Caller

\* Nobody reads the answer to a command that another caller still waits for.
THEOREM NoCrossTalkHolds == Spec => NoCrossTalk
<1>1. WaitInv /\ [Next]_vars => [\A c \in Callers : Receive(c) => Head(line) \in {c, Late}]_vars
  <2> SUFFICES ASSUME WaitInv, NEW c \in Callers, Receive(c) PROVE Head(line) \in {c, Late}
    OBVIOUS
  <2>1. LinkType /\ CallType /\ OneWaits
    BY TypeParts DEF WaitInv
  <2>2. 1 \in DOMAIN line /\ Head(line) = line[1]
    BY <2>1 DEF Receive, LinkType
  <2>3. mutex = c
    BY <2>1 DEF Receive, OneWaits
  <2>4. line[1] = Late \/ (line[1] \in Callers /\ call[line[1]] = "recv")
    BY <2>1, <2>2 DEF OneWaits
  <2> QED
    BY <2>1, <2>2, <2>3, <2>4 DEF OneWaits
<1> QED
  BY <1>1, WaitInit, WaitNext, PTL DEF Spec, NoCrossTalk

(* ---- why safe mode ------------------------------------------------------ *)

\* No crash is counted at first, and there is no safe mode.
LEMMA CauseInit == Init => CauseInv
  BY FaultInit, LinkAssumption
     DEF Init, CauseInv, CrashesCounted, FaultsKnown, SafeCaused, Unrecorded, Alive,
         NoRuntime, NoMonitor

\* Every step keeps a cause for safe mode.
LEMMA CauseNext == CauseInv /\ [Next]_vars => CauseInv'
<1> SUFFICES ASSUME CauseInv, [Next]_vars PROVE CauseInv'
  OBVIOUS
<1>1. TypeOK /\ ManagerType /\ ProcType /\ CountType /\ FlagType /\ FaultInv /\ OffIsOff /\
      RestartsTheDead /\ CrashesCounted /\ FaultsKnown /\ SafeCaused
  BY TypeParts DEF CauseInv, FaultInv
<1>2. FaultInv'
  BY <1>1, FaultNext
<1>3. CASE Adopt
  <2>1. CrashesCounted'
    BY <1>3, <1>1, LinkAssumption
       DEF Adopt, Open, InService, NoMonitor, CrashesCounted, Unrecorded, Alive,
           ManagerType, ProcType, FlagType, CountType, RestartsTheDead, Handling, OffIsOff
  <2>2. FaultsKnown'
    BY <1>3, <1>1, LinkAssumption
       DEF Adopt, Open, InService, NoMonitor, FaultsKnown, Alive, ManagerType, ProcType,
           FlagType, CountType, OffIsOff, RestartsTheDead, Handling
  <2>3. SafeCaused'
    BY <1>3, <1>1, LinkAssumption
       DEF Adopt, Open, InService, NoMonitor, SafeCaused, Cause, ManagerType, ProcType,
           FlagType, CountType, CrashesCounted, Unrecorded, Alive, FaultsKnown
  <2> QED
    BY <1>1, <1>2, <2>1, <2>2, <2>3 DEF CauseInv
<1>4. CASE StartFresh
  <2>1. CrashesCounted'
    BY <1>4, <1>1, LinkAssumption
       DEF StartFresh, Started, Counted, NoRuntime, NoMonitor, CrashesCounted, Unrecorded,
           Alive, ManagerType, ProcType, FlagType, CountType, RestartsTheDead, Handling,
           OffIsOff
  <2>2. FaultsKnown'
    BY <1>4, <1>1, LinkAssumption
       DEF StartFresh, Started, Counted, NoRuntime, NoMonitor, FaultsKnown, Alive,
           ManagerType, ProcType, FlagType, CountType, OffIsOff, RestartsTheDead, Handling
  <2>3. SafeCaused'
    BY <1>4, <1>1, LinkAssumption
       DEF StartFresh, Started, Counted, NoRuntime, NoMonitor, SafeCaused, Cause,
           ManagerType, ProcType, FlagType, CountType, CrashesCounted, Unrecorded, Alive,
           FaultsKnown
  <2> QED
    BY <1>1, <1>2, <2>1, <2>2, <2>3 DEF CauseInv
<1>5. CASE Watch
  BY <1>5, <1>1, <1>2
     DEF Watch, CrashesCounted, Unrecorded, Alive, FaultsKnown, SafeCaused, Cause, CauseInv
<1>6. CASE MonitorEnds
  <2>1. CrashesCounted'
    BY <1>6, <1>1, LinkAssumption
       DEF MonitorEnds, NoMonitor, CrashesCounted, Unrecorded, Alive, ManagerType, ProcType,
           FlagType, CountType, RestartsTheDead, Handling, OffIsOff
  <2>2. FaultsKnown'
    BY <1>6, <1>1, LinkAssumption
       DEF MonitorEnds, NoMonitor, FaultsKnown, Alive, ManagerType, ProcType, FlagType,
           CountType, OffIsOff, RestartsTheDead, Handling
  <2>3. SafeCaused'
    BY <1>6, <1>1, LinkAssumption
       DEF MonitorEnds, NoMonitor, SafeCaused, Cause, ManagerType, ProcType, FlagType,
           CountType, CrashesCounted, Unrecorded, Alive, FaultsKnown
  <2> QED
    BY <1>1, <1>2, <2>1, <2>2, <2>3 DEF CauseInv
<1>7. CASE NoticeExit
  <2>1. CrashesCounted'
    BY <1>7, <1>1, LinkAssumption
       DEF NoticeExit, CrashesCounted, Unrecorded, Alive, ManagerType, ProcType, FlagType,
           CountType, RestartsTheDead, Handling, OffIsOff
  <2>2. FaultsKnown'
    BY <1>7, <1>1, LinkAssumption
       DEF NoticeExit, FaultsKnown, Alive, ManagerType, ProcType, FlagType, CountType,
           OffIsOff, RestartsTheDead, Handling
  <2>3. SafeCaused'
    BY <1>7, <1>1, LinkAssumption
       DEF NoticeExit, SafeCaused, Cause, ManagerType, ProcType, FlagType, CountType,
           CrashesCounted, Unrecorded, Alive, FaultsKnown
  <2> QED
    BY <1>1, <1>2, <2>1, <2>2, <2>3 DEF CauseInv
<1>8. CASE CloseLink
  <2>1. CrashesCounted'
    BY <1>8, <1>1, LinkAssumption
       DEF CloseLink, Close, To, CrashesCounted, Unrecorded, Alive, ManagerType, ProcType,
           FlagType, CountType, RestartsTheDead, Handling, OffIsOff
  <2>2. FaultsKnown'
    BY <1>8, <1>1, LinkAssumption
       DEF CloseLink, Close, To, FaultsKnown, Alive, ManagerType, ProcType, FlagType,
           CountType, OffIsOff, RestartsTheDead, Handling
  <2>3. SafeCaused'
    BY <1>8, <1>1, LinkAssumption
       DEF CloseLink, Close, To, SafeCaused, Cause, ManagerType, ProcType, FlagType,
           CountType, CrashesCounted, Unrecorded, Alive, FaultsKnown
  <2> QED
    BY <1>1, <1>2, <2>1, <2>2, <2>3 DEF CauseInv
<1>9. CASE EnterSafeOnFault
  <2>1. CrashesCounted'
    BY <1>9, <1>1, LinkAssumption
       DEF EnterSafeOnFault, CrashesCounted, Unrecorded, Alive, ManagerType, ProcType,
           FlagType, CountType, RestartsTheDead, Handling, OffIsOff
  <2>2. FaultsKnown'
    BY <1>9, <1>1, LinkAssumption
       DEF EnterSafeOnFault, FaultsKnown, Alive, ManagerType, ProcType, FlagType, CountType,
           OffIsOff, RestartsTheDead, Handling
  <2>3. SafeCaused'
    BY <1>9, <1>1, LinkAssumption
       DEF EnterSafeOnFault, SafeCaused, Cause, ManagerType, ProcType, FlagType, CountType,
           CrashesCounted, Unrecorded, Alive, FaultsKnown
  <2> QED
    BY <1>1, <1>2, <2>1, <2>2, <2>3 DEF CauseInv
<1>10. CASE RecordCrash
  <2>1. CrashesCounted'
    BY <1>10, <1>1, LinkAssumption
       DEF RecordCrash, To, CrashesCounted, Unrecorded, Alive, ManagerType, ProcType,
           FlagType, CountType, RestartsTheDead, Handling, OffIsOff
  <2>2. FaultsKnown'
    BY <1>10, <1>1, LinkAssumption
       DEF RecordCrash, To, FaultsKnown, Alive, ManagerType, ProcType, FlagType, CountType,
           OffIsOff, RestartsTheDead, Handling
  <2>3. SafeCaused'
    <3>1. mon.pc = "record" /\ ~Alive /\ safeMode' = safeMode
          /\ faulted' = faulted /\ deaths' = deaths /\ raced' = raced
      BY <1>10, <1>1 DEF RecordCrash, RestartsTheDead, Handling
    <3>2. mon'.pc = "limit" => crashes + 1 >= MaxRapid
      BY <1>10, <1>1 DEF RecordCrash, To, ManagerType
    <3>3. mon'.pc # "spawn"
      BY <1>10, <1>1 DEF RecordCrash, To, ManagerType
    <3>4. raced \/ deaths = MaxRapid \/ crashes < deaths
      BY <1>1, <3>1 DEF CrashesCounted, Unrecorded
    <3>5. mon'.pc = "limit" => raced \/ deaths >= MaxRapid
      BY <1>1, <3>2, <3>4, LinkAssumption DEF CountType
    <3> QED
      BY <1>1, <3>1, <3>3, <3>5 DEF SafeCaused, Cause
  <2> QED
    BY <1>1, <1>2, <2>1, <2>2, <2>3 DEF CauseInv
<1>11. CASE EnterSafeOnLimit
  <2>1. CrashesCounted'
    BY <1>11, <1>1, LinkAssumption
       DEF EnterSafeOnLimit, CrashesCounted, Unrecorded, Alive, ManagerType, ProcType,
           FlagType, CountType, RestartsTheDead, Handling, OffIsOff
  <2>2. FaultsKnown'
    BY <1>11, <1>1, LinkAssumption
       DEF EnterSafeOnLimit, FaultsKnown, Alive, ManagerType, ProcType, FlagType, CountType,
           OffIsOff, RestartsTheDead, Handling
  <2>3. SafeCaused'
    BY <1>11, <1>1, LinkAssumption
       DEF EnterSafeOnLimit, SafeCaused, Cause, ManagerType, ProcType, FlagType, CountType,
           CrashesCounted, Unrecorded, Alive, FaultsKnown
  <2> QED
    BY <1>1, <1>2, <2>1, <2>2, <2>3 DEF CauseInv
<1>12. CASE Stay
  <2>1. CrashesCounted'
    BY <1>12, <1>1, LinkAssumption
       DEF Stay, StaySafe, CrashesCounted, Unrecorded, Alive, ManagerType, ProcType,
           FlagType, CountType, RestartsTheDead, Handling, OffIsOff
  <2>2. FaultsKnown'
    BY <1>12, <1>1, LinkAssumption
       DEF Stay, StaySafe, FaultsKnown, Alive, ManagerType, ProcType, FlagType, CountType,
           OffIsOff, RestartsTheDead, Handling
  <2>3. SafeCaused'
    BY <1>12, <1>1, LinkAssumption
       DEF Stay, StaySafe, SafeCaused, Cause, ManagerType, ProcType, FlagType, CountType,
           CrashesCounted, Unrecorded, Alive, FaultsKnown
  <2> QED
    BY <1>1, <1>2, <2>1, <2>2, <2>3 DEF CauseInv
<1>13. CASE Spawn
  <2>1. CrashesCounted'
    BY <1>13, <1>1, LinkAssumption
       DEF Spawn, Started, Counted, NoRuntime, NoMonitor, CrashesCounted, Unrecorded, Alive,
           ManagerType, ProcType, FlagType, CountType, RestartsTheDead, Handling, OffIsOff
  <2>2. FaultsKnown'
    BY <1>13, <1>1, LinkAssumption
       DEF Spawn, Started, Counted, NoRuntime, NoMonitor, FaultsKnown, Alive, ManagerType,
           ProcType, FlagType, CountType, OffIsOff, RestartsTheDead, Handling
  <2>3. SafeCaused'
    BY <1>13, <1>1, LinkAssumption
       DEF Spawn, Started, Counted, NoRuntime, NoMonitor, SafeCaused, Cause, ManagerType,
           ProcType, FlagType, CountType, CrashesCounted, Unrecorded, Alive, FaultsKnown
  <2> QED
    BY <1>1, <1>2, <2>1, <2>2, <2>3 DEF CauseInv
<1>14. CASE Connect
  <2>1. CrashesCounted'
    BY <1>14, <1>1, LinkAssumption
       DEF Connect, Open, InService, To, CrashesCounted, Unrecorded, Alive, ManagerType,
           ProcType, FlagType, CountType, RestartsTheDead, Handling, OffIsOff
  <2>2. FaultsKnown'
    BY <1>14, <1>1, LinkAssumption
       DEF Connect, Open, InService, To, FaultsKnown, Alive, ManagerType, ProcType,
           FlagType, CountType, OffIsOff, RestartsTheDead, Handling
  <2>3. SafeCaused'
    BY <1>14, <1>1, LinkAssumption
       DEF Connect, Open, InService, To, SafeCaused, Cause, ManagerType, ProcType, FlagType,
           CountType, CrashesCounted, Unrecorded, Alive, FaultsKnown
  <2> QED
    BY <1>1, <1>2, <2>1, <2>2, <2>3 DEF CauseInv
<1>15. CASE StopManager
  <2>1. CrashesCounted'
    BY <1>15, <1>1, LinkAssumption
       DEF StopManager, CrashesCounted, Unrecorded, Alive, ManagerType, ProcType, FlagType,
           CountType, RestartsTheDead, Handling, OffIsOff
  <2> QED
    BY <1>15, <1>1, <1>2, <2>1 DEF StopManager, FaultsKnown, Alive, SafeCaused, Cause, CauseInv
<1>16. CASE Joined
  <2>1. CrashesCounted'
    BY <1>16, <1>1, LinkAssumption
       DEF Joined, MayKill, CrashesCounted, Unrecorded, Alive, ManagerType, ProcType,
           FlagType, CountType, RestartsTheDead, Handling, OffIsOff
  <2> QED
    BY <1>16, <1>1, <1>2, <2>1 DEF Joined, FaultsKnown, Alive, SafeCaused, Cause, CauseInv
<1>17. CASE JoinExpires
  <2>1. CrashesCounted'
    BY <1>17, <1>1, LinkAssumption
       DEF JoinExpires, CrashesCounted, Unrecorded, Alive, ManagerType, ProcType, FlagType,
           CountType, RestartsTheDead, Handling, OffIsOff
  <2> QED
    BY <1>17, <1>1, <1>2, <2>1 DEF JoinExpires, FaultsKnown, Alive, SafeCaused, Cause, CauseInv
<1>18. CASE Kill
  <2>1. CrashesCounted'
    BY <1>18, <1>1, LinkAssumption
       DEF Kill, NoRuntime, CrashesCounted, Unrecorded, Alive, ManagerType, ProcType,
           FlagType, CountType, RestartsTheDead, Handling, OffIsOff
  <2>2. FaultsKnown'
    BY <1>18, <1>1, LinkAssumption
       DEF Kill, NoRuntime, FaultsKnown, Alive, ManagerType, ProcType, FlagType, CountType,
           OffIsOff, RestartsTheDead, Handling
  <2> QED
    BY <1>18, <1>1, <1>2, <2>1, <2>2 DEF Kill, SafeCaused, Cause, CauseInv
<1>19. CASE Stopped
  <2>1. CrashesCounted'
    BY <1>19, <1>1, LinkAssumption
       DEF Stopped, Close, CrashesCounted, Unrecorded, Alive, ManagerType, ProcType,
           FlagType, CountType, RestartsTheDead, Handling, OffIsOff
  <2> QED
    BY <1>19, <1>1, <1>2, <2>1 DEF Stopped, FaultsKnown, Alive, SafeCaused, Cause, CauseInv
<1>20. CASE ServerDies
  <2>1. CrashesCounted'
    BY <1>20, <1>1, LinkAssumption
       DEF ServerDies, Close, NoMonitor, CrashesCounted, Unrecorded, Alive, ManagerType,
           ProcType, FlagType, CountType, RestartsTheDead, Handling, OffIsOff
  <2>2. FaultsKnown'
    BY <1>20, <1>1, LinkAssumption
       DEF ServerDies, Close, NoMonitor, FaultsKnown, Alive, ManagerType, ProcType,
           FlagType, CountType, OffIsOff, RestartsTheDead, Handling
  <2>3. SafeCaused'
    BY <1>20, <1>1, LinkAssumption
       DEF ServerDies, Close, NoMonitor, SafeCaused, Cause, ManagerType, ProcType, FlagType,
           CountType, CrashesCounted, Unrecorded, Alive, FaultsKnown
  <2> QED
    BY <1>1, <1>2, <2>1, <2>2, <2>3 DEF CauseInv
<1>21. CASE ResetCrashTracking
  <2>1. CrashesCounted'
    <3>1. raced' <=> Handling \/ ~Alive
      BY <1>21 DEF ResetCrashTracking
    <3>2. crashes' = 0 /\ deaths' = 0 /\ proc' = proc
      BY <1>21 DEF ResetCrashTracking, AfterReset
    <3>3. CASE Alive
      BY <3>2, <3>3 DEF CrashesCounted, Unrecorded, Alive
    <3>4. CASE ~Alive
      BY <3>1, <3>4 DEF CrashesCounted
    <3> QED
      BY <3>3, <3>4
  <2>2. FaultsKnown'
    <3>1. raced' <=> Handling \/ ~Alive
      BY <1>21 DEF ResetCrashTracking
    <3>2. mon' = mon /\ proc' = proc
      BY <1>21 DEF ResetCrashTracking
    <3>3. CASE raced'
      BY <1>1, <3>2, <3>3 DEF FaultsKnown, Alive
    <3>4. CASE ~raced'
      <4>1. ~proc.fault /\ mon.pc \notin {"close", "fault"}
        BY <1>1, <3>1, <3>4 DEF FaultsKnown, Handling
      <4> QED
        BY <3>2, <4>1 DEF FaultsKnown
    <3> QED
      BY <3>3, <3>4
  <2>3. SafeCaused'
    <3>1. raced' <=> Handling \/ ~Alive
      BY <1>21 DEF ResetCrashTracking
    <3>2. mon' = mon /\ safeMode' = FALSE
      BY <1>21 DEF ResetCrashTracking
    <3>3. mon.pc \in {"limit", "spawn"} => raced'
      BY <3>1 DEF Handling
    <3> QED
      BY <3>2, <3>3 DEF SafeCaused, Cause
  <2> QED
    BY <1>1, <1>2, <2>1, <2>2, <2>3 DEF CauseInv
<1>22. CASE ForgetCrash
  <2>1. CrashesCounted'
    BY <1>22, <1>1, LinkAssumption
       DEF ForgetCrash, CrashesCounted, Unrecorded, Alive, ManagerType, ProcType, FlagType,
           CountType, RestartsTheDead, Handling, OffIsOff
  <2> QED
    BY <1>22, <1>1, <1>2, <2>1 DEF ForgetCrash, FaultsKnown, Alive, SafeCaused, Cause, CauseInv
<1>23. CASE Ready
  <2>1. CrashesCounted'
    BY <1>23, <1>1, LinkAssumption
       DEF Ready, CrashesCounted, Unrecorded, Alive, ManagerType, ProcType, FlagType,
           CountType, RestartsTheDead, Handling, OffIsOff
  <2>2. FaultsKnown'
    BY <1>23, <1>1, LinkAssumption
       DEF Ready, FaultsKnown, Alive, ManagerType, ProcType, FlagType, CountType, OffIsOff,
           RestartsTheDead, Handling
  <2> QED
    BY <1>23, <1>1, <1>2, <2>1, <2>2 DEF Ready, SafeCaused, Cause, CauseInv
<1>24. CASE Answer
  BY <1>24, <1>1, <1>2
     DEF Answer, CrashesCounted, Unrecorded, Alive, FaultsKnown, SafeCaused, Cause, CauseInv
<1>25. ASSUME NEW fault \in BOOLEAN, Dies(fault) PROVE CauseInv'
  <2>1. CrashesCounted'
    BY <1>25, <1>1, LinkAssumption
       DEF Dies, Counted, CrashesCounted, Unrecorded, Alive, ManagerType, ProcType,
           FlagType, CountType, RestartsTheDead, Handling, OffIsOff
  <2>2. FaultsKnown'
    BY <1>25, <1>1, LinkAssumption
       DEF Dies, Counted, FaultsKnown, Alive, ManagerType, ProcType, FlagType, CountType,
           OffIsOff, RestartsTheDead, Handling
  <2>3. SafeCaused'
    BY <1>25, <1>1, LinkAssumption
       DEF Dies, Counted, SafeCaused, Cause, ManagerType, ProcType, FlagType, CountType,
           CrashesCounted, Unrecorded, Alive, FaultsKnown
  <2> QED
    BY <1>1, <1>2, <2>1, <2>2, <2>3 DEF CauseInv
<1>26. ASSUME NEW c \in Callers, CallCheck(c) PROVE CauseInv'
  BY <1>26, <1>1, <1>2
     DEF CallCheck, CrashesCounted, Unrecorded, Alive, FaultsKnown, SafeCaused, Cause,
         CauseInv
<1>27. ASSUME NEW c \in Callers, Send(c) PROVE CauseInv'
  BY <1>27, <1>1, <1>2
     DEF Send, CrashesCounted, Unrecorded, Alive, FaultsKnown, SafeCaused, Cause, CauseInv
<1>28. ASSUME NEW c \in Callers, SendFails(c) PROVE CauseInv'
  BY <1>28, <1>1, <1>2
     DEF SendFails, CrashesCounted, Unrecorded, Alive, FaultsKnown, SafeCaused, Cause,
         CauseInv
<1>29. ASSUME NEW c \in Callers, Receive(c) PROVE CauseInv'
  BY <1>29, <1>1, <1>2
     DEF Receive, CrashesCounted, Unrecorded, Alive, FaultsKnown, SafeCaused, Cause,
         CauseInv
<1>30. ASSUME NEW c \in Callers, GiveUp(c) PROVE CauseInv'
  BY <1>30, <1>1, <1>2
     DEF GiveUp, CrashesCounted, Unrecorded, Alive, FaultsKnown, SafeCaused, Cause, CauseInv
<1>31. CASE UNCHANGED vars
  BY <1>31, <1>1, <1>2
     DEF CrashesCounted, Unrecorded, Alive, FaultsKnown, SafeCaused, Cause, CauseInv
<1> QED
  BY <1>3, <1>4, <1>5, <1>6, <1>7, <1>8, <1>9, <1>10, <1>11, <1>12, <1>13, <1>14, <1>15,
     <1>16, <1>17, <1>18, <1>19, <1>20, <1>21, <1>22, <1>23, <1>24, <1>25, <1>26, <1>27,
     <1>28, <1>29, <1>30, <1>31
     DEF Next, Monitor, Caller

\* The monitor restarts the runtime in safe mode only for a watchdog exit or enough deaths
\* since the last upload, or when that upload came in the middle of a restart.
THEOREM SafeNeedsCauseHolds == Spec => SafeNeedsCause
<1>1. CauseInv /\ [Next]_vars =>
        [mon.pc = "spawn" /\ mon.safe /\ proc'.st = "booting" =>
            faulted \/ deaths >= MaxRapid \/ raced]_vars
  BY DEF CauseInv, SafeCaused, Cause
<1> QED
  BY <1>1, CauseInit, CauseNext, PTL DEF Spec, SafeNeedsCause
=============================================================================
