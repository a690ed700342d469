--------------------------- MODULE DispatcherProofs ---------------------------
(***************************************************************************)
(* Proofs about Dispatcher, for any number of tasks, any intervals and any *)
(* number of crashes: how activations and slots are counted, when no scan  *)
(* is in flight, who counts as stuck, and when the outputs go to zero.     *)
(***************************************************************************)
EXTENDS Dispatcher, FiniteSetTheorems, TLAPS

\* What every action relies on: the groups of variables.
USE DEF vars, dispatch, flags, plant, task, TGoto

-----------------------------------------------------------------------------
(* The inductive invariant *)

\* The tasks that hold the slot of their present activation: released, not yet
\* completed, and not crashed and gone.
Held == {t \in Tasks : lag[t] = 1 /\ ~(tpc[t] = "gone" /\ ~alive[t])}

\* The tasks that still hold the slot of the scan they have completed.
Ending == {t \in Tasks : tpc[t] = "slot"}

\* The dispatcher is at a task when it posts to it or aborts it, and leaves its loop
\* only with the state.
AtTask ==
  /\ d \in {"post", "abort"} => i \in Tasks
  /\ d \notin LoopPCs => plc_state # "RUNNING"

\* While the dispatcher is in its loop, a task that is posted to, or that it is about
\* to post to, is idle and released; every scan goes on under a release.
OneActivation ==
  /\ d \in LoopPCs \cup {"reap"} => \A t \in Tasks : go[t] <= 1
  /\ d \in LoopPCs =>
       \A t \in Tasks :
         /\ go[t] = 1 => lag[t] = 1 /\ tpc[t] \in {"wait", "slot"}
         /\ tpc[t] \in Scanning \cup {"dead", "gone"} => lag[t] = 1
  /\ d = "post" => lag[i] = 1 /\ go[i] = 0 /\ tpc[i] \in {"wait", "slot"}

\* A scan past its first test is released; a task that is not alive has left its scan.
ScanReleased ==
  \A t \in Tasks :
    /\ tpc[t] \in (Scanning \ {"woken"}) \cup {"dead"} => lag[t] = 1
    /\ ~alive[t] => tpc[t] \in {"dead", "gone"}
    /\ tpc[t] = "dead" => ~alive[t]

\* g_tasks_running is the number of slots that tasks hold.
SlotsCounted == g_tasks_running = Cardinality(Held) + Cardinality(Ending)

\* No slot is held while the dispatcher has the image to itself.
NoneInFlight == d \in {"primed", "retire", "commit"} => g_tasks_running = 0

\* Overruns that count towards stuck are overruns of the present scan.
StuckInScan == \A t \in Tasks : stuck_ticks[t] <= age[t]

\* The reap has seen every worker before the present one gone.
ReapedGone ==
  /\ d \in {"reap_wait", "abort"} => \A t \in Tasks : t < i => tpc[t] = "gone"
  /\ d \in {"off", "off_hooks", "done"} => \A t \in Tasks : tpc[t] = "gone"
  /\ outputs = "zero" => d \in {"off_hooks", "done"}

DispatcherInv ==
  /\ TypeOK /\ AtTask /\ OneActivation /\ ScanReleased /\ SlotsCounted /\ NoneInFlight
  /\ StuckInScan /\ ReapedGone

-----------------------------------------------------------------------------
(* The proofs *)

\* The types, in parts.
ScalarType ==
  /\ plc_state \in {"RUNNING", "TO_STOP", "ERROR"}
  /\ d \in DispPCs /\ i \in 1 .. N + 1 /\ master_tick \in 0 .. Hyper - 1
  /\ stuck_idx \in 0 .. N /\ image_mutex \in 0 .. N + 1
  /\ outputs \in {"live", "zero"} /\ frame \in {"open", "closed"} /\ crashes \in Nat

FlagType ==
  /\ exited \in BOOLEAN /\ cycle_end_pending \in BOOLEAN /\ released_any \in BOOLEAN
  /\ fault_stop_claimed \in BOOLEAN /\ g_task_fault \in BOOLEAN /\ g_first_scan \in BOOLEAN
  /\ g_first_scan_trip \in BOOLEAN /\ default_handlers \in BOOLEAN

TaskType ==
  /\ tpc \in [Tasks -> TaskPCs] /\ go \in [Tasks -> 0 .. 2]
  /\ alive \in [Tasks -> BOOLEAN] /\ lag \in [Tasks -> 0 .. 1]
  /\ first_done \in [Tasks -> BOOLEAN]
  /\ stuck_ticks \in [Tasks -> 0 .. StuckPeriods] /\ age \in [Tasks -> 0 .. StuckPeriods]

\* There are finitely many tasks.
LEMMA TaskCount == IsFiniteSet(Tasks) /\ Cardinality(Tasks) = N
  BY TaskAssumption, FS_Interval DEF Tasks

\* A set of tasks is finite, and has no more members than there are tasks.
LEMMA TaskSets ==
  ASSUME NEW S \in SUBSET Tasks
  PROVE  IsFiniteSet(S) /\ Cardinality(S) \in 0 .. N
<1>1. IsFiniteSet(S) /\ Cardinality(S) <= Cardinality(Tasks)
  BY TaskCount, FS_Subset
<1>2. Cardinality(S) \in Nat
  BY <1>1, FS_CardinalityType
<1> QED
  BY <1>1, <1>2, TaskCount, TaskAssumption

\* The slots that tasks hold are between none and two for each of them.
LEMMA SlotRange ==
  /\ IsFiniteSet(Held) /\ Cardinality(Held) \in 0 .. N
  /\ IsFiniteSet(Ending) /\ Cardinality(Ending) \in 0 .. N
  /\ (IsFiniteSet(Held) /\ Cardinality(Held) \in 0 .. N)'
  /\ (IsFiniteSet(Ending) /\ Cardinality(Ending) \in 0 .. N)'
<1>1. Held \in SUBSET Tasks /\ Ending \in SUBSET Tasks
  BY DEF Held, Ending
<1>2. Held' \in SUBSET Tasks /\ Ending' \in SUBSET Tasks
  BY DEF Held, Ending
<1> QED
  BY <1>1, <1>2, TaskSets

\* What the invariant says, in parts; the count of the slots bounds g_tasks_running.
LEMMA InvParts ==
  /\ DispatcherInv <=>
       /\ ScalarType /\ FlagType /\ TaskType /\ AtTask /\ OneActivation
       /\ ScanReleased /\ SlotsCounted /\ NoneInFlight /\ StuckInScan /\ ReapedGone
  /\ DispatcherInv' <=>
       (/\ ScalarType /\ FlagType /\ TaskType /\ AtTask /\ OneActivation
        /\ ScanReleased /\ SlotsCounted /\ NoneInFlight /\ StuckInScan /\ ReapedGone)'
<1>1. SlotsCounted => g_tasks_running \in 0 .. 2 * N
  BY SlotRange, TaskAssumption DEF SlotsCounted
<1>2. SlotsCounted' => g_tasks_running' \in 0 .. 2 * N
  BY SlotRange, TaskAssumption DEF SlotsCounted
<1> QED
  BY <1>1, <1>2 DEF DispatcherInv, TypeOK, ScalarType, FlagType, TaskType

\* The slots of the tasks when one task is added to a set of them, or leaves it.
LEMMA OneMore ==
  ASSUME NEW S \in SUBSET Tasks, NEW t \in Tasks
  PROVE  /\ t \notin S => Cardinality(S \cup {t}) = Cardinality(S) + 1
         /\ t \in S => Cardinality(S \ {t}) = Cardinality(S) - 1 /\ Cardinality(S) >= 1
<1>1. IsFiniteSet(S) /\ Cardinality(S) \in Nat
  BY TaskSets
<1>2. t \notin S => Cardinality(S \cup {t}) = Cardinality(S) + 1
  BY <1>1, FS_AddElement
<1>3. ASSUME t \in S PROVE Cardinality(S \ {t}) = Cardinality(S) - 1 /\ Cardinality(S) >= 1
  <2>1. Cardinality(S \ {t}) = Cardinality(S) - 1
    BY <1>1, <1>3, FS_RemoveElement
  <2>2. Cardinality(S \ {t}) \in Nat
    BY TaskSets
  <2> QED
    BY <1>1, <2>1, <2>2
<1> QED
  BY <1>2, <1>3

\* The run starts with every task idle.
LEMMA InvInit == Init => DispatcherInv
<1> SUFFICES ASSUME Init PROVE DispatcherInv
  OBVIOUS
<1>1. ScalarType
  BY TaskAssumption DEF Init, ScalarType, DispPCs, LoopPCs
<1>2. FlagType
  BY Zenon DEF Init, FlagType
<1>3. TaskType
  BY TaskAssumption DEF Init, TaskType, TaskPCs
<1>4. AtTask /\ OneActivation /\ ScanReleased
  BY DEF Init, AtTask, OneActivation, ScanReleased, LoopPCs, Scanning
<1>5. SlotsCounted
  <2>1. Held = {} /\ Ending = {}
    BY DEF Init, Held, Ending
  <2> QED
    BY <2>1, FS_EmptySet DEF Init, SlotsCounted
<1>6. NoneInFlight /\ StuckInScan /\ ReapedGone
  BY DEF Init, NoneInFlight, StuckInScan, ReapedGone
<1> QED
  BY <1>1, <1>2, <1>3, <1>4, <1>5, <1>6, InvParts

\* Every step of the dispatcher, of a task and of the rest keeps the invariant.
LEMMA InvNext == DispatcherInv /\ [Next]_vars => DispatcherInv'
<1> SUFFICES ASSUME DispatcherInv, [Next]_vars PROVE DispatcherInv'
  OBVIOUS
<1>1. /\ ScalarType /\ FlagType /\ TaskType /\ AtTask /\ OneActivation
      /\ ScanReleased /\ SlotsCounted /\ NoneInFlight /\ StuckInScan /\ ReapedGone
  BY InvParts
<1>2. ASSUME NEW t \in Tasks, Wake(t) PROVE DispatcherInv'
  <2>1. TaskType'
    BY <1>2, <1>1, TaskAssumption
       DEF Wake, TaskType, ScalarType, AtTask, OneActivation, LoopPCs, TaskPCs, Scanning,
           Capped
  <2>2. OneActivation'
    <3>1. go[t] \in 0 .. 2 /\ go'[t] = go[t] - 1 /\ go[t] > 0
      BY <1>2, <1>1 DEF Wake, TaskType
    <3> QED
      BY <1>2, <1>1, <3>1 DEF Wake, OneActivation, TaskType, AtTask, Scanning, LoopPCs
  <2>3. ScanReleased'
    BY <1>2, <1>1, TaskAssumption
       DEF Wake, ScanReleased, ScalarType, TaskType, OneActivation, AtTask, Scanning, Due,
           LoopPCs
  <2>4. SlotsCounted'
    <3>1. Held' = Held
      BY <1>2, <1>1 DEF Wake, Held, TaskType, ScanReleased, Scanning
    <3>2. Ending' = Ending
      BY <1>2, <1>1 DEF Wake, Ending, TaskType
    <3> QED
      BY <1>2, <1>1, <3>1, <3>2 DEF Wake, SlotsCounted
  <2>5. ReapedGone'
    BY <1>2, <1>1, TaskAssumption
       DEF Wake, ReapedGone, ScalarType, AtTask, TaskType, Tasks, DispPCs, Scanning
  <2> QED
    BY <1>2, <1>1, InvParts, <2>1, <2>2, <2>3, <2>4, <2>5
       DEF Wake, ScalarType, FlagType, AtTask, NoneInFlight, StuckInScan
<1>3. ASSUME NEW t \in Tasks, Begin(t) PROVE DispatcherInv'
  <2>1. TaskType'
    BY <1>3, <1>1, TaskAssumption
       DEF Begin, TaskType, ScalarType, AtTask, OneActivation, LoopPCs, TaskPCs, Scanning,
           Capped
  <2>2. OneActivation'
    BY <1>3, <1>1, TaskAssumption
       DEF Begin, OneActivation, ScalarType, TaskType, AtTask, ScanReleased, Due, LoopPCs,
           Scanning, Tasks
  <2>3. ScanReleased'
    BY <1>3, <1>1, TaskAssumption
       DEF Begin, ScanReleased, ScalarType, TaskType, OneActivation, AtTask, Scanning, Due,
           LoopPCs
  <2>4. SlotsCounted'
    <3>1. Held' = Held
      BY <1>3, <1>1 DEF Begin, Held, TaskType, ScanReleased, Scanning
    <3>2. Ending' = Ending
      BY <1>3, <1>1 DEF Begin, Ending, TaskType
    <3> QED
      BY <1>3, <1>1, <3>1, <3>2 DEF Begin, SlotsCounted
  <2>5. ReapedGone'
    BY <1>3, <1>1, TaskAssumption
       DEF Begin, ReapedGone, ScalarType, AtTask, TaskType, Tasks, DispPCs, Scanning
  <2> QED
    BY <1>3, <1>1, InvParts, <2>1, <2>2, <2>3, <2>4, <2>5
       DEF Begin, ScalarType, FlagType, AtTask, NoneInFlight, StuckInScan
<1>4. ASSUME NEW t \in Tasks, CopyIn(t) PROVE DispatcherInv'
  <2>1. ScalarType'
    BY <1>4, <1>1, TaskAssumption DEF CopyIn, ScalarType, AtTask, LoopPCs, DispPCs, Disp, Tasks
  <2>2. TaskType'
    BY <1>4, <1>1, TaskAssumption
       DEF CopyIn, TaskType, ScalarType, AtTask, OneActivation, LoopPCs, TaskPCs, Scanning,
           Capped
  <2>3. OneActivation'
    BY <1>4, <1>1, TaskAssumption
       DEF CopyIn, OneActivation, ScalarType, TaskType, AtTask, ScanReleased, Due, LoopPCs,
           Scanning, Tasks
  <2>4. ScanReleased'
    BY <1>4, <1>1, TaskAssumption
       DEF CopyIn, ScanReleased, ScalarType, TaskType, OneActivation, AtTask, Scanning, Due,
           LoopPCs
  <2>5. SlotsCounted'
    <3>1. Held' = Held
      BY <1>4, <1>1 DEF CopyIn, Held, TaskType, ScanReleased, Scanning
    <3>2. Ending' = Ending
      BY <1>4, <1>1 DEF CopyIn, Ending, TaskType
    <3> QED
      BY <1>4, <1>1, <3>1, <3>2 DEF CopyIn, SlotsCounted
  <2>6. ReapedGone'
    BY <1>4, <1>1, TaskAssumption
       DEF CopyIn, ReapedGone, ScalarType, AtTask, TaskType, Tasks, DispPCs, Scanning
  <2> QED
    BY <1>4, <1>1, InvParts, <2>1, <2>2, <2>3, <2>4, <2>5, <2>6
       DEF CopyIn, FlagType, AtTask, NoneInFlight, StuckInScan
<1>5. ASSUME NEW t \in Tasks, Complete(t) PROVE DispatcherInv'
  <2>1. TaskType'
    BY <1>5, <1>1, TaskAssumption
       DEF Complete, TaskType, ScalarType, AtTask, OneActivation, LoopPCs, TaskPCs,
           Scanning, Capped
  <2>2. OneActivation'
    BY <1>5, <1>1, TaskAssumption
       DEF Complete, OneActivation, ScalarType, TaskType, AtTask, ScanReleased, Due,
           LoopPCs, Scanning, Tasks
  <2>3. ScanReleased'
    BY <1>5, <1>1, TaskAssumption
       DEF Complete, ScanReleased, ScalarType, TaskType, OneActivation, AtTask, Scanning,
           Due, LoopPCs
  <2>4. SlotsCounted'
    <3>1. Held' = Held \ {t} /\ t \in Held
      BY <1>5, <1>1 DEF Complete, Held, TaskType, ScanReleased, Scanning
    <3>2. Ending' = Ending \cup {t} /\ t \notin Ending
      BY <1>5, <1>1 DEF Complete, Ending, TaskType
    <3>3. Held \in SUBSET Tasks /\ Ending \in SUBSET Tasks
      BY DEF Held, Ending
    <3>4. Cardinality(Held') = Cardinality(Held) - 1
      BY <3>1, <3>3, OneMore
    <3>5. Cardinality(Ending') = Cardinality(Ending) + 1
      BY <3>2, <3>3, OneMore
    <3> QED
      BY <1>5, <1>1, <3>4, <3>5, SlotRange DEF Complete, SlotsCounted
  <2>5. ReapedGone'
    BY <1>5, <1>1, TaskAssumption
       DEF Complete, ReapedGone, ScalarType, AtTask, TaskType, Tasks, DispPCs, Scanning
  <2> QED
    BY <1>5, <1>1, InvParts, <2>1, <2>2, <2>3, <2>4, <2>5
       DEF Complete, ScalarType, FlagType, AtTask, NoneInFlight, StuckInScan
<1>6. ASSUME NEW t \in Tasks, ScanDone(t) PROVE DispatcherInv'
  <2>1. TaskType'
    BY <1>6, <1>1, TaskAssumption
       DEF ScanDone, TaskType, ScalarType, AtTask, OneActivation, LoopPCs, TaskPCs,
           Scanning, Capped
  <2>2. OneActivation'
    BY <1>6, <1>1, TaskAssumption
       DEF ScanDone, OneActivation, ScalarType, TaskType, AtTask, ScanReleased, Due,
           LoopPCs, Scanning, Tasks
  <2>3. ScanReleased'
    BY <1>6, <1>1, TaskAssumption
       DEF ScanDone, ScanReleased, ScalarType, TaskType, OneActivation, AtTask, Scanning,
           Due, LoopPCs
  <2>4. SlotsCounted'
    <3>1. Held \in SUBSET Tasks /\ Ending \in SUBSET Tasks
      BY DEF Held, Ending
    <3>2. CASE tpc[t] = "slot"
      <4>1. Held' = Held /\ Ending' = Ending \ {t} /\ t \in Ending
        BY <1>6, <1>1, <3>2 DEF ScanDone, Held, Ending, TaskType, ScanReleased
      <4>2. Cardinality(Ending') = Cardinality(Ending) - 1
        BY <4>1, <3>1, OneMore
      <4> QED
        BY <1>6, <1>1, <4>1, <4>2, SlotRange DEF ScanDone, SlotsCounted
    <3>3. CASE tpc[t] = "dead"
      <4>1. Held' = Held \ {t} /\ t \in Held
        BY <1>6, <1>1, <3>3 DEF ScanDone, Held, TaskType, ScanReleased
      <4>2. Ending' = Ending
        BY <1>6, <1>1, <3>3 DEF ScanDone, Ending, TaskType
      <4>3. Cardinality(Held') = Cardinality(Held) - 1
        BY <4>1, <3>1, OneMore
      <4> QED
        BY <1>6, <1>1, <4>2, <4>3, SlotRange DEF ScanDone, SlotsCounted
    <3> QED
      BY <1>6, <3>2, <3>3 DEF ScanDone
  <2>5. NoneInFlight'
    <3>1. t \in Held \/ t \in Ending
      BY <1>6, <1>1 DEF ScanDone, Held, Ending, ScanReleased
    <3>2. Held \in SUBSET Tasks /\ Ending \in SUBSET Tasks
      BY DEF Held, Ending
    <3>3. t \in Held => Cardinality(Held) >= 1
      BY <3>2, OneMore
    <3>4. t \in Ending => Cardinality(Ending) >= 1
      BY <3>2, OneMore
    <3>5. Cardinality(Held) + Cardinality(Ending) # 0
      BY <3>1, <3>3, <3>4, SlotRange
    <3> QED
      BY <1>6, <1>1, <3>5 DEF ScanDone, NoneInFlight, SlotsCounted
  <2>6. ReapedGone'
    BY <1>6, <1>1, TaskAssumption
       DEF ScanDone, ReapedGone, ScalarType, AtTask, TaskType, Tasks, DispPCs, Scanning
  <2> QED
    BY <1>6, <1>1, InvParts, <2>1, <2>2, <2>3, <2>4, <2>5, <2>6
       DEF ScanDone, ScalarType, FlagType, AtTask, StuckInScan
<1>7. ASSUME NEW t \in Tasks, Run(t) PROVE DispatcherInv'
  <2>1. TaskType'
    BY <1>7, <1>1, TaskAssumption
       DEF Run, TaskType, ScalarType, AtTask, OneActivation, LoopPCs, TaskPCs, Scanning,
           Capped
  <2>2. OneActivation'
    BY <1>7, <1>1, TaskAssumption
       DEF Run, OneActivation, ScalarType, TaskType, AtTask, ScanReleased, Due, LoopPCs,
           Scanning, Tasks
  <2>3. ScanReleased'
    BY <1>7, <1>1, TaskAssumption
       DEF Run, ScanReleased, ScalarType, TaskType, OneActivation, AtTask, Scanning, Due,
           LoopPCs
  <2>4. SlotsCounted'
    <3>1. Held' = Held
      BY <1>7, <1>1 DEF Run, Held, TaskType, ScanReleased, Scanning
    <3>2. Ending' = Ending
      BY <1>7, <1>1 DEF Run, Ending, TaskType
    <3> QED
      BY <1>7, <1>1, <3>1, <3>2 DEF Run, SlotsCounted
  <2>5. ReapedGone'
    BY <1>7, <1>1, TaskAssumption
       DEF Run, ReapedGone, ScalarType, AtTask, TaskType, Tasks, DispPCs, Scanning
  <2> QED
    BY <1>7, <1>1, InvParts, <2>1, <2>2, <2>3, <2>4, <2>5
       DEF Run, ScalarType, FlagType, AtTask, NoneInFlight, StuckInScan
<1>8. ASSUME NEW t \in Tasks, CrashTask(t) PROVE DispatcherInv'
  <2>1. ScalarType'
    BY <1>8, <1>1, TaskAssumption
       DEF CrashTask, Recover, Crashable, ScalarType, AtTask, LoopPCs, DispPCs, Disp, Tasks
  <2>2. FlagType'
    BY <1>8, <1>1, TaskAssumption DEF CrashTask, Recover, Crashable, FlagType
  <2>3. TaskType'
    BY <1>8, <1>1, TaskAssumption
       DEF CrashTask, Recover, Crashable, TaskType, ScalarType, AtTask, OneActivation,
           LoopPCs, TaskPCs, Scanning, Capped
  <2>4. OneActivation'
    BY <1>8, <1>1, TaskAssumption
       DEF CrashTask, Recover, Crashable, OneActivation, ScalarType, TaskType, AtTask,
           ScanReleased, Due, LoopPCs, Scanning, Tasks
  <2>5. ScanReleased'
    BY <1>8, <1>1, TaskAssumption
       DEF CrashTask, Recover, Crashable, ScanReleased, ScalarType, TaskType, OneActivation,
           AtTask, Scanning, Due, LoopPCs
  <2>6. SlotsCounted'
    <3>1. Held' = Held
      BY <1>8, <1>1 DEF CrashTask, Held, TaskType, ScanReleased, Scanning, Recover, Crashable
    <3>2. Ending' = Ending
      BY <1>8, <1>1 DEF CrashTask, Ending, TaskType, Recover, Crashable
    <3> QED
      BY <1>8, <1>1, <3>1, <3>2 DEF CrashTask, SlotsCounted
  <2>7. ReapedGone'
    BY <1>8, <1>1, TaskAssumption
       DEF CrashTask, Recover, Crashable, ReapedGone, ScalarType, AtTask, TaskType, Tasks,
           DispPCs, Scanning
  <2> QED
    BY <1>8, <1>1, InvParts, <2>1, <2>2, <2>3, <2>4, <2>5, <2>6, <2>7
       DEF CrashTask, AtTask, NoneInFlight, StuckInScan
<1>9. CASE Tick
  <2>1. ScalarType'
    BY <1>9, <1>1, TaskAssumption DEF Tick, ScalarType, AtTask, LoopPCs, DispPCs, Disp, Tasks
  <2>2. FlagType'
    BY <1>9, <1>1, TaskAssumption DEF Tick, FlagType
  <2>3. AtTask'
    BY <1>9, <1>1, TaskAssumption DEF Tick, AtTask, ScalarType, LoopPCs, DispPCs, Tasks
  <2>4. OneActivation'
    BY <1>9, <1>1, TaskAssumption
       DEF Tick, OneActivation, ScalarType, TaskType, AtTask, ScanReleased, Due, LoopPCs,
           Scanning, Tasks
  <2>5. NoneInFlight'
    BY <1>9, <1>1, TaskAssumption DEF Tick, NoneInFlight, ScalarType
  <2>6. ReapedGone'
    BY <1>9, <1>1, TaskAssumption
       DEF Tick, ReapedGone, ScalarType, AtTask, TaskType, Tasks, DispPCs, Scanning
  <2> QED
    BY <1>9, <1>1, InvParts, <2>1, <2>2, <2>3, <2>4, <2>5, <2>6
       DEF Tick, TaskType, ScanReleased, SlotsCounted, Held, Ending, StuckInScan
<1>10. CASE EndLate
  <2>1. ScalarType'
    BY <1>10, <1>1, TaskAssumption
       DEF EndLate, ScalarType, AtTask, LoopPCs, DispPCs, Disp, Tasks
  <2>2. FlagType'
    BY <1>10, <1>1, TaskAssumption DEF EndLate, FlagType
  <2>3. AtTask'
    BY <1>10, <1>1, TaskAssumption DEF EndLate, AtTask, ScalarType, LoopPCs, DispPCs, Tasks
  <2>4. OneActivation'
    BY <1>10, <1>1, TaskAssumption
       DEF EndLate, OneActivation, ScalarType, TaskType, AtTask, ScanReleased, Due, LoopPCs,
           Scanning, Tasks
  <2>5. NoneInFlight'
    BY <1>10, <1>1, TaskAssumption DEF EndLate, NoneInFlight, ScalarType
  <2>6. ReapedGone'
    BY <1>10, <1>1, TaskAssumption
       DEF EndLate, ReapedGone, ScalarType, AtTask, TaskType, Tasks, DispPCs, Scanning
  <2> QED
    BY <1>10, <1>1, InvParts, <2>1, <2>2, <2>3, <2>4, <2>5, <2>6
       DEF EndLate, TaskType, ScanReleased, SlotsCounted, Held, Ending, StuckInScan
<1>11. CASE CycleStart
  <2>1. ScalarType'
    BY <1>11, <1>1, TaskAssumption
       DEF CycleStart, ScalarType, AtTask, LoopPCs, DispPCs, Disp, Tasks
  <2>2. AtTask'
    BY <1>11, <1>1, TaskAssumption DEF CycleStart, AtTask, ScalarType, LoopPCs, DispPCs, Tasks
  <2>3. OneActivation'
    BY <1>11, <1>1, TaskAssumption
       DEF CycleStart, OneActivation, ScalarType, TaskType, AtTask, ScanReleased, Due,
           LoopPCs, Scanning, Tasks
  <2>4. NoneInFlight'
    BY <1>11, <1>1, TaskAssumption DEF CycleStart, NoneInFlight, ScalarType
  <2>5. ReapedGone'
    BY <1>11, <1>1, TaskAssumption
       DEF CycleStart, ReapedGone, ScalarType, AtTask, TaskType, Tasks, DispPCs, Scanning
  <2> QED
    BY <1>11, <1>1, InvParts, <2>1, <2>2, <2>3, <2>4, <2>5
       DEF CycleStart, FlagType, TaskType, ScanReleased, SlotsCounted, Held, Ending,
           StuckInScan
<1>12. CASE Prime
  <2>1. ScalarType'
    BY <1>12, <1>1, TaskAssumption DEF Prime, ScalarType, AtTask, LoopPCs, DispPCs, Disp, Tasks
  <2>2. FlagType'
    BY <1>12, <1>1, TaskAssumption DEF Prime, FlagType
  <2>3. AtTask'
    BY <1>12, <1>1, TaskAssumption DEF Prime, AtTask, ScalarType, LoopPCs, DispPCs, Tasks
  <2>4. OneActivation'
    BY <1>12, <1>1, TaskAssumption
       DEF Prime, OneActivation, ScalarType, TaskType, AtTask, ScanReleased, Due, LoopPCs,
           Scanning, Tasks
  <2>5. NoneInFlight'
    BY <1>12, <1>1, TaskAssumption DEF Prime, NoneInFlight, ScalarType
  <2>6. ReapedGone'
    BY <1>12, <1>1, TaskAssumption
       DEF Prime, ReapedGone, ScalarType, AtTask, TaskType, Tasks, DispPCs, Scanning
  <2> QED
    BY <1>12, <1>1, InvParts, <2>1, <2>2, <2>3, <2>4, <2>5, <2>6
       DEF Prime, TaskType, ScanReleased, SlotsCounted, Held, Ending, StuckInScan
<1>13. CASE ReleaseLoop
  <2>1. ScalarType'
    BY <1>13, <1>1, TaskAssumption
       DEF ReleaseLoop, Release, CountOverrun, ScalarType, AtTask, LoopPCs, DispPCs, Disp,
           Tasks
  <2>2. TaskType'
    BY <1>13, <1>1, TaskAssumption
       DEF ReleaseLoop, Release, CountOverrun, TaskType, ScalarType, AtTask, OneActivation,
           LoopPCs, TaskPCs, Scanning, Capped
  <2>3. AtTask'
    BY <1>13, <1>1, TaskAssumption
       DEF ReleaseLoop, Release, CountOverrun, AtTask, ScalarType, LoopPCs, DispPCs, Tasks
  <2>4. OneActivation'
    <3>1. CASE Release(i) /\ i \in Tasks /\ lag[i] = 0
      <4>1. go[i] = 0 /\ tpc[i] \in {"wait", "slot"}
        BY <1>13, <1>1, <3>1
           DEF ReleaseLoop, OneActivation, TaskType, ScanReleased, TaskPCs, LoopPCs
      <4> QED
        BY <1>13, <1>1, <3>1, <4>1
           DEF ReleaseLoop, Release, OneActivation, TaskType, LoopPCs
    <3>2. CASE UNCHANGED lag /\ d' \in LoopPCs \ {"post"}
      BY <1>13, <1>1, <3>2 DEF ReleaseLoop, OneActivation, LoopPCs
    <3> QED
      BY <1>13, <1>1, <3>1, <3>2 DEF ReleaseLoop, CountOverrun, ScalarType, Tasks, LoopPCs
  <2>5. ScanReleased'
    BY <1>13, <1>1, TaskAssumption
       DEF ReleaseLoop, Release, CountOverrun, ScanReleased, ScalarType, TaskType,
           OneActivation, AtTask, Scanning, Due, LoopPCs
  <2>6. SlotsCounted'
    <3>1. CASE Release(i) /\ i \in Tasks /\ lag[i] = 0
      <4>1. Held' = Held \cup {i} /\ i \notin Held
        BY <1>13, <1>1, <3>1 DEF ReleaseLoop, Release, Held, TaskType, OneActivation, LoopPCs
      <4>2. Ending' = Ending
        BY <1>13 DEF ReleaseLoop, Ending
      <4>3. Held \in SUBSET Tasks
        BY DEF Held
      <4>4. Cardinality(Held') = Cardinality(Held) + 1
        BY <4>1, <4>3, <3>1, OneMore
      <4> QED
        BY <1>1, <3>1, <4>2, <4>4, SlotRange DEF Release, SlotsCounted
    <3>2. CASE UNCHANGED <<lag, g_tasks_running>>
      BY <1>13, <1>1, <3>2 DEF ReleaseLoop, SlotsCounted, Held, Ending
    <3> QED
      BY <1>13, <1>1, <3>1, <3>2 DEF ReleaseLoop, CountOverrun, ScalarType, Tasks
  <2>7. NoneInFlight'
    BY <1>13, <1>1, TaskAssumption
       DEF ReleaseLoop, Release, CountOverrun, NoneInFlight, ScalarType
  <2>8. StuckInScan'
    BY <1>13, <1>1, TaskAssumption
       DEF ReleaseLoop, Release, CountOverrun, StuckInScan, TaskType, ScalarType, Capped
  <2>9. ReapedGone'
    BY <1>13, <1>1, TaskAssumption
       DEF ReleaseLoop, Release, CountOverrun, ReapedGone, ScalarType, AtTask, TaskType,
           Tasks, DispPCs, Scanning
  <2> QED
    BY <1>13, <1>1, InvParts, <2>1, <2>2, <2>3, <2>4, <2>5, <2>6, <2>7, <2>8, <2>9
       DEF ReleaseLoop, FlagType
<1>14. CASE Post
  <2>1. ScalarType'
    BY <1>14, <1>1, TaskAssumption DEF Post, ScalarType, AtTask, LoopPCs, DispPCs, Disp, Tasks
  <2>2. FlagType'
    BY <1>14, <1>1, TaskAssumption DEF Post, FlagType
  <2>3. TaskType'
    BY <1>14, <1>1, TaskAssumption
       DEF Post, TaskType, ScalarType, AtTask, OneActivation, LoopPCs, TaskPCs, Scanning,
           Capped
  <2>4. AtTask'
    BY <1>14, <1>1, TaskAssumption DEF Post, AtTask, ScalarType, LoopPCs, DispPCs, Tasks
  <2>5. OneActivation'
    BY <1>14, <1>1, TaskAssumption
       DEF Post, OneActivation, ScalarType, TaskType, AtTask, ScanReleased, Due, LoopPCs,
           Scanning, Tasks
  <2>6. NoneInFlight'
    BY <1>14, <1>1, TaskAssumption DEF Post, NoneInFlight, ScalarType
  <2>7. ReapedGone'
    BY <1>14, <1>1, TaskAssumption
       DEF Post, ReapedGone, ScalarType, AtTask, TaskType, Tasks, DispPCs, Scanning
  <2> QED
    BY <1>14, <1>1, InvParts, <2>1, <2>2, <2>3, <2>4, <2>5, <2>6, <2>7
       DEF Post, ScanReleased, SlotsCounted, Held, Ending, StuckInScan
<1>15. CASE Trip
  <2>1. ScalarType'
    BY <1>15, <1>1, TaskAssumption
       DEF Trip, FirstScans, ScalarType, AtTask, LoopPCs, DispPCs, Disp, Tasks
  <2>2. FlagType'
    BY <1>15, <1>1, TaskAssumption DEF Trip, FirstScans, FlagType
  <2>3. AtTask'
    BY <1>15, <1>1, TaskAssumption
       DEF Trip, FirstScans, AtTask, ScalarType, LoopPCs, DispPCs, Tasks
  <2>4. OneActivation'
    BY <1>15, <1>1, TaskAssumption
       DEF Trip, FirstScans, OneActivation, ScalarType, TaskType, AtTask, ScanReleased, Due,
           LoopPCs, Scanning, Tasks
  <2>5. NoneInFlight'
    BY <1>15, <1>1, TaskAssumption DEF Trip, FirstScans, NoneInFlight, ScalarType
  <2>6. ReapedGone'
    BY <1>15, <1>1, TaskAssumption
       DEF Trip, FirstScans, ReapedGone, ScalarType, AtTask, TaskType, Tasks, DispPCs,
           Scanning
  <2> QED
    BY <1>15, <1>1, InvParts, <2>1, <2>2, <2>3, <2>4, <2>5, <2>6
       DEF Trip, TaskType, ScanReleased, SlotsCounted, Held, Ending, StuckInScan
<1>16. CASE Advance
  <2>1. ScalarType'
    BY <1>16, <1>1, TaskAssumption
       DEF Advance, ScalarType, AtTask, LoopPCs, DispPCs, Disp, Tasks
  <2>2. AtTask'
    BY <1>16, <1>1, TaskAssumption DEF Advance, AtTask, ScalarType, LoopPCs, DispPCs, Tasks
  <2>3. OneActivation'
    BY <1>16, <1>1, TaskAssumption
       DEF Advance, OneActivation, ScalarType, TaskType, AtTask, ScanReleased, Due, LoopPCs,
           Scanning, Tasks
  <2>4. NoneInFlight'
    BY <1>16, <1>1, TaskAssumption DEF Advance, NoneInFlight, ScalarType
  <2>5. ReapedGone'
    BY <1>16, <1>1, TaskAssumption
       DEF Advance, ReapedGone, ScalarType, AtTask, TaskType, Tasks, DispPCs, Scanning
  <2> QED
    BY <1>16, <1>1, InvParts, <2>1, <2>2, <2>3, <2>4, <2>5
       DEF Advance, FlagType, TaskType, ScanReleased, SlotsCounted, Held, Ending,
           StuckInScan
<1>17. CASE WaitOver
  <2>1. ScalarType'
    BY <1>17, <1>1, TaskAssumption
       DEF WaitOver, FrameComplete, ScalarType, AtTask, LoopPCs, DispPCs, Disp, Tasks
  <2>2. AtTask'
    BY <1>17, <1>1, TaskAssumption
       DEF WaitOver, FrameComplete, AtTask, ScalarType, LoopPCs, DispPCs, Tasks
  <2>3. OneActivation'
    BY <1>17, <1>1, TaskAssumption
       DEF WaitOver, FrameComplete, OneActivation, ScalarType, TaskType, AtTask,
           ScanReleased, Due, LoopPCs, Scanning, Tasks
  <2>4. NoneInFlight'
    BY <1>17, <1>1, TaskAssumption DEF WaitOver, FrameComplete, NoneInFlight, ScalarType
  <2>5. ReapedGone'
    BY <1>17, <1>1, TaskAssumption
       DEF WaitOver, FrameComplete, ReapedGone, ScalarType, AtTask, TaskType, Tasks,
           DispPCs, Scanning
  <2> QED
    BY <1>17, <1>1, InvParts, <2>1, <2>2, <2>3, <2>4, <2>5
       DEF WaitOver, FlagType, TaskType, ScanReleased, SlotsCounted, Held, Ending,
           StuckInScan
<1>18. CASE Retire
  <2>1. ScalarType'
    BY <1>18, <1>1, TaskAssumption
       DEF Retire, FrameComplete, ScalarType, AtTask, LoopPCs, DispPCs, Disp, Tasks
  <2>2. FlagType'
    BY <1>18, <1>1, TaskAssumption DEF Retire, FrameComplete, FlagType
  <2>3. AtTask'
    BY <1>18, <1>1, TaskAssumption
       DEF Retire, FrameComplete, AtTask, ScalarType, LoopPCs, DispPCs, Tasks
  <2>4. OneActivation'
    BY <1>18, <1>1, TaskAssumption
       DEF Retire, FrameComplete, OneActivation, ScalarType, TaskType, AtTask, ScanReleased,
           Due, LoopPCs, Scanning, Tasks
  <2>5. NoneInFlight'
    BY <1>18, <1>1, TaskAssumption DEF Retire, FrameComplete, NoneInFlight, ScalarType
  <2>6. ReapedGone'
    BY <1>18, <1>1, TaskAssumption
       DEF Retire, FrameComplete, ReapedGone, ScalarType, AtTask, TaskType, Tasks, DispPCs,
           Scanning
  <2> QED
    BY <1>18, <1>1, InvParts, <2>1, <2>2, <2>3, <2>4, <2>5, <2>6
       DEF Retire, TaskType, ScanReleased, SlotsCounted, Held, Ending, StuckInScan
<1>19. CASE ReapWake
  <2>1. ScalarType'
    BY <1>19, <1>1, TaskAssumption
       DEF ReapWake, ScalarType, AtTask, LoopPCs, DispPCs, Disp, Tasks
  <2>2. TaskType'
    BY <1>19, <1>1, TaskAssumption
       DEF ReapWake, TaskType, ScalarType, AtTask, OneActivation, LoopPCs, TaskPCs,
           Scanning, Capped
  <2>3. AtTask'
    BY <1>19, <1>1, TaskAssumption DEF ReapWake, AtTask, ScalarType, LoopPCs, DispPCs, Tasks
  <2>4. OneActivation'
    BY <1>19, <1>1, TaskAssumption
       DEF ReapWake, OneActivation, ScalarType, TaskType, AtTask, ScanReleased, Due,
           LoopPCs, Scanning, Tasks
  <2>5. NoneInFlight'
    BY <1>19, <1>1, TaskAssumption DEF ReapWake, NoneInFlight, ScalarType
  <2>6. ReapedGone'
    BY <1>19, <1>1, TaskAssumption
       DEF ReapWake, ReapedGone, ScalarType, AtTask, TaskType, Tasks, DispPCs, Scanning
  <2> QED
    BY <1>19, <1>1, InvParts, <2>1, <2>2, <2>3, <2>4, <2>5, <2>6
       DEF ReapWake, FlagType, ScanReleased, SlotsCounted, Held, Ending, StuckInScan
<1>20. CASE Reap
  <2>1. ScalarType'
    BY <1>20, <1>1, TaskAssumption
       DEF Reap, ReapWait, ScalarType, AtTask, LoopPCs, DispPCs, Disp, Tasks
  <2>2. FlagType'
    BY <1>20, <1>1, TaskAssumption DEF Reap, ReapWait, FlagType
  <2>3. AtTask'
    BY <1>20, <1>1, TaskAssumption
       DEF Reap, ReapWait, AtTask, ScalarType, LoopPCs, DispPCs, Tasks
  <2>4. OneActivation'
    BY <1>20, <1>1, TaskAssumption
       DEF Reap, ReapWait, OneActivation, ScalarType, TaskType, AtTask, ScanReleased, Due,
           LoopPCs, Scanning, Tasks
  <2>5. NoneInFlight'
    BY <1>20, <1>1, TaskAssumption DEF Reap, ReapWait, NoneInFlight, ScalarType
  <2>6. ReapedGone'
    <3>1. d = "reap_wait" /\ i \in 1 .. N + 1 /\ tpc' = tpc /\ outputs' = outputs
      BY <1>20, <1>1 DEF Reap, ReapWait, ScalarType
    <3>2. outputs # "zero"
      BY <1>1, <3>1 DEF ReapedGone
    <3>3. CASE i \in Tasks /\ tpc[i] = "gone" /\ i' = i + 1 /\ d' = d
      BY <1>1, <3>1, <3>2, <3>3 DEF ReapedGone, Tasks
    <3>4. CASE i' = i /\ d' = "abort"
      BY <1>1, <3>1, <3>2, <3>4 DEF ReapedGone
    <3>5. CASE i = N + 1 /\ d' = "off"
      BY <1>1, <3>1, <3>2, <3>5, TaskAssumption DEF ReapedGone, Tasks
    <3> QED
      BY <1>20, <3>1, <3>3, <3>4, <3>5, TaskAssumption DEF Reap, ReapWait, Tasks
  <2> QED
    BY <1>20, <1>1, InvParts, <2>1, <2>2, <2>3, <2>4, <2>5, <2>6
       DEF Reap, TaskType, ScanReleased, SlotsCounted, Held, Ending, StuckInScan
<1>21. CASE AbortTask
  <2>1. ScalarType'
    BY <1>21, <1>1, TaskAssumption
       DEF AbortTask, Recover, ScalarType, AtTask, LoopPCs, DispPCs, Disp, Tasks
  <2>2. TaskType'
    BY <1>21, <1>1, TaskAssumption
       DEF AbortTask, Recover, TaskType, ScalarType, AtTask, OneActivation, LoopPCs,
           TaskPCs, Scanning, Capped
  <2>3. AtTask'
    BY <1>21, <1>1, TaskAssumption
       DEF AbortTask, Recover, AtTask, ScalarType, LoopPCs, DispPCs, Tasks
  <2>4. OneActivation'
    BY <1>21, <1>1, TaskAssumption
       DEF AbortTask, Recover, OneActivation, ScalarType, TaskType, AtTask, ScanReleased,
           Due, LoopPCs, Scanning, Tasks
  <2>5. ScanReleased'
    BY <1>21, <1>1, TaskAssumption
       DEF AbortTask, Recover, ScanReleased, ScalarType, TaskType, OneActivation, AtTask,
           Scanning, Due, LoopPCs
  <2>6. SlotsCounted'
    <3>1. Held' = Held
      BY <1>21, <1>1
         DEF AbortTask, Recover, Held, TaskType, ScanReleased, Scanning, AtTask
    <3>2. Ending' = Ending
      BY <1>21, <1>1 DEF AbortTask, Recover, Ending, TaskType, AtTask
    <3> QED
      BY <1>21, <1>1, <3>1, <3>2 DEF AbortTask, SlotsCounted
  <2>7. NoneInFlight'
    BY <1>21, <1>1, TaskAssumption DEF AbortTask, Recover, NoneInFlight, ScalarType
  <2>8. ReapedGone'
    <3>1. d = "abort" /\ i \in Tasks /\ outputs' = outputs
      BY <1>21, <1>1 DEF AbortTask, AtTask
    <3>2. outputs # "zero"
      BY <1>1, <3>1 DEF ReapedGone
    <3>3. CASE i' = i /\ d' = d /\ tpc' = [tpc EXCEPT ![i] = "dead"]
      BY <1>1, <3>1, <3>2, <3>3 DEF ReapedGone, TaskType, Tasks
    <3>4. CASE tpc[i] = "gone" /\ i' = i + 1 /\ d' = "reap_wait" /\ tpc' = tpc
      BY <1>1, <3>1, <3>2, <3>4, TaskAssumption DEF ReapedGone, Tasks
    <3> QED
      BY <1>21, <3>3, <3>4 DEF AbortTask, Recover
  <2> QED
    BY <1>21, <1>1, InvParts, <2>1, <2>2, <2>3, <2>4, <2>5, <2>6, <2>7, <2>8
       DEF AbortTask, FlagType, StuckInScan
<1>22. CASE GiveUp
  <2>1. FlagType'
    BY <1>22, <1>1, TaskAssumption DEF GiveUp, FlagType
  <2> QED
    BY <1>22, <1>1, InvParts, <2>1
       DEF GiveUp, ScalarType, TaskType, AtTask, OneActivation, ScanReleased, SlotsCounted,
           Held, Ending, NoneInFlight, StuckInScan, ReapedGone
<1>23. CASE OutputsOff
  <2>1. ScalarType'
    BY <1>23, <1>1, TaskAssumption
       DEF OutputsOff, ScalarType, AtTask, LoopPCs, DispPCs, Disp, Tasks
  <2>2. FlagType'
    BY <1>23, <1>1, TaskAssumption DEF OutputsOff, FlagType
  <2>3. AtTask'
    BY <1>23, <1>1, TaskAssumption DEF OutputsOff, AtTask, ScalarType, LoopPCs, DispPCs, Tasks
  <2>4. OneActivation'
    BY <1>23, <1>1, TaskAssumption
       DEF OutputsOff, OneActivation, ScalarType, TaskType, AtTask, ScanReleased, Due,
           LoopPCs, Scanning, Tasks
  <2>5. NoneInFlight'
    BY <1>23, <1>1, TaskAssumption DEF OutputsOff, NoneInFlight, ScalarType
  <2>6. ReapedGone'
    BY <1>23, <1>1, TaskAssumption
       DEF OutputsOff, ReapedGone, ScalarType, AtTask, TaskType, Tasks, DispPCs, Scanning
  <2> QED
    BY <1>23, <1>1, InvParts, <2>1, <2>2, <2>3, <2>4, <2>5, <2>6
       DEF OutputsOff, TaskType, ScanReleased, SlotsCounted, Held, Ending, StuckInScan
<1>24. CASE CrashDispatcher
  <2>1. ScalarType'
    BY <1>24, <1>1, TaskAssumption
       DEF CrashDispatcher, ScalarType, AtTask, LoopPCs, DispPCs, Disp, Tasks
  <2>2. FlagType'
    BY <1>24, <1>1, TaskAssumption DEF CrashDispatcher, FlagType
  <2>3. AtTask'
    BY <1>24, <1>1, TaskAssumption
       DEF CrashDispatcher, AtTask, ScalarType, LoopPCs, DispPCs, Tasks
  <2>4. OneActivation'
    BY <1>24, <1>1, TaskAssumption
       DEF CrashDispatcher, OneActivation, ScalarType, TaskType, AtTask, ScanReleased, Due,
           LoopPCs, Scanning, Tasks
  <2>5. NoneInFlight'
    BY <1>24, <1>1, TaskAssumption DEF CrashDispatcher, NoneInFlight, ScalarType
  <2>6. ReapedGone'
    BY <1>24, <1>1, TaskAssumption
       DEF CrashDispatcher, ReapedGone, ScalarType, AtTask, TaskType, Tasks, DispPCs,
           Scanning
  <2> QED
    BY <1>24, <1>1, InvParts, <2>1, <2>2, <2>3, <2>4, <2>5, <2>6
       DEF CrashDispatcher, TaskType, ScanReleased, SlotsCounted, Held, Ending, StuckInScan
<1>25. CASE StateChanges
  <2>1. ScalarType'
    BY <1>25, <1>1, TaskAssumption
       DEF StateChanges, ScalarType, AtTask, LoopPCs, DispPCs, Disp, Tasks
  <2>2. AtTask'
    BY <1>25, <1>1, TaskAssumption DEF StateChanges, AtTask, ScalarType, LoopPCs, DispPCs, Tasks
  <2> QED
    BY <1>25, <1>1, InvParts, <2>1, <2>2
       DEF StateChanges, FlagType, TaskType, OneActivation, ScanReleased, SlotsCounted,
           Held, Ending, NoneInFlight, StuckInScan, ReapedGone
<1>26. CASE WatchdogTrips
  <2>1. FlagType'
    BY <1>26, <1>1, TaskAssumption DEF WatchdogTrips, FlagType
  <2> QED
    BY <1>26, <1>1, InvParts, <2>1
       DEF WatchdogTrips, ScalarType, TaskType, AtTask, OneActivation, ScanReleased,
           SlotsCounted, Held, Ending, NoneInFlight, StuckInScan, ReapedGone
<1>27. CASE UNCHANGED vars
  BY <1>27, <1>1, InvParts
     DEF ScalarType, FlagType, TaskType, AtTask, OneActivation, ScanReleased, SlotsCounted,
         Held, Ending, NoneInFlight, StuckInScan, ReapedGone
<1> QED
  BY <1>2, <1>3, <1>4, <1>5, <1>6, <1>7, <1>8, <1>9, <1>10, <1>11, <1>12, <1>13, <1>14,
     <1>15, <1>16, <1>17, <1>18, <1>19, <1>20, <1>21, <1>22, <1>23, <1>24, <1>25, <1>26,
     <1>27
     DEF Next, WorkerStep, DispatcherStep, Over

\* The invariant holds in every reachable state.
LEMMA InvAlways == Spec => []DispatcherInv
<1>1. Init => DispatcherInv
  BY InvInit
<1>2. DispatcherInv /\ [Next]_vars => DispatcherInv'
  BY InvNext
<1> QED
  BY <1>1, <1>2, PTL DEF Spec

\* A set of tasks without members has a count of zero, and no other has.
LEMMA NoMembers ==
  ASSUME NEW S \in SUBSET Tasks, Cardinality(S) = 0
  PROVE  S = {}
<1>1. SUFFICES ASSUME NEW t \in S PROVE FALSE
  OBVIOUS
<1>2. Cardinality(S) >= 1
  BY OneMore
<1> QED
  BY <1>2

\* Every scan that goes on holds a slot: the tasks at work are among those that hold
\* the slot of their activation and those that have yet to give back their last one.
LEMMA SlotsEnough == DispatcherInv => SlotsCovered
<1> SUFFICES ASSUME DispatcherInv PROVE SlotsCovered
  OBVIOUS
<1> DEFINE AtWork == {t \in Tasks : tpc[t] \in {"slot", "dead"} \cup (Scanning \ {"woken"})}
<1>1. TaskType /\ ScanReleased /\ SlotsCounted
  BY InvParts
<1>2. Held \in SUBSET Tasks /\ Ending \in SUBSET Tasks /\ AtWork \in SUBSET Tasks
  BY DEF Held, Ending
<1>3. AtWork \subseteq Held \cup Ending
  BY <1>1 DEF Held, Ending, ScanReleased, Scanning
<1>4. IsFiniteSet(Held \cup Ending) /\ IsFiniteSet(AtWork)
  BY <1>2, TaskSets
<1>5. Cardinality(AtWork) <= Cardinality(Held \cup Ending)
  BY <1>3, <1>4, FS_Subset
<1>6. Cardinality(Held \cup Ending)
        = Cardinality(Held) + Cardinality(Ending) - Cardinality(Held \cap Ending)
  BY SlotRange, FS_Union
<1>7. Cardinality(Held \cap Ending) \in 0 .. N
  BY <1>2, TaskSets
<1>8. Cardinality(AtWork) \in 0 .. N /\ Cardinality(Held \cup Ending) \in 0 .. N
  BY <1>2, TaskSets
<1>9. g_tasks_running = Cardinality(Held) + Cardinality(Ending)
  BY <1>1 DEF SlotsCounted
<1>10. g_tasks_running >= Cardinality(AtWork)
  BY <1>5, <1>6, <1>7, <1>8, <1>9, SlotRange, TaskAssumption
<1> QED
  BY <1>10 DEF SlotsCovered

\* Activations and slots are counted right in every run: at most one activation waits
\* for a task before the reap, and g_tasks_running covers every scan that goes on.
THEOREM ActivationsCountedHolds == Spec => []ActivationsCounted
<1>1. DispatcherInv => ActivationsCounted
  <2> SUFFICES ASSUME DispatcherInv PROVE ActivationsCounted
    OBVIOUS
  <2>1. NoPileUp
    BY InvParts DEF NoPileUp, OneActivation, TaskType, Scanning
  <2> QED
    BY <2>1, SlotsEnough DEF ActivationsCounted, DispatcherInv
<1> QED
  BY <1>1, InvAlways, PTL

\* Whenever the dispatcher has the image to itself, no task is in its scan or about to
\* enter it: with g_tasks_running at zero nobody holds a slot.
THEOREM QuietWindowHolds == Spec => []QuietWindow
<1>1. DispatcherInv => QuietWindow
  <2> SUFFICES ASSUME DispatcherInv, d \in {"primed", "commit"}, NEW t \in Tasks
               PROVE  tpc[t] \notin Scanning /\ go[t] = 0
    BY DEF QuietWindow
  <2>1. TaskType /\ OneActivation /\ ScanReleased /\ SlotsCounted /\ NoneInFlight
    BY InvParts
  <2>2. Cardinality(Held) = 0 /\ Cardinality(Ending) = 0
    BY <2>1, SlotRange DEF NoneInFlight, SlotsCounted
  <2>3. Held = {}
    BY <2>2, NoMembers DEF Held
  <2>4. t \notin Held
    BY <2>3
  <2> QED
    BY <2>1, <2>4 DEF Held, TaskType, OneActivation, ScanReleased, LoopPCs, Scanning
<1> QED
  BY <1>1, InvAlways, PTL

\* A task that counts as stuck has been in one scan for as many of its periods.
THEOREM StuckHonestHolds == Spec => []StuckHonest
<1>1. DispatcherInv => StuckHonest
  BY InvParts, TaskAssumption DEF StuckHonest, StuckInScan, TaskType
<1> QED
  BY <1>1, InvAlways, PTL

\* When the outputs go to zero every worker has gone, and none comes back.
THEOREM ZeroFinalHolds == Spec => []ZeroFinal
<1>1. DispatcherInv => ZeroFinal
  BY InvParts DEF ZeroFinal, ReapedGone
<1> QED
  BY <1>1, InvAlways, PTL
=============================================================================
