------------------------- MODULE PlcLifecycleProofs -------------------------
(***************************************************************************)
(* Proofs about PlcLifecycle, for any number of workers and cycle threads  *)
(* and any bounds.                                                         *)
(***************************************************************************)
EXTENDS PlcLifecycle, TLAPS

\* What every action relies on: the groups of variables and the abbreviations.
USE DEF vars, locals, program, plugin, switch, cycle, process, counts,
        Goto, CGoto, Set, Fault, NoFault

-----------------------------------------------------------------------------
(* The labels and states the actions mention *)

\* The places a thread can be are pairwise different names; the provers need them once.
LEMMA ThreadLabels ==
  /\ "idle" \in ThreadPCs /\ "moved" \in ThreadPCs /\ "request" \in ThreadPCs
  /\ "gate" \in ThreadPCs /\ "claim" \in ThreadPCs /\ "landing" \in ThreadPCs
  /\ "recon" \in ThreadPCs /\ "compare" \in ThreadPCs /\ "reclaim" \in ThreadPCs
  /\ "end" \in ThreadPCs /\ "boot" \in ThreadPCs /\ "release" \in ThreadPCs
  /\ "release_held" \in ThreadPCs /\ "regate" \in ThreadPCs
  /\ "up" \in ThreadPCs /\ "wait" \in ThreadPCs /\ "destroy" \in ThreadPCs
  /\ "closed" \in ThreadPCs /\ "drop" \in ThreadPCs /\ "fallback" \in ThreadPCs
  /\ "fallback_pub" \in ThreadPCs /\ "spawn" \in ThreadPCs
  /\ "respawn" \in ThreadPCs /\ "set" \in ThreadPCs /\ "load" \in ThreadPCs
  /\ "plugins" \in ThreadPCs /\ "pinit" \in ThreadPCs /\ "create" \in ThreadPCs
  /\ "un_lock" \in ThreadPCs /\ "un_fail" \in ThreadPCs
  /\ "un_pub" \in ThreadPCs /\ "un_join" \in ThreadPCs
  /\ "un_tear" \in ThreadPCs /\ "un_land" \in ThreadPCs
BY DEF ThreadPCs, Body, StartBody, StopBody

\* The same for the places of a cycle thread.
LEMMA CycleLabels ==
  /\ "none" \in CyclePCs /\ "run" \in CyclePCs /\ "trip" \in CyclePCs
  /\ "drain" \in CyclePCs /\ "async" \in CyclePCs /\ "reap" \in CyclePCs
  /\ "done" \in CyclePCs /\ "boot" \in CyclePCs /\ "pstart" \in CyclePCs
  /\ "tasks" \in CyclePCs /\ "pub" \in CyclePCs
BY DEF CyclePCs, BringUp

\* The same for the values of plc_state.
LEMMA StateNames ==
  /\ "RUNNING" \in States /\ "STOPPED" \in States /\ "ERROR" \in States
  /\ "EMPTY" \in States /\ "TO_RUN" \in States /\ "TO_STOP" \in States
BY DEF States, Transitioning

\* The command thread, main and the plugin thread are no workers.
LEMMA ThreadNames ==
  /\ "socket" \in Threads /\ "plugin" \in Threads /\ "main" \in Threads
  /\ Workers \subseteq Threads
BY DEF Threads

-----------------------------------------------------------------------------
(* Types *)

\* The process starts in a well-typed state.
LEMMA TypeInit == Init => TypeOK
<1> SUFFICES ASSUME Init PROVE TypeOK
  OBVIOUS
<1>1. ScalarType
  BY StateNames DEF Init, ScalarType
<1>2. FlagType
  BY Zenon DEF Init, FlagType
<1>3. LocalType
  BY ThreadLabels DEF Init, LocalType
<1>4. ResultType
  <2>1. <<>> \in Seq(BOOLEAN)
    OBVIOUS
  <2> QED
    BY <2>1, Zenon DEF Init, ResultType
<1>5. CycleType
  BY CycleLabels DEF Init, CycleType
<1> QED
  BY <1>1, <1>2, <1>3, <1>4, <1>5 DEF TypeOK

\* Every step of every thread keeps the types.
LEMMA TypeNext == TypeOK /\ [Next]_vars => TypeOK'
<1> SUFFICES ASSUME TypeOK, [Next]_vars PROVE TypeOK'
  OBVIOUS
<1>1. ASSUME NEW cmd \in SocketCommands, SocketCommand(cmd) PROVE TypeOK'
  <2>1. ScalarType'
    BY <1>1, StateNames DEF SocketCommand, TypeOK, ScalarType
  <2>2. LocalType'
    BY <1>1, ThreadLabels, ThreadNames DEF SocketCommand, TypeOK, LocalType
  <2> QED
    BY <1>1, <2>1, <2>2 DEF SocketCommand, TypeOK, FlagType, ResultType,
       CycleType
<1>2. ASSUME NEW t \in Threads, Gate(t) PROVE TypeOK'
  <2>1. LocalType'
    BY <1>2, ThreadLabels, ThreadNames DEF Gate, TypeOK, LocalType, Return
  <2> QED
    BY <1>2, <2>1 DEF Gate, TypeOK, ScalarType, FlagType, ResultType,
       CycleType
<1>3. ASSUME NEW t \in Threads, Claim(t) PROVE TypeOK'
  <2>1. ScalarType'
    BY <1>3, StateNames DEF Claim, TypeOK, ScalarType, Direction
  <2>2. FlagType'
    BY <1>3, Zenon DEF Claim, TypeOK, FlagType, Disturbs
  <2>3. LocalType'
    BY <1>3, ThreadLabels, ThreadNames DEF Claim, TypeOK, LocalType, Return
  <2> QED
    BY <1>3, <2>1, <2>2, <2>3 DEF Claim, TypeOK, ResultType, CycleType
<1>4. ASSUME NEW t \in Threads, Spawn(t) PROVE TypeOK'
  <2>1. ScalarType'
    BY <1>4, StateNames DEF Spawn, TypeOK, ScalarType, NoWorker
  <2>2. LocalType'
    BY <1>4, ThreadLabels, ThreadNames DEF Spawn, TypeOK, LocalType, Return,
       NoWorker
  <2> QED
    BY <1>4, <2>1, <2>2 DEF Spawn, TypeOK, FlagType, ResultType, CycleType
<1>5. ASSUME NEW t \in Threads, FindProgram(t) PROVE TypeOK'
  <2>1. ScalarType'
    BY <1>5, StateNames DEF FindProgram, TypeOK, ScalarType, Landed
  <2>2. FlagType'
    BY <1>5, Zenon DEF FindProgram, TypeOK, FlagType
  <2>3. LocalType'
    BY <1>5, ThreadLabels, ThreadNames DEF FindProgram, TypeOK, LocalType,
       ScalarType
  <2>4. ResultType'
    BY <1>5, Zenon DEF FindProgram, TypeOK, ResultType
  <2> QED
    BY <1>5, <2>1, <2>2, <2>3, <2>4 DEF FindProgram, TypeOK, CycleType
<1>6. ASSUME NEW t \in Threads, LoadProgram(t) PROVE TypeOK'
  <2>1. ScalarType'
    BY <1>6, StateNames DEF LoadProgram, TypeOK, ScalarType, FailStart
  <2>2. FlagType'
    BY <1>6, Zenon DEF LoadProgram, TypeOK, FlagType, FailStart
  <2>3. LocalType'
    BY <1>6, ThreadLabels, ThreadNames DEF LoadProgram, TypeOK, LocalType,
       FailStart
  <2>4. ResultType'
    BY <1>6, Zenon DEF LoadProgram, TypeOK, ResultType, FailStart
  <2> QED
    BY <1>6, <2>1, <2>2, <2>3, <2>4 DEF LoadProgram, TypeOK, CycleType
<1>7. ASSUME NEW t \in Threads, LoadPlugins(t) PROVE TypeOK'
  <2>1. ScalarType'
    BY <1>7, StateNames DEF LoadPlugins, TypeOK, ScalarType, FailStart,
       TornDown, Stale
  <2>2. FlagType'
    BY <1>7, Zenon DEF LoadPlugins, TypeOK, FlagType, FailStart
  <2>3. LocalType'
    BY <1>7, ThreadLabels, ThreadNames DEF LoadPlugins, TypeOK, LocalType,
       FailStart
  <2>4. ResultType'
    BY <1>7, Zenon DEF LoadPlugins, TypeOK, ResultType, FailStart
  <2> QED
    BY <1>7, <2>1, <2>2, <2>3, <2>4 DEF LoadPlugins, TypeOK, CycleType
<1>8. ASSUME NEW t \in Threads, InitPlugins(t) PROVE TypeOK'
  <2>1. ScalarType'
    BY <1>8, StateNames DEF InitPlugins, TypeOK, ScalarType, FailStart
  <2>2. FlagType'
    BY <1>8, Zenon DEF InitPlugins, TypeOK, FlagType, FailStart
  <2>3. LocalType'
    BY <1>8, ThreadLabels, ThreadNames DEF InitPlugins, TypeOK, LocalType,
       FailStart
  <2>4. ResultType'
    BY <1>8, Zenon DEF InitPlugins, TypeOK, ResultType, FailStart
  <2> QED
    BY <1>8, <2>1, <2>2, <2>3, <2>4 DEF InitPlugins, TypeOK, CycleType
<1>9. ASSUME NEW t \in Threads, CreateCycle(t) PROVE TypeOK'
  <2>1. ScalarType'
    BY <1>9, StateNames DEF CreateCycle, TypeOK, ScalarType, FailStart
  <2>2. FlagType'
    BY <1>9, Zenon DEF CreateCycle, TypeOK, FlagType, FailStart
  <2>3. LocalType'
    BY <1>9, ThreadLabels, ThreadNames DEF CreateCycle, TypeOK, LocalType,
       FailStart
  <2>4. ResultType'
    BY <1>9, Zenon DEF CreateCycle, TypeOK, ResultType, FailStart
  <2>5. CycleType'
    BY <1>9, CycleLabels DEF CreateCycle, TypeOK, CycleType
  <2> QED
    BY <1>9, <2>1, <2>2, <2>3, <2>4, <2>5 DEF CreateCycle, TypeOK
<1>10. ASSUME NEW t \in Threads, DropManager(t) PROVE TypeOK'
  <2>1. ScalarType'
    BY <1>10, StateNames DEF DropManager, TypeOK, ScalarType
  <2>2. FlagType'
    BY <1>10, Zenon DEF DropManager, TypeOK, FlagType
  <2>3. LocalType'
    BY <1>10, ThreadLabels, ThreadNames DEF DropManager, TypeOK, LocalType
  <2> QED
    BY <1>10, <2>1, <2>2, <2>3 DEF DropManager, TypeOK, ResultType, CycleType
<1>11. ASSUME NEW t \in Threads, Fallback(t) PROVE TypeOK'
  <2>1. LocalType'
    BY <1>11, ThreadLabels, ThreadNames DEF Fallback, TypeOK, LocalType
  <2> QED
    BY <1>11, <2>1 DEF Fallback, TypeOK, ScalarType, FlagType, ResultType,
       CycleType
<1>12. ASSUME NEW t \in Threads, FallbackPublish(t) PROVE TypeOK'
  <2>1. ScalarType'
    BY <1>12, StateNames DEF FallbackPublish, TypeOK, ScalarType, Landed
  <2>2. FlagType'
    BY <1>12, Zenon DEF FallbackPublish, TypeOK, FlagType
  <2>3. LocalType'
    BY <1>12, ThreadLabels, ThreadNames DEF FallbackPublish, TypeOK, LocalType
  <2> QED
    BY <1>12, <2>1, <2>2, <2>3 DEF FallbackPublish, TypeOK, ResultType,
       CycleType
<1>13. ASSUME NEW t \in Threads, SetStopped(t) PROVE TypeOK'
  <2>1. ScalarType'
    BY <1>13, StateNames DEF SetStopped, TypeOK, ScalarType, Landed
  <2>2. LocalType'
    BY <1>13, ThreadLabels, ThreadNames DEF SetStopped, TypeOK, LocalType,
       ScalarType
  <2>3. ResultType'
    BY <1>13, Zenon DEF SetStopped, TypeOK, ResultType
  <2> QED
    BY <1>13, <2>1, <2>2, <2>3 DEF SetStopped, TypeOK, FlagType, CycleType
<1>14. ASSUME NEW t \in Threads, UnloadLock(t) PROVE TypeOK'
  <2>1. ScalarType'
    BY <1>14, StateNames DEF UnloadLock, TypeOK, ScalarType
  <2>2. LocalType'
    BY <1>14, ThreadLabels, ThreadNames DEF UnloadLock, TypeOK, LocalType
  <2> QED
    BY <1>14, <2>1, <2>2 DEF UnloadLock, TypeOK, FlagType, ResultType,
       CycleType
<1>15. ASSUME NEW t \in Threads, UnloadFail(t) PROVE TypeOK'
  <2>1. ScalarType'
    BY <1>15, StateNames DEF UnloadFail, TypeOK, ScalarType, Landed
  <2>2. LocalType'
    BY <1>15, ThreadLabels, ThreadNames DEF UnloadFail, TypeOK, LocalType,
       AfterUnload
  <2>3. ResultType'
    BY <1>15, Zenon DEF UnloadFail, TypeOK, ResultType
  <2> QED
    BY <1>15, <2>1, <2>2, <2>3 DEF UnloadFail, TypeOK, FlagType, CycleType
<1>16. ASSUME NEW t \in Threads, UnloadPublish(t) PROVE TypeOK'
  <2>1. ScalarType'
    BY <1>16, StateNames DEF UnloadPublish, TypeOK, ScalarType, CycleType
  <2>2. FlagType'
    BY <1>16, Zenon DEF UnloadPublish, TypeOK, FlagType
  <2>3. LocalType'
    BY <1>16, ThreadLabels, ThreadNames DEF UnloadPublish, TypeOK, LocalType
  <2> QED
    BY <1>16, <2>1, <2>2, <2>3 DEF UnloadPublish, TypeOK, ResultType,
       CycleType
<1>17. ASSUME NEW t \in Threads, UnloadJoin(t) PROVE TypeOK'
  <2>1. ScalarType'
    BY <1>17, StateNames DEF UnloadJoin, TypeOK, ScalarType
  <2>2. LocalType'
    BY <1>17, ThreadLabels, ThreadNames DEF UnloadJoin, TypeOK, LocalType
  <2>3. CycleType'
    BY <1>17, CycleLabels DEF UnloadJoin, TypeOK, CycleType
  <2> QED
    BY <1>17, <2>1, <2>2, <2>3 DEF UnloadJoin, TypeOK, FlagType, ResultType
<1>18. ASSUME NEW t \in Threads, UnloadTear(t) PROVE TypeOK'
  <2>1. ScalarType'
    BY <1>18, StateNames DEF UnloadTear, TypeOK, ScalarType
  <2>2. FlagType'
    BY <1>18, Zenon DEF UnloadTear, TypeOK, FlagType
  <2>3. LocalType'
    BY <1>18, ThreadLabels, ThreadNames DEF UnloadTear, TypeOK, LocalType
  <2> QED
    BY <1>18, <2>1, <2>2, <2>3 DEF UnloadTear, TypeOK, ResultType, CycleType
<1>19. ASSUME NEW t \in Threads, UnloadLand(t) PROVE TypeOK'
  <2>1. ScalarType'
    BY <1>19, StateNames DEF UnloadLand, TypeOK, ScalarType, Landed
  <2>2. FlagType'
    BY <1>19, Zenon DEF UnloadLand, TypeOK, FlagType
  <2>3. LocalType'
    BY <1>19, ThreadLabels, ThreadNames DEF UnloadLand, TypeOK, LocalType,
       AfterUnload
  <2>4. ResultType'
    BY <1>19, Zenon DEF UnloadLand, TypeOK, ResultType
  <2> QED
    BY <1>19, <2>1, <2>2, <2>3, <2>4 DEF UnloadLand, TypeOK, CycleType
<1>20. ASSUME NEW t \in Threads, Landing(t) PROVE TypeOK'
  <2>1. LocalType'
    BY <1>20, ThreadLabels, ThreadNames DEF Landing, TypeOK, LocalType
  <2> QED
    BY <1>20, <2>1 DEF Landing, TypeOK, ScalarType, FlagType, ResultType,
       CycleType
<1>21. ASSUME NEW t \in Threads, TakeMovement(t) PROVE TypeOK'
  <2>1. FlagType'
    BY <1>21, Zenon DEF TakeMovement, TypeOK, FlagType
  <2>2. LocalType'
    BY <1>21, ThreadLabels, ThreadNames DEF TakeMovement, TypeOK, LocalType
  <2> QED
    BY <1>21, <2>1, <2>2 DEF TakeMovement, TypeOK, ScalarType, ResultType,
       CycleType
<1>22. ASSUME NEW t \in Threads, Compare(t) PROVE TypeOK'
  <2>1. LocalType'
    BY <1>22, ThreadLabels, ThreadNames DEF Compare, TypeOK, LocalType, Wanted
  <2> QED
    BY <1>22, <2>1 DEF Compare, TypeOK, ScalarType, FlagType, ResultType,
       CycleType
<1>23. ASSUME NEW t \in Threads, Reclaim(t) PROVE TypeOK'
  <2>1. ScalarType'
    BY <1>23, StateNames DEF Reclaim, TypeOK, ScalarType, Direction
  <2>2. FlagType'
    BY <1>23, Zenon DEF Reclaim, TypeOK, FlagType, Disturbs
  <2>3. LocalType'
    BY <1>23, ThreadLabels, ThreadNames DEF Reclaim, TypeOK, LocalType
  <2> QED
    BY <1>23, <2>1, <2>2, <2>3 DEF Reclaim, TypeOK, ResultType, CycleType
<1>24. ASSUME NEW t \in Threads, Respawn(t) PROVE TypeOK'
  <2>1. ScalarType'
    BY <1>24, StateNames DEF Respawn, TypeOK, ScalarType, NoWorker
  <2>2. LocalType'
    BY <1>24, ThreadLabels, ThreadNames DEF Respawn, TypeOK, LocalType,
       NoWorker
  <2>3. ResultType'
    <3>1. Append(frames[t], result[t]) \in Seq(BOOLEAN)
      BY DEF TypeOK, ResultType
    <3> QED
      BY <1>24, <3>1, Zenon DEF Respawn, TypeOK, ResultType
  <2> QED
    BY <1>24, <2>1, <2>2, <2>3 DEF Respawn, TypeOK, FlagType, CycleType
<1>25. ASSUME NEW t \in Threads, EndTransition(t) PROVE TypeOK'
  <2>1. FlagType'
    BY <1>25, Zenon DEF EndTransition, TypeOK, FlagType
  <2>2. LocalType'
    BY <1>25, ThreadLabels, ThreadNames DEF EndTransition, TypeOK, LocalType,
       Return
  <2>3. ResultType'
    <3>1. CASE frames[t] = <<>>
      BY <1>25, <3>1, Zenon DEF EndTransition, TypeOK, ResultType
    <3>2. CASE frames[t] # <<>>
      <4>1. frames[t] \in Seq(BOOLEAN)
        BY DEF TypeOK, ResultType
      <4>2. SubSeq(frames[t], 1, Len(frames[t]) - 1) \in Seq(BOOLEAN)
        BY <3>2, <4>1
      <4>3. frames[t][Len(frames[t])] \in BOOLEAN
        BY <3>2, <4>1
      <4> QED
        BY <1>25, <3>2, <4>2, <4>3, Zenon DEF EndTransition, TypeOK,
           ResultType
    <3> QED
      BY <3>1, <3>2
  <2> QED
    BY <1>25, <2>1, <2>2, <2>3 DEF EndTransition, TypeOK, ScalarType,
       CycleType
<1>26. ASSUME NEW c \in Cycles, CycleBoot(c) PROVE TypeOK'
  <2>1. ScalarType'
    BY <1>26, StateNames DEF CycleBoot, TypeOK, ScalarType, CycleError
  <2>2. FlagType'
    BY <1>26, Zenon DEF CycleBoot, TypeOK, FlagType, CycleError
  <2>3. CycleType'
    BY <1>26, CycleLabels DEF CycleBoot, TypeOK, CycleType
  <2> QED
    BY <1>26, <2>1, <2>2, <2>3 DEF CycleBoot, TypeOK, LocalType, ResultType
<1>27. ASSUME NEW c \in Cycles, CycleStartPlugins(c) PROVE TypeOK'
  <2>1. FlagType'
    BY <1>27, Zenon DEF CycleStartPlugins, TypeOK, FlagType
  <2>2. CycleType'
    BY <1>27, CycleLabels DEF CycleStartPlugins, TypeOK, CycleType
  <2> QED
    BY <1>27, <2>1, <2>2 DEF CycleStartPlugins, TypeOK, ScalarType,
       LocalType, ResultType
<1>28. ASSUME NEW c \in Cycles, CycleSpawnTasks(c) PROVE TypeOK'
  <2>1. ScalarType'
    BY <1>28, StateNames DEF CycleSpawnTasks, TypeOK, ScalarType, CycleError
  <2>2. FlagType'
    BY <1>28, Zenon DEF CycleSpawnTasks, TypeOK, FlagType, CycleError
  <2>3. CycleType'
    BY <1>28, CycleLabels DEF CycleSpawnTasks, TypeOK, CycleType
  <2> QED
    BY <1>28, <2>1, <2>2, <2>3 DEF CycleSpawnTasks, TypeOK, LocalType,
       ResultType
<1>29. ASSUME NEW c \in Cycles, CyclePublish(c) PROVE TypeOK'
  <2>1. ScalarType'
    BY <1>29, StateNames DEF CyclePublish, TypeOK, ScalarType
  <2>2. CycleType'
    BY <1>29, CycleLabels DEF CyclePublish, TypeOK, CycleType
  <2> QED
    BY <1>29, <2>1, <2>2 DEF CyclePublish, TypeOK, FlagType, LocalType,
       ResultType
<1>30. ASSUME NEW c \in Cycles, CycleRun(c) PROVE TypeOK'
  <2>1. ScalarType'
    BY <1>30, StateNames DEF CycleRun, TypeOK, ScalarType, CycleError
  <2>2. FlagType'
    BY <1>30, Zenon DEF CycleRun, TypeOK, FlagType, CycleError
  <2>3. CycleType'
    BY <1>30, CycleLabels DEF CycleRun, TypeOK, CycleType
  <2> QED
    BY <1>30, <2>1, <2>2, <2>3 DEF CycleRun, TypeOK, LocalType, ResultType
<1>31. ASSUME NEW c \in Cycles, CycleTrip(c) PROVE TypeOK'
  <2>1. ScalarType'
    BY <1>31, StateNames DEF CycleTrip, TypeOK, ScalarType
  <2>2. ResultType'
    BY <1>31, Zenon DEF CycleTrip, TypeOK, ResultType, Claimable
  <2>3. CycleType'
    BY <1>31, CycleLabels DEF CycleTrip, TypeOK, CycleType
  <2> QED
    BY <1>31, <2>1, <2>2, <2>3 DEF CycleTrip, TypeOK, FlagType, LocalType
<1>32. ASSUME NEW c \in Cycles, CycleDrain(c) PROVE TypeOK'
  <2>1. ScalarType'
    BY <1>32, StateNames DEF CycleDrain, TypeOK, ScalarType, CycleError
  <2>2. FlagType'
    BY <1>32, Zenon DEF CycleDrain, TypeOK, FlagType, CycleError
  <2>3. CycleType'
    BY <1>32, CycleLabels DEF CycleDrain, TypeOK, CycleType
  <2> QED
    BY <1>32, <2>1, <2>2, <2>3 DEF CycleDrain, TypeOK, LocalType, ResultType
<1>33. ASSUME NEW c \in Cycles, CycleAsync(c) PROVE TypeOK'
  <2>1. ScalarType'
    BY <1>33, StateNames DEF CycleAsync, TypeOK, ScalarType, NoWorker
  <2>2. LocalType'
    BY <1>33, ThreadLabels, ThreadNames DEF CycleAsync, TypeOK, LocalType,
       NoWorker
  <2>3. CycleType'
    BY <1>33, CycleLabels DEF CycleAsync, TypeOK, CycleType
  <2> QED
    BY <1>33, <2>1, <2>2, <2>3 DEF CycleAsync, TypeOK, FlagType, ResultType
<1>34. ASSUME NEW c \in Cycles, CycleReap(c) PROVE TypeOK'
  <2>1. ScalarType'
    BY <1>34, StateNames DEF CycleReap, TypeOK, ScalarType
  <2>2. FlagType'
    BY <1>34, Zenon DEF CycleReap, TypeOK, FlagType
  <2>3. CycleType'
    BY <1>34, CycleLabels DEF CycleReap, TypeOK, CycleType
  <2> QED
    BY <1>34, <2>1, <2>2, <2>3 DEF CycleReap, TypeOK, LocalType, ResultType
<1>35. CASE PluginFlip
  <2>1. ScalarType'
    BY <1>35, StateNames DEF PluginFlip, TypeOK, ScalarType
  <2>2. LocalType'
    BY <1>35, ThreadLabels, ThreadNames DEF PluginFlip, TypeOK, LocalType
  <2> QED
    BY <1>35, <2>1, <2>2 DEF PluginFlip, TypeOK, FlagType, ResultType,
       CycleType
<1>36. CASE PluginMoved
  <2>1. FlagType'
    BY <1>36, Zenon DEF PluginMoved, TypeOK, FlagType
  <2>2. LocalType'
    BY <1>36, ThreadLabels, ThreadNames DEF PluginMoved, TypeOK, LocalType
  <2> QED
    BY <1>36, <2>1, <2>2 DEF PluginMoved, TypeOK, ScalarType, ResultType,
       CycleType
<1>37. CASE PluginStop
  <2>1. ScalarType'
    BY <1>37, StateNames DEF PluginStop, TypeOK, ScalarType
  <2>2. LocalType'
    BY <1>37, ThreadLabels, ThreadNames DEF PluginStop, TypeOK, LocalType
  <2> QED
    BY <1>37, <2>1, <2>2 DEF PluginStop, TypeOK, FlagType, ResultType,
       CycleType
<1>38. CASE PluginRequest
  <2>1. LocalType'
    BY <1>38, ThreadLabels, ThreadNames DEF PluginRequest, TypeOK, LocalType
  <2> QED
    BY <1>38, <2>1 DEF PluginRequest, TypeOK, ScalarType, FlagType,
       ResultType, CycleType
<1>39. CASE WatchdogSees
  <2>1. ScalarType'
    BY <1>39, StateNames DEF WatchdogSees, TypeOK, ScalarType
  <2> QED
    BY <1>39, <2>1 DEF WatchdogSees, TypeOK, FlagType, LocalType, ResultType,
       CycleType
<1>40. CASE WatchdogForce
  <2>1. ScalarType'
    BY <1>40, StateNames DEF WatchdogForce, TypeOK, ScalarType
  <2>2. FlagType'
    BY <1>40, Zenon DEF WatchdogForce, TypeOK, FlagType
  <2> QED
    BY <1>40, <2>1, <2>2 DEF WatchdogForce, TypeOK, LocalType, ResultType,
       CycleType
<1>41. CASE WatchdogExit
  <2>1. ScalarType'
    BY <1>41, StateNames DEF WatchdogExit, TypeOK, ScalarType
  <2>2. FlagType'
    BY <1>41, Zenon DEF WatchdogExit, TypeOK, FlagType
  <2> QED
    BY <1>41, <2>1, <2>2 DEF WatchdogExit, TypeOK, LocalType, ResultType,
       CycleType
<1>42. CASE BootPlugins
  <2>1. ScalarType'
    BY <1>42, StateNames DEF BootPlugins, TypeOK, ScalarType
  <2>2. LocalType'
    BY <1>42, ThreadLabels, ThreadNames DEF BootPlugins, TypeOK, LocalType
  <2> QED
    BY <1>42, <2>1, <2>2 DEF BootPlugins, TypeOK, FlagType, ResultType,
       CycleType
<1>43. CASE BootRelease
  <2>1. FlagType'
    BY <1>43, Zenon DEF BootRelease, TypeOK, FlagType
  <2>2. LocalType'
    BY <1>43, ThreadLabels, ThreadNames DEF BootRelease, TypeOK, LocalType
  <2> QED
    BY <1>43, <2>1, <2>2 DEF BootRelease, TypeOK, ScalarType, ResultType,
       CycleType
<1>44. CASE BootRegate
  <2>1. LocalType'
    BY <1>44, ThreadLabels, ThreadNames DEF BootRegate, TypeOK, LocalType
  <2> QED
    BY <1>44, <2>1 DEF BootRegate, TypeOK, ScalarType, FlagType, ResultType,
       CycleType
<1>45. CASE CleanupWait
  <2>1. LocalType'
    BY <1>45, ThreadLabels, ThreadNames DEF CleanupWait, TypeOK, LocalType,
       ScalarType
  <2> QED
    BY <1>45, <2>1 DEF CleanupWait, TypeOK, ScalarType, FlagType, ResultType,
       CycleType
<1>46. CASE DestroyDriver
  <2>1. ScalarType'
    BY <1>46, StateNames DEF DestroyDriver, TypeOK, ScalarType
  <2>2. FlagType'
    BY <1>46, Zenon DEF DestroyDriver, TypeOK, FlagType
  <2>3. LocalType'
    BY <1>46, ThreadLabels, ThreadNames DEF DestroyDriver, TypeOK, LocalType
  <2> QED
    BY <1>46, <2>1, <2>2, <2>3 DEF DestroyDriver, TypeOK, ResultType,
       CycleType
<1>47. CASE Shutdown
  <2>1. FlagType'
    BY <1>47, Zenon DEF Shutdown, TypeOK, FlagType
  <2>2. LocalType'
    BY <1>47, ThreadLabels, ThreadNames DEF Shutdown, TypeOK, LocalType
  <2> QED
    BY <1>47, <2>1, <2>2 DEF Shutdown, TypeOK, ScalarType, ResultType,
       CycleType
<1>48. CASE UNCHANGED vars
  BY <1>48 DEF TypeOK, ScalarType, FlagType, LocalType, ResultType, CycleType
<1> QED
  BY <1>1, <1>2, <1>3, <1>4, <1>5, <1>6, <1>7, <1>8, <1>9, <1>10, <1>11,
     <1>12, <1>13, <1>14, <1>15, <1>16, <1>17, <1>18, <1>19, <1>20, <1>21,
     <1>22, <1>23, <1>24, <1>25, <1>26, <1>27, <1>28, <1>29, <1>30, <1>31,
     <1>32, <1>33, <1>34, <1>35, <1>36, <1>37, <1>38, <1>39, <1>40, <1>41,
     <1>42, <1>43, <1>44, <1>45, <1>46, <1>47, <1>48 DEF Next, Step,
     ThreadStep, CycleStep, MainStep, AtRest

\* Type correctness of the life cycle.
THEOREM TypeCorrect == Spec => []TypeOK
BY TypeInit, TypeNext, PTL DEF Spec

-----------------------------------------------------------------------------
(* The claim discipline *)

\* When the process starts nobody owns a transition and no cycle thread lives.
LEMMA DisciplineInit == Init => ClaimDiscipline
<1> SUFFICES ASSUME Init PROVE ClaimDiscipline
  OBVIOUS
<1>1. \A t \in Threads : pc[t] \in {"boot", "idle"} /\ pm[t] = 0
  BY DEF Init
<1>2. OneTransition /\ OwnersOnCourse /\ CycleAlone
  BY <1>1 DEF Init, OneTransition, OwnersOnCourse, CycleAlone, Owns, Rises,
     Lives,
              NoOwner, NoCycle, Body, StartBody, StopBody, BringUp, Threads
<1>3. FaultStopOwned /\ ManagersApart
  BY <1>1 DEF Init, FaultStopOwned, ManagersApart, StartBody, BringUp
<1> QED
  BY <1>2, <1>3 DEF ClaimDiscipline

\* What a step that may disturb the discipline tells when it has not.
LEMMA ClaimUndisturbed ==
  ASSUME NEW t, Claim(t) \/ Reclaim(t), Undisturbed'
  PROVE  /\ Undisturbed
         /\ Claimable(target[t]) /\ target[t] = "RUNNING" => plc_program = 0
<1>1. CASE Claim(t)
  BY <1>1, Zenon DEF Claim, Disturbs, Undisturbed
<1>2. CASE Reclaim(t)
  BY <1>2, Zenon DEF Reclaim, Disturbs, Undisturbed
<1> QED
  BY <1>1, <1>2

\* The same for a step that publishes ERROR from outside plc_set_state.
LEMMA ErrorUndisturbed ==
  ASSUME NEW c, CycleError(c), Undisturbed', UNCHANGED keep_running
  PROVE  /\ Undisturbed
         /\ plc_state # "TO_STOP" /\ c = plc_thread /\ plc_state' = "ERROR"
BY Zenon DEF CycleError, Undisturbed

\* The same for a cycle thread that fails.
LEMMA CycleUndisturbed ==
  ASSUME NEW c, CycleBoot(c) \/ CycleSpawnTasks(c) \/ CycleRun(c) \/ CycleDrain(c),
         Undisturbed'
  PROVE  Undisturbed
<1>1. UNCHANGED keep_running
  BY DEF CycleBoot, CycleSpawnTasks, CycleRun, CycleDrain
<1>2. CASE CycleError(c)
  BY <1>1, <1>2, ErrorUndisturbed
<1>3. CASE ~CycleError(c)
  <2>1. UNCHANGED disturbed
    BY <1>3 DEF CycleBoot, CycleSpawnTasks, CycleRun, CycleDrain
  <2> QED
    BY <1>1, <2>1 DEF Undisturbed
<1> QED
  BY <1>2, <1>3

\* Every step of every thread keeps the claim discipline, part by part.
LEMMA DisciplineNext == TypeOK /\ ClaimDiscipline /\ [Next]_vars => ClaimDiscipline'
<1> DEFINE Parts == OneTransition /\ OwnersOnCourse /\ CycleAlone /\ FaultStopOwned
                      /\ ManagersApart
<1> SUFFICES ASSUME TypeOK, ClaimDiscipline, [Next]_vars, Undisturbed' PROVE Parts'
  BY DEF ClaimDiscipline
<1>0. Undisturbed => Parts
  BY DEF ClaimDiscipline
<1> USE ThreadNames, ThreadAssumption
    DEF Owns, Rises, Lives, NoOwner, NoCycle, Body, StartBody, StopBody, BringUp,
        Direction, Transitioning, TypeOK, ScalarType, LocalType, CycleType,
        OneTransition, OwnersOnCourse, CycleAlone, FaultStopOwned, ManagersApart
<1> HIDE DEF Parts
<1>1. ASSUME NEW cmd \in SocketCommands, SocketCommand(cmd) PROVE Parts'
  <2>0. Undisturbed
    BY <1>1 DEF SocketCommand, Undisturbed
  <2>1. OneTransition'
    BY <1>0, <1>1, <2>0 DEF Parts, SocketCommand
  <2>2. OwnersOnCourse'
    BY <1>0, <1>1, <2>0 DEF Parts, SocketCommand
  <2>3. CycleAlone'
    BY <1>0, <1>1, <2>0 DEF Parts, SocketCommand
  <2>4. FaultStopOwned'
    BY <1>0, <1>1, <2>0 DEF Parts, SocketCommand
  <2>5. ManagersApart'
    BY <1>0, <1>1, <2>0 DEF Parts, SocketCommand
  <2> QED
    BY <2>1, <2>2, <2>3, <2>4, <2>5 DEF Parts
<1>2. ASSUME NEW t \in Threads, Gate(t) PROVE Parts'
  <2>0. Undisturbed
    BY <1>2 DEF Gate, Undisturbed
  <2>1. OneTransition'
    BY <1>0, <1>2, <2>0 DEF Parts, Gate, Return
  <2>2. OwnersOnCourse'
    BY <1>0, <1>2, <2>0 DEF Parts, Gate, Return
  <2>3. CycleAlone'
    BY <1>0, <1>2, <2>0 DEF Parts, Gate, Return
  <2>4. FaultStopOwned'
    BY <1>0, <1>2, <2>0 DEF Parts, Gate, Return
  <2>5. ManagersApart'
    BY <1>0, <1>2, <2>0 DEF Parts, Gate, Return
  <2> QED
    BY <2>1, <2>2, <2>3, <2>4, <2>5 DEF Parts
<1>3. ASSUME NEW t \in Threads, Claim(t) PROVE Parts'
  <2>1. Undisturbed
          /\ (Claimable(target[t]) /\ target[t] = "RUNNING" => plc_program = 0)
    BY <1>3, ClaimUndisturbed
  <2>2. OneTransition'
    BY <1>0, <1>3, <2>1 DEF Parts, Claim, Return, Claimable
  <2>3. OwnersOnCourse'
    BY <1>0, <1>3, <2>1 DEF Parts, Claim, Return
  <2>4. CycleAlone'
    BY <1>0, <1>3, <2>1 DEF Parts, Claim, Return, Claimable
  <2>5. FaultStopOwned'
    BY <1>0, <1>3, <2>1 DEF Parts, Claim, Return, Claimable
  <2>6. ManagersApart'
    BY <1>0, <1>3, <2>1 DEF Parts, Claim, Return, Claimable
  <2> QED
    BY <2>2, <2>3, <2>4, <2>5, <2>6 DEF Parts
<1>4. ASSUME NEW t \in Threads, Spawn(t) PROVE Parts'
  <2>0. Undisturbed
    BY <1>4 DEF Spawn, Undisturbed
  <2>1. OneTransition'
    BY <1>0, <1>4, <2>0 DEF Parts, Spawn, Return, NoWorker
  <2>2. OwnersOnCourse'
    BY <1>0, <1>4, <2>0 DEF Parts, Spawn, Return, NoWorker
  <2>3. CycleAlone'
    BY <1>0, <1>4, <2>0 DEF Parts, Spawn, Return, NoWorker
  <2>4. FaultStopOwned'
    BY <1>0, <1>4, <2>0 DEF Parts, Spawn, Return, NoWorker
  <2>5. ManagersApart'
    BY <1>0, <1>4, <2>0 DEF Parts, Spawn, Return, NoWorker
  <2> QED
    BY <2>1, <2>2, <2>3, <2>4, <2>5 DEF Parts
<1>5. ASSUME NEW t \in Threads, FindProgram(t) PROVE Parts'
  <2>0. Undisturbed
    BY <1>5 DEF FindProgram, Undisturbed
  <2>1. OneTransition'
    BY <1>0, <1>5, <2>0 DEF Parts, FindProgram, Landed
  <2>2. OwnersOnCourse'
    BY <1>0, <1>5, <2>0 DEF Parts, FindProgram, Landed
  <2>3. CycleAlone'
    BY <1>0, <1>5, <2>0 DEF Parts, FindProgram, Landed
  <2>4. FaultStopOwned'
    BY <1>0, <1>5, <2>0 DEF Parts, FindProgram, Landed
  <2>5. ManagersApart'
    BY <1>0, <1>5, <2>0 DEF Parts, FindProgram, Landed
  <2> QED
    BY <2>1, <2>2, <2>3, <2>4, <2>5 DEF Parts
<1>6. ASSUME NEW t \in Threads, LoadProgram(t) PROVE Parts'
  <2>0. Undisturbed
    BY <1>6 DEF LoadProgram, Undisturbed
  <2>1. OneTransition'
    BY <1>0, <1>6, <2>0 DEF Parts, LoadProgram, FailStart
  <2>2. OwnersOnCourse'
    BY <1>0, <1>6, <2>0 DEF Parts, LoadProgram, FailStart
  <2>3. CycleAlone'
    BY <1>0, <1>6, <2>0 DEF Parts, LoadProgram, FailStart
  <2>4. FaultStopOwned'
    BY <1>0, <1>6, <2>0 DEF Parts, LoadProgram, FailStart
  <2>5. ManagersApart'
    BY <1>0, <1>6, <2>0 DEF Parts, LoadProgram, FailStart
  <2> QED
    BY <2>1, <2>2, <2>3, <2>4, <2>5 DEF Parts
<1>7. ASSUME NEW t \in Threads, LoadPlugins(t) PROVE Parts'
  <2>0. Undisturbed
    BY <1>7 DEF LoadPlugins, Undisturbed
  <2>1. OneTransition'
    BY <1>0, <1>7, <2>0 DEF Parts, LoadPlugins, FailStart
  <2>2. OwnersOnCourse'
    BY <1>0, <1>7, <2>0 DEF Parts, LoadPlugins, FailStart
  <2>3. CycleAlone'
    BY <1>0, <1>7, <2>0 DEF Parts, LoadPlugins, FailStart
  <2>4. FaultStopOwned'
    BY <1>0, <1>7, <2>0 DEF Parts, LoadPlugins, FailStart
  <2>5. ManagersApart'
    BY <1>0, <1>7, <2>0 DEF Parts, LoadPlugins, FailStart
  <2> QED
    BY <2>1, <2>2, <2>3, <2>4, <2>5 DEF Parts
<1>8. ASSUME NEW t \in Threads, InitPlugins(t) PROVE Parts'
  <2>0. Undisturbed
    BY <1>8 DEF InitPlugins, Undisturbed
  <2>1. OneTransition'
    BY <1>0, <1>8, <2>0 DEF Parts, InitPlugins, FailStart
  <2>2. OwnersOnCourse'
    BY <1>0, <1>8, <2>0 DEF Parts, InitPlugins, FailStart
  <2>3. CycleAlone'
    BY <1>0, <1>8, <2>0 DEF Parts, InitPlugins, FailStart
  <2>4. FaultStopOwned'
    BY <1>0, <1>8, <2>0 DEF Parts, InitPlugins, FailStart
  <2>5. ManagersApart'
    BY <1>0, <1>8, <2>0 DEF Parts, InitPlugins, FailStart
  <2> QED
    BY <2>1, <2>2, <2>3, <2>4, <2>5 DEF Parts
<1>9. ASSUME NEW t \in Threads, CreateCycle(t) PROVE Parts'
  <2>0. Undisturbed /\ plc_state' \in {plc_state, "ERROR"} /\ pc[t] = "create"
    BY <1>9 DEF CreateCycle, FailStart, Undisturbed
  <2>1. OneTransition'
    BY <1>0, <1>9, <2>0 DEF Parts, CreateCycle, FailStart
  <2>2. OwnersOnCourse'
    BY <1>0, <1>9, <2>0 DEF Parts, CreateCycle, FailStart
  <2>3. CycleAlone'
    BY <1>0, <1>9, <2>0 DEF Parts, CreateCycle, FailStart
  <2>4. FaultStopOwned'
    <3>1. NoCycle
      BY <1>0, <2>0 DEF Parts
    <3>2. CASE UNCHANGED cycle
      BY <1>0, <2>0, <3>1, <3>2 DEF Parts
    <3>3. ASSUME NEW c \in Cycles, cyc' = [cyc EXCEPT ![c] = "boot"],
                 fault_stop_claimed' = [fault_stop_claimed EXCEPT ![c] = FALSE]
          PROVE  FaultStopOwned'
      <4>1. ~fault_stop_claimed'[c] /\ \A d \in Cycles : d # c => cyc'[d] = cyc[d]
        BY <3>3, Zenon DEF ResultType
      <4> QED
        BY <3>1, <3>3, <4>1
    <3> QED
      BY <1>9, <3>2, <3>3 DEF CreateCycle
  <2>5. ManagersApart'
    BY <1>0, <1>9, <2>0 DEF Parts, CreateCycle, FailStart
  <2> QED
    BY <2>1, <2>2, <2>3, <2>4, <2>5 DEF Parts
<1>10. ASSUME NEW t \in Threads, DropManager(t) PROVE Parts'
  <2>0. Undisturbed
    BY <1>10 DEF DropManager, Undisturbed
  <2>1. OneTransition'
    BY <1>0, <1>10, <2>0 DEF Parts, DropManager
  <2>2. OwnersOnCourse'
    BY <1>0, <1>10, <2>0 DEF Parts, DropManager
  <2>3. CycleAlone'
    BY <1>0, <1>10, <2>0 DEF Parts, DropManager
  <2>4. FaultStopOwned'
    BY <1>0, <1>10, <2>0 DEF Parts, DropManager
  <2>5. ManagersApart'
    BY <1>0, <1>10, <2>0 DEF Parts, DropManager
  <2> QED
    BY <2>1, <2>2, <2>3, <2>4, <2>5 DEF Parts
<1>11. ASSUME NEW t \in Threads, Fallback(t) PROVE Parts'
  <2>0. Undisturbed
    BY <1>11 DEF Fallback, Undisturbed
  <2>1. OneTransition'
    BY <1>0, <1>11, <2>0 DEF Parts, Fallback
  <2>2. OwnersOnCourse'
    BY <1>0, <1>11, <2>0 DEF Parts, Fallback
  <2>3. CycleAlone'
    BY <1>0, <1>11, <2>0 DEF Parts, Fallback
  <2>4. FaultStopOwned'
    BY <1>0, <1>11, <2>0 DEF Parts, Fallback
  <2>5. ManagersApart'
    BY <1>0, <1>11, <2>0 DEF Parts, Fallback
  <2> QED
    BY <2>1, <2>2, <2>3, <2>4, <2>5 DEF Parts
<1>12. ASSUME NEW t \in Threads, FallbackPublish(t) PROVE Parts'
  BY <1>12 DEF FallbackPublish, Undisturbed
<1>13. ASSUME NEW t \in Threads, SetStopped(t) PROVE Parts'
  <2>0. Undisturbed
    BY <1>13 DEF SetStopped, Undisturbed
  <2>1. OneTransition'
    BY <1>0, <1>13, <2>0 DEF Parts, SetStopped, Landed
  <2>2. OwnersOnCourse'
    BY <1>0, <1>13, <2>0 DEF Parts, SetStopped, Landed
  <2>3. CycleAlone'
    BY <1>0, <1>13, <2>0 DEF Parts, SetStopped, Landed
  <2>4. FaultStopOwned'
    BY <1>0, <1>13, <2>0 DEF Parts, SetStopped, Landed
  <2>5. ManagersApart'
    BY <1>0, <1>13, <2>0 DEF Parts, SetStopped, Landed
  <2> QED
    BY <2>1, <2>2, <2>3, <2>4, <2>5 DEF Parts
<1>14. ASSUME NEW t \in Threads, UnloadLock(t) PROVE Parts'
  <2>0. Undisturbed
    BY <1>14 DEF UnloadLock, Undisturbed
  <2>1. OneTransition'
    BY <1>0, <1>14, <2>0 DEF Parts, UnloadLock
  <2>2. OwnersOnCourse'
    BY <1>0, <1>14, <2>0 DEF Parts, UnloadLock
  <2>3. CycleAlone'
    BY <1>0, <1>14, <2>0 DEF Parts, UnloadLock
  <2>4. FaultStopOwned'
    BY <1>0, <1>14, <2>0 DEF Parts, UnloadLock
  <2>5. ManagersApart'
    BY <1>0, <1>14, <2>0 DEF Parts, UnloadLock
  <2> QED
    BY <2>1, <2>2, <2>3, <2>4, <2>5 DEF Parts
<1>15. ASSUME NEW t \in Threads, UnloadFail(t) PROVE Parts'
  <2>0. Undisturbed
    BY <1>15 DEF UnloadFail, Undisturbed
  <2>1. OneTransition'
    BY <1>0, <1>15, <2>0 DEF Parts, UnloadFail, AfterUnload, Landed
  <2>2. OwnersOnCourse'
    BY <1>0, <1>15, <2>0 DEF Parts, UnloadFail, AfterUnload, Landed
  <2>3. CycleAlone'
    BY <1>0, <1>15, <2>0 DEF Parts, UnloadFail, AfterUnload, Landed
  <2>4. FaultStopOwned'
    BY <1>0, <1>15, <2>0 DEF Parts, UnloadFail, AfterUnload, Landed
  <2>5. ManagersApart'
    BY <1>0, <1>15, <2>0 DEF Parts, UnloadFail, AfterUnload, Landed
  <2> QED
    BY <2>1, <2>2, <2>3, <2>4, <2>5 DEF Parts
<1>16. ASSUME NEW t \in Threads, UnloadPublish(t) PROVE Parts'
  <2>0. Undisturbed
    BY <1>16 DEF UnloadPublish, Undisturbed
  <2>1. OneTransition'
    BY <1>0, <1>16, <2>0 DEF Parts, UnloadPublish
  <2>2. OwnersOnCourse'
    BY <1>0, <1>16, <2>0 DEF Parts, UnloadPublish
  <2>3. CycleAlone'
    BY <1>0, <1>16, <2>0 DEF Parts, UnloadPublish
  <2>4. FaultStopOwned'
    BY <1>0, <1>16, <2>0 DEF Parts, UnloadPublish
  <2>5. ManagersApart'
    BY <1>0, <1>16, <2>0 DEF Parts, UnloadPublish
  <2> QED
    BY <2>1, <2>2, <2>3, <2>4, <2>5 DEF Parts
<1>17. ASSUME NEW t \in Threads, UnloadJoin(t) PROVE Parts'
  <2>0. Undisturbed
    BY <1>17 DEF UnloadJoin, Undisturbed
  <2>1. OneTransition'
    BY <1>0, <1>17, <2>0 DEF Parts, UnloadJoin
  <2>2. OwnersOnCourse'
    BY <1>0, <1>17, <2>0 DEF Parts, UnloadJoin
  <2>3. CycleAlone'
    BY <1>0, <1>17, <2>0 DEF Parts, UnloadJoin
  <2>4. FaultStopOwned'
    BY <1>0, <1>17, <2>0 DEF Parts, UnloadJoin
  <2>5. ManagersApart'
    BY <1>0, <1>17, <2>0 DEF Parts, UnloadJoin
  <2> QED
    BY <2>1, <2>2, <2>3, <2>4, <2>5 DEF Parts
<1>18. ASSUME NEW t \in Threads, UnloadTear(t) PROVE Parts'
  <2>0. Undisturbed
    BY <1>18 DEF UnloadTear, Undisturbed
  <2>1. OneTransition'
    BY <1>0, <1>18, <2>0 DEF Parts, UnloadTear
  <2>2. OwnersOnCourse'
    BY <1>0, <1>18, <2>0 DEF Parts, UnloadTear
  <2>3. CycleAlone'
    BY <1>0, <1>18, <2>0 DEF Parts, UnloadTear
  <2>4. FaultStopOwned'
    BY <1>0, <1>18, <2>0 DEF Parts, UnloadTear
  <2>5. ManagersApart'
    BY <1>0, <1>18, <2>0 DEF Parts, UnloadTear
  <2> QED
    BY <2>1, <2>2, <2>3, <2>4, <2>5 DEF Parts
<1>19. ASSUME NEW t \in Threads, UnloadLand(t) PROVE Parts'
  <2>0. Undisturbed
    BY <1>19 DEF UnloadLand, Undisturbed
  <2>1. OneTransition'
    BY <1>0, <1>19, <2>0 DEF Parts, UnloadLand, AfterUnload, Landed
  <2>2. OwnersOnCourse'
    BY <1>0, <1>19, <2>0 DEF Parts, UnloadLand, AfterUnload, Landed
  <2>3. CycleAlone'
    BY <1>0, <1>19, <2>0 DEF Parts, UnloadLand, AfterUnload, Landed
  <2>4. FaultStopOwned'
    BY <1>0, <1>19, <2>0 DEF Parts, UnloadLand, AfterUnload, Landed
  <2>5. ManagersApart'
    BY <1>0, <1>19, <2>0 DEF Parts, UnloadLand, AfterUnload, Landed
  <2> QED
    BY <2>1, <2>2, <2>3, <2>4, <2>5 DEF Parts
<1>20. ASSUME NEW t \in Threads, Landing(t) PROVE Parts'
  <2>0. Undisturbed
    BY <1>20 DEF Landing, Undisturbed
  <2>1. OneTransition'
    BY <1>0, <1>20, <2>0 DEF Parts, Landing
  <2>2. OwnersOnCourse'
    BY <1>0, <1>20, <2>0 DEF Parts, Landing
  <2>3. CycleAlone'
    BY <1>0, <1>20, <2>0 DEF Parts, Landing
  <2>4. FaultStopOwned'
    BY <1>0, <1>20, <2>0 DEF Parts, Landing
  <2>5. ManagersApart'
    BY <1>0, <1>20, <2>0 DEF Parts, Landing
  <2> QED
    BY <2>1, <2>2, <2>3, <2>4, <2>5 DEF Parts
<1>21. ASSUME NEW t \in Threads, TakeMovement(t) PROVE Parts'
  <2>0. Undisturbed
    BY <1>21 DEF TakeMovement, Undisturbed
  <2>1. OneTransition'
    BY <1>0, <1>21, <2>0 DEF Parts, TakeMovement
  <2>2. OwnersOnCourse'
    BY <1>0, <1>21, <2>0 DEF Parts, TakeMovement
  <2>3. CycleAlone'
    BY <1>0, <1>21, <2>0 DEF Parts, TakeMovement
  <2>4. FaultStopOwned'
    BY <1>0, <1>21, <2>0 DEF Parts, TakeMovement
  <2>5. ManagersApart'
    BY <1>0, <1>21, <2>0 DEF Parts, TakeMovement
  <2> QED
    BY <2>1, <2>2, <2>3, <2>4, <2>5 DEF Parts
<1>22. ASSUME NEW t \in Threads, Compare(t) PROVE Parts'
  <2>0. Undisturbed
    BY <1>22 DEF Compare, Undisturbed
  <2>1. OneTransition'
    BY <1>0, <1>22, <2>0 DEF Parts, Compare, Wanted
  <2>2. OwnersOnCourse'
    BY <1>0, <1>22, <2>0 DEF Parts, Compare, Wanted
  <2>3. CycleAlone'
    BY <1>0, <1>22, <2>0 DEF Parts, Compare, Wanted
  <2>4. FaultStopOwned'
    BY <1>0, <1>22, <2>0 DEF Parts, Compare, Wanted
  <2>5. ManagersApart'
    BY <1>0, <1>22, <2>0 DEF Parts, Compare, Wanted
  <2> QED
    BY <2>1, <2>2, <2>3, <2>4, <2>5 DEF Parts
<1>23. ASSUME NEW t \in Threads, Reclaim(t) PROVE Parts'
  <2>1. Undisturbed
          /\ (Claimable(target[t]) /\ target[t] = "RUNNING" => plc_program = 0)
    BY <1>23, ClaimUndisturbed
  <2>2. OneTransition'
    BY <1>0, <1>23, <2>1 DEF Parts, Reclaim, Claimable
  <2>3. OwnersOnCourse'
    BY <1>0, <1>23, <2>1 DEF Parts, Reclaim
  <2>4. CycleAlone'
    BY <1>0, <1>23, <2>1 DEF Parts, Reclaim, Claimable
  <2>5. FaultStopOwned'
    BY <1>0, <1>23, <2>1 DEF Parts, Reclaim, Claimable
  <2>6. ManagersApart'
    BY <1>0, <1>23, <2>1 DEF Parts, Reclaim, Claimable
  <2> QED
    BY <2>2, <2>3, <2>4, <2>5, <2>6 DEF Parts
<1>24. ASSUME NEW t \in Threads, Respawn(t) PROVE Parts'
  <2>0. Undisturbed /\ plc_state' = plc_state /\ plc_program' = plc_program
          /\ UNCHANGED <<pm, managers, cyc, plc_thread, join_handle, fault_stop_claimed>>
    BY <1>24, Zenon DEF Respawn, Undisturbed
  <2>1. \/ \E w \in Workers : /\ pc[w] = "idle"
                              /\ pc' = [pc EXCEPT ![w] = "set", ![t] = "end"]
                              /\ target' = [target EXCEPT ![w] = target[t]]
        \/ pc' = [pc EXCEPT ![t] = "set"] /\ target' = target
    BY <1>24, Zenon DEF Respawn
  <2>2. pc[t] = "respawn"
    BY <1>24, Zenon DEF Respawn
  <2>3. OneTransition'
    BY <1>0, <2>0, <2>1, <2>2 DEF Parts
  <2>4. OwnersOnCourse'
    BY <1>0, <2>0, <2>1, <2>2 DEF Parts
  <2>5. CycleAlone'
    BY <1>0, <2>0, <2>1, <2>2 DEF Parts
  <2>6. FaultStopOwned'
    BY <1>0, <2>0, <2>1, <2>2 DEF Parts
  <2>7. ManagersApart'
    BY <1>0, <2>0, <2>1, <2>2 DEF Parts
  <2> QED
    BY <2>3, <2>4, <2>5, <2>6, <2>7 DEF Parts
<1>25. ASSUME NEW t \in Threads, EndTransition(t) PROVE Parts'
  <2>0. Undisturbed /\ plc_state' = plc_state /\ plc_program' = plc_program
          /\ UNCHANGED <<target, managers, cyc, plc_thread, join_handle, fault_stop_claimed>>
    BY <1>25, Zenon DEF EndTransition, Undisturbed
  <2>1. /\ pc[t] = "end" /\ pm' = [pm EXCEPT ![t] = 0]
        /\ pc' = [pc EXCEPT ![t] = Return(t)] \/ pc' = pc
    BY <1>25, Zenon DEF EndTransition
  <2>2. OneTransition'
    BY <1>0, <2>0, <2>1 DEF Parts, Return
  <2>3. OwnersOnCourse'
    BY <1>0, <2>0, <2>1 DEF Parts, Return
  <2>4. CycleAlone'
    BY <1>0, <2>0, <2>1 DEF Parts, Return
  <2>5. FaultStopOwned'
    BY <1>0, <2>0, <2>1 DEF Parts, Return
  <2>6. ManagersApart'
    BY <1>0, <2>0, <2>1 DEF Parts, Return
  <2> QED
    BY <2>2, <2>3, <2>4, <2>5, <2>6 DEF Parts
<1>26. ASSUME NEW c \in Cycles, CycleBoot(c) PROVE Parts'
  <2>0. Undisturbed
    BY <1>26, CycleUndisturbed
  <2>1. OneTransition'
    BY <1>0, <1>26, <2>0, ErrorUndisturbed DEF Parts, CycleBoot
  <2>2. CycleAlone'
    BY <1>0, <1>26, <2>0, ErrorUndisturbed DEF Parts, CycleBoot
  <2>3. FaultStopOwned'
    BY <1>0, <1>26, <2>0, ErrorUndisturbed DEF Parts, CycleBoot
  <2>4. ManagersApart'
    BY <1>0, <1>26, <2>0, ErrorUndisturbed DEF Parts, CycleBoot
  <2> QED
    BY <1>0, <1>26, <2>0, <2>1, <2>2, <2>3, <2>4 DEF Parts, CycleBoot
<1>27. ASSUME NEW c \in Cycles, CycleStartPlugins(c) PROVE Parts'
  <2>0. Undisturbed
    BY <1>27 DEF CycleStartPlugins, Undisturbed
  <2>1. OneTransition'
    BY <1>0, <1>27, <2>0 DEF Parts, CycleStartPlugins
  <2>2. CycleAlone'
    BY <1>0, <1>27, <2>0 DEF Parts, CycleStartPlugins
  <2>3. FaultStopOwned'
    BY <1>0, <1>27, <2>0 DEF Parts, CycleStartPlugins
  <2>4. ManagersApart'
    BY <1>0, <1>27, <2>0 DEF Parts, CycleStartPlugins
  <2> QED
    BY <1>0, <1>27, <2>0, <2>1, <2>2, <2>3, <2>4 DEF Parts, CycleStartPlugins
<1>28. ASSUME NEW c \in Cycles, CycleSpawnTasks(c) PROVE Parts'
  <2>0. Undisturbed
    BY <1>28, CycleUndisturbed
  <2>1. OneTransition'
    BY <1>0, <1>28, <2>0, ErrorUndisturbed DEF Parts, CycleSpawnTasks
  <2>2. CycleAlone'
    BY <1>0, <1>28, <2>0, ErrorUndisturbed DEF Parts, CycleSpawnTasks
  <2>3. FaultStopOwned'
    BY <1>0, <1>28, <2>0, ErrorUndisturbed DEF Parts, CycleSpawnTasks
  <2>4. ManagersApart'
    BY <1>0, <1>28, <2>0, ErrorUndisturbed DEF Parts, CycleSpawnTasks
  <2> QED
    BY <1>0, <1>28, <2>0, <2>1, <2>2, <2>3, <2>4 DEF Parts, CycleSpawnTasks
<1>29. ASSUME NEW c \in Cycles, CyclePublish(c) PROVE Parts'
  <2>0. Undisturbed
    BY <1>29 DEF CyclePublish, Undisturbed
  <2>1. OneTransition'
    BY <1>0, <1>29, <2>0 DEF Parts, CyclePublish
  <2>2. CycleAlone'
    BY <1>0, <1>29, <2>0 DEF Parts, CyclePublish
  <2>3. FaultStopOwned'
    BY <1>0, <1>29, <2>0 DEF Parts, CyclePublish
  <2>4. ManagersApart'
    BY <1>0, <1>29, <2>0 DEF Parts, CyclePublish
  <2> QED
    BY <1>0, <1>29, <2>0, <2>1, <2>2, <2>3, <2>4 DEF Parts, CyclePublish
<1>30. ASSUME NEW c \in Cycles, CycleRun(c) PROVE Parts'
  <2>0. Undisturbed
    BY <1>30, CycleUndisturbed
  <2>1. OneTransition'
    BY <1>0, <1>30, <2>0, ErrorUndisturbed DEF Parts, CycleRun
  <2>2. CycleAlone'
    BY <1>0, <1>30, <2>0, ErrorUndisturbed DEF Parts, CycleRun
  <2>3. FaultStopOwned'
    BY <1>0, <1>30, <2>0, ErrorUndisturbed DEF Parts, CycleRun
  <2>4. ManagersApart'
    BY <1>0, <1>30, <2>0, ErrorUndisturbed DEF Parts, CycleRun
  <2> QED
    BY <1>0, <1>30, <2>0, <2>1, <2>2, <2>3, <2>4 DEF Parts, CycleRun
<1>31. ASSUME NEW c \in Cycles, CycleTrip(c) PROVE Parts'
  <2>0. Undisturbed
    BY <1>31 DEF CycleTrip, Undisturbed
  <2>1. OneTransition'
    BY <1>0, <1>31, <2>0 DEF Parts, CycleTrip, Claimable
  <2>2. CycleAlone'
    BY <1>0, <1>31, <2>0 DEF Parts, CycleTrip, Claimable
  <2>3. FaultStopOwned'
    BY <1>0, <1>31, <2>0 DEF Parts, CycleTrip, Claimable, ResultType
  <2>4. ManagersApart'
    BY <1>0, <1>31, <2>0 DEF Parts, CycleTrip, Claimable
  <2> QED
    BY <1>0, <1>31, <2>0, <2>1, <2>2, <2>3, <2>4 DEF Parts, CycleTrip
<1>32. ASSUME NEW c \in Cycles, CycleDrain(c) PROVE Parts'
  <2>0. Undisturbed
    BY <1>32, CycleUndisturbed
  <2>1. OneTransition'
    BY <1>0, <1>32, <2>0, ErrorUndisturbed DEF Parts, CycleDrain
  <2>2. CycleAlone'
    BY <1>0, <1>32, <2>0, ErrorUndisturbed DEF Parts, CycleDrain
  <2>3. FaultStopOwned'
    BY <1>0, <1>32, <2>0, ErrorUndisturbed DEF Parts, CycleDrain
  <2>4. ManagersApart'
    BY <1>0, <1>32, <2>0, ErrorUndisturbed DEF Parts, CycleDrain
  <2> QED
    BY <1>0, <1>32, <2>0, <2>1, <2>2, <2>3, <2>4 DEF Parts, CycleDrain
<1>33. ASSUME NEW c \in Cycles, CycleAsync(c) PROVE Parts'
  <2>0. Undisturbed
    BY <1>33 DEF CycleAsync, Undisturbed
  <2>1. OneTransition'
    BY <1>0, <1>33, <2>0 DEF Parts, CycleAsync, NoWorker
  <2>2. OwnersOnCourse'
    BY <1>0, <1>33, <2>0 DEF Parts, CycleAsync, NoWorker
  <2>3. CycleAlone'
    BY <1>0, <1>33, <2>0 DEF Parts, CycleAsync, NoWorker
  <2>4. FaultStopOwned'
    BY <1>0, <1>33, <2>0 DEF Parts, CycleAsync, NoWorker
  <2>5. ManagersApart'
    BY <1>0, <1>33, <2>0 DEF Parts, CycleAsync, NoWorker
  <2> QED
    BY <2>1, <2>2, <2>3, <2>4, <2>5 DEF Parts
<1>34. ASSUME NEW c \in Cycles, CycleReap(c) PROVE Parts'
  <2>0. Undisturbed
    BY <1>34 DEF CycleReap, Undisturbed
  <2>1. OneTransition'
    BY <1>0, <1>34, <2>0 DEF Parts, CycleReap
  <2>2. CycleAlone'
    BY <1>0, <1>34, <2>0 DEF Parts, CycleReap
  <2>3. FaultStopOwned'
    BY <1>0, <1>34, <2>0 DEF Parts, CycleReap
  <2>4. ManagersApart'
    BY <1>0, <1>34, <2>0 DEF Parts, CycleReap
  <2> QED
    BY <1>0, <1>34, <2>0, <2>1, <2>2, <2>3, <2>4 DEF Parts, CycleReap
<1>35. CASE PluginFlip
  <2>0. Undisturbed
    BY <1>35 DEF PluginFlip, Undisturbed
  <2>1. OneTransition'
    BY <1>0, <1>35, <2>0 DEF Parts, PluginFlip
  <2>2. OwnersOnCourse'
    BY <1>0, <1>35, <2>0 DEF Parts, PluginFlip
  <2>3. CycleAlone'
    BY <1>0, <1>35, <2>0 DEF Parts, PluginFlip
  <2>4. FaultStopOwned'
    BY <1>0, <1>35, <2>0 DEF Parts, PluginFlip
  <2>5. ManagersApart'
    BY <1>0, <1>35, <2>0 DEF Parts, PluginFlip
  <2> QED
    BY <2>1, <2>2, <2>3, <2>4, <2>5 DEF Parts
<1>36. CASE PluginMoved
  <2>0. Undisturbed
    BY <1>36 DEF PluginMoved, Undisturbed
  <2>1. OneTransition'
    BY <1>0, <1>36, <2>0 DEF Parts, PluginMoved
  <2>2. OwnersOnCourse'
    BY <1>0, <1>36, <2>0 DEF Parts, PluginMoved
  <2>3. CycleAlone'
    BY <1>0, <1>36, <2>0 DEF Parts, PluginMoved
  <2>4. FaultStopOwned'
    BY <1>0, <1>36, <2>0 DEF Parts, PluginMoved
  <2>5. ManagersApart'
    BY <1>0, <1>36, <2>0 DEF Parts, PluginMoved
  <2> QED
    BY <2>1, <2>2, <2>3, <2>4, <2>5 DEF Parts
<1>37. CASE PluginStop
  <2>0. Undisturbed
    BY <1>37 DEF PluginStop, Undisturbed
  <2>1. OneTransition'
    BY <1>0, <1>37, <2>0 DEF Parts, PluginStop
  <2>2. OwnersOnCourse'
    BY <1>0, <1>37, <2>0 DEF Parts, PluginStop
  <2>3. CycleAlone'
    BY <1>0, <1>37, <2>0 DEF Parts, PluginStop
  <2>4. FaultStopOwned'
    BY <1>0, <1>37, <2>0 DEF Parts, PluginStop
  <2>5. ManagersApart'
    BY <1>0, <1>37, <2>0 DEF Parts, PluginStop
  <2> QED
    BY <2>1, <2>2, <2>3, <2>4, <2>5 DEF Parts
<1>38. CASE PluginRequest
  <2>0. Undisturbed
    BY <1>38 DEF PluginRequest, Undisturbed
  <2>1. OneTransition'
    BY <1>0, <1>38, <2>0 DEF Parts, PluginRequest
  <2>2. OwnersOnCourse'
    BY <1>0, <1>38, <2>0 DEF Parts, PluginRequest
  <2>3. CycleAlone'
    BY <1>0, <1>38, <2>0 DEF Parts, PluginRequest
  <2>4. FaultStopOwned'
    BY <1>0, <1>38, <2>0 DEF Parts, PluginRequest
  <2>5. ManagersApart'
    BY <1>0, <1>38, <2>0 DEF Parts, PluginRequest
  <2> QED
    BY <2>1, <2>2, <2>3, <2>4, <2>5 DEF Parts
<1>39. CASE WatchdogSees
  <2>0. Undisturbed
    BY <1>39 DEF WatchdogSees, Undisturbed
  <2> QED
    BY <1>0, <1>39, <2>0 DEF Parts, WatchdogSees
<1>40. CASE WatchdogForce
  BY <1>40 DEF WatchdogForce, Undisturbed
<1>41. CASE WatchdogExit
  <2>0. Undisturbed
    BY <1>41 DEF WatchdogExit, Undisturbed
  <2> QED
    BY <1>0, <1>41, <2>0 DEF Parts, WatchdogExit
<1>42. CASE BootPlugins
  <2>0. Undisturbed
    BY <1>42 DEF BootPlugins, Undisturbed
  <2>1. OneTransition'
    BY <1>0, <1>42, <2>0 DEF Parts, BootPlugins
  <2>2. OwnersOnCourse'
    BY <1>0, <1>42, <2>0 DEF Parts, BootPlugins
  <2>3. CycleAlone'
    BY <1>0, <1>42, <2>0 DEF Parts, BootPlugins
  <2>4. FaultStopOwned'
    BY <1>0, <1>42, <2>0 DEF Parts, BootPlugins
  <2>5. ManagersApart'
    BY <1>0, <1>42, <2>0 DEF Parts, BootPlugins
  <2> QED
    BY <2>1, <2>2, <2>3, <2>4, <2>5 DEF Parts
<1>43. CASE BootRelease
  <2>0. Undisturbed
    BY <1>43 DEF BootRelease, Undisturbed
  <2>1. OneTransition'
    BY <1>0, <1>43, <2>0 DEF Parts, BootRelease
  <2>2. OwnersOnCourse'
    BY <1>0, <1>43, <2>0 DEF Parts, BootRelease
  <2>3. CycleAlone'
    BY <1>0, <1>43, <2>0 DEF Parts, BootRelease
  <2>4. FaultStopOwned'
    BY <1>0, <1>43, <2>0 DEF Parts, BootRelease
  <2>5. ManagersApart'
    BY <1>0, <1>43, <2>0 DEF Parts, BootRelease
  <2> QED
    BY <2>1, <2>2, <2>3, <2>4, <2>5 DEF Parts
<1>44. CASE BootRegate
  <2>0. Undisturbed
    BY <1>44 DEF BootRegate, Undisturbed
  <2>1. OneTransition'
    BY <1>0, <1>44, <2>0 DEF Parts, BootRegate
  <2>2. OwnersOnCourse'
    BY <1>0, <1>44, <2>0 DEF Parts, BootRegate
  <2>3. CycleAlone'
    BY <1>0, <1>44, <2>0 DEF Parts, BootRegate
  <2>4. FaultStopOwned'
    BY <1>0, <1>44, <2>0 DEF Parts, BootRegate
  <2>5. ManagersApart'
    BY <1>0, <1>44, <2>0 DEF Parts, BootRegate
  <2> QED
    BY <2>1, <2>2, <2>3, <2>4, <2>5 DEF Parts
<1>45. CASE CleanupWait
  <2>0. Undisturbed
    BY <1>45 DEF CleanupWait, Undisturbed
  <2>1. OneTransition'
    BY <1>0, <1>45, <2>0 DEF Parts, CleanupWait
  <2>2. OwnersOnCourse'
    BY <1>0, <1>45, <2>0 DEF Parts, CleanupWait
  <2>3. CycleAlone'
    BY <1>0, <1>45, <2>0 DEF Parts, CleanupWait
  <2>4. FaultStopOwned'
    BY <1>0, <1>45, <2>0 DEF Parts, CleanupWait
  <2>5. ManagersApart'
    BY <1>0, <1>45, <2>0 DEF Parts, CleanupWait
  <2> QED
    BY <2>1, <2>2, <2>3, <2>4, <2>5 DEF Parts
<1>46. CASE DestroyDriver
  <2>0. Undisturbed
    BY <1>46 DEF DestroyDriver, Undisturbed
  <2>1. OneTransition'
    BY <1>0, <1>46, <2>0 DEF Parts, DestroyDriver
  <2>2. OwnersOnCourse'
    BY <1>0, <1>46, <2>0 DEF Parts, DestroyDriver
  <2>3. CycleAlone'
    BY <1>0, <1>46, <2>0 DEF Parts, DestroyDriver
  <2>4. FaultStopOwned'
    BY <1>0, <1>46, <2>0 DEF Parts, DestroyDriver
  <2>5. ManagersApart'
    BY <1>0, <1>46, <2>0 DEF Parts, DestroyDriver
  <2> QED
    BY <2>1, <2>2, <2>3, <2>4, <2>5 DEF Parts
<1>47. CASE Shutdown
  BY <1>47 DEF Shutdown, Undisturbed
<1>48. CASE UNCHANGED vars
  BY <1>0, <1>48 DEF Parts, Undisturbed
<1> QED
  BY <1>1, <1>2, <1>3, <1>4, <1>5, <1>6, <1>7, <1>8, <1>9, <1>10, <1>11,
     <1>12, <1>13, <1>14, <1>15, <1>16, <1>17, <1>18, <1>19, <1>20, <1>21,
     <1>22, <1>23, <1>24, <1>25, <1>26, <1>27, <1>28, <1>29, <1>30, <1>31,
     <1>32, <1>33, <1>34, <1>35, <1>36, <1>37, <1>38, <1>39, <1>40, <1>41,
     <1>42, <1>43, <1>44, <1>45, <1>46, <1>47, <1>48 DEF Next, Step,
     ThreadStep, CycleStep, MainStep, AtRest

\* Who may move the state, who may run a cycle thread and who may tear one down is
\* settled by the claim, whatever the number of workers and cycle threads and however
\* many requests and failures there are.
THEOREM DisciplineHolds == Spec => []ClaimDiscipline
BY DisciplineInit, DisciplineNext, TypeCorrect, PTL DEF Spec

\* plc_try_begin_transition is an interlock: while nothing has disturbed the claims,
\* one thread at a time is inside plc_set_state.
THEOREM InterlockHolds == Spec => []Interlock
<1>1. ClaimDiscipline => Interlock
  BY DEF ClaimDiscipline, Interlock
<1> QED
  BY <1>1, DisciplineHolds, PTL

\* The unload flushes the retained values with no cycle thread left.
THEOREM TeardownAloneHolds == Spec => []TeardownAlone
<1>1. ClaimDiscipline => TeardownAlone
  BY DEF ClaimDiscipline, CycleAlone, TeardownAlone
<1> QED
  BY <1>1, DisciplineHolds, PTL

-----------------------------------------------------------------------------
(* ERROR is never overtaken by a late landing *)

\* One step of any thread: what it may do to a state that is ERROR.
LEMMA ErrorStep ==
  ASSUME [Next]_vars, plc_state = "ERROR"
  PROVE  plc_state' \notin {"RUNNING", "STOPPED"}
<1>1. ASSUME NEW cmd \in SocketCommands, SocketCommand(cmd) PROVE UNCHANGED plc_state
  BY <1>1 DEF SocketCommand
<1>2. ASSUME NEW t \in Threads, ThreadStep(t)
      PROVE  plc_state' \in {plc_state, "EMPTY", "ERROR", "TO_RUN", "TO_STOP"}
  <2>1. CASE Gate(t) \/ Claim(t) \/ Spawn(t) \/ Landing(t) \/ TakeMovement(t)
             \/ Compare(t) \/ Reclaim(t) \/ Respawn(t)
    BY <2>1 DEF Gate, Claim, Spawn, Landing, TakeMovement, Compare, Reclaim,
       Respawn,
                Direction
  <2>2. CASE EndTransition(t)
    BY <2>2 DEF EndTransition
  <2>3. CASE FindProgram(t) \/ LoadProgram(t) \/ LoadPlugins(t) \/ InitPlugins(t)
             \/ CreateCycle(t)
    BY <2>3 DEF FindProgram, LoadProgram, LoadPlugins, InitPlugins,
       CreateCycle,
                FailStart, Landed
  <2>4. CASE DropManager(t) \/ Fallback(t) \/ FallbackPublish(t) \/ SetStopped(t)
    BY <2>4 DEF DropManager, Fallback, FallbackPublish, SetStopped, Landed
  <2>5. CASE UnloadLock(t) \/ UnloadFail(t) \/ UnloadPublish(t) \/ UnloadJoin(t)
             \/ UnloadTear(t) \/ UnloadLand(t)
    BY <2>5 DEF UnloadLock, UnloadFail, UnloadPublish, UnloadJoin, UnloadTear,
                UnloadLand, Landed
  <2> QED
    BY <1>2, <2>1, <2>2, <2>3, <2>4, <2>5 DEF ThreadStep
<1>3. ASSUME NEW c \in Cycles, CycleStep(c)
      PROVE  plc_state' \in {plc_state, "ERROR", "TO_STOP"}
  <2>1. CASE CycleBoot(c) \/ CycleStartPlugins(c) \/ CycleSpawnTasks(c) \/ CycleRun(c)
    BY <2>1 DEF CycleBoot, CycleStartPlugins, CycleSpawnTasks, CycleRun,
       CycleError
  <2>2. CASE CyclePublish(c) \/ CycleTrip(c) \/ CycleDrain(c) \/ CycleAsync(c)
             \/ CycleReap(c)
    BY <2>2 DEF CyclePublish, CycleTrip, CycleDrain, CycleAsync, CycleReap,
       CycleError
  <2> QED
    BY <1>3, <2>1, <2>2 DEF CycleStep
<1>4. CASE \/ PluginFlip \/ PluginMoved \/ PluginStop \/ PluginRequest
           \/ WatchdogSees \/ WatchdogForce \/ WatchdogExit \/ MainStep \/ Shutdown
  BY <1>4 DEF PluginFlip, PluginMoved, PluginStop, PluginRequest,
     WatchdogSees,
              WatchdogForce, WatchdogExit, MainStep, BootPlugins, BootRelease,
              BootRegate, CleanupWait, DestroyDriver, Shutdown
<1>5. CASE UNCHANGED vars
  BY <1>5
<1> QED
  BY <1>1, <1>2, <1>3, <1>4, <1>5 DEF Next, Step, AtRest

\* No landing turns a visible ERROR into RUNNING or STOPPED, even when the watchdog,
\* a crash, SIGTERM or a slow call has broken the claim discipline.
THEOREM ErrorOutranksHolds == Spec => ErrorOutranks
<1>1. [Next]_vars
        => [plc_state = "ERROR" => plc_state' \notin {"RUNNING", "STOPPED"}]_vars
  BY ErrorStep
<1> QED
  BY <1>1, PTL DEF Spec, ErrorOutranks

-----------------------------------------------------------------------------
(***************************************************************************)
(* What the claim discipline is for: the program, the plugins and the      *)
(* image behind every state plc_main shows.  The invariants below hold on  *)
(* top of ClaimDiscipline.                                                 *)
(***************************************************************************)
(* The inductive invariants *)

\* Until the boot plugins are initialised nobody can start or stop anything.
BootQuiet ==
  pc["main"] = "boot" =>
    /\ plc_requests_held /\ image /\ \A c \in Cycles : cyc[c] = "none"
    /\ \A t \in Threads \ {"main"} : pc[t] \in {"idle", "moved", "request"}

\* Main destroys the driver only when the process shuts down.
NotDestroyed == pc["main"] # "destroy"

\* What a start has done when it is at a given step.
StartPrepared ==
  \A t \in Threads :
    /\ pc[t] \in {"plugins", "pinit", "create"} => dlopened
    /\ pc[t] \in {"pinit", "create"} => image
    /\ pc[t] = "create" => held = "current"

\* A cycle thread has the program, the image and the plugins it was created with until
\* it ends; it starts the plugins itself.
CycleBacked ==
  \A c \in Cycles :
    /\ Lives(c) => dlopened /\ image /\ held = "current"
    /\ Lives(c) /\ cyc[c] \notin {"boot", "pstart"} => running

\* RUNNING is shown by the cycle thread alone, and for as long as it dispatches.
RunningAlive == plc_state = "RUNNING" => cyc[plc_thread] \in {"run", "trip"}

\* Nothing is left over of a program that is gone, or of the one before a start: no
\* plugin runs, and no fault waits for a stop to report it but in the stop itself.
NothingLeft ==
  /\ plc_program = 0 => ~running /\ (g_task_fault => \E t \in Threads : pc[t] = "un_land")
  /\ \A t \in Threads :
       (Owns(t) /\ target[t] = "RUNNING") \/ (pc[t] = "drop" /\ pm[t] = plc_program)
         => ~running /\ ~g_task_fault

\* A stop that finds its program gone, or has taken it down, lands without one.
UnloadedLands ==
  \A t \in Threads :
    /\ pc[t] = "un_lock" => pm[t] = plc_program \/ plc_program = 0
    /\ pc[t] \in {"un_fail", "un_land"} => plc_program = 0

PlantParts ==
  /\ BootQuiet /\ NotDestroyed /\ StartPrepared /\ CycleBacked /\ RunningAlive
  /\ NothingLeft /\ UnloadedLands

PlantHolds ==
  Undisturbed => PlantParts /\ ImageHeld /\ StoppedClean

-----------------------------------------------------------------------------
(* The proofs *)

\* When the process starts nothing is loaded, and the image is there.
LEMMA PlantInit == Init => PlantHolds
<1> SUFFICES ASSUME Init PROVE PlantParts /\ ImageHeld /\ StoppedClean
  BY DEF PlantHolds
<1>1. \A t \in Threads : pc[t] = IF t = "main" THEN "boot" ELSE "idle"
  BY DEF Init
<1>2. \A c \in Cycles : cyc[c] = "none"
  BY DEF Init
<1>3. BootQuiet /\ NotDestroyed /\ StartPrepared /\ UnloadedLands
  BY <1>1, <1>2, ThreadNames DEF Init, BootQuiet, NotDestroyed, StartPrepared, UnloadedLands
<1>4. CycleBacked /\ RunningAlive
  BY <1>2 DEF Init, CycleBacked, RunningAlive, Lives
<1>5. NothingLeft
  BY <1>1 DEF Init, NothingLeft, Owns, Body, StartBody, StopBody
<1>6. ImageHeld /\ StoppedClean
  BY <1>2 DEF Init, ImageHeld, StoppedClean, NoCycle, Lives
<1> QED
  BY <1>3, <1>4, <1>5, <1>6 DEF PlantParts

\* Every step keeps the plant behind the state, part by part.
LEMMA PlantNext ==
  TypeOK /\ ClaimDiscipline /\ PlantHolds /\ [Next]_vars => PlantHolds'
<1> DEFINE Kept == PlantParts /\ ImageHeld /\ StoppedClean
<1> SUFFICES ASSUME TypeOK, ClaimDiscipline, PlantHolds, [Next]_vars, Undisturbed' PROVE Kept'
  BY DEF PlantHolds
<1> HIDE DEF Kept
<1>0. /\ Undisturbed => OneTransition /\ OwnersOnCourse /\ CycleAlone /\ ManagersApart
      /\ Undisturbed => BootQuiet /\ NotDestroyed /\ StartPrepared /\ CycleBacked /\ RunningAlive
      /\ Undisturbed => NothingLeft /\ UnloadedLands /\ ImageHeld /\ StoppedClean
  BY DEF ClaimDiscipline, PlantHolds, PlantParts
<1> USE ThreadNames, ThreadAssumption
    DEF Owns, Rises, Lives, NoOwner, NoCycle, Body, StartBody, StopBody, BringUp,
        Direction, Transitioning, TypeOK, ScalarType, LocalType, CycleType
<1>1. ASSUME NEW cmd \in SocketCommands, SocketCommand(cmd) PROVE Kept'
  <2>0. Undisturbed
    BY <1>1 DEF SocketCommand, Undisturbed
  <2>1. BootQuiet'
    BY <1>0, <1>1, <2>0 DEF SocketCommand, BootQuiet
  <2>2. NotDestroyed'
    BY <1>0, <1>1, <2>0 DEF SocketCommand, NotDestroyed, OwnersOnCourse, Undisturbed
  <2>3. StartPrepared'
    BY <1>0, <1>1, <2>0
       DEF SocketCommand, StartPrepared, OneTransition, CycleAlone, ManagersApart,
           OwnersOnCourse
  <2>4. NothingLeft'
    BY <1>0, <1>1, <2>0
       DEF SocketCommand, NothingLeft, CycleAlone, ManagersApart, OneTransition,
           OwnersOnCourse
  <2>5. UnloadedLands'
    BY <1>0, <1>1, <2>0
       DEF SocketCommand, UnloadedLands, OneTransition, ManagersApart, OwnersOnCourse
  <2> QED
    BY <1>0, <1>1, <2>0, <2>1, <2>2, <2>3, <2>4, <2>5
       DEF SocketCommand, Kept, PlantParts, CycleBacked, RunningAlive, ImageHeld,
           StoppedClean, Undisturbed
<1>2. ASSUME NEW t \in Threads, Gate(t) PROVE Kept'
  <2>0. Undisturbed
    BY <1>2 DEF Gate, Undisturbed
  <2>1. BootQuiet'
    BY <1>0, <1>2, <2>0 DEF Gate, Return, BootQuiet
  <2>2. NotDestroyed'
    BY <1>0, <1>2, <2>0 DEF Gate, Return, NotDestroyed, OwnersOnCourse, Undisturbed
  <2>3. StartPrepared'
    BY <1>0, <1>2, <2>0
       DEF Gate, Return, StartPrepared, OneTransition, CycleAlone, ManagersApart,
           OwnersOnCourse
  <2>4. NothingLeft'
    BY <1>0, <1>2, <2>0
       DEF Gate, Return, NothingLeft, CycleAlone, ManagersApart, OneTransition,
           OwnersOnCourse
  <2>5. UnloadedLands'
    BY <1>0, <1>2, <2>0
       DEF Gate, Return, UnloadedLands, OneTransition, ManagersApart, OwnersOnCourse
  <2> QED
    BY <1>0, <1>2, <2>0, <2>1, <2>2, <2>3, <2>4, <2>5
       DEF Gate, Kept, PlantParts, CycleBacked, RunningAlive, ImageHeld, StoppedClean,
           Undisturbed
<1>3. ASSUME NEW t \in Threads, Claim(t) PROVE Kept'
  <2>0. Undisturbed
    BY <1>3, ClaimUndisturbed
  <2>1. BootQuiet'
    BY <1>0, <1>3, <2>0 DEF Claim, Return, Direction, BootQuiet
  <2>2. NotDestroyed'
    BY <1>0, <1>3, <2>0 DEF Claim, Return, Direction, NotDestroyed, OwnersOnCourse, Undisturbed
  <2>3. StartPrepared'
    BY <1>0, <1>3, <2>0
       DEF Claim, Return, Direction, StartPrepared, OneTransition, CycleAlone,
           ManagersApart, OwnersOnCourse
  <2>4. RunningAlive'
    BY <1>0, <1>3, <2>0 DEF Claim, Return, Direction, RunningAlive, OneTransition, CycleAlone
  <2>5. NothingLeft'
    <3>1. /\ UNCHANGED <<plc_program, running, g_task_fault, pm, target>>
          /\ \A u \in Threads : u # t => pc'[u] = pc[u]
          /\ pc[t] \in {"claim", "reclaim"} /\ pc'[t] # "drop"
          /\ Owns(t)' => Claimable(target[t])
      BY <1>3 DEF Claim, Return
    <3>2. Claimable(target[t]) /\ target[t] = "RUNNING" => plc_program = 0
      BY <1>3, ClaimUndisturbed
    <3>3. Claimable(target[t]) => \A u \in Threads : pc[u] # "un_land"
      BY <1>0, <2>0 DEF OneTransition, Claimable
    <3>4. Owns(t)' /\ target'[t] = "RUNNING" => ~running /\ ~g_task_fault
      BY <1>0, <2>0, <3>1, <3>2, <3>3 DEF NothingLeft
    <3>5. \A u \in Threads : pc[u] = "un_land" <=> pc'[u] = "un_land"
      BY <1>3 DEF Claim, Return
    <3> QED
      BY <1>0, <2>0, <3>1, <3>4, <3>5 DEF NothingLeft
  <2>6. UnloadedLands'
    BY <1>0, <1>3, <2>0
       DEF Claim, Return, Direction, UnloadedLands, OneTransition, ManagersApart,
           OwnersOnCourse
  <2>7. StoppedClean'
    BY <1>0, <1>3, <2>0
       DEF Claim, Return, Direction, StoppedClean, Undisturbed, NothingLeft, UnloadedLands,
           OneTransition, CycleAlone, OwnersOnCourse
  <2> QED
    BY <1>0, <1>3, <2>0, <2>1, <2>2, <2>3, <2>4, <2>5, <2>6, <2>7
       DEF Claim, Kept, PlantParts, CycleBacked, ImageHeld, Undisturbed
<1>4. ASSUME NEW t \in Threads, Spawn(t) PROVE Kept'
  <2>0. Undisturbed
    BY <1>4 DEF Spawn, Undisturbed
  <2>1. BootQuiet'
    BY <1>0, <1>4, <2>0 DEF Spawn, Return, NoWorker, BootQuiet
  <2>2. NotDestroyed'
    BY <1>0, <1>4, <2>0 DEF Spawn, Return, NoWorker, NotDestroyed, OwnersOnCourse, Undisturbed
  <2>3. StartPrepared'
    BY <1>0, <1>4, <2>0
       DEF Spawn, Return, NoWorker, StartPrepared, OneTransition, CycleAlone, ManagersApart,
           OwnersOnCourse
  <2>4. NothingLeft'
    BY <1>0, <1>4, <2>0
       DEF Spawn, Return, NoWorker, NothingLeft, CycleAlone, ManagersApart, OneTransition,
           OwnersOnCourse
  <2>5. UnloadedLands'
    BY <1>0, <1>4, <2>0
       DEF Spawn, Return, NoWorker, UnloadedLands, OneTransition, ManagersApart,
           OwnersOnCourse
  <2> QED
    BY <1>0, <1>4, <2>0, <2>1, <2>2, <2>3, <2>4, <2>5
       DEF Spawn, Kept, PlantParts, CycleBacked, RunningAlive, ImageHeld, StoppedClean,
           Undisturbed
<1>5. ASSUME NEW t \in Threads, FindProgram(t) PROVE Kept'
  <2>0. Undisturbed
    BY <1>5 DEF FindProgram, Undisturbed
  <2>1. BootQuiet'
    BY <1>0, <1>5, <2>0 DEF FindProgram, Landed, BootQuiet
  <2>2. NotDestroyed'
    BY <1>0, <1>5, <2>0 DEF FindProgram, Landed, NotDestroyed, OwnersOnCourse, Undisturbed
  <2>3. StartPrepared'
    BY <1>0, <1>5, <2>0
       DEF FindProgram, Landed, StartPrepared, OneTransition, CycleAlone, ManagersApart,
           OwnersOnCourse
  <2>4. CycleBacked'
    BY <1>0, <1>5, <2>0
       DEF FindProgram, Landed, CycleBacked, OwnersOnCourse, CycleAlone, StartPrepared,
           OneTransition, ManagersApart
  <2>5. RunningAlive'
    BY <1>0, <1>5, <2>0 DEF FindProgram, Landed, RunningAlive, OneTransition, CycleAlone
  <2>6. NothingLeft'
    BY <1>0, <1>5, <2>0
       DEF FindProgram, Landed, NothingLeft, CycleAlone, ManagersApart, OneTransition,
           OwnersOnCourse
  <2>7. UnloadedLands'
    BY <1>0, <1>5, <2>0
       DEF FindProgram, Landed, UnloadedLands, OneTransition, ManagersApart, OwnersOnCourse
  <2>8. StoppedClean'
    BY <1>0, <1>5, <2>0
       DEF FindProgram, Landed, StoppedClean, Undisturbed, NothingLeft, UnloadedLands,
           OneTransition, CycleAlone, OwnersOnCourse
  <2> QED
    BY <1>0, <1>5, <2>0, <2>1, <2>2, <2>3, <2>4, <2>5, <2>6, <2>7, <2>8
       DEF FindProgram, Kept, PlantParts, ImageHeld, Undisturbed
<1>6. ASSUME NEW t \in Threads, LoadProgram(t) PROVE Kept'
  <2>0. Undisturbed
    BY <1>6 DEF LoadProgram, Undisturbed
  <2>1. BootQuiet'
    BY <1>0, <1>6, <2>0 DEF LoadProgram, FailStart, BootQuiet
  <2>2. NotDestroyed'
    BY <1>0, <1>6, <2>0 DEF LoadProgram, FailStart, NotDestroyed, OwnersOnCourse, Undisturbed
  <2>3. StartPrepared'
    BY <1>0, <1>6, <2>0
       DEF LoadProgram, FailStart, StartPrepared, OneTransition, CycleAlone, ManagersApart,
           OwnersOnCourse
  <2>4. CycleBacked'
    BY <1>0, <1>6, <2>0
       DEF LoadProgram, FailStart, CycleBacked, OwnersOnCourse, CycleAlone, StartPrepared,
           OneTransition, ManagersApart
  <2>5. RunningAlive'
    BY <1>0, <1>6, <2>0 DEF LoadProgram, FailStart, RunningAlive, OneTransition, CycleAlone
  <2>6. NothingLeft'
    BY <1>0, <1>6, <2>0
       DEF LoadProgram, FailStart, NothingLeft, CycleAlone, ManagersApart, OneTransition,
           OwnersOnCourse
  <2>7. UnloadedLands'
    BY <1>0, <1>6, <2>0
       DEF LoadProgram, FailStart, UnloadedLands, OneTransition, ManagersApart,
           OwnersOnCourse
  <2>8. StoppedClean'
    BY <1>0, <1>6, <2>0
       DEF LoadProgram, FailStart, StoppedClean, Undisturbed, NothingLeft, UnloadedLands,
           OneTransition, CycleAlone, OwnersOnCourse
  <2> QED
    BY <1>0, <1>6, <2>0, <2>1, <2>2, <2>3, <2>4, <2>5, <2>6, <2>7, <2>8
       DEF LoadProgram, Kept, PlantParts, ImageHeld, Undisturbed
<1>7. ASSUME NEW t \in Threads, LoadPlugins(t) PROVE Kept'
  <2>0. Undisturbed
    BY <1>7 DEF LoadPlugins, Undisturbed
  <2>1. BootQuiet'
    BY <1>0, <1>7, <2>0 DEF LoadPlugins, FailStart, TornDown, Stale, BootQuiet
  <2>2. NotDestroyed'
    BY <1>0, <1>7, <2>0
       DEF LoadPlugins, FailStart, TornDown, Stale, NotDestroyed, OwnersOnCourse,
           Undisturbed
  <2>3. StartPrepared'
    BY <1>0, <1>7, <2>0
       DEF LoadPlugins, FailStart, TornDown, Stale, StartPrepared, OneTransition,
           CycleAlone, ManagersApart, OwnersOnCourse
  <2>4. CycleBacked'
    BY <1>0, <1>7, <2>0
       DEF LoadPlugins, FailStart, TornDown, Stale, CycleBacked, OwnersOnCourse, CycleAlone,
           StartPrepared, OneTransition, ManagersApart
  <2>5. RunningAlive'
    BY <1>0, <1>7, <2>0
       DEF LoadPlugins, FailStart, TornDown, Stale, RunningAlive, OneTransition, CycleAlone
  <2>6. NothingLeft'
    BY <1>0, <1>7, <2>0
       DEF LoadPlugins, FailStart, TornDown, Stale, NothingLeft, CycleAlone, ManagersApart,
           OneTransition, OwnersOnCourse
  <2>7. UnloadedLands'
    BY <1>0, <1>7, <2>0
       DEF LoadPlugins, FailStart, TornDown, Stale, UnloadedLands, OneTransition,
           ManagersApart, OwnersOnCourse
  <2>8. ImageHeld'
    BY <1>0, <1>7, <2>0
       DEF LoadPlugins, FailStart, TornDown, Stale, ImageHeld, Undisturbed, StartPrepared,
           NothingLeft, BootQuiet, OwnersOnCourse
  <2>9. StoppedClean'
    BY <1>0, <1>7, <2>0
       DEF LoadPlugins, FailStart, TornDown, Stale, StoppedClean, Undisturbed, NothingLeft,
           UnloadedLands, OneTransition, CycleAlone, OwnersOnCourse
  <2> QED
    BY <1>0, <2>0, <2>1, <2>2, <2>3, <2>4, <2>5, <2>6, <2>7, <2>8, <2>9 DEF Kept, PlantParts
<1>8. ASSUME NEW t \in Threads, InitPlugins(t) PROVE Kept'
  <2>0. Undisturbed
    BY <1>8 DEF InitPlugins, Undisturbed
  <2>1. BootQuiet'
    BY <1>0, <1>8, <2>0 DEF InitPlugins, FailStart, BootQuiet
  <2>2. NotDestroyed'
    BY <1>0, <1>8, <2>0 DEF InitPlugins, FailStart, NotDestroyed, OwnersOnCourse, Undisturbed
  <2>3. StartPrepared'
    BY <1>0, <1>8, <2>0
       DEF InitPlugins, FailStart, StartPrepared, OneTransition, CycleAlone, ManagersApart,
           OwnersOnCourse
  <2>4. CycleBacked'
    BY <1>0, <1>8, <2>0
       DEF InitPlugins, FailStart, CycleBacked, OwnersOnCourse, CycleAlone, StartPrepared,
           OneTransition, ManagersApart
  <2>5. RunningAlive'
    BY <1>0, <1>8, <2>0 DEF InitPlugins, FailStart, RunningAlive, OneTransition, CycleAlone
  <2>6. NothingLeft'
    BY <1>0, <1>8, <2>0
       DEF InitPlugins, FailStart, NothingLeft, CycleAlone, ManagersApart, OneTransition,
           OwnersOnCourse
  <2>7. UnloadedLands'
    BY <1>0, <1>8, <2>0
       DEF InitPlugins, FailStart, UnloadedLands, OneTransition, ManagersApart,
           OwnersOnCourse
  <2>8. ImageHeld'
    BY <1>0, <1>8, <2>0
       DEF InitPlugins, FailStart, ImageHeld, Undisturbed, StartPrepared, NothingLeft,
           BootQuiet, OwnersOnCourse
  <2>9. StoppedClean'
    BY <1>0, <1>8, <2>0
       DEF InitPlugins, FailStart, StoppedClean, Undisturbed, NothingLeft, UnloadedLands,
           OneTransition, CycleAlone, OwnersOnCourse
  <2> QED
    BY <1>0, <2>0, <2>1, <2>2, <2>3, <2>4, <2>5, <2>6, <2>7, <2>8, <2>9 DEF Kept, PlantParts
<1>9. ASSUME NEW t \in Threads, CreateCycle(t) PROVE Kept'
  <2>0. Undisturbed
    BY <1>9 DEF CreateCycle, Undisturbed
  <2>1. BootQuiet'
    BY <1>0, <1>9, <2>0 DEF CreateCycle, FailStart, BootQuiet
  <2>2. NotDestroyed'
    BY <1>0, <1>9, <2>0 DEF CreateCycle, FailStart, NotDestroyed, OwnersOnCourse, Undisturbed
  <2>3. StartPrepared'
    BY <1>0, <1>9, <2>0
       DEF CreateCycle, FailStart, StartPrepared, OneTransition, CycleAlone, ManagersApart,
           OwnersOnCourse
  <2>4. CycleBacked'
    BY <1>0, <1>9, <2>0
       DEF CreateCycle, FailStart, CycleBacked, OwnersOnCourse, CycleAlone, StartPrepared,
           OneTransition, ManagersApart
  <2>5. RunningAlive'
    BY <1>0, <1>9, <2>0 DEF CreateCycle, FailStart, RunningAlive, OneTransition, CycleAlone
  <2>6. NothingLeft'
    BY <1>0, <1>9, <2>0
       DEF CreateCycle, FailStart, NothingLeft, CycleAlone, ManagersApart, OneTransition,
           OwnersOnCourse
  <2>7. UnloadedLands'
    BY <1>0, <1>9, <2>0
       DEF CreateCycle, FailStart, UnloadedLands, OneTransition, ManagersApart,
           OwnersOnCourse
  <2>8. ImageHeld'
    BY <1>0, <1>9, <2>0
       DEF CreateCycle, FailStart, ImageHeld, Undisturbed, StartPrepared, NothingLeft,
           BootQuiet, OwnersOnCourse
  <2>9. StoppedClean'
    BY <1>0, <1>9, <2>0
       DEF CreateCycle, FailStart, StoppedClean, Undisturbed, NothingLeft, UnloadedLands,
           OneTransition, CycleAlone, OwnersOnCourse
  <2> QED
    BY <1>0, <2>0, <2>1, <2>2, <2>3, <2>4, <2>5, <2>6, <2>7, <2>8, <2>9 DEF Kept, PlantParts
<1>10. ASSUME NEW t \in Threads, DropManager(t) PROVE Kept'
  <2>0. Undisturbed
    BY <1>10 DEF DropManager, Undisturbed
  <2>1. BootQuiet'
    BY <1>0, <1>10, <2>0 DEF DropManager, BootQuiet
  <2>2. NotDestroyed'
    BY <1>0, <1>10, <2>0 DEF DropManager, NotDestroyed, OwnersOnCourse, Undisturbed
  <2>3. StartPrepared'
    BY <1>0, <1>10, <2>0
       DEF DropManager, StartPrepared, OneTransition, CycleAlone, ManagersApart,
           OwnersOnCourse
  <2>4. CycleBacked'
    BY <1>0, <1>10, <2>0
       DEF DropManager, CycleBacked, OwnersOnCourse, CycleAlone, StartPrepared,
           OneTransition, ManagersApart
  <2>5. NothingLeft'
    BY <1>0, <1>10, <2>0
       DEF DropManager, NothingLeft, CycleAlone, ManagersApart, OneTransition,
           OwnersOnCourse
  <2>6. UnloadedLands'
    BY <1>0, <1>10, <2>0
       DEF DropManager, UnloadedLands, OneTransition, ManagersApart, OwnersOnCourse
  <2>7. StoppedClean'
    BY <1>0, <1>10, <2>0
       DEF DropManager, StoppedClean, Undisturbed, NothingLeft, UnloadedLands,
           OneTransition, CycleAlone, OwnersOnCourse
  <2> QED
    BY <1>0, <1>10, <2>0, <2>1, <2>2, <2>3, <2>4, <2>5, <2>6, <2>7
       DEF DropManager, Kept, PlantParts, RunningAlive, ImageHeld, Undisturbed
<1>11. ASSUME NEW t \in Threads, Fallback(t) PROVE Kept'
  <2>0. Undisturbed
    BY <1>11 DEF Fallback, Undisturbed
  <2>1. BootQuiet'
    BY <1>0, <1>11, <2>0 DEF Fallback, BootQuiet
  <2>2. NotDestroyed'
    BY <1>0, <1>11, <2>0 DEF Fallback, NotDestroyed, OwnersOnCourse, Undisturbed
  <2>3. StartPrepared'
    BY <1>0, <1>11, <2>0
       DEF Fallback, StartPrepared, OneTransition, CycleAlone, ManagersApart, OwnersOnCourse
  <2>4. NothingLeft'
    BY <1>0, <1>11, <2>0
       DEF Fallback, NothingLeft, CycleAlone, ManagersApart, OneTransition, OwnersOnCourse
  <2>5. UnloadedLands'
    BY <1>0, <1>11, <2>0
       DEF Fallback, UnloadedLands, OneTransition, ManagersApart, OwnersOnCourse
  <2> QED
    BY <1>0, <1>11, <2>0, <2>1, <2>2, <2>3, <2>4, <2>5
       DEF Fallback, Kept, PlantParts, CycleBacked, RunningAlive, ImageHeld, StoppedClean,
           Undisturbed
<1>12. ASSUME NEW t \in Threads, FallbackPublish(t) PROVE Kept'
  BY <1>12 DEF FallbackPublish, Undisturbed
<1>13. ASSUME NEW t \in Threads, SetStopped(t) PROVE Kept'
  <2>0. Undisturbed
    BY <1>13 DEF SetStopped, Undisturbed
  <2>1. BootQuiet'
    BY <1>0, <1>13, <2>0 DEF SetStopped, Landed, BootQuiet
  <2>2. NotDestroyed'
    BY <1>0, <1>13, <2>0 DEF SetStopped, Landed, NotDestroyed, OwnersOnCourse, Undisturbed
  <2>3. StartPrepared'
    BY <1>0, <1>13, <2>0
       DEF SetStopped, Landed, StartPrepared, OneTransition, CycleAlone, ManagersApart,
           OwnersOnCourse
  <2>4. RunningAlive'
    BY <1>0, <1>13, <2>0 DEF SetStopped, Landed, RunningAlive, OneTransition, CycleAlone
  <2>5. NothingLeft'
    BY <1>0, <1>13, <2>0
       DEF SetStopped, Landed, NothingLeft, CycleAlone, ManagersApart, OneTransition,
           OwnersOnCourse
  <2>6. UnloadedLands'
    BY <1>0, <1>13, <2>0
       DEF SetStopped, Landed, UnloadedLands, OneTransition, ManagersApart, OwnersOnCourse
  <2>7. StoppedClean'
    BY <1>0, <1>13, <2>0
       DEF SetStopped, Landed, StoppedClean, Undisturbed, NothingLeft, UnloadedLands,
           OneTransition, CycleAlone, OwnersOnCourse
  <2> QED
    BY <1>0, <1>13, <2>0, <2>1, <2>2, <2>3, <2>4, <2>5, <2>6, <2>7
       DEF SetStopped, Kept, PlantParts, CycleBacked, ImageHeld, Undisturbed
<1>14. ASSUME NEW t \in Threads, UnloadLock(t) PROVE Kept'
  <2>0. Undisturbed
    BY <1>14 DEF UnloadLock, Undisturbed
  <2>1. BootQuiet'
    BY <1>0, <1>14, <2>0 DEF UnloadLock, BootQuiet
  <2>2. NotDestroyed'
    BY <1>0, <1>14, <2>0 DEF UnloadLock, NotDestroyed, OwnersOnCourse, Undisturbed
  <2>3. StartPrepared'
    BY <1>0, <1>14, <2>0
       DEF UnloadLock, StartPrepared, OneTransition, CycleAlone, ManagersApart,
           OwnersOnCourse
  <2>4. NothingLeft'
    BY <1>0, <1>14, <2>0
       DEF UnloadLock, NothingLeft, CycleAlone, ManagersApart, OneTransition, OwnersOnCourse
  <2>5. UnloadedLands'
    BY <1>0, <1>14, <2>0
       DEF UnloadLock, UnloadedLands, OneTransition, ManagersApart, OwnersOnCourse
  <2> QED
    BY <1>0, <1>14, <2>0, <2>1, <2>2, <2>3, <2>4, <2>5
       DEF UnloadLock, Kept, PlantParts, CycleBacked, RunningAlive, ImageHeld, StoppedClean,
           Undisturbed
<1>15. ASSUME NEW t \in Threads, UnloadFail(t) PROVE Kept'
  <2>0. Undisturbed
    BY <1>15 DEF UnloadFail, Undisturbed
  <2>1. BootQuiet'
    BY <1>0, <1>15, <2>0 DEF UnloadFail, AfterUnload, Landed, BootQuiet
  <2>2. NotDestroyed'
    BY <1>0, <1>15, <2>0
       DEF UnloadFail, AfterUnload, Landed, NotDestroyed, OwnersOnCourse, Undisturbed
  <2>3. StartPrepared'
    BY <1>0, <1>15, <2>0
       DEF UnloadFail, AfterUnload, Landed, StartPrepared, OneTransition, CycleAlone,
           ManagersApart, OwnersOnCourse
  <2>4. RunningAlive'
    BY <1>0, <1>15, <2>0
       DEF UnloadFail, AfterUnload, Landed, RunningAlive, OneTransition, CycleAlone
  <2>5. NothingLeft'
    BY <1>0, <1>15, <2>0
       DEF UnloadFail, AfterUnload, Landed, NothingLeft, CycleAlone, ManagersApart,
           OneTransition, OwnersOnCourse
  <2>6. UnloadedLands'
    BY <1>0, <1>15, <2>0
       DEF UnloadFail, AfterUnload, Landed, UnloadedLands, OneTransition, ManagersApart,
           OwnersOnCourse
  <2>7. StoppedClean'
    BY <1>0, <1>15, <2>0
       DEF UnloadFail, AfterUnload, Landed, StoppedClean, Undisturbed, NothingLeft,
           UnloadedLands, OneTransition, CycleAlone, OwnersOnCourse
  <2> QED
    BY <1>0, <1>15, <2>0, <2>1, <2>2, <2>3, <2>4, <2>5, <2>6, <2>7
       DEF UnloadFail, Kept, PlantParts, CycleBacked, ImageHeld, Undisturbed
<1>16. ASSUME NEW t \in Threads, UnloadPublish(t) PROVE Kept'
  <2>0. Undisturbed
    BY <1>16 DEF UnloadPublish, Undisturbed
  <2>1. BootQuiet'
    BY <1>0, <1>16, <2>0 DEF UnloadPublish, BootQuiet
  <2>2. NotDestroyed'
    BY <1>0, <1>16, <2>0 DEF UnloadPublish, NotDestroyed, OwnersOnCourse, Undisturbed
  <2>3. StartPrepared'
    BY <1>0, <1>16, <2>0
       DEF UnloadPublish, StartPrepared, OneTransition, CycleAlone, ManagersApart,
           OwnersOnCourse
  <2>4. RunningAlive'
    BY <1>0, <1>16, <2>0 DEF UnloadPublish, RunningAlive, OneTransition, CycleAlone
  <2>5. NothingLeft'
    BY <1>0, <1>16, <2>0
       DEF UnloadPublish, NothingLeft, CycleAlone, ManagersApart, OneTransition,
           OwnersOnCourse
  <2>6. UnloadedLands'
    BY <1>0, <1>16, <2>0
       DEF UnloadPublish, UnloadedLands, OneTransition, ManagersApart, OwnersOnCourse
  <2>7. StoppedClean'
    BY <1>0, <1>16, <2>0
       DEF UnloadPublish, StoppedClean, Undisturbed, NothingLeft, UnloadedLands,
           OneTransition, CycleAlone, OwnersOnCourse
  <2> QED
    BY <1>0, <1>16, <2>0, <2>1, <2>2, <2>3, <2>4, <2>5, <2>6, <2>7
       DEF UnloadPublish, Kept, PlantParts, CycleBacked, ImageHeld, Undisturbed
<1>17. ASSUME NEW t \in Threads, UnloadJoin(t) PROVE Kept'
  <2>0. Undisturbed
    BY <1>17 DEF UnloadJoin, Undisturbed
  <2>1. BootQuiet'
    BY <1>0, <1>17, <2>0 DEF UnloadJoin, BootQuiet
  <2>2. NotDestroyed'
    BY <1>0, <1>17, <2>0 DEF UnloadJoin, NotDestroyed, OwnersOnCourse, Undisturbed
  <2>3. StartPrepared'
    BY <1>0, <1>17, <2>0
       DEF UnloadJoin, StartPrepared, OneTransition, CycleAlone, ManagersApart,
           OwnersOnCourse
  <2>4. CycleBacked'
    BY <1>0, <1>17, <2>0
       DEF UnloadJoin, CycleBacked, OwnersOnCourse, CycleAlone, StartPrepared,
           OneTransition, ManagersApart
  <2>5. RunningAlive'
    BY <1>0, <1>17, <2>0 DEF UnloadJoin, RunningAlive, OneTransition, CycleAlone
  <2>6. NothingLeft'
    BY <1>0, <1>17, <2>0
       DEF UnloadJoin, NothingLeft, CycleAlone, ManagersApart, OneTransition, OwnersOnCourse
  <2>7. UnloadedLands'
    BY <1>0, <1>17, <2>0
       DEF UnloadJoin, UnloadedLands, OneTransition, ManagersApart, OwnersOnCourse
  <2>8. StoppedClean'
    BY <1>0, <1>17, <2>0
       DEF UnloadJoin, StoppedClean, Undisturbed, NothingLeft, UnloadedLands, OneTransition,
           CycleAlone, OwnersOnCourse
  <2> QED
    BY <1>0, <1>17, <2>0, <2>1, <2>2, <2>3, <2>4, <2>5, <2>6, <2>7, <2>8
       DEF UnloadJoin, Kept, PlantParts, ImageHeld, Undisturbed
<1>18. ASSUME NEW t \in Threads, UnloadTear(t) PROVE Kept'
  <2>0. Undisturbed
    BY <1>18 DEF UnloadTear, Undisturbed
  <2>1. BootQuiet'
    BY <1>0, <1>18, <2>0 DEF UnloadTear, BootQuiet
  <2>2. NotDestroyed'
    BY <1>0, <1>18, <2>0 DEF UnloadTear, NotDestroyed, OwnersOnCourse, Undisturbed
  <2>3. StartPrepared'
    BY <1>0, <1>18, <2>0
       DEF UnloadTear, StartPrepared, OneTransition, CycleAlone, ManagersApart,
           OwnersOnCourse
  <2>4. CycleBacked'
    BY <1>0, <1>18, <2>0
       DEF UnloadTear, CycleBacked, OwnersOnCourse, CycleAlone, StartPrepared,
           OneTransition, ManagersApart
  <2>5. NothingLeft'
    BY <1>0, <1>18, <2>0
       DEF UnloadTear, NothingLeft, CycleAlone, ManagersApart, OneTransition, OwnersOnCourse
  <2>6. UnloadedLands'
    BY <1>0, <1>18, <2>0
       DEF UnloadTear, UnloadedLands, OneTransition, ManagersApart, OwnersOnCourse
  <2>7. ImageHeld'
    BY <1>0, <1>18, <2>0
       DEF UnloadTear, ImageHeld, Undisturbed, StartPrepared, NothingLeft, BootQuiet,
           OwnersOnCourse
  <2>8. StoppedClean'
    BY <1>0, <1>18, <2>0
       DEF UnloadTear, StoppedClean, Undisturbed, NothingLeft, UnloadedLands, OneTransition,
           CycleAlone, OwnersOnCourse
  <2> QED
    BY <1>0, <1>18, <2>0, <2>1, <2>2, <2>3, <2>4, <2>5, <2>6, <2>7, <2>8
       DEF UnloadTear, Kept, PlantParts, RunningAlive
<1>19. ASSUME NEW t \in Threads, UnloadLand(t) PROVE Kept'
  <2>0. Undisturbed
    BY <1>19 DEF UnloadLand, Undisturbed
  <2>1. BootQuiet'
    BY <1>0, <1>19, <2>0 DEF UnloadLand, AfterUnload, Landed, BootQuiet
  <2>2. NotDestroyed'
    BY <1>0, <1>19, <2>0
       DEF UnloadLand, AfterUnload, Landed, NotDestroyed, OwnersOnCourse, Undisturbed
  <2>3. StartPrepared'
    BY <1>0, <1>19, <2>0
       DEF UnloadLand, AfterUnload, Landed, StartPrepared, OneTransition, CycleAlone,
           ManagersApart, OwnersOnCourse
  <2>4. RunningAlive'
    BY <1>0, <1>19, <2>0
       DEF UnloadLand, AfterUnload, Landed, RunningAlive, OneTransition, CycleAlone
  <2>5. NothingLeft'
    BY <1>0, <1>19, <2>0
       DEF UnloadLand, AfterUnload, Landed, NothingLeft, CycleAlone, ManagersApart,
           OneTransition, OwnersOnCourse
  <2>6. UnloadedLands'
    BY <1>0, <1>19, <2>0
       DEF UnloadLand, AfterUnload, Landed, UnloadedLands, OneTransition, ManagersApart,
           OwnersOnCourse
  <2>7. StoppedClean'
    BY <1>0, <1>19, <2>0
       DEF UnloadLand, AfterUnload, Landed, StoppedClean, Undisturbed, NothingLeft,
           UnloadedLands, OneTransition, CycleAlone, OwnersOnCourse
  <2> QED
    BY <1>0, <1>19, <2>0, <2>1, <2>2, <2>3, <2>4, <2>5, <2>6, <2>7
       DEF UnloadLand, Kept, PlantParts, CycleBacked, ImageHeld, Undisturbed
<1>20. ASSUME NEW t \in Threads, Landing(t) PROVE Kept'
  <2>0. Undisturbed
    BY <1>20 DEF Landing, Undisturbed
  <2>1. BootQuiet'
    BY <1>0, <1>20, <2>0 DEF Landing, BootQuiet
  <2>2. NotDestroyed'
    BY <1>0, <1>20, <2>0 DEF Landing, NotDestroyed, OwnersOnCourse, Undisturbed
  <2>3. StartPrepared'
    BY <1>0, <1>20, <2>0
       DEF Landing, StartPrepared, OneTransition, CycleAlone, ManagersApart, OwnersOnCourse
  <2>4. NothingLeft'
    BY <1>0, <1>20, <2>0
       DEF Landing, NothingLeft, CycleAlone, ManagersApart, OneTransition, OwnersOnCourse
  <2>5. UnloadedLands'
    BY <1>0, <1>20, <2>0
       DEF Landing, UnloadedLands, OneTransition, ManagersApart, OwnersOnCourse
  <2> QED
    BY <1>0, <1>20, <2>0, <2>1, <2>2, <2>3, <2>4, <2>5
       DEF Landing, Kept, PlantParts, CycleBacked, RunningAlive, ImageHeld, StoppedClean,
           Undisturbed
<1>21. ASSUME NEW t \in Threads, TakeMovement(t) PROVE Kept'
  <2>0. Undisturbed
    BY <1>21 DEF TakeMovement, Undisturbed
  <2>1. BootQuiet'
    BY <1>0, <1>21, <2>0 DEF TakeMovement, BootQuiet
  <2>2. NotDestroyed'
    BY <1>0, <1>21, <2>0 DEF TakeMovement, NotDestroyed, OwnersOnCourse, Undisturbed
  <2>3. StartPrepared'
    BY <1>0, <1>21, <2>0
       DEF TakeMovement, StartPrepared, OneTransition, CycleAlone, ManagersApart,
           OwnersOnCourse
  <2>4. NothingLeft'
    BY <1>0, <1>21, <2>0
       DEF TakeMovement, NothingLeft, CycleAlone, ManagersApart, OneTransition,
           OwnersOnCourse
  <2>5. UnloadedLands'
    BY <1>0, <1>21, <2>0
       DEF TakeMovement, UnloadedLands, OneTransition, ManagersApart, OwnersOnCourse
  <2> QED
    BY <1>0, <1>21, <2>0, <2>1, <2>2, <2>3, <2>4, <2>5
       DEF TakeMovement, Kept, PlantParts, CycleBacked, RunningAlive, ImageHeld,
           StoppedClean, Undisturbed
<1>22. ASSUME NEW t \in Threads, Compare(t) PROVE Kept'
  <2>0. Undisturbed
    BY <1>22 DEF Compare, Undisturbed
  <2>1. BootQuiet'
    BY <1>0, <1>22, <2>0 DEF Compare, Wanted, BootQuiet
  <2>2. NotDestroyed'
    BY <1>0, <1>22, <2>0 DEF Compare, Wanted, NotDestroyed, OwnersOnCourse, Undisturbed
  <2>3. StartPrepared'
    BY <1>0, <1>22, <2>0
       DEF Compare, Wanted, StartPrepared, OneTransition, CycleAlone, ManagersApart,
           OwnersOnCourse
  <2>4. NothingLeft'
    BY <1>0, <1>22, <2>0
       DEF Compare, Wanted, NothingLeft, CycleAlone, ManagersApart, OneTransition,
           OwnersOnCourse
  <2>5. UnloadedLands'
    BY <1>0, <1>22, <2>0
       DEF Compare, Wanted, UnloadedLands, OneTransition, ManagersApart, OwnersOnCourse
  <2> QED
    BY <1>0, <1>22, <2>0, <2>1, <2>2, <2>3, <2>4, <2>5
       DEF Compare, Kept, PlantParts, CycleBacked, RunningAlive, ImageHeld, StoppedClean,
           Undisturbed
<1>23. ASSUME NEW t \in Threads, Reclaim(t) PROVE Kept'
  <2>0. Undisturbed
    BY <1>23, ClaimUndisturbed
  <2>1. BootQuiet'
    BY <1>0, <1>23, <2>0 DEF Reclaim, Direction, BootQuiet
  <2>2. NotDestroyed'
    BY <1>0, <1>23, <2>0 DEF Reclaim, Direction, NotDestroyed, OwnersOnCourse, Undisturbed
  <2>3. StartPrepared'
    BY <1>0, <1>23, <2>0
       DEF Reclaim, Direction, StartPrepared, OneTransition, CycleAlone, ManagersApart,
           OwnersOnCourse
  <2>4. RunningAlive'
    BY <1>0, <1>23, <2>0 DEF Reclaim, Direction, RunningAlive, OneTransition, CycleAlone
  <2>5. NothingLeft'
    <3>1. /\ UNCHANGED <<plc_program, running, g_task_fault, pm, target>>
          /\ \A u \in Threads : u # t => pc'[u] = pc[u]
          /\ pc[t] \in {"claim", "reclaim"} /\ pc'[t] # "drop"
          /\ Owns(t)' => Claimable(target[t])
      BY <1>23 DEF Reclaim
    <3>2. Claimable(target[t]) /\ target[t] = "RUNNING" => plc_program = 0
      BY <1>23, ClaimUndisturbed
    <3>3. Claimable(target[t]) => \A u \in Threads : pc[u] # "un_land"
      BY <1>0, <2>0 DEF OneTransition, Claimable
    <3>4. Owns(t)' /\ target'[t] = "RUNNING" => ~running /\ ~g_task_fault
      BY <1>0, <2>0, <3>1, <3>2, <3>3 DEF NothingLeft
    <3>5. \A u \in Threads : pc[u] = "un_land" <=> pc'[u] = "un_land"
      BY <1>23 DEF Reclaim
    <3> QED
      BY <1>0, <2>0, <3>1, <3>4, <3>5 DEF NothingLeft
  <2>6. UnloadedLands'
    BY <1>0, <1>23, <2>0
       DEF Reclaim, Direction, UnloadedLands, OneTransition, ManagersApart, OwnersOnCourse
  <2>7. StoppedClean'
    BY <1>0, <1>23, <2>0
       DEF Reclaim, Direction, StoppedClean, Undisturbed, NothingLeft, UnloadedLands,
           OneTransition, CycleAlone, OwnersOnCourse
  <2> QED
    BY <1>0, <1>23, <2>0, <2>1, <2>2, <2>3, <2>4, <2>5, <2>6, <2>7
       DEF Reclaim, Kept, PlantParts, CycleBacked, ImageHeld, Undisturbed
<1>24. ASSUME NEW t \in Threads, Respawn(t) PROVE Kept'
  <2>0. Undisturbed
    BY <1>24 DEF Respawn, Undisturbed
  <2>1. \/ \E w \in Workers : /\ pc[w] = "idle"
                              /\ pc' = [pc EXCEPT ![w] = "set", ![t] = "end"]
                              /\ target' = [target EXCEPT ![w] = target[t]]
        \/ pc' = [pc EXCEPT ![t] = "set"] /\ target' = target
    BY <1>24, Zenon DEF Respawn
  <2>2. pc[t] = "respawn"
    BY <1>24, Zenon DEF Respawn
  <2>3. UNCHANGED <<plc_state, program, plugin, g_task_fault, plc_requests_held, pm, cycle>>
    BY <1>24, Zenon DEF Respawn
  <2>4. BootQuiet'
    BY <1>0, <2>0, <2>1, <2>2, <2>3 DEF BootQuiet
  <2>5. NotDestroyed'
    BY <1>0, <2>0, <2>1, <2>2, <2>3 DEF NotDestroyed, OwnersOnCourse, Undisturbed
  <2>6. StartPrepared'
    BY <1>0, <2>0, <2>1, <2>2, <2>3
       DEF StartPrepared, OneTransition, CycleAlone, ManagersApart, OwnersOnCourse
  <2>7. NothingLeft'
    BY <1>0, <2>0, <2>1, <2>2, <2>3
       DEF NothingLeft, CycleAlone, ManagersApart, OneTransition, OwnersOnCourse
  <2>8. UnloadedLands'
    BY <1>0, <2>0, <2>1, <2>2, <2>3
       DEF UnloadedLands, OneTransition, ManagersApart, OwnersOnCourse
  <2> QED
    BY <1>0, <1>24, <2>0, <2>4, <2>5, <2>6, <2>7, <2>8
       DEF Respawn, Kept, PlantParts, CycleBacked, RunningAlive, ImageHeld, StoppedClean,
           Undisturbed
<1>25. ASSUME NEW t \in Threads, EndTransition(t) PROVE Kept'
  <2>0. Undisturbed
    BY <1>25 DEF EndTransition, Undisturbed
  <2>1. BootQuiet'
    BY <1>0, <1>25, <2>0 DEF EndTransition, Return, BootQuiet
  <2>2. NotDestroyed'
    BY <1>0, <1>25, <2>0 DEF EndTransition, Return, NotDestroyed, OwnersOnCourse, Undisturbed
  <2>3. StartPrepared'
    BY <1>0, <1>25, <2>0
       DEF EndTransition, Return, StartPrepared, OneTransition, CycleAlone, ManagersApart,
           OwnersOnCourse
  <2>4. NothingLeft'
    BY <1>0, <1>25, <2>0
       DEF EndTransition, Return, NothingLeft, CycleAlone, ManagersApart, OneTransition,
           OwnersOnCourse
  <2>5. UnloadedLands'
    BY <1>0, <1>25, <2>0
       DEF EndTransition, Return, UnloadedLands, OneTransition, ManagersApart,
           OwnersOnCourse
  <2> QED
    BY <1>0, <1>25, <2>0, <2>1, <2>2, <2>3, <2>4, <2>5
       DEF EndTransition, Kept, PlantParts, CycleBacked, RunningAlive, ImageHeld,
           StoppedClean, Undisturbed
<1>26. ASSUME NEW c \in Cycles, CycleBoot(c) PROVE Kept'
  <2>0. Undisturbed
    BY <1>26, CycleUndisturbed
  <2>1. BootQuiet'
    BY <1>0, <1>26, <2>0 DEF CycleBoot, CycleError, BootQuiet
  <2>2. CycleBacked'
    BY <1>0, <1>26, <2>0
       DEF CycleBoot, CycleError, CycleBacked, OwnersOnCourse, CycleAlone, StartPrepared,
           OneTransition, ManagersApart
  <2>3. RunningAlive'
    BY <1>0, <1>26, <2>0 DEF CycleBoot, CycleError, RunningAlive, OneTransition, CycleAlone
  <2>4. NothingLeft'
    BY <1>0, <1>26, <2>0
       DEF CycleBoot, CycleError, NothingLeft, CycleAlone, ManagersApart, OneTransition,
           OwnersOnCourse
  <2>5. StoppedClean'
    BY <1>0, <1>26, <2>0
       DEF CycleBoot, CycleError, StoppedClean, Undisturbed, NothingLeft, UnloadedLands,
           OneTransition, CycleAlone, OwnersOnCourse
  <2> QED
    BY <1>0, <1>26, <2>0, <2>1, <2>2, <2>3, <2>4, <2>5
       DEF CycleBoot, Kept, PlantParts, NotDestroyed, StartPrepared, UnloadedLands,
           ImageHeld, Undisturbed
<1>27. ASSUME NEW c \in Cycles, CycleStartPlugins(c) PROVE Kept'
  <2>0. Undisturbed
    BY <1>27 DEF CycleStartPlugins, Undisturbed
  <2>1. BootQuiet'
    BY <1>0, <1>27, <2>0 DEF CycleStartPlugins, BootQuiet
  <2>2. CycleBacked'
    BY <1>0, <1>27, <2>0
       DEF CycleStartPlugins, CycleBacked, OwnersOnCourse, CycleAlone, StartPrepared,
           OneTransition, ManagersApart
  <2>3. RunningAlive'
    BY <1>0, <1>27, <2>0 DEF CycleStartPlugins, RunningAlive, OneTransition, CycleAlone
  <2>4. NothingLeft'
    BY <1>0, <1>27, <2>0
       DEF CycleStartPlugins, NothingLeft, CycleAlone, ManagersApart, OneTransition,
           OwnersOnCourse
  <2>5. StoppedClean'
    BY <1>0, <1>27, <2>0
       DEF CycleStartPlugins, StoppedClean, Undisturbed, NothingLeft, UnloadedLands,
           OneTransition, CycleAlone, OwnersOnCourse
  <2> QED
    BY <1>0, <1>27, <2>0, <2>1, <2>2, <2>3, <2>4, <2>5
       DEF CycleStartPlugins, Kept, PlantParts, NotDestroyed, StartPrepared, UnloadedLands,
           ImageHeld, Undisturbed
<1>28. ASSUME NEW c \in Cycles, CycleSpawnTasks(c) PROVE Kept'
  <2>0. Undisturbed
    BY <1>28, CycleUndisturbed
  <2>1. BootQuiet'
    BY <1>0, <1>28, <2>0 DEF CycleSpawnTasks, CycleError, BootQuiet
  <2>2. CycleBacked'
    BY <1>0, <1>28, <2>0
       DEF CycleSpawnTasks, CycleError, CycleBacked, OwnersOnCourse, CycleAlone,
           StartPrepared, OneTransition, ManagersApart
  <2>3. RunningAlive'
    BY <1>0, <1>28, <2>0
       DEF CycleSpawnTasks, CycleError, RunningAlive, OneTransition, CycleAlone
  <2>4. StoppedClean'
    BY <1>0, <1>28, <2>0
       DEF CycleSpawnTasks, CycleError, StoppedClean, Undisturbed, NothingLeft,
           UnloadedLands, OneTransition, CycleAlone, OwnersOnCourse
  <2> QED
    BY <1>0, <1>28, <2>0, <2>1, <2>2, <2>3, <2>4
       DEF CycleSpawnTasks, Kept, PlantParts, NotDestroyed, StartPrepared, NothingLeft,
           UnloadedLands, ImageHeld, Undisturbed
<1>29. ASSUME NEW c \in Cycles, CyclePublish(c) PROVE Kept'
  <2>0. Undisturbed
    BY <1>29 DEF CyclePublish, Undisturbed
  <2>1. BootQuiet'
    BY <1>0, <1>29, <2>0 DEF CyclePublish, BootQuiet
  <2>2. CycleBacked'
    BY <1>0, <1>29, <2>0
       DEF CyclePublish, CycleBacked, OwnersOnCourse, CycleAlone, StartPrepared,
           OneTransition, ManagersApart
  <2>3. RunningAlive'
    BY <1>0, <1>29, <2>0 DEF CyclePublish, RunningAlive, OneTransition, CycleAlone
  <2>4. StoppedClean'
    BY <1>0, <1>29, <2>0
       DEF CyclePublish, StoppedClean, Undisturbed, NothingLeft, UnloadedLands,
           OneTransition, CycleAlone, OwnersOnCourse
  <2> QED
    BY <1>0, <1>29, <2>0, <2>1, <2>2, <2>3, <2>4
       DEF CyclePublish, Kept, PlantParts, NotDestroyed, StartPrepared, NothingLeft,
           UnloadedLands, ImageHeld, Undisturbed
<1>30. ASSUME NEW c \in Cycles, CycleRun(c) PROVE Kept'
  <2>0. Undisturbed
    BY <1>30, CycleUndisturbed
  <2>1. BootQuiet'
    BY <1>0, <1>30, <2>0 DEF CycleRun, CycleError, BootQuiet
  <2>2. CycleBacked'
    BY <1>0, <1>30, <2>0
       DEF CycleRun, CycleError, CycleBacked, OwnersOnCourse, CycleAlone, StartPrepared,
           OneTransition, ManagersApart
  <2>3. RunningAlive'
    BY <1>0, <1>30, <2>0 DEF CycleRun, CycleError, RunningAlive, OneTransition, CycleAlone
  <2>4. NothingLeft'
    BY <1>0, <1>30, <2>0
       DEF CycleRun, CycleError, NothingLeft, CycleAlone, ManagersApart, OneTransition,
           OwnersOnCourse
  <2>5. StoppedClean'
    BY <1>0, <1>30, <2>0
       DEF CycleRun, CycleError, StoppedClean, Undisturbed, NothingLeft, UnloadedLands,
           OneTransition, CycleAlone, OwnersOnCourse
  <2> QED
    BY <1>0, <1>30, <2>0, <2>1, <2>2, <2>3, <2>4, <2>5
       DEF CycleRun, Kept, PlantParts, NotDestroyed, StartPrepared, UnloadedLands,
           ImageHeld, Undisturbed
<1>31. ASSUME NEW c \in Cycles, CycleTrip(c) PROVE Kept'
  <2>0. Undisturbed
    BY <1>31 DEF CycleTrip, Undisturbed
  <2>1. BootQuiet'
    BY <1>0, <1>31, <2>0 DEF CycleTrip, Claimable, BootQuiet
  <2>2. CycleBacked'
    BY <1>0, <1>31, <2>0
       DEF CycleTrip, Claimable, CycleBacked, OwnersOnCourse, CycleAlone, StartPrepared,
           OneTransition, ManagersApart
  <2>3. RunningAlive'
    BY <1>0, <1>31, <2>0 DEF CycleTrip, Claimable, RunningAlive, OneTransition, CycleAlone
  <2>4. StoppedClean'
    BY <1>0, <1>31, <2>0
       DEF CycleTrip, Claimable, StoppedClean, Undisturbed, NothingLeft, UnloadedLands,
           OneTransition, CycleAlone, OwnersOnCourse
  <2> QED
    BY <1>0, <1>31, <2>0, <2>1, <2>2, <2>3, <2>4
       DEF CycleTrip, Kept, PlantParts, NotDestroyed, StartPrepared, NothingLeft,
           UnloadedLands, ImageHeld, Undisturbed
<1>32. ASSUME NEW c \in Cycles, CycleDrain(c) PROVE Kept'
  <2>0. Undisturbed
    BY <1>32, CycleUndisturbed
  <2>1. BootQuiet'
    BY <1>0, <1>32, <2>0 DEF CycleDrain, CycleError, BootQuiet
  <2>2. CycleBacked'
    BY <1>0, <1>32, <2>0
       DEF CycleDrain, CycleError, CycleBacked, OwnersOnCourse, CycleAlone, StartPrepared,
           OneTransition, ManagersApart
  <2>3. RunningAlive'
    BY <1>0, <1>32, <2>0 DEF CycleDrain, CycleError, RunningAlive, OneTransition, CycleAlone
  <2>4. NothingLeft'
    BY <1>0, <1>32, <2>0
       DEF CycleDrain, CycleError, NothingLeft, CycleAlone, ManagersApart, OneTransition,
           OwnersOnCourse
  <2>5. StoppedClean'
    BY <1>0, <1>32, <2>0
       DEF CycleDrain, CycleError, StoppedClean, Undisturbed, NothingLeft, UnloadedLands,
           OneTransition, CycleAlone, OwnersOnCourse
  <2> QED
    BY <1>0, <1>32, <2>0, <2>1, <2>2, <2>3, <2>4, <2>5
       DEF CycleDrain, Kept, PlantParts, NotDestroyed, StartPrepared, UnloadedLands,
           ImageHeld, Undisturbed
<1>33. ASSUME NEW c \in Cycles, CycleAsync(c) PROVE Kept'
  <2>0. Undisturbed
    BY <1>33 DEF CycleAsync, Undisturbed
  <2>1. BootQuiet'
    BY <1>0, <1>33, <2>0 DEF CycleAsync, NoWorker, BootQuiet
  <2>2. NotDestroyed'
    BY <1>0, <1>33, <2>0 DEF CycleAsync, NoWorker, NotDestroyed, OwnersOnCourse, Undisturbed
  <2>3. StartPrepared'
    BY <1>0, <1>33, <2>0
       DEF CycleAsync, NoWorker, StartPrepared, OneTransition, CycleAlone, ManagersApart,
           OwnersOnCourse
  <2>4. CycleBacked'
    BY <1>0, <1>33, <2>0
       DEF CycleAsync, NoWorker, CycleBacked, OwnersOnCourse, CycleAlone, StartPrepared,
           OneTransition, ManagersApart
  <2>5. RunningAlive'
    BY <1>0, <1>33, <2>0 DEF CycleAsync, NoWorker, RunningAlive, OneTransition, CycleAlone
  <2>6. NothingLeft'
    BY <1>0, <1>33, <2>0
       DEF CycleAsync, NoWorker, NothingLeft, CycleAlone, ManagersApart, OneTransition,
           OwnersOnCourse
  <2>7. UnloadedLands'
    BY <1>0, <1>33, <2>0
       DEF CycleAsync, NoWorker, UnloadedLands, OneTransition, ManagersApart, OwnersOnCourse
  <2>8. StoppedClean'
    BY <1>0, <1>33, <2>0
       DEF CycleAsync, NoWorker, StoppedClean, Undisturbed, NothingLeft, UnloadedLands,
           OneTransition, CycleAlone, OwnersOnCourse
  <2> QED
    BY <1>0, <1>33, <2>0, <2>1, <2>2, <2>3, <2>4, <2>5, <2>6, <2>7, <2>8
       DEF CycleAsync, Kept, PlantParts, ImageHeld, Undisturbed
<1>34. ASSUME NEW c \in Cycles, CycleReap(c) PROVE Kept'
  <2>0. Undisturbed
    BY <1>34 DEF CycleReap, Undisturbed
  <2>1. BootQuiet'
    BY <1>0, <1>34, <2>0 DEF CycleReap, BootQuiet
  <2>2. CycleBacked'
    BY <1>0, <1>34, <2>0
       DEF CycleReap, CycleBacked, OwnersOnCourse, CycleAlone, StartPrepared, OneTransition,
           ManagersApart
  <2>3. RunningAlive'
    BY <1>0, <1>34, <2>0 DEF CycleReap, RunningAlive, OneTransition, CycleAlone
  <2>4. NothingLeft'
    BY <1>0, <1>34, <2>0
       DEF CycleReap, NothingLeft, CycleAlone, ManagersApart, OneTransition, OwnersOnCourse
  <2>5. StoppedClean'
    BY <1>0, <1>34, <2>0
       DEF CycleReap, StoppedClean, Undisturbed, NothingLeft, UnloadedLands, OneTransition,
           CycleAlone, OwnersOnCourse
  <2> QED
    BY <1>0, <1>34, <2>0, <2>1, <2>2, <2>3, <2>4, <2>5
       DEF CycleReap, Kept, PlantParts, NotDestroyed, StartPrepared, UnloadedLands,
           ImageHeld, Undisturbed
<1>35. CASE PluginFlip
  <2>0. Undisturbed
    BY <1>35 DEF PluginFlip, Undisturbed
  <2>1. BootQuiet'
    BY <1>0, <1>35, <2>0 DEF PluginFlip, BootQuiet
  <2>2. NotDestroyed'
    BY <1>0, <1>35, <2>0 DEF PluginFlip, NotDestroyed, OwnersOnCourse, Undisturbed
  <2>3. StartPrepared'
    BY <1>0, <1>35, <2>0
       DEF PluginFlip, StartPrepared, OneTransition, CycleAlone, ManagersApart,
           OwnersOnCourse
  <2>4. NothingLeft'
    BY <1>0, <1>35, <2>0
       DEF PluginFlip, NothingLeft, CycleAlone, ManagersApart, OneTransition, OwnersOnCourse
  <2>5. UnloadedLands'
    BY <1>0, <1>35, <2>0
       DEF PluginFlip, UnloadedLands, OneTransition, ManagersApart, OwnersOnCourse
  <2> QED
    BY <1>0, <1>35, <2>0, <2>1, <2>2, <2>3, <2>4, <2>5
       DEF PluginFlip, Kept, PlantParts, CycleBacked, RunningAlive, ImageHeld, StoppedClean,
           Undisturbed
<1>36. CASE PluginMoved
  <2>0. Undisturbed
    BY <1>36 DEF PluginMoved, Undisturbed
  <2>1. BootQuiet'
    BY <1>0, <1>36, <2>0 DEF PluginMoved, BootQuiet
  <2>2. NotDestroyed'
    BY <1>0, <1>36, <2>0 DEF PluginMoved, NotDestroyed, OwnersOnCourse, Undisturbed
  <2>3. StartPrepared'
    BY <1>0, <1>36, <2>0
       DEF PluginMoved, StartPrepared, OneTransition, CycleAlone, ManagersApart,
           OwnersOnCourse
  <2>4. NothingLeft'
    BY <1>0, <1>36, <2>0
       DEF PluginMoved, NothingLeft, CycleAlone, ManagersApart, OneTransition,
           OwnersOnCourse
  <2>5. UnloadedLands'
    BY <1>0, <1>36, <2>0
       DEF PluginMoved, UnloadedLands, OneTransition, ManagersApart, OwnersOnCourse
  <2> QED
    BY <1>0, <1>36, <2>0, <2>1, <2>2, <2>3, <2>4, <2>5
       DEF PluginMoved, Kept, PlantParts, CycleBacked, RunningAlive, ImageHeld,
           StoppedClean, Undisturbed
<1>37. CASE PluginStop
  <2>0. Undisturbed
    BY <1>37 DEF PluginStop, Undisturbed
  <2>1. BootQuiet'
    BY <1>0, <1>37, <2>0 DEF PluginStop, BootQuiet
  <2>2. NotDestroyed'
    BY <1>0, <1>37, <2>0 DEF PluginStop, NotDestroyed, OwnersOnCourse, Undisturbed
  <2>3. StartPrepared'
    BY <1>0, <1>37, <2>0
       DEF PluginStop, StartPrepared, OneTransition, CycleAlone, ManagersApart,
           OwnersOnCourse
  <2>4. NothingLeft'
    BY <1>0, <1>37, <2>0
       DEF PluginStop, NothingLeft, CycleAlone, ManagersApart, OneTransition, OwnersOnCourse
  <2>5. UnloadedLands'
    BY <1>0, <1>37, <2>0
       DEF PluginStop, UnloadedLands, OneTransition, ManagersApart, OwnersOnCourse
  <2> QED
    BY <1>0, <1>37, <2>0, <2>1, <2>2, <2>3, <2>4, <2>5
       DEF PluginStop, Kept, PlantParts, CycleBacked, RunningAlive, ImageHeld, StoppedClean,
           Undisturbed
<1>38. CASE PluginRequest
  <2>0. Undisturbed
    BY <1>38 DEF PluginRequest, Undisturbed
  <2>1. BootQuiet'
    BY <1>0, <1>38, <2>0 DEF PluginRequest, BootQuiet
  <2>2. NotDestroyed'
    BY <1>0, <1>38, <2>0 DEF PluginRequest, NotDestroyed, OwnersOnCourse, Undisturbed
  <2>3. StartPrepared'
    BY <1>0, <1>38, <2>0
       DEF PluginRequest, StartPrepared, OneTransition, CycleAlone, ManagersApart,
           OwnersOnCourse
  <2>4. NothingLeft'
    BY <1>0, <1>38, <2>0
       DEF PluginRequest, NothingLeft, CycleAlone, ManagersApart, OneTransition,
           OwnersOnCourse
  <2>5. UnloadedLands'
    BY <1>0, <1>38, <2>0
       DEF PluginRequest, UnloadedLands, OneTransition, ManagersApart, OwnersOnCourse
  <2> QED
    BY <1>0, <1>38, <2>0, <2>1, <2>2, <2>3, <2>4, <2>5
       DEF PluginRequest, Kept, PlantParts, CycleBacked, RunningAlive, ImageHeld,
           StoppedClean, Undisturbed
<1>39. CASE WatchdogSees
  <2>0. Undisturbed
    BY <1>39 DEF WatchdogSees, Undisturbed
  <2> QED
    BY <1>0, <1>39, <2>0
       DEF WatchdogSees, Kept, PlantParts, BootQuiet, NotDestroyed, StartPrepared,
           CycleBacked, RunningAlive, NothingLeft, UnloadedLands, ImageHeld, StoppedClean,
           Undisturbed
<1>40. CASE WatchdogForce
  BY <1>40 DEF WatchdogForce, Undisturbed
<1>41. CASE WatchdogExit
  <2>0. Undisturbed
    BY <1>41 DEF WatchdogExit, Undisturbed
  <2> QED
    BY <1>0, <1>41, <2>0
       DEF WatchdogExit, Kept, PlantParts, BootQuiet, NotDestroyed, StartPrepared,
           CycleBacked, RunningAlive, NothingLeft, UnloadedLands, ImageHeld, StoppedClean,
           Undisturbed
<1>42. CASE BootPlugins
  <2>0. Undisturbed
    BY <1>42 DEF BootPlugins, Undisturbed
  <2>1. BootQuiet'
    BY <1>0, <1>42, <2>0 DEF BootPlugins, BootQuiet
  <2>2. NotDestroyed'
    BY <1>0, <1>42, <2>0 DEF BootPlugins, NotDestroyed, OwnersOnCourse, Undisturbed
  <2>3. StartPrepared'
    BY <1>0, <1>42, <2>0
       DEF BootPlugins, StartPrepared, OneTransition, CycleAlone, ManagersApart,
           OwnersOnCourse
  <2>4. CycleBacked'
    BY <1>0, <1>42, <2>0
       DEF BootPlugins, CycleBacked, OwnersOnCourse, CycleAlone, StartPrepared,
           OneTransition, ManagersApart
  <2>5. NothingLeft'
    BY <1>0, <1>42, <2>0
       DEF BootPlugins, NothingLeft, CycleAlone, ManagersApart, OneTransition,
           OwnersOnCourse
  <2>6. UnloadedLands'
    BY <1>0, <1>42, <2>0
       DEF BootPlugins, UnloadedLands, OneTransition, ManagersApart, OwnersOnCourse
  <2>7. ImageHeld'
    BY <1>0, <1>42, <2>0
       DEF BootPlugins, ImageHeld, Undisturbed, StartPrepared, NothingLeft, BootQuiet,
           OwnersOnCourse
  <2> QED
    BY <1>0, <1>42, <2>0, <2>1, <2>2, <2>3, <2>4, <2>5, <2>6, <2>7
       DEF BootPlugins, Kept, PlantParts, RunningAlive, StoppedClean, Undisturbed
<1>43. CASE BootRelease
  <2>0. Undisturbed
    BY <1>43 DEF BootRelease, Undisturbed
  <2>1. BootQuiet'
    BY <1>0, <1>43, <2>0 DEF BootRelease, BootQuiet
  <2>2. NotDestroyed'
    BY <1>0, <1>43, <2>0 DEF BootRelease, NotDestroyed, OwnersOnCourse, Undisturbed
  <2>3. StartPrepared'
    BY <1>0, <1>43, <2>0
       DEF BootRelease, StartPrepared, OneTransition, CycleAlone, ManagersApart,
           OwnersOnCourse
  <2>4. NothingLeft'
    BY <1>0, <1>43, <2>0
       DEF BootRelease, NothingLeft, CycleAlone, ManagersApart, OneTransition,
           OwnersOnCourse
  <2>5. UnloadedLands'
    BY <1>0, <1>43, <2>0
       DEF BootRelease, UnloadedLands, OneTransition, ManagersApart, OwnersOnCourse
  <2> QED
    BY <1>0, <1>43, <2>0, <2>1, <2>2, <2>3, <2>4, <2>5
       DEF BootRelease, Kept, PlantParts, CycleBacked, RunningAlive, ImageHeld,
           StoppedClean, Undisturbed
<1>44. CASE BootRegate
  <2>0. Undisturbed
    BY <1>44 DEF BootRegate, Undisturbed
  <2>1. BootQuiet'
    BY <1>0, <1>44, <2>0 DEF BootRegate, BootQuiet
  <2>2. NotDestroyed'
    BY <1>0, <1>44, <2>0 DEF BootRegate, NotDestroyed, OwnersOnCourse, Undisturbed
  <2>3. StartPrepared'
    BY <1>0, <1>44, <2>0
       DEF BootRegate, StartPrepared, OneTransition, CycleAlone, ManagersApart,
           OwnersOnCourse
  <2>4. NothingLeft'
    BY <1>0, <1>44, <2>0
       DEF BootRegate, NothingLeft, CycleAlone, ManagersApart, OneTransition, OwnersOnCourse
  <2>5. UnloadedLands'
    BY <1>0, <1>44, <2>0
       DEF BootRegate, UnloadedLands, OneTransition, ManagersApart, OwnersOnCourse
  <2> QED
    BY <1>0, <1>44, <2>0, <2>1, <2>2, <2>3, <2>4, <2>5
       DEF BootRegate, Kept, PlantParts, CycleBacked, RunningAlive, ImageHeld, StoppedClean,
           Undisturbed
<1>45. CASE CleanupWait
  <2>0. Undisturbed
    BY <1>45 DEF CleanupWait, Undisturbed
  <2>1. BootQuiet'
    BY <1>0, <1>45, <2>0 DEF CleanupWait, BootQuiet
  <2>2. NotDestroyed'
    BY <1>0, <1>45, <2>0 DEF CleanupWait, NotDestroyed, OwnersOnCourse, Undisturbed
  <2>3. StartPrepared'
    BY <1>0, <1>45, <2>0
       DEF CleanupWait, StartPrepared, OneTransition, CycleAlone, ManagersApart,
           OwnersOnCourse
  <2>4. NothingLeft'
    BY <1>0, <1>45, <2>0
       DEF CleanupWait, NothingLeft, CycleAlone, ManagersApart, OneTransition,
           OwnersOnCourse
  <2>5. UnloadedLands'
    BY <1>0, <1>45, <2>0
       DEF CleanupWait, UnloadedLands, OneTransition, ManagersApart, OwnersOnCourse
  <2> QED
    BY <1>0, <1>45, <2>0, <2>1, <2>2, <2>3, <2>4, <2>5
       DEF CleanupWait, Kept, PlantParts, CycleBacked, RunningAlive, ImageHeld,
           StoppedClean, Undisturbed
<1>46. CASE DestroyDriver
  <2>0. Undisturbed
    BY <1>46 DEF DestroyDriver, Undisturbed
  <2> QED
    BY <1>0, <1>46, <2>0 DEF DestroyDriver, NotDestroyed
<1>47. CASE Shutdown
  BY <1>47 DEF Shutdown, Undisturbed
<1>48. CASE UNCHANGED vars
  BY <1>0, <1>48
     DEF Kept, PlantParts, Undisturbed, BootQuiet, NotDestroyed, StartPrepared, CycleBacked,
         RunningAlive, NothingLeft, UnloadedLands, ImageHeld, StoppedClean
<1> QED
  BY <1>1, <1>2, <1>3, <1>4, <1>5, <1>6, <1>7, <1>8, <1>9, <1>10, <1>11, <1>12, <1>13,
     <1>14, <1>15, <1>16, <1>17, <1>18, <1>19, <1>20, <1>21, <1>22, <1>23, <1>24, <1>25,
     <1>26, <1>27, <1>28, <1>29, <1>30, <1>31, <1>32, <1>33, <1>34, <1>35, <1>36, <1>37,
     <1>38, <1>39, <1>40, <1>41, <1>42, <1>43, <1>44, <1>45, <1>46, <1>47, <1>48
     DEF Next, Step, ThreadStep, CycleStep, MainStep, AtRest

\* The plant behind the state, in every behaviour.
LEMMA PlantAlways == Spec => [](TypeOK /\ ClaimDiscipline /\ PlantHolds)
BY TypeInit, TypeNext, DisciplineInit, DisciplineNext, PlantInit, PlantNext, PTL DEF Spec

-----------------------------------------------------------------------------
(* The theorems *)

\* RUNNING is only visible with a program mapped, an image, plugins started on it and a
\* cycle thread in its loop.
THEOREM RunningBackedHolds == Spec => []RunningBacked
<1>1. TypeOK /\ ClaimDiscipline /\ PlantHolds => RunningBacked
  BY DEF TypeOK, CycleType, ClaimDiscipline, PlantHolds, PlantParts, RunningBacked,
         RunningAlive, CycleAlone, CycleBacked, Lives
<1> QED
  BY <1>1, PlantAlways, PTL

\* STOPPED and EMPTY are only visible with the plugins stopped and no cycle thread left,
\* STOPPED with the program unloaded as well.
THEOREM StoppedCleanHolds == Spec => []StoppedClean
<1>1. PlantHolds => StoppedClean
  BY DEF PlantHolds, StoppedClean
<1> QED
  BY <1>1, PlantAlways, PTL

\* No plugin holds pointers into an image that was freed or replaced.
THEOREM ImageHeldHolds == Spec => []ImageHeld
<1>1. PlantHolds => ImageHeld
  BY DEF PlantHolds, ImageHeld
<1> QED
  BY <1>1, PlantAlways, PTL

-----------------------------------------------------------------------------
(* A fault is reported *)

\* Who may land on STOPPED: a stop that finds nothing loaded, one that lost its program,
\* or one that took it down without a fault.
LEMMA StoppedBy ==
  ASSUME [Next]_vars, plc_state # "STOPPED", plc_state' = "STOPPED"
  PROVE  \E t \in Threads : \/ pc[t] = "set" /\ plc_program = 0
                            \/ pc[t] = "un_fail"
                            \/ pc[t] = "un_land" /\ ~g_task_fault
<1>1. ASSUME NEW cmd \in SocketCommands, SocketCommand(cmd) PROVE FALSE
  BY <1>1 DEF SocketCommand
<1>2. ASSUME NEW t \in Threads, ThreadStep(t)
      PROVE  \/ pc[t] = "set" /\ plc_program = 0
             \/ pc[t] = "un_fail"
             \/ pc[t] = "un_land" /\ ~g_task_fault
  <2>1. CASE Gate(t) \/ Claim(t) \/ Spawn(t) \/ Landing(t) \/ TakeMovement(t)
             \/ Compare(t) \/ Reclaim(t) \/ Respawn(t)
    BY <2>1 DEF Gate, Claim, Spawn, Landing, TakeMovement, Compare, Reclaim, Respawn,
                Direction
  <2>2. CASE EndTransition(t)
    BY <2>2 DEF EndTransition
  <2>3. CASE FindProgram(t) \/ LoadProgram(t) \/ LoadPlugins(t) \/ InitPlugins(t)
             \/ CreateCycle(t)
    BY <2>3 DEF FindProgram, LoadProgram, LoadPlugins, InitPlugins, CreateCycle,
                FailStart, Landed
  <2>4. CASE DropManager(t) \/ Fallback(t) \/ FallbackPublish(t) \/ SetStopped(t)
    BY <2>4 DEF DropManager, Fallback, FallbackPublish, SetStopped, Landed
  <2>5. CASE UnloadLock(t) \/ UnloadFail(t) \/ UnloadPublish(t) \/ UnloadJoin(t)
             \/ UnloadTear(t) \/ UnloadLand(t)
    BY <2>5 DEF UnloadLock, UnloadFail, UnloadPublish, UnloadJoin, UnloadTear,
                UnloadLand, Landed
  <2> QED
    BY <1>2, <2>1, <2>2, <2>3, <2>4, <2>5 DEF ThreadStep
<1>3. ASSUME NEW c \in Cycles, CycleStep(c) PROVE FALSE
  <2>1. CASE CycleBoot(c) \/ CycleStartPlugins(c) \/ CycleSpawnTasks(c) \/ CycleRun(c)
    BY <2>1 DEF CycleBoot, CycleStartPlugins, CycleSpawnTasks, CycleRun, CycleError
  <2>2. CASE CyclePublish(c) \/ CycleTrip(c) \/ CycleDrain(c) \/ CycleAsync(c)
             \/ CycleReap(c)
    BY <2>2 DEF CyclePublish, CycleTrip, CycleDrain, CycleAsync, CycleReap, CycleError
  <2> QED
    BY <1>3, <2>1, <2>2 DEF CycleStep
<1>4. ~(\/ PluginFlip \/ PluginMoved \/ PluginStop \/ PluginRequest
        \/ WatchdogSees \/ WatchdogForce \/ WatchdogExit \/ MainStep \/ Shutdown)
  BY DEF PluginFlip, PluginMoved, PluginStop, PluginRequest, WatchdogSees, WatchdogForce,
         WatchdogExit, MainStep, BootPlugins, BootRelease, BootRegate, CleanupWait,
         DestroyDriver, Shutdown
<1>5. ~UNCHANGED vars
  OBVIOUS
<1> QED
  BY <1>1, <1>2, <1>3, <1>4, <1>5 DEF Next, Step, AtRest

\* A run in which a task had to be aborted never lands on STOPPED.
THEOREM FaultReportedHolds == Spec => FaultReported
<1>1. TypeOK /\ ClaimDiscipline /\ PlantHolds /\ [Next]_vars
        => [g_task_fault /\ plc_state # "STOPPED" /\ Undisturbed => plc_state' # "STOPPED"]_vars
  <2> SUFFICES ASSUME ClaimDiscipline, PlantHolds, [Next]_vars,
                      g_task_fault, plc_state # "STOPPED", Undisturbed, plc_state' = "STOPPED"
               PROVE  FALSE
    OBVIOUS
  <2>1. OneTransition /\ NothingLeft /\ UnloadedLands
    BY DEF ClaimDiscipline, PlantHolds, PlantParts
  <2>2. PICK t \in Threads : \/ pc[t] = "set" /\ plc_program = 0
                             \/ pc[t] = "un_fail"
                             \/ pc[t] = "un_land" /\ ~g_task_fault
    BY StoppedBy
  <2>3. pc[t] \in {"set", "un_fail"} /\ plc_program = 0
    BY <2>1, <2>2 DEF UnloadedLands
  <2>4. PICK u \in Threads : pc[u] = "un_land"
    BY <2>1, <2>3 DEF NothingLeft
  <2>5. t = u
    BY <2>1, <2>3, <2>4 DEF OneTransition, Owns, Body, StopBody
  <2> QED
    BY <2>3, <2>4, <2>5
<1> QED
  BY <1>1, PlantAlways, PTL DEF Spec, FaultReported
=============================================================================
