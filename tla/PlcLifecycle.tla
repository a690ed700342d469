---------------------------- MODULE PlcLifecycle ----------------------------
(***************************************************************************)
(* The life cycle of the PLC program inside plc_main: who may change       *)
(* plc_state, what a start and a stop do, and how the mode switch, the     *)
(* watchdog, a task fault and the process shutdown interfere with them.    *)
(*                                                                         *)
(* Threads: the command-socket thread, a plugin thread that owns the mode  *)
(* switch, the main thread, the detached transition workers and the cycle  *)
(* threads (plc_cycle_thread, one per start).  One action is the code      *)
(* between two points where another thread can be observed: a critical     *)
(* section of state_mutex, one atomic access, one blocking call.           *)
(*                                                                         *)
(* Data is reduced to what the properties tell apart.  The program manager *)
(* is a generation number (0 is NULL), the set of plugins is one plugin    *)
(* (started or not, and which image its init() copied the base pointers    *)
(* of), and every call that can fail does so nondeterministically, at most *)
(* MaxFaults times in a behaviour.                                         *)
(***************************************************************************)
EXTENDS Naturals, Sequences

CONSTANTS
  Workers,         \* transition_worker thread slots
  Cycles,          \* plc_cycle_thread slots
  NoThread,        \* unload_mutex is free
  SocketCommands,  \* the commands the socket client sends: START, STOP
  SlowCalls,       \* may a call outlive the landing wait and the watchdog?
  Sigterm,         \* may the process be told to shut down?
  BootFlips,       \* may the mode switch move before the boot is over?
  MaxRequests,     \* bound on socket commands and plugin stop requests
  MaxFlips,        \* bound on movements of the mode switch
  MaxFaults        \* bound on failing calls, crashes and task faults

Threads == {"socket", "plugin", "main"} \cup Workers

ASSUME ThreadAssumption ==
  /\ {"socket", "plugin", "main"} \cap Workers = {}
  /\ NoThread \notin Threads \cup Cycles

ASSUME BoundAssumption ==
  /\ SocketCommands \subseteq {"START", "STOP"}
  /\ SlowCalls \in BOOLEAN /\ Sigterm \in BOOLEAN /\ BootFlips \in BOOLEAN
  /\ MaxRequests \in Nat /\ MaxFlips \in Nat /\ MaxFaults \in Nat

VARIABLES
  plc_state,          \* the atomic every reader loads, written under state_mutex
  plc_program,        \* generation of the current PluginManager, 0 for NULL
  managers,           \* how many PluginManagers were created
  dlopened,           \* the current manager's .so is mapped
  plc_thread,         \* the handle of the last cycle thread created
  running,            \* plugin_instance_t.running
  held,               \* whose base pointers the plugin copied at init()
  image,              \* the image tables are allocated
  g_task_fault,       \* a task had to be aborted or tripped the dispatcher
  switch_position,    \* RUN or STOP
  switch_moved,       \* movement not yet reconciled
  plc_requests_held,  \* plugin requests are dropped (boot)
  keep_running,       \* cleared by SIGTERM and SIGINT
  unload_mutex,       \* the thread inside unload_plc_program
  join_handle,        \* the cycle thread it waits for
  pc, target, pm, result, frames,   \* per thread
  cyc, fault_stop_claimed,          \* per cycle thread
  wd,                 \* watchdog: idle, or about to force ERROR
  exited,             \* the process is gone
  requests, flips, faults,          \* what the three bounds count
  disturbed           \* history: the claim discipline was broken (see Disturbs)

locals  == <<target, pm, result, frames>>
program == <<plc_program, managers, dlopened>>
plugin  == <<running, held, image>>
switch  == <<switch_position, switch_moved, plc_requests_held>>
cycle   == <<plc_thread, cyc, fault_stop_claimed, join_handle>>
process == <<keep_running, exited, wd>>
counts  == <<requests, flips, faults>>
vars == <<plc_state, program, plugin, g_task_fault, switch, unload_mutex, pc,
          locals, cycle, process, counts, disturbed>>

Transitioning == {"TO_RUN", "TO_STOP"}
States == {"RUNNING", "STOPPED", "ERROR", "EMPTY"} \cup Transitioning

\* Where a thread is inside the body of a claimed transition, before it lands.
StartBody == {"load", "plugins", "pinit", "create"}
StopBody  == {"un_lock", "un_fail", "un_pub", "un_join", "un_tear", "un_land"}
Body      == {"spawn", "respawn", "set"} \cup StartBody \cup StopBody
ThreadPCs == {"idle", "moved", "request", "gate", "claim", "landing", "recon",
              "compare", "reclaim", "end", "boot", "release", "release_held",
              "regate", "up", "wait", "destroy", "closed", "drop", "fallback",
              "fallback_pub"} \cup Body

\* Where a cycle thread is.  BringUp ends with the publication of RUNNING.
BringUp  == {"boot", "pstart", "tasks", "pub"}
CyclePCs == {"none", "run", "trip", "drain", "async", "reap", "done"} \cup BringUp

Goto(t, l)  == pc' = [pc EXCEPT ![t] = l]
CGoto(c, l) == cyc' = [cyc EXCEPT ![c] = l]
Set(f, t, v) == [f EXCEPT ![t] = v]

\* One more of the failures the environment may still inject.
Fault == faults < MaxFaults /\ faults' = faults + 1
NoFault == UNCHANGED faults

\* pthread_create of a transition_worker fails, by chance or because the bound on
\* worker threads is reached.
NoWorker == Fault \/ (NoFault /\ \A w \in Workers : pc[w] # "idle")

-----------------------------------------------------------------------------
(* plc_claim_transition, plc_publish_final_state *)

Direction(tg) == IF tg = "RUNNING" THEN "TO_RUN" ELSE "TO_STOP"

\* Seeded fault: the claim forgets that a transition may be in flight.
ClaimableAnyTime(tg) == plc_state # tg

\* A request is dropped while a transition is in flight, and when it asks for
\* the state the runtime is in.
Claimable(tg) == plc_state \notin Transitioning \cup {tg}

\* Seeded fault: the last landing wins.
LandedLast(final) == final

\* ERROR outranks a STOPPED landing.
Landed(final) == IF plc_state = "ERROR" /\ final = "STOPPED" THEN "ERROR" ELSE final

\* A start claimed while a program is still loaded has to tear down plugins that
\* its predecessor left behind.
Disturbs(tg) == tg = "RUNNING" /\ plc_program # 0

\* Where a thread goes when the request it was serving is over.
Return(t) == IF t = "main" THEN (IF plc_requests_held THEN "release" ELSE "up")
             ELSE IF t = "socket" /\ ~keep_running THEN "closed" ELSE "idle"

-----------------------------------------------------------------------------
Init ==
  /\ plc_state = "STOPPED"
  /\ plc_program = 0 /\ managers = 0 /\ dlopened = FALSE
  /\ running = FALSE /\ held = "none" /\ image = TRUE
  /\ g_task_fault = FALSE
  /\ switch_position = "RUN" /\ switch_moved = FALSE /\ plc_requests_held = TRUE
  /\ keep_running = TRUE /\ exited = FALSE /\ wd = "idle"
  /\ unload_mutex = NoThread /\ join_handle = NoThread
  /\ pc = [t \in Threads |-> IF t = "main" THEN "boot" ELSE "idle"]
  /\ target = [t \in Threads |-> "STOPPED"]
  /\ pm = [t \in Threads |-> 0]
  /\ result = [t \in Threads |-> FALSE]
  /\ frames = [t \in Threads |-> <<>>]
  /\ plc_thread \in Cycles
  /\ cyc = [c \in Cycles |-> "none"]
  /\ fault_stop_claimed = [c \in Cycles |-> FALSE]
  /\ requests = 0 /\ flips = 0 /\ faults = 0
  /\ disturbed = FALSE

-----------------------------------------------------------------------------
(* Requests *)

\* handle_unix_socket_commands: START and STOP.  The BUSY answer, the refusals
\* and the read-only commands change nothing.  The socket exists once the boot
\* plugins are initialised.
SocketCommand(cmd) ==
  /\ pc["socket"] = "idle" /\ pc["main"] # "boot"
  /\ requests < MaxRequests
  /\ plc_state \notin Transitioning
  /\ \/ /\ cmd = "START" /\ plc_state # "RUNNING"
        /\ target' = Set(target, "socket", "RUNNING")
        /\ Goto("socket", "gate")
     \/ /\ cmd = "STOP" /\ plc_state = "RUNNING"
        /\ target' = Set(target, "socket", "STOPPED")
        /\ Goto("socket", "claim")
  /\ requests' = requests + 1
  /\ UNCHANGED <<plc_state, program, plugin, g_task_fault, switch, unload_mutex,
                 pm, result, frames, cycle, process, flips, faults, disturbed>>

\* plc_set_switch_position, first half: the exchange of the position.  By the
\* plugin contract the matching request follows the store.
PluginFlip ==
  /\ pc["plugin"] = "idle"
  /\ flips < MaxFlips
  /\ BootFlips \/ ~plc_requests_held
  /\ switch_position' = IF switch_position = "RUN" THEN "STOP" ELSE "RUN"
  /\ target' = Set(target, "plugin", IF switch_position = "RUN" THEN "STOPPED" ELSE "RUNNING")
  /\ flips' = flips + 1
  /\ Goto("plugin", "moved")
  /\ UNCHANGED <<plc_state, program, plugin, g_task_fault, switch_moved,
                 plc_requests_held, unload_mutex, pm, result, frames, cycle,
                 process, requests, faults, disturbed>>

\* Second half: the edge is recorded.
PluginMoved ==
  /\ pc["plugin"] = "moved"
  /\ switch_moved' = TRUE
  /\ Goto("plugin", "request")
  /\ UNCHANGED <<plc_state, program, plugin, g_task_fault, switch_position,
                 plc_requests_held, unload_mutex, locals, cycle, process, counts,
                 disturbed>>

\* A plugin asks for a stop of its own accord, with the switch untouched.
PluginStop ==
  /\ pc["plugin"] = "idle"
  /\ requests < MaxRequests
  /\ target' = Set(target, "plugin", "STOPPED")
  /\ requests' = requests + 1
  /\ Goto("plugin", "request")
  /\ UNCHANGED <<plc_state, program, plugin, g_task_fault, switch, unload_mutex,
                 pm, result, frames, cycle, process, flips, faults, disturbed>>

\* plugin_request_plc_start and _stop: dropped while the boot holds requests.
PluginRequest ==
  /\ pc["plugin"] = "request"
  /\ Goto("plugin", IF plc_requests_held THEN "idle"
                    ELSE IF target["plugin"] = "RUNNING" THEN "gate" ELSE "claim")
  /\ UNCHANGED <<plc_state, program, plugin, g_task_fault, switch, unload_mutex,
                 locals, cycle, process, counts, disturbed>>

\* plc_switch_allows_run, the gate of every start path.
Gate(t) ==
  /\ pc[t] = "gate"
  /\ Goto(t, IF switch_position = "RUN" THEN "claim"
             ELSE IF t = "main" THEN "release_held" ELSE Return(t))
  /\ UNCHANGED <<plc_state, program, plugin, g_task_fault, switch, unload_mutex,
                 locals, cycle, process, counts, disturbed>>

\* plc_claim_transition under state_mutex.
Claim(t) ==
  /\ pc[t] = "claim"
  /\ IF Claimable(target[t])
     THEN /\ plc_state' = Direction(target[t])
          /\ disturbed' = (disturbed \/ Disturbs(target[t]))
          /\ Goto(t, "spawn")
     ELSE Goto(t, Return(t)) /\ UNCHANGED <<plc_state, disturbed>>
  /\ UNCHANGED <<program, plugin, g_task_fault, switch, unload_mutex, locals,
                 cycle, process, counts>>

\* spawn_transition_worker.  A worker that cannot be created leaves the
\* transition to the calling thread.
Spawn(t) ==
  /\ pc[t] = "spawn"
  /\ \/ \E w \in Workers :
          /\ pc[w] = "idle"
          /\ pc' = [pc EXCEPT ![w] = "set", ![t] = Return(t)]
          /\ target' = Set(target, w, target[t])
          /\ NoFault
     \/ NoWorker /\ Goto(t, "set") /\ UNCHANGED target
  /\ UNCHANGED <<plc_state, program, plugin, g_task_fault, switch, unload_mutex,
                 pm, result, frames, cycle, process, requests, flips, disturbed>>

-----------------------------------------------------------------------------
(* plc_set_state(RUNNING): load_plc_program up to pthread_create *)

\* Seeded fault: a failing start publishes PLC_STATE_INIT.
FailStartInit(t, final) ==
  plc_state' = "INIT" /\ result' = Set(result, t, FALSE) /\ Goto(t, "drop") /\ Fault

\* A start that fails publishes its landing first ...
FailStart(t, final) ==
  /\ plc_state' = final
  /\ result' = Set(result, t, FALSE)
  /\ Goto(t, "drop")
  /\ Fault

\* ... and only then drops the manager it was given.
DropManager(t) ==
  /\ pc[t] = "drop"
  /\ IF pm[t] = plc_program
     THEN plc_program' = 0 /\ dlopened' = FALSE
     ELSE UNCHANGED <<plc_program, dlopened>>
  /\ Goto(t, "fallback")
  /\ UNCHANGED <<plc_state, managers, plugin, g_task_fault, switch, unload_mutex,
                 locals, cycle, process, counts, disturbed>>

\* plc_set_state, should load_plc_program have failed without a landing: what it
\* reads as in progress can only be the claim of somebody else.
Fallback(t) ==
  /\ pc[t] = "fallback"
  /\ Goto(t, IF plc_state \in Transitioning THEN "fallback_pub" ELSE "landing")
  /\ UNCHANGED <<plc_state, program, plugin, g_task_fault, switch, unload_mutex,
                 locals, cycle, process, counts, disturbed>>

FallbackPublish(t) ==
  /\ pc[t] = "fallback_pub"
  /\ plc_state' = Landed("ERROR") /\ disturbed' = TRUE
  /\ Goto(t, "landing")
  /\ UNCHANGED <<program, plugin, g_task_fault, switch, unload_mutex, locals, cycle,
                 process, counts>>

\* No manager yet: find_libplc_file and plugin_manager_create, or EMPTY.
FindProgram(t) ==
  /\ pc[t] = "set" /\ target[t] = "RUNNING"
  /\ \/ /\ plc_program = 0
        /\ plc_program' = managers + 1 /\ managers' = managers + 1
        /\ dlopened' = FALSE
        /\ pm' = Set(pm, t, managers + 1)
        /\ Goto(t, "load") /\ NoFault
        /\ UNCHANGED <<plc_state, result>>
     \/ /\ plc_program # 0
        /\ pm' = Set(pm, t, plc_program)
        /\ Goto(t, "load") /\ NoFault
        /\ UNCHANGED <<plc_state, program, result>>
     \/ /\ plc_program = 0
        /\ plc_state' = Landed("EMPTY")
        /\ result' = Set(result, t, FALSE)
        /\ Goto(t, "landing") /\ Fault
        /\ UNCHANGED <<program, pm>>
  /\ UNCHANGED <<plugin, g_task_fault, switch, unload_mutex, target, frames,
                 cycle, process, requests, flips, disturbed>>

\* plugin_manager_load: the .so is mapped, unless it already is.
LoadProgram(t) ==
  /\ pc[t] = "load"
  /\ \/ /\ dlopened' = TRUE /\ Goto(t, "plugins") /\ NoFault
        /\ UNCHANGED <<plc_state, result>>
     \/ ~dlopened /\ FailStart(t, "EMPTY") /\ UNCHANGED dlopened
  /\ UNCHANGED <<plc_program, managers, plugin, g_task_fault, switch, unload_mutex, target, pm,
                 frames, cycle, process, requests, flips, disturbed>>

\* teardown_plugin_instance refuses a plugin that is still running.
TornDown == IF running THEN held ELSE "none"

\* The image was reallocated under a plugin that copied the old pointers.
Stale(h) == IF h = "none" THEN "none" ELSE "stale"

\* plugin_driver_update_config and _append_config tear the old plugins down and
\* load the configured ones; then image_tables_alloc replaces the image.  It can
\* fail before the teardown (parsing) or after it (second file, allocation).
LoadPlugins(t) ==
  /\ pc[t] = "plugins"
  /\ \/ /\ held' = Stale(TornDown) /\ image' = TRUE
        /\ Goto(t, "pinit") /\ NoFault
        /\ UNCHANGED <<plc_state, result>>
     \/ FailStart(t, "ERROR") /\ UNCHANGED <<held, image>>
     \/ FailStart(t, "ERROR") /\ held' = TornDown /\ UNCHANGED image
  /\ UNCHANGED <<program, running, g_task_fault, switch, unload_mutex, target, pm,
                 frames, cycle, process, requests, flips, disturbed>>

\* plugin_driver_init copies the base pointers into the plugin.  A failure rolls
\* back with plugin_driver_cleanup_init and frees the image.
InitPlugins(t) ==
  /\ pc[t] = "pinit"
  /\ \/ /\ held' = "current" /\ Goto(t, "create") /\ NoFault
        /\ UNCHANGED <<plc_state, image, result>>
     \/ FailStart(t, "ERROR") /\ held' = "none" /\ image' = FALSE
  /\ UNCHANGED <<program, running, g_task_fault, switch, unload_mutex, target, pm,
                 frames, cycle, process, requests, flips, disturbed>>

\* pthread_create of plc_cycle_thread.  The landing is now the cycle thread's.
CreateCycle(t) ==
  /\ pc[t] = "create"
  /\ \/ /\ \E c \in Cycles :
             /\ cyc[c] \in {"none", "done"} /\ c # join_handle
             /\ plc_thread' = c /\ CGoto(c, "boot")
             /\ fault_stop_claimed' = Set(fault_stop_claimed, c, FALSE)
        /\ result' = Set(result, t, TRUE)
        /\ Goto(t, "landing") /\ NoFault
        /\ UNCHANGED <<plc_state, held, image, join_handle>>
     \/ FailStart(t, "ERROR") /\ held' = "none" /\ image' = FALSE /\ UNCHANGED cycle
  /\ UNCHANGED <<program, running, g_task_fault, switch, unload_mutex, target, pm,
                 frames, process, requests, flips, disturbed>>

-----------------------------------------------------------------------------
(* plc_set_state(STOPPED): unload_plc_program *)

SetStopped(t) ==
  /\ pc[t] = "set" /\ target[t] = "STOPPED"
  /\ IF plc_program = 0
     THEN /\ plc_state' = Landed("STOPPED")
          /\ result' = Set(result, t, TRUE)
          /\ Goto(t, "landing") /\ UNCHANGED pm
     ELSE /\ pm' = Set(pm, t, plc_program)
          /\ Goto(t, "un_lock") /\ UNCHANGED <<plc_state, result>>
  /\ UNCHANGED <<program, plugin, g_task_fault, switch, unload_mutex, target, frames,
                 cycle, process, counts, disturbed>>

\* unload_mutex serialises unloads; the second one finds nothing to do.
UnloadLock(t) ==
  /\ pc[t] = "un_lock"
  /\ unload_mutex = NoThread
  /\ IF pm[t] = plc_program
     THEN unload_mutex' = t /\ Goto(t, "un_pub")
     ELSE Goto(t, "un_fail") /\ UNCHANGED unload_mutex
  /\ UNCHANGED <<plc_state, program, plugin, g_task_fault, switch, locals, cycle,
                 process, counts, disturbed>>

\* Seeded fault: the unload at shutdown ends like the unload of a request.
AfterUnloadRequest(t) == "landing"

\* Where main, which unloads at shutdown, goes on with destroying the driver.
AfterUnload(t) == IF t = "main" /\ ~keep_running THEN "destroy" ELSE "landing"

\* The failure branch of plc_set_state: nothing is loaded, so STOPPED is honest.
\* The shutdown path ignores the return code of unload_plc_program.
UnloadFail(t) ==
  /\ pc[t] = "un_fail"
  /\ plc_state' = IF AfterUnload(t) = "landing" /\ plc_state \in Transitioning
                  THEN Landed("STOPPED") ELSE plc_state
  /\ result' = Set(result, t, FALSE)
  /\ Goto(t, AfterUnload(t))
  /\ UNCHANGED <<program, plugin, g_task_fault, switch, unload_mutex, target, pm,
                 frames, cycle, process, counts, disturbed>>

\* TRANSITIONING_TO_STOP breaks the dispatcher out of its loop; ERROR survives.
\* pthread_join is called on the handle as it is now, which may name no thread.
UnloadPublish(t) ==
  /\ pc[t] = "un_pub"
  /\ plc_state' = IF plc_state = "ERROR" THEN "ERROR" ELSE "TO_STOP"
  /\ disturbed' = (disturbed \/ plc_state \in {"TO_RUN", "STOPPED", "EMPTY"})
  /\ join_handle' = IF cyc[plc_thread] = "none" THEN NoThread ELSE plc_thread
  /\ Goto(t, "un_join")
  /\ UNCHANGED <<program, plugin, g_task_fault, switch, unload_mutex, locals,
                 plc_thread, cyc, fault_stop_claimed, process, counts>>

\* Seeded fault: the unload does not wait for the cycle thread.
UnloadJoinDetached(t) ==
  /\ pc[t] = "un_join"
  /\ join_handle' = NoThread
  /\ Goto(t, "un_tear")
  /\ UNCHANGED <<plc_state, program, plugin, g_task_fault, switch, unload_mutex,
                 locals, plc_thread, cyc, fault_stop_claimed, process, counts, disturbed>>

\* pthread_join(plc_thread).
UnloadJoin(t) ==
  /\ pc[t] = "un_join"
  /\ \/ join_handle = NoThread /\ UNCHANGED cyc
     \/ \E c \in Cycles : join_handle = c /\ cyc[c] = "done" /\ CGoto(c, "none")
  /\ join_handle' = NoThread
  /\ Goto(t, "un_tear")
  /\ UNCHANGED <<plc_state, program, plugin, g_task_fault, switch, unload_mutex,
                 locals, plc_thread, fault_stop_claimed, process, counts, disturbed>>

\* Seeded faults: plugin_driver_stop, or plugin_driver_cleanup_init, is left out.
UnloadTearStarted(t) ==
  /\ pc[t] = "un_tear"
  /\ held' = "none" /\ image' = FALSE
  /\ plc_program' = 0 /\ dlopened' = FALSE
  /\ Goto(t, "un_land")
  /\ UNCHANGED <<plc_state, managers, running, g_task_fault, switch, unload_mutex,
                 locals, cycle, process, counts, disturbed>>

UnloadTearInitialised(t) ==
  /\ pc[t] = "un_tear"
  /\ running' = FALSE /\ image' = FALSE
  /\ plc_program' = 0 /\ dlopened' = FALSE
  /\ Goto(t, "un_land")
  /\ UNCHANGED <<plc_state, managers, held, g_task_fault, switch, unload_mutex, locals,
                 cycle, process, counts, disturbed>>

\* Flush retained values, stop the plugins, close the journal, undo init(), free
\* the image, destroy the manager.
UnloadTear(t) ==
  /\ pc[t] = "un_tear"
  /\ running' = FALSE /\ held' = "none" /\ image' = FALSE
  /\ plc_program' = 0 /\ dlopened' = FALSE
  /\ Goto(t, "un_land")
  /\ UNCHANGED <<plc_state, managers, g_task_fault, switch, unload_mutex, locals,
                 cycle, process, counts, disturbed>>

\* Seeded fault: the fault of an aborted task is forgotten.
UnloadLandClean(t) ==
  /\ pc[t] = "un_land"
  /\ plc_state' = Landed("STOPPED")
  /\ g_task_fault' = FALSE
  /\ unload_mutex' = NoThread
  /\ result' = Set(result, t, TRUE)
  /\ Goto(t, AfterUnload(t))
  /\ UNCHANGED <<program, plugin, switch, target, pm, frames, cycle, process, counts,
                 disturbed>>

\* An aborted task makes the stop a fault.
UnloadLand(t) ==
  /\ pc[t] = "un_land"
  /\ plc_state' = IF g_task_fault THEN "ERROR" ELSE Landed("STOPPED")
  /\ g_task_fault' = FALSE
  /\ unload_mutex' = NoThread
  /\ result' = Set(result, t, TRUE)
  /\ Goto(t, AfterUnload(t))
  /\ UNCHANGED <<program, plugin, switch, target, pm, frames, cycle, process, counts,
                 disturbed>>

-----------------------------------------------------------------------------
(* run_transition: wait for the landing, reconcile with the mode switch *)

\* Seeded fault: the switch is reconciled as soon as plc_set_state returns.
LandingEarly(t) ==
  /\ pc[t] = "landing"
  /\ Goto(t, "recon")
  /\ UNCHANGED <<plc_state, program, plugin, g_task_fault, switch, unload_mutex,
                 locals, cycle, process, counts, disturbed>>

\* Wait for whoever publishes the final state, for 90 s at most.
Landing(t) ==
  /\ pc[t] = "landing"
  /\ plc_state \notin Transitioning \/ SlowCalls
  /\ Goto(t, "recon")
  /\ UNCHANGED <<plc_state, program, plugin, g_task_fault, switch, unload_mutex,
                 locals, cycle, process, counts, disturbed>>

\* plc_switch_take_movement.
TakeMovement(t) ==
  /\ pc[t] = "recon"
  /\ switch_moved' = FALSE
  /\ Goto(t, IF switch_moved THEN "compare" ELSE "end")
  /\ UNCHANGED <<plc_state, program, plugin, g_task_fault, switch_position,
                 plc_requests_held, unload_mutex, locals, cycle, process, counts,
                 disturbed>>

Wanted == IF switch_position = "RUN" THEN "RUNNING" ELSE "STOPPED"

\* Only a clean landing that disagrees with the switch is corrected.
Compare(t) ==
  /\ pc[t] = "compare"
  /\ IF plc_state \in {"RUNNING", "STOPPED"} /\ plc_state # Wanted
     THEN /\ target' = Set(target, t, Wanted)
          /\ Goto(t, "reclaim")
     ELSE Goto(t, "end") /\ UNCHANGED target
  /\ UNCHANGED <<plc_state, program, plugin, g_task_fault, switch, unload_mutex, pm,
                 result, frames, cycle, process, counts, disturbed>>

\* The correction's own claim; a refusal puts the movement record back.
Reclaim(t) ==
  /\ pc[t] = "reclaim"
  /\ IF Claimable(target[t])
     THEN /\ plc_state' = Direction(target[t])
          /\ disturbed' = (disturbed \/ Disturbs(target[t]))
          /\ Goto(t, "respawn") /\ UNCHANGED switch_moved
     ELSE /\ switch_moved' = TRUE
          /\ Goto(t, "end") /\ UNCHANGED <<plc_state, disturbed>>
  /\ UNCHANGED <<program, plugin, g_task_fault, switch_position, plc_requests_held,
                 unload_mutex, locals, cycle, process, counts>>

Respawn(t) ==
  /\ pc[t] = "respawn"
  /\ \/ \E w \in Workers :
          /\ pc[w] = "idle"
          /\ pc' = [pc EXCEPT ![w] = "set", ![t] = "end"]
          /\ target' = Set(target, w, target[t])
          /\ NoFault /\ UNCHANGED frames
     \/ /\ NoWorker /\ Goto(t, "set")
        /\ frames' = Set(frames, t, Append(frames[t], result[t]))
        /\ UNCHANGED target
  /\ UNCHANGED <<plc_state, program, plugin, g_task_fault, switch, unload_mutex, pm,
                 result, cycle, process, requests, flips, disturbed>>

\* Return from run_transition, whose locals are gone.  A correction that ran on
\* this very thread returns into the run_transition that asked for it, which
\* re-arms the record when the correction failed.
EndTransition(t) ==
  /\ pc[t] = "end"
  /\ pm' = Set(pm, t, 0)
  /\ IF frames[t] = <<>>
     THEN /\ Goto(t, Return(t))
          /\ result' = Set(result, t, FALSE)
          /\ UNCHANGED <<frames, switch_moved>>
     ELSE /\ switch_moved' = (switch_moved \/ ~result[t])
          /\ result' = Set(result, t, frames[t][Len(frames[t])])
          /\ frames' = Set(frames, t, SubSeq(frames[t], 1, Len(frames[t]) - 1))
          /\ UNCHANGED pc
  /\ UNCHANGED <<plc_state, program, plugin, g_task_fault, switch_position,
                 plc_requests_held, unload_mutex, target, cycle, process, counts,
                 disturbed>>

-----------------------------------------------------------------------------
(* plc_cycle_thread: bring-up, dispatch loop, teardown *)

\* ERROR, written by the cycle thread whatever the state is.  Overwriting a stop
\* in flight, or another start's claim, is a disturbance.
CycleError(c) ==
  /\ plc_state' = "ERROR"
  /\ disturbed' = (disturbed \/ plc_state = "TO_STOP" \/ c # plc_thread)

\* Seeded fault: a failed bring-up ends without a final state.
CycleBootSilent(c) ==
  /\ cyc[c] = "boot"
  /\ g_task_fault' = FALSE
  /\ \/ CGoto(c, "pstart") /\ NoFault
     \/ CGoto(c, "done") /\ Fault
  /\ UNCHANGED <<plc_state, disturbed, program, plugin, switch, unload_mutex, pc,
                 locals, plc_thread, fault_stop_claimed, join_handle, process,
                 requests, flips>>

\* Symbols, located variables, retain, journal; the fault flag is reset first.
CycleBoot(c) ==
  /\ cyc[c] = "boot"
  /\ g_task_fault' = FALSE
  /\ \/ CGoto(c, "pstart") /\ NoFault /\ UNCHANGED <<plc_state, disturbed>>
     \/ CycleError(c) /\ CGoto(c, "done") /\ Fault
  /\ UNCHANGED <<program, plugin, switch, unload_mutex, pc, locals, plc_thread,
                 fault_stop_claimed, join_handle, process, requests, flips>>

\* plugin_driver_start.
CycleStartPlugins(c) ==
  /\ cyc[c] = "pstart"
  /\ running' = TRUE
  /\ CGoto(c, "tasks")
  /\ UNCHANGED <<plc_state, program, held, image, g_task_fault, switch, unload_mutex,
                 pc, locals, plc_thread, fault_stop_claimed, join_handle, process, counts, disturbed>>

\* Task list and task threads.  A configuration without tasks, a failed
\* allocation or thread creation, or a crash publishes ERROR before it reaps.
CycleSpawnTasks(c) ==
  /\ cyc[c] = "tasks"
  /\ \/ CGoto(c, "pub") /\ NoFault /\ UNCHANGED <<plc_state, disturbed>>
     \/ CycleError(c) /\ CGoto(c, "reap") /\ Fault
  /\ UNCHANGED <<program, plugin, g_task_fault, switch, unload_mutex, pc, locals,
                 plc_thread, fault_stop_claimed, join_handle, process, requests, flips>>

\* plc_publish_running_if_claimed.
CyclePublish(c) ==
  /\ cyc[c] = "pub"
  /\ IF plc_state = "TO_RUN"
     THEN plc_state' = "RUNNING" /\ CGoto(c, "run")
     ELSE CGoto(c, "reap") /\ UNCHANGED plc_state
  /\ UNCHANGED <<program, plugin, g_task_fault, switch, unload_mutex, pc, locals,
                 plc_thread, fault_stop_claimed, join_handle, process, counts, disturbed>>

\* Seeded fault: a crash that is not published.
CycleRunSilent(c) ==
  /\ cyc[c] = "run"
  /\ \/ plc_state # "RUNNING" /\ CGoto(c, "drain") /\ NoFault
     \/ CGoto(c, "reap") /\ Fault
  /\ UNCHANGED <<plc_state, disturbed, g_task_fault, program, plugin, switch,
                 unload_mutex, pc, locals, plc_thread, fault_stop_claimed,
                 join_handle, process, requests, flips>>

\* The dispatch loop ends when it no longer reads RUNNING, when a task is stuck,
\* or in the bootstrap crash handler.
CycleRun(c) ==
  /\ cyc[c] = "run"
  /\ \/ /\ plc_state # "RUNNING"
        /\ CGoto(c, "drain") /\ NoFault
        /\ UNCHANGED <<plc_state, disturbed, g_task_fault>>
     \/ /\ g_task_fault' = TRUE /\ CGoto(c, "trip") /\ Fault
        /\ UNCHANGED <<plc_state, disturbed>>
     \/ /\ CycleError(c) /\ CGoto(c, "reap") /\ Fault
        /\ UNCHANGED g_task_fault
  /\ UNCHANGED <<program, plugin, switch, unload_mutex, pc, locals, plc_thread,
                 fault_stop_claimed, join_handle, process, requests, flips>>

\* The dispatcher claims the stop itself, so that no command lands mid-drain.
CycleTrip(c) ==
  /\ cyc[c] = "trip"
  /\ CGoto(c, "drain")
  /\ fault_stop_claimed' = Set(fault_stop_claimed, c, Claimable("STOPPED"))
  /\ plc_state' = IF Claimable("STOPPED") THEN "TO_STOP" ELSE plc_state
  /\ UNCHANGED <<program, plugin, g_task_fault, switch, unload_mutex, pc, locals,
                 plc_thread, join_handle, process, counts, disturbed>>

\* reap_task_threads and plc_outputs_off.  The reap may have to abort a task, a
\* plugin hook of the last I/O frame may crash, with or without an abort before.
CycleDrain(c) ==
  /\ cyc[c] = "drain"
  /\ \/ /\ CGoto(c, IF fault_stop_claimed[c] THEN "async" ELSE "done")
        /\ NoFault /\ UNCHANGED <<plc_state, disturbed, g_task_fault>>
     \/ /\ CGoto(c, IF fault_stop_claimed[c] THEN "async" ELSE "done")
        /\ g_task_fault' = TRUE /\ Fault /\ UNCHANGED <<plc_state, disturbed>>
     \/ /\ CycleError(c) /\ CGoto(c, "done") /\ Fault
        /\ (UNCHANGED g_task_fault \/ g_task_fault' = TRUE)
  /\ UNCHANGED <<program, plugin, switch, unload_mutex, pc, locals, plc_thread,
                 fault_stop_claimed, join_handle, process, requests, flips>>

\* plc_complete_claimed_transition_async: the stop joins this thread, so another
\* one has to run it.  Without a worker the claim is left to the watchdog.
CycleAsync(c) ==
  /\ cyc[c] = "async"
  /\ CGoto(c, "done")
  /\ \/ \E w \in Workers :
          /\ pc[w] = "idle"
          /\ Goto(w, "set")
          /\ target' = Set(target, w, "STOPPED")
          /\ NoFault
     \/ NoWorker /\ UNCHANGED <<pc, target>>
  /\ UNCHANGED <<plc_state, program, plugin, g_task_fault, switch, unload_mutex, pm,
                 result, frames, plc_thread, fault_stop_claimed, join_handle, process, requests,
                 flips, disturbed>>

\* The error paths reap after ERROR is visible; a task may have to be aborted.
CycleReap(c) ==
  /\ cyc[c] = "reap"
  /\ CGoto(c, "done")
  /\ \/ NoFault /\ UNCHANGED g_task_fault
     \/ Fault /\ g_task_fault' = TRUE
  /\ UNCHANGED <<plc_state, program, plugin, switch, unload_mutex, pc, locals,
                 plc_thread, fault_stop_claimed, join_handle, process, requests, flips, disturbed>>

-----------------------------------------------------------------------------
(* watchdog_thread *)

\* A start in progress for more than 120 s.  The state was loaded before the
\* store, so the start may land in between.
WatchdogSees ==
  /\ SlowCalls /\ wd = "idle" /\ plc_state = "TO_RUN"
  /\ wd' = "force"
  /\ UNCHANGED <<plc_state, program, plugin, g_task_fault, switch, unload_mutex, pc,
                 locals, cycle, keep_running, exited, counts, disturbed>>

WatchdogForce ==
  /\ wd = "force"
  /\ wd' = "idle" /\ plc_state' = "ERROR" /\ disturbed' = TRUE
  /\ UNCHANGED <<program, plugin, g_task_fault, switch, unload_mutex, pc, locals,
                 cycle, keep_running, exited, counts>>

\* A stop was claimed and nobody is left to complete it.
Orphaned ==
  /\ \A t \in Threads : pc[t] \notin Body
  /\ \A c \in Cycles : ~(cyc[c] \in {"drain", "async"} /\ fault_stop_claimed[c])

\* watchdog_fatal_exit: a stop past plc_stop_budget_ms, or a dispatcher that has
\* stalled, ends the process.
WatchdogExit ==
  /\ \/ plc_state = "TO_STOP" /\ (SlowCalls \/ Orphaned) /\ NoFault
     \/ plc_state = "RUNNING" /\ Fault
  /\ exited' = TRUE
  /\ UNCHANGED <<plc_state, program, plugin, g_task_fault, switch, unload_mutex, pc,
                 locals, cycle, keep_running, wd, requests, flips, disturbed>>

-----------------------------------------------------------------------------
(* main: boot, auto-start, shutdown *)

\* plc_boot_init_plugins; the boot goes on when a plugin fails to initialise.
BootPlugins ==
  /\ pc["main"] = "boot"
  /\ \/ held' = "current" /\ NoFault
     \/ UNCHANGED held /\ Fault
  /\ target' = Set(target, "main", "RUNNING")
  /\ \/ Goto("main", "gate")
     \/ Goto("main", "release")          \* --safe-mode
  /\ UNCHANGED <<plc_state, program, running, image, g_task_fault, switch,
                 unload_mutex, pm, result, frames, cycle, process, requests, flips,
                 disturbed>>

\* plc_boot_autostart, once the start is decided: plugin requests count again.
BootRelease ==
  /\ pc["main"] \in {"release", "release_held"}
  /\ plc_requests_held' = FALSE
  /\ Goto("main", IF pc["main"] = "release" THEN "up" ELSE "regate")
  /\ UNCHANGED <<plc_state, program, plugin, g_task_fault, switch_position,
                 switch_moved, unload_mutex, locals, cycle, process, counts, disturbed>>

\* A flip to RUN after the gate was read lost its request to the hold.
BootRegate ==
  /\ pc["main"] = "regate"
  /\ Goto("main", IF switch_position = "RUN" THEN "claim" ELSE "up")
  /\ UNCHANGED <<plc_state, program, plugin, g_task_fault, switch, unload_mutex,
                 locals, cycle, process, counts, disturbed>>

Shutdown ==
  /\ Sigterm /\ pc["main"] = "up"
  /\ keep_running' = FALSE
  /\ Goto("main", "wait")
  /\ UNCHANGED <<plc_state, program, plugin, g_task_fault, switch, unload_mutex,
                 locals, cycle, exited, wd, counts, disturbed>>

\* plc_state_manager_cleanup: wait for the transition in flight, then unload.
CleanupWait ==
  /\ pc["main"] = "wait"
  /\ plc_state \notin Transitioning \/ SlowCalls
  /\ pm' = Set(pm, "main", plc_program)
  /\ Goto("main", IF plc_program # 0 THEN "un_lock" ELSE "destroy")
  /\ UNCHANGED <<plc_state, program, plugin, g_task_fault, switch, unload_mutex,
                 target, result, frames, cycle, process, counts, disturbed>>

\* plugin_driver_destroy, and the process returns from main.
DestroyDriver ==
  /\ pc["main"] = "destroy"
  /\ running' = FALSE /\ held' = "none"
  /\ exited' = TRUE
  /\ Goto("main", "closed")
  /\ UNCHANGED <<plc_state, program, image, g_task_fault, switch, unload_mutex, locals,
                 cycle, keep_running, wd, counts, disturbed>>

-----------------------------------------------------------------------------
ThreadStep(t) ==
  \/ Gate(t) \/ Claim(t) \/ Spawn(t)
  \/ FindProgram(t) \/ LoadProgram(t) \/ LoadPlugins(t) \/ InitPlugins(t) \/ CreateCycle(t)
  \/ DropManager(t) \/ Fallback(t) \/ FallbackPublish(t)
  \/ SetStopped(t) \/ UnloadLock(t) \/ UnloadFail(t) \/ UnloadPublish(t)
  \/ UnloadJoin(t) \/ UnloadTear(t) \/ UnloadLand(t)
  \/ Landing(t) \/ TakeMovement(t) \/ Compare(t) \/ Reclaim(t) \/ Respawn(t)
  \/ EndTransition(t)

\* Leaving the dispatch loop is a step the thread is bound to take only once the
\* state is no longer RUNNING; everything else it does, it does on its own.
CycleStep(c) ==
  \/ CycleBoot(c) \/ CycleStartPlugins(c) \/ CycleSpawnTasks(c) \/ CyclePublish(c)
  \/ CycleRun(c) \/ CycleTrip(c) \/ CycleDrain(c) \/ CycleAsync(c) \/ CycleReap(c)

MainStep == BootPlugins \/ BootRelease \/ BootRegate \/ CleanupWait \/ DestroyDriver

\* Every thread is at rest: nothing happens until the next request.
AtRest ==
  /\ \A t \in Threads : pc[t] \in {"idle", "up", "closed"}
  /\ \A c \in Cycles : cyc[c] \in {"none", "run", "done"}
  /\ UNCHANGED vars

Step ==
  \/ \E cmd \in SocketCommands : SocketCommand(cmd)
  \/ PluginFlip \/ PluginMoved \/ PluginStop \/ PluginRequest
  \/ \E t \in Threads : ThreadStep(t)
  \/ \E c \in Cycles : CycleStep(c)
  \/ WatchdogSees \/ WatchdogForce \/ WatchdogExit
  \/ MainStep \/ Shutdown

Next == (~exited /\ Step) \/ AtRest \/ (exited /\ UNCHANGED vars)

Spec == Init /\ [][Next]_vars

\* Every call returns and every thread is scheduled.  The dispatch loop is left
\* only for a reason, and no request, movement, failure or signal has to come.
\* The watchdog runs above every other thread.
CycleProgress(c) == CycleStep(c) /\ ~(cyc[c] = "run" /\ plc_state = "RUNNING")
WatchdogStop     == plc_state = "TO_STOP" /\ WatchdogExit

Fairness ==
  /\ \A t \in Threads : WF_vars(~exited /\ ThreadStep(t))
  /\ \A c \in Cycles : WF_vars(~exited /\ CycleProgress(c))
  /\ WF_vars(~exited /\ (PluginMoved \/ PluginRequest))
  /\ WF_vars(~exited /\ MainStep)
  /\ WF_vars(~exited /\ WatchdogForce)
  /\ WF_vars(~exited /\ WatchdogStop)

FairSpec == Spec /\ Fairness

-----------------------------------------------------------------------------
(* Properties *)

\* The state and the scalars, the flags, and the locals of the two kinds of thread.
ScalarType ==
  /\ plc_state \in States
  /\ plc_program \in Nat /\ managers \in Nat /\ plc_program <= managers
  /\ held \in {"none", "current", "stale"}
  /\ switch_position \in {"RUN", "STOP"} /\ wd \in {"idle", "force"}
  /\ unload_mutex \in Threads \cup {NoThread} /\ join_handle \in Cycles \cup {NoThread}
  /\ requests \in Nat /\ flips \in Nat /\ faults \in Nat

FlagType ==
  /\ dlopened \in BOOLEAN /\ running \in BOOLEAN /\ image \in BOOLEAN
  /\ g_task_fault \in BOOLEAN /\ switch_moved \in BOOLEAN
  /\ plc_requests_held \in BOOLEAN /\ keep_running \in BOOLEAN /\ exited \in BOOLEAN
  /\ disturbed \in BOOLEAN

LocalType ==
  /\ pc \in [Threads -> ThreadPCs]
  /\ target \in [Threads -> {"RUNNING", "STOPPED"}]
  /\ pm \in [Threads -> Nat]

ResultType ==
  /\ result \in [Threads -> BOOLEAN]
  /\ frames \in [Threads -> Seq(BOOLEAN)]
  /\ fault_stop_claimed \in [Cycles -> BOOLEAN]

CycleType == plc_thread \in Cycles /\ cyc \in [Cycles -> CyclePCs]

\* Every variable has the type its declaration in the code gives it.
TypeOK == ScalarType /\ FlagType /\ LocalType /\ ResultType /\ CycleType

\* Threads inside a claimed transition; cycle threads bringing one up; cycle threads
\* that still exist.
Owns(t)  == pc[t] \in Body
Rises(c) == cyc[c] \in BringUp
Lives(c) == cyc[c] \notin {"none", "done"}
NoOwner  == \A t \in Threads : ~Owns(t)
NoCycle  == \A c \in Cycles : ~Lives(c)

\* No thread has written plc_state over another one's transition, no start was
\* claimed over a program that is still loaded, and no SIGTERM has come.
Undisturbed == ~disturbed /\ keep_running

\* At most one thread is inside plc_set_state, the state names the direction it is
\* moving in, and a cycle thread comes up only under the start that created it.
OneTransition ==
  /\ \A t, u \in Threads : Owns(t) /\ Owns(u) => t = u
  /\ \A t \in Threads : Owns(t) => plc_state = Direction(target[t])
  /\ \A c \in Cycles : Rises(c) => c = plc_thread /\ plc_state = "TO_RUN" /\ NoOwner

\* "The state IS the interlock" (unix_socket.c): it is, as long as the claim
\* discipline is kept.
Interlock == Undisturbed => OneTransition

\* Why the interlock holds.  A thread inside a transition is where its target
\* says, and main has not begun to shut down.
OwnersOnCourse ==
  /\ \A t \in Threads :
       /\ pc[t] \in StartBody => target[t] = "RUNNING"
       /\ pc[t] \in StopBody => target[t] = "STOPPED"
  /\ pc["main"] # "wait"

\* There is one cycle thread, the last one created; there is none while a start
\* is under way, none without a program, and none left after the unload's join.
CycleAlone ==
  /\ \A c \in Cycles : Lives(c) => c = plc_thread /\ plc_program # 0
  /\ \A t \in Threads :
       /\ Owns(t) /\ target[t] = "RUNNING" => NoCycle
       /\ pc[t] = "un_tear" => NoCycle
       /\ pc[t] = "un_join" => (join_handle = plc_thread \/ NoCycle)

\* A stop claimed by the dispatcher is nobody else's until a worker has it.
FaultStopOwned ==
  \A c \in Cycles :
    /\ cyc[c] \in BringUp \cup {"run", "trip"} => ~fault_stop_claimed[c]
    /\ cyc[c] = "async" => fault_stop_claimed[c]
    /\ cyc[c] \in {"drain", "async"} /\ fault_stop_claimed[c]
         => plc_state = "TO_STOP" /\ NoOwner

\* A failed start that still has to drop its manager drops the current one only
\* if nothing was started on it since.
ManagersApart ==
  /\ \A t \in Threads :
       /\ pm[t] <= managers
       /\ pc[t] \in StartBody => plc_program # 0
       /\ pc[t] \in StartBody \cup {"drop"} => pm[t] # 0
  /\ \A t, u \in Threads :
       pc[t] = "drop" /\ pm[t] = plc_program =>
         NoCycle /\ ~(Owns(u) /\ target[u] = "RUNNING")

\* The claim discipline, in full: the inductive form of Interlock.
ClaimDiscipline ==
  Undisturbed =>
    OneTransition /\ OwnersOnCourse /\ CycleAlone /\ FaultStopOwned /\ ManagersApart

\* RUNNING is only visible with a program mapped, an image allocated, plugins
\* started on that image and a cycle thread in its dispatch loop.
RunningBacked ==
  Undisturbed /\ plc_state = "RUNNING" =>
     /\ plc_program # 0 /\ dlopened /\ image /\ running /\ held = "current"
     /\ cyc[plc_thread] \in {"run", "trip"}

\* STOPPED and EMPTY are only visible once the plugins are stopped and the cycle
\* thread is gone; at STOPPED the program is unloaded as well.
StoppedClean ==
  Undisturbed /\ plc_state \in {"STOPPED", "EMPTY"} =>
     /\ ~running /\ NoCycle
     /\ plc_state = "STOPPED" => plc_program = 0

\* No plugin holds base pointers into an image that was freed or replaced.
ImageHeld == Undisturbed => held # "stale" /\ (held = "current" => image)

\* unload_plc_program flushes the retained values and frees the journal with no
\* task left that could still write them.
TeardownAlone ==
  Undisturbed => \A t \in Threads : pc[t] = "un_tear" => NoCycle

\* ERROR outranks a late landing: only a new claim or a failed load leaves it,
\* whatever the watchdog, a crashing task and the unload do to each other.
ErrorOutranks == [][plc_state = "ERROR" => plc_state' \notin {"RUNNING", "STOPPED"}]_vars

\* A run in which a task had to be aborted never lands on STOPPED.
FaultReported ==
  [][g_task_fault /\ plc_state # "STOPPED" /\ Undisturbed => plc_state' # "STOPPED"]_vars

\* A claimed transition lands, or the watchdog ends the process.
TransitionLands == plc_state \in Transitioning ~> plc_state \notin Transitioning \/ exited

\* A mode switch that comes to rest in STOP stops the PLC, whichever transitions
\* were in flight when it moved.
SwitchFollowed ==
  <>[](switch_position = "STOP") => <>[](plc_state # "RUNNING" \/ exited)

\* Once SIGTERM is seen the process ends.
ShutdownEnds == ~keep_running ~> exited

-----------------------------------------------------------------------------
(* What comments of the code claim and the code does not keep *)

\* teardown_plugin_instance: "Caller must ensure the plugin is not running."  The
\* plugins are replaced with none of them running.
PluginsQuiet == \A t \in Threads : pc[t] = "plugins" => ~running

=============================================================================
