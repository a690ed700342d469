----------------------------- MODULE Dispatcher -----------------------------
(***************************************************************************)
(* One run of the program, from the publication of RUNNING to the return   *)
(* of plc_cycle_thread: the GCD master-tick dispatcher, the IEC task       *)
(* threads it releases, and their reaping.                                 *)
(*                                                                         *)
(* The clock is abstract: a deadline may expire whenever the constants     *)
(* allow it.  released and completed are only ever compared, so they are   *)
(* kept as their difference (lag) and the fact that a scan was completed   *)
(* (first_done).  master_tick is only used modulo the divisors.            *)
(***************************************************************************)
EXTENDS Integers, FiniteSets

CONSTANTS
  N,             \* plc_task_count
  Divisor,       \* interval of each task in base ticks
  Hyper,         \* a common multiple of the divisors
  StuckPeriods,  \* PLC_TASK_STUCK_PERIODS
  Overruns,      \* may a task be in its scan when the deadline comes?
  SlowWake,      \* may the deadline come before the wake-up of a finished frame?
  CrashAt,       \* the dispatcher's calls that may crash: "hook", "image"
  MaxCrashes     \* bound on crashes of task bodies and of the dispatcher

Tasks == 1 .. N

ASSUME TaskAssumption ==
  /\ N \in Nat \ {0} /\ Hyper \in Nat \ {0} /\ StuckPeriods \in Nat \ {0}
  /\ Divisor \in [Tasks -> Nat \ {0}]
  /\ \A t \in Tasks : Hyper % Divisor[t] = 0
  /\ Overruns \in BOOLEAN /\ SlowWake \in BOOLEAN
  /\ CrashAt \subseteq {"hook", "image"} /\ MaxCrashes \in Nat

VARIABLES
  plc_state,           \* RUNNING, TO_STOP or ERROR
  exited,              \* watchdog_fatal_exit, or a crash under the default handler
  d, i,                \* dispatcher: where it is, which task its loop is at
  master_tick, cycle_end_pending, released_any, stuck_idx,
  fault_stop_claimed,
  g_tasks_running,     \* scans in flight
  g_task_fault,
  g_first_scan,        \* a first scan was in flight at the last tick
  g_first_scan_trip,   \* the watchdog gave up on it
  image_mutex,         \* 0 free, a task, or Disp
  default_handlers,    \* SIGSEGV and SIGFPE kill the process again
  outputs,             \* live or zero
  frame,               \* what the plugins see: cycle_start ... cycle_end
  tpc, go, alive, lag, first_done, stuck_ticks,
  age,                 \* history: due ticks a task was found in its present scan
  crashes

Disp == N + 1
dispatch == <<d, i, master_tick, cycle_end_pending, released_any, stuck_idx,
              fault_stop_claimed>>
flags == <<g_task_fault, g_first_scan, g_first_scan_trip>>
plant == <<outputs, frame>>
task  == <<tpc, go, alive, lag, first_done, stuck_ticks, age>>
vars  == <<plc_state, exited, dispatch, g_tasks_running, flags, image_mutex,
           default_handlers, plant, task, crashes>>

Scanning == {"woken", "lock", "copyin", "body", "copyout"}
Crashable == {"copyin", "body", "copyout"}
TaskPCs  == {"wait", "slot", "dead", "gone"} \cup Scanning
LoopPCs  == {"check", "open", "start", "prime", "primed", "release", "post", "trip",
             "advance", "wait", "retire", "commit", "retired"}
DispPCs  == LoopPCs \cup {"reap", "reap_wait", "abort", "off", "off_hooks", "done"}

Due(t) == alive[t] /\ master_tick % Divisor[t] = 0
FirstScans == {t \in Tasks : alive[t] /\ lag[t] = 1 /\ ~first_done[t]}

TGoto(t, l) == tpc' = [tpc EXCEPT ![t] = l]

Init ==
  /\ plc_state = "RUNNING" /\ exited = FALSE
  /\ d = "check" /\ i = 1 /\ master_tick = 0 /\ cycle_end_pending = FALSE
  /\ released_any = FALSE /\ stuck_idx = 0 /\ fault_stop_claimed = FALSE
  /\ g_tasks_running = 0
  /\ g_task_fault = FALSE /\ g_first_scan = FALSE /\ g_first_scan_trip = FALSE
  /\ image_mutex = 0 /\ default_handlers = FALSE
  /\ outputs = "live" /\ frame = "closed"
  /\ tpc = [t \in Tasks |-> "wait"] /\ go = [t \in Tasks |-> 0]
  /\ alive = [t \in Tasks |-> TRUE] /\ lag = [t \in Tasks |-> 0]
  /\ first_done = [t \in Tasks |-> FALSE]
  /\ stuck_ticks = [t \in Tasks |-> 0] /\ age = [t \in Tasks |-> 0]
  /\ crashes = 0

-----------------------------------------------------------------------------
(* plc_task_body *)

\* sem_wait returns.
Wake(t) ==
  /\ tpc[t] = "wait" /\ go[t] > 0
  /\ go' = [go EXCEPT ![t] = @ - 1]
  /\ TGoto(t, "woken")
  /\ UNCHANGED <<plc_state, exited, dispatch, g_tasks_running, flags, image_mutex,
                 default_handlers, plant, alive, lag, first_done, stuck_ticks, age, crashes>>

\* A worker released for the last time leaves, its slot still counted.
Begin(t) ==
  /\ tpc[t] = "woken"
  /\ TGoto(t, IF plc_state = "RUNNING" THEN "lock" ELSE "gone")
  /\ UNCHANGED <<plc_state, exited, dispatch, g_tasks_running, flags, image_mutex,
                 default_handlers, plant, go, alive, lag, first_done, stuck_ticks, age, crashes>>

\* image_lock, then copy-in.
CopyIn(t) ==
  /\ \/ /\ tpc[t] = "lock" /\ image_mutex = 0
        /\ image_mutex' = t /\ TGoto(t, "copyin")
     \/ /\ tpc[t] = "copyin"
        /\ image_mutex' = 0 /\ TGoto(t, "body")
  /\ UNCHANGED <<plc_state, exited, dispatch, g_tasks_running, flags,
                 default_handlers, plant, go, alive, lag, first_done, stuck_ticks, age, crashes>>

\* The programs' run() returns; the outputs are journalled after it.
Run(t) ==
  /\ tpc[t] = "body"
  /\ TGoto(t, "copyout")
  /\ UNCHANGED <<plc_state, exited, dispatch, g_tasks_running, flags, image_mutex,
                 default_handlers, plant, go, alive, lag, first_done, stuck_ticks, age, crashes>>

\* The completion count is bumped before the slot is given back.
Complete(t) ==
  /\ tpc[t] = "copyout"
  /\ lag' = [lag EXCEPT ![t] = 0] /\ first_done' = [first_done EXCEPT ![t] = TRUE]
  /\ TGoto(t, "slot")
  /\ UNCHANGED <<plc_state, exited, dispatch, g_tasks_running, flags, image_mutex,
                 default_handlers, plant, go, alive, stuck_ticks, age, crashes>>

\* Seeded fault: a crashed task gives its slot back twice.
ScanDoneTwice(t) ==
  /\ tpc[t] \in {"slot", "dead"}
  /\ g_tasks_running' = g_tasks_running - (IF tpc[t] = "slot" THEN 1 ELSE 2)
  /\ TGoto(t, IF tpc[t] = "slot" THEN "wait" ELSE "gone")
  /\ UNCHANGED <<plc_state, exited, dispatch, flags, image_mutex, default_handlers,
                 plant, go, alive, lag, first_done, stuck_ticks, age, crashes>>

\* worker_scan_done, by a worker that goes on or by one that ends.
ScanDone(t) ==
  /\ tpc[t] \in {"slot", "dead"}
  /\ g_tasks_running' = g_tasks_running - 1
  /\ TGoto(t, IF tpc[t] = "slot" THEN "wait" ELSE "gone")
  /\ UNCHANGED <<plc_state, exited, dispatch, flags, image_mutex, default_handlers,
                 plant, go, alive, lag, first_done, stuck_ticks, age, crashes>>

\* Seeded fault: a crashed task keeps its slot.
RecoverKeepsSlot(t) ==
  /\ alive' = [alive EXCEPT ![t] = FALSE]
  /\ image_mutex' = IF image_mutex = t THEN 0 ELSE image_mutex
  /\ TGoto(t, "gone")

\* The recovery point, and the two catch clauses: release the image, mark the task
\* dead, give the slot back.
Recover(t) ==
  /\ alive' = [alive EXCEPT ![t] = FALSE]
  /\ image_mutex' = IF image_mutex = t THEN 0 ELSE image_mutex
  /\ TGoto(t, "dead")

\* SIGSEGV, SIGFPE or an exception in a scan.  Once the dispatcher has crashed the
\* default handlers are back and the process dies.
CrashTask(t) ==
  /\ tpc[t] \in Crashable /\ crashes < MaxCrashes
  /\ crashes' = crashes + 1
  /\ IF default_handlers
     THEN exited' = TRUE /\ UNCHANGED <<alive, image_mutex, tpc>>
     ELSE Recover(t) /\ UNCHANGED exited
  /\ UNCHANGED <<plc_state, dispatch, g_tasks_running, flags, default_handlers, plant,
                 go, lag, first_done, stuck_ticks, age>>

-----------------------------------------------------------------------------
(* The dispatch loop of plc_cycle_thread *)

\* while (plc_get_state() == PLC_STATE_RUNNING): publish the oldest first scan,
\* then see whether a task is due.
Tick ==
  /\ d = "check"
  /\ IF plc_state = "RUNNING"
     THEN /\ g_first_scan' = (FirstScans # {})
          /\ d' = IF \E t \in Tasks : Due(t) THEN "open" ELSE "advance"
     ELSE g_first_scan' = FALSE /\ d' = "reap"
  /\ UNCHANGED <<plc_state, exited, i, master_tick, cycle_end_pending, released_any,
                 stuck_idx, fault_stop_claimed, g_tasks_running, g_task_fault,
                 g_first_scan_trip, image_mutex, default_handlers, plant, task, crashes>>

\* A frame that is still owed its cycle_end gets it now, in the middle of a scan;
\* image_lock is taken and released first.
EndLate ==
  /\ d = "open"
  /\ cycle_end_pending => image_mutex = 0
  /\ frame' = IF cycle_end_pending THEN "closed" ELSE frame
  /\ cycle_end_pending' = FALSE /\ d' = "start"
  /\ UNCHANGED <<plc_state, exited, i, master_tick, released_any, stuck_idx,
                 fault_stop_claimed, g_tasks_running, flags, image_mutex,
                 default_handlers, outputs, task, crashes>>

\* plugin_driver_cycle_start.
CycleStart ==
  /\ d = "start"
  /\ frame' = "open" /\ d' = "prime"
  /\ UNCHANGED <<plc_state, exited, i, master_tick, cycle_end_pending, released_any,
                 stuck_idx, fault_stop_claimed, g_tasks_running, flags, image_mutex,
                 default_handlers, outputs, task, crashes>>

\* The config-scope globals are primed only when no scan is in flight.
Prime ==
  /\ \/ /\ d = "prime" /\ g_tasks_running # 0
        /\ d' = "release" /\ UNCHANGED image_mutex
     \/ /\ d = "prime" /\ g_tasks_running = 0 /\ image_mutex = 0
        /\ d' = "primed" /\ image_mutex' = Disp
     \/ /\ d = "primed"
        /\ d' = "release" /\ image_mutex' = 0
  /\ i' = 1 /\ released_any' = FALSE
  /\ UNCHANGED <<plc_state, exited, master_tick, cycle_end_pending, stuck_idx,
                 fault_stop_claimed, g_tasks_running, flags, default_handlers, plant,
                 task, crashes>>

\* Seeded fault: stuck_ticks is not reset.
ReleaseNoReset(t) ==
  /\ age' = [age EXCEPT ![t] = 0] /\ UNCHANGED stuck_ticks
  /\ lag' = [lag EXCEPT ![t] = 1]
  /\ g_tasks_running' = g_tasks_running + 1
  /\ d' = "post" /\ UNCHANGED <<stuck_idx, i>>

\* Seeded fault: a released task is not counted in flight.
ReleaseUncounted(t) ==
  /\ stuck_ticks' = [stuck_ticks EXCEPT ![t] = 0] /\ age' = [age EXCEPT ![t] = 0]
  /\ lag' = [lag EXCEPT ![t] = 1]
  /\ d' = "post" /\ UNCHANGED <<stuck_idx, i, g_tasks_running>>

\* The worker is idle: count it in flight before the semaphore is posted.
Release(t) ==
  /\ stuck_ticks' = [stuck_ticks EXCEPT ![t] = 0] /\ age' = [age EXCEPT ![t] = 0]
  /\ lag' = [lag EXCEPT ![t] = 1]
  /\ g_tasks_running' = g_tasks_running + 1
  /\ d' = "post" /\ UNCHANGED <<stuck_idx, i>>

Capped(n) == IF n >= StuckPeriods THEN StuckPeriods ELSE n

\* Seeded fault: a task in its scan is released again.
CountOverrunReleased(t) == Release(t)

\* The worker is still in its scan: an overrun, and a step towards stuck.
CountOverrun(t) ==
  /\ age' = [age EXCEPT ![t] = Capped(@ + 1)]
  /\ stuck_ticks' = [stuck_ticks EXCEPT ![t] = IF first_done[t] THEN Capped(@ + 1) ELSE @]
  /\ stuck_idx' = IF stuck_ticks'[t] >= StuckPeriods /\ stuck_idx = 0 THEN t ELSE stuck_idx
  /\ i' = i + 1 /\ UNCHANGED <<d, lag, g_tasks_running>>

ReleaseLoop ==
  /\ d = "release"
  /\ \/ i > N /\ d' = "trip" /\ UNCHANGED <<i, stuck_ticks, age, lag, stuck_idx, g_tasks_running>>
     \/ i <= N /\ ~Due(i) /\ i' = i + 1
          /\ UNCHANGED <<d, stuck_ticks, age, lag, stuck_idx, g_tasks_running>>
     \/ i <= N /\ Due(i) /\ lag[i] = 0 /\ Release(i)
     \/ i <= N /\ Due(i) /\ lag[i] # 0 /\ CountOverrun(i)
  /\ UNCHANGED <<plc_state, exited, master_tick, cycle_end_pending, released_any,
                 fault_stop_claimed, flags, image_mutex, default_handlers, plant, tpc,
                 go, alive, first_done, crashes>>

\* sem_post(&c->go).
Post ==
  /\ d = "post"
  /\ go' = [go EXCEPT ![i] = @ + 1]
  /\ released_any' = TRUE /\ i' = i + 1 /\ d' = "release"
  /\ UNCHANGED <<plc_state, exited, master_tick, cycle_end_pending, stuck_idx,
                 fault_stop_claimed, g_tasks_running, flags, image_mutex,
                 default_handlers, plant, tpc, alive, lag, first_done, stuck_ticks, age, crashes>>

\* The frame owes a cycle_end if it released anything.  A stuck task, or a first
\* scan the watchdog gave up on, makes the dispatcher claim the stop and leave.
Trip ==
  /\ d = "trip"
  /\ cycle_end_pending' = (cycle_end_pending \/ released_any)
  /\ \/ /\ stuck_idx = 0 /\ ~(g_first_scan_trip /\ FirstScans # {})
        /\ g_first_scan_trip' = FALSE
        /\ d' = "advance"
        /\ UNCHANGED <<plc_state, stuck_idx, fault_stop_claimed, g_task_fault, g_first_scan>>
     \/ /\ \/ stuck_idx # 0 /\ UNCHANGED <<stuck_idx, g_first_scan_trip>>
           \/ /\ stuck_idx = 0 /\ g_first_scan_trip /\ g_first_scan_trip' = FALSE
              /\ stuck_idx' \in FirstScans
        /\ g_task_fault' = TRUE /\ g_first_scan' = FALSE
        /\ fault_stop_claimed' = (plc_state # "TO_STOP")
        /\ plc_state' = "TO_STOP"
        /\ d' = "reap"
  /\ UNCHANGED <<exited, i, master_tick, released_any, g_tasks_running, image_mutex,
                 default_handlers, plant, task, crashes>>

Advance ==
  /\ d = "advance"
  /\ master_tick' = (master_tick + 1) % Hyper
  /\ d' = "wait"
  /\ UNCHANGED <<plc_state, exited, i, cycle_end_pending, released_any, stuck_idx,
                 fault_stop_claimed, g_tasks_running, flags, image_mutex,
                 default_handlers, plant, task, crashes>>

\* Seeded fault: the frame is retired while a task is in flight.
FrameCompleteAnyTime == cycle_end_pending

FrameComplete == cycle_end_pending /\ g_tasks_running = 0

\* Phase A ends: the state has changed, or the deadline has come.
WaitOver ==
  /\ d = "wait"
  /\ \/ plc_state # "RUNNING"
     \/ /\ ~FrameComplete \/ SlowWake
        /\ Overruns \/ g_tasks_running = 0
  /\ d' = "check"
  /\ UNCHANGED <<plc_state, exited, i, master_tick, cycle_end_pending, released_any,
                 stuck_idx, fault_stop_claimed, g_tasks_running, flags, image_mutex,
                 default_handlers, plant, task, crashes>>

\* The frame is complete: under image_lock the globals go out, external writes come
\* in and the retained values are saved; then the plugins' cycle_end.
Retire ==
  /\ \/ /\ d = "wait" /\ plc_state = "RUNNING" /\ FrameComplete
        /\ d' = "retire" /\ UNCHANGED <<image_mutex, frame, cycle_end_pending>>
     \/ /\ d = "retire" /\ image_mutex = 0
        /\ d' = "commit" /\ image_mutex' = Disp /\ UNCHANGED <<frame, cycle_end_pending>>
     \/ /\ d = "commit"
        /\ d' = "retired" /\ image_mutex' = 0 /\ UNCHANGED <<frame, cycle_end_pending>>
     \/ /\ d = "retired"
        /\ d' = "wait" /\ frame' = "closed" /\ cycle_end_pending' = FALSE
        /\ UNCHANGED image_mutex
  /\ UNCHANGED <<plc_state, exited, i, master_tick, released_any, stuck_idx,
                 fault_stop_claimed, g_tasks_running, flags, default_handlers, outputs,
                 task, crashes>>

\* The dispatcher crashes in a plugin hook, or in the program's code while it holds
\* the image mutex.  bootstrap_holding_mutex is never set, so the mutex stays locked.
CrashDispatcher ==
  /\ crashes < MaxCrashes
  /\ \/ "hook" \in CrashAt /\ d \in {"open", "start", "retired"}
     \/ "image" \in CrashAt /\ d \in {"primed", "commit"}
  /\ crashes' = crashes + 1
  /\ plc_state' = "ERROR" /\ default_handlers' = TRUE
  /\ d' = "reap"
  /\ UNCHANGED <<exited, i, master_tick, cycle_end_pending, released_any, stuck_idx,
                 fault_stop_claimed, g_tasks_running, flags, image_mutex, plant, task>>

-----------------------------------------------------------------------------
(* reap_task_threads, plc_outputs_off *)

\* Every worker is woken.
ReapWake ==
  /\ d = "reap"
  /\ go' = [t \in Tasks |-> go[t] + 1]
  /\ i' = 1 /\ d' = "reap_wait"
  /\ UNCHANGED <<plc_state, exited, master_tick, cycle_end_pending, released_any,
                 stuck_idx, fault_stop_claimed, g_tasks_running, flags, image_mutex,
                 default_handlers, plant, tpc, alive, lag, first_done, stuck_ticks, age, crashes>>

\* Seeded faults: the reap does not wait, or waits without a deadline.
ReapWaitSkips ==
  /\ d = "reap_wait"
  /\ \/ i <= N /\ i' = i + 1 /\ UNCHANGED d
     \/ i > N /\ d' = "off" /\ UNCHANGED i
  /\ UNCHANGED g_task_fault

ReapWaitForever ==
  /\ d = "reap_wait"
  /\ \/ i <= N /\ tpc[i] = "gone" /\ i' = i + 1 /\ UNCHANGED d
     \/ i > N /\ d' = "off" /\ UNCHANGED i
  /\ UNCHANGED g_task_fault

\* wait_task_exit: the worker is gone, or its deadline has passed; then the join.
ReapWait ==
  /\ d = "reap_wait"
  /\ \/ i <= N /\ tpc[i] = "gone" /\ i' = i + 1 /\ UNCHANGED <<d, g_task_fault>>
     \/ i <= N /\ tpc[i] # "gone" /\ d' = "abort" /\ g_task_fault' = TRUE /\ UNCHANGED i
     \/ i > N /\ d' = "off" /\ UNCHANGED <<i, g_task_fault>>

Reap ==
  /\ ReapWait
  /\ UNCHANGED <<plc_state, exited, master_tick, cycle_end_pending, released_any,
                 stuck_idx, fault_stop_claimed, g_tasks_running, g_first_scan,
                 g_first_scan_trip, image_mutex, default_handlers, plant, task, crashes>>

\* abort_task: the signal jumps out of a task body and of nothing else.
AbortTask ==
  /\ d = "abort"
  /\ \/ /\ tpc[i] = "body" /\ Recover(i) /\ UNCHANGED <<d, i>>
     \/ /\ tpc[i] = "gone" /\ d' = "reap_wait" /\ i' = i + 1
        /\ UNCHANGED <<alive, image_mutex, tpc>>
  /\ UNCHANGED <<plc_state, exited, master_tick, cycle_end_pending, released_any,
                 stuck_idx, fault_stop_claimed, g_tasks_running, flags,
                 default_handlers, plant, go, lag, first_done, stuck_ticks, age, crashes>>

\* A worker that cannot be aborted ends the process.
GiveUp ==
  /\ d = "abort" /\ tpc[i] \notin {"body", "gone"}
  /\ exited' = TRUE
  /\ UNCHANGED <<plc_state, dispatch, g_tasks_running, flags, image_mutex,
                 default_handlers, plant, task, crashes>>

\* Under image_lock the outputs are zeroed; one last I/O frame sends them.  A crash
\* in its hooks is caught once more.
OutputsOff ==
  /\ \/ /\ d = "off" /\ image_mutex = 0
        /\ outputs' = "zero" /\ d' = "off_hooks"
        /\ UNCHANGED <<plc_state, frame, default_handlers, exited, crashes>>
     \/ /\ d = "off_hooks"
        /\ frame' = "closed" /\ d' = "done"
        /\ UNCHANGED <<plc_state, outputs, default_handlers, exited, crashes>>
     \/ /\ d = "off_hooks" /\ "hook" \in CrashAt /\ crashes < MaxCrashes
        /\ crashes' = crashes + 1
        /\ IF default_handlers
           THEN exited' = TRUE /\ UNCHANGED <<plc_state, d, default_handlers>>
           ELSE /\ plc_state' = "ERROR" /\ default_handlers' = TRUE /\ d' = "done"
                /\ UNCHANGED exited
        /\ UNCHANGED <<outputs, frame>>
  /\ UNCHANGED <<i, master_tick, cycle_end_pending, released_any, stuck_idx,
                 fault_stop_claimed, g_tasks_running, flags, image_mutex, task>>

-----------------------------------------------------------------------------
(* The rest of the process *)

\* A stop is claimed, or the watchdog's late ERROR lands.
StateChanges ==
  /\ plc_state = "RUNNING" /\ plc_state' \in {"TO_STOP", "ERROR"}
  /\ UNCHANGED <<exited, dispatch, g_tasks_running, flags, image_mutex,
                 default_handlers, plant, task, crashes>>

\* watchdog_thread: a first scan that lasts too long.
WatchdogTrips ==
  /\ plc_state = "RUNNING" /\ g_first_scan /\ ~g_first_scan_trip
  /\ g_first_scan_trip' = TRUE
  /\ UNCHANGED <<plc_state, exited, dispatch, g_tasks_running, g_task_fault,
                 g_first_scan, image_mutex, default_handlers, plant, task, crashes>>

WorkerStep(t) == Wake(t) \/ Begin(t) \/ CopyIn(t) \/ Complete(t) \/ ScanDone(t)

DispatcherStep ==
  \/ Tick \/ EndLate \/ CycleStart \/ Prime \/ ReleaseLoop \/ Post \/ Trip \/ Advance
  \/ WaitOver \/ Retire \/ ReapWake \/ Reap \/ AbortTask \/ GiveUp \/ OutputsOff

Over == (exited \/ d = "done") /\ UNCHANGED vars

Next ==
  \/ /\ ~exited
     /\ \/ \E t \in Tasks : WorkerStep(t) \/ Run(t) \/ CrashTask(t)
        \/ DispatcherStep \/ CrashDispatcher
        \/ StateChanges \/ WatchdogTrips
  \/ Over

Spec == Init /\ [][Next]_vars

\* Every thread is scheduled and the clock goes on.
Fairness ==
  /\ \A t \in Tasks : WF_vars(~exited /\ WorkerStep(t)) /\ SF_vars(~exited /\ CopyIn(t))
  /\ SF_vars(~exited /\ DispatcherStep)

\* A body that is not crashed by somebody else ends, or need not end.
HangingSpec == Spec /\ Fairness
FairSpec    == HangingSpec /\ \A t \in Tasks : WF_vars(~exited /\ Run(t))

-----------------------------------------------------------------------------
(* Properties *)

\* Every variable has the type its declaration in the code gives it.  A task has at
\* most two slots: one it has not given back yet, and the next.
TypeOK ==
  /\ plc_state \in {"RUNNING", "TO_STOP", "ERROR"} /\ exited \in BOOLEAN
  /\ d \in DispPCs /\ i \in 1 .. N + 1 /\ master_tick \in 0 .. Hyper - 1
  /\ cycle_end_pending \in BOOLEAN /\ released_any \in BOOLEAN
  /\ stuck_idx \in 0 .. N /\ fault_stop_claimed \in BOOLEAN
  /\ g_tasks_running \in 0 .. 2 * N
  /\ g_task_fault \in BOOLEAN /\ g_first_scan \in BOOLEAN /\ g_first_scan_trip \in BOOLEAN
  /\ image_mutex \in 0 .. N + 1 /\ default_handlers \in BOOLEAN
  /\ outputs \in {"live", "zero"} /\ frame \in {"open", "closed"}
  /\ tpc \in [Tasks -> TaskPCs] /\ go \in [Tasks -> 0 .. 2]
  /\ alive \in [Tasks -> BOOLEAN] /\ lag \in [Tasks -> 0 .. 1]
  /\ first_done \in [Tasks -> BOOLEAN]
  /\ stuck_ticks \in [Tasks -> 0 .. StuckPeriods] /\ age \in [Tasks -> 0 .. StuckPeriods]
  /\ crashes \in Nat

\* "IECVars are never touched concurrently" (debug_write_journal.h): the globals are
\* copied, external writes applied and retained values saved with no scan in flight.
QuietWindow ==
  d \in {"primed", "commit"} => \A t \in Tasks : tpc[t] \notin Scanning /\ go[t] = 0

\* "Activations never pile up": until the reap a task has one activation at most,
\* waiting or in its scan.
NoPileUp ==
  d \in LoopPCs => \A t \in Tasks : go[t] = 0 \/ (go[t] = 1 /\ tpc[t] \notin Scanning)

\* The slots in flight cover every scan, and give back no more than they took.
SlotsCovered ==
  g_tasks_running >= Cardinality({t \in Tasks : tpc[t] \in {"slot", "dead"} \cup (Scanning \ {"woken"})})

\* Activations and slots are counted right: none too many waits, none is given back
\* twice or while its scan goes on.
ActivationsCounted == TypeOK /\ NoPileUp /\ SlotsCovered

\* A task counts as stuck only after that many of its periods in one and the same
\* scan; a task that merely overruns now and then is never stopped for it.
StuckHonest ==
  \A t \in Tasks : stuck_ticks[t] >= StuckPeriods => age[t] >= StuckPeriods

\* The outputs are zeroed when no task is left that could drive them again.
ZeroFinal == outputs = "zero" => \A t \in Tasks : tpc[t] = "gone"

\* However the run ends, even with a task that hangs in its body, the outputs are
\* driven off or the process exits.
OutputsGoOff == plc_state # "RUNNING" ~> outputs = "zero" \/ exited

\* plc_retain_save: "Called ONCE PER SCAN CYCLE".  While tasks are alive the window in
\* which values are saved and external writes applied keeps coming.
SavedEachCycle ==
  []<>(d = "commit" \/ plc_state # "RUNNING" \/ exited \/ \A t \in Tasks : ~alive[t])

=============================================================================
