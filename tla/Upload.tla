------------------------------- MODULE Upload -------------------------------
(***************************************************************************)
(* A program's way onto the device: the upload handler (webserver/app.py), *)
(* the compile thread it starts (plcapp_management.py: run_compile), the   *)
(* files they install, the stored project (project_snapshot.py) with its   *)
(* cached advertisement, and a power cut at any step.                      *)
(*                                                                         *)
(* Uploads are numbered; a file holds the number of the upload it comes    *)
(* from, 0 when it is absent.  One handler runs at a time (_upload_lock),  *)
(* but a compile thread outlives its handler, so the next handler can meet *)
(* the tail of the previous build.  PLC steps stand for the runtime behind *)
(* the command socket, whose answer may also be lost (a 0.5 s timeout).    *)
(***************************************************************************)
EXTENDS DeviceConf

CONSTANTS Confs,       \* the configuration files, in the order they are applied
          Contents,    \* what an upload may bring for one of them, as in DeviceConf
          MaxUploads,  \* bound: uploads that get past the busy check
          MaxCuts      \* bound: power cuts

Plugins == "plugins"   \* plugins.conf: derived from core/generated, not copied

ASSUME UploadAssumption ==
    /\ Confs \in Seq(STRING)
    /\ \E k \in DOMAIN Confs : Confs[k] = Plugins
    /\ \A c \in Contents : WellFormed(c)
    /\ MaxUploads \in Nat \ {0}
    /\ MaxCuts \in Nat

VARIABLES
    status,    \* build_state.status
    up,        \* the handler that holds _upload_lock: step, upload, next file
    run,       \* the compile thread of each upload: step, compile_ok
    tree,      \* core/generated
    newso,     \* build/new_libplc.so
    so,        \* build/libplc_<time>.so
    conf,      \* the installed configuration files
    snap,      \* the store: promoted blob and meta, staged blob and meta
    cache,     \* _advertised_cache
    probe,     \* a discovery reply that is being computed
    plc,       \* the runtime: its state and the program it has loaded
    started,   \* uploads begun so far
    cuts,      \* power cuts so far
    excuses    \* history: what happened that lets a promise below lapse

files == <<tree, newso, so, conf>>
ad == <<cache, probe>>
env == <<plc, cuts>>
vars == <<status, up, run, tree, newso, so, conf, snap, cache, probe, plc,
          started, cuts, excuses>>

Uploads == 1 .. MaxUploads
Version == 0 .. MaxUploads
Files == {Confs[k] : k \in DOMAIN Confs}

HandlerSteps == {"idle", "inspect", "settle", "query", "halt", "clear", "clearing",
                 "extract", "apply", "snapshot", "blob", "meta", "launch"}
Changing == {"clear", "clearing", "extract", "apply", "snapshot", "blob", "meta", "launch"}
RunSteps == {"off", "begin", "build", "stop", "wait", "sweep", "swap", "judge", "recheck",
             "register", "publish", "finish", "promote1", "promote2", "discard"}
\* The steps of a thread at which build_state.status may not be COMPILING.
LastSteps == {"recheck", "finish", "promote1", "promote2", "discard"}

NoHandler == [pc |-> "idle", id |-> 0, k |-> 0]
NoSnap == [blob |-> 0, meta |-> 0, sblob |-> 0, smeta |-> 0]
Unknown == [known |-> FALSE, val |-> 0, clean |-> TRUE]
NoProbe == [on |-> FALSE, val |-> 0, clean |-> TRUE]
StoppedPlc == [st |-> "stopped", prog |-> 0]

TypeOK ==
    /\ status \in {"IDLE", "UNZIPPING", "COMPILING", "SUCCESS", "FAILED"}
    /\ up \in [pc: HandlerSteps, id: Version, k: 0 .. Len(Confs)]
    /\ run \in [Uploads -> [pc: RunSteps, ok: BOOLEAN]]
    /\ tree \in Version /\ newso \in Version /\ so \in Version
    /\ conf \in [Files -> Version]
    /\ snap \in [blob: Version, meta: Version, sblob: Version, smeta: Version]
    /\ cache \in [known: BOOLEAN, val: Version, clean: BOOLEAN]
    /\ probe \in [on: BOOLEAN, val: Version, clean: BOOLEAN]
    /\ plc \in [st: {"stopped", "starting", "running", "stopping"}, prog: Version]
    /\ started \in Version /\ cuts \in 0 .. MaxCuts
    /\ excuses \subseteq {"overlap", "clear", "plugins", "start"}

Init ==
    /\ status = "IDLE" /\ up = NoHandler
    /\ run = [u \in Uploads |-> [pc |-> "off", ok |-> FALSE]]
    /\ tree = 0 /\ newso = 0 /\ so = 0
    /\ conf = [f \in Files |-> 0]
    /\ snap = NoSnap /\ cache = Unknown /\ probe = NoProbe
    /\ plc = StoppedPlc
    /\ started = 0 /\ cuts = 0 /\ excuses = {}

\* read_metadata: both files of the promoted pair, or nothing is stored.
Stored == IF snap.meta # 0 /\ snap.blob # 0 THEN snap.meta ELSE 0

Active == {u \in Uploads : run[u].pc # "off"}

At(step) == up.pc = step
To(step) == up' = [up EXCEPT !.pc = step]
Release == up' = NoHandler          \* the finally of handle_upload_file
RunTo(u, step) == run' = [run EXCEPT ![u].pc = step]
\* compile_ok is not read after the verdict.
Judged(u, step) == run' = [run EXCEPT ![u] = [pc |-> step, ok |-> FALSE]]

Moving == plc.st \in {"starting", "stopping"}
\* The runtime takes a STOP only when no transition is in flight.
AfterStop == IF plc.st = "running" THEN [plc EXCEPT !.st = "stopping"] ELSE plc

\* What an overlap excuses includes what these two do.
Excuse(kind) == IF "overlap" \in excuses THEN excuses ELSE excuses \cup {kind}

\* Every change of the store begins with _advertised_cache = None; a reply that is
\* being computed beside it may be out of date when it is cached.
Beside == IF probe.on THEN [on |-> TRUE, val |-> 0, clean |-> FALSE] ELSE probe

\* Seeded fault: the cached answer is not dropped.
InvalidateNothing == UNCHANGED ad

Invalidate == cache' = Unknown /\ probe' = Beside
MidChange == At("clearing") \/ \E u \in Uploads : run[u].pc \in {"promote1", "promote2"}

(* ---- the upload handler ------------------------------------------------ *)

\* The busy check.  Refused requests (lock taken, COMPILING) change nothing.
MayArrive == status # "COMPILING"

Arrive ==
    /\ At("idle") /\ started < MaxUploads
    /\ MayArrive
    /\ started' = started + 1
    /\ up' = [pc |-> "inspect", id |-> started + 1, k |-> 1]
    /\ excuses' = IF Active = {} THEN excuses ELSE (excuses \cap {"start"}) \cup {"overlap"}
    /\ UNCHANGED <<status, run, files, snap, ad, env>>

\* build_state.clear, then the checks that need nothing changed on the device: the
\* file part, its size, the archive's safety, the EtherCAT format of the project.
Inspect ==
    /\ At("inspect")
    /\ \/ status' = "UNZIPPING" /\ To("settle")
       \/ status' = "FAILED" /\ Release
    /\ excuses' = excuses \ {"start"}
    /\ UNCHANGED <<run, files, snap, ad, env, started>>

\* A step of the handler that throws, or gives up.
Abort ==
    /\ status' = "FAILED" /\ Release
    /\ UNCHANGED <<run, snap, ad, env, started, excuses>>

\* ensure_plc_stopped: first wait until no transition is in flight ...
Settled ==
    /\ At("settle") /\ ~Moving
    /\ To("query")
    /\ UNCHANGED <<status, run, files, snap, ad, env, started, excuses>>

NotSettled == At("settle") /\ Moving /\ Abort /\ UNCHANGED files

\* ... then ask once more whether it runs ...
MustHalt == plc.st = "running"

Query ==
    /\ At("query")
    /\ IF MustHalt THEN plc' = AfterStop /\ To("halt")
                   ELSE plc' = plc /\ To("clear")
    /\ UNCHANGED <<status, run, files, snap, ad, cuts, started, excuses>>

\* Seeded fault: only RUNNING is waited out.
MayGoOnMoving == plc.st # "running"

\* ... and after a STOP wait until it is neither running nor moving.
MayGoOn == plc.st = "stopped"

Halted ==
    /\ At("halt") /\ MayGoOn
    /\ To("clear")
    /\ UNCHANGED <<status, run, files, snap, ad, env, started, excuses>>

NotHalted == At("halt") /\ plc.st # "stopped" /\ Abort /\ UNCHANGED files

\* An answer that does not come in time reads as "" here: neither RUNNING nor
\* TRANSITIONING, so the handler goes on.
AnswerLost ==
    /\ up.pc \in {"query", "halt"}
    /\ To("clear")
    /\ excuses' = excuses \cup (IF plc.st = "stopped" THEN {} ELSE {"start"})
    /\ UNCHANGED <<status, run, files, snap, ad, env, started>>

\* project_snapshot.clear: the cache goes first, then the directory, file by file.
ClearStart ==
    /\ At("clear")
    /\ To("clearing") /\ Invalidate
    /\ UNCHANGED <<status, run, files, snap, env, started, excuses>>

ClearPart ==
    /\ At("clearing")
    /\ \E f \in {"blob", "meta", "sblob", "smeta"} :
          snap[f] # 0 /\ snap' = [snap EXCEPT ![f] = 0]
    /\ probe' = Beside
    /\ UNCHANGED <<status, up, run, files, cache, env, started, excuses>>

\* An upload that empties the store with no build left beside it starts afresh.
Alone == Active = {} /\ status # "SUCCESS" /\ plc.st = "stopped"

Cleared ==
    /\ At("clearing")
    /\ snap' = NoSnap /\ probe' = Beside
    /\ To("extract")
    /\ excuses' = excuses \ (IF Alone THEN {"clear", "overlap"} ELSE {"clear"})
    /\ UNCHANGED <<status, run, files, cache, env, started>>

\* An OSError of rmtree is only logged.
NotCleared ==
    /\ At("clearing")
    /\ To("extract")
    /\ excuses' = Excuse("clear")
    /\ UNCHANGED <<status, run, files, snap, ad, env, started>>

\* rmtree and safe_extract.
Extract ==
    /\ At("extract")
    /\ tree' = up.id /\ To("apply")
    /\ UNCHANGED <<status, run, newso, so, conf, snap, ad, env, started, excuses>>

ExtractFails ==
    /\ At("extract") /\ Abort
    /\ tree' \in {tree, 0}
    /\ UNCHANGED <<newso, so, conf>>

File == Confs[up.k]
\* Seeded fault: off by one at the last file.
NextFileLate == IF up.k > Len(Confs) THEN [up EXCEPT !.pc = "snapshot"]
                                     ELSE [up EXCEPT !.k = @ + 1]

NextFile == IF up.k = Len(Confs) THEN [up EXCEPT !.pc = "snapshot"]
                                 ELSE [up EXCEPT !.k = @ + 1]

\* The file may be one that is accepted.
Acceptable == \E c \in Contents : Accepted(c)

\* A file the upload carries and that is accepted is installed, as parsed.
Install ==
    /\ At("apply") /\ File # Plugins
    /\ Acceptable
    /\ conf' = [conf EXCEPT ![File] = up.id]
    /\ up' = NextFile
    /\ UNCHANGED <<status, run, tree, newso, so, snap, ad, env, started, excuses>>

\* Seeded fault: a file the upload does not carry is left in place.
AfterRemoveNothing(f) == conf[f]

\* One it does not carry, or one that is refused, takes the device's copy with it.
AfterRemove(f) == 0

Remove ==
    /\ At("apply") /\ File # Plugins
    /\ conf' = [conf EXCEPT ![File] = AfterRemove(File)]
    /\ up' = NextFile
    /\ UNCHANGED <<status, run, tree, newso, so, snap, ad, env, started, excuses>>

\* update_plugin_configurations: enable what has a configuration in core/generated,
\* disable the rest; when plugins.conf cannot be written, to_file returns FALSE and
\* the caller logs it.
WritePlugins ==
    \/ conf' = [conf EXCEPT ![Plugins] = tree] /\ excuses' = excuses \ {"plugins"}
    \/ conf' = conf /\ excuses' = Excuse("plugins")

ApplyPlugins ==
    /\ At("apply") /\ File = Plugins
    /\ WritePlugins
    /\ up' = NextFile
    /\ UNCHANGED <<status, run, tree, newso, so, snap, ad, env, started>>

\* An OSError on the way (vpp_plugins.conf may be copied and not yet rewritten).
ApplyFails ==
    /\ At("apply") /\ Abort
    /\ conf' \in {conf, [conf EXCEPT ![File] = up.id]}
    /\ UNCHANGED <<tree, newso, so>>

\* stage_project_snapshot: no snapshot, or one that is refused, stages nothing.
StageNothing ==
    /\ At("snapshot")
    /\ To("launch")
    /\ UNCHANGED <<status, run, files, snap, ad, env, started, excuses>>

\* stage: clear (which may fail again), then the blob, then its metadata.
StageStart ==
    /\ At("snapshot")
    /\ \/ snap' = NoSnap /\ excuses' = excuses \ {"clear"}
       \/ snap' = snap /\ excuses' = Excuse("clear")
    /\ Invalidate
    /\ To("blob")
    /\ UNCHANGED <<status, run, files, env, started>>

StageBlob ==
    /\ At("blob")
    /\ snap' = [snap EXCEPT !.sblob = up.id]
    /\ To("meta")
    /\ UNCHANGED <<status, run, files, ad, env, started, excuses>>

StageMeta ==
    /\ At("meta")
    /\ snap' = [snap EXCEPT !.smeta = up.id]
    /\ To("launch")
    /\ UNCHANGED <<status, run, files, ad, env, started, excuses>>

StageFails ==
    /\ up.pc \in {"blob", "meta"}
    /\ snap' = NoSnap /\ Invalidate
    /\ To("launch")
    /\ UNCHANGED <<status, run, files, env, started, excuses>>

Launch ==
    /\ At("launch")
    /\ status' = "COMPILING"
    /\ run' = [run EXCEPT ![up.id] = [pc |-> "begin", ok |-> FALSE]]
    /\ Release
    /\ UNCHANGED <<files, snap, ad, env, started, excuses>>

\* Thread.start raises: the staged pair stays behind.
LaunchFails == At("launch") /\ Abort /\ UNCHANGED files

(* ---- the compile thread ------------------------------------------------ *)

Begin(u) ==
    /\ run[u].pc = "begin"
    /\ status' = "COMPILING"
    /\ RunTo(u, "build")
    /\ UNCHANGED <<up, files, snap, ad, env, started, excuses>>

\* compile.sh builds what is in core/generated now.
Build(u) ==
    /\ run[u].pc = "build"
    /\ \/ tree # 0 /\ newso' = tree /\ run' = [run EXCEPT ![u] = [pc |-> "stop", ok |-> TRUE]]
       \/ newso' = newso /\ run' = [run EXCEPT ![u] = [pc |-> "stop", ok |-> FALSE]]
    /\ UNCHANGED <<status, up, tree, so, conf, snap, ad, env, started, excuses>>

\* stop_plc returns on the acknowledgement; one that meets a transition is refused.
Stop(u) ==
    /\ run[u].pc = "stop"
    /\ plc' = AfterStop
    /\ excuses' = excuses \cup (IF plc.st = "starting" THEN {"start"} ELSE {})
    /\ RunTo(u, "wait")
    /\ UNCHANGED <<status, up, files, snap, ad, cuts, started>>

\* Seeded fault: no wait for the runtime between the stop and the swap.
MaySweepAtOnce == TRUE

MaySweep == ~Moving

Waited(u) ==
    /\ run[u].pc = "wait" /\ MaySweep
    /\ RunTo(u, "sweep")
    /\ UNCHANGED <<status, up, files, snap, ad, env, started, excuses>>

WaitExpires(u) ==
    /\ run[u].pc = "wait" /\ Moving
    /\ excuses' = excuses \cup {"start"}
    /\ RunTo(u, "sweep")
    /\ UNCHANGED <<status, up, files, snap, ad, env, started>>

\* compile-clean.sh: remove every libplc_*.so, then rename the new one, if any.
Sweep(u) ==
    /\ run[u].pc = "sweep"
    /\ so' = 0
    /\ RunTo(u, "swap")
    /\ UNCHANGED <<status, up, tree, newso, conf, snap, ad, env, started, excuses>>

Swap(u) ==
    /\ run[u].pc = "swap"
    /\ \/ newso # 0 /\ so' = newso /\ newso' = 0 /\ RunTo(u, "judge")
       \/ so' = so /\ newso' = newso /\ run' = [run EXCEPT ![u] = [pc |-> "judge", ok |-> FALSE]]
    /\ UNCHANGED <<status, up, tree, conf, snap, ad, env, started, excuses>>

Judge(u) ==
    /\ run[u].pc = "judge"
    /\ status' = IF run[u].ok THEN "SUCCESS" ELSE "FAILED"
    /\ Judged(u, "recheck")
    /\ UNCHANGED <<up, files, snap, ad, env, started, excuses>>

\* Seeded fault: SUCCESS is not held back until the plugins are registered.
HeldNot(s) == s

\* The thread reads the status back: a handler may have changed it meanwhile.
Held(s) == "COMPILING"

Recheck(u) ==
    /\ run[u].pc = "recheck"
    /\ IF status = "SUCCESS" THEN status' = Held(status) /\ RunTo(u, "register")
                             ELSE status' = status /\ RunTo(u, "finish")
    /\ UNCHANGED <<up, files, snap, ad, env, started, excuses>>

Register(u) ==
    /\ run[u].pc = "register"
    /\ WritePlugins
    /\ RunTo(u, "publish")
    /\ UNCHANGED <<status, up, tree, newso, so, snap, ad, env, started>>

Publish(u) ==
    /\ run[u].pc = "publish"
    /\ status' = "SUCCESS"
    /\ RunTo(u, "finish")
    /\ UNCHANGED <<up, files, snap, ad, env, started, excuses>>

\* Seeded fault: the exception ends the thread, the status stays.
AfterErrorNothing(s) == s

\* The fail-closed guards around the build and around the registration.
AfterError(s) == "FAILED"

RunError(u) ==
    /\ run[u].pc \in {"build", "stop", "wait", "sweep", "register"}
    /\ status' = AfterError(status)
    /\ Judged(u, "finish")
    /\ UNCHANGED <<up, files, snap, ad, env, started, excuses>>

\* Seeded fault: the staged snapshot is promoted whatever the build did.
MayPromoteAlways == TRUE

\* The finally: promote on success, discard on anything else.
MayPromote == status = "SUCCESS"

Finish(u) ==
    /\ run[u].pc = "finish"
    /\ Invalidate
    /\ RunTo(u, CASE ~MayPromote -> "discard"
                  [] MayPromote /\ snap.sblob # 0 /\ snap.smeta # 0 -> "promote1"
                  [] OTHER -> "off")
    /\ UNCHANGED <<status, up, files, snap, env, started, excuses>>

\* os.replace of a file that another handler has cleared raises, like any OSError.
PromoteBlob(u) ==
    /\ run[u].pc = "promote1" /\ snap.sblob # 0
    /\ snap' = [snap EXCEPT !.blob = snap.sblob, !.sblob = 0]
    /\ probe' = Beside
    /\ RunTo(u, "promote2")
    /\ UNCHANGED <<status, up, files, cache, env, started, excuses>>

PromoteMeta(u) ==
    /\ run[u].pc = "promote2" /\ snap.smeta # 0
    /\ snap' = [snap EXCEPT !.meta = snap.smeta, !.smeta = 0]
    /\ probe' = Beside
    /\ RunTo(u, "off")
    /\ UNCHANGED <<status, up, files, cache, env, started, excuses>>

PromoteFails(u) ==
    /\ run[u].pc \in {"promote1", "promote2"}
    /\ RunTo(u, "discard")
    /\ UNCHANGED <<status, up, files, snap, ad, env, started, excuses>>

Discard(u) ==
    /\ run[u].pc = "discard"
    /\ snap' = [snap EXCEPT !.sblob = 0, !.smeta = 0]
    /\ cache' = Unknown /\ probe' = Beside
    /\ RunTo(u, "off")
    /\ UNCHANGED <<status, up, files, env, started, excuses>>

(* ---- discovery replies, the runtime, the editor, power ------------------ *)

\* advertised_fields: an answer that is not cached is read from the disk first ...
ProbeRead ==
    /\ ~probe.on /\ ~cache.known
    /\ probe' = [on |-> TRUE, val |-> IF MidChange THEN 0 ELSE Stored, clean |-> ~MidChange]
    /\ UNCHANGED <<status, up, run, files, snap, cache, env, started, excuses>>

\* ... and cached afterwards.
ProbeStore ==
    /\ probe.on
    /\ cache' = [known |-> TRUE, val |-> probe.val, clean |-> probe.clean]
    /\ probe' = NoProbe
    /\ UNCHANGED <<status, up, run, files, snap, env, started, excuses>>

\* A START from a client, at any time; inside the windows below it can undo the
\* stop that the upload or the build has just made.
StartPlc ==
    /\ plc.st = "stopped"
    /\ plc' = [st |-> "starting", prog |-> 0]
    /\ excuses' = excuses \cup
         (IF up.pc \in {"query", "halt"} \cup Changing
             \/ \E u \in Uploads : run[u].pc \in {"wait", "sweep", "swap"}
          THEN {"start"} ELSE {})
    /\ UNCHANGED <<status, up, run, files, snap, ad, started, cuts>>

PlcSettles ==
    /\ plc' = CASE plc.st = "starting" /\ so # 0 -> [st |-> "running", prog |-> so]
                [] OTHER -> StoppedPlc
    /\ Moving
    /\ UNCHANGED <<status, up, run, files, snap, ad, started, cuts, excuses>>

\* Power goes: what is on the disk stays, the server starts again from nothing.
Cut ==
    /\ cuts < MaxCuts
    /\ cuts' = cuts + 1
    /\ status' = "IDLE" /\ up' = NoHandler
    /\ run' = [u \in Uploads |-> [pc |-> "off", ok |-> FALSE]]
    /\ cache' = Unknown /\ probe' = NoProbe /\ plc' = StoppedPlc
    /\ excuses' = excuses \ {"start"}
    /\ UNCHANGED <<files, snap, started>>

Handler ==
    \/ Inspect \/ Settled \/ NotSettled \/ Query \/ Halted \/ NotHalted \/ AnswerLost
    \/ ClearStart \/ ClearPart \/ Cleared \/ NotCleared \/ Extract \/ ExtractFails
    \/ Install \/ Remove \/ ApplyPlugins \/ ApplyFails
    \/ StageNothing \/ StageStart \/ StageBlob \/ StageMeta \/ StageFails
    \/ Launch \/ LaunchFails

Compile(u) ==
    \/ Begin(u) \/ Build(u) \/ Stop(u) \/ Waited(u) \/ WaitExpires(u) \/ Sweep(u) \/ Swap(u)
    \/ Judge(u) \/ Recheck(u) \/ Register(u) \/ Publish(u) \/ RunError(u) \/ Finish(u)
    \/ PromoteBlob(u) \/ PromoteMeta(u) \/ PromoteFails(u) \/ Discard(u)

Next ==
    \/ Arrive \/ Handler
    \/ \E u \in Uploads : Compile(u)
    \/ ProbeRead \/ ProbeStore \/ StartPlc \/ PlcSettles \/ Cut

Spec == Init /\ [][Next]_vars

(* ---- properties -------------------------------------------------------- *)

Honest == \A c \in Contents : Accepted(c) => Faithful(c)

\* A configuration file that was accepted and is installed means to the core what was
\* checked: "what is validated here is exactly what the core will read back"
\* (plcapp_management.py:596-597, 680-681).
Honoured == \A f \in Files \ {Plugins} : conf[f] # 0 => Honest

Excused(kinds) == excuses \cap kinds # {}

\* The device advertises a stored project only while the program it was built into is
\* the one on the device, archive and metadata of the same upload, also across a power
\* cut between any two steps (project_snapshot.py:18-22).  It may lapse only when an
\* upload met the tail of the previous build, or the store could not be cleared.
SnapshotMatches ==
    Stored # 0 => (snap.blob = so /\ snap.meta = so) \/ Excused({"overlap", "clear"})

\* A cached discovery answer is what the store holds, unless the reply was computed
\* beside a change of the store (project_snapshot.py: advertised_fields).
CacheTrue == cache.known /\ cache.clean => cache.val = Stored

\* Whenever SUCCESS can be read, in the window before the plugins are registered too,
\* the program is there and every configuration file is its own or absent, so that a
\* START sent then runs no half-configured program (plcapp_management.py:825-828).
SuccessConfigured ==
    status = "SUCCESS" /\ ~Excused({"overlap", "plugins"}) =>
        /\ so # 0
        /\ conf[Plugins] = so
        /\ \A f \in Files : conf[f] \in {0, so}

\* When SUCCESS is reported the runtime is not still in the program that the build
\* replaced, unless a START or the 30 s deadline came between the stop and the swap
\* (plcapp_management.py:783-791).
NoOldProgram ==
    status = "SUCCESS" /\ plc.prog # 0 => plc.prog = so \/ Excused({"overlap", "start"})

\* Nothing on the device changes beside a running program (app.py: "Nothing below may
\* run beside the old program"), unless a START or a lost answer came in between; the
\* build of an upload that was overtaken may still be stopping it.
QuietChange ==
    up.pc \in Changing => \/ plc.st = "stopped"
                          \/ Excused({"start"})
                          \/ Excused({"overlap"}) /\ plc.st = "stopping"

\* A new upload gets past the busy check beside a compile thread only in the tail of
\* that thread, never while it builds, swaps the library or registers the plugins.  It
\* lapses once an upload has met such a tail: two threads then write the one status.
BusyHolds ==
    [][At("idle") /\ ~(up'.pc = "idle") =>
           Excused({"overlap"}) \/ \A u \in Active : run[u].pc \in LastSteps]_vars

\* While UNZIPPING or COMPILING is reported some thread is left that will report a
\* verdict, so the client that polls the status is never left waiting (the fail-closed
\* guard of run_compile, plcapp_management.py:737-739).
NeverPinned ==
    status \in {"UNZIPPING", "COMPILING"} =>
        ~At("idle") \/ \E u \in Active : run[u].pc \notin LastSteps

(* ---- what the run checks ------------------------------------------------ *)

\* What discovery advertises is what the device has, and a build reported to be under
\* way is one.
ReportsTrue == TypeOK /\ SnapshotMatches /\ CacheTrue /\ NeverPinned

\* A reported SUCCESS stands over a device that is configured as the upload says.
Configured == SuccessConfigured /\ Honoured

\* No upload changes or leaves a device that still runs the program before it.
OldProgramGone == NoOldProgram /\ QuietChange
=============================================================================
