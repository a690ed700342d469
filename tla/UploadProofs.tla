---------------------------- MODULE UploadProofs ----------------------------
(***************************************************************************)
(* What holds of the upload path (Upload) for every number of uploads and  *)
(* power cuts, every list of configuration files and every content of one: *)
(* the advertised project, the reported verdict and the installed files    *)
(* agree (ReportsTrue, Configured), the old program is gone before anything*)
(* is changed under it (OldProgramGone), and the busy check (BusyHolds).   *)
(*                                                                         *)
(* Most of it rests on one handler or one build being alone, which is so   *)
(* until an upload meets the tail of a build ("overlap") and again from    *)
(* the next upload that empties the store alone.                           *)
(***************************************************************************)
EXTENDS Upload, TLAPS

Clean == "overlap" \notin excuses

\* The steps of the handler after its extraction, and after the last file.
Loaded == {"apply", "snapshot", "blob", "meta", "launch"}
AfterFiles == {"snapshot", "blob", "meta", "launch"}
Emptied == {"extract"} \cup Loaded

\* The handler is that of the last upload; its build has not been started.
HandlerInv ==
    ~At("idle") =>
        /\ up.id = started /\ started # 0 /\ up.k # 0
        /\ up.pc \notin Loaded => up.k = 1

\* No build is older than its upload, and none is the handler's.
BuildInv ==
    \A u \in Active : u <= started /\ (~At("idle") => u # up.id)

\* Alone: the handler, or the build of the last upload.
AloneInv == Clean => \A u \in Active : u = started /\ At("idle")

\* A reply read beside a change of the store is known to be; one that is not is true.
ReplyInv ==
    /\ CacheTrue
    /\ probe.on /\ probe.clean => probe.val = Stored
    /\ MidChange => /\ cache.known => ~cache.clean
                    /\ probe.on => ~probe.clean

\* The status that a build reports while it is alone.
StatusInv ==
    Clean => /\ \A u \in Active : run[u].pc \notin LastSteps => status = "COMPILING"
             /\ status = "SUCCESS" => up.pc \in {"idle", "inspect"}

\* The first n files are those of upload v, or absent.
AppliedTo(v, n) ==
    \A k \in 1 .. n :
        IF Confs[k] = Plugins THEN conf[Plugins] = v \/ "plugins" \in excuses
                              ELSE conf[Confs[k]] \in {0, v}
Applied(v) == AppliedTo(v, Len(Confs))

\* What an upload has put in place when its build begins ...
FilesInv ==
    Clean =>
        /\ up.pc \in Loaded => tree = up.id
        /\ At("apply") => AppliedTo(up.id, up.k - 1)
        /\ up.pc \in AfterFiles => Applied(up.id)
        /\ \A u \in Active : tree = u /\ Applied(u)

\* ... and what a build that went well has.
ProgramInv ==
    Clean =>
        /\ \A u \in Active :
              /\ run[u].ok /\ run[u].pc \in {"stop", "wait", "sweep", "swap"} => newso = u
              /\ run[u].ok /\ run[u].pc = "judge" => so = u
              /\ run[u].pc \in {"register", "publish", "promote1", "promote2"} => so = u
              /\ status = "SUCCESS" => so = u
        /\ status = "SUCCESS" => so # 0 /\ Applied(so)

\* The store between an upload's clear and its promotion.
StoreInv ==
    Clean /\ "clear" \notin excuses =>
        /\ up.pc \in Emptied =>
              snap.blob = 0 /\ snap.meta = 0 /\ {snap.sblob, snap.smeta} \subseteq {0, up.id}
        /\ \A u \in Active :
              /\ snap.meta = 0
              /\ run[u].pc \notin {"promote2", "discard"} => snap.blob = 0
              /\ run[u].pc = "promote2" => snap.blob = u
              /\ run[u].pc # "discard" => {snap.sblob, snap.smeta} \subseteq {0, u}

\* What is advertised is the program on the device.
StoredInv ==
    Clean /\ "clear" \notin excuses /\ Stored # 0 => snap.blob = so /\ snap.meta = so

\* The runtime has a program only while it runs or stops one.
RuntimeInv ==
    /\ plc.prog # 0 => plc.st \in {"running", "stopping"}
    /\ At("query") => \/ plc.st \in {"stopped", "running"}
                      \/ "start" \in excuses
                      \/ ~Clean /\ plc.st = "stopping"

\* The runtime between the stop a build sends and the swap of the library, and after it.
SwapInv ==
    Clean /\ "start" \notin excuses =>
        \A u \in Active :
            /\ run[u].pc = "wait" => plc.st \in {"stopped", "stopping"}
            /\ run[u].pc \in {"sweep", "swap"} => plc.st = "stopped"
            /\ run[u].pc \in {"judge", "register", "publish"} => plc.prog \in {0, so}

\* The runtime when SUCCESS is reported, and while an upload changes the device.
VerdictInv ==
    Clean /\ "start" \notin excuses /\ status = "SUCCESS" => plc.prog \in {0, so}

QuietInv ==
    up.pc \in Changing => \/ plc.st = "stopped" \/ "start" \in excuses
                          \/ ~Clean /\ plc.st = "stopping"

UploadInv ==
    /\ TypeOK /\ HandlerInv /\ BuildInv /\ AloneInv /\ ReplyInv /\ NeverPinned /\ StatusInv
    /\ FilesInv /\ ProgramInv /\ StoreInv /\ StoredInv /\ RuntimeInv /\ SwapInv
    /\ VerdictInv /\ QuietInv

-----------------------------------------------------------------------------
(* What is accepted is what the core makes of the installed file *)

\* A count rounded up to elements of 1 or 8: room for all, and less than one element
\* more.
LEMMA Rounding ==
  ASSUME NEW n \in Nat, NEW w \in {1, 8}, n <= 65536 * w
  PROVE  /\ (n + w - 1) \div w <= 65536
         /\ (((n + w - 1) \div w) * w) - n \in 0 .. w - 1
<1>1. CASE w = 1
  <2>1. (n + 1 - 1) \div 1 = n
    BY SMT
  <2> QED
    BY <1>1, <2>1, SMT
<1>2. CASE w = 8
  <2> DEFINE e == (n + 8 - 1) \div 8
  <2>1. (e * 8) - n \in 0 .. 7
    BY SMT
  <2>2. e \in Int
    BY SMT
  <2>3. ASSUME NEW q \in Int, (q * 8) - n \in 0 .. 7 PROVE q <= 65536
    BY <1>2, <2>3, SMT
  <2>4. e <= 65536
    BY <2>1, <2>2, <2>3, SMT
  <2> QED
    BY <1>2, <2>1, <2>4, SMT
<1> QED
  BY <1>1, <1>2

\* The settings of the retained store reach the core as they were validated.
LEMMA RetainMeans ==
  ASSUME NEW c, c.path \in Paths, IsNumber(c.flush), RetainAccepted(c)
  PROVE  RetainHonoured(c)
<1> DEFINE on == c.enabled \in {"1", "true", "True"}
           path == IF c.path = "" THEN "default" ELSE c.path
           flush == IF c.flush = <<>> THEN 5 ELSE c.flush[1]
           file == RetainInstalled(c)
<1>1. RetainRead(c) = [enabled |-> on, path |-> path, flush |-> flush]
  BY DEF RetainRead
<1>2. flush \in Int
  BY DEF IsNumber
<1>3. on \in BOOLEAN
  OBVIOUS
<1> HIDE DEF on, path, flush
<1>4. on => path \in {"default", "file", "slash"} /\ flush \in 1 .. 3600
  BY <1>1 DEF RetainAccepted, PathAccepted, FlushAccepted
<1>5. on => path # ""
  <2>1. "default" # "" /\ "file" # "" /\ "slash" # ""
    BY Zenon
  <2>2. on => path = "default" \/ path = "file" \/ path = "slash"
    BY <1>4
  <2> QED
    BY <2>1, <2>2, Zenon
<1>6. file = [kind |-> "retain", enabled |-> IF on THEN "1" ELSE "0",
              path |-> path, flush |-> <<flush>>]
  BY <1>1 DEF RetainInstalled
<1>7. /\ file.enabled = (IF on THEN "1" ELSE "0") /\ file.path = path
      /\ file.flush = <<flush>> /\ file.flush[1] = flush /\ file.flush # <<>>
  BY <1>6
<1> HIDE DEF file
<1>8. CoreRetain(file).enabled = (file.enabled \in {"1", "true"} /\ file.path # "")
  BY DEF CoreRetain
<1>9. CoreRetain(file).enabled = on
  BY <1>3, <1>5, <1>7, <1>8, Zenon
<1>10. on => CoreRetain(file).path = path /\ CoreRetain(file).flush = flush
  BY <1>2, <1>4, <1>7 DEF CoreRetain
<1>11. RetainRead(c).enabled = on /\ RetainRead(c).path = path /\ RetainRead(c).flush = flush
  BY <1>1
<1> QED
  BY <1>9, <1>10, <1>11 DEF RetainHonoured, file

\* A table has room for what was asked, whatever its unit.
LEMMA TableMeans ==
  ASSUME NEW c, ImageAccepted(c), \A t \in DOMAIN c.tables : IsNumber(c.tables[t].count),
         NEW t \in Tables
  PROVE  LET core == CoreImage(ImageInstalled(c))
         IN  /\ core[t] <= MaxElements
             /\ (core[t] * PerElement(t)) - ImageRead(c)[t].count[1]
                  \in 0 .. PerElement(t) - 1
<1> DEFINE size == ImageRead(c)[t]
           file == ImageInstalled(c)
           n == size.count[1]
<1>1. CountAccepted(t, size)
  BY DEF ImageAccepted
<1>2. PerElement(t) \in {1, 8}
  BY DEF PerElement
<1>3. n \in 0 .. MaxElements * PerElement(t) /\ size.unit = UnitOf[t] /\ size.count # <<>>
  BY <1>1 DEF CountAccepted, Ceiling
<1>4. /\ file.version = ImageFormat /\ file.tables = ImageRead(c)
      /\ t \in DOMAIN file.tables /\ file.tables[t] = size
  BY DEF ImageInstalled, ImageRead
<1> HIDE DEF n, size, file
<1>5. CoreImage(file)[t] = IF n \in 1 .. MaxElements * PerElement(t)
                           THEN (n + PerElement(t) - 1) \div PerElement(t) ELSE 0
  BY <1>3, <1>4, SMT DEF CoreImage, n
<1> DEFINE e == CoreImage(file)[t]
<1> HIDE DEF e
<1>6. e <= MaxElements /\ (e * PerElement(t)) - n \in 0 .. PerElement(t) - 1
  <2> DEFINE w == PerElement(t)
  <2>1. w \in {1, 8}
    BY <1>2
  <2> HIDE DEF w
  <2>2. n \in Nat /\ n <= 65536 * w
    BY <1>3, <2>1 DEF MaxElements, w
  <2>3. CASE n = 0
    <3>1. e = 0
      BY <1>5, <2>3, SMT DEF e
    <3> QED
      BY <2>1, <2>3, <3>1 DEF MaxElements, w
  <2>4. CASE n # 0
    <3>1. n \in 1 .. MaxElements * w
      BY <2>1, <2>2, <2>4 DEF MaxElements
    <3>2. e = (n + w - 1) \div w
      BY <1>5, <3>1, SMT DEF e, w
    <3> HIDE DEF e
    <3>3. /\ (n + w - 1) \div w <= 65536
          /\ (((n + w - 1) \div w) * w) - n \in 0 .. w - 1
      BY <2>1, <2>2, Rounding, SMT
    <3> QED
      BY <3>2, <3>3, SMT DEF MaxElements, w
  <2> QED
    BY <2>3, <2>4
<1> QED
  BY <1>6 DEF e, n, size, file

\* Every plugin of an accepted file is loaded, and its configuration outlives build/.
LEMMA VppMeans ==
  ASSUME NEW c, VppAccepted(c),
         c.plugins \subseteq [name : STRING, object : Places, config : Places,
                              delivered : BOOLEAN, plain : BOOLEAN]
  PROVE  VppHonoured(c)
<1> SUFFICES ASSUME NEW p \in c.plugins, p.object # "dotted"
             PROVE  \E q \in CoreVpp(VppInstalled(c)) :
                       /\ [q EXCEPT !.config = p.config] = p
                       /\ p.config # "" /\ p.delivered /\ p.plain => q.config = "persistent"
  BY DEF VppHonoured
<1>1. p.object = "build"
  BY DEF VppAccepted
<1>2. p \in [name : STRING, object : Places, config : Places,
             delivered : BOOLEAN, plain : BOOLEAN]
  OBVIOUS
<1> DEFINE q == Moved(p)
<1>3. q \in VppInstalled(c).plugins
  BY DEF VppInstalled
<1>4. q.object = "build"
  BY <1>1, <1>2 DEF Moved
<1>5. [q EXCEPT !.config = p.config] = p
  BY <1>2 DEF Moved
<1>6. p.config # "" /\ p.delivered /\ p.plain => q.config = "persistent"
  BY <1>2 DEF Moved
<1>7. q \in CoreVpp(VppInstalled(c))
  BY <1>3, <1>4 DEF CoreVpp
<1> QED
  BY <1>5, <1>6, <1>7

\* Any content that the web server accepts means to the core what was checked, whatever
\* the numbers in it ("what is validated here is exactly what the core will read back").
THEOREM AcceptedFaithful ==
  ASSUME NEW c, WellFormed(c), Accepted(c)
  PROVE  Faithful(c)
<1>1. CASE c.kind = "retain"
  <2>1. c.path \in Paths /\ IsNumber(c.flush) /\ RetainAccepted(c)
    BY <1>1 DEF WellFormed, Accepted
  <2> QED
    BY <1>1, <2>1, RetainMeans DEF Faithful
<1>2. CASE c.kind = "image"
  <2>1. ImageAccepted(c) /\ \A t \in DOMAIN c.tables : IsNumber(c.tables[t].count)
    BY <1>2 DEF WellFormed, Accepted
  <2>2. ImageHonoured(c)
    BY <2>1, TableMeans DEF ImageHonoured
  <2> QED
    BY <1>2, <2>2 DEF Faithful
<1>3. CASE c.kind = "vpp"
  <2>1. /\ VppAccepted(c)
        /\ c.plugins \subseteq [name : STRING, object : Places, config : Places,
                                delivered : BOOLEAN, plain : BOOLEAN]
    BY <1>3 DEF WellFormed, Accepted
  <2> QED
    BY <1>3, <2>1, VppMeans DEF Faithful
<1> QED
  BY <1>1, <1>2, <1>3 DEF WellFormed

-----------------------------------------------------------------------------
(* The invariant *)

\* The types, in parts.
UpType == up \in [pc : HandlerSteps, id : Version, k : 0 .. Len(Confs)]
RunType == run \in [Uploads -> [pc : RunSteps, ok : BOOLEAN]]

TWork ==
    /\ status \in {"IDLE", "UNZIPPING", "COMPILING", "SUCCESS", "FAILED"}
    /\ UpType /\ RunType /\ started \in Version

TDisk ==
    /\ tree \in Version /\ newso \in Version /\ so \in Version
    /\ conf \in [Files -> Version]
    /\ snap \in [blob : Version, meta : Version, sblob : Version, smeta : Version]

TRest ==
    /\ cache \in [known : BOOLEAN, val : Version, clean : BOOLEAN]
    /\ probe \in [on : BOOLEAN, val : Version, clean : BOOLEAN]
    /\ plc \in [st : {"stopped", "starting", "running", "stopping"}, prog : Version]
    /\ cuts \in 0 .. MaxCuts
    /\ excuses \subseteq {"overlap", "clear", "plugins", "start"}

\* What the invariant says, in parts.
LEMMA InvParts ==
  /\ UploadInv <=>
       /\ TWork /\ TDisk /\ TRest /\ HandlerInv /\ BuildInv /\ AloneInv /\ ReplyInv
       /\ NeverPinned /\ StatusInv /\ FilesInv /\ ProgramInv /\ StoreInv /\ StoredInv
       /\ RuntimeInv /\ SwapInv /\ VerdictInv /\ QuietInv
  /\ UploadInv' <=>
       (/\ TWork /\ TDisk /\ TRest /\ HandlerInv /\ BuildInv /\ AloneInv /\ ReplyInv
        /\ NeverPinned /\ StatusInv /\ FilesInv /\ ProgramInv /\ StoreInv /\ StoredInv
        /\ RuntimeInv /\ SwapInv /\ VerdictInv /\ QuietInv)'
<1>1. TypeOK <=> TWork /\ TDisk /\ TRest
  BY Zenon DEF TypeOK, TWork, TDisk, TRest, UpType, RunType
<1>2. TypeOK' <=> TWork' /\ TDisk' /\ TRest'
  BY Zenon DEF TypeOK, TWork, TDisk, TRest, UpType, RunType
<1> QED
  BY <1>1, <1>2, Zenon DEF UploadInv

\* The bounds, and the list of the files.
LEMMA Numbers ==
  /\ MaxUploads \in Nat \ {0} /\ MaxCuts \in Nat
  /\ Len(Confs) \in Nat \ {0} /\ Plugins \in Files
  /\ \A k \in 1 .. Len(Confs) : Confs[k] \in Files
<1>1. DOMAIN Confs = 1 .. Len(Confs) /\ Len(Confs) \in Nat
  BY UploadAssumption
<1>2. PICK k \in 1 .. Len(Confs) : Confs[k] = Plugins
  BY <1>1, UploadAssumption
<1>3. Len(Confs) # 0
  BY <1>1, <1>2
<1> QED
  BY <1>1, <1>2, <1>3, UploadAssumption DEF Files

\* The handler goes on ...
LEMMA ToMoves ==
  ASSUME UpType, NEW step \in HandlerSteps, To(step)
  PROVE  UpType' /\ up'.pc = step /\ up'.id = up.id /\ up'.k = up.k
  BY DEF UpType, To

\* ... takes the next file ...
LEMMA NextMoves ==
  ASSUME UpType, At("apply"), up' = NextFile
  PROVE  /\ UpType' /\ up'.id = up.id
         /\ \/ up.k = Len(Confs) /\ up'.pc = "snapshot" /\ up'.k = up.k
            \/ up.k < Len(Confs) /\ up'.pc = "apply" /\ up'.k = up.k + 1
<1>1. "snapshot" \in HandlerSteps
  BY DEF HandlerSteps
<1>2. CASE up.k = Len(Confs)
  BY <1>1, <1>2, Numbers DEF UpType, NextFile
<1>3. CASE up.k # Len(Confs)
  <2>1. up' = [up EXCEPT !.k = up.k + 1]
    BY <1>3 DEF NextFile
  <2>2. up.k + 1 \in 0 .. Len(Confs) /\ up.k < Len(Confs)
    BY <1>3, Numbers DEF UpType
  <2> QED
    BY <2>1, <2>2 DEF UpType, At
<1> QED
  BY <1>2, <1>3

\* ... or gives the lock back.
LEMMA Idled ==
  ASSUME Release \/ up' = NoHandler
  PROVE  UpType' /\ up'.pc = "idle"
  BY Numbers DEF Release, NoHandler, UpType, HandlerSteps, Version

\* A build goes on, and the others stay where they are.
LEMMA RunMoves ==
  ASSUME RunType, NEW u \in Uploads, NEW step \in RunSteps, RunTo(u, step)
  PROVE  /\ RunType' /\ run'[u].pc = step /\ run'[u].ok = run[u].ok
         /\ \A v \in Uploads : v # u => run'[v] = run[v]
<1>1. run' = [run EXCEPT ![u] = [run[u] EXCEPT !.pc = step]]
  BY DEF RunTo
<1>2. run[u] \in [pc : RunSteps, ok : BOOLEAN]
  BY DEF RunType
<1> DEFINE r == [run[u] EXCEPT !.pc = step]
<1>3. r \in [pc : RunSteps, ok : BOOLEAN] /\ r.pc = step /\ r.ok = run[u].ok
  BY <1>2
<1> HIDE DEF r
<1>4. run' = [run EXCEPT ![u] = r]
  BY <1>1 DEF r
<1> QED
  BY <1>3, <1>4 DEF RunType

\* The run starts with an empty device.
LEMMA InvInit == Init => UploadInv
<1> SUFFICES ASSUME Init PROVE UploadInv
  OBVIOUS
<1>1. TWork
  BY Numbers DEF Init, TWork, UpType, RunType, NoHandler, HandlerSteps, RunSteps, Version
<1>2. TDisk /\ TRest
  BY Numbers DEF Init, TDisk, TRest, NoSnap, Unknown, NoProbe, StoppedPlc, Version
<1>3. Active = {} /\ up.pc = "idle"
  BY DEF Init, Active, NoHandler
<1>4. HandlerInv /\ BuildInv /\ AloneInv /\ NeverPinned /\ StatusInv
  BY <1>3 DEF Init, HandlerInv, BuildInv, AloneInv, NeverPinned, StatusInv, At
<1>5. ReplyInv
  BY DEF Init, ReplyInv, CacheTrue, MidChange, At, NoHandler, Unknown, NoProbe
<1>6. FilesInv /\ ProgramInv /\ StoreInv /\ StoredInv
  BY <1>3 DEF Init, FilesInv, ProgramInv, StoreInv, StoredInv, Stored, NoSnap, At,
       Loaded, AfterFiles, Emptied
<1>7. RuntimeInv /\ SwapInv /\ VerdictInv /\ QuietInv
  BY <1>3 DEF Init, RuntimeInv, SwapInv, VerdictInv, QuietInv, StoppedPlc, At, Changing
<1> QED
  BY <1>1, <1>2, <1>4, <1>5, <1>6, <1>7, InvParts, Zenon

\* Every step of the handler, of a build, of discovery, the runtime and the power keeps
\* the invariant.
LEMMA InvNext == UploadInv /\ [Next]_vars => UploadInv'
<1> SUFFICES ASSUME UploadInv, [Next]_vars PROVE UploadInv'
  OBVIOUS
<1>1. /\ TWork /\ TDisk /\ TRest /\ HandlerInv /\ BuildInv /\ AloneInv /\ ReplyInv
      /\ NeverPinned /\ StatusInv /\ FilesInv /\ ProgramInv /\ StoreInv /\ StoredInv
      /\ RuntimeInv /\ SwapInv /\ VerdictInv /\ QuietInv
  BY InvParts
<1>2. CASE Arrive
  <2>0. UpType' /\ up'.pc = "inspect" /\ up'.id = started + 1 /\ up'.k = 1
    <3>1. up' = [pc |-> "inspect", id |-> started + 1, k |-> 1]
      BY <1>2 DEF Arrive
    <3>2. started + 1 \in Version /\ 1 \in 0 .. Len(Confs) /\ "inspect" \in HandlerSteps
      BY <1>2, <1>1, Numbers DEF Arrive, TWork, Version, HandlerSteps
    <3> QED
      BY <3>1, <3>2 DEF UpType
  <2>1. HandlerInv'
    BY <1>2, <1>1, <2>0, Numbers
       DEF Arrive, MayArrive, files, ad, env, HandlerInv, At, Loaded, TWork, UpType, Version
  <2>2. TWork'
    BY <1>2, <1>1, <2>0, Numbers
       DEF Arrive, MayArrive, files, ad, env, TWork, UpType, RunType, Version
  <2>3. BuildInv'
    BY <1>2, <1>1, <2>0, Numbers
       DEF Arrive, MayArrive, files, ad, env, BuildInv, Active, At, TWork, HandlerInv,
           Version, Loaded, Uploads
  <2>4. AloneInv'
    BY <1>2, <1>1, <2>0, Numbers
       DEF Arrive, MayArrive, files, ad, env, AloneInv, Clean, Active, At, TWork,
           HandlerInv, BuildInv
  <2>5. TRest'
    BY <1>2, <1>1, <2>0, Numbers
       DEF Arrive, MayArrive, files, ad, env, TRest, Version, TDisk, Stored
  <2>6. ReplyInv'
    BY <1>2, <1>1, <2>0, Numbers
       DEF Arrive, MayArrive, files, ad, env, ReplyInv, CacheTrue, Stored, MidChange, At,
           TDisk
  <2>7. NeverPinned' /\ StatusInv'
    BY <1>2, <1>1, <2>0, Numbers
       DEF Arrive, MayArrive, files, ad, env, NeverPinned, Active, At, LastSteps, StatusInv,
           Clean, AloneInv
  <2>8. FilesInv' /\ ProgramInv'
    BY <1>2, <1>1, <2>0, Numbers
       DEF Arrive, MayArrive, files, ad, env, FilesInv, Clean, Active, At, Loaded,
           AfterFiles, AppliedTo, Applied, ProgramInv, AloneInv, HandlerInv, BuildInv,
           TWork, UpType, StatusInv, LastSteps
  <2>9. StoreInv' /\ StoredInv'
    BY <1>2, <1>1, <2>0, Numbers
       DEF Arrive, MayArrive, files, ad, env, StoreInv, Clean, Active, Emptied, Loaded,
           StoredInv, Stored, AloneInv, HandlerInv, At, TDisk, ProgramInv
  <2>10. RuntimeInv' /\ QuietInv' /\ SwapInv' /\ VerdictInv'
    BY <1>2, <1>1, <2>0, Numbers
       DEF Arrive, MayArrive, files, ad, env, RuntimeInv, Clean, At, QuietInv, Changing,
           SwapInv, Active, VerdictInv, TRest, AloneInv, StatusInv, LastSteps
  <2>11. TDisk'
    BY <1>2, <1>1 DEF Arrive, files, ad, env, TDisk
  <2> QED
    BY <2>1, <2>2, <2>3, <2>4, <2>5, <2>6, <2>7, <2>8, <2>9, <2>10, <2>11, InvParts, Zenon
<1>3. CASE Inspect
  <2>0. /\ UpType'
        /\ \/ status' = "UNZIPPING" /\ up'.pc = "settle" /\ up'.id = up.id /\ up'.k = up.k
           \/ status' = "FAILED" /\ up'.pc = "idle"
    <3>1. \/ status' = "UNZIPPING" /\ To("settle") /\ "settle" \in HandlerSteps
          \/ status' = "FAILED" /\ Release
      BY <1>3 DEF Inspect, HandlerSteps
    <3> QED
      BY <1>1, <3>1, ToMoves, Idled DEF TWork
  <2>1. TWork' /\ HandlerInv' /\ BuildInv' /\ AloneInv'
    BY <1>3, <1>1, <2>0, Numbers
       DEF Inspect, files, ad, env, TWork, UpType, RunType, HandlerInv, At, Loaded,
           BuildInv, Active, AloneInv, Clean, Version, Uploads
  <2>2. TRest'
    BY <1>3, <1>1, <2>0, Numbers DEF Inspect, files, ad, env, TRest, Version, TDisk, Stored
  <2>3. ReplyInv'
    BY <1>3, <1>1, <2>0, Numbers
       DEF Inspect, files, ad, env, ReplyInv, CacheTrue, Stored, MidChange, At, TDisk
  <2>4. NeverPinned' /\ StatusInv'
    BY <1>3, <1>1, <2>0, Numbers
       DEF Inspect, files, ad, env, NeverPinned, Active, At, LastSteps, StatusInv, Clean,
           AloneInv
  <2>5. FilesInv' /\ ProgramInv'
    BY <1>3, <1>1, <2>0, Numbers
       DEF Inspect, files, ad, env, FilesInv, Clean, Active, At, Loaded, AfterFiles,
           AppliedTo, Applied, ProgramInv, AloneInv, HandlerInv, BuildInv, TWork, UpType,
           StatusInv, LastSteps
  <2>6. StoreInv' /\ StoredInv'
    BY <1>3, <1>1, <2>0, Numbers
       DEF Inspect, files, ad, env, StoreInv, Clean, Active, Emptied, Loaded, StoredInv,
           Stored, AloneInv, HandlerInv, At, TDisk, ProgramInv
  <2>7. RuntimeInv' /\ QuietInv' /\ SwapInv' /\ VerdictInv'
    BY <1>3, <1>1, <2>0, Numbers
       DEF Inspect, files, ad, env, RuntimeInv, Clean, At, QuietInv, Changing, SwapInv,
           Active, VerdictInv, TRest, AloneInv, StatusInv, LastSteps
  <2>8. TDisk'
    BY <1>3, <1>1 DEF Inspect, files, ad, env, TDisk
  <2> QED
    BY <2>1, <2>2, <2>3, <2>4, <2>5, <2>6, <2>7, <2>8, InvParts, Zenon
<1>4. CASE Settled
  <2>0. UpType' /\ up'.pc = "query" /\ up'.id = up.id /\ up'.k = up.k
    <3>1. To("query") /\ "query" \in HandlerSteps
      BY <1>4 DEF Settled, HandlerSteps
    <3> QED
      BY <1>1, <3>1, ToMoves DEF TWork
  <2>1. TWork' /\ HandlerInv' /\ BuildInv' /\ AloneInv'
    BY <1>4, <1>1, <2>0, Numbers
       DEF Settled, Moving, files, ad, env, TWork, UpType, RunType, HandlerInv, At, Loaded,
           BuildInv, Active, AloneInv, Clean, Version, Uploads
  <2>2. ReplyInv'
    BY <1>4, <1>1, <2>0, Numbers
       DEF Settled, Moving, files, ad, env, ReplyInv, CacheTrue, Stored, MidChange, At,
           TDisk
  <2>3. NeverPinned' /\ StatusInv'
    BY <1>4, <1>1, <2>0, Numbers
       DEF Settled, Moving, files, ad, env, NeverPinned, Active, At, LastSteps, StatusInv,
           Clean, AloneInv
  <2>4. FilesInv'
    BY <1>4, <1>1, <2>0, Numbers
       DEF Settled, Moving, files, ad, env, FilesInv, Clean, Active, At, Loaded, AfterFiles,
           AppliedTo, Applied, AloneInv, HandlerInv, BuildInv, TWork, UpType
  <2>5. StoreInv'
    BY <1>4, <1>1, <2>0, Numbers
       DEF Settled, Moving, files, ad, env, StoreInv, Clean, Active, Emptied, Loaded,
           AloneInv, HandlerInv, At, TDisk
  <2>6. RuntimeInv' /\ QuietInv'
    BY <1>4, <1>1, <2>0, Numbers
       DEF Settled, Moving, files, ad, env, RuntimeInv, Clean, At, QuietInv, Changing,
           TRest, AloneInv, Active
  <2>7. TDisk' /\ TRest' /\ ProgramInv' /\ StoredInv' /\ SwapInv' /\ VerdictInv'
    BY <1>4, <1>1
       DEF Settled, files, ad, env, TDisk, TRest, Version, ProgramInv, Clean, Active,
           AppliedTo, Applied, StoredInv, Stored, SwapInv, VerdictInv
  <2> QED
    BY <2>1, <2>2, <2>3, <2>4, <2>5, <2>6, <2>7, InvParts, Zenon
<1>5. CASE NotSettled
  <2>0. UpType' /\ up'.pc = "idle"
    <3>1. Release
      BY <1>5 DEF NotSettled, Abort
    <3> QED
      BY <3>1, Idled
  <2>1. TWork' /\ HandlerInv' /\ BuildInv' /\ AloneInv'
    BY <1>5, <1>1, <2>0, Numbers
       DEF NotSettled, Abort, Moving, files, ad, env, TWork, UpType, RunType, HandlerInv,
           At, Loaded, BuildInv, Active, AloneInv, Clean, Version, Uploads
  <2>2. ReplyInv'
    BY <1>5, <1>1, <2>0, Numbers
       DEF NotSettled, Abort, Moving, files, ad, env, ReplyInv, CacheTrue, Stored,
           MidChange, At, TDisk
  <2>3. NeverPinned' /\ StatusInv'
    BY <1>5, <1>1, <2>0, Numbers
       DEF NotSettled, Abort, Moving, files, ad, env, NeverPinned, Active, At, LastSteps,
           StatusInv, Clean, AloneInv
  <2>4. FilesInv' /\ ProgramInv'
    BY <1>5, <1>1, <2>0, Numbers
       DEF NotSettled, Abort, Moving, files, ad, env, FilesInv, Clean, Active, At, Loaded,
           AfterFiles, AppliedTo, Applied, ProgramInv, AloneInv, HandlerInv, BuildInv,
           TWork, UpType, StatusInv, LastSteps
  <2>5. StoreInv'
    BY <1>5, <1>1, <2>0, Numbers
       DEF NotSettled, Abort, Moving, files, ad, env, StoreInv, Clean, Active, Emptied,
           Loaded, AloneInv, HandlerInv, At, TDisk
  <2>6. RuntimeInv' /\ QuietInv' /\ VerdictInv'
    BY <1>5, <1>1, <2>0, Numbers
       DEF NotSettled, Abort, Moving, files, ad, env, RuntimeInv, Clean, At, QuietInv,
           Changing, VerdictInv, TRest, AloneInv, Active, StatusInv, LastSteps, SwapInv
  <2>7. TDisk' /\ TRest' /\ StoredInv' /\ SwapInv'
    BY <1>5, <1>1
       DEF NotSettled, Abort, files, ad, env, TDisk, TRest, Version, StoredInv, Clean,
           Stored, SwapInv, Active
  <2> QED
    BY <2>1, <2>2, <2>3, <2>4, <2>5, <2>6, <2>7, InvParts, Zenon
<1>6. CASE Query
  <2>0. /\ UpType' /\ up'.id = up.id /\ up'.k = up.k
        /\ \/ /\ plc.st = "running" /\ plc'.st = "stopping" /\ plc'.prog = plc.prog
              /\ up'.pc = "halt"
           \/ plc.st # "running" /\ plc' = plc /\ up'.pc = "clear"
    <3>1. {"halt", "clear"} \subseteq HandlerSteps
      BY DEF HandlerSteps
    <3>2. CASE plc.st = "running"
      <4>1. To("halt") /\ plc' = [plc EXCEPT !.st = "stopping"]
        BY <1>6, <3>2 DEF Query, MustHalt, AfterStop
      <4>2. plc'.st = "stopping" /\ plc'.prog = plc.prog
        BY <1>1, <4>1 DEF TRest
      <4> QED
        BY <1>1, <3>1, <3>2, <4>1, <4>2, ToMoves DEF TWork
    <3>3. CASE plc.st # "running"
      <4>1. To("clear") /\ plc' = plc
        BY <1>6, <3>3 DEF Query, MustHalt
      <4> QED
        BY <1>1, <3>1, <3>3, <4>1, ToMoves DEF TWork
    <3> QED
      BY <3>2, <3>3
  <2>1. TWork' /\ HandlerInv' /\ BuildInv' /\ AloneInv'
    BY <1>6, <1>1, <2>0, Numbers
       DEF Query, MustHalt, AfterStop, files, ad, TWork, UpType, RunType, HandlerInv, At,
           Loaded, BuildInv, Active, AloneInv, Clean, Version, Uploads
  <2>2. TRest'
    BY <1>6, <1>1, <2>0, Numbers
       DEF Query, MustHalt, AfterStop, files, ad, TRest, Version, TDisk, Stored
  <2>3. ReplyInv'
    BY <1>6, <1>1, <2>0, Numbers
       DEF Query, MustHalt, AfterStop, files, ad, ReplyInv, CacheTrue, Stored, MidChange,
           At, TDisk
  <2>4. NeverPinned' /\ StatusInv'
    BY <1>6, <1>1, <2>0, Numbers
       DEF Query, MustHalt, AfterStop, files, ad, NeverPinned, Active, At, LastSteps,
           StatusInv, Clean, AloneInv
  <2>5. FilesInv'
    BY <1>6, <1>1, <2>0, Numbers
       DEF Query, MustHalt, AfterStop, files, ad, FilesInv, Clean, Active, At, Loaded,
           AfterFiles, AppliedTo, Applied, AloneInv, HandlerInv, BuildInv, TWork, UpType
  <2>6. StoreInv'
    BY <1>6, <1>1, <2>0, Numbers
       DEF Query, MustHalt, AfterStop, files, ad, StoreInv, Clean, Active, Emptied, Loaded,
           AloneInv, HandlerInv, At, TDisk
  <2>7. RuntimeInv' /\ QuietInv' /\ SwapInv' /\ VerdictInv'
    BY <1>6, <1>1, <2>0, Numbers
       DEF Query, MustHalt, AfterStop, files, ad, RuntimeInv, Clean, At, QuietInv, Changing,
           SwapInv, Active, VerdictInv, TRest, AloneInv, StatusInv, LastSteps
  <2>8. TDisk' /\ ProgramInv' /\ StoredInv'
    BY <1>6, <1>1
       DEF Query, files, ad, TDisk, ProgramInv, Clean, Active, AppliedTo, Applied,
           StoredInv, Stored
  <2> QED
    BY <2>1, <2>2, <2>3, <2>4, <2>5, <2>6, <2>7, <2>8, InvParts, Zenon
<1>7. CASE Halted
  <2>0. UpType' /\ up'.pc = "clear" /\ up'.id = up.id /\ up'.k = up.k
    <3>1. To("clear") /\ "clear" \in HandlerSteps
      BY <1>7 DEF Halted, HandlerSteps
    <3> QED
      BY <1>1, <3>1, ToMoves DEF TWork
  <2>1. TWork' /\ HandlerInv' /\ BuildInv' /\ AloneInv'
    BY <1>7, <1>1, <2>0, Numbers
       DEF Halted, MayGoOn, files, ad, env, TWork, UpType, RunType, HandlerInv, At, Loaded,
           BuildInv, Active, AloneInv, Clean, Version, Uploads
  <2>2. ReplyInv'
    BY <1>7, <1>1, <2>0, Numbers
       DEF Halted, MayGoOn, files, ad, env, ReplyInv, CacheTrue, Stored, MidChange, At,
           TDisk
  <2>3. NeverPinned' /\ StatusInv'
    BY <1>7, <1>1, <2>0, Numbers
       DEF Halted, MayGoOn, files, ad, env, NeverPinned, Active, At, LastSteps, StatusInv,
           Clean, AloneInv
  <2>4. FilesInv'
    BY <1>7, <1>1, <2>0, Numbers
       DEF Halted, MayGoOn, files, ad, env, FilesInv, Clean, Active, At, Loaded, AfterFiles,
           AppliedTo, Applied, AloneInv, HandlerInv, BuildInv, TWork, UpType
  <2>5. StoreInv'
    BY <1>7, <1>1, <2>0, Numbers
       DEF Halted, MayGoOn, files, ad, env, StoreInv, Clean, Active, Emptied, Loaded,
           AloneInv, HandlerInv, At, TDisk
  <2>6. RuntimeInv' /\ QuietInv'
    BY <1>7, <1>1, <2>0, Numbers
       DEF Halted, MayGoOn, files, ad, env, RuntimeInv, Clean, At, QuietInv, Changing,
           TRest, AloneInv, Active
  <2>7. TDisk' /\ TRest' /\ ProgramInv' /\ StoredInv' /\ SwapInv' /\ VerdictInv'
    BY <1>7, <1>1
       DEF Halted, files, ad, env, TDisk, TRest, Version, ProgramInv, Clean, Active,
           AppliedTo, Applied, StoredInv, Stored, SwapInv, VerdictInv
  <2> QED
    BY <2>1, <2>2, <2>3, <2>4, <2>5, <2>6, <2>7, InvParts, Zenon
<1>8. CASE NotHalted
  <2>0. UpType' /\ up'.pc = "idle"
    <3>1. Release
      BY <1>8 DEF NotHalted, Abort
    <3> QED
      BY <3>1, Idled
  <2>1. TWork' /\ HandlerInv' /\ BuildInv' /\ AloneInv'
    BY <1>8, <1>1, <2>0, Numbers
       DEF NotHalted, Abort, files, ad, env, TWork, UpType, RunType, HandlerInv, At, Loaded,
           BuildInv, Active, AloneInv, Clean, Version, Uploads
  <2>2. ReplyInv'
    BY <1>8, <1>1, <2>0, Numbers
       DEF NotHalted, Abort, files, ad, env, ReplyInv, CacheTrue, Stored, MidChange, At,
           TDisk
  <2>3. NeverPinned' /\ StatusInv'
    BY <1>8, <1>1, <2>0, Numbers
       DEF NotHalted, Abort, files, ad, env, NeverPinned, Active, At, LastSteps, StatusInv,
           Clean, AloneInv
  <2>4. FilesInv' /\ ProgramInv'
    BY <1>8, <1>1, <2>0, Numbers
       DEF NotHalted, Abort, files, ad, env, FilesInv, Clean, Active, At, Loaded,
           AfterFiles, AppliedTo, Applied, ProgramInv, AloneInv, HandlerInv, BuildInv,
           TWork, UpType, StatusInv, LastSteps
  <2>5. StoreInv'
    BY <1>8, <1>1, <2>0, Numbers
       DEF NotHalted, Abort, files, ad, env, StoreInv, Clean, Active, Emptied, Loaded,
           AloneInv, HandlerInv, At, TDisk
  <2>6. RuntimeInv' /\ QuietInv' /\ VerdictInv'
    BY <1>8, <1>1, <2>0, Numbers
       DEF NotHalted, Abort, files, ad, env, RuntimeInv, Clean, At, QuietInv, Changing,
           VerdictInv, TRest, AloneInv, Active, StatusInv, LastSteps, SwapInv
  <2>7. TDisk' /\ TRest' /\ StoredInv' /\ SwapInv'
    BY <1>8, <1>1
       DEF NotHalted, Abort, files, ad, env, TDisk, TRest, Version, StoredInv, Clean,
           Stored, SwapInv, Active
  <2> QED
    BY <2>1, <2>2, <2>3, <2>4, <2>5, <2>6, <2>7, InvParts, Zenon
<1>9. CASE AnswerLost
  <2>0. UpType' /\ up'.pc = "clear" /\ up'.id = up.id /\ up'.k = up.k
    <3>1. To("clear") /\ "clear" \in HandlerSteps
      BY <1>9 DEF AnswerLost, HandlerSteps
    <3> QED
      BY <1>1, <3>1, ToMoves DEF TWork
  <2>1. TWork' /\ HandlerInv' /\ BuildInv' /\ AloneInv'
    BY <1>9, <1>1, <2>0, Numbers
       DEF AnswerLost, files, ad, env, TWork, UpType, RunType, HandlerInv, At, Loaded,
           BuildInv, Active, AloneInv, Clean, Version, Uploads
  <2>2. TRest'
    BY <1>9, <1>1, <2>0, Numbers DEF AnswerLost, files, ad, env, TRest, Version, TDisk, Stored
  <2>3. ReplyInv'
    BY <1>9, <1>1, <2>0, Numbers
       DEF AnswerLost, files, ad, env, ReplyInv, CacheTrue, Stored, MidChange, At, TDisk
  <2>4. NeverPinned' /\ StatusInv'
    BY <1>9, <1>1, <2>0, Numbers
       DEF AnswerLost, files, ad, env, NeverPinned, Active, At, LastSteps, StatusInv, Clean,
           AloneInv
  <2>5. FilesInv' /\ ProgramInv'
    BY <1>9, <1>1, <2>0, Numbers
       DEF AnswerLost, files, ad, env, FilesInv, Clean, Active, At, Loaded, AfterFiles,
           AppliedTo, Applied, ProgramInv, AloneInv, HandlerInv, BuildInv, TWork, UpType,
           StatusInv, LastSteps
  <2>6. StoreInv' /\ StoredInv'
    BY <1>9, <1>1, <2>0, Numbers
       DEF AnswerLost, files, ad, env, StoreInv, Clean, Active, Emptied, Loaded, StoredInv,
           Stored, AloneInv, HandlerInv, At, TDisk, ProgramInv
  <2>7. RuntimeInv' /\ QuietInv' /\ SwapInv' /\ VerdictInv'
    BY <1>9, <1>1, <2>0, Numbers
       DEF AnswerLost, files, ad, env, RuntimeInv, Clean, At, QuietInv, Changing, SwapInv,
           Active, VerdictInv, TRest, AloneInv, StatusInv, LastSteps
  <2>8. TDisk'
    BY <1>9, <1>1 DEF AnswerLost, files, ad, env, TDisk
  <2> QED
    BY <2>1, <2>2, <2>3, <2>4, <2>5, <2>6, <2>7, <2>8, InvParts, Zenon
<1>10. CASE ClearStart
  <2>0. UpType' /\ up'.pc = "clearing" /\ up'.id = up.id /\ up'.k = up.k
    <3>1. To("clearing") /\ "clearing" \in HandlerSteps
      BY <1>10 DEF ClearStart, HandlerSteps
    <3> QED
      BY <1>1, <3>1, ToMoves DEF TWork
  <2>1. TWork' /\ HandlerInv' /\ BuildInv' /\ AloneInv'
    BY <1>10, <1>1, <2>0, Numbers
       DEF ClearStart, Invalidate, Beside, Unknown, files, env, TWork, UpType, RunType,
           HandlerInv, At, Loaded, BuildInv, Active, AloneInv, Clean, Version, Uploads
  <2>2. TRest'
    BY <1>10, <1>1, <2>0, Numbers
       DEF ClearStart, Invalidate, Beside, Unknown, files, env, TRest, Version, TDisk,
           Stored
  <2>3. ReplyInv'
    BY <1>10, <1>1, <2>0, Numbers
       DEF ClearStart, Invalidate, Beside, Unknown, files, env, ReplyInv, CacheTrue, Stored,
           MidChange, At, TDisk
  <2>4. NeverPinned' /\ StatusInv'
    BY <1>10, <1>1, <2>0, Numbers
       DEF ClearStart, Invalidate, Beside, Unknown, files, env, NeverPinned, Active, At,
           LastSteps, StatusInv, Clean, AloneInv
  <2>5. FilesInv'
    BY <1>10, <1>1, <2>0, Numbers
       DEF ClearStart, Invalidate, Beside, Unknown, files, env, FilesInv, Clean, Active, At,
           Loaded, AfterFiles, AppliedTo, Applied, AloneInv, HandlerInv, BuildInv, TWork,
           UpType
  <2>6. StoreInv'
    BY <1>10, <1>1, <2>0, Numbers
       DEF ClearStart, Invalidate, Beside, Unknown, files, env, StoreInv, Clean, Active,
           Emptied, Loaded, AloneInv, HandlerInv, At, TDisk
  <2>7. RuntimeInv' /\ QuietInv'
    BY <1>10, <1>1, <2>0, Numbers
       DEF ClearStart, Invalidate, Beside, Unknown, files, env, RuntimeInv, Clean, At,
           QuietInv, Changing, TRest, AloneInv, Active
  <2>8. TDisk' /\ ProgramInv' /\ StoredInv' /\ SwapInv' /\ VerdictInv'
    BY <1>10, <1>1
       DEF ClearStart, files, env, TDisk, ProgramInv, Clean, Active, AppliedTo, Applied,
           StoredInv, Stored, SwapInv, VerdictInv
  <2> QED
    BY <2>1, <2>2, <2>3, <2>4, <2>5, <2>6, <2>7, <2>8, InvParts, Zenon
<1>11. CASE ClearPart
  <2>1. TRest'
    BY <1>11, <1>1, Numbers DEF ClearPart, Beside, files, env, TRest, Version, TDisk, Stored
  <2>2. TDisk'
    <3>1. PICK f \in {"blob", "meta", "sblob", "smeta"} : snap' = [snap EXCEPT ![f] = 0]
      BY <1>11 DEF ClearPart
    <3>2. 0 \in Version
      BY Numbers DEF Version
    <3>3. snap' \in [blob : Version, meta : Version, sblob : Version, smeta : Version]
      BY <1>1, <3>1, <3>2 DEF TDisk
    <3> QED
      BY <1>11, <1>1, <3>3 DEF ClearPart, files, TDisk
  <2>3. ReplyInv'
    BY <1>11, <1>1, Numbers
       DEF ClearPart, Beside, files, env, ReplyInv, CacheTrue, Stored, MidChange, At, TDisk
  <2>4. StoreInv' /\ StoredInv'
    BY <1>11, <1>1, Numbers
       DEF ClearPart, Beside, files, env, StoreInv, Clean, Active, Emptied, Loaded,
           StoredInv, Stored, AloneInv, HandlerInv, At, TDisk, ProgramInv
  <2>5. TWork' /\ HandlerInv' /\ BuildInv' /\ AloneInv' /\ NeverPinned' /\ StatusInv' /\ FilesInv' /\ ProgramInv' /\ RuntimeInv' /\ SwapInv' /\ VerdictInv' /\ QuietInv'
    BY <1>11, <1>1
       DEF ClearPart, files, env, TWork, UpType, RunType, HandlerInv, At, Loaded, BuildInv,
           Active, AloneInv, Clean, NeverPinned, LastSteps, StatusInv, FilesInv, AfterFiles,
           AppliedTo, Applied, ProgramInv, RuntimeInv, SwapInv, VerdictInv, QuietInv,
           Changing
  <2> QED
    BY <2>1, <2>2, <2>3, <2>4, <2>5, InvParts, Zenon
<1>12. CASE Cleared
  <2>0. UpType' /\ up'.pc = "extract" /\ up'.id = up.id /\ up'.k = up.k
    <3>1. To("extract") /\ "extract" \in HandlerSteps
      BY <1>12 DEF Cleared, HandlerSteps
    <3> QED
      BY <1>1, <3>1, ToMoves DEF TWork
  <2>1. TWork' /\ HandlerInv' /\ BuildInv' /\ AloneInv'
    BY <1>12, <1>1, <2>0, Numbers
       DEF Cleared, Beside, NoSnap, Alone, files, env, TWork, UpType, RunType, HandlerInv,
           At, Loaded, BuildInv, Active, AloneInv, Clean, Version, Uploads
  <2>2. TDisk' /\ TRest'
    BY <1>12, <1>1, <2>0, Numbers
       DEF Cleared, Beside, NoSnap, Alone, files, env, TDisk, TRest, Version, TWork, UpType,
           Files, Stored
  <2>3. ReplyInv'
    BY <1>12, <1>1, <2>0, Numbers
       DEF Cleared, Beside, NoSnap, Alone, files, env, ReplyInv, CacheTrue, Stored,
           MidChange, At, TDisk
  <2>4. NeverPinned' /\ StatusInv'
    BY <1>12, <1>1, <2>0, Numbers
       DEF Cleared, Beside, NoSnap, Alone, files, env, NeverPinned, Active, At, LastSteps,
           StatusInv, Clean, AloneInv
  <2>5. FilesInv' /\ ProgramInv'
    BY <1>12, <1>1, <2>0, Numbers
       DEF Cleared, Beside, NoSnap, Alone, files, env, FilesInv, Clean, Active, At, Loaded,
           AfterFiles, AppliedTo, Applied, ProgramInv, AloneInv, HandlerInv, BuildInv,
           TWork, UpType, StatusInv, LastSteps
  <2>6. StoreInv' /\ StoredInv'
    BY <1>12, <1>1, <2>0, Numbers
       DEF Cleared, Beside, NoSnap, Alone, files, env, StoreInv, Clean, Active, Emptied,
           Loaded, StoredInv, Stored, AloneInv, HandlerInv, At, TDisk, ProgramInv
  <2>7. RuntimeInv' /\ QuietInv' /\ SwapInv' /\ VerdictInv'
    BY <1>12, <1>1, <2>0, Numbers
       DEF Cleared, Beside, NoSnap, Alone, files, env, RuntimeInv, Clean, At, QuietInv,
           Changing, SwapInv, Active, VerdictInv, TRest, AloneInv, StatusInv, LastSteps
  <2> QED
    BY <2>1, <2>2, <2>3, <2>4, <2>5, <2>6, <2>7, InvParts, Zenon
<1>13. CASE NotCleared
  <2>0. UpType' /\ up'.pc = "extract" /\ up'.id = up.id /\ up'.k = up.k
    <3>1. To("extract") /\ "extract" \in HandlerSteps
      BY <1>13 DEF NotCleared, HandlerSteps
    <3> QED
      BY <1>1, <3>1, ToMoves DEF TWork
  <2>1. TWork' /\ HandlerInv' /\ BuildInv' /\ AloneInv'
    BY <1>13, <1>1, <2>0, Numbers
       DEF NotCleared, Excuse, files, ad, env, TWork, UpType, RunType, HandlerInv, At,
           Loaded, BuildInv, Active, AloneInv, Clean, Version, Uploads
  <2>2. TRest'
    BY <1>13, <1>1, <2>0, Numbers
       DEF NotCleared, Excuse, files, ad, env, TRest, Version, TDisk, Stored
  <2>3. ReplyInv'
    BY <1>13, <1>1, <2>0, Numbers
       DEF NotCleared, Excuse, files, ad, env, ReplyInv, CacheTrue, Stored, MidChange, At,
           TDisk
  <2>4. NeverPinned' /\ StatusInv'
    BY <1>13, <1>1, <2>0, Numbers
       DEF NotCleared, Excuse, files, ad, env, NeverPinned, Active, At, LastSteps,
           StatusInv, Clean, AloneInv
  <2>5. FilesInv' /\ ProgramInv'
    BY <1>13, <1>1, <2>0, Numbers
       DEF NotCleared, Excuse, files, ad, env, FilesInv, Clean, Active, At, Loaded,
           AfterFiles, AppliedTo, Applied, ProgramInv, AloneInv, HandlerInv, BuildInv,
           TWork, UpType, StatusInv, LastSteps
  <2>6. StoreInv' /\ StoredInv'
    BY <1>13, <1>1, <2>0, Numbers
       DEF NotCleared, Excuse, files, ad, env, StoreInv, Clean, Active, Emptied, Loaded,
           StoredInv, Stored, AloneInv, HandlerInv, At, TDisk, ProgramInv
  <2>7. RuntimeInv' /\ QuietInv' /\ SwapInv' /\ VerdictInv'
    BY <1>13, <1>1, <2>0, Numbers
       DEF NotCleared, Excuse, files, ad, env, RuntimeInv, Clean, At, QuietInv, Changing,
           SwapInv, Active, VerdictInv, TRest, AloneInv, StatusInv, LastSteps
  <2>8. TDisk'
    BY <1>13, <1>1 DEF NotCleared, files, ad, env, TDisk
  <2> QED
    BY <2>1, <2>2, <2>3, <2>4, <2>5, <2>6, <2>7, <2>8, InvParts, Zenon
<1>14. CASE Extract
  <2>0. UpType' /\ up'.pc = "apply" /\ up'.id = up.id /\ up'.k = up.k
    <3>1. To("apply") /\ "apply" \in HandlerSteps
      BY <1>14 DEF Extract, HandlerSteps
    <3> QED
      BY <1>1, <3>1, ToMoves DEF TWork
  <2>1. TWork' /\ HandlerInv' /\ BuildInv' /\ AloneInv'
    BY <1>14, <1>1, <2>0, Numbers
       DEF Extract, ad, env, TWork, UpType, RunType, HandlerInv, At, Loaded, BuildInv,
           Active, AloneInv, Clean, Version, Uploads
  <2>2. TDisk'
    BY <1>14, <1>1, <2>0, Numbers DEF Extract, ad, env, TDisk, TWork, UpType, Version, Files
  <2>3. ReplyInv'
    BY <1>14, <1>1, <2>0, Numbers
       DEF Extract, ad, env, ReplyInv, CacheTrue, Stored, MidChange, At, TDisk
  <2>4. NeverPinned' /\ StatusInv'
    BY <1>14, <1>1, <2>0, Numbers
       DEF Extract, ad, env, NeverPinned, Active, At, LastSteps, StatusInv, Clean, AloneInv
  <2>5. FilesInv'
    BY <1>14, <1>1, <2>0, Numbers
       DEF Extract, ad, env, FilesInv, Clean, Active, At, Loaded, AfterFiles, AppliedTo,
           Applied, AloneInv, HandlerInv, BuildInv, TWork, UpType
  <2>6. StoreInv'
    BY <1>14, <1>1, <2>0, Numbers
       DEF Extract, ad, env, StoreInv, Clean, Active, Emptied, Loaded, AloneInv, HandlerInv,
           At, TDisk
  <2>7. RuntimeInv' /\ QuietInv'
    BY <1>14, <1>1, <2>0, Numbers
       DEF Extract, ad, env, RuntimeInv, Clean, At, QuietInv, Changing, TRest, AloneInv,
           Active
  <2>8. TRest' /\ ProgramInv' /\ StoredInv' /\ SwapInv' /\ VerdictInv'
    BY <1>14, <1>1
       DEF Extract, ad, env, TRest, Version, ProgramInv, Clean, Active, AppliedTo, Applied,
           StoredInv, Stored, SwapInv, VerdictInv
  <2> QED
    BY <2>1, <2>2, <2>3, <2>4, <2>5, <2>6, <2>7, <2>8, InvParts, Zenon
<1>15. CASE ExtractFails
  <2>0. UpType' /\ up'.pc = "idle"
    <3>1. Release
      BY <1>15 DEF ExtractFails, Abort
    <3> QED
      BY <3>1, Idled
  <2>1. TWork' /\ HandlerInv' /\ BuildInv' /\ AloneInv'
    BY <1>15, <1>1, <2>0, Numbers
       DEF ExtractFails, Abort, files, ad, env, TWork, UpType, RunType, HandlerInv, At,
           Loaded, BuildInv, Active, AloneInv, Clean, Version, Uploads
  <2>2. TDisk'
    <3>1. 0 \in Version
      BY Numbers DEF Version
    <3> QED
      BY <1>15, <1>1, <3>1 DEF ExtractFails, Abort, TDisk
  <2>3. ReplyInv'
    BY <1>15, <1>1, <2>0, Numbers
       DEF ExtractFails, Abort, files, ad, env, ReplyInv, CacheTrue, Stored, MidChange, At,
           TDisk
  <2>4. NeverPinned' /\ StatusInv'
    BY <1>15, <1>1, <2>0, Numbers
       DEF ExtractFails, Abort, files, ad, env, NeverPinned, Active, At, LastSteps,
           StatusInv, Clean, AloneInv
  <2>5. FilesInv' /\ ProgramInv'
    BY <1>15, <1>1, <2>0, Numbers
       DEF ExtractFails, Abort, files, ad, env, FilesInv, Clean, Active, At, Loaded,
           AfterFiles, AppliedTo, Applied, ProgramInv, AloneInv, HandlerInv, BuildInv,
           TWork, UpType, StatusInv, LastSteps
  <2>6. StoreInv'
    BY <1>15, <1>1, <2>0, Numbers
       DEF ExtractFails, Abort, files, ad, env, StoreInv, Clean, Active, Emptied, Loaded,
           AloneInv, HandlerInv, At, TDisk
  <2>7. RuntimeInv' /\ QuietInv' /\ VerdictInv'
    BY <1>15, <1>1, <2>0, Numbers
       DEF ExtractFails, Abort, files, ad, env, RuntimeInv, Clean, At, QuietInv, Changing,
           VerdictInv, TRest, AloneInv, Active, StatusInv, LastSteps, SwapInv
  <2>8. TRest' /\ StoredInv' /\ SwapInv'
    BY <1>15, <1>1
       DEF ExtractFails, Abort, files, ad, env, TRest, Version, StoredInv, Clean, Stored,
           SwapInv, Active
  <2> QED
    BY <2>1, <2>2, <2>3, <2>4, <2>5, <2>6, <2>7, <2>8, InvParts, Zenon
<1>16. CASE Install
  <2>0. /\ UpType' /\ up'.id = up.id
        /\ \/ up.k = Len(Confs) /\ up'.pc = "snapshot" /\ up'.k = up.k
           \/ up.k < Len(Confs) /\ up'.pc = "apply" /\ up'.k = up.k + 1
    <3>1. At("apply") /\ up' = NextFile
      BY <1>16 DEF Install
    <3> QED
      BY <1>1, <3>1, NextMoves DEF TWork
  <2>1. TWork' /\ HandlerInv' /\ BuildInv' /\ AloneInv'
    BY <1>16, <1>1, <2>0, Numbers
       DEF Install, File, ad, env, TWork, UpType, RunType, HandlerInv, At, Loaded, BuildInv,
           Active, AloneInv, Clean, Version, Uploads
  <2>2. TDisk'
    BY <1>16, <1>1, <2>0, Numbers
       DEF Install, File, ad, env, TDisk, TWork, UpType, Version, Files
  <2>3. ReplyInv'
    BY <1>16, <1>1, <2>0, Numbers
       DEF Install, File, ad, env, ReplyInv, CacheTrue, Stored, MidChange, At, TDisk
  <2>4. NeverPinned' /\ StatusInv'
    BY <1>16, <1>1, <2>0, Numbers
       DEF Install, File, ad, env, NeverPinned, Active, At, LastSteps, StatusInv, Clean,
           AloneInv
  <2>5. ProgramInv'
    BY <1>16, <1>1, <2>0, Numbers
       DEF Install, File, ad, env, ProgramInv, Clean, Active, AppliedTo, Applied, AloneInv,
           FilesInv, StatusInv, LastSteps, At
  <2>6. FilesInv'
    <3>1. up.k \in 1 .. Len(Confs) /\ At("apply") /\ File \in Files
      BY <1>16, <1>1, Numbers DEF Install, HandlerInv, At, TWork, UpType, File
    <3>2. /\ conf'[File] = up.id /\ File # Plugins
          /\ \A f \in Files : f # File => conf'[f] = conf[f]
      BY <1>16, <1>1, <3>1 DEF Install, TDisk
    <3>3. ASSUME Clean'
          PROVE  \A k \in 1 .. up.k :
                    IF Confs[k] = Plugins THEN conf'[Plugins] = up.id \/ "plugins" \in excuses'
                                          ELSE conf'[Confs[k]] \in {0, up.id}
      <4>1. Clean /\ tree = up.id /\ AppliedTo(up.id, up.k - 1)
        BY <1>16, <1>1, <3>1, <3>3 DEF Install, Clean, FilesInv, At, Loaded
      <4> SUFFICES ASSUME NEW k \in 1 .. up.k
                   PROVE  IF Confs[k] = Plugins
                          THEN conf'[Plugins] = up.id \/ "plugins" \in excuses'
                          ELSE conf'[Confs[k]] \in {0, up.id}
        OBVIOUS
      <4>2. CASE Confs[k] = File
        BY <1>16, <3>2, <3>3, <4>1, <4>2 DEF Install, Clean
      <4>3. CASE Confs[k] # File
        <5>1. k \in 1 .. up.k - 1 /\ Confs[k] \in Files
          BY <3>1, <4>3, Numbers DEF File
        <5>2. conf'[Confs[k]] = conf[Confs[k]]
          BY <3>2, <4>3, <5>1
        <5> QED
          BY <1>16, <3>3, <4>1, <4>3, <5>1, <5>2 DEF Install, Clean, AppliedTo, File
      <4> QED
        BY <4>2, <4>3
    <3>4. Clean' => \A u \in Active' : FALSE
      BY <1>16, <1>1, <3>1 DEF Install, Clean, Active, AloneInv, At
    <3> QED
      BY <1>16, <1>1, <2>0, <3>1, <3>3, <3>4
         DEF Install, FilesInv, Clean, At, Loaded, AfterFiles, AppliedTo, Applied
  <2>7. StoreInv'
    BY <1>16, <1>1, <2>0, Numbers
       DEF Install, File, ad, env, StoreInv, Clean, Active, Emptied, Loaded, AloneInv,
           HandlerInv, At, TDisk
  <2>8. RuntimeInv' /\ QuietInv'
    BY <1>16, <1>1, <2>0, Numbers
       DEF Install, File, ad, env, RuntimeInv, Clean, At, QuietInv, Changing, TRest,
           AloneInv, Active
  <2>9. TRest' /\ StoredInv' /\ SwapInv' /\ VerdictInv'
    BY <1>16, <1>1
       DEF Install, ad, env, TRest, Version, StoredInv, Clean, Stored, SwapInv, Active,
           VerdictInv
  <2> QED
    BY <2>1, <2>2, <2>3, <2>4, <2>5, <2>6, <2>7, <2>8, <2>9, InvParts, Zenon
<1>17. CASE Remove
  <2>0. /\ UpType' /\ up'.id = up.id
        /\ \/ up.k = Len(Confs) /\ up'.pc = "snapshot" /\ up'.k = up.k
           \/ up.k < Len(Confs) /\ up'.pc = "apply" /\ up'.k = up.k + 1
    <3>1. At("apply") /\ up' = NextFile
      BY <1>17 DEF Remove
    <3> QED
      BY <1>1, <3>1, NextMoves DEF TWork
  <2>1. TWork' /\ HandlerInv' /\ BuildInv' /\ AloneInv'
    BY <1>17, <1>1, <2>0, Numbers
       DEF Remove, File, AfterRemove, ad, env, TWork, UpType, RunType, HandlerInv, At,
           Loaded, BuildInv, Active, AloneInv, Clean, Version, Uploads
  <2>2. TDisk'
    <3>1. conf' = [conf EXCEPT ![File] = 0] /\ 0 \in Version
      BY <1>17, Numbers DEF Remove, AfterRemove, Version
    <3> QED
      BY <1>17, <1>1, <3>1 DEF Remove, TDisk
  <2>3. ReplyInv'
    BY <1>17, <1>1, <2>0, Numbers
       DEF Remove, File, AfterRemove, ad, env, ReplyInv, CacheTrue, Stored, MidChange, At,
           TDisk
  <2>4. NeverPinned' /\ StatusInv'
    BY <1>17, <1>1, <2>0, Numbers
       DEF Remove, File, AfterRemove, ad, env, NeverPinned, Active, At, LastSteps,
           StatusInv, Clean, AloneInv
  <2>5. ProgramInv'
    BY <1>17, <1>1, <2>0, Numbers
       DEF Remove, File, AfterRemove, ad, env, ProgramInv, Clean, Active, AppliedTo,
           Applied, AloneInv, FilesInv, StatusInv, LastSteps, At
  <2>6. FilesInv'
    <3>1. up.k \in 1 .. Len(Confs) /\ At("apply") /\ File \in Files
      BY <1>17, <1>1, Numbers DEF Remove, HandlerInv, At, TWork, UpType, File
    <3>2. /\ conf'[File] = 0 /\ File # Plugins
          /\ \A f \in Files : f # File => conf'[f] = conf[f]
      BY <1>17, <1>1, <3>1 DEF Remove, AfterRemove, TDisk
    <3>3. ASSUME Clean'
          PROVE  \A k \in 1 .. up.k :
                    IF Confs[k] = Plugins THEN conf'[Plugins] = up.id \/ "plugins" \in excuses'
                                          ELSE conf'[Confs[k]] \in {0, up.id}
      <4>1. Clean /\ tree = up.id /\ AppliedTo(up.id, up.k - 1)
        BY <1>17, <1>1, <3>1, <3>3 DEF Remove, AfterRemove, Clean, FilesInv, At, Loaded
      <4> SUFFICES ASSUME NEW k \in 1 .. up.k
                   PROVE  IF Confs[k] = Plugins
                          THEN conf'[Plugins] = up.id \/ "plugins" \in excuses'
                          ELSE conf'[Confs[k]] \in {0, up.id}
        OBVIOUS
      <4>2. CASE Confs[k] = File
        BY <1>17, <3>2, <3>3, <4>1, <4>2 DEF Remove, AfterRemove, Clean
      <4>3. CASE Confs[k] # File
        <5>1. k \in 1 .. up.k - 1 /\ Confs[k] \in Files
          BY <3>1, <4>3, Numbers DEF File
        <5>2. conf'[Confs[k]] = conf[Confs[k]]
          BY <3>2, <4>3, <5>1
        <5> QED
          BY <1>17, <3>3, <4>1, <4>3, <5>1, <5>2 DEF Remove, AfterRemove, Clean, AppliedTo, File
      <4> QED
        BY <4>2, <4>3
    <3>4. Clean' => \A u \in Active' : FALSE
      BY <1>17, <1>1, <3>1 DEF Remove, AfterRemove, Clean, Active, AloneInv, At
    <3> QED
      BY <1>17, <1>1, <2>0, <3>1, <3>3, <3>4
         DEF Remove, AfterRemove, FilesInv, Clean, At, Loaded, AfterFiles, AppliedTo, Applied
  <2>7. StoreInv'
    BY <1>17, <1>1, <2>0, Numbers
       DEF Remove, File, AfterRemove, ad, env, StoreInv, Clean, Active, Emptied, Loaded,
           AloneInv, HandlerInv, At, TDisk
  <2>8. RuntimeInv' /\ QuietInv'
    BY <1>17, <1>1, <2>0, Numbers
       DEF Remove, File, AfterRemove, ad, env, RuntimeInv, Clean, At, QuietInv, Changing,
           TRest, AloneInv, Active
  <2>9. TRest' /\ StoredInv' /\ SwapInv' /\ VerdictInv'
    BY <1>17, <1>1
       DEF Remove, ad, env, TRest, Version, StoredInv, Clean, Stored, SwapInv, Active,
           VerdictInv
  <2> QED
    BY <2>1, <2>2, <2>3, <2>4, <2>5, <2>6, <2>7, <2>8, <2>9, InvParts, Zenon
<1>18. CASE ApplyPlugins
  <2>0. /\ UpType' /\ up'.id = up.id
        /\ \/ up.k = Len(Confs) /\ up'.pc = "snapshot" /\ up'.k = up.k
           \/ up.k < Len(Confs) /\ up'.pc = "apply" /\ up'.k = up.k + 1
    <3>1. At("apply") /\ up' = NextFile
      BY <1>18 DEF ApplyPlugins
    <3> QED
      BY <1>1, <3>1, NextMoves DEF TWork
  <2>1. TWork' /\ HandlerInv' /\ BuildInv' /\ AloneInv'
    BY <1>18, <1>1, <2>0, Numbers
       DEF ApplyPlugins, File, WritePlugins, Excuse, ad, env, TWork, UpType, RunType,
           HandlerInv, At, Loaded, BuildInv, Active, AloneInv, Clean, Version, Uploads
  <2>2. TDisk'
    <3>1. conf' = conf \/ conf' = [conf EXCEPT ![Plugins] = tree]
      BY <1>18 DEF ApplyPlugins, WritePlugins
    <3>2. conf' \in [Files -> Version]
      BY <1>1, <3>1 DEF TDisk
    <3> QED
      BY <1>18, <1>1, <3>2 DEF ApplyPlugins, TDisk
  <2>3. TRest'
    BY <1>18, <1>1, <2>0, Numbers
       DEF ApplyPlugins, File, WritePlugins, Excuse, ad, env, TRest, Version, TDisk, Stored
  <2>4. ReplyInv'
    BY <1>18, <1>1, <2>0, Numbers
       DEF ApplyPlugins, File, WritePlugins, Excuse, ad, env, ReplyInv, CacheTrue, Stored,
           MidChange, At, TDisk
  <2>5. NeverPinned' /\ StatusInv'
    BY <1>18, <1>1, <2>0, Numbers
       DEF ApplyPlugins, File, WritePlugins, Excuse, ad, env, NeverPinned, Active, At,
           LastSteps, StatusInv, Clean, AloneInv
  <2>6. ProgramInv'
    BY <1>18, <1>1, <2>0, Numbers
       DEF ApplyPlugins, File, WritePlugins, Excuse, ad, env, ProgramInv, Clean, Active,
           AppliedTo, Applied, AloneInv, FilesInv, StatusInv, LastSteps, At
  <2>7. FilesInv'
    <3>1. up.k \in 1 .. Len(Confs) /\ At("apply") /\ File \in Files
      BY <1>18, <1>1, Numbers DEF ApplyPlugins, HandlerInv, At, TWork, UpType, File
    <3>2. /\ File = Plugins
          /\ \/ conf'[File] = tree
             \/ "plugins" \in excuses' \/ "overlap" \in excuses'
          /\ \A f \in Files : f # File => conf'[f] = conf[f]
      BY <1>18, <1>1, <3>1 DEF ApplyPlugins, WritePlugins, Excuse, TDisk
    <3>3. ASSUME Clean'
          PROVE  \A k \in 1 .. up.k :
                    IF Confs[k] = Plugins THEN conf'[Plugins] = up.id \/ "plugins" \in excuses'
                                          ELSE conf'[Confs[k]] \in {0, up.id}
      <4>1. Clean /\ tree = up.id /\ AppliedTo(up.id, up.k - 1)
        BY <1>18, <1>1, <3>1, <3>3 DEF ApplyPlugins, WritePlugins, Excuse, Clean, FilesInv, At, Loaded
      <4> SUFFICES ASSUME NEW k \in 1 .. up.k
                   PROVE  IF Confs[k] = Plugins
                          THEN conf'[Plugins] = up.id \/ "plugins" \in excuses'
                          ELSE conf'[Confs[k]] \in {0, up.id}
        OBVIOUS
      <4>2. CASE Confs[k] = File
        BY <1>18, <3>2, <3>3, <4>1, <4>2 DEF ApplyPlugins, WritePlugins, Excuse, Clean
      <4>3. CASE Confs[k] # File
        <5>1. k \in 1 .. up.k - 1 /\ Confs[k] \in Files
          BY <3>1, <4>3, Numbers DEF File
        <5>2. conf'[Confs[k]] = conf[Confs[k]]
          BY <3>2, <4>3, <5>1
        <5> QED
          BY <1>18, <3>3, <4>1, <4>3, <5>1, <5>2 DEF ApplyPlugins, WritePlugins, Excuse, Clean, AppliedTo, File
      <4> QED
        BY <4>2, <4>3
    <3>4. Clean' => \A u \in Active' : FALSE
      BY <1>18, <1>1, <3>1 DEF ApplyPlugins, WritePlugins, Excuse, Clean, Active, AloneInv, At
    <3> QED
      BY <1>18, <1>1, <2>0, <3>1, <3>3, <3>4
         DEF ApplyPlugins, WritePlugins, Excuse, FilesInv, Clean, At, Loaded, AfterFiles, AppliedTo, Applied
  <2>8. StoreInv' /\ StoredInv'
    BY <1>18, <1>1, <2>0, Numbers
       DEF ApplyPlugins, File, WritePlugins, Excuse, ad, env, StoreInv, Clean, Active,
           Emptied, Loaded, StoredInv, Stored, AloneInv, HandlerInv, At, TDisk, ProgramInv
  <2>9. RuntimeInv' /\ QuietInv' /\ SwapInv' /\ VerdictInv'
    BY <1>18, <1>1, <2>0, Numbers
       DEF ApplyPlugins, File, WritePlugins, Excuse, ad, env, RuntimeInv, Clean, At,
           QuietInv, Changing, SwapInv, Active, VerdictInv, TRest, AloneInv, StatusInv,
           LastSteps
  <2> QED
    BY <2>1, <2>2, <2>3, <2>4, <2>5, <2>6, <2>7, <2>8, <2>9, InvParts, Zenon
<1>19. CASE ApplyFails
  <2>0. UpType' /\ up'.pc = "idle"
    <3>1. Release
      BY <1>19 DEF ApplyFails, Abort
    <3> QED
      BY <3>1, Idled
  <2>1. TWork' /\ HandlerInv' /\ BuildInv' /\ AloneInv'
    BY <1>19, <1>1, <2>0, Numbers
       DEF ApplyFails, Abort, File, files, ad, env, TWork, UpType, RunType, HandlerInv, At,
           Loaded, BuildInv, Active, AloneInv, Clean, Version, Uploads
  <2>2. TDisk'
    BY <1>19, <1>1, <2>0, Numbers
       DEF ApplyFails, Abort, File, files, ad, env, TDisk, TWork, UpType, Version, Files
  <2>3. ReplyInv'
    BY <1>19, <1>1, <2>0, Numbers
       DEF ApplyFails, Abort, File, files, ad, env, ReplyInv, CacheTrue, Stored, MidChange,
           At, TDisk
  <2>4. NeverPinned' /\ StatusInv'
    BY <1>19, <1>1, <2>0, Numbers
       DEF ApplyFails, Abort, File, files, ad, env, NeverPinned, Active, At, LastSteps,
           StatusInv, Clean, AloneInv
  <2>5. FilesInv' /\ ProgramInv'
    BY <1>19, <1>1, <2>0, Numbers
       DEF ApplyFails, Abort, File, files, ad, env, FilesInv, Clean, Active, At, Loaded,
           AfterFiles, AppliedTo, Applied, ProgramInv, AloneInv, HandlerInv, BuildInv,
           TWork, UpType, StatusInv, LastSteps
  <2>6. StoreInv'
    BY <1>19, <1>1, <2>0, Numbers
       DEF ApplyFails, Abort, File, files, ad, env, StoreInv, Clean, Active, Emptied,
           Loaded, AloneInv, HandlerInv, At, TDisk
  <2>7. RuntimeInv' /\ QuietInv' /\ VerdictInv'
    BY <1>19, <1>1, <2>0, Numbers
       DEF ApplyFails, Abort, File, files, ad, env, RuntimeInv, Clean, At, QuietInv,
           Changing, VerdictInv, TRest, AloneInv, Active, StatusInv, LastSteps, SwapInv
  <2>8. TRest' /\ StoredInv' /\ SwapInv'
    BY <1>19, <1>1
       DEF ApplyFails, Abort, files, ad, env, TRest, Version, StoredInv, Clean, Stored,
           SwapInv, Active
  <2> QED
    BY <2>1, <2>2, <2>3, <2>4, <2>5, <2>6, <2>7, <2>8, InvParts, Zenon
<1>20. CASE StageNothing
  <2>0. UpType' /\ up'.pc = "launch" /\ up'.id = up.id /\ up'.k = up.k
    <3>1. To("launch") /\ "launch" \in HandlerSteps
      BY <1>20 DEF StageNothing, HandlerSteps
    <3> QED
      BY <1>1, <3>1, ToMoves DEF TWork
  <2>1. TWork' /\ HandlerInv' /\ BuildInv' /\ AloneInv'
    BY <1>20, <1>1, <2>0, Numbers
       DEF StageNothing, files, ad, env, TWork, UpType, RunType, HandlerInv, At, Loaded,
           BuildInv, Active, AloneInv, Clean, Version, Uploads
  <2>2. ReplyInv'
    BY <1>20, <1>1, <2>0, Numbers
       DEF StageNothing, files, ad, env, ReplyInv, CacheTrue, Stored, MidChange, At, TDisk
  <2>3. NeverPinned' /\ StatusInv'
    BY <1>20, <1>1, <2>0, Numbers
       DEF StageNothing, files, ad, env, NeverPinned, Active, At, LastSteps, StatusInv,
           Clean, AloneInv
  <2>4. FilesInv'
    BY <1>20, <1>1, <2>0, Numbers
       DEF StageNothing, files, ad, env, FilesInv, Clean, Active, At, Loaded, AfterFiles,
           AppliedTo, Applied, AloneInv, HandlerInv, BuildInv, TWork, UpType
  <2>5. StoreInv'
    BY <1>20, <1>1, <2>0, Numbers
       DEF StageNothing, files, ad, env, StoreInv, Clean, Active, Emptied, Loaded, AloneInv,
           HandlerInv, At, TDisk
  <2>6. RuntimeInv' /\ QuietInv'
    BY <1>20, <1>1, <2>0, Numbers
       DEF StageNothing, files, ad, env, RuntimeInv, Clean, At, QuietInv, Changing, TRest,
           AloneInv, Active
  <2>7. TDisk' /\ TRest' /\ ProgramInv' /\ StoredInv' /\ SwapInv' /\ VerdictInv'
    BY <1>20, <1>1
       DEF StageNothing, files, ad, env, TDisk, TRest, Version, ProgramInv, Clean, Active,
           AppliedTo, Applied, StoredInv, Stored, SwapInv, VerdictInv
  <2> QED
    BY <2>1, <2>2, <2>3, <2>4, <2>5, <2>6, <2>7, InvParts, Zenon
<1>21. CASE StageStart
  <2>0. UpType' /\ up'.pc = "blob" /\ up'.id = up.id /\ up'.k = up.k
    <3>1. To("blob") /\ "blob" \in HandlerSteps
      BY <1>21 DEF StageStart, HandlerSteps
    <3> QED
      BY <1>1, <3>1, ToMoves DEF TWork
  <2>1. TWork' /\ HandlerInv' /\ BuildInv' /\ AloneInv'
    BY <1>21, <1>1, <2>0, Numbers
       DEF StageStart, Invalidate, Beside, Unknown, NoSnap, Excuse, files, env, TWork,
           UpType, RunType, HandlerInv, At, Loaded, BuildInv, Active, AloneInv, Clean,
           Version, Uploads
  <2>2. TDisk'
    BY <1>21, <1>1, <2>0, Numbers
       DEF StageStart, Invalidate, Beside, Unknown, NoSnap, Excuse, files, env, TDisk,
           TWork, UpType, Version, Files
  <2>3. TRest'
    <3>1. cache' \in [known : BOOLEAN, val : Version, clean : BOOLEAN]
      BY <1>21, Numbers DEF StageStart, Invalidate, Unknown, Version
    <3>2. probe' \in [on : BOOLEAN, val : Version, clean : BOOLEAN]
      BY <1>21, <1>1, Numbers DEF StageStart, Invalidate, Beside, TRest, Version
    <3>3. excuses' \subseteq {"overlap", "clear", "plugins", "start"}
      BY <1>21, <1>1 DEF StageStart, Excuse, TRest
    <3> QED
      BY <1>21, <1>1, <3>1, <3>2, <3>3 DEF StageStart, env, TRest
  <2>4. ReplyInv'
    BY <1>21, <1>1, <2>0, Numbers
       DEF StageStart, Invalidate, Beside, Unknown, NoSnap, Excuse, files, env, ReplyInv,
           CacheTrue, Stored, MidChange, At, TDisk
  <2>5. NeverPinned' /\ StatusInv'
    BY <1>21, <1>1, <2>0, Numbers
       DEF StageStart, Invalidate, Beside, Unknown, NoSnap, Excuse, files, env, NeverPinned,
           Active, At, LastSteps, StatusInv, Clean, AloneInv
  <2>6. FilesInv' /\ ProgramInv'
    BY <1>21, <1>1, <2>0, Numbers
       DEF StageStart, Invalidate, Beside, Unknown, NoSnap, Excuse, files, env, FilesInv,
           Clean, Active, At, Loaded, AfterFiles, AppliedTo, Applied, ProgramInv, AloneInv,
           HandlerInv, BuildInv, TWork, UpType, StatusInv, LastSteps
  <2>7. StoreInv' /\ StoredInv'
    BY <1>21, <1>1, <2>0, Numbers
       DEF StageStart, Invalidate, Beside, Unknown, NoSnap, Excuse, files, env, StoreInv,
           Clean, Active, Emptied, Loaded, StoredInv, Stored, AloneInv, HandlerInv, At,
           TDisk, ProgramInv
  <2>8. RuntimeInv' /\ QuietInv' /\ SwapInv' /\ VerdictInv'
    BY <1>21, <1>1, <2>0, Numbers
       DEF StageStart, Invalidate, Beside, Unknown, NoSnap, Excuse, files, env, RuntimeInv,
           Clean, At, QuietInv, Changing, SwapInv, Active, VerdictInv, TRest, AloneInv,
           StatusInv, LastSteps
  <2> QED
    BY <2>1, <2>2, <2>3, <2>4, <2>5, <2>6, <2>7, <2>8, InvParts, Zenon
<1>22. CASE StageBlob
  <2>0. UpType' /\ up'.pc = "meta" /\ up'.id = up.id /\ up'.k = up.k
    <3>1. To("meta") /\ "meta" \in HandlerSteps
      BY <1>22 DEF StageBlob, HandlerSteps
    <3> QED
      BY <1>1, <3>1, ToMoves DEF TWork
  <2>1. TWork' /\ HandlerInv' /\ BuildInv' /\ AloneInv'
    BY <1>22, <1>1, <2>0, Numbers
       DEF StageBlob, files, ad, env, TWork, UpType, RunType, HandlerInv, At, Loaded,
           BuildInv, Active, AloneInv, Clean, Version, Uploads
  <2>2. TDisk'
    BY <1>22, <1>1, <2>0, Numbers
       DEF StageBlob, files, ad, env, TDisk, TWork, UpType, Version, Files
  <2>3. ReplyInv'
    BY <1>22, <1>1, <2>0, Numbers
       DEF StageBlob, files, ad, env, ReplyInv, CacheTrue, Stored, MidChange, At, TDisk
  <2>4. NeverPinned' /\ StatusInv'
    BY <1>22, <1>1, <2>0, Numbers
       DEF StageBlob, files, ad, env, NeverPinned, Active, At, LastSteps, StatusInv, Clean,
           AloneInv
  <2>5. FilesInv'
    BY <1>22, <1>1, <2>0, Numbers
       DEF StageBlob, files, ad, env, FilesInv, Clean, Active, At, Loaded, AfterFiles,
           AppliedTo, Applied, AloneInv, HandlerInv, BuildInv, TWork, UpType
  <2>6. StoreInv' /\ StoredInv'
    BY <1>22, <1>1, <2>0, Numbers
       DEF StageBlob, files, ad, env, StoreInv, Clean, Active, Emptied, Loaded, StoredInv,
           Stored, AloneInv, HandlerInv, At, TDisk, ProgramInv
  <2>7. RuntimeInv' /\ QuietInv'
    BY <1>22, <1>1, <2>0, Numbers
       DEF StageBlob, files, ad, env, RuntimeInv, Clean, At, QuietInv, Changing, TRest,
           AloneInv, Active
  <2>8. TRest' /\ ProgramInv' /\ SwapInv' /\ VerdictInv'
    BY <1>22, <1>1
       DEF StageBlob, files, ad, env, TRest, Version, ProgramInv, Clean, Active, AppliedTo,
           Applied, SwapInv, VerdictInv
  <2> QED
    BY <2>1, <2>2, <2>3, <2>4, <2>5, <2>6, <2>7, <2>8, InvParts, Zenon
<1>23. CASE StageMeta
  <2>0. UpType' /\ up'.pc = "launch" /\ up'.id = up.id /\ up'.k = up.k
    <3>1. To("launch") /\ "launch" \in HandlerSteps
      BY <1>23 DEF StageMeta, HandlerSteps
    <3> QED
      BY <1>1, <3>1, ToMoves DEF TWork
  <2>1. TWork' /\ HandlerInv' /\ BuildInv' /\ AloneInv'
    BY <1>23, <1>1, <2>0, Numbers
       DEF StageMeta, files, ad, env, TWork, UpType, RunType, HandlerInv, At, Loaded,
           BuildInv, Active, AloneInv, Clean, Version, Uploads
  <2>2. TDisk'
    BY <1>23, <1>1, <2>0, Numbers
       DEF StageMeta, files, ad, env, TDisk, TWork, UpType, Version, Files
  <2>3. ReplyInv'
    BY <1>23, <1>1, <2>0, Numbers
       DEF StageMeta, files, ad, env, ReplyInv, CacheTrue, Stored, MidChange, At, TDisk
  <2>4. NeverPinned' /\ StatusInv'
    BY <1>23, <1>1, <2>0, Numbers
       DEF StageMeta, files, ad, env, NeverPinned, Active, At, LastSteps, StatusInv, Clean,
           AloneInv
  <2>5. FilesInv'
    BY <1>23, <1>1, <2>0, Numbers
       DEF StageMeta, files, ad, env, FilesInv, Clean, Active, At, Loaded, AfterFiles,
           AppliedTo, Applied, AloneInv, HandlerInv, BuildInv, TWork, UpType
  <2>6. StoreInv' /\ StoredInv'
    BY <1>23, <1>1, <2>0, Numbers
       DEF StageMeta, files, ad, env, StoreInv, Clean, Active, Emptied, Loaded, StoredInv,
           Stored, AloneInv, HandlerInv, At, TDisk, ProgramInv
  <2>7. RuntimeInv' /\ QuietInv'
    BY <1>23, <1>1, <2>0, Numbers
       DEF StageMeta, files, ad, env, RuntimeInv, Clean, At, QuietInv, Changing, TRest,
           AloneInv, Active
  <2>8. TRest' /\ ProgramInv' /\ SwapInv' /\ VerdictInv'
    BY <1>23, <1>1
       DEF StageMeta, files, ad, env, TRest, Version, ProgramInv, Clean, Active, AppliedTo,
           Applied, SwapInv, VerdictInv
  <2> QED
    BY <2>1, <2>2, <2>3, <2>4, <2>5, <2>6, <2>7, <2>8, InvParts, Zenon
<1>24. CASE StageFails
  <2>0. UpType' /\ up'.pc = "launch" /\ up'.id = up.id /\ up'.k = up.k
    <3>1. To("launch") /\ "launch" \in HandlerSteps
      BY <1>24 DEF StageFails, HandlerSteps
    <3> QED
      BY <1>1, <3>1, ToMoves DEF TWork
  <2>1. TWork' /\ HandlerInv' /\ BuildInv' /\ AloneInv'
    BY <1>24, <1>1, <2>0, Numbers
       DEF StageFails, Invalidate, Beside, Unknown, NoSnap, files, env, TWork, UpType,
           RunType, HandlerInv, At, Loaded, BuildInv, Active, AloneInv, Clean, Version,
           Uploads
  <2>2. TDisk' /\ TRest'
    BY <1>24, <1>1, <2>0, Numbers
       DEF StageFails, Invalidate, Beside, Unknown, NoSnap, files, env, TDisk, TRest,
           Version, TWork, UpType, Files, Stored
  <2>3. ReplyInv'
    BY <1>24, <1>1, <2>0, Numbers
       DEF StageFails, Invalidate, Beside, Unknown, NoSnap, files, env, ReplyInv, CacheTrue,
           Stored, MidChange, At, TDisk
  <2>4. NeverPinned' /\ StatusInv'
    BY <1>24, <1>1, <2>0, Numbers
       DEF StageFails, Invalidate, Beside, Unknown, NoSnap, files, env, NeverPinned, Active,
           At, LastSteps, StatusInv, Clean, AloneInv
  <2>5. FilesInv'
    BY <1>24, <1>1, <2>0, Numbers
       DEF StageFails, Invalidate, Beside, Unknown, NoSnap, files, env, FilesInv, Clean,
           Active, At, Loaded, AfterFiles, AppliedTo, Applied, AloneInv, HandlerInv,
           BuildInv, TWork, UpType
  <2>6. StoreInv' /\ StoredInv'
    BY <1>24, <1>1, <2>0, Numbers
       DEF StageFails, Invalidate, Beside, Unknown, NoSnap, files, env, StoreInv, Clean,
           Active, Emptied, Loaded, StoredInv, Stored, AloneInv, HandlerInv, At, TDisk,
           ProgramInv
  <2>7. RuntimeInv' /\ QuietInv'
    BY <1>24, <1>1, <2>0, Numbers
       DEF StageFails, Invalidate, Beside, Unknown, NoSnap, files, env, RuntimeInv, Clean,
           At, QuietInv, Changing, TRest, AloneInv, Active
  <2>8. ProgramInv' /\ SwapInv' /\ VerdictInv'
    BY <1>24, <1>1
       DEF StageFails, files, env, ProgramInv, Clean, Active, AppliedTo, Applied, SwapInv,
           VerdictInv
  <2> QED
    BY <2>1, <2>2, <2>3, <2>4, <2>5, <2>6, <2>7, <2>8, InvParts, Zenon
<1>25. CASE Launch
  <2>0. /\ up.id \in Uploads /\ up.id = started /\ UpType' /\ up'.pc = "idle" /\ RunType'
        /\ run'[up.id].pc = "begin" /\ ~run'[up.id].ok
        /\ \A v \in Uploads : v # up.id => run'[v] = run[v]
    <3>1. up.id \in Uploads /\ up.id = started
      BY <1>25, <1>1, Numbers DEF Launch, At, HandlerInv, TWork, Version, Uploads
    <3>2. UpType' /\ up'.pc = "idle"
      BY <1>25, Idled DEF Launch
    <3>3. RunType' /\ run'[up.id] = [pc |-> "begin", ok |-> FALSE]
          /\ \A v \in Uploads : v # up.id => run'[v] = run[v]
      BY <1>25, <1>1, <3>1 DEF Launch, TWork, RunType, RunSteps
    <3> QED
      BY <3>1, <3>2, <3>3
  <2>1. TWork' /\ HandlerInv' /\ BuildInv' /\ AloneInv'
    BY <1>25, <1>1, <2>0, Numbers
       DEF Launch, files, ad, env, TWork, UpType, RunType, HandlerInv, At, Loaded, BuildInv,
           Active, AloneInv, Clean, Version, Uploads
  <2>2. ReplyInv'
    BY <1>25, <1>1, <2>0, Numbers
       DEF Launch, files, ad, env, ReplyInv, CacheTrue, Stored, MidChange, At, TDisk
  <2>3. NeverPinned' /\ StatusInv'
    BY <1>25, <1>1, <2>0, Numbers
       DEF Launch, files, ad, env, NeverPinned, Active, At, LastSteps, StatusInv, Clean,
           AloneInv
  <2>4. FilesInv' /\ ProgramInv'
    BY <1>25, <1>1, <2>0, Numbers
       DEF Launch, files, ad, env, FilesInv, Clean, Active, At, Loaded, AfterFiles,
           AppliedTo, Applied, ProgramInv, AloneInv, HandlerInv, BuildInv, TWork, UpType,
           StatusInv, LastSteps
  <2>5. StoreInv'
    BY <1>25, <1>1, <2>0, Numbers
       DEF Launch, files, ad, env, StoreInv, Clean, Active, Emptied, Loaded, AloneInv,
           HandlerInv, At, TDisk
  <2>6. RuntimeInv' /\ QuietInv' /\ SwapInv' /\ VerdictInv'
    BY <1>25, <1>1, <2>0, Numbers
       DEF Launch, files, ad, env, RuntimeInv, Clean, At, QuietInv, Changing, SwapInv,
           Active, VerdictInv, TRest, AloneInv, StatusInv, LastSteps
  <2>7. TDisk' /\ TRest' /\ StoredInv'
    BY <1>25, <1>1 DEF Launch, files, ad, env, TDisk, TRest, Version, StoredInv, Clean, Stored
  <2> QED
    BY <2>1, <2>2, <2>3, <2>4, <2>5, <2>6, <2>7, InvParts, Zenon
<1>26. CASE LaunchFails
  <2>0. UpType' /\ up'.pc = "idle"
    <3>1. Release
      BY <1>26 DEF LaunchFails, Abort
    <3> QED
      BY <3>1, Idled
  <2>1. TWork' /\ HandlerInv' /\ BuildInv' /\ AloneInv'
    BY <1>26, <1>1, <2>0, Numbers
       DEF LaunchFails, Abort, files, ad, env, TWork, UpType, RunType, HandlerInv, At,
           Loaded, BuildInv, Active, AloneInv, Clean, Version, Uploads
  <2>2. ReplyInv'
    BY <1>26, <1>1, <2>0, Numbers
       DEF LaunchFails, Abort, files, ad, env, ReplyInv, CacheTrue, Stored, MidChange, At,
           TDisk
  <2>3. NeverPinned' /\ StatusInv'
    BY <1>26, <1>1, <2>0, Numbers
       DEF LaunchFails, Abort, files, ad, env, NeverPinned, Active, At, LastSteps,
           StatusInv, Clean, AloneInv
  <2>4. FilesInv' /\ ProgramInv'
    BY <1>26, <1>1, <2>0, Numbers
       DEF LaunchFails, Abort, files, ad, env, FilesInv, Clean, Active, At, Loaded,
           AfterFiles, AppliedTo, Applied, ProgramInv, AloneInv, HandlerInv, BuildInv,
           TWork, UpType, StatusInv, LastSteps
  <2>5. StoreInv'
    BY <1>26, <1>1, <2>0, Numbers
       DEF LaunchFails, Abort, files, ad, env, StoreInv, Clean, Active, Emptied, Loaded,
           AloneInv, HandlerInv, At, TDisk
  <2>6. RuntimeInv' /\ QuietInv' /\ VerdictInv'
    BY <1>26, <1>1, <2>0, Numbers
       DEF LaunchFails, Abort, files, ad, env, RuntimeInv, Clean, At, QuietInv, Changing,
           VerdictInv, TRest, AloneInv, Active, StatusInv, LastSteps, SwapInv
  <2>7. TDisk' /\ TRest' /\ StoredInv' /\ SwapInv'
    BY <1>26, <1>1
       DEF LaunchFails, Abort, files, ad, env, TDisk, TRest, Version, StoredInv, Clean,
           Stored, SwapInv, Active
  <2> QED
    BY <2>1, <2>2, <2>3, <2>4, <2>5, <2>6, <2>7, InvParts, Zenon
<1>27. ASSUME NEW u \in Uploads, Begin(u) PROVE UploadInv'
  <2>0. /\ RunType' /\ run'[u].pc = "build" /\ run'[u].ok = run[u].ok
        /\ \A v \in Uploads : v # u => run'[v] = run[v]
    <3>1. RunTo(u, "build") /\ "build" \in RunSteps
      BY <1>27 DEF Begin, RunSteps
    <3> QED
      BY <1>1, <1>27, <3>1, RunMoves DEF TWork
  <2>1. TWork' /\ BuildInv' /\ AloneInv'
    BY <1>27, <1>1, <2>0, Numbers
       DEF Begin, files, ad, env, TWork, UpType, RunType, BuildInv, Active, At, AloneInv,
           Clean, Version, HandlerInv, Loaded, Uploads
  <2>2. ReplyInv'
    BY <1>27, <1>1, <2>0, Numbers
       DEF Begin, files, ad, env, ReplyInv, CacheTrue, Stored, MidChange, At, TDisk
  <2>3. NeverPinned' /\ StatusInv'
    BY <1>27, <1>1, <2>0, Numbers
       DEF Begin, files, ad, env, NeverPinned, Active, At, LastSteps, StatusInv, Clean,
           AloneInv
  <2>4. FilesInv' /\ ProgramInv'
    BY <1>27, <1>1, <2>0, Numbers
       DEF Begin, files, ad, env, FilesInv, Clean, Active, At, Loaded, AfterFiles,
           AppliedTo, Applied, ProgramInv, AloneInv, HandlerInv, BuildInv, TWork, UpType,
           StatusInv, LastSteps
  <2>5. StoreInv'
    BY <1>27, <1>1, <2>0, Numbers
       DEF Begin, files, ad, env, StoreInv, Clean, Active, Emptied, Loaded, AloneInv,
           HandlerInv, At, TDisk
  <2>6. SwapInv' /\ VerdictInv'
    BY <1>27, <1>1, <2>0, Numbers
       DEF Begin, files, ad, env, SwapInv, Clean, Active, VerdictInv, AloneInv, At, TRest,
           RuntimeInv, StatusInv, LastSteps
  <2>7. TDisk' /\ TRest' /\ HandlerInv' /\ StoredInv' /\ RuntimeInv' /\ QuietInv'
    BY <1>27, <1>1
       DEF Begin, files, ad, env, TDisk, TRest, Version, HandlerInv, At, Loaded, StoredInv,
           Clean, Stored, RuntimeInv, QuietInv, Changing
  <2> QED
    BY <2>1, <2>2, <2>3, <2>4, <2>5, <2>6, <2>7, InvParts, Zenon
<1>28. ASSUME NEW u \in Uploads, Build(u) PROVE UploadInv'
  <2>0. /\ RunType' /\ run'[u].pc = "stop"
        /\ \A v \in Uploads : v # u => run'[v] = run[v]
        /\ run'[u].ok => tree # 0 /\ newso' = tree
        /\ newso' \in {newso, tree}
    <3>1. CASE tree # 0 /\ newso' = tree /\ run' = [run EXCEPT ![u] = [pc |-> "stop", ok |-> TRUE]]
      BY <1>1, <1>28, <3>1 DEF TWork, RunType, RunSteps
    <3>2. CASE newso' = newso /\ run' = [run EXCEPT ![u] = [pc |-> "stop", ok |-> FALSE]]
      BY <1>1, <1>28, <3>2 DEF TWork, RunType, RunSteps
    <3> QED
      BY <1>28, <3>1, <3>2 DEF Build
  <2>1. TWork' /\ BuildInv' /\ AloneInv'
    BY <1>28, <1>1, <2>0, Numbers
       DEF Build, ad, env, TWork, UpType, RunType, BuildInv, Active, At, AloneInv, Clean,
           Version, HandlerInv, Loaded, Uploads
  <2>2. TDisk'
    BY <1>28, <1>1, <2>0, Numbers DEF Build, ad, env, TDisk, TWork, UpType, Version, Files
  <2>3. ReplyInv'
    BY <1>28, <1>1, <2>0, Numbers
       DEF Build, ad, env, ReplyInv, CacheTrue, Stored, MidChange, At, TDisk
  <2>4. NeverPinned' /\ StatusInv'
    BY <1>28, <1>1, <2>0, Numbers
       DEF Build, ad, env, NeverPinned, Active, At, LastSteps, StatusInv, Clean, AloneInv
  <2>5. FilesInv' /\ ProgramInv'
    BY <1>28, <1>1, <2>0, Numbers
       DEF Build, ad, env, FilesInv, Clean, Active, At, Loaded, AfterFiles, AppliedTo,
           Applied, ProgramInv, AloneInv, HandlerInv, BuildInv, TWork, UpType, StatusInv,
           LastSteps
  <2>6. StoreInv'
    BY <1>28, <1>1, <2>0, Numbers
       DEF Build, ad, env, StoreInv, Clean, Active, Emptied, Loaded, AloneInv, HandlerInv,
           At, TDisk
  <2>7. SwapInv'
    BY <1>28, <1>1, <2>0, Numbers
       DEF Build, ad, env, SwapInv, Clean, Active, AloneInv, At, TRest, RuntimeInv
  <2>8. TRest' /\ HandlerInv' /\ StoredInv' /\ RuntimeInv' /\ VerdictInv' /\ QuietInv'
    BY <1>28, <1>1
       DEF Build, ad, env, TRest, Version, HandlerInv, At, Loaded, StoredInv, Clean, Stored,
           RuntimeInv, VerdictInv, QuietInv, Changing
  <2> QED
    BY <2>1, <2>2, <2>3, <2>4, <2>5, <2>6, <2>7, <2>8, InvParts, Zenon
<1>29. ASSUME NEW u \in Uploads, Stop(u) PROVE UploadInv'
  <2>0. /\ RunType' /\ run'[u].pc = "wait" /\ run'[u].ok = run[u].ok
        /\ \A v \in Uploads : v # u => run'[v] = run[v]
    <3>1. RunTo(u, "wait") /\ "wait" \in RunSteps
      BY <1>29 DEF Stop, RunSteps
    <3> QED
      BY <1>1, <1>29, <3>1, RunMoves DEF TWork
  <2>1. TWork' /\ BuildInv' /\ AloneInv'
    BY <1>29, <1>1, <2>0, Numbers
       DEF Stop, AfterStop, files, ad, TWork, UpType, RunType, BuildInv, Active, At,
           AloneInv, Clean, Version, HandlerInv, Loaded, Uploads
  <2>2. TRest'
    BY <1>29, <1>1, <2>0, Numbers DEF Stop, AfterStop, files, ad, TRest, Version, TDisk, Stored
  <2>3. ReplyInv'
    BY <1>29, <1>1, <2>0, Numbers
       DEF Stop, AfterStop, files, ad, ReplyInv, CacheTrue, Stored, MidChange, At, TDisk
  <2>4. NeverPinned' /\ StatusInv'
    BY <1>29, <1>1, <2>0, Numbers
       DEF Stop, AfterStop, files, ad, NeverPinned, Active, At, LastSteps, StatusInv, Clean,
           AloneInv
  <2>5. FilesInv' /\ ProgramInv'
    BY <1>29, <1>1, <2>0, Numbers
       DEF Stop, AfterStop, files, ad, FilesInv, Clean, Active, At, Loaded, AfterFiles,
           AppliedTo, Applied, ProgramInv, AloneInv, HandlerInv, BuildInv, TWork, UpType,
           StatusInv, LastSteps
  <2>6. StoreInv' /\ StoredInv'
    BY <1>29, <1>1, <2>0, Numbers
       DEF Stop, AfterStop, files, ad, StoreInv, Clean, Active, Emptied, Loaded, StoredInv,
           Stored, AloneInv, HandlerInv, At, TDisk, ProgramInv
  <2>7. RuntimeInv' /\ QuietInv' /\ SwapInv' /\ VerdictInv'
    BY <1>29, <1>1, <2>0, Numbers
       DEF Stop, AfterStop, files, ad, RuntimeInv, Clean, At, QuietInv, Changing, SwapInv,
           Active, VerdictInv, TRest, AloneInv, StatusInv, LastSteps
  <2>8. TDisk' /\ HandlerInv'
    BY <1>29, <1>1 DEF Stop, files, ad, TDisk, HandlerInv, At, Loaded
  <2> QED
    BY <2>1, <2>2, <2>3, <2>4, <2>5, <2>6, <2>7, <2>8, InvParts, Zenon
<1>30. ASSUME NEW u \in Uploads, Waited(u) PROVE UploadInv'
  <2>0. /\ RunType' /\ run'[u].pc = "sweep" /\ run'[u].ok = run[u].ok
        /\ \A v \in Uploads : v # u => run'[v] = run[v]
    <3>1. RunTo(u, "sweep") /\ "sweep" \in RunSteps
      BY <1>30 DEF Waited, RunSteps
    <3> QED
      BY <1>1, <1>30, <3>1, RunMoves DEF TWork
  <2>1. TWork' /\ BuildInv' /\ AloneInv'
    BY <1>30, <1>1, <2>0, Numbers
       DEF Waited, MaySweep, Moving, files, ad, env, TWork, UpType, RunType, BuildInv,
           Active, At, AloneInv, Clean, Version, HandlerInv, Loaded, Uploads
  <2>2. ReplyInv'
    BY <1>30, <1>1, <2>0, Numbers
       DEF Waited, MaySweep, Moving, files, ad, env, ReplyInv, CacheTrue, Stored, MidChange,
           At, TDisk
  <2>3. NeverPinned' /\ StatusInv'
    BY <1>30, <1>1, <2>0, Numbers
       DEF Waited, MaySweep, Moving, files, ad, env, NeverPinned, Active, At, LastSteps,
           StatusInv, Clean, AloneInv
  <2>4. FilesInv' /\ ProgramInv'
    BY <1>30, <1>1, <2>0, Numbers
       DEF Waited, MaySweep, Moving, files, ad, env, FilesInv, Clean, Active, At, Loaded,
           AfterFiles, AppliedTo, Applied, ProgramInv, AloneInv, HandlerInv, BuildInv,
           TWork, UpType, StatusInv, LastSteps
  <2>5. StoreInv'
    BY <1>30, <1>1, <2>0, Numbers
       DEF Waited, MaySweep, Moving, files, ad, env, StoreInv, Clean, Active, Emptied,
           Loaded, AloneInv, HandlerInv, At, TDisk
  <2>6. SwapInv'
    BY <1>30, <1>1, <2>0, Numbers
       DEF Waited, MaySweep, Moving, files, ad, env, SwapInv, Clean, Active, AloneInv, At,
           TRest, RuntimeInv
  <2>7. TDisk' /\ TRest' /\ HandlerInv' /\ StoredInv' /\ RuntimeInv' /\ VerdictInv' /\ QuietInv'
    BY <1>30, <1>1
       DEF Waited, files, ad, env, TDisk, TRest, Version, HandlerInv, At, Loaded, StoredInv,
           Clean, Stored, RuntimeInv, VerdictInv, QuietInv, Changing
  <2> QED
    BY <2>1, <2>2, <2>3, <2>4, <2>5, <2>6, <2>7, InvParts, Zenon
<1>31. ASSUME NEW u \in Uploads, WaitExpires(u) PROVE UploadInv'
  <2>0. /\ RunType' /\ run'[u].pc = "sweep" /\ run'[u].ok = run[u].ok
        /\ \A v \in Uploads : v # u => run'[v] = run[v]
    <3>1. RunTo(u, "sweep") /\ "sweep" \in RunSteps
      BY <1>31 DEF WaitExpires, RunSteps
    <3> QED
      BY <1>1, <1>31, <3>1, RunMoves DEF TWork
  <2>1. TWork' /\ BuildInv' /\ AloneInv'
    BY <1>31, <1>1, <2>0, Numbers
       DEF WaitExpires, Moving, files, ad, env, TWork, UpType, RunType, BuildInv, Active,
           At, AloneInv, Clean, Version, HandlerInv, Loaded, Uploads
  <2>2. TRest'
    BY <1>31, <1>1, <2>0, Numbers
       DEF WaitExpires, Moving, files, ad, env, TRest, Version, TDisk, Stored
  <2>3. ReplyInv'
    BY <1>31, <1>1, <2>0, Numbers
       DEF WaitExpires, Moving, files, ad, env, ReplyInv, CacheTrue, Stored, MidChange, At,
           TDisk
  <2>4. NeverPinned' /\ StatusInv'
    BY <1>31, <1>1, <2>0, Numbers
       DEF WaitExpires, Moving, files, ad, env, NeverPinned, Active, At, LastSteps,
           StatusInv, Clean, AloneInv
  <2>5. FilesInv' /\ ProgramInv'
    BY <1>31, <1>1, <2>0, Numbers
       DEF WaitExpires, Moving, files, ad, env, FilesInv, Clean, Active, At, Loaded,
           AfterFiles, AppliedTo, Applied, ProgramInv, AloneInv, HandlerInv, BuildInv,
           TWork, UpType, StatusInv, LastSteps
  <2>6. StoreInv' /\ StoredInv'
    BY <1>31, <1>1, <2>0, Numbers
       DEF WaitExpires, Moving, files, ad, env, StoreInv, Clean, Active, Emptied, Loaded,
           StoredInv, Stored, AloneInv, HandlerInv, At, TDisk, ProgramInv
  <2>7. RuntimeInv' /\ QuietInv' /\ SwapInv' /\ VerdictInv'
    BY <1>31, <1>1, <2>0, Numbers
       DEF WaitExpires, Moving, files, ad, env, RuntimeInv, Clean, At, QuietInv, Changing,
           SwapInv, Active, VerdictInv, TRest, AloneInv, StatusInv, LastSteps
  <2>8. TDisk' /\ HandlerInv'
    BY <1>31, <1>1 DEF WaitExpires, files, ad, env, TDisk, HandlerInv, At, Loaded
  <2> QED
    BY <2>1, <2>2, <2>3, <2>4, <2>5, <2>6, <2>7, <2>8, InvParts, Zenon
<1>32. ASSUME NEW u \in Uploads, Sweep(u) PROVE UploadInv'
  <2>0. /\ RunType' /\ run'[u].pc = "swap" /\ run'[u].ok = run[u].ok
        /\ \A v \in Uploads : v # u => run'[v] = run[v]
    <3>1. RunTo(u, "swap") /\ "swap" \in RunSteps
      BY <1>32 DEF Sweep, RunSteps
    <3> QED
      BY <1>1, <1>32, <3>1, RunMoves DEF TWork
  <2>1. TWork' /\ BuildInv' /\ AloneInv'
    BY <1>32, <1>1, <2>0, Numbers
       DEF Sweep, ad, env, TWork, UpType, RunType, BuildInv, Active, At, AloneInv, Clean,
           Version, HandlerInv, Loaded, Uploads
  <2>2. TDisk'
    BY <1>32, <1>1, <2>0, Numbers DEF Sweep, ad, env, TDisk, TWork, UpType, Version, Files
  <2>3. ReplyInv'
    BY <1>32, <1>1, <2>0, Numbers
       DEF Sweep, ad, env, ReplyInv, CacheTrue, Stored, MidChange, At, TDisk
  <2>4. NeverPinned' /\ StatusInv'
    BY <1>32, <1>1, <2>0, Numbers
       DEF Sweep, ad, env, NeverPinned, Active, At, LastSteps, StatusInv, Clean, AloneInv
  <2>5. FilesInv' /\ ProgramInv'
    BY <1>32, <1>1, <2>0, Numbers
       DEF Sweep, ad, env, FilesInv, Clean, Active, At, Loaded, AfterFiles, AppliedTo,
           Applied, ProgramInv, AloneInv, HandlerInv, BuildInv, TWork, UpType, StatusInv,
           LastSteps
  <2>6. StoreInv' /\ StoredInv'
    BY <1>32, <1>1, <2>0, Numbers
       DEF Sweep, ad, env, StoreInv, Clean, Active, Emptied, Loaded, StoredInv, Stored,
           AloneInv, HandlerInv, At, TDisk, ProgramInv
  <2>7. SwapInv' /\ VerdictInv'
    BY <1>32, <1>1, <2>0, Numbers
       DEF Sweep, ad, env, SwapInv, Clean, Active, VerdictInv, AloneInv, At, TRest,
           RuntimeInv, StatusInv, LastSteps
  <2>8. TRest' /\ HandlerInv' /\ RuntimeInv' /\ QuietInv'
    BY <1>32, <1>1
       DEF Sweep, ad, env, TRest, Version, HandlerInv, At, Loaded, RuntimeInv, Clean,
           QuietInv, Changing
  <2> QED
    BY <2>1, <2>2, <2>3, <2>4, <2>5, <2>6, <2>7, <2>8, InvParts, Zenon
<1>33. ASSUME NEW u \in Uploads, Swap(u) PROVE UploadInv'
  <2>0. /\ RunType' /\ run'[u].pc = "judge"
        /\ \A v \in Uploads : v # u => run'[v] = run[v]
        /\ run'[u].ok => run[u].ok /\ newso # 0 /\ so' = newso /\ newso' = 0
        /\ \/ so' = newso /\ newso' = 0
           \/ so' = so /\ newso' = newso
    <3>1. CASE newso # 0 /\ so' = newso /\ newso' = 0 /\ RunTo(u, "judge")
      <4>1. "judge" \in RunSteps
        BY DEF RunSteps
      <4> QED
        BY <1>1, <1>33, <3>1, <4>1, RunMoves DEF TWork
    <3>2. CASE so' = so /\ newso' = newso /\ run' = [run EXCEPT ![u] = [pc |-> "judge", ok |-> FALSE]]
      BY <1>1, <1>33, <3>2 DEF TWork, RunType, RunSteps
    <3> QED
      BY <1>33, <3>1, <3>2 DEF Swap
  <2>1. TWork' /\ BuildInv' /\ AloneInv'
    BY <1>33, <1>1, <2>0, Numbers
       DEF Swap, ad, env, TWork, UpType, RunType, BuildInv, Active, At, AloneInv, Clean,
           Version, HandlerInv, Loaded, Uploads
  <2>2. TDisk'
    <3>1. 0 \in Version
      BY Numbers DEF Version
    <3> QED
      BY <1>33, <1>1, <2>0, <3>1 DEF Swap, TDisk
  <2>3. ReplyInv'
    BY <1>33, <1>1, <2>0, Numbers
       DEF Swap, ad, env, ReplyInv, CacheTrue, Stored, MidChange, At, TDisk
  <2>4. NeverPinned' /\ StatusInv'
    BY <1>33, <1>1, <2>0, Numbers
       DEF Swap, ad, env, NeverPinned, Active, At, LastSteps, StatusInv, Clean, AloneInv
  <2>5. FilesInv' /\ ProgramInv'
    BY <1>33, <1>1, <2>0, Numbers
       DEF Swap, ad, env, FilesInv, Clean, Active, At, Loaded, AfterFiles, AppliedTo,
           Applied, ProgramInv, AloneInv, HandlerInv, BuildInv, TWork, UpType, StatusInv,
           LastSteps
  <2>6. StoreInv' /\ StoredInv'
    BY <1>33, <1>1, <2>0, Numbers
       DEF Swap, ad, env, StoreInv, Clean, Active, Emptied, Loaded, StoredInv, Stored,
           AloneInv, HandlerInv, At, TDisk, ProgramInv
  <2>7. SwapInv' /\ VerdictInv'
    BY <1>33, <1>1, <2>0, Numbers
       DEF Swap, ad, env, SwapInv, Clean, Active, VerdictInv, AloneInv, At, TRest,
           RuntimeInv, StatusInv, LastSteps
  <2>8. TRest' /\ HandlerInv' /\ RuntimeInv' /\ QuietInv'
    BY <1>33, <1>1
       DEF Swap, ad, env, TRest, Version, HandlerInv, At, Loaded, RuntimeInv, Clean,
           QuietInv, Changing
  <2> QED
    BY <2>1, <2>2, <2>3, <2>4, <2>5, <2>6, <2>7, <2>8, InvParts, Zenon
<1>34. ASSUME NEW u \in Uploads, Judge(u) PROVE UploadInv'
  <2>0. /\ RunType' /\ run'[u].pc = "recheck" /\ ~run'[u].ok
        /\ \A v \in Uploads : v # u => run'[v] = run[v]
    <3>1. Judged(u, "recheck") /\ "recheck" \in RunSteps
      BY <1>34 DEF Judge, RunSteps
    <3> QED
      BY <1>1, <1>34, <3>1 DEF TWork, RunType, Judged
  <2>1. TWork' /\ BuildInv' /\ AloneInv'
    BY <1>34, <1>1, <2>0, Numbers
       DEF Judge, files, ad, env, TWork, UpType, RunType, BuildInv, Active, At, AloneInv,
           Clean, Version, HandlerInv, Loaded, Uploads
  <2>2. ReplyInv'
    BY <1>34, <1>1, <2>0, Numbers
       DEF Judge, files, ad, env, ReplyInv, CacheTrue, Stored, MidChange, At, TDisk
  <2>3. NeverPinned' /\ StatusInv'
    BY <1>34, <1>1, <2>0, Numbers
       DEF Judge, files, ad, env, NeverPinned, Active, At, LastSteps, StatusInv, Clean,
           AloneInv
  <2>4. FilesInv'
    BY <1>34, <1>1, <2>0, Numbers
       DEF Judge, files, ad, env, FilesInv, Clean, Active, At, Loaded, AfterFiles,
           AppliedTo, Applied, AloneInv, HandlerInv, BuildInv, TWork, UpType
  <2>5. ProgramInv'
    <3>1. ASSUME Clean'
          PROVE  Clean /\ u \in Active /\ Applied(u) /\ \A v \in Active : v = u
      BY <1>34, <1>1, <3>1 DEF Judge, Clean, FilesInv, Active, AloneInv
    <3>2. Clean' => Active' = {u} /\ u # 0
      BY <1>34, <2>0, <3>1 DEF Judge, Active, Uploads
    <3>3. Clean' /\ status' = "SUCCESS" => so' = u
      BY <1>34, <1>1, <3>1 DEF Judge, files, ProgramInv
    <3>4. Clean' => Applied(u)'
      BY <1>34, <3>1 DEF Judge, files, Applied, AppliedTo
    <3>5. Clean' /\ status' = "SUCCESS" => Applied(so)'
      BY <3>3, <3>4 DEF Applied, AppliedTo
    <3> QED
      BY <2>0, <3>2, <3>3, <3>5 DEF ProgramInv
  <2>6. StoreInv'
    BY <1>34, <1>1, <2>0, Numbers
       DEF Judge, files, ad, env, StoreInv, Clean, Active, Emptied, Loaded, AloneInv,
           HandlerInv, At, TDisk
  <2>7. SwapInv' /\ VerdictInv'
    BY <1>34, <1>1, <2>0, Numbers
       DEF Judge, files, ad, env, SwapInv, Clean, Active, VerdictInv, AloneInv, At, TRest,
           RuntimeInv, StatusInv, LastSteps
  <2>8. TDisk' /\ TRest' /\ HandlerInv' /\ StoredInv' /\ RuntimeInv' /\ QuietInv'
    BY <1>34, <1>1
       DEF Judge, files, ad, env, TDisk, TRest, Version, HandlerInv, At, Loaded, StoredInv,
           Clean, Stored, RuntimeInv, QuietInv, Changing
  <2> QED
    BY <2>1, <2>2, <2>3, <2>4, <2>5, <2>6, <2>7, <2>8, InvParts, Zenon
<1>35. ASSUME NEW u \in Uploads, Recheck(u) PROVE UploadInv'
  <2>0. /\ RunType' /\ \A v \in Uploads : v # u => run'[v] = run[v]
        /\ \/ status = "SUCCESS" /\ status' = "COMPILING" /\ run'[u].pc = "register"
           \/ status # "SUCCESS" /\ status' = status /\ run'[u].pc = "finish"
    <3>1. {"register", "finish"} \subseteq RunSteps
      BY DEF RunSteps
    <3>2. \/ status = "SUCCESS" /\ status' = "COMPILING" /\ RunTo(u, "register")
          \/ status # "SUCCESS" /\ status' = status /\ RunTo(u, "finish")
      BY <1>35 DEF Recheck, Held
    <3> QED
      BY <1>1, <1>35, <3>1, <3>2, RunMoves DEF TWork
  <2>1. TWork' /\ BuildInv' /\ AloneInv'
    BY <1>35, <1>1, <2>0, Numbers
       DEF Recheck, Held, files, ad, env, TWork, UpType, RunType, BuildInv, Active, At,
           AloneInv, Clean, Version, HandlerInv, Loaded, Uploads
  <2>2. ReplyInv'
    BY <1>35, <1>1, <2>0, Numbers
       DEF Recheck, Held, files, ad, env, ReplyInv, CacheTrue, Stored, MidChange, At, TDisk
  <2>3. NeverPinned' /\ StatusInv'
    BY <1>35, <1>1, <2>0, Numbers
       DEF Recheck, Held, files, ad, env, NeverPinned, Active, At, LastSteps, StatusInv,
           Clean, AloneInv
  <2>4. FilesInv' /\ ProgramInv'
    BY <1>35, <1>1, <2>0, Numbers
       DEF Recheck, Held, files, ad, env, FilesInv, Clean, Active, At, Loaded, AfterFiles,
           AppliedTo, Applied, ProgramInv, AloneInv, HandlerInv, BuildInv, TWork, UpType,
           StatusInv, LastSteps
  <2>5. StoreInv'
    BY <1>35, <1>1, <2>0, Numbers
       DEF Recheck, Held, files, ad, env, StoreInv, Clean, Active, Emptied, Loaded,
           AloneInv, HandlerInv, At, TDisk
  <2>6. VerdictInv'
    BY <1>35, <1>1, <2>0, Numbers
       DEF Recheck, Held, files, ad, env, VerdictInv, Clean, AloneInv, Active, StatusInv,
           LastSteps, SwapInv, RuntimeInv, TRest
  <2>7. SwapInv'
    BY <1>35, <1>1, <2>0 DEF Recheck, files, env, SwapInv, VerdictInv, Clean, Active
  <2>8. TDisk' /\ TRest' /\ HandlerInv' /\ StoredInv' /\ RuntimeInv' /\ QuietInv'
    BY <1>35, <1>1
       DEF Recheck, files, ad, env, TDisk, TRest, Version, HandlerInv, At, Loaded,
           StoredInv, Clean, Stored, RuntimeInv, QuietInv, Changing
  <2> QED
    BY <2>1, <2>2, <2>3, <2>4, <2>5, <2>6, <2>7, <2>8, InvParts, Zenon
<1>36. ASSUME NEW u \in Uploads, Register(u) PROVE UploadInv'
  <2>0. /\ RunType' /\ run'[u].pc = "publish" /\ run'[u].ok = run[u].ok
        /\ \A v \in Uploads : v # u => run'[v] = run[v]
    <3>1. RunTo(u, "publish") /\ "publish" \in RunSteps
      BY <1>36 DEF Register, RunSteps
    <3> QED
      BY <1>1, <1>36, <3>1, RunMoves DEF TWork
  <2>1. TWork' /\ BuildInv' /\ AloneInv'
    BY <1>36, <1>1, <2>0, Numbers
       DEF Register, WritePlugins, Excuse, ad, env, TWork, UpType, RunType, BuildInv,
           Active, At, AloneInv, Clean, Version, HandlerInv, Loaded, Uploads
  <2>2. TDisk'
    BY <1>36, <1>1, <2>0, Numbers
       DEF Register, WritePlugins, Excuse, ad, env, TDisk, TWork, UpType, Version, Files
  <2>3. TRest'
    BY <1>36, <1>1, <2>0, Numbers
       DEF Register, WritePlugins, Excuse, ad, env, TRest, Version, TDisk, Stored
  <2>4. ReplyInv'
    BY <1>36, <1>1, <2>0, Numbers
       DEF Register, WritePlugins, Excuse, ad, env, ReplyInv, CacheTrue, Stored, MidChange,
           At, TDisk
  <2>5. NeverPinned' /\ StatusInv'
    BY <1>36, <1>1, <2>0, Numbers
       DEF Register, WritePlugins, Excuse, ad, env, NeverPinned, Active, At, LastSteps,
           StatusInv, Clean, AloneInv
  <2>6. ProgramInv'
    BY <1>36, <1>1, <2>0, Numbers
       DEF Register, WritePlugins, Excuse, ad, env, ProgramInv, Clean, Active, AppliedTo,
           Applied, AloneInv, FilesInv, StatusInv, LastSteps, At
  <2>7. FilesInv'
    <3>1. ASSUME Clean'
          PROVE  /\ Clean /\ tree = u /\ u \in Active /\ Applied(u) /\ At("idle")
                 /\ \A v \in Active : v = u
      BY <1>36, <1>1, <3>1
         DEF Register, WritePlugins, Excuse, Clean, FilesInv, Active, AloneInv
    <3>2. /\ conf'[Plugins] = tree \/ "plugins" \in excuses' \/ "overlap" \in excuses'
          /\ \A f \in Files : f # Plugins => conf'[f] = conf[f]
      BY <1>36, <1>1, Numbers DEF Register, WritePlugins, Excuse, TDisk
    <3>3. ASSUME Clean' PROVE Applied(u)'
      BY <1>36, <3>1, <3>2, <3>3, Numbers DEF Register, Clean, Applied, AppliedTo
    <3> QED
      BY <1>36, <2>0, <3>1, <3>3
         DEF Register, FilesInv, At, Loaded, AfterFiles, Active
  <2>8. StoreInv' /\ StoredInv'
    BY <1>36, <1>1, <2>0, Numbers
       DEF Register, WritePlugins, Excuse, ad, env, StoreInv, Clean, Active, Emptied,
           Loaded, StoredInv, Stored, AloneInv, HandlerInv, At, TDisk, ProgramInv
  <2>9. RuntimeInv' /\ QuietInv' /\ SwapInv' /\ VerdictInv'
    BY <1>36, <1>1, <2>0, Numbers
       DEF Register, WritePlugins, Excuse, ad, env, RuntimeInv, Clean, At, QuietInv,
           Changing, SwapInv, Active, VerdictInv, TRest, AloneInv, StatusInv, LastSteps
  <2>10. HandlerInv'
    BY <1>36, <1>1 DEF Register, ad, env, HandlerInv, At, Loaded
  <2> QED
    BY <2>1, <2>2, <2>3, <2>4, <2>5, <2>6, <2>7, <2>8, <2>9, <2>10, InvParts, Zenon
<1>37. ASSUME NEW u \in Uploads, Publish(u) PROVE UploadInv'
  <2>0. /\ RunType' /\ run'[u].pc = "finish" /\ run'[u].ok = run[u].ok
        /\ \A v \in Uploads : v # u => run'[v] = run[v]
    <3>1. RunTo(u, "finish") /\ "finish" \in RunSteps
      BY <1>37 DEF Publish, RunSteps
    <3> QED
      BY <1>1, <1>37, <3>1, RunMoves DEF TWork
  <2>1. TWork' /\ BuildInv' /\ AloneInv'
    BY <1>37, <1>1, <2>0, Numbers
       DEF Publish, files, ad, env, TWork, UpType, RunType, BuildInv, Active, At, AloneInv,
           Clean, Version, HandlerInv, Loaded, Uploads
  <2>2. ReplyInv'
    BY <1>37, <1>1, <2>0, Numbers
       DEF Publish, files, ad, env, ReplyInv, CacheTrue, Stored, MidChange, At, TDisk
  <2>3. NeverPinned' /\ StatusInv'
    BY <1>37, <1>1, <2>0, Numbers
       DEF Publish, files, ad, env, NeverPinned, Active, At, LastSteps, StatusInv, Clean,
           AloneInv
  <2>4. FilesInv'
    BY <1>37, <1>1, <2>0, Numbers
       DEF Publish, files, ad, env, FilesInv, Clean, Active, At, Loaded, AfterFiles,
           AppliedTo, Applied, AloneInv, HandlerInv, BuildInv, TWork, UpType
  <2>5. ProgramInv'
    <3>1. ASSUME Clean'
          PROVE  Clean /\ u \in Active /\ Applied(u) /\ \A v \in Active : v = u
      BY <1>37, <1>1, <3>1 DEF Publish, Clean, FilesInv, Active, AloneInv
    <3>2. Clean' => Active' = {u} /\ u # 0
      BY <1>37, <2>0, <3>1 DEF Publish, Active, Uploads
    <3>3. Clean' /\ status' = "SUCCESS" => so' = u
      BY <1>37, <1>1, <3>1 DEF Publish, files, ProgramInv
    <3>4. Clean' => Applied(u)'
      BY <1>37, <3>1 DEF Publish, files, Applied, AppliedTo
    <3>5. Clean' /\ status' = "SUCCESS" => Applied(so)'
      BY <3>3, <3>4 DEF Applied, AppliedTo
    <3> QED
      BY <2>0, <3>2, <3>3, <3>5 DEF ProgramInv
  <2>6. StoreInv'
    BY <1>37, <1>1, <2>0, Numbers
       DEF Publish, files, ad, env, StoreInv, Clean, Active, Emptied, Loaded, AloneInv,
           HandlerInv, At, TDisk
  <2>7. SwapInv' /\ VerdictInv'
    BY <1>37, <1>1, <2>0, Numbers
       DEF Publish, files, ad, env, SwapInv, Clean, Active, VerdictInv, AloneInv, At, TRest,
           RuntimeInv, StatusInv, LastSteps
  <2>8. TDisk' /\ TRest' /\ HandlerInv' /\ StoredInv' /\ RuntimeInv' /\ QuietInv'
    BY <1>37, <1>1
       DEF Publish, files, ad, env, TDisk, TRest, Version, HandlerInv, At, Loaded,
           StoredInv, Clean, Stored, RuntimeInv, QuietInv, Changing
  <2> QED
    BY <2>1, <2>2, <2>3, <2>4, <2>5, <2>6, <2>7, <2>8, InvParts, Zenon
<1>38. ASSUME NEW u \in Uploads, RunError(u) PROVE UploadInv'
  <2>0. /\ RunType' /\ run'[u].pc = "finish" /\ ~run'[u].ok
        /\ \A v \in Uploads : v # u => run'[v] = run[v]
    <3>1. Judged(u, "finish") /\ "finish" \in RunSteps
      BY <1>38 DEF RunError, RunSteps
    <3> QED
      BY <1>1, <1>38, <3>1 DEF TWork, RunType, Judged
  <2>1. TWork' /\ BuildInv' /\ AloneInv'
    BY <1>38, <1>1, <2>0, Numbers
       DEF RunError, AfterError, files, ad, env, TWork, UpType, RunType, BuildInv, Active,
           At, AloneInv, Clean, Version, HandlerInv, Loaded, Uploads
  <2>2. ReplyInv'
    BY <1>38, <1>1, <2>0, Numbers
       DEF RunError, AfterError, files, ad, env, ReplyInv, CacheTrue, Stored, MidChange, At,
           TDisk
  <2>3. NeverPinned' /\ StatusInv'
    BY <1>38, <1>1, <2>0, Numbers
       DEF RunError, AfterError, files, ad, env, NeverPinned, Active, At, LastSteps,
           StatusInv, Clean, AloneInv
  <2>4. FilesInv' /\ ProgramInv'
    BY <1>38, <1>1, <2>0, Numbers
       DEF RunError, AfterError, files, ad, env, FilesInv, Clean, Active, At, Loaded,
           AfterFiles, AppliedTo, Applied, ProgramInv, AloneInv, HandlerInv, BuildInv,
           TWork, UpType, StatusInv, LastSteps
  <2>5. StoreInv'
    BY <1>38, <1>1, <2>0, Numbers
       DEF RunError, AfterError, files, ad, env, StoreInv, Clean, Active, Emptied, Loaded,
           AloneInv, HandlerInv, At, TDisk
  <2>6. SwapInv' /\ VerdictInv'
    BY <1>38, <1>1, <2>0, Numbers
       DEF RunError, AfterError, files, ad, env, SwapInv, Clean, Active, VerdictInv,
           AloneInv, At, TRest, RuntimeInv, StatusInv, LastSteps
  <2>7. TDisk' /\ TRest' /\ HandlerInv' /\ StoredInv' /\ RuntimeInv' /\ QuietInv'
    BY <1>38, <1>1
       DEF RunError, files, ad, env, TDisk, TRest, Version, HandlerInv, At, Loaded,
           StoredInv, Clean, Stored, RuntimeInv, QuietInv, Changing
  <2> QED
    BY <2>1, <2>2, <2>3, <2>4, <2>5, <2>6, <2>7, InvParts, Zenon
<1>39. ASSUME NEW u \in Uploads, Finish(u) PROVE UploadInv'
  <2>0. /\ RunType' /\ \A v \in Uploads : v # u => run'[v] = run[v]
        /\ run'[u].pc \in {"discard", "promote1", "off"}
        /\ run'[u].pc # "discard" => status = "SUCCESS"
    <3>1. {"discard", "promote1", "off"} \subseteq RunSteps
      BY DEF RunSteps
    <3>2. \E step \in {"discard", "promote1", "off"} :
             RunTo(u, step) /\ (step # "discard" => status = "SUCCESS")
      BY <1>39 DEF Finish, MayPromote
    <3> QED
      BY <1>1, <1>39, <3>1, <3>2, RunMoves DEF TWork
  <2>1. TWork' /\ BuildInv' /\ AloneInv'
    BY <1>39, <1>1, <2>0, Numbers
       DEF Finish, Invalidate, Beside, Unknown, MayPromote, files, env, TWork, UpType,
           RunType, BuildInv, Active, At, AloneInv, Clean, Version, HandlerInv, Loaded,
           Uploads
  <2>2. TRest'
    BY <1>39, <1>1, <2>0, Numbers
       DEF Finish, Invalidate, Beside, Unknown, MayPromote, files, env, TRest, Version,
           TDisk, Stored
  <2>3. ReplyInv'
    BY <1>39, <1>1, <2>0, Numbers
       DEF Finish, Invalidate, Beside, Unknown, MayPromote, files, env, ReplyInv, CacheTrue,
           Stored, MidChange, At, TDisk
  <2>4. NeverPinned' /\ StatusInv'
    BY <1>39, <1>1, <2>0, Numbers
       DEF Finish, Invalidate, Beside, Unknown, MayPromote, files, env, NeverPinned, Active,
           At, LastSteps, StatusInv, Clean, AloneInv
  <2>5. FilesInv' /\ ProgramInv'
    BY <1>39, <1>1, <2>0, Numbers
       DEF Finish, Invalidate, Beside, Unknown, MayPromote, files, env, FilesInv, Clean,
           Active, At, Loaded, AfterFiles, AppliedTo, Applied, ProgramInv, AloneInv,
           HandlerInv, BuildInv, TWork, UpType, StatusInv, LastSteps
  <2>6. StoreInv'
    BY <1>39, <1>1, <2>0, Numbers
       DEF Finish, Invalidate, Beside, Unknown, MayPromote, files, env, StoreInv, Clean,
           Active, Emptied, Loaded, AloneInv, HandlerInv, At, TDisk
  <2>7. SwapInv'
    BY <1>39, <1>1, <2>0, Numbers
       DEF Finish, Invalidate, Beside, Unknown, MayPromote, files, env, SwapInv, Clean,
           Active, AloneInv, At, TRest, RuntimeInv
  <2>8. TDisk' /\ HandlerInv' /\ StoredInv' /\ RuntimeInv' /\ VerdictInv' /\ QuietInv'
    BY <1>39, <1>1
       DEF Finish, files, env, TDisk, HandlerInv, At, Loaded, StoredInv, Clean, Stored,
           RuntimeInv, VerdictInv, QuietInv, Changing
  <2> QED
    BY <2>1, <2>2, <2>3, <2>4, <2>5, <2>6, <2>7, <2>8, InvParts, Zenon
<1>40. ASSUME NEW u \in Uploads, PromoteBlob(u) PROVE UploadInv'
  <2>0. /\ RunType' /\ run'[u].pc = "promote2" /\ run'[u].ok = run[u].ok
        /\ \A v \in Uploads : v # u => run'[v] = run[v]
    <3>1. RunTo(u, "promote2") /\ "promote2" \in RunSteps
      BY <1>40 DEF PromoteBlob, RunSteps
    <3> QED
      BY <1>1, <1>40, <3>1, RunMoves DEF TWork
  <2>1. TWork' /\ BuildInv' /\ AloneInv'
    BY <1>40, <1>1, <2>0, Numbers
       DEF PromoteBlob, Beside, files, env, TWork, UpType, RunType, BuildInv, Active, At,
           AloneInv, Clean, Version, HandlerInv, Loaded, Uploads
  <2>2. TRest'
    BY <1>40, <1>1, <2>0, Numbers
       DEF PromoteBlob, Beside, files, env, TRest, Version, TDisk, Stored
  <2>3. TDisk'
    <3> DEFINE s == [snap EXCEPT !.blob = snap.sblob]
    <3>1. 0 \in Version
      BY Numbers DEF Version
    <3>2. s \in [blob : Version, meta : Version, sblob : Version, smeta : Version]
      BY <1>1, <3>1 DEF TDisk
    <3>3. snap' = [s EXCEPT !.sblob = 0]
      BY <1>40, <1>1 DEF PromoteBlob, TDisk
    <3> HIDE DEF s
    <3>4. snap' \in [blob : Version, meta : Version, sblob : Version, smeta : Version]
      BY <3>1, <3>2, <3>3
    <3> QED
      BY <1>40, <1>1, <3>4 DEF PromoteBlob, files, TDisk, Files
  <2>4. ReplyInv'
    BY <1>40, <1>1, <2>0, Numbers
       DEF PromoteBlob, Beside, files, env, ReplyInv, CacheTrue, Stored, MidChange, At,
           TDisk
  <2>5. NeverPinned' /\ StatusInv'
    BY <1>40, <1>1, <2>0, Numbers
       DEF PromoteBlob, Beside, files, env, NeverPinned, Active, At, LastSteps, StatusInv,
           Clean, AloneInv
  <2>6. FilesInv' /\ ProgramInv'
    BY <1>40, <1>1, <2>0, Numbers
       DEF PromoteBlob, Beside, files, env, FilesInv, Clean, Active, At, Loaded, AfterFiles,
           AppliedTo, Applied, ProgramInv, AloneInv, HandlerInv, BuildInv, TWork, UpType,
           StatusInv, LastSteps
  <2>7. StoreInv' /\ StoredInv'
    BY <1>40, <1>1, <2>0, Numbers
       DEF PromoteBlob, Beside, files, env, StoreInv, Clean, Active, Emptied, Loaded,
           StoredInv, Stored, AloneInv, HandlerInv, At, TDisk, ProgramInv
  <2>8. SwapInv'
    BY <1>40, <1>1, <2>0, Numbers
       DEF PromoteBlob, Beside, files, env, SwapInv, Clean, Active, AloneInv, At, TRest,
           RuntimeInv
  <2>9. HandlerInv' /\ RuntimeInv' /\ VerdictInv' /\ QuietInv'
    BY <1>40, <1>1
       DEF PromoteBlob, files, env, HandlerInv, At, Loaded, RuntimeInv, Clean, VerdictInv,
           QuietInv, Changing
  <2> QED
    BY <2>1, <2>2, <2>3, <2>4, <2>5, <2>6, <2>7, <2>8, <2>9, InvParts, Zenon
<1>41. ASSUME NEW u \in Uploads, PromoteMeta(u) PROVE UploadInv'
  <2>0. /\ RunType' /\ run'[u].pc = "off" /\ run'[u].ok = run[u].ok
        /\ \A v \in Uploads : v # u => run'[v] = run[v]
    <3>1. RunTo(u, "off") /\ "off" \in RunSteps
      BY <1>41 DEF PromoteMeta, RunSteps
    <3> QED
      BY <1>1, <1>41, <3>1, RunMoves DEF TWork
  <2>1. TWork' /\ BuildInv' /\ AloneInv'
    BY <1>41, <1>1, <2>0, Numbers
       DEF PromoteMeta, Beside, files, env, TWork, UpType, RunType, BuildInv, Active, At,
           AloneInv, Clean, Version, HandlerInv, Loaded, Uploads
  <2>2. TRest'
    BY <1>41, <1>1, <2>0, Numbers
       DEF PromoteMeta, Beside, files, env, TRest, Version, TDisk, Stored
  <2>3. TDisk'
    <3> DEFINE s == [snap EXCEPT !.meta = snap.smeta]
    <3>1. 0 \in Version
      BY Numbers DEF Version
    <3>2. s \in [blob : Version, meta : Version, sblob : Version, smeta : Version]
      BY <1>1, <3>1 DEF TDisk
    <3>3. snap' = [s EXCEPT !.smeta = 0]
      BY <1>41, <1>1 DEF PromoteMeta, TDisk
    <3> HIDE DEF s
    <3>4. snap' \in [blob : Version, meta : Version, sblob : Version, smeta : Version]
      BY <3>1, <3>2, <3>3
    <3> QED
      BY <1>41, <1>1, <3>4 DEF PromoteMeta, files, TDisk, Files
  <2>4. ReplyInv'
    BY <1>41, <1>1, <2>0, Numbers
       DEF PromoteMeta, Beside, files, env, ReplyInv, CacheTrue, Stored, MidChange, At,
           TDisk
  <2>5. NeverPinned' /\ StatusInv'
    BY <1>41, <1>1, <2>0, Numbers
       DEF PromoteMeta, Beside, files, env, NeverPinned, Active, At, LastSteps, StatusInv,
           Clean, AloneInv
  <2>6. FilesInv' /\ ProgramInv'
    BY <1>41, <1>1, <2>0, Numbers
       DEF PromoteMeta, Beside, files, env, FilesInv, Clean, Active, At, Loaded, AfterFiles,
           AppliedTo, Applied, ProgramInv, AloneInv, HandlerInv, BuildInv, TWork, UpType,
           StatusInv, LastSteps
  <2>7. StoreInv' /\ StoredInv'
    BY <1>41, <1>1, <2>0, Numbers
       DEF PromoteMeta, Beside, files, env, StoreInv, Clean, Active, Emptied, Loaded,
           StoredInv, Stored, AloneInv, HandlerInv, At, TDisk, ProgramInv
  <2>8. SwapInv'
    BY <1>41, <1>1, <2>0, Numbers
       DEF PromoteMeta, Beside, files, env, SwapInv, Clean, Active, AloneInv, At, TRest,
           RuntimeInv
  <2>9. HandlerInv' /\ RuntimeInv' /\ VerdictInv' /\ QuietInv'
    BY <1>41, <1>1
       DEF PromoteMeta, files, env, HandlerInv, At, Loaded, RuntimeInv, Clean, VerdictInv,
           QuietInv, Changing
  <2> QED
    BY <2>1, <2>2, <2>3, <2>4, <2>5, <2>6, <2>7, <2>8, <2>9, InvParts, Zenon
<1>42. ASSUME NEW u \in Uploads, PromoteFails(u) PROVE UploadInv'
  <2>0. /\ RunType' /\ run'[u].pc = "discard" /\ run'[u].ok = run[u].ok
        /\ \A v \in Uploads : v # u => run'[v] = run[v]
    <3>1. RunTo(u, "discard") /\ "discard" \in RunSteps
      BY <1>42 DEF PromoteFails, RunSteps
    <3> QED
      BY <1>1, <1>42, <3>1, RunMoves DEF TWork
  <2>1. TWork' /\ BuildInv' /\ AloneInv'
    BY <1>42, <1>1, <2>0, Numbers
       DEF PromoteFails, files, ad, env, TWork, UpType, RunType, BuildInv, Active, At,
           AloneInv, Clean, Version, HandlerInv, Loaded, Uploads
  <2>2. ReplyInv'
    BY <1>42, <1>1, <2>0, Numbers
       DEF PromoteFails, files, ad, env, ReplyInv, CacheTrue, Stored, MidChange, At, TDisk
  <2>3. NeverPinned' /\ StatusInv'
    BY <1>42, <1>1, <2>0, Numbers
       DEF PromoteFails, files, ad, env, NeverPinned, Active, At, LastSteps, StatusInv,
           Clean, AloneInv
  <2>4. FilesInv' /\ ProgramInv'
    BY <1>42, <1>1, <2>0, Numbers
       DEF PromoteFails, files, ad, env, FilesInv, Clean, Active, At, Loaded, AfterFiles,
           AppliedTo, Applied, ProgramInv, AloneInv, HandlerInv, BuildInv, TWork, UpType,
           StatusInv, LastSteps
  <2>5. StoreInv'
    BY <1>42, <1>1, <2>0, Numbers
       DEF PromoteFails, files, ad, env, StoreInv, Clean, Active, Emptied, Loaded, AloneInv,
           HandlerInv, At, TDisk
  <2>6. SwapInv'
    BY <1>42, <1>1, <2>0, Numbers
       DEF PromoteFails, files, ad, env, SwapInv, Clean, Active, AloneInv, At, TRest,
           RuntimeInv
  <2>7. TDisk' /\ TRest' /\ HandlerInv' /\ StoredInv' /\ RuntimeInv' /\ VerdictInv' /\ QuietInv'
    BY <1>42, <1>1
       DEF PromoteFails, files, ad, env, TDisk, TRest, Version, HandlerInv, At, Loaded,
           StoredInv, Clean, Stored, RuntimeInv, VerdictInv, QuietInv, Changing
  <2> QED
    BY <2>1, <2>2, <2>3, <2>4, <2>5, <2>6, <2>7, InvParts, Zenon
<1>43. ASSUME NEW u \in Uploads, Discard(u) PROVE UploadInv'
  <2>0. /\ RunType' /\ run'[u].pc = "off" /\ run'[u].ok = run[u].ok
        /\ \A v \in Uploads : v # u => run'[v] = run[v]
    <3>1. RunTo(u, "off") /\ "off" \in RunSteps
      BY <1>43 DEF Discard, RunSteps
    <3> QED
      BY <1>1, <1>43, <3>1, RunMoves DEF TWork
  <2>1. TWork' /\ BuildInv' /\ AloneInv'
    BY <1>43, <1>1, <2>0, Numbers
       DEF Discard, Beside, Unknown, files, env, TWork, UpType, RunType, BuildInv, Active,
           At, AloneInv, Clean, Version, HandlerInv, Loaded, Uploads
  <2>2. TRest'
    BY <1>43, <1>1, <2>0, Numbers
       DEF Discard, Beside, Unknown, files, env, TRest, Version, TDisk, Stored
  <2>3. TDisk'
    <3> DEFINE s == [snap EXCEPT !.sblob = 0]
    <3>1. 0 \in Version
      BY Numbers DEF Version
    <3>2. s \in [blob : Version, meta : Version, sblob : Version, smeta : Version]
      BY <1>1, <3>1 DEF TDisk
    <3>3. snap' = [s EXCEPT !.smeta = 0]
      BY <1>43, <1>1 DEF Discard, TDisk
    <3> HIDE DEF s
    <3>4. snap' \in [blob : Version, meta : Version, sblob : Version, smeta : Version]
      BY <3>1, <3>2, <3>3
    <3> QED
      BY <1>43, <1>1, <3>4 DEF Discard, files, TDisk, Files
  <2>4. ReplyInv'
    BY <1>43, <1>1, <2>0, Numbers
       DEF Discard, Beside, Unknown, files, env, ReplyInv, CacheTrue, Stored, MidChange, At,
           TDisk
  <2>5. NeverPinned' /\ StatusInv'
    BY <1>43, <1>1, <2>0, Numbers
       DEF Discard, Beside, Unknown, files, env, NeverPinned, Active, At, LastSteps,
           StatusInv, Clean, AloneInv
  <2>6. FilesInv' /\ ProgramInv'
    BY <1>43, <1>1, <2>0, Numbers
       DEF Discard, Beside, Unknown, files, env, FilesInv, Clean, Active, At, Loaded,
           AfterFiles, AppliedTo, Applied, ProgramInv, AloneInv, HandlerInv, BuildInv,
           TWork, UpType, StatusInv, LastSteps
  <2>7. StoreInv' /\ StoredInv'
    BY <1>43, <1>1, <2>0, Numbers
       DEF Discard, Beside, Unknown, files, env, StoreInv, Clean, Active, Emptied, Loaded,
           StoredInv, Stored, AloneInv, HandlerInv, At, TDisk, ProgramInv
  <2>8. SwapInv'
    BY <1>43, <1>1, <2>0, Numbers
       DEF Discard, Beside, Unknown, files, env, SwapInv, Clean, Active, AloneInv, At,
           TRest, RuntimeInv
  <2>9. HandlerInv' /\ RuntimeInv' /\ VerdictInv' /\ QuietInv'
    BY <1>43, <1>1
       DEF Discard, files, env, HandlerInv, At, Loaded, RuntimeInv, Clean, VerdictInv,
           QuietInv, Changing
  <2> QED
    BY <2>1, <2>2, <2>3, <2>4, <2>5, <2>6, <2>7, <2>8, <2>9, InvParts, Zenon
<1>44. CASE ProbeRead
  <2>1. TRest'
    BY <1>44, <1>1, Numbers DEF ProbeRead, files, env, TRest, Version, TDisk, Stored
  <2>2. ReplyInv'
    BY <1>44, <1>1, Numbers
       DEF ProbeRead, files, env, ReplyInv, CacheTrue, Stored, MidChange, At, TDisk
  <2>3. TWork' /\ TDisk' /\ HandlerInv' /\ BuildInv' /\ AloneInv' /\ NeverPinned' /\ StatusInv' /\ FilesInv' /\ ProgramInv' /\ StoreInv' /\ StoredInv' /\ RuntimeInv' /\ SwapInv' /\ VerdictInv' /\ QuietInv'
    BY <1>44, <1>1
       DEF ProbeRead, files, env, TWork, UpType, RunType, TDisk, HandlerInv, At, Loaded,
           BuildInv, Active, AloneInv, Clean, NeverPinned, LastSteps, StatusInv, FilesInv,
           AfterFiles, AppliedTo, Applied, ProgramInv, StoreInv, Emptied, StoredInv, Stored,
           RuntimeInv, SwapInv, VerdictInv, QuietInv, Changing
  <2> QED
    BY <2>1, <2>2, <2>3, InvParts, Zenon
<1>45. CASE ProbeStore
  <2>1. TRest'
    BY <1>45, <1>1, Numbers DEF ProbeStore, NoProbe, files, env, TRest, Version, TDisk, Stored
  <2>2. ReplyInv'
    BY <1>45, <1>1, Numbers
       DEF ProbeStore, NoProbe, files, env, ReplyInv, CacheTrue, Stored, MidChange, At,
           TDisk
  <2>3. TWork' /\ TDisk' /\ HandlerInv' /\ BuildInv' /\ AloneInv' /\ NeverPinned' /\ StatusInv' /\ FilesInv' /\ ProgramInv' /\ StoreInv' /\ StoredInv' /\ RuntimeInv' /\ SwapInv' /\ VerdictInv' /\ QuietInv'
    BY <1>45, <1>1
       DEF ProbeStore, files, env, TWork, UpType, RunType, TDisk, HandlerInv, At, Loaded,
           BuildInv, Active, AloneInv, Clean, NeverPinned, LastSteps, StatusInv, FilesInv,
           AfterFiles, AppliedTo, Applied, ProgramInv, StoreInv, Emptied, StoredInv, Stored,
           RuntimeInv, SwapInv, VerdictInv, QuietInv, Changing
  <2> QED
    BY <2>1, <2>2, <2>3, InvParts, Zenon
<1>46. CASE StartPlc
  <2>1. AloneInv'
    BY <1>46, <1>1, Numbers
       DEF StartPlc, files, ad, AloneInv, Clean, Active, At, TWork, HandlerInv, BuildInv
  <2>2. TRest'
    BY <1>46, <1>1, Numbers DEF StartPlc, files, ad, TRest, Version, TDisk, Stored
  <2>3. StatusInv'
    BY <1>46, <1>1, Numbers
       DEF StartPlc, files, ad, StatusInv, Clean, Active, LastSteps, AloneInv, At
  <2>4. FilesInv' /\ ProgramInv'
    BY <1>46, <1>1, Numbers
       DEF StartPlc, files, ad, FilesInv, Clean, Active, At, Loaded, AfterFiles, AppliedTo,
           Applied, ProgramInv, AloneInv, HandlerInv, BuildInv, TWork, UpType, StatusInv,
           LastSteps
  <2>5. StoreInv' /\ StoredInv'
    BY <1>46, <1>1, Numbers
       DEF StartPlc, files, ad, StoreInv, Clean, Active, Emptied, Loaded, StoredInv, Stored,
           AloneInv, HandlerInv, At, TDisk, ProgramInv
  <2>6. RuntimeInv' /\ QuietInv' /\ SwapInv' /\ VerdictInv'
    BY <1>46, <1>1, Numbers
       DEF StartPlc, files, ad, RuntimeInv, Clean, At, QuietInv, Changing, SwapInv, Active,
           VerdictInv, TRest, AloneInv, StatusInv, LastSteps
  <2>7. TWork' /\ TDisk' /\ HandlerInv' /\ BuildInv' /\ ReplyInv' /\ NeverPinned'
    BY <1>46, <1>1
       DEF StartPlc, files, ad, TWork, UpType, RunType, TDisk, HandlerInv, At, Loaded,
           BuildInv, Active, ReplyInv, CacheTrue, Stored, MidChange, NeverPinned, LastSteps
  <2> QED
    BY <2>1, <2>2, <2>3, <2>4, <2>5, <2>6, <2>7, InvParts, Zenon
<1>47. CASE PlcSettles
  <2>1. TRest'
    BY <1>47, <1>1, Numbers
       DEF PlcSettles, Moving, StoppedPlc, files, ad, TRest, Version, TDisk, Stored
  <2>2. RuntimeInv' /\ QuietInv' /\ SwapInv' /\ VerdictInv'
    BY <1>47, <1>1, Numbers
       DEF PlcSettles, Moving, StoppedPlc, files, ad, RuntimeInv, Clean, At, QuietInv,
           Changing, SwapInv, Active, VerdictInv, TRest, AloneInv, StatusInv, LastSteps
  <2>3. TWork' /\ TDisk' /\ HandlerInv' /\ BuildInv' /\ AloneInv' /\ ReplyInv' /\ NeverPinned' /\ StatusInv' /\ FilesInv' /\ ProgramInv' /\ StoreInv' /\ StoredInv'
    BY <1>47, <1>1
       DEF PlcSettles, files, ad, TWork, UpType, RunType, TDisk, HandlerInv, At, Loaded,
           BuildInv, Active, AloneInv, Clean, ReplyInv, CacheTrue, Stored, MidChange,
           NeverPinned, LastSteps, StatusInv, FilesInv, AfterFiles, AppliedTo, Applied,
           ProgramInv, StoreInv, Emptied, StoredInv
  <2> QED
    BY <2>1, <2>2, <2>3, InvParts, Zenon
<1>48. CASE Cut
  <2>0. /\ up'.pc = "idle" /\ UpType' /\ RunType'
        /\ \A v \in Uploads : run'[v].pc = "off" /\ ~run'[v].ok
    <3>1. UpType' /\ up'.pc = "idle"
      BY <1>48, Idled DEF Cut, Release
    <3> QED
      BY <1>48, <3>1 DEF Cut, RunType, RunSteps
  <2>1. TWork' /\ HandlerInv' /\ BuildInv' /\ AloneInv'
    BY <1>48, <1>1, <2>0, Numbers
       DEF Cut, NoHandler, Unknown, NoProbe, StoppedPlc, files, TWork, UpType, RunType,
           HandlerInv, At, Loaded, BuildInv, Active, AloneInv, Clean, Version, Uploads
  <2>2. TRest'
    BY <1>48, <1>1, <2>0, Numbers
       DEF Cut, NoHandler, Unknown, NoProbe, StoppedPlc, files, TRest, Version, TDisk,
           Stored
  <2>3. ReplyInv'
    BY <1>48, <1>1, <2>0, Numbers
       DEF Cut, NoHandler, Unknown, NoProbe, StoppedPlc, files, ReplyInv, CacheTrue, Stored,
           MidChange, At, TDisk
  <2>4. NeverPinned' /\ StatusInv'
    BY <1>48, <1>1, <2>0, Numbers
       DEF Cut, NoHandler, Unknown, NoProbe, StoppedPlc, files, NeverPinned, Active, At,
           LastSteps, StatusInv, Clean, AloneInv
  <2>5. FilesInv' /\ ProgramInv'
    BY <1>48, <1>1, <2>0, Numbers
       DEF Cut, NoHandler, Unknown, NoProbe, StoppedPlc, files, FilesInv, Clean, Active, At,
           Loaded, AfterFiles, AppliedTo, Applied, ProgramInv, AloneInv, HandlerInv,
           BuildInv, TWork, UpType, StatusInv, LastSteps
  <2>6. StoreInv' /\ StoredInv'
    BY <1>48, <1>1, <2>0, Numbers
       DEF Cut, NoHandler, Unknown, NoProbe, StoppedPlc, files, StoreInv, Clean, Active,
           Emptied, Loaded, StoredInv, Stored, AloneInv, HandlerInv, At, TDisk, ProgramInv
  <2>7. RuntimeInv' /\ QuietInv' /\ SwapInv' /\ VerdictInv'
    BY <1>48, <1>1, <2>0, Numbers
       DEF Cut, NoHandler, Unknown, NoProbe, StoppedPlc, files, RuntimeInv, Clean, At,
           QuietInv, Changing, SwapInv, Active, VerdictInv, TRest, AloneInv, StatusInv,
           LastSteps
  <2>8. TDisk'
    BY <1>48, <1>1 DEF Cut, files, TDisk
  <2> QED
    BY <2>1, <2>2, <2>3, <2>4, <2>5, <2>6, <2>7, <2>8, InvParts, Zenon
<1>49. CASE UNCHANGED vars
  <2>1. TWork' /\ TDisk' /\ TRest'
    BY <1>49, <1>1 DEF vars, TWork, UpType, RunType, TDisk, TRest, Version
  <2>2. HandlerInv' /\ BuildInv' /\ AloneInv' /\ ReplyInv'
    BY <1>49, <1>1
       DEF vars, HandlerInv, At, Loaded, BuildInv, Active, AloneInv, Clean, ReplyInv,
           CacheTrue, Stored, MidChange
  <2>3. NeverPinned' /\ StatusInv' /\ FilesInv'
    BY <1>49, <1>1
       DEF vars, NeverPinned, Active, At, LastSteps, StatusInv, Clean, FilesInv, Loaded,
           AfterFiles, AppliedTo, Applied
  <2>4. ProgramInv' /\ StoreInv' /\ StoredInv' /\ RuntimeInv' /\ SwapInv' /\ VerdictInv' /\ QuietInv'
    BY <1>49, <1>1
       DEF vars, ProgramInv, Clean, Active, AppliedTo, Applied, StoreInv, Emptied, Loaded,
           StoredInv, Stored, RuntimeInv, At, SwapInv, VerdictInv, QuietInv, Changing
  <2> QED
    BY <2>1, <2>2, <2>3, <2>4, InvParts, Zenon
<1> QED
  BY <1>2, <1>3, <1>4, <1>5, <1>6, <1>7, <1>8, <1>9, <1>10, <1>11, <1>12, <1>13, <1>14,
     <1>15, <1>16, <1>17, <1>18, <1>19, <1>20, <1>21, <1>22, <1>23, <1>24, <1>25, <1>26,
     <1>27, <1>28, <1>29, <1>30, <1>31, <1>32, <1>33, <1>34, <1>35, <1>36, <1>37, <1>38,
     <1>39, <1>40, <1>41, <1>42, <1>43, <1>44, <1>45, <1>46, <1>47, <1>48, <1>49
     DEF Next, Handler, Compile

\* The invariant holds always.
LEMMA InvHolds == Spec => []UploadInv
<1>1. Init => UploadInv
  BY InvInit
<1>2. UploadInv /\ [Next]_vars => UploadInv'
  BY InvNext
<1> QED
  BY <1>1, <1>2, PTL DEF Spec

-----------------------------------------------------------------------------
(* The properties *)

\* What discovery advertises is what the device has, archive and metadata of one upload,
\* across power cuts too; and a build reported to be under way is one.
THEOREM ReportsTrueHolds == Spec => []ReportsTrue
<1>1. UploadInv => ReportsTrue
  <2> SUFFICES ASSUME UploadInv PROVE ReportsTrue
    OBVIOUS
  <2>1. Clean /\ "clear" \notin excuses <=> ~Excused({"overlap", "clear"})
    BY DEF Clean, Excused
  <2>2. SnapshotMatches
    BY <2>1, Zenon DEF UploadInv, StoredInv, SnapshotMatches
  <2> QED
    BY <2>2 DEF UploadInv, ReplyInv, ReportsTrue
<1> QED
  BY <1>1, InvHolds, PTL

\* A reported SUCCESS stands over a program that is there, with every configuration file
\* its own or absent, and whatever the numbers in an accepted file, the core runs by what
\* was checked.
THEOREM ConfiguredHolds == Spec => []Configured
<1>1. Honoured
  BY AcceptedFaithful, UploadAssumption DEF Honoured, Honest
<1>2. UploadInv => SuccessConfigured
  <2> SUFFICES ASSUME UploadInv, status = "SUCCESS", ~Excused({"overlap", "plugins"})
               PROVE  /\ so # 0 /\ conf[Plugins] = so
                      /\ \A f \in Files : conf[f] \in {0, so}
    BY Zenon DEF SuccessConfigured
  <2>1. Clean /\ "plugins" \notin excuses
    BY DEF Excused, Clean
  <2>2. so # 0 /\ \A k \in 1 .. Len(Confs) :
                     IF Confs[k] = Plugins THEN conf[Plugins] = so
                                           ELSE conf[Confs[k]] \in {0, so}
    BY <2>1 DEF UploadInv, ProgramInv, Applied, AppliedTo
  <2>3. ASSUME NEW f \in Files
        PROVE  conf[f] \in {0, so} /\ (f = Plugins => conf[f] = so)
    <3>1. PICK k \in DOMAIN Confs : f = Confs[k]
      BY DEF Files
    <3>2. k \in 1 .. Len(Confs)
      BY <3>1, UploadAssumption
    <3> QED
      BY <2>2, <3>1, <3>2
  <2> QED
    BY <2>2, <2>3, Numbers
<1> QED
  BY <1>1, <1>2, InvHolds, PTL DEF Configured

\* No upload changes a device beside a program that runs on it, and a reported SUCCESS
\* does not stand over the program before it, but for a START or a lost answer in between.
THEOREM OldProgramGoneHolds == Spec => []OldProgramGone
<1>1. UploadInv => OldProgramGone
  <2> SUFFICES ASSUME UploadInv PROVE OldProgramGone
    OBVIOUS
  <2>1. Clean /\ "start" \notin excuses <=> ~Excused({"overlap", "start"})
    BY DEF Clean, Excused
  <2>2. /\ Excused({"start"}) <=> "start" \in excuses
        /\ Excused({"overlap"}) <=> ~Clean
    BY DEF Clean, Excused
  <2>3. NoOldProgram
    BY <2>1 DEF UploadInv, VerdictInv, NoOldProgram
  <2>4. QuietChange
    BY <2>2, Zenon DEF UploadInv, QuietInv, QuietChange
  <2> QED
    BY <2>3, <2>4 DEF OldProgramGone
<1> QED
  BY <1>1, InvHolds, PTL

\* Until an upload has met the tail of a build, and again from the next that is alone, a
\* new one gets past the busy check only beside that tail: status is COMPILING while the
\* one build there is builds, swaps the library or registers the plugins.
THEOREM BusyHoldsAlways == Spec => BusyHolds
<1>1. ASSUME UploadInv, [Next]_vars
      PROVE  [At("idle") /\ ~(up'.pc = "idle") =>
                 Excused({"overlap"}) \/ \A u \in Active : run[u].pc \in LastSteps]_vars
  <2> SUFFICES ASSUME At("idle"), ~(up'.pc = "idle"), Clean, NEW u \in Active,
                      run[u].pc \notin LastSteps
               PROVE  FALSE
    BY DEF Excused, Clean
  <2>1. status = "COMPILING"
    BY <1>1, Zenon DEF UploadInv, StatusInv
  <2>2. up' # up
    BY DEF At
  <2>3. ~Arrive
    BY <2>1 DEF Arrive, MayArrive
  <2>4. ~Handler
    BY DEF At, Handler, Inspect, Settled, NotSettled, Query, Halted, NotHalted, AnswerLost,
         ClearStart, ClearPart, Cleared, NotCleared, Extract, ExtractFails, Install, Remove,
         ApplyPlugins, ApplyFails, StageNothing, StageStart, StageBlob, StageMeta,
         StageFails, Launch, LaunchFails
  <2>5. ASSUME NEW v \in Uploads, Compile(v) PROVE up' = up
    BY <2>5, ZenonT(30)
       DEF Compile, Begin, Build, Stop, Waited, WaitExpires, Sweep, Swap, Judge, Recheck,
         Register, Publish, RunError, Finish, PromoteBlob, PromoteMeta, PromoteFails, Discard
  <2>6. ASSUME ProbeRead \/ ProbeStore \/ StartPlc \/ PlcSettles PROVE up' = up
    BY <2>6, Zenon DEF ProbeRead, ProbeStore, StartPlc, PlcSettles
  <2>7. ~Cut
    BY DEF Cut, NoHandler
  <2>8. UNCHANGED vars => up' = up
    BY DEF vars
  <2> QED
    BY <1>1, <2>2, <2>3, <2>4, <2>5, <2>6, <2>7, <2>8, Zenon DEF Next
<1> QED
  BY <1>1, InvHolds, PTL DEF Spec, BusyHolds
=============================================================================
