---------------------------- MODULE ModbusMaster ----------------------------
(***************************************************************************)
(* The Modbus master plugin (modbus_master_plugin.py and its helpers): one *)
(* thread for every endpoint or serial bus polls the devices there, writes *)
(* what it read to the image tables in one hold of the image lock, and     *)
(* sends the devices what the program put in its outputs.  start_loop,     *)
(* stop_loop and cleanup are called by the plugin driver.                  *)
(*                                                                         *)
(* A write to the image goes through the journal and is applied when the   *)
(* image lock is next taken; of the writes to one cell only the last one   *)
(* counts.  A device is the blocks of coils or registers the points        *)
(* address; a request is one step.  A connection that broke may look open  *)
(* to the client.                                                          *)
(***************************************************************************)
EXTENDS Integers, Sequences, SequencesExt

CONSTANTS
    Points,         \* the configuration: the points of all devices, in order
    Field,          \* the blocks the field changes, all their bits at once
    Base, Octet,    \* values of one register and of a byte (2^16 and 2^8 in the code)
    ProgramValues,  \* what the program puts in its outputs
    Period,         \* cycle_counter is only used modulo the multiples
    MaxGen,         \* bound: start_loop calls
    MaxFaults,      \* bound: failures of devices and connections
    MaxSlow         \* bound: joins that time out

VARIABLES
    drv,       \* the plugin as its driver sees it
    clean,     \* what stop_loop returned last
    gen,       \* how many times start_loop was called
    list,      \* slave_threads
    th,        \* the threads: one of each generation for each key
    mem,       \* the devices' blocks
    down,      \* the endpoints that do not answer
    img, queue, lock,  \* the image tables, the journal, the holder of the image lock
    faults, slow,      \* what the bounds count
    last,      \* history: what each point's last read is to leave in the image
    forgot     \* history: cleanup dropped a thread that was still alive

plugin == <<drv, clean, gen, list, slow, forgot>>
image == <<img, queue, lock>>
outside == <<mem, down, faults>>
vars == <<plugin, th, outside, image, last>>

(* ---- the configuration ------------------------------------------------- *)

\* Devices with one (host, port), or one serial port and settings, share a thread.
Keys == {Points[j].key : j \in DOMAIN Points}
KeyAt(j) == Points[j].key

Reads == {j \in DOMAIN Points : Points[j].fc = "read"}
Writes == {j \in DOMAIN Points : Points[j].fc = "write"}

\* The largest cycle that divides all of them.
GcdOf(cycles) ==
    Max({g \in 1 .. Min(cycles) : \A c \in cycles : c % g = 0})

\* Of each point, in how many cycles of its thread it is handled once.
Multiple ==
    [j \in DOMAIN Points |-> Points[j].cycle \div
        GcdOf({Points[i].cycle : i \in {i \in DOMAIN Points : KeyAt(i) = KeyAt(j)}})]

Due(j, cyc) == cyc % Multiple[j] = 0

\* The next point of one kind that a cycle handles after the k-th, or 0.
NextDue(key, cyc, kind, k) ==
    LET later == {j \in kind : KeyAt(j) = key /\ j > k /\ Due(j, cyc)}
    IN  IF later = {} THEN 0 ELSE Min(later)

(* ---- addresses and conversions ----------------------------------------- *)

IsBit(p) == p.size = "X"

\* %MX has no table the plugin knows, and %MB no accessor.
Known(p) == p.area # "M" \/ ~IsBit(p)
Supported(p) == Known(p) /\ (p.area # "M" \/ p.size # "B")

\* Bits run on into the next byte, elements into the next row.
Cell(p, i) ==
    LET table == <<p.area, p.size>>
    IN  IF IsBit(p) THEN <<table, p.byte + ((p.bit + i) \div 8), (p.bit + i) % 8>>
                    ELSE <<table, p.byte + i, 0>>

CellsOf(p) == {Cell(p, i) : i \in 0 .. p.length - 1}
Cells == UNION {CellsOf(Points[j]) : j \in DOMAIN Points}
Outputs == UNION {CellsOf(Points[j]) : j \in Writes}
Blank == [c \in Cells |-> 0]

Registers(p) == CASE p.size \in {"B", "W"} -> 1 [] p.size = "D" -> 2 [] OTHER -> 4

\* Coils or registers a read of the point asks for.
Count(p) == IF IsBit(p) THEN p.length ELSE p.length * Registers(p)
Zeros(p) == [i \in 1 .. Count(p) |-> 0]

\* The first register of an element is the low one, both ways.
FromRegisters(p, regs) ==
    CASE p.size = "B" -> regs[1] % Octet
      [] p.size = "W" -> regs[1]
      [] p.size = "D" -> regs[1] + Base * regs[2]
      [] OTHER -> regs[1] + Base * (regs[2] + Base * (regs[3] + Base * regs[4]))

\* The r-th register of an element.
Register(p, v, r) ==
    LET second == v \div Base
        third == second \div Base
    IN  IF p.size = "B" THEN v % Octet
        ELSE (CASE r = 1 -> v [] r = 2 -> second [] r = 3 -> third
                [] OTHER -> third \div Base) % Base

\* The elements in the answer to a read.
Converted(p, data) ==
    [i \in 1 .. p.length |->
        IF IsBit(p) THEN data[i]
        ELSE FromRegisters(p, [r \in 1 .. Registers(p) |-> data[(i - 1) * Registers(p) + r]])]

NoWrites == [c \in {} |-> 0]
RawValues(p) == [i \in 1 .. p.length |-> img[Cell(p, i - 1)]]

\* The c-th register of a request is a part of one element.
Element(p, c) == (c - 1) \div Registers(p) + 1
Part(p, c) == ((c - 1) % Registers(p)) + 1

\* What a write request carries (function 15 or 16; 5 and 6 are those of one value).
ToModbus(p, raw) ==
    IF IsBit(p) THEN raw
    ELSE [c \in 1 .. Count(p) |-> Register(p, raw[Element(p, c)], Part(p, c))]

\* The image after the journal is drained.
Drained == [c \in Cells |-> IF c \in DOMAIN queue THEN queue[c] ELSE img[c]]
Shown(j) == [i \in 1 .. Points[j].length |-> Drained[Cell(Points[j], i - 1)]]
Shows(j, data) == Supported(Points[j]) => Shown(j) = Converted(Points[j], data)

\* A point is well formed; the points of a block address it alike, the field has blocks
\* of bits of its own, and what the program computes fits the types of its outputs.
WellFormed(p) ==
    /\ p.fc \in {"read", "write"} /\ p.area \in {"I", "Q", "M"}
    /\ p.size \in {"X", "B", "W", "D", "L"}
    /\ p.byte \in Nat /\ p.bit \in 0 .. 7 /\ p.length \in Nat \ {0}
    /\ p.zero \in BOOLEAN /\ p.parses \in BOOLEAN

Fits(p, v) ==
    CASE IsBit(p) -> v < 2
      [] p.size = "B" -> v < Octet
      [] p.size = "W" -> v < Base
      [] p.size = "D" -> v \div Base < Base
      [] OTHER -> ((v \div Base) \div Base) \div Base < Base

ASSUME MasterAssumption ==
    /\ Points \in Seq(ToSet(Points)) /\ \A j \in DOMAIN Points : WellFormed(Points[j])
    /\ \A i, j \in DOMAIN Points : Points[i].at = Points[j].at =>
            Points[i].size = Points[j].size /\ Points[i].length = Points[j].length
    /\ \A j \in DOMAIN Points : Points[j].at \in Field => j \in Reads /\ IsBit(Points[j])
    /\ 0 \in ProgramValues /\ ProgramValues \subseteq Nat
    /\ \A j \in Writes : \A v \in ProgramValues : Fits(Points[j], v)
    /\ Base \in Nat \ {0, 1} /\ Octet \in 1 .. Base
    /\ Period \in Nat \ {0} /\ \A j \in DOMAIN Points : Period % Multiple[j] = 0
    /\ MaxGen \in Nat \ {0} /\ MaxFaults \in Nat /\ MaxSlow \in Nat

(* ---- state ------------------------------------------------------------- *)

Ids == (1 .. MaxGen) \X Keys
KeyOf(t) == t[2]
Point(t) == Points[th[t].k]
\* A thread with no connection that has read and fetched nothing.
Bare(pc, stop, cyc) ==
    [pc |-> pc, stop |-> stop, k |-> 0, cyc |-> cyc, flag |-> FALSE, works |-> FALSE,
     got |-> <<>>, n |-> 0, raw |-> <<>>]
NoThread == Bare("none", FALSE, 0)
Alive(t) == th[t].pc \notin {"none", "ended"}
Inside(t) == th[t].pc \in {"read", "put"}
NoOne == <<0, "no one">>

TypeOK ==
    /\ drv \in {"out", "in", "running", "stopping", "stopped", "clearing"}
    /\ clean \in BOOLEAN /\ forgot \in BOOLEAN
    /\ gen \in 0 .. MaxGen /\ list \subseteq Ids
    /\ \A t \in Ids :
        /\ th[t].pc \in {"none", "connect", "read", "put", "gather", "fetch", "send",
                         "sleep", "ended"}
        /\ th[t].stop \in BOOLEAN /\ th[t].flag \in BOOLEAN /\ th[t].works \in BOOLEAN
        /\ th[t].k \in 0 .. Len(Points) /\ th[t].cyc \in 0 .. Period - 1
    /\ \A j \in DOMAIN Points : Len(mem[Points[j].at]) = Count(Points[j])
    /\ down \subseteq Keys /\ lock \in Ids \cup {NoOne}
    /\ DOMAIN img = Cells /\ DOMAIN queue \subseteq Cells
    /\ faults \in 0 .. MaxFaults /\ slow \in 0 .. MaxSlow

Blocks == {Points[j].at : j \in DOMAIN Points}
BlankBlock(b) == Zeros(Points[CHOOSE j \in DOMAIN Points : Points[j].at = b])
AllZero == [j \in Reads |-> Zeros(Points[j])]

Init ==
    /\ drv = "out" /\ clean = TRUE /\ gen = 0 /\ list = {} /\ slow = 0 /\ forgot = FALSE
    /\ th = [t \in Ids |-> NoThread]
    /\ mem = [b \in Blocks |-> BlankBlock(b)] /\ down = {} /\ faults = 0
    /\ img = Blank /\ queue = NoWrites /\ lock = NoOne
    /\ last = AllZero

(* ---- the driver's calls ------------------------------------------------ *)

\* init, after a program is loaded: fresh image tables and an empty journal.
Load ==
    /\ drv = "out" /\ gen < MaxGen /\ lock = NoOne
    /\ drv' = "in"
    /\ img' = Blank /\ queue' = NoWrites
    /\ last' = AllZero
    /\ UNCHANGED <<clean, gen, list, slow, forgot, th, outside, lock>>

\* start_loop: threads that do not start are logged, an invalid configuration starts
\* none; the driver takes any answer for a success.
StartLoop ==
    /\ drv = "in"
    /\ \E started \in SUBSET Keys :
        LET new == {gen + 1} \X started
        IN  /\ th' = [t \in Ids |->
                        IF t \in new THEN Bare("connect", FALSE, 0) ELSE th[t]]
            /\ list' = list \cup new
    /\ drv' = "running" /\ gen' = gen + 1
    /\ UNCHANGED <<clean, slow, forgot, outside, image, last>>

Signalled == [t \in Ids |-> IF t \in list THEN [th[t] EXCEPT !.stop = TRUE] ELSE th[t]]

\* stop_loop, called by the driver or by cleanup: signals, then joins.
StopLoop ==
    /\ drv = "running" /\ drv' = "stopping"
    /\ th' = Signalled
    /\ UNCHANGED <<clean, gen, list, slow, forgot, outside, image, last>>

CleanUp ==
    /\ drv \in {"in", "stopped"} /\ drv' = "clearing"
    /\ th' = Signalled
    /\ UNCHANGED <<clean, gen, list, slow, forgot, outside, image, last>>

Survivors == {t \in list : Alive(t)}

\* Seeded fault: stop_loop does not wait for its threads.
MayReturnAtOnce == TRUE

MayReturn == Survivors = {}

\* cleanup clears the list whatever its stop_loop returned.
Returned ==
    \/ /\ drv = "stopping" /\ drv' = "stopped"
       /\ UNCHANGED <<list, forgot>>
    \/ /\ drv = "clearing" /\ drv' = "out"
       /\ list' = {} /\ forgot' = (forgot \/ Survivors # {})

Joined ==
    /\ drv \in {"stopping", "clearing"} /\ MayReturn
    /\ Returned /\ clean' = TRUE
    /\ UNCHANGED <<gen, slow, th, outside, image, last>>

\* Seeded fault: a thread that outlives the deadline does not count.
StoppedCleanAlways == TRUE

StoppedClean == Survivors = {}

\* 10 s pass: a thread is in a request that takes longer.
JoinExpires ==
    /\ drv \in {"stopping", "clearing"} /\ Survivors # {} /\ slow < MaxSlow
    /\ Returned /\ slow' = slow + 1
    /\ clean' = StoppedClean
    /\ UNCHANGED <<gen, th, outside, image, last>>

(* ---- one thread -------------------------------------------------------- *)

Becomes(t, r) == th' = [th EXCEPT ![t] = r]

\* Where the reads of a cycle begin.
AtReads(t, cyc) ==
    [th[t] EXCEPT !.pc = "read", !.cyc = cyc, !.k = NextDue(KeyOf(t), cyc, Reads, 0)]

MayConnect(t) == KeyOf(t) \notin down

\* connect_with_retry, forever; ensure_connection first drops the old client.
Connect(t) ==
    /\ th[t].pc = "connect" /\ MayConnect(t)
    /\ Becomes(t, [AtReads(t, th[t].cyc) EXCEPT !.flag = TRUE, !.works = TRUE])
    /\ UNCHANGED <<plugin, outside, image, last>>

\* Seeded fault: the retries do not look at the stop event.
MayLeaveNever(t) == FALSE

MayLeave(t) == th[t].stop

ConnectStopped(t) ==
    /\ th[t].pc = "connect" /\ MayLeave(t)
    /\ Becomes(t, Bare("ended", TRUE, 0))
    /\ UNCHANGED <<plugin, outside, image, last>>

Works(t) == th[t].works /\ KeyOf(t) \notin down

\* Seeded fault: a failed read leaves the point as it was.
ZeroFillNothing(p) == <<>>

\* queue_zero_fill_on_failure
ZeroFill(p) == IF p.zero THEN <<Zeros(p)>> ELSE <<>>

\* Seeded fault: the connection is taken for healthy after an error.
MarkDisconnectedNot(r) == r

MarkDisconnected(r) == [r EXCEPT !.flag = FALSE]

\* What was read waits for the end of the pass, if there is a table to put it in.
Collected(t, found) ==
    IF Known(Point(t)) THEN [n \in DOMAIN found |-> <<th[t].k, found[n]>>] ELSE <<>>

PastRead(t, found) ==
    [th[t] EXCEPT !.k = NextDue(KeyOf(t), th[t].cyc, Reads, th[t].k),
                  !.got = @ \o Collected(t, found)]

Reading(t) == th[t].pc = "read" /\ th[t].k # 0 /\ ~th[t].stop

\* A point whose offset does not parse is skipped, zero-fill and all.
SkipPoint(t) ==
    /\ Reading(t) /\ ~Point(t).parses
    /\ Becomes(t, PastRead(t, <<>>))
    /\ UNCHANGED <<plugin, outside, image, last>>

ReadPoint(t) ==
    LET data == mem[Point(t).at] IN
    /\ Reading(t) /\ Point(t).parses /\ Works(t)
    /\ Becomes(t, PastRead(t, <<data>>))
    /\ last' = [last EXCEPT ![th[t].k] = data]
    /\ UNCHANGED <<plugin, outside, image>>

\* No connection, or an error for an answer.
ReadFails(t) ==
    LET p == Point(t) IN
    /\ Reading(t) /\ p.parses
    /\ IF Works(t) THEN faults < MaxFaults /\ faults' = faults + 1 ELSE UNCHANGED faults
    /\ Becomes(t, MarkDisconnected(PastRead(t, ZeroFill(p))))
    /\ last' = [last EXCEPT ![th[t].k] = IF p.zero THEN Zeros(p) ELSE @]
    /\ UNCHANGED <<plugin, mem, down, image>>

ReadsOver(t) == th[t].pc = "read" /\ (th[t].k = 0 \/ th[t].stop)

\* Seeded fault: the image is used without the lock.
HeldByNot(t) == UNCHANGED lock

HeldBy(t) == lock = NoOne /\ lock' = t

\* image_lock drains the journal.
TakeLock(t) == HeldBy(t) /\ img' = Drained /\ queue' = NoWrites

StartBatch(t) ==
    /\ ReadsOver(t) /\ th[t].got # <<>>
    /\ TakeLock(t)
    /\ Becomes(t, [th[t] EXCEPT !.pc = "put"])
    /\ UNCHANGED <<plugin, outside, last>>

NoBatch(t) ==
    /\ ReadsOver(t) /\ th[t].got = <<>>
    /\ Becomes(t, [th[t] EXCEPT !.pc = "gather"])
    /\ UNCHANGED <<plugin, outside, image, last>>

\* write_buffer: a write to a row the table has goes to the journal (all of the points'
\* are), whoever holds the lock.
Journalled(c, v) == [x \in DOMAIN queue \cup {c} |-> IF x = c THEN v ELSE queue[x]]

\* One write of the batch: the next element of its first point.
Put(t) ==
    LET j == Head(th[t].got)[1]
        p == Points[j]
        n == th[t].n
        v == Converted(p, Head(th[t].got)[2])[n + 1]
    IN  /\ th[t].pc = "put" /\ th[t].got # <<>>
        /\ queue' = IF Supported(p) THEN Journalled(Cell(p, n), v) ELSE queue
        /\ Becomes(t, IF n + 1 = p.length THEN [th[t] EXCEPT !.n = 0, !.got = Tail(@)]
                                          ELSE [th[t] EXCEPT !.n = n + 1])
        /\ UNCHANGED <<plugin, outside, img, lock, last>>

EndBatch(t) ==
    /\ th[t].pc = "put" /\ th[t].got = <<>>
    /\ lock' = NoOne
    /\ Becomes(t, [th[t] EXCEPT !.pc = "gather"])
    /\ UNCHANGED <<plugin, outside, img, queue, last>>

FirstWrite(t) == NextDue(KeyOf(t), th[t].cyc, Writes, 0)

\* The writes that are due, unless the stop event ends the gathering.
StartFetch(t) ==
    /\ th[t].pc = "gather" /\ ~th[t].stop /\ FirstWrite(t) # 0
    /\ TakeLock(t)
    /\ Becomes(t, [th[t] EXCEPT !.pc = "fetch", !.k = FirstWrite(t)])
    /\ UNCHANGED <<plugin, outside, last>>

NothingToWrite(t) ==
    /\ th[t].pc = "gather" /\ (th[t].stop \/ FirstWrite(t) = 0)
    /\ Becomes(t, [th[t] EXCEPT !.pc = "sleep"])
    /\ UNCHANGED <<plugin, outside, image, last>>

\* The raw values of one point, still under the lock.
Fetch(t) ==
    LET p == Point(t)
        next == NextDue(KeyOf(t), th[t].cyc, Writes, th[t].k)
        found == IF p.parses /\ Supported(p) THEN <<<<th[t].k, RawValues(p)>>>> ELSE <<>>
    IN  /\ th[t].pc = "fetch"
        /\ Becomes(t, [th[t] EXCEPT !.k = next, !.raw = @ \o found,
                                    !.pc = IF next = 0 THEN "send" ELSE @])
        /\ lock' = IF next = 0 THEN NoOne ELSE lock
        /\ UNCHANGED <<plugin, outside, img, queue, last>>

PastSend(t) == [th[t] EXCEPT !.raw = Tail(@)]

Send(t) ==
    LET p == Points[Head(th[t].raw)[1]] IN
    /\ th[t].pc = "send" /\ th[t].raw # <<>> /\ ~th[t].stop
    /\ Works(t)
    /\ mem' = [mem EXCEPT ![p.at] = ToModbus(p, Head(th[t].raw)[2])]
    /\ Becomes(t, PastSend(t))
    /\ UNCHANGED <<plugin, down, faults, image, last>>

\* The request or its answer is lost, or the answer is an error.
SendFails(t) ==
    LET p == Points[Head(th[t].raw)[1]] IN
    /\ th[t].pc = "send" /\ th[t].raw # <<>> /\ ~th[t].stop
    /\ IF Works(t)
       THEN /\ faults < MaxFaults /\ faults' = faults + 1
            /\ mem' \in {mem, [mem EXCEPT ![p.at] = ToModbus(p, Head(th[t].raw)[2])]}
       ELSE UNCHANGED <<mem, faults>>
    /\ Becomes(t, MarkDisconnected(PastSend(t)))
    /\ UNCHANGED <<plugin, down, image, last>>

WritesOver(t) ==
    /\ th[t].pc = "send" /\ (th[t].raw = <<>> \/ th[t].stop)
    /\ Becomes(t, [th[t] EXCEPT !.pc = "sleep", !.raw = <<>>])
    /\ UNCHANGED <<plugin, outside, image, last>>

\* The rest of the cycle, then the loop's condition and ensure_connection: the flag, and
\* what the client knows of its socket.
Sleep(t) ==
    LET cyc == (th[t].cyc + 1) % Period IN
    /\ th[t].pc = "sleep"
    /\ \/ th[t].stop /\ Becomes(t, Bare("ended", TRUE, 0))
       \/ ~th[t].stop /\ th[t].flag /\ Becomes(t, AtReads(t, cyc))
       \/ /\ ~th[t].stop /\ (~th[t].flag \/ ~Works(t))
          /\ Becomes(t, Bare("connect", FALSE, cyc))
    /\ UNCHANGED <<plugin, outside, image, last>>

Thread(t) ==
    \/ Connect(t) \/ ConnectStopped(t)
    \/ SkipPoint(t) \/ ReadPoint(t) \/ ReadFails(t)
    \/ StartBatch(t) \/ NoBatch(t) \/ Put(t) \/ EndBatch(t)
    \/ StartFetch(t) \/ NothingToWrite(t) \/ Fetch(t)
    \/ Send(t) \/ SendFails(t) \/ WritesOver(t) \/ Sleep(t)

(* ---- the devices and the program --------------------------------------- *)

Down(key) ==
    /\ key \notin down /\ faults < MaxFaults
    /\ down' = down \cup {key} /\ faults' = faults + 1
    /\ th' = [t \in Ids |-> IF KeyOf(t) = key THEN [th[t] EXCEPT !.works = FALSE] ELSE th[t]]
    /\ UNCHANGED <<plugin, mem, image, last>>

Up(key) ==
    /\ key \in down /\ down' = down \ {key}
    /\ UNCHANGED <<plugin, th, mem, faults, image, last>>

FieldChanges(b) ==
    /\ drv = "running"
    /\ mem' = [mem EXCEPT ![b] = [i \in DOMAIN @ |-> 1 - @[i]]]
    /\ UNCHANGED <<plugin, th, down, faults, image, last>>

\* A scan drains the journal and puts one value in all the outputs.
Scan ==
    /\ drv = "running" /\ lock = NoOne
    /\ \E v \in ProgramValues :
        img' = [c \in Cells |-> IF c \in Outputs THEN v ELSE Drained[c]]
    /\ queue' = NoWrites
    /\ UNCHANGED <<plugin, th, outside, lock, last>>

Driver == Load \/ StartLoop \/ StopLoop \/ CleanUp \/ Joined \/ JoinExpires

Next ==
    \/ Driver \/ Scan
    \/ \E t \in Ids : Thread(t)
    \/ \E key \in Keys : Down(key) \/ Up(key)
    \/ \E b \in Field : FieldChanges(b)

Spec == Init /\ [][Next]_vars

\* Threads are scheduled and every request ends (the client's timeout).
FairSpec == Spec /\ \A t \in Ids : WF_vars(Thread(t))

(* ---- properties -------------------------------------------------------- *)

\* Threads that stop_loop or cleanup gave up on.
Lingering == slow > 0

\* The points that have their cells to themselves: no read of another point, and no
\* output, goes there.
Private ==
    {j \in DOMAIN Points : \A i \in DOMAIN Points \ {j} : i \in Reads \/ j \in Reads =>
        CellsOf(Points[i]) \cap CellsOf(Points[j]) = {}}
Sole(j) == j \in Private

\* Outside a thread's reads the image holds (or the journal is about to put there) what
\* the last read of each point gave: its data, or zeros after a failure where the point
\* asks for them.  A thread that outlived its join may write over it.
ReadsLand ==
    ~Lingering => \A j \in Reads :
        Sole(j) /\ (\A t \in Ids : KeyOf(t) = KeyAt(j) => ~Inside(t)) => Shows(j, last[j])

\* A scan sees a batch of reads whole: bits the field changes together are never seen
\* apart, within a point or across a byte of the image.
BatchWhole ==
    lock = NoOne =>
        \A j \in Reads : Points[j].at \in Field /\ Sole(j) =>
            \A a \in DOMAIN Shown(j) : Shown(j)[a] = Shown(j)[1]

\* What a thread sends in one cycle comes from one scan of the program.
OneScan ==
    \A t \in Ids : \A a, b \in DOMAIN th[t].raw :
        Sole(th[t].raw[a][1]) /\ Sole(th[t].raw[b][1]) =>
            ToSet(th[t].raw[a][2]) = ToSet(th[t].raw[b][2])

\* An output read back from the device that holds it is a value the program wrote.
ReadBack ==
    \A j \in Reads :
        Points[j].at \notin Field
            /\ (\A i \in DOMAIN Points : Points[i].at = Points[j].at => Sole(i))
        => ToSet(Shown(j)) \subseteq ProgramValues

\* One master at a time on an endpoint or a serial bus, unless a thread outlived the
\* ten seconds of a join.
OneMaster ==
    \A s, t \in Ids : s # t /\ KeyOf(s) = KeyOf(t) /\ Alive(s) /\ Alive(t) => Lingering

\* stop_loop answers True only if no thread is left, but for those cleanup forgot.
StopHonest ==
    drv = "stopped" /\ clean => forgot \/ \A t \in Ids : ~Alive(t)

\* A thread that is told to stop ends, also while it tries to connect: the stop event
\* stays set, so nothing is told to stop and goes on for ever.
StopEnds == \A t \in Ids : []<>(th[t].stop => th[t].pc = "ended")

\* A thread that runs against a device that answers.
Serving(t) == th[t].pc # "none" /\ Alive(t) /\ ~th[t].stop /\ KeyOf(t) \notin down

\* While a thread runs against a device that answers, what an input of the
\* device holds and does not change reaches the image, whatever failed before.
Fresh ==
    \A t \in Ids : \A j \in Reads :
        LET b == Points[j].at IN
        (KeyAt(j) = KeyOf(t) /\ Points[j].parses /\ b \in Field /\ Sole(j)) =>
            \/ []<>(Lingering \/ ~Serving(t) \/ Shows(j, mem[b]))
            \/ []<><<mem'[b] # mem[b]>>_vars

(* ---- what the run checks ------------------------------------------------ *)

\* The image shows the devices' values, in the right cells and the right registers.
ImageTrue == TypeOK /\ ReadsLand /\ ReadBack

\* What a cycle reads or sends is not torn between two scans, either way.
TransfersWhole == BatchWhole /\ OneScan

\* Threads do not outlive a stop unnoticed, nor share a bus with their successors.
MastersApart == OneMaster /\ StopHonest
=============================================================================
