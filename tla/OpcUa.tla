-------------------------------- MODULE OpcUa --------------------------------
(***************************************************************************)
(* The OPC UA plugin (opcua/plugin.py, server.py, synchronization.py,      *)
(* callbacks.py).  start_loop runs an asyncio server in a thread; a monitor *)
(* task of it polls the stop event and tells the global server manager to  *)
(* stop; stop_loop waits, then cancels the tasks of the global event loop, *)
(* waits again and gives up.  The server answers reads from the program's  *)
(* variables, passes writes to the journal of debug writes, and pushes     *)
(* values to subscribers.                                                  *)
(*                                                                         *)
(* A step is what an event loop does between two awaits that matter; the   *)
(* tasks of one loop interleave there, threads anywhere.  There is one     *)
(* client, with one name; it subscribes to all of Watched at once.  A      *)
(* server that outlives its stop and cleanup is modelled as a server, but  *)
(* not its exchange with the program: the arguments it uses are freed.     *)
(* The elements of an array are taken to be read in one scan.              *)
(***************************************************************************)
EXTENDS OpcUaAccess

CONSTANTS
    Configs,      \* the configurations an upload may bring, a sequence
    Programs,     \* of each loaded program, the addresses it has
    Watched,      \* the nodes the client subscribes to
    Changing,     \* the addresses the program changes
    Credentials,  \* what the client tries to log in with
    Requested,    \* the values the client writes
    MaxGen,       \* bound: start_loop calls
    MaxVisited    \* bound: the client comes to the servers of that many first calls

ASSUME OpcUaAssumption ==
    /\ MaxGen \in Nat \ {0} /\ MaxVisited \in Nat /\ Requested \subseteq Int
    /\ \A f \in DOMAIN Configs : IsConfig(Configs[f])

VARIABLES
    drv,       \* the plugin as its driver sees it
    clean,     \* what stop_loop returned last
    gen,       \* how many times start_loop was called
    cfg,       \* the configuration file of the loaded program
    thread, manager, loop,  \* _server_thread, _server_manager, _loop: of which call, or 0
    stopEvent, \* _stop_event
    srv,       \* the servers: [pc, watch, running, cancel] for each call
    port,      \* the server that has the endpoint, or 0
    prog, img, \* the addresses of the loaded program, the values there
    queue,     \* the debug writes the next scan applies: the last for each address
    session, shown, wr,  \* the client's role, what it was notified, its write under way
    push,      \* the push loop: [at, dv]: the node it is at, what it is writing
    served,    \* what a read of each node gives: Live, or a value that stays
    guarded,   \* the permission callbacks are registered
    tracker,   \* the rate limiter's record of the client's name
    failures,  \* history: how long ago attempts failed, since the last success
    missed,    \* history: phase two of a stop found no event loop
    left,      \* history: the servers a stop said it gave up on
    owed       \* history: the writes of this scan to writable nodes that were answered Good

plugin == <<drv, clean, gen, cfg, thread, manager, stopEvent, missed, left>>
program == <<prog, img, queue, owed>>
client == <<session, shown, wr>>
limiter == <<tracker, failures>>
connection == <<client, push, served, guarded, limiter>>
vars == <<plugin, loop, srv, port, program, connection>>

Gens == 1 .. MaxGen
Files == DOMAIN Configs
Nodes == UNION {Leaves(Configs[f]) : f \in Files}

\* Of each configuration: its nodes' addresses, which nodes are arrays, have the hooks,
\* are writable; and which roles may write a node.
Space ==
    [f \in Files |-> LET c == Configs[f] IN
        [nodes |-> Leaves(c),
         addresses |-> [i \in Leaves(c) |-> AddrsOf(c.leaves[i])],
         arrays |-> {i \in Leaves(c) : c.leaves[i].length > 0},
         hooked |-> Registered(c),
         setters |-> {i \in Leaves(c) : HasSetter(c, i)},
         writable |-> {i \in Leaves(c) : Writable(c, i)},
         writers |-> [i \in Leaves(c) |-> {r \in RoleNames : Allows(c, i, r)}]]]

Addresses == UNION {UNION {Space[f].addresses[i] : i \in Space[f].nodes} : f \in Files}
Values == 0 .. Width - 1

ASSUME ProgramsAssumption == Programs \subseteq SUBSET Addresses

\* An answer about a node: a status and the values of its addresses.
Live == [good |-> TRUE, v |-> <<>>]
Nothing == Live

NoServer == [pc |-> "none", watch |-> FALSE, running |-> FALSE, cancel |-> FALSE]
Idle == [at |-> 0, dv |-> Nothing]
NoWrite == [node |-> 0, v |-> 0]
Alive(g) == srv[g].pc # "none"

TypeOK ==
    /\ drv \in {"out", "in", "running", "stopping", "forcing", "stopped"}
    /\ clean \in BOOLEAN /\ stopEvent \in BOOLEAN /\ missed \in BOOLEAN
    /\ guarded \in BOOLEAN
    /\ gen \in 0 .. MaxGen /\ cfg \in Files /\ left \subseteq Gens
    /\ {thread, manager, loop, port} \subseteq Gens \cup {0}
    /\ \A g \in Gens :
        /\ srv[g].pc \in {"none", "setup", "bind", "serve", "close", "end"}
        /\ {srv[g].watch, srv[g].running, srv[g].cancel} \subseteq BOOLEAN
    /\ prog \subseteq Addresses /\ img \in [Addresses -> Values]
    /\ \A a \in Addresses : queue[a] = <<>> \/ queue[a][1].v \in Values
    /\ session \in RoleNames \cup {Nobody}
    /\ wr.node \in Nodes \cup {0} /\ push.at \in Nodes \cup {0}
    /\ tracker.attempts \in 0 .. MaxAttempts /\ tracker.age \in 0 .. Window + 1
    /\ tracker.lockout \in 0 .. Lockout

NothingShown == [i \in Watched |-> Nothing]
NothingQueued == [a \in Addresses |-> <<>>]

Init ==
    /\ drv = "out" /\ clean = TRUE /\ gen = 0 /\ cfg \in Files
    /\ thread = 0 /\ manager = 0 /\ loop = 0 /\ stopEvent = FALSE
    /\ srv = [g \in Gens |-> NoServer] /\ port = 0
    /\ prog = {} /\ img = [a \in Addresses |-> 0]
    /\ queue = NothingQueued /\ owed = NothingQueued
    /\ session = Nobody /\ shown = NothingShown /\ wr = NoWrite /\ push = Idle
    /\ served = [i \in Nodes |-> Live] /\ guarded = TRUE
    /\ tracker = NoTracker /\ failures = <<>>
    /\ missed = FALSE /\ left = {}

\* A server without clients, or none.
NoConnection ==
    /\ session' = Nobody /\ shown' = NothingShown /\ wr' = NoWrite /\ push' = Idle
    /\ served' = [i \in Nodes |-> Live]
    /\ tracker' = NoTracker /\ failures' = <<>>

(* ---- the driver's calls ------------------------------------------------- *)

\* init, after a program and its configuration are loaded.
Load ==
    /\ drv = "out" /\ gen < MaxGen /\ drv' = "in"
    /\ cfg' \in Files /\ prog' \in Programs
    /\ img' = [a \in Addresses |-> 0] /\ queue' = NothingQueued /\ owed' = NothingQueued
    /\ UNCHANGED <<clean, gen, thread, manager, stopEvent, missed, left, loop, srv, port,
                   connection>>

\* Seeded fault: the thread does not publish its event loop.
LoopOfNew == loop

\* The thread that starts publishes its event loop.
LoopOf == gen + 1

\* start_loop; the driver takes the plugin for running whatever it answers.
StartLoop ==
    /\ drv = "in" /\ drv' = "running" /\ gen' = gen + 1
    /\ IF Accepts(Configs[cfg])
       THEN /\ thread' = gen + 1 /\ manager' = gen + 1 /\ loop' = LoopOf
            /\ stopEvent' = FALSE
            /\ srv' = [srv EXCEPT ![gen + 1] = [NoServer EXCEPT !.pc = "setup", !.watch = TRUE]]
       ELSE UNCHANGED <<thread, manager, loop, stopEvent, srv>>
    /\ UNCHANGED <<clean, cfg, missed, left, port, program, connection>>

StopLoop ==
    /\ drv = "running" /\ drv' = "stopping"
    /\ stopEvent' = TRUE
    /\ UNCHANGED <<clean, gen, cfg, thread, manager, missed, left, loop, srv, port, program,
                   connection>>

ThreadAlive == thread # 0 /\ Alive(thread)

Joined ==
    /\ drv \in {"stopping", "forcing"} /\ ~ThreadAlive
    /\ drv' = "stopped" /\ clean' = TRUE /\ thread' = 0
    /\ UNCHANGED <<gen, cfg, manager, stopEvent, missed, left, loop, srv, port, program,
                   connection>>

\* Seeded fault: phase two waits without cancelling.
CancelledNone(s) == s

Cancelled(s) == [s EXCEPT !.cancel = TRUE]

\* 2 s pass: the tasks of the published event loop are cancelled.
JoinExpires ==
    /\ drv = "stopping" /\ ThreadAlive /\ drv' = "forcing"
    /\ srv' = IF loop = 0 THEN srv ELSE [srv EXCEPT ![loop] = Cancelled(@)]
    /\ missed' = (missed \/ loop = 0)
    /\ UNCHANGED <<clean, gen, cfg, thread, manager, stopEvent, left, loop, port, program,
                   connection>>

\* Seeded fault: a thread that survives both phases counts as stopped.
AnswerAlways == TRUE

Answer == ~ThreadAlive

\* 3 s more pass: a call blocks the event loop (keys are made, directories removed), or
\* the server was not cancelled.
ForceExpires ==
    /\ drv = "forcing" /\ ThreadAlive
    /\ missed \/ srv[thread].pc \in {"setup", "close"}
    /\ drv' = "stopped" /\ clean' = Answer /\ thread' = 0
    /\ left' = IF Answer THEN left ELSE left \cup {thread}
    /\ UNCHANGED <<gen, cfg, manager, stopEvent, missed, loop, srv, port, program, connection>>

\* cleanup; the stop_loop it calls has no thread to wait for.
CleanUp ==
    /\ drv \in {"in", "stopped"} /\ drv' = "out"
    /\ stopEvent' = TRUE /\ manager' = 0
    /\ UNCHANGED <<clean, gen, cfg, thread, missed, left, loop, srv, port, program, connection>>

(* ---- the server thread --------------------------------------------------- *)

At(g, pc) == srv[g].pc = pc /\ ~srv[g].cancel

\* The monitor task stops the manager there is, which need not be its own.
MonitorSees(g) ==
    /\ Alive(g) /\ srv[g].watch /\ stopEvent
    /\ srv' = [h \in Gens |->
                [srv[h] EXCEPT !.running = @ /\ h # manager, !.watch = @ /\ h # g]]
    /\ UNCHANGED <<plugin, loop, port, program, connection>>

\* run up to the start of the server: any of its parts may fail.
SetUp(g) ==
    /\ At(g, "setup")
    /\ \E pc \in {"bind", "close"} : srv' = [srv EXCEPT ![g].pc = pc]
    /\ UNCHANGED <<plugin, loop, port, program, connection>>

\* register: the permission callbacks are in place, or an exception left them out.
Guarded == BOOLEAN

\* _start_server: running is set whatever was asked meanwhile.  Without its callbacks the
\* server goes on, unguarded.
Bind(g) ==
    /\ At(g, "bind") /\ port = 0 /\ port' = g
    /\ srv' = [srv EXCEPT ![g].pc = "serve", ![g].running = TRUE]
    /\ NoConnection /\ guarded' \in Guarded
    /\ UNCHANGED <<plugin, loop, program>>

BindFails(g) ==
    /\ At(g, "bind") /\ port # 0
    /\ srv' = [srv EXCEPT ![g].pc = "close"]
    /\ UNCHANGED <<plugin, loop, port, program, connection>>

ServeEnds(g) ==
    /\ At(g, "serve") /\ ~srv[g].running /\ push.dv = Nothing
    /\ srv' = [srv EXCEPT ![g].pc = "close"]
    /\ push' = Idle
    /\ UNCHANGED <<plugin, loop, port, program, client, served, guarded, limiter>>

\* The cancellation reaches the tasks at their next await.
CancelArrives(g) ==
    /\ srv[g].cancel /\ srv[g].pc \in {"setup", "bind", "serve", "close"}
    /\ srv' = [srv EXCEPT ![g].pc = IF @ = "close" THEN "end" ELSE "close",
                         ![g].cancel = FALSE, ![g].watch = FALSE]
    /\ push' = IF srv[g].pc = "serve" THEN Idle ELSE push
    /\ UNCHANGED <<plugin, loop, port, program, client, served, guarded, limiter>>

\* _cleanup stops the server only while it counts as running, and for 1.5 s at most.
Close(g) ==
    /\ At(g, "close")
    /\ port' \in {port} \cup (IF srv[g].running /\ port = g THEN {0} ELSE {})
    /\ IF port' # port THEN NoConnection /\ guarded' = TRUE ELSE UNCHANGED connection
    /\ srv' = [srv EXCEPT ![g].pc = "end", ![g].running = FALSE]
    /\ UNCHANGED <<plugin, loop, program>>

\* The event loop ends, and with it every task; _loop is reset, whoever published it.
End(g) ==
    /\ srv[g].pc = "end"
    /\ srv' = [srv EXCEPT ![g] = NoServer]
    /\ loop' = 0
    /\ IF port = g THEN NoConnection /\ guarded' = TRUE ELSE UNCHANGED connection
    /\ UNCHANGED <<plugin, port, program>>

\* A listening socket that was not closed goes with the objects of its server.
Collect ==
    /\ port # 0 /\ ~Alive(port) /\ port' = 0
    /\ UNCHANGED <<plugin, loop, srv, program, connection>>

(* ---- the program's variables ---------------------------------------------- *)

\* The server whose exchange with the program is modelled.
Up ==
    /\ drv \in {"running", "stopping", "forcing", "stopped"}
    /\ gen # 0 /\ port = gen /\ srv[gen].pc \in {"serve", "close"}

Here == Space[cfg]
Readable(i) == Here.addresses[i] \subseteq prog

\* The read callback: live values, Bad if one cannot be read.
Read(i) ==
    [good |-> Readable(i),
     v |-> [a \in Here.addresses[i] |-> IF a \in prog THEN ToOpcua(img[a]) ELSE 0]]

\* What a client's read of the node gives.
Response(i) == IF served[i] = Live THEN Read(i) ELSE served[i]

Subscribed(i) == i \in Watched /\ shown[i] # Nothing
Notified(i, value) == IF Subscribed(i) THEN [shown EXCEPT ![i] = value] ELSE shown

\* Seeded fault: whatever arrives during a push is taken for the push.
IsEchoFlag(own) == push.dv # Nothing

\* Seeded fault: a push is not recognized.
IsEchoNever(own) == FALSE

\* The setter knows the pushed values by their identity.
IsEcho(own) == own

\* The write setter of a node; asyncua keeps the value itself where there is none.
Set(i, value, own, by) ==
    LET forwarded == i \in Here.setters /\ ~IsEcho(own) /\ i \in Here.writable
    IN  /\ served' = IF i \in Here.setters THEN served ELSE [served EXCEPT ![i] = value]
        /\ queue' = IF ~forwarded THEN queue
                    ELSE [a \in Addresses |->
                            IF a \in Here.addresses[i] \cap prog
                            THEN <<[v |-> ToPlc(value.v[a]), by |-> by]>>
                            ELSE queue[a]]
        /\ shown' = Notified(i, value)

\* Seeded fault: the first node is left out.
PendingAfterFirst ==
    {i \in Here.hooked : i > push.at + 1 /\ Subscribed(i) /\ (i \in Here.arrays \/ Readable(i))}

\* The nodes a cycle still has to push: subscribed, and readable unless arrays.
Pending ==
    {i \in Here.hooked : i > push.at /\ Subscribed(i) /\ (i \in Here.arrays \/ Readable(i))}

\* The next node of a cycle, or the end of it.  The cycle waits for a program that has
\* some of the nodes.
Sample(g) ==
    /\ At(g, "serve") /\ g = gen /\ Up /\ srv[g].running /\ push.dv = Nothing
    /\ \E i \in Here.nodes : Here.addresses[i] \cap prog # {}
    /\ push' = IF Pending = {} THEN Idle
               ELSE [at |-> Min(Pending), dv |-> Read(Min(Pending))]
    /\ UNCHANGED <<plugin, loop, srv, port, program, client, served, guarded, limiter>>

\* write_attribute_value of what was read before.
Deliver(g) ==
    /\ srv[g].pc = "serve" /\ g = gen /\ Up /\ push.dv # Nothing
    /\ Set(push.at, push.dv, TRUE, "push")
    /\ push' = [push EXCEPT !.dv = Nothing]
    /\ UNCHANGED <<plugin, loop, srv, port, prog, img, owed, session, wr, guarded, limiter>>

\* A scan applies the debug writes.
Scan ==
    /\ drv = "running"
    /\ img' = [a \in Addresses |-> IF queue[a] = <<>> THEN img[a] ELSE queue[a][1].v]
    /\ queue' = NothingQueued /\ owed' = NothingQueued
    /\ UNCHANGED <<plugin, loop, srv, port, prog, connection>>

ProgramChanges(a) ==
    /\ drv = "running" /\ a \in prog
    /\ \E v \in Values : img' = [img EXCEPT ![a] = v]
    /\ UNCHANGED <<plugin, loop, srv, port, prog, queue, owed, connection>>

(* ---- the client ------------------------------------------------------------ *)

\* get_user; an anonymous client is not limited (bound: it does not come between the
\* attempts of the one that is).
LogIn(cred) ==
    LET role == RoleFor(Configs[cfg], cred)
        t == Examined(tracker)
    IN  /\ Up /\ session = Nobody /\ gen <= MaxVisited
        /\ \/ /\ cred.method = "Anonymous" /\ tracker = NoTracker /\ session' = role
              /\ UNCHANGED limiter
           \/ /\ cred.method # "Anonymous" /\ LockedOut(t) /\ tracker' = t
              /\ UNCHANGED <<session, failures>>
           \/ /\ cred.method # "Anonymous" /\ ~LockedOut(t) /\ session' = role
              /\ tracker' = Recorded(t, role # Nobody)
              /\ failures' = IF role = Nobody THEN Append(failures, 0) ELSE <<>>
        /\ UNCHANGED <<plugin, loop, srv, port, program, shown, wr, push, served, guarded>>

LogOut ==
    /\ Up /\ session # Nobody
    /\ session' = Nobody /\ shown' = NothingShown /\ wr' = NoWrite
    /\ UNCHANGED <<plugin, loop, srv, port, program, push, served, guarded, limiter>>

\* The first of the failures that are still in the window when a second has passed.
FirstRecent ==
    Min({n \in DOMAIN failures : failures[n] < Window} \cup {Len(failures) + 1})

\* A second passes for the rate limiter.
Second ==
    /\ Up /\ tracker # NoTracker
    /\ tracker' = Older(tracker)
    /\ failures' = [n \in 1 .. Len(failures) + 1 - FirstRecent |->
                        failures[n + FirstRecent - 1] + 1]
    /\ UNCHANGED <<plugin, loop, srv, port, program, client, push, served, guarded>>

\* The first notification is the value at that time.
Subscribe ==
    /\ Up /\ session # Nobody /\ \A i \in Watched : ~Subscribed(i)
    /\ shown' = [i \in Watched |-> Response(i)]
    /\ UNCHANGED <<plugin, loop, srv, port, program, session, wr, push, served, guarded,
                   limiter>>

\* The permission callback, where it is in place, and asyncua's check of the access level.
MayWrite(i) ==
    /\ guarded => session \in Here.writers[i]
    /\ Admin(session) \/ i \in Here.writable

\* The permission callback lets a write through.
CheckWrite(i, v) ==
    /\ Up /\ session # Nobody /\ wr = NoWrite
    /\ MayWrite(i)
    /\ wr' = [node |-> i, v |-> v]
    /\ UNCHANGED <<plugin, loop, srv, port, program, session, shown, push, served, guarded,
                   limiter>>

\* The value setter runs, and the write is answered Good, also where it failed.
Write ==
    LET i == wr.node IN
    /\ Up /\ wr # NoWrite
    /\ Set(i, [good |-> TRUE, v |-> [a \in Here.addresses[i] |-> wr.v]], FALSE, session)
    /\ owed' = [a \in Addresses |->
                    IF i \in Here.writable /\ a \in Here.addresses[i] THEN <<wr.v>>
                    ELSE owed[a]]
    /\ wr' = NoWrite
    /\ UNCHANGED <<plugin, loop, srv, port, prog, img, session, push, guarded, limiter>>

(* ---- the system ------------------------------------------------------------ *)

Main(g) ==
    \/ SetUp(g) \/ Bind(g) \/ BindFails(g) \/ ServeEnds(g) \/ Close(g) \/ End(g)
    \/ Sample(g) \/ Deliver(g)

\* Each happens a few times at most.
Told(g) == MonitorSees(g) \/ CancelArrives(g)

Driver == Load \/ StartLoop \/ StopLoop \/ Joined \/ JoinExpires \/ ForceExpires \/ CleanUp

Client ==
    \/ LogOut \/ Second \/ Subscribe \/ Write
    \/ \E cred \in Credentials : LogIn(cred)
    \/ \E i \in Here.nodes, v \in Requested : CheckWrite(i, v)

Next ==
    \/ Driver \/ Client \/ Collect \/ Scan
    \/ \E a \in Changing : ProgramChanges(a)
    \/ \E g \in Gens : Main(g) \/ Told(g)

Spec == Init /\ [][Next]_vars

\* An event loop runs its tasks in turn, and a join ends or times out.
FairSpec ==
    /\ Spec
    /\ WF_vars(Joined \/ JoinExpires)
    /\ \A g \in Gens : WF_vars(Main(g)) /\ WF_vars(Told(g))

(* ---- properties ------------------------------------------------------------- *)

\* stop_loop answers True only if no server is left, but for those an earlier stop said
\* it gave up on.
StopHonest ==
    drv = "stopped" /\ clean => \A g \in Gens : Alive(g) => g \in left

\* Phase two of a stop finds the event loop of the server it waits for, unless an
\* earlier server outlived its stop and reset it.
ForcedReaches == missed => left # {}

\* What is queued for the program was written by a client whose role may write there, as
\* long as the permission callbacks are in place; a push is never written back.
OnlyAsked ==
    \A i \in Here.nodes : \A a \in Here.addresses[i] :
        Up /\ queue[a] # <<>> =>
            /\ queue[a][1].by # "push"
            /\ guarded =>
                LET role == Normal(queue[a][1].by)
                IN  role \in Roles /\ "w" \in Permissions(Configs[cfg], i)[role]

Distance(v, w) == IF v > w THEN v - w ELSE w - v

\* A write that was answered Good is what the next scan applies, or the nearest value
\* the variable can take; the code drops it where the program has no such variable, or
\* where the node is read-only, which it does not tell an engineer (owed has no such write).
WriteLands ==
    \A a \in Addresses \cap prog : owed[a] # <<>> =>
        /\ queue[a] # <<>>
        /\ \A v \in Values : Distance(queue[a][1].v, owed[a][1]) <= Distance(v, owed[a][1])

\* A read gives the program's value, or Bad, whatever was pushed or written before.
ReadsLive ==
    Up => \A i \in Here.nodes :
        /\ Response(i).good <=> Readable(i)
        /\ Readable(i) => \A a \in Here.addresses[i] : Response(i).v[a] = img[a]

\* Within a window no more attempts to log in fail than two counts of the limiter allow.
AttemptsBounded == Len(failures) < 2 * MaxAttempts

\* A server that was stopped ends, unless a stop found no event loop.  (What was stopped is
\* never run again, and what ended stays so: "again and again" is "in the end".)
StopEnds ==
    \A g \in Gens : []<>(~Alive(g) \/ missed \/ (drv = "running" /\ g = gen))

\* A subscriber is shown the program's value of a node again and again, unless that
\* changes again and again or the subscription ends.
Fresh ==
    \A i \in Watched :
        \/ []<>(~Up \/ ~Subscribed(i) \/ ~Readable(i) \/ ~srv[gen].running \/ shown[i] = Read(i))
        \/ []<><<img' # img>>_vars

(* ---- what the run checks ------------------------------------------------ *)

\* A stop reaches the server it is for and tells whether that ended.
StopTold == TypeOK /\ StopHonest /\ ForcedReaches

\* Nobody writes what the configuration does not let him write, nor guesses passwords
\* faster than the limiter allows.
AccessHeld == OnlyAsked /\ AttemptsBounded

\* The values that clients read, and write, are the program's.
ValuesTrue == WriteLands /\ ReadsLive
=============================================================================
