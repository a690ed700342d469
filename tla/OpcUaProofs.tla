----------------------------- MODULE OpcUaProofs -----------------------------
(***************************************************************************)
(* Proofs about OpcUa, for any configurations, programs and credentials,   *)
(* any number of starts and any limits of the rate limiter: what a stop    *)
(* tells, what a client may write, how often it may guess, and which       *)
(* values it reads and writes.                                             *)
(***************************************************************************)
EXTENDS OpcUa, SequenceTheorems, WellFoundedInduction, TLAPS

USE DEF vars, plugin, program, connection, client, limiter

-----------------------------------------------------------------------------
(* The inductive invariant *)

ServerRec ==
  [pc : {"none", "setup", "bind", "serve", "close", "end"},
   watch : BOOLEAN, running : BOOLEAN, cancel : BOOLEAN]

DriverTypes ==
  /\ drv \in {"out", "in", "running", "stopping", "forcing", "stopped"}
  /\ clean \in BOOLEAN /\ stopEvent \in BOOLEAN /\ missed \in BOOLEAN
  /\ gen \in 0 .. MaxGen /\ cfg \in Files /\ left \in SUBSET Gens
  /\ thread \in Gens \cup {0} /\ manager \in Gens \cup {0}
  /\ loop \in Gens \cup {0} /\ port \in Gens \cup {0}
  /\ srv \in [Gens -> ServerRec]

\* A server was started, and its thread is the plugin's only while the driver takes it
\* for running or waits for it.
Started ==
  /\ drv = "in" => gen < MaxGen
  /\ thread # 0 => thread = gen /\ drv \in {"running", "stopping", "forcing"}
  /\ port <= gen
  /\ \A g \in Gens : Alive(g) => g <= gen

\* Before it is bound a server does not have the endpoint.
Unbound == \A g \in Gens : srv[g].pc \in {"setup", "bind"} => port # g

\* Who is alive is the plugin's thread or was given up, and while none was given up the
\* published event loop is the one of the thread.
Accounted ==
  /\ \A g \in Gens : Alive(g) => g = thread \/ g \in left
  /\ left = {} /\ ThreadAlive => loop = thread
  /\ missed => left # {}

\* The configuration is the one the newest server was started with.
Exchanging == drv \in {"running", "stopping", "forcing", "stopped"}

\* It was checked before the server was started.
Checked == Exchanging /\ gen # 0 /\ Alive(gen) => Accepts(Configs[cfg])

ServersHold == DriverTypes /\ Started /\ Unbound /\ Accounted /\ Checked

ProgramTypes ==
  /\ prog \in SUBSET Addresses /\ img \in [Addresses -> Values]
  /\ \A a \in Addresses : queue[a] = <<>> \/ queue[a][1].v \in Values

ClientTypes ==
  /\ session \in RoleNames \cup {Nobody} /\ guarded \in BOOLEAN
  /\ wr.node \in Nodes \cup {0}

PushTypes == push.at \in Nodes \cup {0} /\ {"at", "dv"} \subseteq DOMAIN push

\* The newest server is not there yet, or does not serve yet; then nothing is queued.
NotYet == drv = "in" \/ (Exchanging /\ gen # 0 /\ srv[gen].pc \in {"setup", "bind"})
NotYetQueued == NotYet => \A a \in Addresses : queue[a] = <<>>

\* No node keeps a value of its own.
AllLive == served = [i \in Nodes |-> Live]

\* A write under way was let through, and the session it came from is still there.
WriteAllowed ==
  Up /\ wr # NoWrite =>
    /\ wr.node \in Here.nodes /\ wr.v \in Int /\ session # Nobody
    /\ guarded => session \in Here.writers[wr.node]

\* What is being pushed is pushed to a node.
PushPlaced == Up /\ push.dv # Nothing => push.at \in Here.nodes

ExchangeHolds ==
  /\ ProgramTypes /\ ClientTypes /\ PushTypes
  /\ NotYetQueued /\ AllLive /\ WriteAllowed /\ PushPlaced
  /\ OnlyAsked /\ WriteLands

TrackerRec == [attempts : 0 .. MaxAttempts, age : 0 .. Window + 1, lockout : 0 .. Lockout]

LimiterTypes == tracker \in TrackerRec /\ failures \in Seq(0 .. Window)

\* The older of two failures is listed first; there are none without a tracker.
Ordered ==
  /\ \A k, l \in DOMAIN failures : k < l => failures[k] >= failures[l]
  /\ tracker.attempts = 0 => tracker = NoTracker /\ failures = <<>>

\* The tracker counts the failures of its window; those before it are at least as old as
\* the window, are gone when it is over, and are too few for a lockout.
Counted ==
  tracker.attempts > 0 =>
    /\ Len(failures) < tracker.attempts + MaxAttempts
    /\ tracker.age <= Window =>
        \A k \in DOMAIN failures :
          k <= Len(failures) - tracker.attempts => failures[k] >= tracker.age
    /\ tracker.age > Window => Len(failures) <= tracker.attempts

\* Since a lockout began nobody tried.
LockoutAges ==
  tracker.attempts = MaxAttempts =>
    \A k \in DOMAIN failures : failures[k] + tracker.lockout >= Lockout

LimiterHolds == LimiterTypes /\ Ordered /\ Counted /\ LockoutAges

-----------------------------------------------------------------------------
(* The servers *)

\* At the beginning no server was started.
LEMMA ServersInit == Init => ServersHold
<1> SUFFICES ASSUME Init PROVE ServersHold
  OBVIOUS
<1>1. DriverTypes
  <2>1. clean \in BOOLEAN /\ stopEvent \in BOOLEAN /\ missed \in BOOLEAN
    BY Zenon DEF Init
  <2>2. srv \in [Gens -> ServerRec]
    BY DEF Init, NoServer, ServerRec
  <2>3. gen \in 0 .. MaxGen
    BY OpcUaAssumption DEF Init
  <2> QED
    BY <2>1, <2>2, <2>3 DEF Init, DriverTypes
<1>2. \A g \in Gens : ~Alive(g)
  BY DEF Init, Alive, NoServer
<1> QED
  BY <1>1, <1>2 DEF Init, ServersHold, Started, Unbound, Accounted, Checked, Exchanging, Alive,
     ThreadAlive, NoServer

\* What is enough of a step of the servers: it starts none and unbinds none.
LEMMA ServersMove ==
  ASSUME ServersHold, UNCHANGED plugin, srv' \in [Gens -> ServerRec],
         port' \in Gens \cup {0}, port' <= gen,
         \A h \in Gens : srv'[h].pc # "none" => srv[h].pc # "none",
         \A h \in Gens : srv'[h].pc \in {"setup", "bind"} => port' # h,
         loop' = loop \/ (loop' = 0 /\ (left = {} => \A h \in Gens : srv'[h].pc = "none"))
  PROVE  ServersHold'
<1>1. DriverTypes'
  BY DEF ServersHold, DriverTypes
<1>2. \A h \in Gens : Alive(h)' => Alive(h)
  BY DEF Alive
<1>3. Started'
  BY <1>2 DEF ServersHold, Started
<1>4. Unbound'
  BY DEF Unbound
<1>5. Accounted'
  <2>1. \A g \in Gens : Alive(g)' => g = thread' \/ g \in left'
    BY <1>2 DEF ServersHold, Accounted
  <2>2. left' = {} /\ ThreadAlive' => loop' = thread'
    <3> SUFFICES ASSUME left = {}, thread # 0, srv'[thread].pc # "none" PROVE loop' = thread
      BY DEF ThreadAlive, Alive
    <3>1. thread \in Gens
      BY DEF ServersHold, DriverTypes
    <3> QED
      BY <3>1 DEF ServersHold, Accounted, ThreadAlive, Alive
  <2> QED
    BY <2>1, <2>2 DEF ServersHold, Accounted
<1>6. Checked'
  <2> SUFFICES ASSUME Exchanging, gen # 0, Alive(gen)' PROVE Accepts(Configs[cfg])
    BY DEF Checked, Exchanging, Alive
  <2>1. gen \in Gens
    BY OpcUaAssumption DEF ServersHold, DriverTypes, Gens
  <2> QED
    BY <1>2, <2>1 DEF ServersHold, Checked
<1> QED
  BY <1>1, <1>3, <1>4, <1>5, <1>6 DEF ServersHold

\* A server that goes on from one place to a later one.
LEMMA ServerGoes ==
  ASSUME ServersHold, UNCHANGED <<plugin, loop, port>>, NEW g \in Gens, NEW rec \in ServerRec,
         srv' = [srv EXCEPT ![g] = rec], srv[g].pc # "none",
         rec.pc \in {"setup", "bind"} => srv[g].pc \in {"setup", "bind"}
  PROVE  ServersHold'
<1>1. srv' \in [Gens -> ServerRec]
  BY DEF ServersHold, DriverTypes
<1>2. srv \in [Gens -> ServerRec] /\ port \in Gens \cup {0} /\ port <= gen
  BY DEF ServersHold, DriverTypes, Started
<1>3. \A h \in Gens : srv'[h] = IF h = g THEN rec ELSE srv[h]
  BY <1>2
<1>4. \A h \in Gens : srv'[h].pc \in {"setup", "bind"} => port # h
  BY <1>3 DEF ServersHold, Unbound
<1> QED
  BY <1>1, <1>2, <1>3, <1>4, ServersMove

\* What a call of the driver keeps: who is alive, and where.
LEMMA DriverKeeps ==
  ASSUME ServersHold, DriverTypes', UNCHANGED <<gen, cfg, srv, port, loop>>,
         drv' = "in" => drv = "in",
         thread' \in {thread, 0}, thread' # 0 => drv' \in {"running", "stopping", "forcing"},
         Exchanging' => Exchanging,
         left \subseteq left', thread' # thread => ~ThreadAlive \/ thread \in left',
         missed' => left' # {}
  PROVE  ServersHold'
<1>1. Started'
  BY DEF ServersHold, Started, Alive
<1>2. Unbound'
  BY DEF ServersHold, Unbound
<1>3. Accounted'
  BY DEF ServersHold, Accounted, ThreadAlive, Alive
<1>4. Checked'
  BY DEF ServersHold, Checked, Alive
<1> QED
  BY <1>1, <1>2, <1>3, <1>4 DEF ServersHold

\* The record of a server that was just started.
LEMMA NewServer ==
  /\ [NoServer EXCEPT !.pc = "setup", !.watch = TRUE] \in ServerRec
  /\ [NoServer EXCEPT !.pc = "setup", !.watch = TRUE].pc = "setup"
BY DEF NoServer, ServerRec

\* Starting a plugin whose configuration is accepted starts a server.
LEMMA ServersStart == ServersHold /\ StartLoop => ServersHold'
<1> SUFFICES ASSUME ServersHold, StartLoop PROVE ServersHold'
  OBVIOUS
<1> USE DEF ServersHold, DriverTypes, Started
<1>1. /\ gen' = gen + 1 /\ gen + 1 \in Gens /\ thread = 0 /\ drv' = "running"
      /\ UNCHANGED <<clean, cfg, missed, left, port>>
  BY OpcUaAssumption DEF StartLoop, Gens
<1>2. CASE Accepts(Configs[cfg])
  <2>1. /\ thread' = gen + 1 /\ manager' = gen + 1 /\ loop' = gen + 1 /\ stopEvent' = FALSE
        /\ srv' = [srv EXCEPT ![gen + 1] = [NoServer EXCEPT !.pc = "setup", !.watch = TRUE]]
    BY <1>2 DEF StartLoop, LoopOf
  <2> DEFINE new == [NoServer EXCEPT !.pc = "setup", !.watch = TRUE]
  <2>2. new \in ServerRec /\ new.pc = "setup" /\ srv' = [srv EXCEPT ![gen + 1] = new]
    BY <2>1, NewServer
  <2> HIDE DEF new
  <2>3. \A h \in Gens : srv'[h].pc = IF h = gen + 1 THEN "setup" ELSE srv[h].pc
    BY <2>2
  <2>4. DriverTypes'
    <3>1. srv' \in [Gens -> ServerRec]
      BY <2>2
    <3>2. stopEvent' \in BOOLEAN /\ clean' \in BOOLEAN /\ missed' \in BOOLEAN
      BY <1>1, <2>1, Zenon
    <3>3. gen' \in 0 .. MaxGen
      BY <1>1 DEF Gens
    <3> QED
      BY <1>1, <2>1, <3>1, <3>2, <3>3
  <2>5. Started'
    BY <1>1, <2>1, <2>3 DEF Alive, Gens
  <2>6. Unbound'
    BY <1>1, <2>3 DEF Unbound, Gens
  <2>7. Accounted'
    BY <1>1, <2>1, <2>3 DEF Accounted, Alive, ThreadAlive, Gens
  <2> QED
    BY <1>1, <1>2, <2>4, <2>5, <2>6, <2>7 DEF Checked
<1>3. CASE ~Accepts(Configs[cfg])
  <2>1. UNCHANGED <<thread, manager, loop, stopEvent, srv>>
    BY <1>3 DEF StartLoop
  <2>2. DriverTypes'
    BY <1>1, <2>1 DEF Gens
  <2>3. \A h \in Gens : Alive(h)' = Alive(h)
    BY <2>1 DEF Alive
  <2>4. Started'
    BY <1>1, <2>1, <2>3 DEF Gens
  <2>5. Unbound' /\ Accounted'
    BY <1>1, <2>1, <2>3 DEF Unbound, Accounted, ThreadAlive, Alive
  <2>6. srv'[gen'].pc = "none"
    BY <1>1, <2>1 DEF Gens, Alive
  <2> QED
    BY <2>2, <2>4, <2>5, <2>6 DEF Checked, Alive
<1> QED
  BY <1>2, <1>3

\* The driver's calls.
LEMMA ServersDriver == ServersHold /\ Driver => ServersHold'
<1> SUFFICES ASSUME ServersHold, Driver PROVE ServersHold'
  OBVIOUS
<1>0. /\ DriverTypes /\ Started
      /\ missed => left # {}
  BY DEF ServersHold, Accounted
<1>1. CASE Load
  <2>1. /\ drv = "out" /\ gen < MaxGen /\ drv' = "in" /\ cfg' \in Files
        /\ UNCHANGED <<clean, gen, thread, manager, stopEvent, missed, left, loop, srv, port>>
    BY <1>1 DEF Load
  <2>2. DriverTypes'
    BY <1>0, <2>1 DEF DriverTypes
  <2>3. Started'
    BY <1>0, <2>1 DEF Started, Alive
  <2>4. Unbound' /\ Accounted'
    BY <2>1 DEF ServersHold, Unbound, Accounted, ThreadAlive, Alive
  <2> QED
    BY <2>1, <2>2, <2>3, <2>4 DEF ServersHold, Checked, Exchanging
<1>2. CASE StartLoop
  BY <1>2, ServersStart
<1>3. CASE StopLoop
  <2>1. DriverTypes'
    BY <1>0, <1>3 DEF StopLoop, DriverTypes
  <2> QED
    BY <1>0, <1>3, <2>1, DriverKeeps DEF StopLoop, Exchanging
<1>4. CASE Joined
  <2>1. DriverTypes'
    BY <1>0, <1>4 DEF Joined, DriverTypes
  <2> QED
    BY <1>0, <1>4, <2>1, DriverKeeps DEF Joined, Exchanging
<1>5. CASE JoinExpires
  <2>1. /\ drv = "stopping" /\ ThreadAlive /\ drv' = "forcing"
        /\ UNCHANGED <<clean, gen, cfg, thread, manager, stopEvent, left, loop, port>>
    BY <1>5 DEF JoinExpires
  <2>2. missed' => left # {}
    <3>1. missed' = (missed \/ loop = 0)
      BY <1>5 DEF JoinExpires
    <3> QED
      BY <1>0, <2>1, <3>1 DEF ServersHold, Accounted, ThreadAlive
  <2>3. \A h \in Gens : srv'[h].pc = srv[h].pc
    BY <1>0, <1>5 DEF JoinExpires, DriverTypes, Cancelled, ServerRec
  <2>4. srv' \in [Gens -> ServerRec]
    BY <1>0, <1>5 DEF JoinExpires, DriverTypes, Cancelled, ServerRec
  <2>5. DriverTypes'
    <3>1. missed' \in BOOLEAN
      BY <1>5 DEF JoinExpires
    <3> QED
      BY <1>0, <2>1, <2>4, <3>1 DEF DriverTypes
  <2>6. Started' /\ Unbound'
    BY <1>0, <2>1, <2>3 DEF ServersHold, Started, Unbound, Alive
  <2>7. Accounted'
    BY <1>0, <2>1, <2>2, <2>3 DEF ServersHold, Accounted, Alive, ThreadAlive, DriverTypes
  <2>8. Checked'
    <3> SUFFICES ASSUME gen # 0, Alive(gen)' PROVE Accepts(Configs[cfg])
      BY <2>1 DEF Checked
    <3>1. gen \in Gens
      BY <1>0, OpcUaAssumption DEF DriverTypes, Gens
    <3> QED
      BY <2>1, <2>3, <3>1 DEF ServersHold, Checked, Alive, Exchanging
  <2> QED
    BY <2>5, <2>6, <2>7, <2>8 DEF ServersHold
<1>6. CASE ForceExpires
  <2>1. /\ drv = "forcing" /\ ThreadAlive /\ drv' = "stopped" /\ thread' = 0
        /\ clean' = FALSE /\ left' = left \cup {thread}
        /\ UNCHANGED <<gen, cfg, manager, stopEvent, missed, loop, srv, port>>
    BY <1>6 DEF ForceExpires, Answer
  <2>2. thread \in Gens
    BY <1>0, <2>1 DEF ThreadAlive, DriverTypes
  <2>3. DriverTypes'
    BY <1>0, <2>1, <2>2 DEF DriverTypes
  <2> QED
    BY <1>0, <2>1, <2>3, DriverKeeps DEF Exchanging
<1>7. CASE CleanUp
  <2>1. DriverTypes'
    BY <1>0, <1>7 DEF CleanUp, DriverTypes
  <2>2. thread = 0
    BY <1>0, <1>7 DEF CleanUp, Started
  <2> QED
    BY <1>0, <1>7, <2>1, <2>2, DriverKeeps DEF CleanUp, Exchanging
<1> QED
  BY <1>1, <1>2, <1>3, <1>4, <1>5, <1>6, <1>7 DEF Driver

\* The steps of a server's thread and of its monitor task.
LEMMA ServersThread ==
  ASSUME ServersHold, NEW g \in Gens, Main(g) \/ Told(g)
  PROVE  ServersHold'
<1>0. /\ srv \in [Gens -> ServerRec] /\ port \in Gens \cup {0} /\ port <= gen
      /\ srv[g] \in ServerRec
      /\ \A h \in Gens : Alive(h) => h <= gen
      /\ \A h \in Gens : srv[h].pc \in {"setup", "bind"} => port # h
  BY DEF ServersHold, DriverTypes, Started, Unbound
<1>1. CASE SetUp(g)
  <2>1. PICK pc \in {"bind", "close"} : srv' = [srv EXCEPT ![g].pc = pc]
    BY <1>1 DEF SetUp
  <2> DEFINE rec == [srv[g] EXCEPT !.pc = pc]
  <2>2. rec \in ServerRec /\ rec.pc = pc
    BY <1>0 DEF ServerRec
  <2>3. srv' = [srv EXCEPT ![g] = rec]
    BY <1>0, <2>1
  <2> HIDE DEF rec
  <2> QED
    BY <1>1, <2>2, <2>3, ServerGoes DEF SetUp, At
<1>2. CASE Bind(g)
  <2> DEFINE rec == [srv[g] EXCEPT !.pc = "serve", !.running = TRUE]
  <2>2. rec \in ServerRec /\ rec.pc = "serve"
    BY <1>0 DEF ServerRec
  <2>3. srv' = [srv EXCEPT ![g] = rec] /\ port' = g /\ UNCHANGED <<plugin, loop>>
    BY <1>0, <1>2 DEF Bind
  <2> HIDE DEF rec
  <2>4. srv' \in [Gens -> ServerRec]
    BY <1>0, <2>2, <2>3
  <2>5. \A h \in Gens : srv'[h] = IF h = g THEN rec ELSE srv[h]
    BY <1>0, <2>3
  <2>6. srv[g].pc = "bind" /\ port' <= gen
    BY <1>0, <1>2, <2>3 DEF Bind, At, Alive
  <2>7. \A h \in Gens : srv'[h].pc # "none" => srv[h].pc # "none"
    BY <2>5, <2>6
  <2>8. \A h \in Gens : srv'[h].pc \in {"setup", "bind"} => port' # h
    BY <2>2, <2>3, <2>5
  <2> QED
    BY <2>3, <2>4, <2>6, <2>7, <2>8, ServersMove
<1>3. CASE BindFails(g)
  <2> DEFINE rec == [srv[g] EXCEPT !.pc = "close"]
  <2>2. rec \in ServerRec /\ rec.pc = "close"
    BY <1>0 DEF ServerRec
  <2>3. srv' = [srv EXCEPT ![g] = rec]
    BY <1>0, <1>3 DEF BindFails
  <2> HIDE DEF rec
  <2> QED
    BY <1>3, <2>2, <2>3, ServerGoes DEF BindFails, At
<1>4. CASE ServeEnds(g)
  <2> DEFINE rec == [srv[g] EXCEPT !.pc = "close"]
  <2>2. rec \in ServerRec /\ rec.pc = "close"
    BY <1>0 DEF ServerRec
  <2>3. srv' = [srv EXCEPT ![g] = rec]
    BY <1>0, <1>4 DEF ServeEnds
  <2> HIDE DEF rec
  <2> QED
    BY <1>4, <2>2, <2>3, ServerGoes DEF ServeEnds, At
<1>5. CASE Close(g)
  <2> DEFINE rec == [srv[g] EXCEPT !.pc = "end", !.running = FALSE]
  <2>2. rec \in ServerRec /\ rec.pc = "end"
    BY <1>0 DEF ServerRec
  <2>3. srv' = [srv EXCEPT ![g] = rec] /\ port' \in {port, 0} /\ UNCHANGED <<plugin, loop>>
    BY <1>0, <1>5 DEF Close
  <2> HIDE DEF rec
  <2>4. srv' \in [Gens -> ServerRec] /\ srv[g].pc # "none"
    BY <1>0, <1>5, <2>2, <2>3 DEF Close, At
  <2>5. \A h \in Gens : srv'[h] = IF h = g THEN rec ELSE srv[h]
    BY <1>0, <2>3
  <2>6. port' \in Gens \cup {0} /\ port' <= gen
    BY <1>0, <2>3 DEF ServersHold, DriverTypes
  <2>7. \A h \in Gens : srv'[h].pc # "none" => srv[h].pc # "none"
    BY <2>4, <2>5
  <2>8. \A h \in Gens : srv'[h].pc \in {"setup", "bind"} => port' # h
    BY <1>0, <2>2, <2>3, <2>5 DEF Gens
  <2> QED
    BY <2>3, <2>4, <2>6, <2>7, <2>8, ServersMove
<1>6. CASE End(g)
  <2>1. srv' = [srv EXCEPT ![g] = NoServer] /\ loop' = 0 /\ UNCHANGED <<plugin, port>>
        /\ srv[g].pc = "end"
    BY <1>6 DEF End
  <2>2. NoServer \in ServerRec /\ NoServer.pc = "none"
    BY DEF NoServer, ServerRec
  <2>3. srv' \in [Gens -> ServerRec]
    BY <1>0, <2>1, <2>2
  <2>4. \A h \in Gens : srv'[h] = IF h = g THEN NoServer ELSE srv[h]
    BY <1>0, <2>1
  <2>5. \A h \in Gens : srv'[h].pc # "none" => srv[h].pc # "none"
    BY <2>2, <2>4
  <2>6. \A h \in Gens : srv'[h].pc \in {"setup", "bind"} => port' # h
    BY <1>0, <2>1, <2>2, <2>4
  <2>7. left = {} => \A h \in Gens : srv'[h].pc = "none"
    <3>1. g = thread \/ g \in left
      BY <2>1 DEF ServersHold, Accounted, Alive
    <3> QED
      BY <2>2, <2>4, <3>1 DEF ServersHold, Accounted, Alive
  <2> QED
    BY <1>0, <2>1, <2>3, <2>5, <2>6, <2>7, ServersMove
<1>7. CASE Sample(g) \/ Deliver(g)
  <2>1. UNCHANGED <<plugin, loop, srv, port>>
    BY <1>7 DEF Sample, Deliver
  <2> QED
    BY <1>0, <2>1, ServersMove
<1>8. CASE MonitorSees(g)
  <2>1. \A h \in Gens :
          /\ [srv[h] EXCEPT !.running = @ /\ h # manager, !.watch = @ /\ h # g] \in ServerRec
          /\ [srv[h] EXCEPT !.running = @ /\ h # manager, !.watch = @ /\ h # g].pc = srv[h].pc
    BY <1>0 DEF ServerRec
  <2>2. \A h \in Gens : srv'[h] \in ServerRec /\ srv'[h].pc = srv[h].pc
    BY <1>8, <2>1 DEF MonitorSees
  <2>3. srv' \in [Gens -> ServerRec] /\ UNCHANGED <<plugin, loop, port>>
    BY <1>8, <2>2 DEF MonitorSees
  <2> QED
    BY <1>0, <2>2, <2>3, ServersMove
<1>9. CASE CancelArrives(g)
  <2> DEFINE rec == [srv[g] EXCEPT !.pc = IF @ = "close" THEN "end" ELSE "close",
                                   !.cancel = FALSE, !.watch = FALSE]
  <2>2. rec \in ServerRec /\ rec.pc \in {"close", "end"}
    BY <1>0 DEF ServerRec
  <2>3. srv' = [srv EXCEPT ![g] = rec]
    BY <1>0, <1>9 DEF CancelArrives
  <2> HIDE DEF rec
  <2> QED
    BY <1>9, <2>2, <2>3, ServerGoes DEF CancelArrives
<1> QED
  BY <1>1, <1>2, <1>3, <1>4, <1>5, <1>6, <1>7, <1>8, <1>9 DEF Main, Told

\* Every step keeps what holds of the servers.
LEMMA ServersNext == ServersHold /\ [Next]_vars => ServersHold'
<1> SUFFICES ASSUME ServersHold, [Next]_vars PROVE ServersHold'
  OBVIOUS
<1>0. /\ srv \in [Gens -> ServerRec] /\ port \in Gens \cup {0} /\ port <= gen
      /\ \A h \in Gens : srv[h].pc \in {"setup", "bind"} => port # h
  BY DEF ServersHold, DriverTypes, Started, Unbound
<1>1. CASE Driver
  BY <1>1, ServersDriver
<1>2. CASE \E g \in Gens : Main(g) \/ Told(g)
  BY <1>2, ServersThread
<1>3. CASE Collect
  <2>1. port' = 0 /\ UNCHANGED <<plugin, loop, srv>>
    BY <1>3 DEF Collect
  <2>2. 0 <= gen /\ 0 \notin Gens
    BY DEF ServersHold, DriverTypes, Gens
  <2> QED
    BY <1>0, <2>1, <2>2, ServersMove
<1>4. CASE Client \/ Scan \/ (\E a \in Changing : ProgramChanges(a)) \/ UNCHANGED vars
  <2>1. UNCHANGED <<plugin, loop, srv, port>>
    BY <1>4 DEF Client, LogOut, Second, Subscribe, Write, LogIn, CheckWrite, Scan, ProgramChanges
  <2> QED
    BY <1>0, <2>1, ServersMove
<1> QED
  BY <1>1, <1>2, <1>3, <1>4 DEF Next

\* In every reachable state.
LEMMA ServersAlways == Spec => []ServersHold
<1>1. Init => ServersHold
  BY ServersInit
<1>2. ServersHold /\ [Next]_vars => ServersHold'
  BY ServersNext
<1> QED
  BY <1>1, <1>2, PTL DEF Spec

\* stop_loop answers True only if no server is left but those given up on earlier.
THEOREM StopHonestHolds == Spec => []StopHonest
<1>1. 0 \notin Gens
  BY DEF Gens
<1>2. ServersHold => StopHonest
  BY <1>1 DEF ServersHold, Started, Accounted, StopHonest
<1> QED
  BY <1>2, ServersAlways, PTL

\* The event loop a stop cancels is the one of the server it waits for, unless a server
\* outlived an earlier stop.
THEOREM ForcedReachesHolds == Spec => []ForcedReaches
<1>1. ServersHold => ForcedReaches
  BY DEF ServersHold, Accounted, ForcedReaches
<1> QED
  BY <1>1, ServersAlways, PTL

-----------------------------------------------------------------------------
(* The rate limiter *)

\* A set of numbers that is not empty has a smallest one.
LEMMA Smallest ==
  ASSUME NEW S, S \subseteq Nat, S # {}
  PROVE  Min(S) \in S
<1>1. IsWellFoundedOn(OpToRel(<, Nat), Nat)
  BY NatLessThanWellFounded
<1>2. PICK x \in S : \A y \in S : ~(<<y, x>> \in OpToRel(<, Nat))
  BY <1>1, WFMin
<1>3. ASSUME NEW y \in S PROVE x <= y
  <2>1. ~(y < x)
    BY <1>2 DEF OpToRel
  <2> QED
    BY <2>1
<1> QED
  BY <1>3 DEF Min

\* The smaller and the larger of two numbers.
LEMMA OfTwo ==
  ASSUME NEW x \in Int, NEW y \in Int
  PROVE  Min({x, y}) = (IF x <= y THEN x ELSE y) /\ Max({x, y}) = (IF x >= y THEN x ELSE y)
BY DEF Min, Max

\* The failures that are kept when a second passes begin at one that is recent.
LEMMA RecentIs ==
  ASSUME LimiterTypes
  PROVE  /\ FirstRecent \in 1 .. Len(failures) + 1
         /\ FirstRecent <= Len(failures) => failures[FirstRecent] < Window
<1> DEFINE S == {n \in DOMAIN failures : failures[n] < Window} \cup {Len(failures) + 1}
<1>1. failures \in Seq(0 .. Window) /\ Len(failures) \in Nat
      /\ DOMAIN failures = 1 .. Len(failures)
  BY DEF LimiterTypes
<1>2. S \subseteq Nat /\ S # {}
  BY <1>1
<1>3. Min(S) \in S
  <2> HIDE DEF S
  <2> QED
    BY <1>2, Smallest
<1>4. FirstRecent \in S
  BY <1>3 DEF FirstRecent
<1> QED
  BY <1>1, <1>4

\* Nobody has tried, or the last attempt succeeded.
LEMMA LimiterFresh == tracker = NoTracker /\ failures = <<>> => LimiterHolds
<1> SUFFICES ASSUME tracker = NoTracker, failures = <<>> PROVE LimiterHolds
  OBVIOUS
<1>1. tracker \in TrackerRec /\ tracker.attempts = 0
  BY AccessAssumption DEF NoTracker, TrackerRec
<1>2. failures \in Seq(0 .. Window) /\ DOMAIN failures = {}
  OBVIOUS
<1>3. tracker.attempts # MaxAttempts
  BY <1>1, AccessAssumption
<1> QED
  BY <1>1, <1>2, <1>3 DEF LimiterHolds, LimiterTypes, Ordered, Counted, LockoutAges

\* A second passes.
LEMMA LimiterSecond == LimiterHolds /\ Second => LimiterHolds'
<1> SUFFICES ASSUME LimiterHolds, Second PROVE LimiterHolds'
  OBVIOUS
<1> DEFINE m == Len(failures)
           r == FirstRecent
<1>1. /\ failures \in Seq(0 .. Window) /\ m \in Nat /\ DOMAIN failures = 1 .. m
      /\ tracker \in TrackerRec /\ tracker # NoTracker
      /\ failures' = [n \in 1 .. m + 1 - r |-> failures[n + r - 1] + 1]
      /\ tracker' = Older(tracker)
  BY DEF LimiterHolds, LimiterTypes, Second
<1>2. r \in 1 .. m + 1 /\ (r <= m => failures[r] < Window)
  BY RecentIs DEF LimiterHolds
<1> HIDE DEF m, r
<1>3. Window \in Nat /\ MaxAttempts \in Nat \ {0} /\ Lockout \in Nat
  BY AccessAssumption
<1>4. tracker.attempts > 0 /\ tracker.attempts \in 1 .. MaxAttempts
      /\ tracker.age \in 0 .. Window + 1 /\ tracker.lockout \in 0 .. Lockout
  BY <1>1, <1>3 DEF LimiterHolds, Ordered, TrackerRec
<1>5. /\ tracker' \in TrackerRec /\ tracker'.attempts = tracker.attempts
      /\ tracker'.age = (IF tracker.age + 1 <= Window + 1 THEN tracker.age + 1 ELSE Window + 1)
      /\ tracker'.lockout = (IF tracker.lockout - 1 >= 0 THEN tracker.lockout - 1 ELSE 0)
  <2>1. tracker' = [tracker EXCEPT !.age = Min({tracker.age + 1, Window + 1}),
                                   !.lockout = Max({tracker.lockout - 1, 0})]
    BY <1>1, <1>4 DEF Older
  <2> DEFINE age == Min({tracker.age + 1, Window + 1})
             lockout == Max({tracker.lockout - 1, 0})
  <2>2. age = (IF tracker.age + 1 <= Window + 1 THEN tracker.age + 1 ELSE Window + 1)
        /\ lockout = (IF tracker.lockout - 1 >= 0 THEN tracker.lockout - 1 ELSE 0)
    <3>1. /\ tracker.age + 1 \in Int /\ Window + 1 \in Int
          /\ tracker.lockout - 1 \in Int /\ 0 \in Int
      BY <1>3, <1>4
    <3>2. age = IF tracker.age + 1 <= Window + 1 THEN tracker.age + 1 ELSE Window + 1
      BY <3>1, OfTwo
    <3>3. lockout = IF tracker.lockout - 1 >= 0 THEN tracker.lockout - 1 ELSE 0
      BY <3>1, OfTwo
    <3> QED
      BY <3>2, <3>3
  <2>3. tracker' = [tracker EXCEPT !.age = age, !.lockout = lockout]
    BY <2>1
  <2> HIDE DEF age, lockout
  <2>4. age \in 0 .. Window + 1 /\ lockout \in 0 .. Lockout
    BY <1>3, <1>4, <2>2
  <2> QED
    BY <1>1, <2>2, <2>3, <2>4 DEF TrackerRec
<1>6. DOMAIN failures' = 1 .. m + 1 - r /\ Len(failures') = m + 1 - r
  BY <1>1, <1>2
<1>7. \A n \in DOMAIN failures' :
        n + r - 1 \in 1 .. m /\ failures'[n] = failures[n + r - 1] + 1
  BY <1>1, <1>2, <1>6
<1>8. \A k, l \in 1 .. m : k < l => failures[k] >= failures[l]
  BY <1>1 DEF LimiterHolds, Ordered
<1>9. \A k \in 1 .. m : failures[k] \in 0 .. Window
  <2>1. failures \in [1 .. m -> 0 .. Window]
    BY <1>1, LenProperties DEF m
  <2> QED
    BY <2>1
<1>10. LimiterTypes'
  <2>1. ASSUME NEW n \in DOMAIN failures' PROVE failures'[n] \in 0 .. Window
    <3>1. n + r - 1 >= r /\ r <= m /\ n + r - 1 \in 1 .. m
      BY <1>2, <1>6, <1>7
    <3>2. failures[n + r - 1] <= failures[r]
      BY <1>2, <1>8, <1>9, <3>1
    <3>3. failures[n + r - 1] < Window
      BY <1>2, <1>3, <1>9, <3>1, <3>2
    <3> QED
      BY <1>3, <1>7, <1>9, <3>1, <3>3
  <2>2. failures' \in Seq(0 .. Window)
    <3>1. failures' = [n \in 1 .. m + 1 - r |-> failures'[n]]
      BY <1>1
    <3>2. m + 1 - r \in Nat
      BY <1>1, <1>2
    <3>3. failures' \in [1 .. m + 1 - r -> 0 .. Window]
      BY <1>6, <2>1, <3>1
    <3> QED
      BY <3>2, <3>3, SeqDef
  <2> QED
    BY <1>5, <2>2 DEF LimiterTypes
<1>11. Ordered'
  <2>1. ASSUME NEW k \in DOMAIN failures', NEW l \in DOMAIN failures', k < l
        PROVE failures'[k] >= failures'[l]
    <3>1. k + r - 1 \in 1 .. m /\ l + r - 1 \in 1 .. m /\ k + r - 1 < l + r - 1
      BY <1>2, <1>6, <1>7, <2>1
    <3>2. failures[k + r - 1] >= failures[l + r - 1]
      BY <1>8, <3>1
    <3> QED
      BY <1>7, <1>9, <3>1, <3>2
  <2> QED
    BY <1>4, <1>5, <2>1 DEF Ordered
<1>12. Counted'
  <2>1. /\ m < tracker.attempts + MaxAttempts
        /\ tracker.age <= Window =>
             \A k \in 1 .. m : k <= m - tracker.attempts => failures[k] >= tracker.age
        /\ tracker.age > Window => m <= tracker.attempts
    BY <1>1, <1>4 DEF LimiterHolds, Counted, m
  <2>2. Len(failures') < tracker'.attempts + MaxAttempts
    BY <1>1, <1>2, <1>3, <1>4, <1>5, <1>6, <2>1
  <2>3. ASSUME tracker'.age <= Window, NEW k \in DOMAIN failures',
               k <= Len(failures') - tracker'.attempts
        PROVE  failures'[k] >= tracker'.age
    <3>1. tracker.age <= Window /\ tracker'.age = tracker.age + 1
      BY <1>3, <1>4, <1>5, <2>3
    <3>2. k + r - 1 \in 1 .. m /\ k + r - 1 <= m - tracker.attempts
      BY <1>1, <1>2, <1>4, <1>5, <1>6, <1>7, <2>3
    <3>3. failures[k + r - 1] >= tracker.age
      BY <2>1, <3>1, <3>2
    <3> QED
      BY <1>4, <1>7, <1>9, <3>1, <3>2, <3>3
  <2>4. ASSUME tracker'.age > Window PROVE Len(failures') <= tracker'.attempts
    <3>1. tracker.age >= Window
      BY <1>3, <1>4, <1>5, <2>4
    <3>2. CASE tracker.age > Window
      BY <1>1, <1>2, <1>4, <1>5, <1>6, <2>1, <3>2
    <3>3. CASE tracker.age = Window
      <4>1. \A k \in 1 .. m : k <= m - tracker.attempts => failures[k] >= Window
        BY <1>3, <2>1, <3>3
      <4>2. ~(r <= m - tracker.attempts)
        <5> SUFFICES ASSUME r <= m - tracker.attempts PROVE FALSE
          OBVIOUS
        <5>1. r \in 1 .. m
          BY <1>1, <1>2, <1>4
        <5>2. failures[r] >= Window /\ failures[r] < Window
          BY <1>2, <4>1, <5>1
        <5> QED
          BY <1>3, <1>9, <5>1, <5>2
      <4> QED
        BY <1>1, <1>2, <1>4, <1>5, <1>6, <4>2
    <3> QED
      BY <1>3, <1>4, <3>1, <3>2, <3>3
  <2> QED
    BY <2>2, <2>3, <2>4 DEF Counted
<1>13. LockoutAges'
  <2>1. ASSUME tracker'.attempts = MaxAttempts, NEW k \in DOMAIN failures'
        PROVE  failures'[k] + tracker'.lockout >= Lockout
    <3>1. k + r - 1 \in 1 .. m /\ failures'[k] = failures[k + r - 1] + 1
      BY <1>7
    <3>2. failures[k + r - 1] + tracker.lockout >= Lockout
      BY <1>1, <1>5, <2>1, <3>1 DEF LimiterHolds, LockoutAges
    <3> QED
      BY <1>3, <1>4, <1>5, <1>9, <3>1, <3>2
  <2> QED
    BY <2>1 DEF LockoutAges
<1> QED
  BY <1>10, <1>11, <1>12, <1>13 DEF LimiterHolds

\* The tracker and the failures are forgotten.
LEMMA LimiterForgets == tracker' = NoTracker /\ failures' = <<>> => LimiterHolds'
<1>1. tracker' = NoTracker /\ failures' = <<>> => (tracker = NoTracker /\ failures = <<>>)'
  OBVIOUS
<1> QED
  BY <1>1, LimiterFresh, PTL

\* An attempt to log in.
LEMMA LimiterLogIn ==
  ASSUME LimiterHolds, NEW cred, LogIn(cred)
  PROVE  LimiterHolds'
<1> DEFINE t == Examined(tracker)
           m == Len(failures)
<1>1. /\ failures \in Seq(0 .. Window) /\ m \in Nat /\ DOMAIN failures = 1 .. m
      /\ tracker \in TrackerRec
  BY DEF LimiterHolds, LimiterTypes
<1>2. /\ Window \in Nat /\ MaxAttempts \in Nat \ {0} /\ Lockout \in Nat /\ Window < Lockout
      /\ tracker.attempts \in 0 .. MaxAttempts /\ tracker.age \in 0 .. Window + 1
      /\ tracker.lockout \in 0 .. Lockout
  BY <1>1, AccessAssumption DEF TrackerRec
<1>3. \A k \in 1 .. m : failures[k] \in 0 .. Window
  <2>1. failures \in [1 .. m -> 0 .. Window]
    BY <1>1, LenProperties
  <2> QED
    BY <2>1
<1>4. CASE UNCHANGED limiter
  BY <1>4 DEF LimiterHolds, LimiterTypes, Ordered, Counted, LockoutAges
<1>5. CASE LockedOut(t) /\ tracker' = t /\ failures' = failures
  <2>1. NoTracker.lockout = 0
    BY DEF NoTracker
  <2>2. t = tracker
    BY <1>5, <2>1 DEF LockedOut, Examined
  <2> QED
    BY <1>4, <1>5, <2>2
<1>6. CASE tracker' = Recorded(t, TRUE) /\ failures' = <<>>
  <2>1. tracker' = NoTracker /\ failures' = <<>>
    BY <1>6 DEF Recorded
  <2> QED
    BY <2>1, LimiterForgets
<1>7. CASE /\ ~LockedOut(t) /\ tracker' = Recorded(t, FALSE)
           /\ failures' = Append(failures, 0)
  <2>1. \/ tracker.attempts = MaxAttempts /\ t = NoTracker /\ m = 0
        \/ tracker.attempts < MaxAttempts /\ t = tracker
    <3>1. CASE tracker.attempts = MaxAttempts
      <4>1. tracker.lockout = 0 /\ t = NoTracker
        BY <1>2, <1>7, <3>1 DEF LockedOut, Examined
      <4>2. \A k \in 1 .. m : failures[k] >= Lockout
        BY <1>1, <1>2, <1>3, <3>1, <4>1 DEF LimiterHolds, LockoutAges
      <4>3. ~(1 \in 1 .. m)
        BY <1>2, <1>3, <4>2
      <4> QED
        BY <1>1, <3>1, <4>1, <4>3
    <3>2. CASE tracker.attempts < MaxAttempts
      BY <1>2, <3>2 DEF Examined
    <3> QED
      BY <1>2, <3>1, <3>2
  <2>2. /\ t.attempts \in 0 .. MaxAttempts - 1 /\ t.age \in 0 .. Window + 1
        /\ t.lockout \in 0 .. Lockout
    BY <1>2, <2>1 DEF NoTracker
  <2>3. t.attempts = 0 => m = 0
    <3>1. t.attempts = 0 => m = 0 \/ failures = <<>>
      BY <1>2, <2>1 DEF LimiterHolds, Ordered
    <3> QED
      BY <3>1
  <2>4. t.attempts > 0 => t = tracker
    BY <2>1 DEF NoTracker
  <2>5. t.attempts > 0 =>
          /\ m < t.attempts + MaxAttempts
          /\ t.age <= Window => \A k \in 1 .. m : k <= m - t.attempts => failures[k] >= t.age
          /\ t.age > Window => m <= t.attempts
    BY <1>1, <2>4 DEF LimiterHolds, Counted
  <2> HIDE DEF t
  <2> DEFINE again == t.attempts = 0 \/ t.age > Window
             n == IF again THEN 1 ELSE t.attempts + 1
             rec == [attempts |-> n, age |-> IF again THEN 0 ELSE t.age,
                     lockout |-> IF n >= MaxAttempts THEN Lockout ELSE t.lockout]
  <2>6. tracker' = rec
    BY <1>7 DEF Recorded, Restarts, ReachesLimit
  <2>7. /\ n \in 1 .. MaxAttempts /\ rec.attempts = n
        /\ rec.age = (IF again THEN 0 ELSE t.age)
        /\ rec.lockout = (IF n >= MaxAttempts THEN Lockout ELSE t.lockout)
        /\ rec \in TrackerRec
    <3>1. n \in 1 .. MaxAttempts
      BY <1>2, <2>2
    <3>2. n \in 0 .. MaxAttempts /\ (IF again THEN 0 ELSE t.age) \in 0 .. Window + 1
          /\ (IF n >= MaxAttempts THEN Lockout ELSE t.lockout) \in 0 .. Lockout
      BY <1>2, <2>2, <3>1
    <3> HIDE DEF n, again
    <3> QED
      BY <3>1, <3>2 DEF TrackerRec
  <2> HIDE DEF rec
  <2>8. /\ DOMAIN failures' = 1 .. m + 1 /\ Len(failures') = m + 1
        /\ failures' \in Seq(0 .. Window)
        /\ \A k \in 1 .. m : failures'[k] = failures[k]
        /\ failures'[m + 1] = 0
    <3>1. 0 \in 0 .. Window
      BY <1>2
    <3> QED
      BY <1>1, <1>7, <3>1, AppendProperties
  <2>9. LimiterTypes'
    BY <2>6, <2>7, <2>8 DEF LimiterTypes
  <2>10. Ordered'
    <3>1. ASSUME NEW k \in DOMAIN failures', NEW l \in DOMAIN failures', k < l
          PROVE  failures'[k] >= failures'[l]
      <4>1. k \in 1 .. m /\ failures'[k] \in 0 .. Window
        BY <1>1, <1>3, <2>8, <3>1
      <4>2. CASE l = m + 1
        BY <1>2, <2>8, <4>1, <4>2
      <4>3. CASE l \in 1 .. m
        BY <1>1, <2>8, <3>1, <4>1, <4>3 DEF LimiterHolds, Ordered
      <4> QED
        BY <1>1, <2>8, <4>2, <4>3
    <3> QED
      BY <2>6, <2>7, <3>1 DEF Ordered
  <2>11. Counted'
    <3>1. m + 1 < n + MaxAttempts
      BY <1>1, <1>2, <2>2, <2>3, <2>5
    <3>2. ASSUME rec.age <= Window, NEW k \in DOMAIN failures', k <= m + 1 - n
          PROVE  failures'[k] >= rec.age
      <4>1. k \in 1 .. m /\ failures'[k] = failures[k] /\ failures[k] \in 0 .. Window
        BY <1>1, <1>3, <2>7, <2>8, <3>2
      <4>2. CASE again
        <5>1. rec.age = 0
          BY <2>7, <4>2
        <5> QED
          BY <1>2, <4>1, <5>1
      <4>3. CASE ~again
        <5>1. t.attempts > 0 /\ t.age <= Window
          BY <1>2, <2>2, <4>3
        <5>2. rec.age = t.age /\ k <= m - t.attempts
          BY <1>1, <2>2, <2>7, <2>8, <3>2, <4>1, <4>3
        <5> QED
          BY <2>5, <4>1, <5>1, <5>2
      <4> QED
        BY <4>2, <4>3
    <3>3. rec.age <= Window
      BY <1>2, <2>2, <2>7
    <3>4. tracker'.age = rec.age /\ tracker'.attempts = n /\ Len(failures') = m + 1
      BY <2>6, <2>7, <2>8
    <3>5. ~(tracker'.age > Window)
      BY <1>2, <2>2, <2>7, <3>3, <3>4
    <3>6. ASSUME NEW k \in DOMAIN failures', k <= Len(failures') - tracker'.attempts
          PROVE  failures'[k] >= tracker'.age
      <4>1. m \in Int /\ n \in Int /\ k \in Int
        BY <1>1, <1>2, <2>7, <2>8
      <4> HIDE DEF m, n, again
      <4>2. k <= m + 1 - n
        BY <3>4, <3>6, <4>1
      <4> QED
        BY <3>2, <3>3, <3>4, <4>2
    <3>7. Len(failures') < tracker'.attempts + MaxAttempts
      BY <3>1, <3>4
    <3> QED
      BY <3>5, <3>6, <3>7 DEF Counted
  <2>12. LockoutAges'
    <3>1. ASSUME n = MaxAttempts, NEW k \in DOMAIN failures'
          PROVE  failures'[k] + rec.lockout >= Lockout
      <4>1. failures'[k] \in 0 .. Window
        BY <1>1, <1>2, <1>3, <2>8
      <4> QED
        BY <1>2, <2>7, <3>1, <4>1
    <3> QED
      BY <2>6, <2>7, <3>1 DEF LockoutAges
  <2> QED
    BY <2>9, <2>10, <2>11, <2>12 DEF LimiterHolds
<1> QED
  BY <1>4, <1>5, <1>6, <1>7 DEF LogIn

\* Every step keeps what holds of the rate limiter.
LEMMA LimiterNext == LimiterHolds /\ [Next]_vars => LimiterHolds'
<1> SUFFICES ASSUME LimiterHolds, [Next]_vars PROVE LimiterHolds'
  OBVIOUS
<1>1. CASE UNCHANGED limiter
  BY <1>1 DEF LimiterHolds, LimiterTypes, Ordered, Counted, LockoutAges
<1>2. CASE NoConnection
  BY <1>2, LimiterForgets DEF NoConnection
<1>3. CASE Second
  BY <1>3, LimiterSecond
<1>4. CASE \E cred \in Credentials : LogIn(cred)
  BY <1>4, LimiterLogIn
<1>5. ASSUME Driver PROVE UNCHANGED limiter
  BY <1>5 DEF Driver, Load, StartLoop, StopLoop, Joined, JoinExpires, ForceExpires, CleanUp
<1>6. ASSUME NEW g \in Gens, Main(g) PROVE UNCHANGED limiter \/ NoConnection
  BY <1>6 DEF Main, SetUp, Bind, BindFails, ServeEnds, Close, End, Sample, Deliver
<1>7. ASSUME NEW g \in Gens, Told(g) PROVE UNCHANGED limiter
  BY <1>7 DEF Told, MonitorSees, CancelArrives
<1>8. ASSUME Collect \/ Scan \/ (\E a \in Changing : ProgramChanges(a)) PROVE UNCHANGED limiter
  BY <1>8 DEF Collect, Scan, ProgramChanges
<1>9. ASSUME LogOut \/ Subscribe \/ Write \/ (\E i \in Here.nodes, v \in Requested : CheckWrite(i, v))
      PROVE  UNCHANGED limiter
  BY <1>9 DEF LogOut, Subscribe, Write, CheckWrite
<1> QED
  BY <1>1, <1>2, <1>3, <1>4, <1>5, <1>6, <1>7, <1>8, <1>9 DEF Next, Client

\* In every reachable state.
LEMMA LimiterAlways == Spec => []LimiterHolds
<1>1. Init => LimiterHolds
  BY LimiterFresh DEF Init
<1>2. LimiterHolds /\ [Next]_vars => LimiterHolds'
  BY LimiterNext
<1> QED
  BY <1>1, <1>2, PTL DEF Spec

\* However a client spaces its attempts, within a window fewer than twice the limiter's
\* count fail.
THEOREM AttemptsBoundedHolds == Spec => []AttemptsBounded
<1>1. ASSUME LimiterHolds PROVE AttemptsBounded
  <2>1. tracker.attempts \in 0 .. MaxAttempts /\ Len(failures) \in Nat
        /\ MaxAttempts \in Nat \ {0}
    BY <1>1, AccessAssumption DEF LimiterHolds, LimiterTypes, TrackerRec
  <2>2. CASE tracker.attempts = 0
    <3>1. Len(failures) = 0
      BY <1>1, <2>2 DEF LimiterHolds, Ordered
    <3> QED
      BY <2>1, <3>1 DEF AttemptsBounded
  <2>3. CASE tracker.attempts > 0
    BY <1>1, <2>1, <2>3 DEF LimiterHolds, Counted, AttemptsBounded
  <2> QED
    BY <2>1, <2>2, <2>3
<1>2. LimiterHolds => AttemptsBounded
  BY <1>1
<1> QED
  BY <1>2, LimiterAlways, PTL

-----------------------------------------------------------------------------
(* What the exchange with the program is built from *)

\* What Space says of the configuration in use.
LEMMA SpaceIs ==
  ASSUME cfg \in Files
  PROVE  /\ Here.nodes = Leaves(Configs[cfg])
         /\ Here.nodes \subseteq Nodes /\ Here.nodes \subseteq Nat \ {0}
         /\ \A i \in Here.nodes :
              /\ Here.addresses[i] = AddrsOf(Configs[cfg].leaves[i])
              /\ Here.addresses[i] \subseteq Addresses
              /\ Here.writers[i] = {r \in RoleNames : Allows(Configs[cfg], i, r)}
         /\ Here.hooked = Registered(Configs[cfg])
         /\ Here.setters = {i \in Leaves(Configs[cfg]) : HasSetter(Configs[cfg], i)}
<1> DEFINE c == Configs[cfg]
<1>1. /\ Here.nodes = Leaves(c)
      /\ Here.addresses = [i \in Leaves(c) |-> AddrsOf(c.leaves[i])]
      /\ Here.hooked = Registered(c)
      /\ Here.setters = {i \in Leaves(c) : HasSetter(c, i)}
      /\ Here.writers = [i \in Leaves(c) |-> {r \in RoleNames : Allows(c, i, r)}]
  BY DEF Here, Space
<1>2. Leaves(c) \subseteq Nat \ {0}
  BY OpcUaAssumption DEF IsConfig, Files
<1>3. Leaves(c) \subseteq Nodes
  BY DEF Nodes
<1>4. \A i \in Here.nodes : Here.addresses[i] \subseteq Addresses
  BY DEF Here, Addresses
<1> QED
  BY <1>1, <1>2, <1>3, <1>4

\* In a configuration that was accepted every node has the hooks, and no two nodes have
\* an address in common.
LEMMA Distinct ==
  ASSUME cfg \in Files, Accepts(Configs[cfg])
  PROVE  /\ Here.hooked = Here.nodes /\ Here.setters = Here.nodes
         /\ \A i, j \in Here.nodes :
              i # j => Here.addresses[i] \cap Here.addresses[j] = {}
<1> DEFINE c == Configs[cfg]
<1>1. \A i, j \in Leaves(c) : i # j => AddrsOf(c.leaves[i]) \cap AddrsOf(c.leaves[j]) = {}
  BY DEF Accepts, UniqueAddresses
<1>2. ASSUME NEW i \in Leaves(c) PROVE c.leaves[i].addr \in AddrsOf(c.leaves[i])
  <2>1. c.leaves[i].addr \in Int /\ c.leaves[i].length \in Nat
    BY OpcUaAssumption DEF IsConfig, Files
  <2>2. Count(c.leaves[i]) \in Nat /\ Count(c.leaves[i]) >= 1
    BY <2>1 DEF Count
  <2> QED
    BY <2>1, <2>2 DEF AddrsOf
<1>3. \A i, j \in Leaves(c) : c.leaves[j].addr = c.leaves[i].addr => j = i
  <2> SUFFICES ASSUME NEW i \in Leaves(c), NEW j \in Leaves(c), i # j,
                      c.leaves[j].addr = c.leaves[i].addr
               PROVE  FALSE
    OBVIOUS
  <2>1. c.leaves[i].addr \in AddrsOf(c.leaves[i]) /\ c.leaves[i].addr \in AddrsOf(c.leaves[j])
    BY <1>2
  <2> QED
    BY <1>1, <2>1
<1>4. Leaves(c) \subseteq Nat
  BY OpcUaAssumption DEF IsConfig, Files
<1>5. Registered(c) = Leaves(c)
  BY <1>3, <1>4 DEF Registered
<1>6. {i \in Leaves(c) : HasSetter(c, i)} = Leaves(c)
  BY <1>5 DEF HasSetter
<1>7. /\ Here.nodes = Leaves(c) /\ Here.hooked = Registered(c)
      /\ Here.setters = {i \in Leaves(c) : HasSetter(c, i)}
      /\ \A i \in Here.nodes : Here.addresses[i] = AddrsOf(c.leaves[i])
  BY SpaceIs
<1> HIDE DEF c
<1> QED
  BY <1>1, <1>5, <1>6, <1>7

\* Who logs in has a role of the configuration, or is nobody.
LEMMA RoleIs ==
  ASSUME cfg \in Files, Accepts(Configs[cfg]), NEW cred
  PROVE  RoleFor(Configs[cfg], cred) \in RoleNames \cup {Nobody}
<1> DEFINE c == Configs[cfg]
           P == Profiles(c, cred.method)
<1>1. IsConfig(c) /\ Parses(c)
  BY OpcUaAssumption DEF Accepts, Files
<1>2. P # {} => Min(P) \in P
  <2>1. P \subseteq Nat
    BY <1>1 DEF IsConfig, Profiles
  <2> HIDE DEF P
  <2> QED
    BY <2>1, Smallest
<1>3. P # {} => c.profiles[Min(P)].anonymous \in RoleNames
  BY <1>1, <1>2 DEF Parses, Profiles, RoleNames
<1>4. cred.name \in Credentialled(c, cred.method) => c.users[cred.name].role \in RoleNames
  BY <1>1 DEF IsConfig, Credentialled
<1> QED
  BY <1>3, <1>4 DEF RoleFor

\* What is written is the nearest value there is; a value of the program is read as it is.
LEMMA NearestIs ==
  /\ \A v \in Int : /\ ToPlc(v) \in Values
                    /\ \A w \in Values : Distance(ToPlc(v), v) <= Distance(w, v)
  /\ \A v \in Values : ToOpcua(v) = v
BY AccessAssumption DEF ToPlc, ToOpcua, Nearest, Values, Distance

\* Where a client's exchange with the program is modelled, the configuration was accepted.
LEMMA UpAccepted ==
  ASSUME ServersHold, Up
  PROVE  cfg \in Files /\ Accepts(Configs[cfg]) /\ gen \in Gens /\ Exchanging
<1>1. Exchanging /\ gen # 0 /\ Alive(gen) /\ cfg \in Files /\ gen \in Gens
  BY OpcUaAssumption DEF Up, Exchanging, Alive, ServersHold, DriverTypes, Gens
<1> QED
  BY <1>1 DEF ServersHold, Checked

-----------------------------------------------------------------------------
(* The exchange with the program *)

\* What is enough of a step that leaves the program's values and the client's writes alone.
LEMMA ExchangeMoves ==
  ASSUME ExchangeHolds, UNCHANGED <<cfg, program, session, wr, served, guarded>>,
         PushTypes', PushPlaced', Up' => Up, NotYet' => NotYet
  PROVE  ExchangeHolds'
<1>1. ProgramTypes' /\ WriteLands' /\ AllLive'
  BY DEF ExchangeHolds, ProgramTypes, WriteLands, AllLive
<1>2. ClientTypes'
  BY DEF ExchangeHolds, ClientTypes
<1>3. NotYetQueued'
  BY DEF ExchangeHolds, NotYetQueued
<1>4. WriteAllowed'
  BY DEF ExchangeHolds, WriteAllowed, Here
<1>5. OnlyAsked'
  BY DEF ExchangeHolds, OnlyAsked, Here
<1> QED
  BY <1>1, <1>2, <1>3, <1>4, <1>5 DEF ExchangeHolds

\* Where the push loop goes on, or stops.
LEMMA ExchangeStays ==
  ASSUME ExchangeHolds, UNCHANGED <<cfg, program, session, wr, served, guarded>>,
         push' = push \/ push' = Idle, Up' => Up, NotYet' => NotYet
  PROVE  ExchangeHolds'
<1>1. PushTypes' /\ PushPlaced'
  BY DEF ExchangeHolds, PushTypes, PushPlaced, Idle, Here
<1> QED
  BY <1>1, ExchangeMoves

\* A server starts to serve, or is gone, with its clients.
LEMMA ExchangeRestarts ==
  ASSUME ExchangeHolds, cfg \in Files, UNCHANGED <<cfg, program>>, NoConnection,
         guarded' \in BOOLEAN,
         Up' => NotYet, NotYet' => NotYet
  PROVE  ExchangeHolds'
<1>1. ProgramTypes' /\ WriteLands'
  BY DEF ExchangeHolds, ProgramTypes, WriteLands
<1>2. AllLive'
  BY DEF NoConnection, AllLive
<1>3. ClientTypes'
  BY DEF NoConnection, ClientTypes, NoWrite
<1>4. PushTypes' /\ PushPlaced'
  BY DEF NoConnection, PushTypes, PushPlaced, Idle
<1>5. NotYetQueued'
  BY DEF ExchangeHolds, NotYetQueued
<1>6. WriteAllowed'
  BY DEF NoConnection, WriteAllowed
<1>7. OnlyAsked'
  <2> SUFFICES ASSUME Up', NEW i \in Here.nodes, NEW a \in Here.addresses[i], queue[a] # <<>>
               PROVE  FALSE
    BY DEF OnlyAsked, Here
  <2>1. a \in Addresses
    BY DEF Here, Addresses
  <2> QED
    BY <2>1 DEF ExchangeHolds, NotYetQueued
<1> QED
  BY <1>1, <1>2, <1>3, <1>4, <1>5, <1>6, <1>7 DEF ExchangeHolds

\* A step of the servers' threads that binds none makes none serve its clients anew.
LEMMA NoneArises ==
  ASSUME ServersHold, UNCHANGED plugin, port' \in {port, 0},
         \A h \in Gens :
           /\ srv'[h].pc \in {"serve", "close"} => srv[h].pc \in {"setup", "bind", "serve", "close"}
           /\ srv'[h].pc \in {"setup", "bind"} => srv[h].pc \in {"setup", "bind"}
  PROVE  (Up' => Up) /\ (NotYet' => NotYet)
<1>1. gen # 0 => gen \in Gens
  BY OpcUaAssumption DEF ServersHold, DriverTypes, Gens
<1>2. ASSUME Up' PROVE Up
  <2>1. gen # 0 /\ port = gen /\ gen \in Gens /\ srv'[gen].pc \in {"serve", "close"}
        /\ drv \in {"running", "stopping", "forcing", "stopped"}
    BY <1>1, <1>2 DEF Up
  <2>2. srv[gen].pc \notin {"setup", "bind"}
    BY <2>1 DEF ServersHold, Unbound
  <2> QED
    BY <2>1, <2>2 DEF Up
<1>3. NotYet' => NotYet
  BY <1>1 DEF NotYet, Exchanging
<1> QED
  BY <1>2, <1>3

\* The driver's calls.
LEMMA ExchangeDriver == ServersHold /\ ExchangeHolds /\ Driver => ExchangeHolds'
<1> SUFFICES ASSUME ServersHold, ExchangeHolds, Driver PROVE ExchangeHolds'
  OBVIOUS
<1>0. /\ gen \in Nat /\ port \in Nat /\ port <= gen /\ (gen # 0 => gen \in Gens)
      /\ srv \in [Gens -> ServerRec]
  BY OpcUaAssumption DEF ServersHold, DriverTypes, Started, Gens
<1>1. CASE Load
  <2>1. /\ drv' = "in" /\ cfg' \in Files /\ prog' \in SUBSET Addresses
        /\ img' = [a \in Addresses |-> 0] /\ queue' = NothingQueued /\ owed' = NothingQueued
        /\ UNCHANGED connection
    BY <1>1, ProgramsAssumption DEF Load
  <2>2. ~Up'
    BY <2>1 DEF Up
  <2>3. \A a \in Addresses : queue'[a] = <<>> /\ owed'[a] = <<>>
    BY <2>1 DEF NothingQueued
  <2>4. ProgramTypes'
    <3>1. 0 \in Values
      BY AccessAssumption DEF Values
    <3> QED
      BY <2>1, <2>3, <3>1 DEF ProgramTypes
  <2>5. ClientTypes' /\ PushTypes' /\ AllLive'
    BY <2>1 DEF ExchangeHolds, ClientTypes, PushTypes, AllLive
  <2>6. NotYetQueued' /\ WriteAllowed' /\ PushPlaced'
    BY <2>2, <2>3 DEF NotYetQueued, WriteAllowed, PushPlaced
  <2>7. OnlyAsked'
    BY <2>2 DEF OnlyAsked
  <2>8. WriteLands'
    BY <2>3 DEF WriteLands
  <2> QED
    BY <2>4, <2>5, <2>6, <2>7, <2>8 DEF ExchangeHolds
<1>2. CASE StartLoop
  <2>1. /\ drv = "in" /\ gen' = gen + 1 /\ port' = port
        /\ UNCHANGED <<cfg, program, session, wr, served, guarded, push>>
    BY <1>2 DEF StartLoop
  <2>2. ~Up' /\ NotYet
    BY <1>0, <2>1 DEF Up, NotYet
  <2> QED
    BY <2>1, <2>2, ExchangeStays
<1>3. CASE StopLoop \/ Joined \/ JoinExpires \/ ForceExpires
  <2>1. /\ Exchanging /\ Exchanging' /\ drv' # "in"
        /\ UNCHANGED <<gen, port, cfg, program, session, wr, served, guarded, push>>
    BY <1>3 DEF StopLoop, Joined, JoinExpires, ForceExpires, Exchanging
  <2>2. gen # 0 => srv'[gen].pc = srv[gen].pc
    <3>1. CASE UNCHANGED srv
      BY <3>1
    <3>2. CASE loop # 0 /\ srv' = [srv EXCEPT ![loop] = Cancelled(@)]
      <4>1. loop \in Gens /\ srv[loop] \in ServerRec
        BY <1>0, <3>2 DEF ServersHold, DriverTypes
      <4>2. Cancelled(srv[loop]).pc = srv[loop].pc
        BY <4>1 DEF Cancelled, ServerRec
      <4> QED
        BY <1>0, <3>2, <4>1, <4>2
    <3> QED
      BY <1>3, <3>1, <3>2 DEF StopLoop, Joined, JoinExpires, ForceExpires
  <2>3. (Up' => Up) /\ (NotYet' => NotYet)
    BY <2>1, <2>2 DEF Up, NotYet, Exchanging
  <2> QED
    BY <2>1, <2>3, ExchangeStays
<1>4. CASE CleanUp
  <2>1. drv' = "out" /\ UNCHANGED <<cfg, program, session, wr, served, guarded, push>>
    BY <1>4 DEF CleanUp
  <2>2. ~Up' /\ ~NotYet'
    BY <2>1 DEF Up, NotYet, Exchanging
  <2> QED
    BY <2>1, <2>2, ExchangeStays
<1> QED
  BY <1>1, <1>2, <1>3, <1>4 DEF Driver

\* The steps of a server's thread and of its monitor task, but for the push loop's.
LEMMA ExchangeThread ==
  ASSUME ServersHold, ExchangeHolds, NEW g \in Gens, Main(g) \/ Told(g),
         ~Sample(g), ~Deliver(g)
  PROVE  ExchangeHolds'
<1>0. /\ gen \in Nat /\ (gen # 0 => gen \in Gens) /\ cfg \in Files /\ 0 \notin Gens
      /\ srv \in [Gens -> ServerRec] /\ srv[g] \in ServerRec
  BY OpcUaAssumption DEF ServersHold, DriverTypes, Gens
<1>1. ASSUME UNCHANGED <<plugin, program, session, wr, served, guarded>>, port' = port,
             push' = push \/ push' = Idle,
             \A h \in Gens :
               \/ srv'[h].pc = srv[h].pc
               \/ srv[h].pc # "none" /\ srv'[h].pc = "end"
               \/ srv[h].pc \in {"setup", "bind"} /\ srv'[h].pc \in {"setup", "bind", "close"}
               \/ srv[h].pc \in {"serve", "close"} /\ srv'[h].pc = "close"
      PROVE  ExchangeHolds'
  <2>1. (Up' => Up) /\ (NotYet' => NotYet)
    <3>1. \A h \in Gens :
            /\ srv'[h].pc \in {"serve", "close"} =>
                 srv[h].pc \in {"setup", "bind", "serve", "close"}
            /\ srv'[h].pc \in {"setup", "bind"} => srv[h].pc \in {"setup", "bind"}
      BY <1>1
    <3> QED
      BY <1>1, <3>1, NoneArises
  <2> QED
    BY <1>1, <2>1, ExchangeStays
<1>2. CASE SetUp(g)
  BY <1>0, <1>1, <1>2 DEF SetUp, At, ServerRec
<1>3. CASE BindFails(g)
  BY <1>0, <1>1, <1>3 DEF BindFails, At, ServerRec
<1>4. CASE ServeEnds(g)
  BY <1>0, <1>1, <1>4 DEF ServeEnds, At, ServerRec
<1>5. CASE CancelArrives(g)
  <2>1. /\ UNCHANGED <<plugin, program, session, wr, served, guarded>> /\ port' = port
        /\ push' = push \/ push' = Idle
    BY <1>5 DEF CancelArrives
  <2>2. \A h \in Gens :
          \/ srv'[h].pc = srv[h].pc
          \/ srv[h].pc # "none" /\ srv'[h].pc = "end"
          \/ srv[h].pc \in {"setup", "bind"} /\ srv'[h].pc = "close"
          \/ srv[h].pc = "serve" /\ srv'[h].pc = "close"
    <3> DEFINE rec == [srv[g] EXCEPT !.pc = IF @ = "close" THEN "end" ELSE "close",
                                     !.cancel = FALSE, !.watch = FALSE]
    <3>1. rec.pc = IF srv[g].pc = "close" THEN "end" ELSE "close"
      BY <1>0 DEF ServerRec
    <3>2. srv' = [srv EXCEPT ![g] = rec]
      BY <1>5 DEF CancelArrives
    <3>3. srv[g].pc \in {"setup", "bind", "serve", "close"}
      BY <1>5 DEF CancelArrives
    <3> HIDE DEF rec
    <3>4. srv'[g] = rec /\ \A h \in Gens : h # g => srv'[h] = srv[h]
      BY <1>0, <3>2
    <3> QED
      BY <3>1, <3>3, <3>4
  <2> QED
    BY <1>1, <2>1, <2>2
<1>6. CASE MonitorSees(g)
  <2>1. \A h \in Gens : srv'[h].pc = srv[h].pc
    BY <1>0, <1>6 DEF MonitorSees, ServerRec
  <2> QED
    BY <1>1, <1>6, <2>1 DEF MonitorSees
<1>7. CASE Bind(g)
  <2>1. /\ srv[g].pc = "bind" /\ port' = g /\ UNCHANGED <<plugin, program>>
        /\ NoConnection /\ guarded' \in BOOLEAN
        /\ \A h \in Gens : h # g => srv'[h] = srv[h]
        /\ srv'[g].pc = "serve"
    BY <1>0, <1>7 DEF Bind, At, Guarded, ServerRec
  <2>2. Up' => NotYet
    BY <1>0, <2>1 DEF Up, NotYet, Exchanging
  <2>3. NotYet' => NotYet
    BY <1>0, <2>1 DEF NotYet, Exchanging
  <2> QED
    BY <1>0, <2>1, <2>2, <2>3, ExchangeRestarts
<1>8. CASE Close(g) \/ End(g)
  <2>1. /\ UNCHANGED <<plugin, program>> /\ srv[g].pc \in {"close", "end"}
        /\ \A h \in Gens : h # g => srv'[h] = srv[h]
        /\ srv'[g].pc \in {"end", "none"}
    BY <1>0, <1>8 DEF Close, End, At, NoServer, ServerRec
  <2>2. NotYet' => NotYet
    BY <1>0, <2>1 DEF NotYet, Exchanging
  <2>3. CASE UNCHANGED connection /\ port' = port
    <3>1. Up' => Up
      BY <1>0, <2>1, <2>3 DEF Up
    <3> QED
      BY <2>1, <2>2, <2>3, <3>1, ExchangeStays
  <2>4. CASE NoConnection /\ guarded' = TRUE /\ (port' = 0 \/ (port' = g /\ srv'[g].pc = "none"))
    <3>1. ~Up'
      BY <1>0, <2>4 DEF Up
    <3> QED
      BY <1>0, <2>1, <2>2, <2>4, <3>1, ExchangeRestarts
  <2>5. Close(g) => (UNCHANGED connection /\ port' = port) \/
                    (NoConnection /\ guarded' = TRUE /\ port' = 0)
    BY DEF Close
  <2>6. End(g) => (UNCHANGED connection /\ port' = port) \/
                  (NoConnection /\ guarded' = TRUE /\ port' = g /\ srv'[g].pc = "none")
    BY <1>0 DEF End, NoServer
  <2> QED
    BY <1>8, <2>3, <2>4, <2>5, <2>6
<1> QED
  BY <1>2, <1>3, <1>4, <1>5, <1>6, <1>7, <1>8 DEF Main, Told

\* The push loop goes on to a node, and delivers what it read.
LEMMA ExchangePush ==
  ASSUME ServersHold, ExchangeHolds, NEW g \in Gens, Sample(g) \/ Deliver(g)
  PROVE  ExchangeHolds'
<1>1. CASE Sample(g)
  <2>1. /\ UNCHANGED <<cfg, program, session, wr, served, guarded>>
        /\ UNCHANGED <<drv, gen, port, srv>> /\ Up
        /\ push' = IF Pending = {} THEN Idle
                   ELSE [at |-> Min(Pending), dv |-> Read(Min(Pending))]
    BY <1>1 DEF Sample
  <2>2. /\ Here.hooked = Here.nodes /\ Here.nodes \subseteq Nodes
        /\ Here.nodes \subseteq Nat \ {0}
    BY <2>1, UpAccepted, SpaceIs, Distinct
  <2>3. Pending # {} => Min(Pending) \in Here.nodes
    <3>1. Pending \subseteq Here.nodes
      BY <2>2 DEF Pending
    <3> QED
      BY <2>2, <3>1, Smallest
  <2>4. PushTypes' /\ PushPlaced'
    BY <2>1, <2>2, <2>3 DEF PushTypes, PushPlaced, Idle, Here
  <2>5. (Up' => Up) /\ (NotYet' => NotYet)
    BY <2>1 DEF Up, NotYet, Exchanging
  <2> QED
    BY <2>1, <2>4, <2>5, ExchangeMoves
<1>2. CASE Deliver(g)
  <2>1. /\ UNCHANGED <<cfg, prog, img, owed, session, wr, guarded>>
        /\ UNCHANGED <<drv, gen, port, srv>> /\ Up /\ push.dv # Nothing
        /\ push' = [push EXCEPT !.dv = Nothing] /\ Set(push.at, push.dv, TRUE, "push")
    BY <1>2 DEF Deliver
  <2>2. push.at \in Here.nodes
    BY <2>1 DEF ExchangeHolds, PushPlaced
  <2>3. served' = served /\ queue' = queue
    <3>1. push.at \in Here.setters
      BY <2>1, <2>2, UpAccepted, Distinct
    <3> QED
      BY <2>1, <3>1 DEF Set, IsEcho
  <2>4. PushTypes' /\ PushPlaced'
    BY <2>1 DEF ExchangeHolds, PushTypes, PushPlaced
  <2>5. (Up' => Up) /\ (NotYet' => NotYet)
    BY <2>1 DEF Up, NotYet, Exchanging
  <2> QED
    BY <2>1, <2>3, <2>4, <2>5, ExchangeMoves
<1> QED
  BY <1>1, <1>2

\* The program's scan, and what it computes.
LEMMA ExchangeScan ==
  ASSUME ServersHold, ExchangeHolds, Scan \/ \E a \in Changing : ProgramChanges(a)
  PROVE  ExchangeHolds'
<1>1. /\ UNCHANGED <<cfg, prog, session, wr, served, guarded, push>>
      /\ UNCHANGED <<drv, gen, port, srv>>
      /\ \/ queue' = queue /\ owed' = owed
         \/ queue' = NothingQueued /\ owed' = NothingQueued
  BY DEF Scan, ProgramChanges
<1>2. img' \in [Addresses -> Values]
  BY DEF Scan, ProgramChanges, ExchangeHolds, ProgramTypes
<1>3. \A a \in Addresses :
        \/ queue'[a] = queue[a] /\ owed'[a] = owed[a]
        \/ queue'[a] = <<>> /\ owed'[a] = <<>>
  BY <1>1 DEF NothingQueued
<1>4. ProgramTypes'
  BY <1>1, <1>2, <1>3 DEF ExchangeHolds, ProgramTypes
<1>5. ClientTypes' /\ PushTypes' /\ AllLive' /\ PushPlaced' /\ WriteAllowed'
  BY <1>1 DEF ExchangeHolds, ClientTypes, PushTypes, AllLive, PushPlaced, WriteAllowed, Up, Here
<1>6. NotYetQueued'
  BY <1>1, <1>3 DEF ExchangeHolds, NotYetQueued, NotYet, Exchanging
<1>7. OnlyAsked'
  <2>1. \A i \in Here.nodes : Here.addresses[i] \subseteq Addresses
    BY SpaceIs DEF ServersHold, DriverTypes
  <2>2. \A i \in Here.nodes : \A a \in Here.addresses[i] :
          queue'[a] = queue[a] \/ queue'[a] = <<>>
    BY <1>3, <2>1
  <2>3. Here' = Here /\ Up' = Up
    BY <1>1 DEF Here, Up
  <2> QED
    BY <1>1, <2>2, <2>3 DEF ExchangeHolds, OnlyAsked
<1>8. WriteLands'
  BY <1>1, <1>3 DEF ExchangeHolds, WriteLands
<1> QED
  BY <1>4, <1>5, <1>6, <1>7, <1>8 DEF ExchangeHolds

\* The client, but for its writes.
LEMMA ExchangeClient ==
  ASSUME ServersHold, ExchangeHolds,
         LogOut \/ Second \/ Subscribe \/ (\E cred \in Credentials : LogIn(cred))
         \/ (\E i \in Here.nodes, v \in Requested : CheckWrite(i, v))
  PROVE  ExchangeHolds'
<1>1. /\ UNCHANGED <<cfg, program, served, guarded, push>> /\ UNCHANGED <<drv, gen, port, srv>>
      /\ Up
  BY DEF LogOut, Second, Subscribe, LogIn, CheckWrite
<1>2. Here' = Here /\ Up' = Up /\ NotYet' = NotYet
  BY <1>1 DEF Here, Up, NotYet, Exchanging
<1>3. CASE Second \/ Subscribe
  BY <1>1, <1>2, <1>3, ExchangeStays DEF Second, Subscribe
<1>4. ASSUME ClientTypes', WriteAllowed' PROVE ExchangeHolds'
  <2>1. ProgramTypes' /\ PushTypes' /\ AllLive' /\ WriteLands'
    BY <1>1 DEF ExchangeHolds, ProgramTypes, PushTypes, AllLive, WriteLands
  <2>2. NotYetQueued' /\ PushPlaced'
    BY <1>1, <1>2 DEF ExchangeHolds, NotYetQueued, PushPlaced
  <2>3. OnlyAsked'
    BY <1>1, <1>2 DEF ExchangeHolds, OnlyAsked
  <2> QED
    BY <1>4, <2>1, <2>2, <2>3 DEF ExchangeHolds
<1>5. CASE LogOut
  <2>1. ClientTypes' /\ WriteAllowed'
    BY <1>1, <1>5 DEF LogOut, ExchangeHolds, ClientTypes, WriteAllowed, NoWrite
  <2> QED
    BY <1>4, <2>1
<1>6. CASE \E cred \in Credentials : LogIn(cred)
  <2>1. PICK cred \in Credentials : LogIn(cred)
    BY <1>6
  <2>2. RoleFor(Configs[cfg], cred) \in RoleNames \cup {Nobody}
    BY <1>1, RoleIs, UpAccepted
  <2>3. session = Nobody /\ session' \in {session, RoleFor(Configs[cfg], cred)} /\ wr' = wr
    BY <2>1 DEF LogIn
  <2>4. wr = NoWrite
    BY <1>1, <2>3 DEF ExchangeHolds, WriteAllowed
  <2>5. ClientTypes' /\ WriteAllowed'
    BY <1>1, <2>2, <2>3, <2>4 DEF ExchangeHolds, ClientTypes, WriteAllowed
  <2> QED
    BY <1>4, <2>5
<1>7. CASE \E i \in Here.nodes, v \in Requested : CheckWrite(i, v)
  <2>1. PICK i \in Here.nodes, v \in Requested : CheckWrite(i, v)
    BY <1>7
  <2>2. /\ session # Nobody /\ session' = session /\ wr' = [node |-> i, v |-> v]
        /\ guarded => session \in Here.writers[i]
    BY <2>1 DEF CheckWrite, MayWrite
  <2>3. v \in Int /\ i \in Nodes
    BY <1>1, OpcUaAssumption, UpAccepted, SpaceIs
  <2>4. ClientTypes'
    BY <1>1, <2>2, <2>3 DEF ExchangeHolds, ClientTypes
  <2>5. WriteAllowed'
    BY <1>1, <1>2, <2>2, <2>3 DEF WriteAllowed
  <2> QED
    BY <1>4, <2>4, <2>5
<1> QED
  BY <1>3, <1>5, <1>6, <1>7

\* A client's write reaches the program's queue.
LEMMA ExchangeWrite == ServersHold /\ ExchangeHolds /\ Write => ExchangeHolds'
<1> SUFFICES ASSUME ServersHold, ExchangeHolds, Write PROVE ExchangeHolds'
  OBVIOUS
<1> DEFINE i == wr.node
           mine == Here.addresses[i] \cap prog
           value == [good |-> TRUE, v |-> [a \in Here.addresses[i] |-> wr.v]]
<1>1. /\ UNCHANGED <<cfg, prog, img, session, guarded, push>> /\ UNCHANGED <<drv, gen, port, srv>>
      /\ Up /\ wr # NoWrite /\ wr' = NoWrite
      /\ Set(i, value, FALSE, session)
      /\ owed' = [a \in Addresses |->
                    IF i \in Here.writable /\ a \in Here.addresses[i] THEN <<wr.v>>
                    ELSE owed[a]]
  BY DEF Write
<1>2. i \in Here.nodes /\ wr.v \in Int /\ session # Nobody /\ session \in RoleNames
      /\ (guarded => session \in Here.writers[i])
  BY <1>1 DEF ExchangeHolds, WriteAllowed, ClientTypes
<1>3. /\ cfg \in Files /\ Here' = Here /\ Up' = Up /\ NotYet' = NotYet /\ ~NotYet
      /\ \A j \in Here.nodes : j # i => Here.addresses[j] \cap Here.addresses[i] = {}
      /\ \A j \in Here.nodes : Here.addresses[j] \subseteq Addresses
      /\ Here.writers[i] = {r \in RoleNames : Allows(Configs[cfg], i, r)}
  <2>1. cfg \in Files /\ Accepts(Configs[cfg]) /\ i \in Here.nodes
    BY <1>1, <1>2, UpAccepted
  <2>2. Here' = Here /\ Up' = Up /\ NotYet' = NotYet
    BY <1>1 DEF Here, Up, NotYet, Exchanging
  <2>3. ~NotYet
    BY <1>1 DEF Up, NotYet
  <2> HIDE DEF i
  <2>4. \A j \in Here.nodes : j # i => Here.addresses[j] \cap Here.addresses[i] = {}
    BY <2>1, Distinct
  <2>5. /\ \A j \in Here.nodes : Here.addresses[j] \subseteq Addresses
        /\ Here.writers[i] = {r \in RoleNames : Allows(Configs[cfg], i, r)}
    BY <2>1, SpaceIs
  <2> QED
    BY <2>1, <2>2, <2>3, <2>4, <2>5
<1>4. \A a \in Here.addresses[i] : value.v[a] = wr.v
  OBVIOUS
<1>5. /\ served' = served
      /\ \A a \in Addresses :
           IF i \in Here.writable /\ a \in mine
           THEN queue'[a] = <<[v |-> ToPlc(wr.v), by |-> session]>>
           ELSE queue'[a] = queue[a]
  <2> HIDE DEF i, value
  <2>1. /\ served' = served
        /\ i \notin Here.writable => queue' = queue
        /\ i \in Here.writable =>
             queue' = [a \in Addresses |-> IF a \in Here.addresses[i] \cap prog
                                           THEN <<[v |-> ToPlc(value.v[a]), by |-> session]>>
                                           ELSE queue[a]]
    <3>1. i \in Here.setters
      BY <1>1, <1>2, UpAccepted, Distinct
    <3> QED
      BY <1>1, <3>1 DEF Set, IsEcho
  <2> QED
    BY <1>4, <2>1
<1>6. /\ ToPlc(wr.v) \in Values
      /\ \A v \in Values : Distance(ToPlc(wr.v), wr.v) <= Distance(v, wr.v)
  BY <1>2, NearestIs
<1> HIDE DEF i, value
<1>7. ProgramTypes'
  BY <1>1, <1>5, <1>6 DEF ExchangeHolds, ProgramTypes
<1>8. ClientTypes' /\ PushTypes' /\ AllLive'
  BY <1>1, <1>5 DEF ExchangeHolds, ClientTypes, PushTypes, AllLive, NoWrite
<1>9. NotYetQueued' /\ WriteAllowed' /\ PushPlaced'
  BY <1>1, <1>3 DEF ExchangeHolds, NotYetQueued, WriteAllowed, PushPlaced
<1>10. OnlyAsked'
  <2> DEFINE Asked(by, j) ==
        /\ by # "push"
        /\ guarded => LET role == Normal(by)
                      IN  role \in Roles /\ "w" \in Permissions(Configs[cfg], j)[role]
  <2>1. Asked(session, i)
    <3>1. session # "push"
      BY <1>2 DEF RoleNames, Roles
    <3>2. guarded => Allows(Configs[cfg], i, session)
      BY <1>2, <1>3
    <3> QED
      BY <3>1, <3>2 DEF Allows
  <2>2. ASSUME NEW j \in Here.nodes, NEW a \in Here.addresses[j], queue'[a] # <<>>
        PROVE  Asked(queue'[a][1].by, j)
    <3>1. a \in Addresses
      BY <1>3
    <3>2. CASE i \in Here.writable /\ a \in mine
      <4>1. j = i
        BY <1>3, <3>2
      <4>2. queue'[a][1].by = session
        BY <1>5, <3>1, <3>2
      <4> QED
        BY <2>1, <4>1, <4>2
    <3>3. CASE ~(i \in Here.writable /\ a \in mine)
      <4>1. queue'[a] = queue[a]
        BY <1>5, <3>1, <3>3
      <4> QED
        BY <1>1, <2>2, <4>1 DEF ExchangeHolds, OnlyAsked
    <3> QED
      BY <3>2, <3>3
  <2> QED
    BY <1>1, <1>3, <2>2 DEF OnlyAsked
<1>11. WriteLands'
  <2> SUFFICES ASSUME NEW a \in Addresses \cap prog, owed'[a] # <<>>
               PROVE  /\ queue'[a] # <<>>
                      /\ \A v \in Values :
                           Distance(queue'[a][1].v, owed'[a][1]) <= Distance(v, owed'[a][1])
    BY <1>1 DEF WriteLands
  <2>1. CASE i \in Here.writable /\ a \in Here.addresses[i]
    <3>1. owed'[a] = <<wr.v>> /\ queue'[a] = <<[v |-> ToPlc(wr.v), by |-> session]>>
      BY <1>1, <1>5, <2>1
    <3> QED
      BY <1>6, <3>1
  <2>2. CASE ~(i \in Here.writable /\ a \in Here.addresses[i])
    <3>1. owed'[a] = owed[a] /\ queue'[a] = queue[a]
      BY <1>1, <1>5, <2>2
    <3> QED
      BY <3>1 DEF ExchangeHolds, WriteLands
  <2> QED
    BY <2>1, <2>2
<1> QED
  BY <1>7, <1>8, <1>9, <1>10, <1>11 DEF ExchangeHolds

\* Every step keeps what holds of the exchange, as the servers are kept.
LEMMA ExchangeNext == ServersHold /\ ExchangeHolds /\ [Next]_vars => ExchangeHolds'
<1> SUFFICES ASSUME ServersHold, ExchangeHolds, [Next]_vars PROVE ExchangeHolds'
  OBVIOUS
<1>1. CASE Driver
  BY <1>1, ExchangeDriver
<1>2. CASE \E g \in Gens : Main(g) \/ Told(g)
  BY <1>2, ExchangeThread, ExchangePush
<1>3. CASE Client
  BY <1>3, ExchangeClient, ExchangeWrite DEF Client
<1>4. CASE Scan \/ \E a \in Changing : ProgramChanges(a)
  BY <1>4, ExchangeScan
<1>5. CASE Collect
  <2>1. /\ port # 0 /\ port' = 0
        /\ UNCHANGED <<drv, gen, srv, cfg, program, session, wr, served, guarded, push>>
    BY <1>5 DEF Collect
  <2>2. ~Up' /\ (NotYet' => NotYet)
    BY <2>1 DEF Up, NotYet, Exchanging
  <2> QED
    BY <2>1, <2>2, ExchangeStays
<1>6. CASE UNCHANGED vars
  <2>1. (Up' => Up) /\ (NotYet' => NotYet)
    BY <1>6 DEF Up, NotYet, Exchanging
  <2> QED
    BY <1>6, <2>1, ExchangeStays
<1> QED
  BY <1>1, <1>2, <1>3, <1>4, <1>5, <1>6 DEF Next

\* At the beginning no program is loaded and nobody is connected.
LEMMA ExchangeInit == Init => ExchangeHolds
<1> SUFFICES ASSUME Init PROVE ExchangeHolds
  OBVIOUS
<1>1. ~Up
  BY DEF Init, Up
<1>2. ProgramTypes
  <2>1. 0 \in Values
    BY AccessAssumption DEF Values
  <2> QED
    BY <2>1 DEF Init, ProgramTypes, NothingQueued
<1>3. guarded \in BOOLEAN
  BY Zenon DEF Init
<1>4. ClientTypes /\ PushTypes
  BY <1>3 DEF Init, ClientTypes, PushTypes, NoWrite, Idle
<1>5. NotYetQueued /\ WriteAllowed /\ PushPlaced /\ OnlyAsked
  BY <1>1 DEF Init, NotYetQueued, NothingQueued, WriteAllowed, PushPlaced, OnlyAsked
<1>6. AllLive /\ WriteLands
  BY DEF Init, AllLive, WriteLands, NothingQueued
<1> QED
  BY <1>2, <1>4, <1>5, <1>6 DEF ExchangeHolds

\* In every reachable state.
LEMMA ExchangeAlways == Spec => []ExchangeHolds
<1>1. Init => ExchangeHolds
  BY ExchangeInit
<1>2. ServersHold /\ ExchangeHolds /\ [Next]_vars => ExchangeHolds'
  BY ExchangeNext
<1> QED
  BY <1>1, <1>2, ServersAlways, PTL DEF Spec

-----------------------------------------------------------------------------
(* What the run checks *)

\* The variables have their types.
THEOREM TypeOKHolds == Spec => []TypeOK
<1>1. ASSUME ServersHold, ExchangeHolds, LimiterHolds PROVE TypeOK
  <2>1. /\ drv \in {"out", "in", "running", "stopping", "forcing", "stopped"}
        /\ clean \in BOOLEAN /\ stopEvent \in BOOLEAN /\ missed \in BOOLEAN
        /\ gen \in 0 .. MaxGen /\ cfg \in Files /\ left \subseteq Gens
        /\ {thread, manager, loop, port} \subseteq Gens \cup {0}
    BY <1>1 DEF ServersHold, DriverTypes
  <2>2. \A g \in Gens :
          /\ srv[g].pc \in {"none", "setup", "bind", "serve", "close", "end"}
          /\ {srv[g].watch, srv[g].running, srv[g].cancel} \subseteq BOOLEAN
    <3>1. \A g \in Gens : srv[g] \in ServerRec
      BY <1>1 DEF ServersHold, DriverTypes
    <3> QED
      BY <3>1 DEF ServerRec
  <2>3. /\ prog \subseteq Addresses /\ img \in [Addresses -> Values]
        /\ \A a \in Addresses : queue[a] = <<>> \/ queue[a][1].v \in Values
        /\ session \in RoleNames \cup {Nobody} /\ guarded \in BOOLEAN
        /\ wr.node \in Nodes \cup {0} /\ push.at \in Nodes \cup {0}
    BY <1>1 DEF ExchangeHolds, ProgramTypes, ClientTypes, PushTypes
  <2>4. /\ tracker.attempts \in 0 .. MaxAttempts /\ tracker.age \in 0 .. Window + 1
        /\ tracker.lockout \in 0 .. Lockout
    BY <1>1 DEF LimiterHolds, LimiterTypes, TrackerRec
  <2> QED
    BY <2>1, <2>2, <2>3, <2>4 DEF TypeOK
<1>2. ServersHold /\ ExchangeHolds /\ LimiterHolds => TypeOK
  BY <1>1
<1> QED
  BY <1>2, ServersAlways, ExchangeAlways, LimiterAlways, PTL

\* A stop reaches the server it is for and tells whether that ended, whatever servers
\* outlived their stops.
THEOREM StopToldHolds == Spec => []StopTold
<1>1. TypeOK /\ StopHonest /\ ForcedReaches => StopTold
  BY DEF StopTold
<1> QED
  BY <1>1, TypeOKHolds, StopHonestHolds, ForcedReachesHolds, PTL

\* What reaches the program's queue was written by a client whose role may write there,
\* never by the push loop.
THEOREM OnlyAskedHolds == Spec => []OnlyAsked
<1>1. ExchangeHolds => OnlyAsked
  BY DEF ExchangeHolds
<1> QED
  BY <1>1, ExchangeAlways, PTL

\* Nobody writes what the configuration does not let him write, nor guesses passwords
\* faster than the limiter allows.
THEOREM AccessHeldHolds == Spec => []AccessHeld
<1>1. OnlyAsked /\ AttemptsBounded => AccessHeld
  BY DEF AccessHeld
<1> QED
  BY <1>1, OnlyAskedHolds, AttemptsBoundedHolds, PTL

\* A read gives the program's value, or Bad.
THEOREM ReadsLiveHolds == Spec => []ReadsLive
<1>1. ASSUME ServersHold, ExchangeHolds PROVE ReadsLive
  <2> SUFFICES ASSUME Up, NEW i \in Here.nodes
               PROVE  /\ Response(i).good <=> Readable(i)
                      /\ Readable(i) => \A a \in Here.addresses[i] : Response(i).v[a] = img[a]
    BY DEF ReadsLive
  <2>1. i \in Nodes /\ Here.addresses[i] \subseteq Addresses
    BY <1>1, UpAccepted, SpaceIs
  <2>2. Response(i) = Read(i)
    BY <1>1, <2>1 DEF Response, ExchangeHolds, AllLive
  <2>3. Response(i).good <=> Readable(i)
    BY <2>2 DEF Read
  <2>4. ASSUME Readable(i), NEW a \in Here.addresses[i] PROVE Response(i).v[a] = img[a]
    <3>1. a \in prog /\ img[a] \in Values
      BY <1>1, <2>1, <2>4 DEF Readable, ExchangeHolds, ProgramTypes
    <3> QED
      BY <2>2, <3>1, NearestIs DEF Read
  <2> QED
    BY <2>3, <2>4
<1>2. ServersHold /\ ExchangeHolds => ReadsLive
  BY <1>1
<1> QED
  BY <1>2, ServersAlways, ExchangeAlways, PTL

\* The values that clients read, and write, are the program's.
THEOREM ValuesTrueHolds == Spec => []ValuesTrue
<1>1. ExchangeHolds => WriteLands
  BY DEF ExchangeHolds
<1>2. WriteLands /\ ReadsLive => ValuesTrue
  BY DEF ValuesTrue
<1> QED
  BY <1>1, <1>2, ExchangeAlways, ReadsLiveHolds, PTL
=============================================================================
