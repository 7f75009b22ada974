--------------------------- MODULE RabbitConnection ---------------------------
(***************************************************************************)
(* The life of the RabbitMQ connection in pkg/queue/rabbitmq.go: the       *)
(* goroutine of monitorConnection (with reconnectLoop, connect,            *)
(* setupTopology and restartConsumers), the boot goroutine that calls      *)
(* StartWorkers, and the signal-handler goroutine that calls Shutdown, all *)
(* sharing conn, healthy, closing, handlers and workerPool.                *)
(*                                                                         *)
(* A connection is its generation number, a worker pool the number of the  *)
(* startConsumers call that built it.  What workers do with messages is    *)
(* WorkerPool's subject.                                                   *)
(***************************************************************************)
EXTENDS Naturals, Sequences

CONSTANT MaxFaults   \* bound: broken connections and failed broker calls; it
                     \* also bounds how often the monitor has to reconnect

ASSUME BoundsAssumption == MaxFaults \in Nat

VARIABLES
  conn,      \* mq.conn
  open,      \* connections that are open
  broken,    \* connections that ended with an error rather than a Close()
  dialled,   \* connections dialled so far
  healthy,   \* mq.healthy
  closing,   \* mq.closing; stopCh is closed exactly when it is set
  handlers,  \* mq.handlers is not empty
  pool,      \* mq.workerPool, 0 for nil
  poolConn,  \* the connection each pool consumes from
  stopped,   \* pools whose stopChans have been closed
  mon,       \* where the monitor goroutine is
  fresh,     \* local conn of connect(), dialled but not yet stored; 0 if none
  oldPool,   \* local oldPool of restartConsumers
  newPool,   \* local workerPool of the monitor's startConsumers
  bootPool,  \* local workerPool of the boot goroutine's startConsumers
  raced,     \* the boot goroutine stored a pool of a replaced connection
  boot,      \* where the boot goroutine is
  sd,        \* where the goroutine in Shutdown is
  crashed,   \* a stopChan was closed twice: the process has panicked
  faults

state == <<conn, open, broken, dialled, healthy, closing, handlers, pool,
           poolConn, stopped, crashed, faults>>
locals == <<fresh, oldPool, newPool, bootPool, raced>>
vars == <<state, mon, locals, boot, sd>>

\* NewRabbitMQQueue has connected, set up the topology and started the monitor.
Init ==
  /\ conn = 1 /\ open = {1} /\ broken = {} /\ dialled = 1
  /\ healthy = TRUE /\ closing = FALSE /\ handlers = FALSE
  /\ pool = 0 /\ poolConn = <<>> /\ stopped = {}
  /\ mon = "register" /\ fresh = 0 /\ oldPool = 0 /\ newPool = 0
  /\ bootPool = 0 /\ raced = FALSE
  /\ boot = "start" /\ sd = "no"
  /\ crashed = FALSE /\ faults = 0

-----------------------------------------------------------------------------
(* Shared pieces *)

\* The process is still there.
Running == ~ crashed /\ boot # "failed"
MonitorAt(p) == Running /\ mon = p
BootAt(p) == Running /\ boot = p
ShutdownAt(p) == Running /\ sd = p

\* A broker call fails: always on a connection that is not open, and as a
\* fault otherwise.
CallFails(c) == \/ c \notin open /\ UNCHANGED faults
                \/ c \in open /\ faults < MaxFaults /\ faults' = faults + 1

\* Seeded defect: the nil check on workerPool is missing.
StopPoolNoNilCheck(p) == /\ stopped' = stopped \cup {p}
                         /\ crashed' = (p \in stopped)

\* WorkerPool.Shutdown: close every stopChan of the pool, then wait.  Closing
\* a closed channel panics, and no caller recovers.
StopPool(p) ==
  IF p = 0 THEN UNCHANGED <<stopped, crashed>>
  ELSE /\ stopped' = stopped \cup {p}
       /\ crashed' = (p \in stopped)

\* startConsumers up to its last critical section: every queue's Consume
\* succeeded on the channels read, and a new pool runs.  Groups that a failed
\* attempt started end when connect() closes their connection.
StartConsumers ==
  /\ conn \in open
  /\ poolConn' = Append(poolConn, conn)

-----------------------------------------------------------------------------
(* monitorConnection *)

\* NotifyClose on the current connection.  On a connection that is already
\* closed the library closes the receiver at once, the monitor reads a nil
\* error and returns.
Register ==
  /\ MonitorAt("register")
  /\ mon' = IF conn \in open /\ ~ closing THEN "watch" ELSE "returned"
  /\ UNCHANGED <<state, locals, boot, sd>>

\* The watched connection ended with an error.
NoticeLoss ==
  /\ MonitorAt("watch") /\ conn \in broken
  /\ mon' = "wait"
  /\ healthy' = FALSE
  /\ UNCHANGED <<conn, open, broken, dialled, closing, handlers, pool, poolConn,
                 stopped, crashed, faults, locals, boot, sd>>

\* Seeded defect: reconnectLoop does not select on stopCh.
MonitorReturnsOnlyWatching ==
  /\ MonitorAt("watch")
  /\ closing \/ (conn \notin open /\ conn \notin broken)
  /\ mon' = "returned"
  /\ UNCHANGED <<state, locals, boot, sd>>

\* stopCh is closed, in the monitor's select or in reconnectLoop's, or the
\* watched connection was closed without an error.
MonitorReturns ==
  /\ \/ (MonitorAt("watch") \/ MonitorAt("wait")) /\ closing
     \/ MonitorAt("watch") /\ conn \notin open /\ conn \notin broken
  /\ mon' = "returned"
  /\ UNCHANGED <<state, locals, boot, sd>>

\* Seeded defect: connect() forgets the connection a failed attempt left open.
ReconnectLeaks ==
  /\ MonitorAt("wait") /\ ~ closing
  /\ mon' = "dial"
  /\ UNCHANGED <<state, locals, boot, sd>>

\* The reconnect delay has passed; connect() first closes a connection a failed
\* attempt left open.
Reconnect ==
  /\ MonitorAt("wait") /\ ~ closing
  /\ open' = open \ {conn}
  /\ mon' = "dial"
  /\ UNCHANGED <<conn, broken, dialled, healthy, closing, handlers, pool,
                 poolConn, stopped, crashed, faults, locals, boot, sd>>

\* Dialling, opening a channel, Qos or Confirm failed; what was opened is closed.
DialFails ==
  /\ MonitorAt("dial") /\ faults < MaxFaults
  /\ faults' = faults + 1
  /\ mon' = "wait"
  /\ UNCHANGED <<conn, open, broken, dialled, healthy, closing, handlers, pool,
                 poolConn, stopped, crashed, locals, boot, sd>>

Dial ==
  /\ MonitorAt("dial")
  /\ dialled' = dialled + 1
  /\ open' = open \cup {dialled + 1}
  /\ fresh' = dialled + 1
  /\ mon' = "install"
  /\ UNCHANGED <<conn, broken, healthy, closing, handlers, pool, poolConn,
                 stopped, crashed, faults, oldPool, newPool, bootPool,
                 raced, boot, sd>>

\* connect() stores the new connection and channels under the lock.
Install ==
  /\ MonitorAt("install")
  /\ conn' = fresh
  /\ fresh' = 0
  /\ mon' = "topology"
  /\ UNCHANGED <<open, broken, dialled, healthy, closing, handlers, pool,
                 poolConn, stopped, crashed, faults, oldPool, newPool, bootPool,
                 raced, boot, sd>>

TopologyFails ==
  /\ MonitorAt("topology")
  /\ CallFails(conn)
  /\ mon' = "wait"
  /\ UNCHANGED <<conn, open, broken, dialled, healthy, closing, handlers, pool,
                 poolConn, stopped, crashed, locals, boot, sd>>

\* setupTopology succeeded and reconnectLoop returns true.
Reconnected ==
  /\ MonitorAt("topology") /\ conn \in open
  /\ healthy' = TRUE
  /\ mon' = "restart"
  /\ UNCHANGED <<conn, open, broken, dialled, closing, handlers, pool, poolConn,
                 stopped, crashed, faults, locals, boot, sd>>

\* Seeded defect: consumers are restarted only when no pool was running before.
RestartReadsFirstOnly ==
  /\ MonitorAt("restart")
  /\ IF closing \/ ~ handlers \/ pool # 0
     THEN mon' = "register" /\ UNCHANGED oldPool
     ELSE mon' = "stopOld" /\ oldPool' = pool
  /\ UNCHANGED <<state, fresh, newPool, bootPool, raced, boot, sd>>

\* restartConsumers reads closing, workerPool and handlers in one critical
\* section; nothing to restart means going back to watching.
RestartReads ==
  /\ MonitorAt("restart")
  /\ IF closing \/ ~ handlers
     THEN mon' = "register" /\ UNCHANGED oldPool
     ELSE mon' = "stopOld" /\ oldPool' = pool
  /\ UNCHANGED <<state, fresh, newPool, bootPool, raced, boot, sd>>

RestartStopsOld ==
  /\ MonitorAt("stopOld")
  /\ StopPool(oldPool)
  /\ oldPool' = 0
  /\ mon' = "startNew"
  /\ UNCHANGED <<conn, open, broken, dialled, healthy, closing, handlers, pool,
                 poolConn, faults, fresh, newPool, bootPool, raced, boot, sd>>

RestartStartsNew ==
  /\ MonitorAt("startNew")
  /\ StartConsumers
  /\ newPool' = Len(poolConn) + 1
  /\ mon' = "storeNew"
  /\ UNCHANGED <<conn, open, broken, dialled, healthy, closing, handlers, pool,
                 stopped, crashed, faults, fresh, oldPool, bootPool, raced, boot, sd>>

RestartStores ==
  /\ MonitorAt("storeNew")
  /\ pool' = newPool
  /\ newPool' = 0
  /\ mon' = "register"
  /\ UNCHANGED <<conn, open, broken, dialled, healthy, closing, handlers, poolConn,
                 stopped, crashed, faults, fresh, oldPool, bootPool, raced, boot, sd>>

\* Seeded defect: the monitor watches again after a failed restart.
RestartFailsQuietly ==
  /\ MonitorAt("startNew")
  /\ CallFails(conn)
  /\ healthy' = FALSE
  /\ mon' = "register"
  /\ UNCHANGED <<conn, open, broken, dialled, closing, handlers, pool, poolConn,
                 stopped, crashed, locals, boot, sd>>

\* A Consume failed: workerPool keeps its old value, the monitor reconnects.
RestartFails ==
  /\ MonitorAt("startNew")
  /\ CallFails(conn)
  /\ healthy' = FALSE
  /\ mon' = "wait"
  /\ UNCHANGED <<conn, open, broken, dialled, closing, handlers, pool, poolConn,
                 stopped, crashed, locals, boot, sd>>

-----------------------------------------------------------------------------
(* StartWorkers, called once while the application boots *)

RegisterHandlers ==
  /\ BootAt("start")
  /\ handlers' = TRUE
  /\ boot' = "consume"
  /\ UNCHANGED <<conn, open, broken, dialled, healthy, closing, pool, poolConn,
                 stopped, crashed, faults, mon, locals, sd>>

BootStarts ==
  /\ BootAt("consume")
  /\ StartConsumers
  /\ bootPool' = Len(poolConn) + 1
  /\ boot' = "store"
  /\ UNCHANGED <<conn, open, broken, dialled, healthy, closing, handlers, pool,
                 stopped, crashed, faults, mon, fresh, oldPool, newPool, raced, sd>>

BootStores ==
  /\ BootAt("store")
  /\ pool' = bootPool
  /\ raced' = (poolConn[bootPool] # conn)
  /\ boot' = "up"
  /\ UNCHANGED <<conn, open, broken, dialled, healthy, closing, handlers, poolConn,
                 stopped, crashed, faults, mon, fresh, oldPool, newPool, bootPool, sd>>

\* ProvideQueueWorkers returns the error and the application does not start.
BootFails ==
  /\ BootAt("consume")
  /\ CallFails(conn)
  /\ boot' = "failed"
  /\ UNCHANGED <<conn, open, broken, dialled, healthy, closing, handlers, pool,
                 poolConn, stopped, crashed, mon, locals, sd>>

-----------------------------------------------------------------------------
(* RabbitMQQueue.Shutdown *)

ShutdownSignals ==
  /\ ShutdownAt("no") /\ boot = "up"
  /\ closing' = TRUE
  /\ sd' = "stop"
  /\ UNCHANGED <<conn, open, broken, dialled, healthy, handlers, pool, poolConn,
                 stopped, crashed, faults, mon, locals, boot>>

ShutdownStopsPool ==
  /\ ShutdownAt("stop")
  /\ StopPool(pool)
  /\ sd' = "close"
  /\ UNCHANGED <<conn, open, broken, dialled, healthy, closing, handlers, pool,
                 poolConn, faults, mon, locals, boot>>

ShutdownCloses ==
  /\ ShutdownAt("close")
  /\ open' = open \ {conn}
  /\ healthy' = FALSE
  /\ sd' = "done"
  /\ UNCHANGED <<conn, broken, dialled, closing, handlers, pool, poolConn,
                 stopped, crashed, faults, mon, locals, boot>>

\* The broker or the network ends a connection.
Break(c) ==
  /\ Running /\ faults < MaxFaults
  /\ open' = open \ {c}
  /\ broken' = broken \cup {c}
  /\ faults' = faults + 1
  /\ UNCHANGED <<conn, dialled, healthy, closing, handlers, pool, poolConn,
                 stopped, crashed, mon, locals, boot, sd>>

MonitorStep ==
  \/ Register \/ NoticeLoss \/ MonitorReturns \/ Reconnect \/ DialFails \/ Dial
  \/ Install \/ TopologyFails \/ Reconnected \/ RestartReads \/ RestartStopsOld
  \/ RestartStartsNew \/ RestartStores \/ RestartFails

BootStep == RegisterHandlers \/ BootStarts \/ BootStores \/ BootFails
ShutdownStep == ShutdownSignals \/ ShutdownStopsPool \/ ShutdownCloses

Next ==
  \/ MonitorStep \/ BootStep \/ ShutdownStep
  \/ \E c \in open : Break(c)

Spec == Init /\ [][Next]_vars

\* Goroutines that can run do.  Shutdown is never obliged to begin.
FairSpec ==
  /\ Spec
  /\ WF_vars(MonitorStep)
  /\ WF_vars(BootStep)
  /\ WF_vars(ShutdownStopsPool \/ ShutdownCloses)

-----------------------------------------------------------------------------
(* Properties *)

MonitorStates == {"register", "watch", "wait", "dial", "install", "topology",
                  "restart", "stopOld", "startNew", "storeNew", "returned"}

\* Every variable keeps its type; the connection and the pool in use are ones
\* that were really created.
TypeOK ==
  /\ dialled \in Nat
  /\ conn \in 1..dialled /\ open \subseteq 1..dialled /\ broken \subseteq 1..dialled
  /\ healthy \in BOOLEAN /\ closing \in BOOLEAN /\ handlers \in BOOLEAN
  /\ poolConn \in Seq(1..dialled)
  /\ {pool, oldPool, newPool, bootPool} \subseteq 0..Len(poolConn)
  /\ stopped \subseteq 1..Len(poolConn)
  /\ mon \in MonitorStates /\ fresh \in 0..dialled
  /\ boot \in {"start", "consume", "store", "up", "failed"}
  /\ sd \in {"no", "stop", "close", "done"}
  /\ raced \in BOOLEAN /\ crashed \in BOOLEAN /\ faults \in 0..MaxFaults

\* However many attempts fail after dialling, no socket leaks: an open
\* connection is mq.conn or the one connect() is about to store, also while
\* Shutdown runs concurrently.
NoLeakedConnection == open \subseteq {conn, fresh}

\* Whenever the monitor is back to watching after the boot, consumers and
\* publishers share the current connection: mq.workerPool was built on mq.conn,
\* unless the boot goroutine was overtaken by a whole reconnect.
PoolOnCurrentConnection ==
  mon = "watch" /\ boot = "up" /\ ~ closing /\ ~ raced =>
    pool # 0 /\ poolConn[pool] = conn

\* Only Shutdown or a restart stops a pool, so outside both the pool in use
\* after the boot still has its workers.
PoolInUseRuns ==
  mon \in {"register", "watch"} /\ boot = "up" /\ ~ closing => pool \notin stopped

\* The queue is healthy again, with its consumers on the current connection.
Recovered ==
  /\ healthy /\ conn \in open
  /\ handlers => pool # 0 /\ poolConn[pool] = conn

\* A noticed connection loss is repaired: eventually the queue is healthy on an
\* open connection with consumers on it, unless the process shuts down, fails to
\* boot or panics meanwhile, or the monitor takes a loss it had not registered
\* for as a graceful close (MonitorEndsOnlyByShutdown).
RecoversFromLoss ==
  mon = "wait" ~> (Recovered \/ closing \/ crashed \/ boot = "failed" \/ mon = "returned")

\* Shutdown always gets the monitor goroutine to return, wherever it was.
MonitorEndsAfterShutdown == closing ~> (mon = "returned" \/ crashed)

\* "If restarting consumers fails ... go back to reconnecting": as long as
\* nobody shuts the queue down, reconnecting never panics the process.
ReconnectNeverPanics == crashed => closing

\* "A nil error means the connection was closed gracefully (e.g. via
\* Shutdown)": the monitor ends only because of Shutdown.
MonitorEndsOnlyByShutdown == mon = "returned" => closing
=============================================================================
