------------------------ MODULE RabbitConnection_proofs ------------------------
(***************************************************************************)
(* The safety properties of RabbitConnection for every number of faults:   *)
(* no connection leaks, and the pool in use runs, on the connection in     *)
(* use, whenever the monitor goroutine is back to watching.                *)
(***************************************************************************)
EXTENDS RabbitConnection, TLAPS

\* While connect() dials, mq.conn is a closed connection; the connection it has
\* dialled is in no other place than its local variable.
Connecting ==
  /\ mon \in {"dial", "install"} => conn \notin open
  /\ fresh # 0 <=> mon = "install"
  /\ NoLeakedConnection

\* What the position of a goroutine says about the flags others read: handlers
\* are registered once the boot goroutine has begun, and only a Shutdown that
\* follows a complete boot sets closing.
Flags ==
  /\ handlers <=> boot # "start"
  /\ closing <=> sd # "no"
  /\ sd # "no" => boot = "up"
  /\ mon \in {"stopOld", "startNew", "storeNew"} => handlers

\* A pool that is built but not stored yet is nobody else's: no goroutine can
\* have stopped it, and storing it cannot bring back another one.
Unstored ==
  /\ boot = "start" => pool = 0 /\ oldPool = 0 /\ newPool = 0
  /\ boot = "store" => /\ bootPool # 0 /\ bootPool \notin stopped
                       /\ bootPool \notin {pool, oldPool, newPool}
  /\ mon = "storeNew" => newPool # 0 /\ (closing \/ newPool \notin stopped)

\* The pool a restart has built consumes from the current connection, and the
\* same holds of the pool in use once the restart is over.
OnCurrent ==
  /\ mon = "storeNew" => poolConn[newPool] = conn
  /\ mon \in {"register", "watch"} /\ boot = "up" /\ ~ closing /\ ~ raced =>
       pool # 0 /\ poolConn[pool] = conn

IInv == TypeOK /\ Connecting /\ Flags /\ Unstored /\ OnCurrent /\ PoolInUseRuns
-----------------------------------------------------------------------------
\* Stopping a pool that exists records nothing else.
LEMMA StopPoolType ==
  ASSUME TypeOK, NEW p \in 0..Len(poolConn), StopPool(p)
  PROVE  stopped' \subseteq 1..Len(poolConn) /\ crashed' \in BOOLEAN
<1>1. stopped \subseteq 1..Len(poolConn) /\ crashed \in BOOLEAN /\ Len(poolConn) \in Nat
  BY DEF TypeOK
<1>2. CASE p = 0
  BY <1>1, <1>2 DEF StopPool
<1>3. CASE p # 0
  <2>1. stopped' = stopped \cup {p} /\ crashed' = (p \in stopped)
    BY <1>3 DEF StopPool
  <2>2. p \in 1..Len(poolConn)
    BY <1>1, <1>3
  <2>3. stopped' \subseteq 1..Len(poolConn)
    BY <1>1, <2>1, <2>2
  <2>4. crashed' \in BOOLEAN
    BY <2>1
  <2> QED BY <2>3, <2>4
<1> QED BY <1>2, <1>3

\* Every step keeps the types.
LEMMA TypeNext ==
  TypeOK /\ Connecting /\ [Next]_vars => TypeOK'
<1> SUFFICES ASSUME TypeOK, Connecting, [Next]_vars PROVE TypeOK'
  OBVIOUS
<1> USE DEF TypeOK, Connecting, MonitorStates, state, locals
<1>1. CASE Register
  BY <1>1 DEF Register, MonitorAt
<1>2. CASE NoticeLoss
  BY <1>2 DEF NoticeLoss, MonitorAt
<1>3. CASE MonitorReturns
  BY <1>3 DEF MonitorReturns, MonitorAt
<1>4. CASE Reconnect
  BY <1>4 DEF Reconnect, MonitorAt
<1>5. CASE DialFails
  BY <1>5, BoundsAssumption DEF DialFails, MonitorAt
<1>6. CASE Dial
  BY <1>6 DEF Dial, MonitorAt
<1>7. CASE Install
  BY <1>7 DEF Install, MonitorAt
<1>8. CASE TopologyFails
  BY <1>8, BoundsAssumption DEF TopologyFails, MonitorAt, CallFails
<1>9. CASE Reconnected
  BY <1>9 DEF Reconnected, MonitorAt
<1>10. CASE RestartReads
  BY <1>10 DEF RestartReads, MonitorAt
<1>11. CASE RestartStopsOld
  <2>1. stopped' \subseteq 1..Len(poolConn) /\ crashed' \in BOOLEAN
    BY <1>11, StopPoolType DEF RestartStopsOld
  <2> QED BY <1>11, <2>1 DEF RestartStopsOld, MonitorAt
<1>12. CASE RestartStartsNew
  BY <1>12 DEF RestartStartsNew, MonitorAt, StartConsumers
<1>13. CASE RestartStores
  BY <1>13 DEF RestartStores, MonitorAt
<1>14. CASE RestartFails
  <2>1. faults' \in 0..MaxFaults
    BY <1>14, BoundsAssumption DEF RestartFails, CallFails
  <2> QED BY <1>14, <2>1 DEF RestartFails, MonitorAt
<1>15. CASE RegisterHandlers
  BY <1>15 DEF RegisterHandlers, BootAt
<1>16. CASE BootStarts
  BY <1>16 DEF BootStarts, BootAt, StartConsumers
<1>17. CASE BootStores
  BY <1>17 DEF BootStores, BootAt
<1>18. CASE BootFails
  BY <1>18, BoundsAssumption DEF BootFails, BootAt, CallFails
<1>19. CASE ShutdownSignals
  BY <1>19 DEF ShutdownSignals, ShutdownAt
<1>20. CASE ShutdownStopsPool
  <2>1. stopped' \subseteq 1..Len(poolConn) /\ crashed' \in BOOLEAN
    BY <1>20, StopPoolType DEF ShutdownStopsPool
  <2> QED BY <1>20, <2>1 DEF ShutdownStopsPool, ShutdownAt
<1>21. CASE ShutdownCloses
  BY <1>21 DEF ShutdownCloses, ShutdownAt
<1>22. ASSUME NEW c \in open, Break(c) PROVE TypeOK'
  BY <1>22, BoundsAssumption DEF Break
<1>23. CASE UNCHANGED vars
  BY <1>23 DEF vars
<1> QED BY <1>1, <1>2, <1>3, <1>4, <1>5, <1>6, <1>7, <1>8, <1>9, <1>10, <1>11,
     <1>12, <1>13, <1>14, <1>15, <1>16, <1>17, <1>18, <1>19, <1>20, <1>21,
     <1>22, <1>23 DEF Next, MonitorStep, BootStep, ShutdownStep

\* No step leaks a connection.
LEMMA ConnectingNext ==
  TypeOK /\ Connecting /\ [Next]_vars => Connecting'
<1> SUFFICES ASSUME TypeOK, Connecting, [Next]_vars PROVE Connecting'
  OBVIOUS
<1> USE DEF TypeOK, MonitorStates, Connecting, NoLeakedConnection, state, locals
<1>1. CASE Register
  BY <1>1 DEF Register, MonitorAt
<1>2. CASE NoticeLoss
  BY <1>2 DEF NoticeLoss, MonitorAt
<1>3. CASE MonitorReturns
  BY <1>3 DEF MonitorReturns, MonitorAt
<1>4. CASE Reconnect
  BY <1>4 DEF Reconnect, MonitorAt
<1>5. CASE DialFails
  BY <1>5 DEF DialFails, MonitorAt
<1>6. CASE Dial
  BY <1>6 DEF Dial, MonitorAt
<1>7. CASE Install
  BY <1>7 DEF Install, MonitorAt
<1>8. CASE TopologyFails
  BY <1>8 DEF TopologyFails, MonitorAt, CallFails
<1>9. CASE Reconnected
  BY <1>9 DEF Reconnected, MonitorAt
<1>10. CASE RestartReads
  BY <1>10 DEF RestartReads, MonitorAt
<1>11. CASE RestartStopsOld
  BY <1>11 DEF RestartStopsOld, MonitorAt, StopPool
<1>12. CASE RestartStartsNew
  BY <1>12 DEF RestartStartsNew, MonitorAt, StartConsumers
<1>13. CASE RestartStores
  BY <1>13 DEF RestartStores, MonitorAt
<1>14. CASE RestartFails
  BY <1>14 DEF RestartFails, MonitorAt, CallFails
<1>15. CASE RegisterHandlers
  BY <1>15 DEF RegisterHandlers, BootAt
<1>16. CASE BootStarts
  BY <1>16 DEF BootStarts, BootAt, StartConsumers
<1>17. CASE BootStores
  BY <1>17 DEF BootStores, BootAt
<1>18. CASE BootFails
  BY <1>18 DEF BootFails, BootAt, CallFails
<1>19. CASE ShutdownSignals
  BY <1>19 DEF ShutdownSignals, ShutdownAt
<1>20. CASE ShutdownStopsPool
  BY <1>20 DEF ShutdownStopsPool, ShutdownAt, StopPool
<1>21. CASE ShutdownCloses
  BY <1>21 DEF ShutdownCloses, ShutdownAt
<1>22. ASSUME NEW c \in open, Break(c) PROVE Connecting'
  BY <1>22 DEF Break
<1>23. CASE UNCHANGED vars
  BY <1>23 DEF vars
<1> QED BY <1>1, <1>2, <1>3, <1>4, <1>5, <1>6, <1>7, <1>8, <1>9, <1>10, <1>11,
     <1>12, <1>13, <1>14, <1>15, <1>16, <1>17, <1>18, <1>19, <1>20, <1>21,
     <1>22, <1>23 DEF Next, MonitorStep, BootStep, ShutdownStep

\* No step breaks what the flags say.
LEMMA FlagsNext ==
  TypeOK /\ Flags /\ [Next]_vars => Flags'
<1> SUFFICES ASSUME TypeOK, Flags, [Next]_vars PROVE Flags'
  OBVIOUS
<1> USE DEF TypeOK, MonitorStates, Flags, state, locals
<1>1. CASE Register
  BY <1>1 DEF Register, MonitorAt
<1>2. CASE NoticeLoss
  BY <1>2 DEF NoticeLoss, MonitorAt
<1>3. CASE MonitorReturns
  BY <1>3 DEF MonitorReturns, MonitorAt
<1>4. CASE Reconnect
  BY <1>4 DEF Reconnect, MonitorAt
<1>5. CASE DialFails
  BY <1>5 DEF DialFails, MonitorAt
<1>6. CASE Dial
  BY <1>6 DEF Dial, MonitorAt
<1>7. CASE Install
  BY <1>7 DEF Install, MonitorAt
<1>8. CASE TopologyFails
  BY <1>8 DEF TopologyFails, MonitorAt, CallFails
<1>9. CASE Reconnected
  BY <1>9 DEF Reconnected, MonitorAt
<1>10. CASE RestartReads
  BY <1>10 DEF RestartReads, MonitorAt
<1>11. CASE RestartStopsOld
  BY <1>11 DEF RestartStopsOld, MonitorAt, StopPool
<1>12. CASE RestartStartsNew
  BY <1>12 DEF RestartStartsNew, MonitorAt, StartConsumers
<1>13. CASE RestartStores
  BY <1>13 DEF RestartStores, MonitorAt
<1>14. CASE RestartFails
  BY <1>14 DEF RestartFails, MonitorAt, CallFails
<1>15. CASE RegisterHandlers
  BY <1>15 DEF RegisterHandlers, BootAt
<1>16. CASE BootStarts
  BY <1>16 DEF BootStarts, BootAt, StartConsumers
<1>17. CASE BootStores
  BY <1>17 DEF BootStores, BootAt
<1>18. CASE BootFails
  BY <1>18 DEF BootFails, BootAt, CallFails
<1>19. CASE ShutdownSignals
  BY <1>19 DEF ShutdownSignals, ShutdownAt
<1>20. CASE ShutdownStopsPool
  BY <1>20 DEF ShutdownStopsPool, ShutdownAt, StopPool
<1>21. CASE ShutdownCloses
  BY <1>21 DEF ShutdownCloses, ShutdownAt
<1>22. ASSUME NEW c \in open, Break(c) PROVE Flags'
  BY <1>22 DEF Break
<1>23. CASE UNCHANGED vars
  BY <1>23 DEF vars
<1> QED BY <1>1, <1>2, <1>3, <1>4, <1>5, <1>6, <1>7, <1>8, <1>9, <1>10, <1>11,
     <1>12, <1>13, <1>14, <1>15, <1>16, <1>17, <1>18, <1>19, <1>20, <1>21,
     <1>22, <1>23 DEF Next, MonitorStep, BootStep, ShutdownStep

\* A pool that is not stored yet stays private: the next pool gets a number of its
\* own, and what a restart stops was stored before.
LEMMA UnstoredNext ==
  TypeOK /\ Flags /\ Unstored /\ [Next]_vars => Unstored'
<1> SUFFICES ASSUME TypeOK, Flags, Unstored, [Next]_vars PROVE Unstored'
  OBVIOUS
<1> USE DEF TypeOK, MonitorStates, Flags, Unstored, state, locals
<1>1. CASE Register
  BY <1>1 DEF Register, MonitorAt
<1>2. CASE NoticeLoss
  BY <1>2 DEF NoticeLoss, MonitorAt
<1>3. CASE MonitorReturns
  BY <1>3 DEF MonitorReturns, MonitorAt
<1>4. CASE Reconnect
  BY <1>4 DEF Reconnect, MonitorAt
<1>5. CASE DialFails
  BY <1>5 DEF DialFails, MonitorAt
<1>6. CASE Dial
  BY <1>6 DEF Dial, MonitorAt
<1>7. CASE Install
  BY <1>7 DEF Install, MonitorAt
<1>8. CASE TopologyFails
  BY <1>8 DEF TopologyFails, MonitorAt, CallFails
<1>9. CASE Reconnected
  BY <1>9 DEF Reconnected, MonitorAt
<1>10. CASE RestartReads
  BY <1>10 DEF RestartReads, MonitorAt
<1>11. CASE RestartStopsOld
  BY <1>11 DEF RestartStopsOld, MonitorAt, StopPool
<1>12. CASE RestartStartsNew
  <2>1. newPool' = Len(poolConn) + 1 /\ newPool' \notin stopped
    BY <1>12 DEF RestartStartsNew
  <2>2. boot # "start" /\ newPool' # 0
    BY <1>12, <2>1 DEF RestartStartsNew, MonitorAt
  <2>3. boot = "store" => bootPool # newPool'
    BY <2>1
  <2> QED BY <1>12, <2>1, <2>2, <2>3 DEF RestartStartsNew, MonitorAt
<1>13. CASE RestartStores
  BY <1>13 DEF RestartStores, MonitorAt
<1>14. CASE RestartFails
  BY <1>14 DEF RestartFails, MonitorAt, CallFails
<1>15. CASE RegisterHandlers
  BY <1>15 DEF RegisterHandlers, BootAt
<1>16. CASE BootStarts
  BY <1>16 DEF BootStarts, BootAt, StartConsumers
<1>17. CASE BootStores
  BY <1>17 DEF BootStores, BootAt
<1>18. CASE BootFails
  BY <1>18 DEF BootFails, BootAt, CallFails
<1>19. CASE ShutdownSignals
  BY <1>19 DEF ShutdownSignals, ShutdownAt
<1>20. CASE ShutdownStopsPool
  BY <1>20 DEF ShutdownStopsPool, ShutdownAt, StopPool
<1>21. CASE ShutdownCloses
  BY <1>21 DEF ShutdownCloses, ShutdownAt
<1>22. ASSUME NEW c \in open, Break(c) PROVE Unstored'
  BY <1>22 DEF Break
<1>23. CASE UNCHANGED vars
  BY <1>23 DEF vars
<1> QED BY <1>1, <1>2, <1>3, <1>4, <1>5, <1>6, <1>7, <1>8, <1>9, <1>10, <1>11,
     <1>12, <1>13, <1>14, <1>15, <1>16, <1>17, <1>18, <1>19, <1>20, <1>21,
     <1>22, <1>23 DEF Next, MonitorStep, BootStep, ShutdownStep

\* A step to register or watch leaves the pool on the connection: only a restart
\* that closing interrupted, or the boot goroutine, gets there another way.
LEMMA OnCurrentNext ==
  TypeOK /\ Flags /\ Unstored /\ OnCurrent /\ [Next]_vars => OnCurrent'
<1> SUFFICES ASSUME TypeOK, Flags, Unstored, OnCurrent, [Next]_vars PROVE OnCurrent'
  OBVIOUS
<1> USE DEF TypeOK, MonitorStates, Flags, Unstored, OnCurrent, state, locals
<1>1. CASE Register
  BY <1>1 DEF Register, MonitorAt
<1>2. CASE NoticeLoss
  BY <1>2 DEF NoticeLoss, MonitorAt
<1>3. CASE MonitorReturns
  BY <1>3 DEF MonitorReturns, MonitorAt
<1>4. CASE Reconnect
  BY <1>4 DEF Reconnect, MonitorAt
<1>5. CASE DialFails
  BY <1>5 DEF DialFails, MonitorAt
<1>6. CASE Dial
  BY <1>6 DEF Dial, MonitorAt
<1>7. CASE Install
  BY <1>7 DEF Install, MonitorAt
<1>8. CASE TopologyFails
  BY <1>8 DEF TopologyFails, MonitorAt, CallFails
<1>9. CASE Reconnected
  BY <1>9 DEF Reconnected, MonitorAt
<1>10. CASE RestartReads
  BY <1>10 DEF RestartReads, MonitorAt
<1>11. CASE RestartStopsOld
  BY <1>11 DEF RestartStopsOld, MonitorAt, StopPool
<1>12. CASE RestartStartsNew
  BY <1>12 DEF RestartStartsNew, MonitorAt, StartConsumers
<1>13. CASE RestartStores
  BY <1>13 DEF RestartStores, MonitorAt
<1>14. CASE RestartFails
  BY <1>14 DEF RestartFails, MonitorAt, CallFails
<1>15. CASE RegisterHandlers
  BY <1>15 DEF RegisterHandlers, BootAt
<1>16. CASE BootStarts
  BY <1>16 DEF BootStarts, BootAt, StartConsumers
<1>17. CASE BootStores
  BY <1>17 DEF BootStores, BootAt
<1>18. CASE BootFails
  BY <1>18 DEF BootFails, BootAt, CallFails
<1>19. CASE ShutdownSignals
  BY <1>19 DEF ShutdownSignals, ShutdownAt
<1>20. CASE ShutdownStopsPool
  BY <1>20 DEF ShutdownStopsPool, ShutdownAt, StopPool
<1>21. CASE ShutdownCloses
  BY <1>21 DEF ShutdownCloses, ShutdownAt
<1>22. ASSUME NEW c \in open, Break(c) PROVE OnCurrent'
  BY <1>22 DEF Break
<1>23. CASE UNCHANGED vars
  BY <1>23 DEF vars
<1> QED BY <1>1, <1>2, <1>3, <1>4, <1>5, <1>6, <1>7, <1>8, <1>9, <1>10, <1>11,
     <1>12, <1>13, <1>14, <1>15, <1>16, <1>17, <1>18, <1>19, <1>20, <1>21,
     <1>22, <1>23 DEF Next, MonitorStep, BootStep, ShutdownStep

\* A pool is stopped only on the way to a restart or by Shutdown.
LEMMA RunsNext ==
  TypeOK /\ Flags /\ Unstored /\ PoolInUseRuns /\ [Next]_vars => PoolInUseRuns'
<1> SUFFICES ASSUME TypeOK, Flags, Unstored, PoolInUseRuns, [Next]_vars PROVE PoolInUseRuns'
  OBVIOUS
<1> USE DEF TypeOK, MonitorStates, Flags, Unstored, PoolInUseRuns, state, locals
<1>1. CASE Register
  BY <1>1 DEF Register, MonitorAt
<1>2. CASE NoticeLoss
  BY <1>2 DEF NoticeLoss, MonitorAt
<1>3. CASE MonitorReturns
  BY <1>3 DEF MonitorReturns, MonitorAt
<1>4. CASE Reconnect
  BY <1>4 DEF Reconnect, MonitorAt
<1>5. CASE DialFails
  BY <1>5 DEF DialFails, MonitorAt
<1>6. CASE Dial
  BY <1>6 DEF Dial, MonitorAt
<1>7. CASE Install
  BY <1>7 DEF Install, MonitorAt
<1>8. CASE TopologyFails
  BY <1>8 DEF TopologyFails, MonitorAt, CallFails
<1>9. CASE Reconnected
  BY <1>9 DEF Reconnected, MonitorAt
<1>10. CASE RestartReads
  BY <1>10 DEF RestartReads, MonitorAt
<1>11. CASE RestartStopsOld
  BY <1>11 DEF RestartStopsOld, MonitorAt, StopPool
<1>12. CASE RestartStartsNew
  BY <1>12 DEF RestartStartsNew, MonitorAt, StartConsumers
<1>13. CASE RestartStores
  BY <1>13 DEF RestartStores, MonitorAt
<1>14. CASE RestartFails
  BY <1>14 DEF RestartFails, MonitorAt, CallFails
<1>15. CASE RegisterHandlers
  BY <1>15 DEF RegisterHandlers, BootAt
<1>16. CASE BootStarts
  BY <1>16 DEF BootStarts, BootAt, StartConsumers
<1>17. CASE BootStores
  BY <1>17 DEF BootStores, BootAt
<1>18. CASE BootFails
  BY <1>18 DEF BootFails, BootAt, CallFails
<1>19. CASE ShutdownSignals
  BY <1>19 DEF ShutdownSignals, ShutdownAt
<1>20. CASE ShutdownStopsPool
  BY <1>20 DEF ShutdownStopsPool, ShutdownAt, StopPool
<1>21. CASE ShutdownCloses
  BY <1>21 DEF ShutdownCloses, ShutdownAt
<1>22. ASSUME NEW c \in open, Break(c) PROVE PoolInUseRuns'
  BY <1>22 DEF Break
<1>23. CASE UNCHANGED vars
  BY <1>23 DEF vars
<1> QED BY <1>1, <1>2, <1>3, <1>4, <1>5, <1>6, <1>7, <1>8, <1>9, <1>10, <1>11,
     <1>12, <1>13, <1>14, <1>15, <1>16, <1>17, <1>18, <1>19, <1>20, <1>21,
     <1>22, <1>23 DEF Next, MonitorStep, BootStep, ShutdownStep

-----------------------------------------------------------------------------
\* The inductive invariant holds in every reachable state.
LEMMA InductiveInvariant == Spec => []IInv
<1>1. Init => IInv
  <2> SUFFICES ASSUME Init PROVE IInv
    OBVIOUS
  <2>1. poolConn = <<>> /\ Len(poolConn) = 0 /\ poolConn \in Seq(1..dialled)
    BY DEF Init
  <2>2. /\ conn \in 1..dialled /\ open \subseteq 1..dialled /\ broken \subseteq 1..dialled
        /\ dialled \in Nat /\ fresh \in 0..dialled /\ faults \in 0..MaxFaults
    BY BoundsAssumption DEF Init
  <2>3. /\ {pool, oldPool, newPool, bootPool} \subseteq 0..Len(poolConn)
        /\ stopped \subseteq 1..Len(poolConn)
    BY <2>1 DEF Init
  <2>4. TypeOK
    BY <2>1, <2>2, <2>3 DEF Init, TypeOK, MonitorStates
  <2>5. Connecting /\ Flags /\ Unstored /\ OnCurrent /\ PoolInUseRuns
    BY DEF Init, Connecting, NoLeakedConnection, Flags, Unstored, OnCurrent, PoolInUseRuns
  <2> QED BY <2>4, <2>5 DEF IInv
<1>2. IInv /\ [Next]_vars => IInv'
  BY TypeNext, ConnectingNext, FlagsNext, UnstoredNext, OnCurrentNext, RunsNext DEF IInv
<1> QED BY <1>1, <1>2, PTL DEF Spec

\* Every variable keeps its type, for any number of faults: the connection and
\* the pools the goroutines hold are ones that were really created.
THEOREM TypeCorrect == Spec => []TypeOK
BY InductiveInvariant, PTL DEF IInv

\* However many dials, topology set-ups and restarts fail, and wherever Shutdown
\* comes in between, an open connection is mq.conn or the one connect() is about
\* to store: reconnecting leaks no socket.
THEOREM NoConnectionLeaks == Spec => []NoLeakedConnection
BY InductiveInvariant, PTL DEF IInv, Connecting

\* After any sequence of reconnects, a monitor that is watching again has left
\* mq.workerPool on mq.conn, unless the boot goroutine was overtaken.
THEOREM ConsumersFollowConnection == Spec => []PoolOnCurrentConnection
<1>1. IInv => PoolOnCurrentConnection
  BY DEF IInv, OnCurrent, PoolOnCurrentConnection
<1> QED BY <1>1, InductiveInvariant, PTL

\* No interleaving of the boot goroutine, failed restarts and later restarts
\* leaves a stopped pool in use.
THEOREM PoolKeepsRunning == Spec => []PoolInUseRuns
BY InductiveInvariant, PTL DEF IInv
=============================================================================
