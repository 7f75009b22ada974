--------------------------- MODULE WorkerPool_proofs ---------------------------
(***************************************************************************)
(* Proofs about WorkerPool for any number of messages, workers, retries    *)
(* and faults.                                                             *)
(***************************************************************************)
EXTENDS WorkerPool, TLAPS

-----------------------------------------------------------------------------
(* The inductive invariant *)

\* Copy identifiers are unique, and a delivery held over a live channel is the
\* broker's own record, held by one worker only.
UniqueIds == \A c, d \in broker : c.id = d.id => c = d
HeldStored ==
  \A w \in AllWorkers :
    live[w] /\ pc[w] \in Busy => job[w] \in broker /\ job[w].at = Home(w)
HeldOnce ==
  \A v, w \in AllWorkers :
    /\ live[v] /\ pc[v] \in Busy
    /\ live[w] /\ pc[w] \in Busy
    /\ job[v].id = job[w].id
    => v = w

\* Dead-letter workers never schedule a retry.
DLQNeverRetries ==
  \A w \in DLQWorkers : pc[w] \notin {"publish", "requeue"}

\* The retry header never runs ahead of the failures it stands for.
CountedCopies == \A c \in broker : c.rc <= fails[c.msg]
CountedJobs ==
  \A w \in AllWorkers :
    /\ pc[w] \in Busy => job[w].rc <= fails[job[w].msg]
    /\ pc[w] = "publish" => job[w].rc < fails[job[w].msg] /\ job[w].rc < MaxRetries
RejectJustified ==
  \A w \in Workers :
    pc[w] = "reject" =>
      job[w].msg \in panicked \/ fails[job[w].msg] > MaxRetries

\* What makes removing a copy safe: the message is concluded, or a copy with a
\* higher retry count is stored.  The strict order on retry counts is what
\* keeps two workers from justifying their acks by each other's copy.
AckJustified ==
  PublishConfirm =>
    \A w \in AllWorkers :
      live[w] /\ pc[w] = "ack" =>
        \/ job[w].msg \in Concluded
        \/ \E c \in broker : c.msg = job[w].msg /\ c.rc > job[w].rc
DropRecorded ==
  \A w \in DLQWorkers : pc[w] = "reject" => job[w].msg \in Concluded

\* Only accepted messages are stored, processed or concluded.
OnlyAccepted ==
  /\ \A c \in broker : c.msg \in accepted
  /\ \A w \in AllWorkers : pc[w] \in Busy => job[w].msg \in accepted
  /\ \A m \in Msgs : oks[m] > 0 => m \in accepted

Delivery == UniqueIds /\ HeldStored /\ HeldOnce
Counting == /\ DLQNeverRetries /\ CountedCopies /\ CountedJobs
            /\ RejectJustified /\ DeadLetterJustified
Keeping == AckJustified /\ DropRecorded /\ NoLoss

IndInv == TypeOK /\ Delivery /\ Counting /\ Keeping /\ OnlyAccepted

\* Every step keeps every variable in its type.
LEMMA TypeInductive == IndInv /\ [Next]_vars => TypeOK'
<1> SUFFICES ASSUME IndInv, [Next]_vars PROVE TypeOK'
  OBVIOUS
<1> USE MaxRetriesAssumption, BoundsAssumption DEF TypeOK, Counting, CountedJobs, IndInv, Copy, Busy, AllWorkers
<1>1. CASE UNCHANGED vars
  BY <1>1 DEF vars, history
<1>2. ASSUME NEW m \in Msgs, Publish(m) PROVE TypeOK'
  BY <1>2 DEF Publish, history, FreeIds, FreshId
<1>3. ASSUME NEW c \in broker, Expire(c) PROVE TypeOK'
  BY <1>3 DEF Expire, history, Moved
<1>4. ASSUME NEW w \in AllWorkers, Take(w) PROVE TypeOK'
  BY <1>4 DEF Take, history
<1>5. ASSUME NEW w \in AllWorkers, HandlerOk(w) PROVE TypeOK'
  BY <1>5 DEF HandlerOk, history
<1>6. ASSUME NEW w \in AllWorkers, HandlerErr(w) PROVE TypeOK'
  BY <1>6 DEF HandlerErr, history, AfterError
<1>7. ASSUME NEW w \in AllWorkers, HandlerPanic(w) PROVE TypeOK'
  BY <1>7 DEF HandlerPanic, history
<1>8. ASSUME NEW w \in AllWorkers, PublishStored(w) PROVE TypeOK'
  BY <1>8 DEF PublishStored, history, RetryCopy, FreeIds, FreshId
<1>9. ASSUME NEW w \in AllWorkers, PublishUnconfirmed(w) PROVE TypeOK'
  BY <1>9 DEF PublishUnconfirmed, history, RetryCopy, FreeIds, FreshId
<1>10. ASSUME NEW w \in AllWorkers, PublishLost(w) PROVE TypeOK'
  BY <1>10 DEF PublishLost, history
<1>11. ASSUME NEW w \in AllWorkers, PublishFailed(w) PROVE TypeOK'
  BY <1>11 DEF PublishFailed, history
<1>12. ASSUME NEW w \in AllWorkers, Ack(w) PROVE TypeOK'
  BY <1>12 DEF Ack, history, Finish
<1>13. ASSUME NEW w \in AllWorkers, Requeue(w) PROVE TypeOK'
  BY <1>13 DEF Requeue, history, Finish
<1>14. ASSUME NEW w \in AllWorkers, Reject(w) PROVE TypeOK'
  BY <1>14 DEF Reject, history, Finish, DeadLetter, Moved
<1>15. ASSUME NEW w \in AllWorkers, WorkerExit(w) PROVE TypeOK'
  BY <1>15 DEF WorkerExit, history
<1>16. CASE StartWorkers
  BY <1>16 DEF StartWorkers, history
<1>17. CASE ConnectionLost
  BY <1>17 DEF ConnectionLost, history
<1>18. CASE Shutdown
  BY <1>18 DEF Shutdown, history
<1>19. CASE Drained
  BY <1>19 DEF Drained, history, NewProcess
<1>20. CASE Killed
  <2>1. NewProcess /\ faults' = faults + 1
    BY <1>20 DEF Killed
  <2>2. faults' \in Nat
    BY <2>1
  <2>3. \A w \in AllWorkers : pc'[w] \notin Busy
    BY <2>1 DEF NewProcess
  <2>4. /\ pc' \in [AllWorkers -> {"off", "idle"} \cup Busy]
        /\ job' \in [AllWorkers -> Copy \cup {NoCopy}]
        /\ live' \in [AllWorkers -> BOOLEAN]
    BY <2>1 DEF NewProcess
  <2>5. QED
    BY <2>1, <2>2, <2>3, <2>4 DEF NewProcess, history
<1> HIDE DEF TypeOK, Counting, CountedJobs, IndInv, Copy, Busy, AllWorkers
<1>21. QED
  BY <1>1, <1>2, <1>3, <1>4, <1>5, <1>6, <1>7, <1>8, <1>9, <1>10, <1>11, <1>12, <1>13, <1>14, <1>15, <1>16, <1>17, <1>18, <1>19, <1>20 DEF Next, WorkerStep

\* Deliveries stay exclusive and copy identifiers unique.
LEMMA DeliveryInductive == IndInv /\ [Next]_vars => Delivery'
<1> SUFFICES ASSUME IndInv, [Next]_vars PROVE Delivery'
  OBVIOUS
<1> USE WorkersDisjoint DEF IndInv, TypeOK, Copy, Busy, AllWorkers, Delivery, UniqueIds, HeldStored, HeldOnce, Home, Unacked
<1>1. CASE UNCHANGED vars
  BY <1>1 DEF vars, history
<1>2. ASSUME NEW m \in Msgs, Publish(m) PROVE Delivery'
  BY <1>2 DEF Publish, history, FreeIds, FreshId
<1>3. ASSUME NEW c \in broker, Expire(c) PROVE Delivery'
  BY <1>3 DEF Expire, history, Moved
<1>4. ASSUME NEW w \in AllWorkers, Take(w) PROVE Delivery'
  BY <1>4 DEF Take, history
<1>5. ASSUME NEW w \in AllWorkers, HandlerOk(w) PROVE Delivery'
  BY <1>5 DEF HandlerOk, history
<1>6. ASSUME NEW w \in AllWorkers, HandlerErr(w) PROVE Delivery'
  BY <1>6 DEF HandlerErr, history, AfterError
<1>7. ASSUME NEW w \in AllWorkers, HandlerPanic(w) PROVE Delivery'
  BY <1>7 DEF HandlerPanic, history
<1>8. ASSUME NEW w \in AllWorkers, PublishStored(w) PROVE Delivery'
  BY <1>8 DEF PublishStored, history, RetryCopy, FreeIds, FreshId
<1>9. ASSUME NEW w \in AllWorkers, PublishUnconfirmed(w) PROVE Delivery'
  BY <1>9 DEF PublishUnconfirmed, history, RetryCopy, FreeIds, FreshId
<1>10. ASSUME NEW w \in AllWorkers, PublishLost(w) PROVE Delivery'
  BY <1>10 DEF PublishLost, history
<1>11. ASSUME NEW w \in AllWorkers, PublishFailed(w) PROVE Delivery'
  BY <1>11 DEF PublishFailed, history
<1>12. ASSUME NEW w \in AllWorkers, Ack(w) PROVE Delivery'
  BY <1>12 DEF Ack, history, Finish
<1>13. ASSUME NEW w \in AllWorkers, Requeue(w) PROVE Delivery'
  BY <1>13 DEF Requeue, history, Finish
<1>14. ASSUME NEW w \in AllWorkers, Reject(w) PROVE Delivery'
  BY <1>14 DEF Reject, history, Finish, DeadLetter, Moved
<1>15. ASSUME NEW w \in AllWorkers, WorkerExit(w) PROVE Delivery'
  BY <1>15 DEF WorkerExit, history
<1>16. CASE StartWorkers
  BY <1>16 DEF StartWorkers, history
<1>17. CASE ConnectionLost
  BY <1>17 DEF ConnectionLost, history
<1>18. CASE Shutdown
  BY <1>18 DEF Shutdown, history
<1>19. CASE Drained
  BY <1>19 DEF Drained, history, NewProcess
<1>20. CASE Killed
  BY <1>20 DEF Killed, history, NewProcess
<1> HIDE DEF IndInv, TypeOK, Copy, Busy, AllWorkers, Delivery, UniqueIds, HeldStored, HeldOnce, Home, Unacked
<1>21. QED
  BY <1>1, <1>2, <1>3, <1>4, <1>5, <1>6, <1>7, <1>8, <1>9, <1>10, <1>11, <1>12, <1>13, <1>14, <1>15, <1>16, <1>17, <1>18, <1>19, <1>20 DEF Next, WorkerStep

\* Retry counts stay behind the failures they stand for.
LEMMA CountingInductive == IndInv /\ [Next]_vars => Counting'
<1> SUFFICES ASSUME IndInv, [Next]_vars PROVE Counting'
  OBVIOUS
<1> USE WorkersDisjoint, MaxRetriesAssumption DEF IndInv, TypeOK, Copy, Busy, AllWorkers, Counting, DLQNeverRetries, CountedCopies, CountedJobs, RejectJustified, DeadLetterJustified, Home
<1>1. CASE UNCHANGED vars
  BY <1>1 DEF vars, history
<1>2. ASSUME NEW m \in Msgs, Publish(m) PROVE Counting'
  BY <1>2 DEF Publish, history, FreeIds, FreshId
<1>3. ASSUME NEW c \in broker, Expire(c) PROVE Counting'
  BY <1>3 DEF Expire, history, Moved
<1>4. ASSUME NEW w \in AllWorkers, Take(w) PROVE Counting'
  BY <1>4 DEF Take, history
<1>5. ASSUME NEW w \in AllWorkers, HandlerOk(w) PROVE Counting'
  BY <1>5 DEF HandlerOk, history
<1>6. ASSUME NEW w \in AllWorkers, HandlerErr(w) PROVE Counting'
  BY <1>6 DEF HandlerErr, history, AfterError
<1>7. ASSUME NEW w \in AllWorkers, HandlerPanic(w) PROVE Counting'
  BY <1>7 DEF HandlerPanic, history
<1>8. ASSUME NEW w \in AllWorkers, PublishStored(w) PROVE Counting'
  BY <1>8 DEF PublishStored, history, RetryCopy, FreeIds, FreshId
<1>9. ASSUME NEW w \in AllWorkers, PublishUnconfirmed(w) PROVE Counting'
  BY <1>9 DEF PublishUnconfirmed, history, RetryCopy, FreeIds, FreshId
<1>10. ASSUME NEW w \in AllWorkers, PublishLost(w) PROVE Counting'
  BY <1>10 DEF PublishLost, history
<1>11. ASSUME NEW w \in AllWorkers, PublishFailed(w) PROVE Counting'
  BY <1>11 DEF PublishFailed, history
<1>12. ASSUME NEW w \in AllWorkers, Ack(w) PROVE Counting'
  BY <1>12 DEF Ack, history, Finish
<1>13. ASSUME NEW w \in AllWorkers, Requeue(w) PROVE Counting'
  BY <1>13 DEF Requeue, history, Finish
<1>14. ASSUME NEW w \in AllWorkers, Reject(w) PROVE Counting'
  <2>1. CASE ~ live[w]
    BY <1>14, <2>1 DEF Reject, Finish, history
  <2>2. CASE live[w] /\ w \in DLQWorkers
    <3>1. job[w].at = "dlq"
      BY <1>14, <2>2 DEF Reject, Delivery, HeldStored
    <3>2. QED
      BY <1>14, <2>2, <3>1 DEF Reject, Finish, DeadLetter, history
  <2>3. CASE live[w] /\ w \in Workers
    <3>1. job[w] \in broker /\ job[w].at = "main"
      BY <1>14, <2>3 DEF Reject, Delivery, HeldStored
    <3>2. broker' = (broker \ {job[w]}) \cup {Moved(job[w], "dlq")}
      BY <1>14, <2>3, <3>1 DEF Reject, DeadLetter
    <3>3. DLQNeverRetries' /\ CountedJobs' /\ RejectJustified'
      BY <1>14 DEF Reject, Finish, history
    <3>4. CountedCopies' /\ DeadLetterJustified'
      BY <1>14, <2>3, <3>1, <3>2 DEF Reject, Finish, Moved, history
    <3>5. QED
      BY <3>3, <3>4
  <2>4. QED
    BY <2>1, <2>2, <2>3
<1>15. ASSUME NEW w \in AllWorkers, WorkerExit(w) PROVE Counting'
  BY <1>15 DEF WorkerExit, history
<1>16. CASE StartWorkers
  BY <1>16 DEF StartWorkers, history
<1>17. CASE ConnectionLost
  BY <1>17 DEF ConnectionLost, history
<1>18. CASE Shutdown
  BY <1>18 DEF Shutdown, history
<1>19. CASE Drained
  BY <1>19 DEF Drained, history, NewProcess
<1>20. CASE Killed
  BY <1>20 DEF Killed, history, NewProcess
<1> HIDE DEF IndInv, TypeOK, Copy, Busy, AllWorkers, Counting, DLQNeverRetries, CountedCopies, CountedJobs, RejectJustified, DeadLetterJustified, Home
<1>21. QED
  BY <1>1, <1>2, <1>3, <1>4, <1>5, <1>6, <1>7, <1>8, <1>9, <1>10, <1>11, <1>12, <1>13, <1>14, <1>15, <1>16, <1>17, <1>18, <1>19, <1>20 DEF Next, WorkerStep

\* Dead-lettering a copy into another queue keeps its message and retry count.
LEMMA MovedCovers ==
  ASSUME NEW S, NEW c \in S, NEW queue
  PROVE  \A d \in S : \E e \in (S \ {c}) \cup {Moved(c, queue)} :
           e.msg = d.msg /\ e.rc = d.rc
<1>1. Moved(c, queue).msg = c.msg /\ Moved(c, queue).rc = c.rc
  BY DEF Moved
<1> TAKE d \in S
<1>2. CASE d = c
  BY <1>1, <1>2
<1>3. CASE d # c
  BY <1>3
<1>4. QED
  BY <1>2, <1>3

\* No step loses the last copy of a message that is not concluded.
LEMMA KeepingInductive == IndInv /\ [Next]_vars => Keeping'
<1> SUFFICES ASSUME IndInv, [Next]_vars PROVE Keeping'
  OBVIOUS
<1> USE WorkersDisjoint DEF IndInv, TypeOK, Copy, Busy, AllWorkers, Keeping, AckJustified, DropRecorded, NoLoss, Concluded, Owed, Home, Delivery, HeldStored, OnlyAccepted
<1>1. CASE UNCHANGED vars
  BY <1>1 DEF vars, history
<1>2. ASSUME NEW m \in Msgs, Publish(m) PROVE Keeping'
  <2> DEFINE n == [id |-> FreshId, msg |-> m, rc |-> 0, at |-> "main"]
  <2>1. broker \subseteq broker' /\ n \in broker' /\ n.msg = m
    BY <1>2 DEF Publish
  <2>2. Concluded' = Concluded /\ accepted' = accepted \cup {m}
    BY <1>2 DEF Publish
  <2>3. AckJustified' /\ DropRecorded'
    BY <1>2, <2>1, <2>2 DEF Publish
  <2>4. NoLoss'
    BY <2>1, <2>2
  <2>5. QED
    BY <2>3, <2>4
<1>3. ASSUME NEW c \in broker, Expire(c) PROVE Keeping'
  <2>1. \A d \in broker : \E e \in broker' : e.msg = d.msg /\ e.rc = d.rc
    BY <1>3, MovedCovers DEF Expire
  <2>2. Concluded' = Concluded /\ accepted' = accepted
    BY <1>3 DEF Expire, history
  <2>3. AckJustified'
    BY <1>3, <2>1, <2>2 DEF Expire, history
  <2>4. DropRecorded' /\ NoLoss'
    BY <1>3, <2>1, <2>2 DEF Expire, history
  <2>5. QED
    BY <2>3, <2>4
<1>4. ASSUME NEW w \in AllWorkers, Take(w) PROVE Keeping'
  BY <1>4 DEF Take, history
<1>5. ASSUME NEW w \in AllWorkers, HandlerOk(w) PROVE Keeping'
  BY <1>5 DEF HandlerOk, history
<1>6. ASSUME NEW w \in AllWorkers, HandlerErr(w) PROVE Keeping'
  BY <1>6 DEF HandlerErr, history, AfterError
<1>7. ASSUME NEW w \in AllWorkers, HandlerPanic(w) PROVE Keeping'
  BY <1>7 DEF HandlerPanic, history
<1>8. ASSUME NEW w \in AllWorkers, PublishStored(w) PROVE Keeping'
  <2>1. broker \subseteq broker' /\ RetryCopy(job[w]) \in broker'
    BY <1>8 DEF PublishStored
  <2>2. Concluded' = Concluded /\ accepted' = accepted
    BY <1>8 DEF PublishStored, history
  <2>3. ASSUME PublishConfirm, NEW v \in AllWorkers, live'[v], pc'[v] = "ack"
        PROVE  \/ job'[v].msg \in Concluded'
               \/ \E c \in broker' : c.msg = job'[v].msg /\ c.rc > job'[v].rc
    <3>1. CASE v = w
      <4>1. /\ RetryCopy(job[w]).msg = job[w].msg
            /\ RetryCopy(job[w]).rc = job[w].rc + 1
            /\ job[w].rc \in Nat
        BY <1>8, MaxRetriesAssumption DEF PublishStored, RetryCopy
      <4>2. job'[v] = job[w]
        BY <1>8, <3>1 DEF PublishStored
      <4>3. RetryCopy(job[w]).rc > job'[v].rc
        BY <4>1, <4>2
      <4>4. QED
        BY <2>1, <4>1, <4>2, <4>3
    <3>2. CASE v # w
      BY <1>8, <2>1, <2>2, <2>3, <3>2 DEF PublishStored
    <3>3. QED
      BY <3>1, <3>2
  <2>4. DropRecorded' /\ NoLoss'
    BY <1>8, <2>1, <2>2 DEF PublishStored
  <2>5. QED
    BY <2>3, <2>4
<1>9. ASSUME NEW w \in AllWorkers, PublishUnconfirmed(w) PROVE Keeping'
  BY <1>9 DEF PublishUnconfirmed, history, RetryCopy, FreeIds, FreshId
<1>10. ASSUME NEW w \in AllWorkers, PublishLost(w) PROVE Keeping'
  BY <1>10 DEF PublishLost, history
<1>11. ASSUME NEW w \in AllWorkers, PublishFailed(w) PROVE Keeping'
  BY <1>11 DEF PublishFailed, history
<1>12. ASSUME NEW w \in AllWorkers, Ack(w) PROVE Keeping'
  BY <1>12 DEF Ack, history, Finish
<1>13. ASSUME NEW w \in AllWorkers, Requeue(w) PROVE Keeping'
  BY <1>13 DEF Requeue, history, Finish
<1>14. ASSUME NEW w \in AllWorkers, Reject(w) PROVE Keeping'
  <2>1. Concluded' = Concluded /\ accepted' = accepted
    BY <1>14 DEF Reject, Finish, history
  <2>2. CASE ~ live[w]
    BY <1>14, <2>1, <2>2 DEF Reject, Finish
  <2>3. CASE live[w] /\ w \in Workers
    <3>1. job[w] \in broker /\ job[w].at = "main"
      BY <1>14, <2>3 DEF Reject
    <3>2. broker' = (broker \ {job[w]}) \cup {Moved(job[w], "dlq")}
      BY <1>14, <2>3, <3>1 DEF Reject, DeadLetter
    <3>3. \A d \in broker : \E e \in broker' : e.msg = d.msg /\ e.rc = d.rc
      BY <3>1, <3>2, MovedCovers
    <3>4. AckJustified'
      BY <1>14, <2>1, <3>3 DEF Reject, Finish
    <3>5. DropRecorded' /\ NoLoss'
      BY <1>14, <2>1, <3>3 DEF Reject, Finish
    <3>6. QED
      BY <3>4, <3>5
  <2>4. CASE live[w] /\ w \in DLQWorkers
    <3>1. job[w] \in broker /\ job[w].at = "dlq" /\ job[w].msg \in Concluded
      BY <1>14, <2>4 DEF Reject
    <3>2. broker' = broker \ {job[w]}
      BY <1>14, <2>4, <3>1 DEF Reject, DeadLetter
    <3>3. AckJustified'
      BY <1>14, <2>1, <3>1, <3>2 DEF Reject, Finish
    <3>4. DropRecorded' /\ NoLoss'
      BY <1>14, <2>1, <3>1, <3>2 DEF Reject, Finish
    <3>5. QED
      BY <3>3, <3>4
  <2>5. QED
    BY <2>2, <2>3, <2>4
<1>15. ASSUME NEW w \in AllWorkers, WorkerExit(w) PROVE Keeping'
  BY <1>15 DEF WorkerExit, history
<1>16. CASE StartWorkers
  BY <1>16 DEF StartWorkers, history
<1>17. CASE ConnectionLost
  BY <1>17 DEF ConnectionLost, history
<1>18. CASE Shutdown
  BY <1>18 DEF Shutdown, history
<1>19. CASE Drained
  BY <1>19 DEF Drained, history, NewProcess
<1>20. CASE Killed
  BY <1>20 DEF Killed, history, NewProcess
<1> HIDE DEF IndInv, TypeOK, Copy, Busy, AllWorkers, Keeping, AckJustified, DropRecorded, NoLoss, Concluded, Owed, Home, Delivery, HeldStored, OnlyAccepted
<1>21. QED
  BY <1>1, <1>2, <1>3, <1>4, <1>5, <1>6, <1>7, <1>8, <1>9, <1>10, <1>11, <1>12, <1>13, <1>14, <1>15, <1>16, <1>17, <1>18, <1>19, <1>20 DEF Next, WorkerStep

\* Only accepted messages are stored, processed or handled.
LEMMA OnlyAcceptedInductive == IndInv /\ [Next]_vars => OnlyAccepted'
<1> SUFFICES ASSUME IndInv, [Next]_vars PROVE OnlyAccepted'
  OBVIOUS
<1> USE DEF IndInv, TypeOK, Copy, Busy, AllWorkers, OnlyAccepted
<1>1. CASE UNCHANGED vars
  BY <1>1 DEF vars, history
<1>2. ASSUME NEW m \in Msgs, Publish(m) PROVE OnlyAccepted'
  BY <1>2 DEF Publish, history, FreeIds, FreshId
<1>3. ASSUME NEW c \in broker, Expire(c) PROVE OnlyAccepted'
  BY <1>3 DEF Expire, history, Moved
<1>4. ASSUME NEW w \in AllWorkers, Take(w) PROVE OnlyAccepted'
  BY <1>4 DEF Take, history
<1>5. ASSUME NEW w \in AllWorkers, HandlerOk(w) PROVE OnlyAccepted'
  BY <1>5 DEF HandlerOk, history
<1>6. ASSUME NEW w \in AllWorkers, HandlerErr(w) PROVE OnlyAccepted'
  BY <1>6 DEF HandlerErr, history, AfterError
<1>7. ASSUME NEW w \in AllWorkers, HandlerPanic(w) PROVE OnlyAccepted'
  BY <1>7 DEF HandlerPanic, history
<1>8. ASSUME NEW w \in AllWorkers, PublishStored(w) PROVE OnlyAccepted'
  BY <1>8 DEF PublishStored, history, RetryCopy, FreeIds, FreshId
<1>9. ASSUME NEW w \in AllWorkers, PublishUnconfirmed(w) PROVE OnlyAccepted'
  BY <1>9 DEF PublishUnconfirmed, history, RetryCopy, FreeIds, FreshId
<1>10. ASSUME NEW w \in AllWorkers, PublishLost(w) PROVE OnlyAccepted'
  BY <1>10 DEF PublishLost, history
<1>11. ASSUME NEW w \in AllWorkers, PublishFailed(w) PROVE OnlyAccepted'
  BY <1>11 DEF PublishFailed, history
<1>12. ASSUME NEW w \in AllWorkers, Ack(w) PROVE OnlyAccepted'
  BY <1>12 DEF Ack, history, Finish
<1>13. ASSUME NEW w \in AllWorkers, Requeue(w) PROVE OnlyAccepted'
  BY <1>13 DEF Requeue, history, Finish
<1>14. ASSUME NEW w \in AllWorkers, Reject(w) PROVE OnlyAccepted'
  BY <1>14 DEF Reject, history, Finish, DeadLetter, Moved
<1>15. ASSUME NEW w \in AllWorkers, WorkerExit(w) PROVE OnlyAccepted'
  BY <1>15 DEF WorkerExit, history
<1>16. CASE StartWorkers
  BY <1>16 DEF StartWorkers, history
<1>17. CASE ConnectionLost
  BY <1>17 DEF ConnectionLost, history
<1>18. CASE Shutdown
  BY <1>18 DEF Shutdown, history
<1>19. CASE Drained
  BY <1>19 DEF Drained, history, NewProcess
<1>20. CASE Killed
  BY <1>20 DEF Killed, history, NewProcess
<1> HIDE DEF IndInv, TypeOK, Copy, Busy, AllWorkers, OnlyAccepted
<1>21. QED
  BY <1>1, <1>2, <1>3, <1>4, <1>5, <1>6, <1>7, <1>8, <1>9, <1>10, <1>11, <1>12, <1>13, <1>14, <1>15, <1>16, <1>17, <1>18, <1>19, <1>20 DEF Next, WorkerStep

-----------------------------------------------------------------------------
(* The invariant holds in every reachable state *)

\* The empty broker satisfies the invariant.
LEMMA InitIndInv == Init => IndInv
<1> SUFFICES ASSUME Init PROVE IndInv
  OBVIOUS
<1> USE DEF Init, Busy
<1>1. TypeOK
  BY DEF TypeOK
<1>2. Delivery /\ Counting
  BY MaxRetriesAssumption
  DEF Delivery, UniqueIds, HeldStored, HeldOnce, Counting, DLQNeverRetries,
      CountedCopies, CountedJobs, RejectJustified, DeadLetterJustified, AllWorkers
<1>3. Keeping /\ OnlyAccepted
  BY DEF Keeping, AckJustified, DropRecorded, NoLoss, OnlyAccepted, AllWorkers
<1>4. QED
  BY <1>1, <1>2, <1>3 DEF IndInv

\* The inductive invariant is an invariant of the specification.
THEOREM Invariance == Spec => []IndInv
<1>1. IndInv /\ [Next]_vars => IndInv'
  BY TypeInductive, DeliveryInductive, CountingInductive, KeepingInductive,
     OnlyAcceptedInductive DEF IndInv
<1>2. QED
  BY <1>1, InitIndInv, PTL DEF Spec

\* Every variable keeps its type; no retry header exceeds QueueMaxRetries.
THEOREM TypeCorrect == Spec => []TypeOK
<1>1. IndInv => TypeOK
  BY DEF IndInv
<1>2. QED
  BY <1>1, Invariance, PTL

\* With publisher confirms, processMessage and publishRetry never lose a
\* message, for any number of workers, connection losses and crashes.
THEOREM MessagesNotLost == Spec => []NoLoss
<1>1. IndInv => NoLoss
  BY DEF IndInv, Keeping
<1>2. QED
  BY <1>1, Invariance, PTL

\* processMessage dead-letters a message only after more than QueueMaxRetries
\* failures or a panic.
THEOREM DeadLettersJustified == Spec => []DeadLetterJustified
<1>1. IndInv => DeadLetterJustified
  BY DEF IndInv, Counting
<1>2. QED
  BY <1>1, Invariance, PTL

-----------------------------------------------------------------------------
(* At most one successful run while nothing has failed *)

\* A copy whose processing is still to come or under way.
Pending(c) ==
  ~ \E w \in AllWorkers : live[w] /\ pc[w] = "ack" /\ job[w] = c

OnceInv ==
  faults = 0 =>
    /\ \A w \in AllWorkers : pc[w] \in Busy => live[w]
    /\ \A c, d \in broker : Pending(c) /\ Pending(d) /\ c.msg = d.msg => c = d
    /\ \A c \in broker : Pending(c) => oks[c.msg] = 0
    /\ \A m \in Msgs : oks[m] <= 1

\* Scheduling a retry replaces the pending copy of a message by another one.
LEMMA OnceInductive == IndInv /\ OnceInv /\ [Next]_vars => OnceInv'
<1> SUFFICES ASSUME IndInv, OnceInv, [Next]_vars PROVE OnceInv'
  OBVIOUS
<1> USE WorkersDisjoint, BoundsAssumption DEF IndInv, TypeOK, Copy, Busy, AllWorkers, OnceInv, Pending, Delivery, UniqueIds, HeldStored, HeldOnce, Home, OnlyAccepted
<1>1. CASE UNCHANGED vars
  BY <1>1 DEF vars, history
<1>2. ASSUME NEW m \in Msgs, Publish(m) PROVE OnceInv'
  <2> DEFINE n == [id |-> FreshId, msg |-> m, rc |-> 0, at |-> "main"]
  <2>1. broker' = broker \cup {n} /\ n.msg = m
    BY <1>2 DEF Publish
  <2>2. \A d \in broker : d.msg # m
    BY <1>2 DEF Publish
  <2>3. oks[m] = 0
    BY <1>2 DEF Publish
  <2>4. \A d : Pending(d)' <=> Pending(d)
    BY <1>2 DEF Publish
  <2>5. QED
    BY <1>2, <2>1, <2>2, <2>3, <2>4 DEF Publish
<1>3. ASSUME NEW c \in broker, Expire(c) PROVE OnceInv'
  BY <1>3 DEF Expire, history, Moved
<1>4. ASSUME NEW w \in AllWorkers, Take(w) PROVE OnceInv'
  BY <1>4 DEF Take, history
<1>5. ASSUME NEW w \in AllWorkers, HandlerOk(w) PROVE OnceInv'
  BY <1>5 DEF HandlerOk, history
<1>6. ASSUME NEW w \in AllWorkers, HandlerErr(w) PROVE OnceInv'
  BY <1>6 DEF HandlerErr, history, AfterError
<1>7. ASSUME NEW w \in AllWorkers, HandlerPanic(w) PROVE OnceInv'
  BY <1>7 DEF HandlerPanic, history
<1>8. ASSUME NEW w \in AllWorkers, PublishStored(w) PROVE OnceInv'
  <2> DEFINE r == RetryCopy(job[w])
  <2>1. broker' = broker \cup {r} /\ r.msg = job[w].msg
    BY <1>8 DEF PublishStored, RetryCopy
  <2>2. job[w] \in broker /\ Pending(job[w])
    BY <1>8 DEF PublishStored
  <2>3. \A d \in broker : Pending(d)' => Pending(d)
    BY <1>8 DEF PublishStored
  <2>4. \A d \in broker : Pending(d)' /\ faults = 0 => d.msg # job[w].msg
    <3> SUFFICES ASSUME NEW d \in broker, Pending(d)', faults = 0,
                        d.msg = job[w].msg
                 PROVE  FALSE
      OBVIOUS
    <3> HIDE DEF Pending
    <3>1. Pending(d)
      BY <2>3
    <3>2. d = job[w]
      BY <2>2, <3>1
    <3>3. QED
      BY <1>8, <3>2 DEF PublishStored, Pending
  <2>5. \A c, d \in broker' :
          faults = 0 /\ Pending(c)' /\ Pending(d)' /\ c.msg = d.msg => c = d
    BY <2>1, <2>3, <2>4
  <2>6. \A c \in broker' : faults = 0 /\ Pending(c)' => oks[c.msg] = 0
    BY <2>1, <2>2, <2>3
  <2>7. QED
    BY <1>8, <2>5, <2>6 DEF PublishStored, history
<1>9. ASSUME NEW w \in AllWorkers, PublishUnconfirmed(w) PROVE OnceInv'
  BY <1>9 DEF PublishUnconfirmed, history, RetryCopy, FreeIds, FreshId
<1>10. ASSUME NEW w \in AllWorkers, PublishLost(w) PROVE OnceInv'
  BY <1>10 DEF PublishLost, history
<1>11. ASSUME NEW w \in AllWorkers, PublishFailed(w) PROVE OnceInv'
  BY <1>11 DEF PublishFailed, history
<1>12. ASSUME NEW w \in AllWorkers, Ack(w) PROVE OnceInv'
  BY <1>12 DEF Ack, history, Finish
<1>13. ASSUME NEW w \in AllWorkers, Requeue(w) PROVE OnceInv'
  BY <1>13 DEF Requeue, history, Finish
<1>14. ASSUME NEW w \in AllWorkers, Reject(w) PROVE OnceInv'
  BY <1>14 DEF Reject, history, Finish, DeadLetter, Moved
<1>15. ASSUME NEW w \in AllWorkers, WorkerExit(w) PROVE OnceInv'
  BY <1>15 DEF WorkerExit, history
<1>16. CASE StartWorkers
  BY <1>16 DEF StartWorkers, history
<1>17. CASE ConnectionLost
  BY <1>17 DEF ConnectionLost, history
<1>18. CASE Shutdown
  BY <1>18 DEF Shutdown, history
<1>19. CASE Drained
  BY <1>19 DEF Drained, history, NewProcess
<1>20. CASE Killed
  BY <1>20 DEF Killed, history, NewProcess
<1> HIDE DEF IndInv, TypeOK, Copy, Busy, AllWorkers, OnceInv, Pending, Delivery, UniqueIds, HeldStored, HeldOnce, Home, OnlyAccepted
<1>21. QED
  BY <1>1, <1>2, <1>3, <1>4, <1>5, <1>6, <1>7, <1>8, <1>9, <1>10, <1>11, <1>12, <1>13, <1>14, <1>15, <1>16, <1>17, <1>18, <1>19, <1>20 DEF Next, WorkerStep

\* While nothing has failed, no message is handled successfully twice.
THEOREM OnceWithoutFaultsHolds == Spec => []OnceWithoutFaults
<1>1. Init => OnceInv
  BY DEF Init, OnceInv, Busy
<1>2. IndInv /\ OnceInv /\ [Next]_vars => OnceInv'
  BY OnceInductive
<1>3. OnceInv => OnceWithoutFaults
  BY DEF OnceInv, OnceWithoutFaults
<1>4. QED
  BY <1>1, <1>2, <1>3, Invariance, PTL DEF Spec

-----------------------------------------------------------------------------
(* Refinement of AtLeastOnceQueue *)

\* Adding a copy of a message the broker already has changes nothing abstract.
LEMMA OwedExtended ==
  ASSUME NEW c, c.msg \in Owed, broker' = broker \cup {c}
  PROVE  Owed' = Owed
BY DEF Owed

\* Dead-lettering a copy changes nothing abstract.
LEMMA OwedMoved ==
  ASSUME NEW c \in broker, NEW queue,
         broker' = (broker \ {c}) \cup {Moved(c, queue)}
  PROVE  Owed' = Owed
<1>1. Moved(c, queue).msg = c.msg
  BY DEF Moved
<1>2. QED
  BY <1>1 DEF Owed

\* Removing a copy changes what is owed by at most its message.
LEMMA OwedReduced ==
  ASSUME NEW c \in broker, broker' = broker \ {c}
  PROVE  Owed' = Owed \/ Owed' = Owed \ {c.msg}
BY DEF Owed

\* Every step of the worker pool is an abstract step or invisible.
LEMMA StepRefines ==
  ASSUME PublishConfirm, IndInv, [Next]_vars
  PROVE  [Abstract!Next]_(Abstract!vars)
<1> DEFINE Invisible == Owed' = Owed /\ Concluded' = Concluded /\ accepted' = accepted
           Refined == Invisible \/ Abstract!Next
<1> USE DEF IndInv, TypeOK
<1>1. ASSUME UNCHANGED vars PROVE Refined
  BY <1>1 DEF vars, history, Owed, Concluded
<1>2. ASSUME NEW m \in Msgs, Publish(m) PROVE Refined
  <2> DEFINE n == [id |-> FreshId, msg |-> m, rc |-> 0, at |-> "main"]
  <2>1. broker' = broker \cup {n} /\ n.msg = m
    BY <1>2 DEF Publish
  <2>2. Owed' = Owed \cup {m}
    BY <2>1 DEF Owed
  <2>3. Abstract!Accept(m)
    BY <1>2, <2>2 DEF Abstract!Accept, Publish, Concluded
  <2>4. QED
    BY <2>3 DEF Abstract!Next
<1>3. ASSUME NEW c \in broker, Expire(c) PROVE Refined
  BY <1>3, OwedMoved DEF Expire, Concluded, history
<1>4. ASSUME NEW w \in AllWorkers, HandlerOk(w) PROVE Refined
  <2>1. job[w].msg \in accepted /\ job[w].msg \in Msgs
    BY <1>4 DEF HandlerOk, OnlyAccepted, Busy
  <2>2. Concluded' = Concluded \cup {job[w].msg}
    BY <1>4, <2>1 DEF HandlerOk, Concluded
  <2>3. Abstract!Conclude(job[w].msg)
    BY <1>4, <2>1, <2>2 DEF Abstract!Conclude, HandlerOk, Owed
  <2>4. QED
    BY <2>1, <2>3 DEF Abstract!Next
<1>5. ASSUME NEW w \in AllWorkers, HandlerPanic(w) PROVE Refined
  <2>1. job[w].msg \in accepted /\ job[w].msg \in Msgs
    BY <1>5 DEF HandlerPanic, OnlyAccepted, Busy
  <2>2. CASE Home(w) = "main"
    BY <1>5, <2>2 DEF HandlerPanic, Owed, Concluded
  <2>3. CASE Home(w) = "dlq"
    <3>1. Concluded' = Concluded \cup {job[w].msg}
      BY <1>5, <2>3 DEF HandlerPanic, Concluded
    <3>2. Abstract!Conclude(job[w].msg)
      BY <1>5, <2>1, <3>1 DEF Abstract!Conclude, HandlerPanic, Owed
    <3>3. QED
      BY <2>1, <3>2 DEF Abstract!Next
  <2>4. QED
    BY <2>2, <2>3 DEF Home
<1>6. ASSUME NEW w \in AllWorkers, PublishStored(w) \/ PublishUnconfirmed(w) PROVE Refined
  <2>1. job[w] \in broker
    BY <1>6 DEF PublishStored, PublishUnconfirmed, Delivery, HeldStored, Busy
  <2>2. RetryCopy(job[w]).msg \in Owed
    BY <2>1 DEF RetryCopy, Owed
  <2>3. QED
    BY <1>6, <2>2, OwedExtended
    DEF PublishStored, PublishUnconfirmed, Concluded, history
<1>7. ASSUME NEW w \in AllWorkers, Ack(w) PROVE Refined
  <2>1. Concluded' = Concluded /\ accepted' = accepted
    BY <1>7 DEF Ack, Finish, Concluded, history
  <2>2. CASE ~ live[w]
    BY <1>7, <2>1, <2>2 DEF Ack, Owed
  <2>3. CASE live[w]
    <3>1. job[w] \in broker /\ job[w] \in Copy /\ broker' = broker \ {job[w]}
      BY <1>7, <2>3 DEF Ack, Delivery, HeldStored, Busy
    <3>2. CASE job[w].msg \in Concluded
      BY <2>1, <3>1, <3>2, OwedReduced DEF Abstract!Next, Abstract!Release, Owed, Copy
    <3>3. CASE \E c \in broker : c.msg = job[w].msg /\ c.rc > job[w].rc
      <4>1. PICK c \in broker : c.msg = job[w].msg /\ c.rc > job[w].rc
        BY <3>3
      <4>2. c # job[w]
        BY <3>1, <4>1, MaxRetriesAssumption DEF Copy
      <4>3. Owed' = Owed
        BY <3>1, <4>1, <4>2 DEF Owed
      <4>4. QED
        BY <2>1, <4>3
    <3>4. QED
      BY <1>7, <2>3, <3>2, <3>3 DEF Ack, Keeping, AckJustified
  <2>4. QED
    BY <2>2, <2>3
<1>8. ASSUME NEW w \in AllWorkers, Reject(w) PROVE Refined
  <2>1. Concluded' = Concluded /\ accepted' = accepted
    BY <1>8 DEF Reject, Finish, Concluded, history
  <2>2. CASE ~ live[w]
    BY <1>8, <2>1, <2>2 DEF Reject, Owed
  <2>3. CASE live[w]
    <3>1. job[w] \in broker /\ job[w] \in Copy /\ job[w].at = Home(w)
      BY <1>8, <2>3 DEF Reject, Delivery, HeldStored, Busy
    <3>2. CASE Home(w) = "main"
      BY <1>8, <2>1, <2>3, <3>1, <3>2, OwedMoved DEF Reject, DeadLetter
    <3>3. CASE w \in DLQWorkers
      <4>1. broker' = broker \ {job[w]} /\ job[w].msg \in Concluded
        BY <1>8, <2>3, <3>1, <3>3 DEF Reject, DeadLetter, Home, Keeping, DropRecorded
      <4>2. QED
        BY <2>1, <3>1, <4>1, OwedReduced DEF Abstract!Next, Abstract!Release, Owed, Copy
    <3>4. QED
      BY <3>2, <3>3 DEF Home
  <2>4. QED
    BY <2>2, <2>3
<1>9. ASSUME NEW w \in AllWorkers, PublishLost(w) PROVE Refined
  BY <1>9 DEF PublishLost, Owed, Concluded, history
<1>10. ASSUME NEW w \in AllWorkers, PublishFailed(w) PROVE Refined
  BY <1>10 DEF PublishFailed, Owed, Concluded, history
<1>11. ASSUME NEW w \in AllWorkers, Requeue(w) PROVE Refined
  BY <1>11 DEF Requeue, Owed, Concluded, history, Finish
<1>12. ASSUME NEW w \in AllWorkers, WorkerExit(w) PROVE Refined
  BY <1>12 DEF WorkerExit, Owed, Concluded, history
<1>13. ASSUME NEW w \in AllWorkers, Take(w) PROVE Refined
  BY <1>13 DEF Take, Owed, Concluded, history
<1>14. ASSUME NEW w \in AllWorkers, HandlerErr(w) PROVE Refined
  BY <1>14 DEF HandlerErr, Owed, Concluded, history
<1>15. ASSUME StartWorkers PROVE Refined
  BY <1>15 DEF StartWorkers, Owed, Concluded, history
<1>16. ASSUME ConnectionLost PROVE Refined
  BY <1>16 DEF ConnectionLost, Owed, Concluded, history
<1>17. ASSUME Shutdown PROVE Refined
  BY <1>17 DEF Shutdown, Owed, Concluded, history
<1>18. ASSUME Drained PROVE Refined
  BY <1>18 DEF Drained, Owed, Concluded, history, NewProcess
<1>19. ASSUME Killed PROVE Refined
  BY <1>19 DEF Killed, Owed, Concluded, history, NewProcess
<1>20. QED
  <2>1. Refined
    BY <1>1, <1>2, <1>3, <1>4, <1>5, <1>6, <1>7, <1>8, <1>9, <1>10, <1>11, <1>12, <1>13, <1>14, <1>15, <1>16, <1>17, <1>18, <1>19 DEF Next, WorkerStep
  <2>2. QED
    BY <2>1 DEF Abstract!vars

\* With publisher confirms on, the worker pool implements AtLeastOnceQueue.
THEOREM Refinement == PublishConfirm => (Spec => ImplementsAtLeastOnce)
<1> SUFFICES ASSUME PublishConfirm PROVE Spec => ImplementsAtLeastOnce
  OBVIOUS
<1>1. Init => Abstract!Init
  BY DEF Init, Abstract!Init, Owed, Concluded
<1>2. IndInv /\ [Next]_vars => [Abstract!Next]_(Abstract!vars)
  BY StepRefines
<1>3. QED
  BY <1>1, <1>2, Invariance, PTL DEF Spec, ImplementsAtLeastOnce, Abstract!Spec
=============================================================================
