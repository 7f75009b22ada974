------------------------------ MODULE WorkerPool ------------------------------
(***************************************************************************)
(* One RabbitMQ work queue of pkg/queue with its retry queues, its dead-   *)
(* letter queue, and the worker groups that consume the main queue and the *)
(* dead-letter queue (worker_pool.go).                                     *)
(*                                                                         *)
(* The broker is a set of copies; a copy is unacknowledged while a worker  *)
(* whose connection is alive holds it.  Losing the connection makes every  *)
(* held copy deliverable again while the goroutine that was processing it  *)
(* runs on with a dead delivery, which is where duplicates come from.      *)
(* The delay a retry spends in its tier queue is left to RetryQueues.      *)
(***************************************************************************)
EXTENDS Naturals, FiniteSets

CONSTANTS Msgs,           \* message bodies, as published by producers
          CopyIds,        \* bound: copies the broker may hold at once
          Workers,        \* goroutine slots for the main queue's group
          DLQWorkers,     \* goroutine slots for the dead-letter queue's group
          GroupSize,      \* config.Worker...: workers started for the main queue
          MaxRetries,     \* config.QueueMaxRetries
          PublishConfirm, \* config.RabbitMQPublishConfirm
          MaxFaults,      \* bound: connection losses, crashes, failed publishes
          MaxStops,       \* bound: graceful shutdowns
          NoCopy          \* the value of job[w] when w holds no delivery

ASSUME MaxRetriesAssumption == MaxRetries \in Nat
ASSUME ConfirmAssumption == PublishConfirm \in BOOLEAN
ASSUME BoundsAssumption == MaxFaults \in Nat /\ MaxStops \in Nat
ASSUME WorkersDisjoint == Workers \cap DLQWorkers = {}

Copy == [id : CopyIds, msg : Msgs, rc : 0..MaxRetries,
         at : {"main", "retry", "dlq"}]

ASSUME NoCopyAssumption == NoCopy \notin Copy

VARIABLES
  broker,    \* copies stored by RabbitMQ, unacknowledged ones included
  pc,        \* where each worker goroutine is
  job,       \* the delivery each worker is processing
  live,      \* whether the worker's AMQP channel is still open
  stopping,  \* the group's stopChan has been closed by a graceful shutdown
  faults,    \* faults so far
  stops,     \* graceful shutdowns so far
  accepted,  \* messages ever stored by the broker
  oks,       \* successful handler runs per message
  fails,     \* failed handler runs per message
  panicked,  \* messages on which the main handler panicked
  buried,    \* messages the dead-letter handler finished
  dropped    \* messages on which the dead-letter handler panicked

history == <<accepted, oks, fails, panicked, buried, dropped>>
vars == <<broker, pc, job, live, stopping, faults, stops, history>>

AllWorkers == Workers \cup DLQWorkers
Busy == {"handle", "publish", "ack", "requeue", "reject"}

\* The queue a worker's group consumes.
Home(w) == IF w \in DLQWorkers THEN "dlq" ELSE "main"

\* A delivery the broker counts as unacknowledged.
Unacked(c) == \E w \in AllWorkers : live[w] /\ pc[w] \in Busy /\ job[w].id = c.id

FreeIds == CopyIds \ {c.id : c \in broker}
FreshId == CHOOSE i \in CopyIds : i \in FreeIds

\* The same message, dead-lettered by the broker into another queue.
Moved(c, queue) == [id |-> c.id, msg |-> c.msg, rc |-> c.rc, at |-> queue]

\* Messages for which some handler run has been the end of the story.
Concluded == {m \in Msgs : oks[m] > 0} \cup buried \cup dropped
Owed == {c.msg : c \in broker}

Init ==
  /\ broker = {}
  /\ pc = [w \in AllWorkers |-> "off"]
  /\ job = [w \in AllWorkers |-> NoCopy]
  /\ live = [w \in AllWorkers |-> FALSE]
  /\ stopping = FALSE
  /\ faults = 0 /\ stops = 0
  /\ accepted = {} /\ panicked = {} /\ buried = {} /\ dropped = {}
  /\ oks = [m \in Msgs |-> 0]
  /\ fails = [m \in Msgs |-> 0]

-----------------------------------------------------------------------------
(* Producers and the broker *)

\* A producer's publish reaches the main queue (RabbitMQQueue.publish).
Publish(m) ==
  /\ m \notin accepted
  /\ FreeIds # {}
  /\ accepted' = accepted \cup {m}
  /\ broker' = broker \cup {[id |-> FreshId, msg |-> m, rc |-> 0, at |-> "main"]}
  /\ UNCHANGED <<pc, job, live, stopping, faults, stops,
                 oks, fails, panicked, buried, dropped>>

\* A retry queue's TTL runs out and the copy is dead-lettered to the main queue.
Expire(c) ==
  /\ c.at = "retry"
  /\ broker' = (broker \ {c}) \cup {Moved(c, "main")}
  /\ UNCHANGED <<pc, job, live, stopping, faults, stops, history>>

-----------------------------------------------------------------------------
(* WorkerGroup.worker and WorkerGroup.processMessage *)

\* The worker loop receives a delivery.  A closed stopChan does not prevent
\* it: select picks either ready case.
Take(w) ==
  /\ pc[w] = "idle" /\ live[w]
  /\ \E c \in broker :
       /\ c.at = Home(w)
       /\ ~ Unacked(c)
       /\ job' = [job EXCEPT ![w] = c]
  /\ pc' = [pc EXCEPT ![w] = "handle"]
  /\ UNCHANGED <<broker, live, stopping, faults, stops, history>>

HandlerOk(w) ==
  /\ pc[w] = "handle"
  /\ pc' = [pc EXCEPT ![w] = "ack"]
  /\ \/ /\ Home(w) = "main"
        /\ oks' = [oks EXCEPT ![job[w].msg] = @ + 1]
        /\ UNCHANGED buried
     \/ /\ Home(w) = "dlq"
        /\ buried' = buried \cup {job[w].msg}
        /\ UNCHANGED oks
  /\ UNCHANGED <<broker, job, live, stopping, faults, stops,
                 accepted, fails, panicked, dropped>>

\* Seeded defects: the retry limit off by one in either direction, and a
\* delivery that is acknowledged instead of dead-lettered.
AfterErrorDrops(rc) == IF rc >= MaxRetries THEN "ack" ELSE "publish"
AfterErrorOneMore(rc) == IF rc > MaxRetries THEN "reject" ELSE "publish"
AfterErrorOneLess(rc) == IF rc + 1 >= MaxRetries THEN "reject" ELSE "publish"

\* The step an error leads to: a retry, or the dead-letter queue once the
\* delivery has used up its retries.
AfterError(rc) == IF rc >= MaxRetries THEN "reject" ELSE "publish"

\* The handler returned an error, a RateLimitError included.  Only main-queue
\* handlers do: DLQHandler.Handle always returns nil.
HandlerErr(w) ==
  /\ pc[w] = "handle" /\ Home(w) = "main"
  /\ pc' = [pc EXCEPT ![w] = AfterError(job[w].rc)]
  /\ fails' = [fails EXCEPT ![job[w].msg] = @ + 1]
  /\ UNCHANGED <<broker, job, live, stopping, faults, stops,
                 accepted, oks, panicked, buried, dropped>>

\* The deferred recover of processMessage: Nack without requeue.
HandlerPanic(w) ==
  /\ pc[w] = "handle"
  /\ pc' = [pc EXCEPT ![w] = "reject"]
  /\ \/ /\ Home(w) = "main"
        /\ panicked' = panicked \cup {job[w].msg}
        /\ UNCHANGED dropped
     \/ /\ Home(w) = "dlq"
        /\ dropped' = dropped \cup {job[w].msg}
        /\ UNCHANGED panicked
  /\ UNCHANGED <<broker, job, live, stopping, faults, stops,
                 accepted, oks, fails, buried>>

-----------------------------------------------------------------------------
(* WorkerGroup.publishRetry *)

\* The copy publishRetry sends: same body, incremented retry header.
RetryCopy(c) == [id |-> FreshId, msg |-> c.msg, rc |-> c.rc + 1, at |-> "retry"]

\* Seeded defect: the original is requeued although the retry is scheduled.
PublishStoredRequeues(w) ==
  /\ pc[w] = "publish" /\ live[w]
  /\ FreeIds # {}
  /\ broker' = broker \cup {RetryCopy(job[w])}
  /\ pc' = [pc EXCEPT ![w] = "requeue"]
  /\ UNCHANGED <<job, live, stopping, faults, stops, history>>

\* The broker stored the retry and publishRetry returned nil.
PublishStored(w) ==
  /\ pc[w] = "publish" /\ live[w]
  /\ FreeIds # {}
  /\ broker' = broker \cup {RetryCopy(job[w])}
  /\ pc' = [pc EXCEPT ![w] = "ack"]
  /\ UNCHANGED <<job, live, stopping, faults, stops, history>>

\* The broker stored the retry but the confirmation did not arrive in time, so
\* publishRetry returned an error and the original is requeued as well.
PublishUnconfirmed(w) ==
  /\ PublishConfirm
  /\ pc[w] = "publish" /\ live[w] /\ faults < MaxFaults
  /\ FreeIds # {}
  /\ broker' = broker \cup {RetryCopy(job[w])}
  /\ pc' = [pc EXCEPT ![w] = "requeue"]
  /\ faults' = faults + 1
  /\ UNCHANGED <<job, live, stopping, stops, history>>

\* The broker never stores the retry.  With publisher confirms publishRetry sees
\* a nack or a timeout and the original is requeued; without them Publish
\* returned nil and the original is acknowledged.
PublishLost(w) ==
  /\ pc[w] = "publish" /\ live[w] /\ faults < MaxFaults
  /\ pc' = [pc EXCEPT ![w] = IF PublishConfirm THEN "requeue" ELSE "ack"]
  /\ faults' = faults + 1
  /\ UNCHANGED <<broker, job, live, stopping, stops, history>>

\* Seeded defect: the error of publishRetry is ignored and the original acked.
PublishErrorIgnored(w) ==
  /\ pc[w] = "publish"
  /\ \/ ~ live[w] /\ UNCHANGED faults
     \/ live[w] /\ faults < MaxFaults /\ faults' = faults + 1
  /\ pc' = [pc EXCEPT ![w] = "ack"]
  /\ UNCHANGED <<broker, job, live, stopping, stops, history>>

\* The publish call failed and nothing was stored.  A worker whose connection is
\* gone has no other outcome.
PublishFailed(w) ==
  /\ pc[w] = "publish"
  /\ \/ ~ live[w] /\ UNCHANGED faults
     \/ live[w] /\ faults < MaxFaults /\ faults' = faults + 1
  /\ pc' = [pc EXCEPT ![w] = "requeue"]
  /\ UNCHANGED <<broker, job, live, stopping, stops, history>>

-----------------------------------------------------------------------------
(* The broker's side of Ack and Nack.  On a dead channel they fail, the    *)
(* error is logged and nothing else happens.                               *)

Finish(w) ==
  /\ pc' = [pc EXCEPT ![w] = "idle"]
  /\ job' = [job EXCEPT ![w] = NoCopy]
  /\ UNCHANGED <<live, stopping, faults, stops, history>>

Ack(w) ==
  /\ pc[w] = "ack"
  /\ broker' = IF live[w] THEN broker \ {job[w]} ELSE broker
  /\ Finish(w)

Requeue(w) ==
  /\ pc[w] = "requeue"
  /\ Finish(w)
  /\ UNCHANGED broker

\* Seeded defects: a main queue declared without its dead-letter exchange, and
\* a dead-letter queue declared with it too.
DeadLetterNowhere(c) == {}
DeadLetterAgain(c) == {Moved(c, "dlq")}

\* The main queue dead-letters to the DLQ, which has no dead-letter target.
DeadLetter(c) == IF c.at = "main" THEN {Moved(c, "dlq")} ELSE {}

Reject(w) ==
  /\ pc[w] = "reject"
  /\ broker' = IF live[w] THEN (broker \ {job[w]}) \cup DeadLetter(job[w])
               ELSE broker
  /\ Finish(w)

-----------------------------------------------------------------------------
(* Connection, shutdown and process life cycle *)

\* startConsumers: a fresh worker pool on fresh channels.  Workers of an older
\* pool may still be running a handler.
StartWorkers ==
  /\ ~ stopping
  /\ \A w \in AllWorkers : ~ live[w]
  /\ \E S \in SUBSET Workers, d \in DLQWorkers :
       LET started == S \cup {d} IN
       /\ Cardinality(S) = GroupSize
       /\ \A w \in started : pc[w] = "off"
       /\ pc' = [w \in AllWorkers |-> IF w \in started THEN "idle" ELSE pc[w]]
       /\ live' = [w \in AllWorkers |-> w \in started]
  /\ UNCHANGED <<broker, job, stopping, faults, stops, history>>

\* The worker loop returns: stopChan closed or delivery channel closed.
WorkerExit(w) ==
  /\ pc[w] = "idle"
  /\ stopping \/ ~ live[w]
  /\ pc' = [pc EXCEPT ![w] = "off"]
  /\ live' = [live EXCEPT ![w] = FALSE]
  /\ UNCHANGED <<broker, job, stopping, faults, stops, history>>

\* The broker connection dies: every unacknowledged copy is deliverable again.
ConnectionLost ==
  /\ faults < MaxFaults
  /\ \E w \in AllWorkers : live[w]
  /\ live' = [w \in AllWorkers |-> FALSE]
  /\ faults' = faults + 1
  /\ UNCHANGED <<broker, pc, job, stopping, stops, history>>

\* WorkerPool.Shutdown closes every group's stopChan and waits.
Shutdown ==
  /\ ~ stopping /\ stops < MaxStops
  /\ stopping' = TRUE
  /\ stops' = stops + 1
  /\ UNCHANGED <<broker, pc, job, live, faults, history>>

NewProcess ==
  /\ pc' = [w \in AllWorkers |-> "off"]
  /\ job' = [w \in AllWorkers |-> NoCopy]
  /\ live' = [w \in AllWorkers |-> FALSE]
  /\ stopping' = FALSE
  /\ UNCHANGED <<broker, stops, history>>

\* The process ends after a shutdown that drained every worker.
Drained ==
  /\ stopping
  /\ \A w \in AllWorkers : pc[w] = "off"
  /\ NewProcess
  /\ UNCHANGED faults

\* The process ends with workers still running: a crash, or a shutdown whose
\* timeout passed.
Killed ==
  /\ faults < MaxFaults
  /\ \E w \in AllWorkers : pc[w] # "off"
  /\ NewProcess
  /\ faults' = faults + 1

WorkerStep(w) ==
  \/ Take(w) \/ HandlerOk(w) \/ HandlerErr(w) \/ HandlerPanic(w)
  \/ PublishStored(w) \/ PublishUnconfirmed(w) \/ PublishLost(w) \/ PublishFailed(w)
  \/ Ack(w) \/ Requeue(w) \/ Reject(w) \/ WorkerExit(w)

Next ==
  \/ \E m \in Msgs : Publish(m)
  \/ \E c \in broker : Expire(c)
  \/ \E w \in AllWorkers : WorkerStep(w)
  \/ StartWorkers \/ ConnectionLost \/ Shutdown \/ Drained \/ Killed

Spec == Init /\ [][Next]_vars

-----------------------------------------------------------------------------
(* Properties *)

\* Every variable keeps its type: in particular no copy carries a retry count
\* above QueueMaxRetries, although processMessage increments it blindly.
TypeOK ==
  /\ broker \subseteq Copy
  /\ pc \in [AllWorkers -> {"off", "idle"} \cup Busy]
  /\ job \in [AllWorkers -> Copy \cup {NoCopy}]
  /\ \A w \in AllWorkers : pc[w] \in Busy => job[w] \in Copy
  /\ live \in [AllWorkers -> BOOLEAN]
  /\ stopping \in BOOLEAN
  /\ faults \in Nat /\ stops \in Nat
  /\ accepted \subseteq Msgs /\ panicked \subseteq Msgs
  /\ buried \subseteq Msgs /\ dropped \subseteq Msgs
  /\ oks \in [Msgs -> Nat] /\ fails \in [Msgs -> Nat]

\* With publisher confirms on, an accepted message is never lost: until some
\* handler run concludes it, the broker has a copy of it, whatever connections,
\* processes and publishes fail in between.
NoLoss == PublishConfirm => accepted \subseteq Owed \cup Concluded

\* A message reaches the dead-letter queue only when its handler has failed
\* more than QueueMaxRetries times or has panicked: neither a requeue nor a
\* redelivery uses up a retry.
DeadLetterJustified ==
  \A c \in broker :
    c.at = "dlq" => c.msg \in panicked \/ fails[c.msg] > MaxRetries

\* Two copies of a message exist for a moment each time a retry is scheduled
\* (publish first, ack second), yet as long as nothing fails a message is
\* handled successfully at most once, graceful shutdowns included.
OnceWithoutFaults == faults = 0 => \A m \in Msgs : oks[m] <= 1

\* The queue package keeps the promise of AtLeastOnceQueue.
Abstract == INSTANCE AtLeastOnceQueue
              WITH owed <- Owed, concluded <- Concluded

ImplementsAtLeastOnce == Abstract!Spec
=============================================================================
