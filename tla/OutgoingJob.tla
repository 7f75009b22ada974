------------------------------ MODULE OutgoingJob ------------------------------
(***************************************************************************)
(* The life of a send request in queue mode: the HTTP goroutine            *)
(* (WhatsappMessageUsecase.SendTextMessage and its siblings), the worker   *)
(* that runs OutgoingMessageHandler.Handle, the row of message_jobs, the   *)
(* deduplication cache, the status events and the dead-letter handler.     *)
(*                                                                         *)
(* The module composes with WorkerPool: every step here is a step of       *)
(* WorkerPool joined with its effect on the job, or leaves the queue       *)
(* alone, so what holds of WorkerPool holds here.  A message of WorkerPool *)
(* is a job.                                                               *)
(***************************************************************************)
EXTENDS WorkerPool

CONSTANT Hiccups   \* failures a run admits besides WorkerPool's faults:
                   \* "db" (a SQL statement fails), "reply" (WhatsApp took the
                   \* message but Send reports an error), "confirm" (the broker
                   \* took the job but the publish reports an error), "lost"
                   \* (without confirms, the other way round)

ASSUME HiccupsAssumption == Hiccups \subseteq {"db", "reply", "confirm", "lost"}

VARIABLES
  req,        \* where the HTTP goroutine of each job is
  step,       \* where the handler run of each worker is
  row,        \* status in message_jobs
  processed,  \* DedupCache: jobs marked processed in this process
  waSends,    \* how often WhatsApp took the message
  told,       \* status events delivered to the client
  mute,       \* jobs whose dead-letter notification was not delivered
  doubts      \* per job: deliveries handed out again, answers that were lost

queue == vars
jobVars == <<req, step, row, processed, waSends, told, mute, doubts>>
allVars == <<vars, jobVars>>

RequestEnds == {"queued", "sent", "error", "gone"}
Steps == {"none", "dedup", "pace", "mark", "send", "sentRow", "sentMark",
          "sentHook", "failRow", "failHook", "notify"}
Statuses == {"none", "queued", "processing", "completed", "failed"}

JobInit ==
  /\ Init
  /\ req = [m \in Msgs |-> "new"]
  /\ step = [w \in AllWorkers |-> "none"]
  /\ row = [m \in Msgs |-> "none"]
  /\ processed = {} /\ mute = {}
  /\ waSends = [m \in Msgs |-> 0]
  /\ told = [m \in Msgs |-> {}]
  /\ doubts = [m \in Msgs |-> 0]

-----------------------------------------------------------------------------
(* Shared pieces *)

Request(m, from, to) == req[m] = from /\ req' = [req EXCEPT ![m] = to]
Handler(w, from, to) == step[w] = from /\ step' = [step EXCEPT ![w] = to]

\* JobRepository.UpdateStatus: an UPDATE, which leaves a missing row missing.
UpdateStatus(m, status) ==
  \/ row' = [row EXCEPT ![m] = IF @ = "none" THEN @ ELSE status]
  \/ "db" \in Hiccups /\ UNCHANGED row

\* A status event is delivered, or is not: no subscription, a disabled family,
\* an unknown JID or a failing receiver only get logged.
Tell(m, event) == told' = told \/ told' = [told EXCEPT ![m] = @ \cup {event}]

SendReaches(m) == waSends' = [waSends EXCEPT ![m] = @ + 1]
Doubt(m) == doubts' = [doubts EXCEPT ![m] = @ + 1]

-----------------------------------------------------------------------------
(* WhatsappMessageUsecase.SendTextMessage *)

\* Seeded defect: the branch of a successful publish falls through.
EnqueueThenDirect(m) ==
  /\ Request(m, "new", "direct")
  /\ Publish(m)
  /\ UNCHANGED <<step, row, processed, waSends, told, mute, doubts>>

Enqueue(m) ==
  /\ Request(m, "new", "create")
  /\ Publish(m)
  /\ UNCHANGED <<step, row, processed, waSends, told, mute, doubts>>

\* The broker stored the job, the publish reports an error (a confirmation that
\* did not arrive in time) and the request falls back to a direct send.
EnqueueUnconfirmed(m) ==
  /\ "confirm" \in Hiccups /\ PublishConfirm
  /\ Request(m, "new", "direct")
  /\ Publish(m)
  /\ Doubt(m)
  /\ UNCHANGED <<step, row, processed, waSends, told, mute>>

\* Without publisher confirms a publish returns nil although the broker never
\* stores the job; the request goes on as if it were queued.
EnqueueLost(m) ==
  /\ "lost" \in Hiccups /\ ~PublishConfirm
  /\ Request(m, "new", "create")
  /\ UNCHANGED <<queue, step, row, processed, waSends, told, mute, doubts>>

\* No queue, an unhealthy one, or a publish that stored nothing and said so.
NotEnqueued(m) ==
  /\ Request(m, "new", "direct")
  /\ UNCHANGED <<queue, step, row, processed, waSends, told, mute, doubts>>

\* jobRepo.Create, after the publish; an error is logged.
CreateRow(m) ==
  /\ Request(m, "create", "hook")
  /\ \/ row' = [row EXCEPT ![m] = "queued"]
     \/ "db" \in Hiccups /\ UNCHANGED row
  /\ UNCHANGED <<queue, step, processed, waSends, told, mute, doubts>>

\* sendQueuedWebhook.  GetJIDFromPhoneNumber panics for a client without a
\* device id; the recover middleware turns that into a 500.
QueuedHook(m) ==
  /\ \/ Request(m, "hook", "queued") /\ Tell(m, "queued")
     \/ Request(m, "hook", "error") /\ UNCHANGED told
  /\ UNCHANGED <<queue, step, row, processed, waSends, mute, doubts>>

DirectPaced(m) ==
  /\ Request(m, "direct", "send") \/ Request(m, "direct", "error")
  /\ UNCHANGED <<queue, step, row, processed, waSends, told, mute, doubts>>

DirectSend(m) ==
  /\ \/ Request(m, "send", "sentHook") /\ SendReaches(m) /\ UNCHANGED doubts
     \/ Request(m, "send", "failHook") /\ UNCHANGED <<waSends, doubts>>
     \/ /\ "reply" \in Hiccups
        /\ Request(m, "send", "failHook") /\ SendReaches(m) /\ Doubt(m)
  /\ UNCHANGED <<queue, step, row, processed, told, mute>>

\* sendDirectSentWebhook and sendDirectFailedWebhook; a panic answers 500.
DirectHook(m) ==
  /\ \/ Request(m, "sentHook", "sent") /\ Tell(m, "sent")
     \/ Request(m, "sentHook", "error") /\ UNCHANGED told
     \/ Request(m, "failHook", "error") /\ Tell(m, "failed")
  /\ UNCHANGED <<queue, step, row, processed, waSends, mute, doubts>>

RequestStep(m) ==
  \/ Enqueue(m) \/ EnqueueUnconfirmed(m) \/ EnqueueLost(m) \/ NotEnqueued(m)
  \/ CreateRow(m) \/ QueuedHook(m)
  \/ DirectPaced(m) \/ DirectSend(m) \/ DirectHook(m)

-----------------------------------------------------------------------------
(* OutgoingMessageHandler.Handle and DLQHandler.Handle *)

TakeJob(w) ==
  /\ Take(w)
  /\ Handler(w, "none", IF Home(w) = "main" THEN "dedup" ELSE "notify")
  /\ UNCHANGED <<req, row, processed, waSends, told, mute, doubts>>

\* Dedup.IsDuplicate.
CheckDuplicate(w) ==
  /\ \/ /\ Handler(w, "dedup", "none") /\ job[w].msg \in processed
        /\ HandlerOk(w)
     \/ /\ Handler(w, "dedup", "pace") /\ job[w].msg \notin processed
        /\ UNCHANGED queue
  /\ UNCHANGED <<req, row, processed, waSends, told, mute, doubts>>

\* Pacer.Wait; a limited job goes back to the queue with its row untouched.
Paced(w) ==
  /\ \/ Handler(w, "pace", "mark") /\ UNCHANGED queue
     \/ Handler(w, "pace", "none") /\ HandlerErr(w)
  /\ UNCHANGED <<req, row, processed, waSends, told, mute, doubts>>

MarkProcessing(w) ==
  /\ Handler(w, "mark", "send")
  /\ UpdateStatus(job[w].msg, "processing")
  /\ UNCHANGED <<queue, req, processed, waSends, told, mute, doubts>>

\* Manager.Send...: WhatsApp takes the message, or does not, or takes it while
\* the call reports an error.
Send(w) ==
  /\ \/ Handler(w, "send", "sentRow") /\ SendReaches(job[w].msg) /\ UNCHANGED doubts
     \/ Handler(w, "send", "failRow") /\ UNCHANGED <<waSends, doubts>>
     \/ /\ "reply" \in Hiccups
        /\ Handler(w, "send", "failRow") /\ SendReaches(job[w].msg) /\ Doubt(job[w].msg)
  /\ UNCHANGED <<queue, req, row, processed, told, mute>>

\* Seeded defect: completion is recorded under a status nothing reads.
RecordSentMistyped(w) ==
  /\ Handler(w, "sentRow", "sentMark")
  /\ UpdateStatus(job[w].msg, "sent")
  /\ UNCHANGED <<queue, req, processed, waSends, told, mute, doubts>>

RecordSent(w) ==
  /\ Handler(w, "sentRow", "sentMark")
  /\ UpdateStatus(job[w].msg, "completed")
  /\ UNCHANGED <<queue, req, processed, waSends, told, mute, doubts>>

\* Dedup.MarkProcessed.
MarkProcessed(w) ==
  /\ Handler(w, "sentMark", "sentHook")
  /\ processed' = processed \cup {job[w].msg}
  /\ UNCHANGED <<queue, req, row, waSends, told, mute, doubts>>

RecordFailed(w) ==
  /\ Handler(w, "failRow", "failHook")
  /\ UpdateStatus(job[w].msg, "failed")
  /\ UNCHANGED <<queue, req, processed, waSends, told, mute, doubts>>

\* sendStatusWebhook, then the handler returns nil or the send's error; or
\* GetJIDFromPhoneNumber panics and processMessage rejects the delivery.
StatusHook(w) ==
  /\ \/ Handler(w, "sentHook", "none") /\ HandlerOk(w) /\ Tell(job[w].msg, "sent")
     \/ Handler(w, "failHook", "none") /\ HandlerErr(w) /\ Tell(job[w].msg, "failed")
     \/ /\ Handler(w, "sentHook", "none") \/ Handler(w, "failHook", "none")
        /\ HandlerPanic(w) /\ UNCHANGED told
  /\ UNCHANGED <<req, row, processed, waSends, mute, doubts>>

\* notifyDeadLettered: message.failed reaches the client, or nobody.
Notify(w) ==
  /\ Handler(w, "notify", "none")
  /\ \/ /\ HandlerOk(w)
        /\ told' = [told EXCEPT ![job[w].msg] = @ \cup {"failed"}]
        /\ UNCHANGED mute
     \/ /\ HandlerOk(w) \/ HandlerPanic(w)
        /\ mute' = mute \cup {job[w].msg}
        /\ UNCHANGED told
  /\ UNCHANGED <<req, row, processed, waSends, doubts>>

HandlerStep(w) ==
  \/ TakeJob(w) \/ CheckDuplicate(w) \/ Paced(w) \/ MarkProcessing(w) \/ Send(w)
  \/ RecordSent(w) \/ MarkProcessed(w) \/ RecordFailed(w) \/ StatusHook(w)
  \/ Notify(w)

-----------------------------------------------------------------------------
(* The queue's own steps *)

\* Steps of the queue after the handler, which leave the job alone.
QueueStep(w) ==
  /\ PublishStored(w) \/ PublishLost(w) \/ PublishFailed(w)
     \/ Ack(w) \/ Requeue(w) \/ Reject(w) \/ WorkerExit(w)
  /\ UNCHANGED jobVars

RetryInDoubt(w) ==
  /\ PublishUnconfirmed(w)
  /\ Doubt(job[w].msg)
  /\ UNCHANGED <<req, step, row, processed, waSends, told, mute>>

\* Every unacknowledged delivery will be handed out again.
RedeliverDoubts ==
  doubts' = [m \in Msgs |->
               doubts[m] + Cardinality({c \in broker : c.msg = m /\ Unacked(c)})]

JobsConnectionLost ==
  /\ ConnectionLost
  /\ RedeliverDoubts
  /\ UNCHANGED <<req, step, row, processed, waSends, told, mute>>

\* A process that ends takes its requests, handler runs and DedupCache with it.
JobsProcessEnds ==
  /\ Drained \/ Killed
  /\ RedeliverDoubts
  /\ req' = [m \in Msgs |-> IF req[m] \in RequestEnds \cup {"new"} THEN req[m] ELSE "gone"]
  /\ step' = [w \in AllWorkers |-> "none"]
  /\ processed' = {}
  /\ UNCHANGED <<row, waSends, told, mute>>

JobNext ==
  \/ \E m \in Msgs : RequestStep(m)
  \/ \E w \in AllWorkers : HandlerStep(w) \/ QueueStep(w) \/ RetryInDoubt(w)
  \/ (\E c \in broker : Expire(c)) /\ UNCHANGED jobVars
  \/ (StartWorkers \/ Shutdown) /\ UNCHANGED jobVars
  \/ JobsConnectionLost \/ JobsProcessEnds

JobSpec == JobInit /\ [][JobNext]_allVars

\* Goroutines are scheduled, requests that have begun go on, the broker expires
\* TTLs, and a process that shuts down ends.  Nothing promises that consumers
\* are started again: the monitor of the connection may have given up.
JobFairSpec ==
  /\ JobSpec
  /\ \A w \in AllWorkers : WF_allVars(HandlerStep(w) \/ QueueStep(w))
  /\ \A m \in Msgs : WF_allVars(req[m] # "new" /\ RequestStep(m))
  /\ WF_allVars((\E c \in broker : Expire(c)) /\ UNCHANGED jobVars)
  /\ WF_allVars(Drained /\ JobsProcessEnds)

-----------------------------------------------------------------------------
(* Properties *)

\* The variables of the job keep their types.
JobTypeOK ==
  /\ req \in [Msgs -> RequestEnds \cup {"new", "create", "hook", "direct", "send",
                                        "sentHook", "failHook"}]
  /\ step \in [AllWorkers -> Steps]
  /\ \A w \in AllWorkers : step[w] # "none" <=> pc[w] = "handle"
  /\ row \in [Msgs -> Statuses]
  /\ processed \subseteq Msgs /\ mute \subseteq Msgs
  /\ waSends \in [Msgs -> Nat] /\ doubts \in [Msgs -> Nat]
  /\ told \in [Msgs -> SUBSET {"queued", "sent", "failed"}]

\* WhatsApp takes a message at most once more than the number of times the
\* system was left in doubt about it: a delivery handed out again, a lost
\* confirmation or a lost reply costs at most one extra send, and nothing else
\* (retries, dead-lettering, fallback to direct mode, panics) costs any.
SendsAccountedFor == \A m \in Msgs : waSends[m] <= 1 + doubts[m]

\* The job is over: the request has its answer and no copy is left anywhere.
Settled(m) ==
  /\ req[m] \in RequestEnds
  /\ m \notin Owed
  /\ \A w \in AllWorkers : pc[w] \in Busy => job[w].msg # m

\* With publisher confirms no message vanishes silently: when the job is over it was sent, or the
\* request itself was answered with an error (or its process died), or the
\* client was told message.failed, or the dead-letter notification itself
\* found no receiver.
NoSilentFailure ==
  PublishConfirm => \A m \in Msgs : Settled(m) =>
    \/ waSends[m] > 0 \/ req[m] \in {"error", "gone"}
    \/ "failed" \in told[m] \/ m \in mute

\* As long as nothing put the job in doubt, the row of a completed job is not
\* overwritten, although every handler run starts by writing "processing".
CompletedStays ==
  [][\A m \in Msgs :
       row[m] = "completed" /\ doubts'[m] = 0 => row'[m] = "completed"]_allVars

Consuming == \E w \in AllWorkers : live[w]

\* Every request that begins gets its answer, and unless the consumers stay
\* away for good, as they do once the monitor has given up, the job comes to an
\* end with all its copies gone: no failure, panic or redelivery keeps it going
\* round for ever (worker_pool.go 128-216).
EventuallySettled ==
  \A m \in Msgs :
    /\ req[m] # "new" ~> req[m] \in RequestEnds
    /\ <>[]~Consuming \/ (req[m] # "new" ~> Settled(m))

\* "Status is updated in the database" after the send, in a row that was
\* persisted before the publish (queue-processing.md): a job that is over and
\* was sent by a worker has a completed row.
RowKnowsOutcome ==
  \A m \in Msgs :
    Settled(m) /\ req[m] = "queued" /\ waSends[m] > 0 => row[m] = "completed"
=============================================================================
